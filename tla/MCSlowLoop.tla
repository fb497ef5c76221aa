----------------------------- MODULE MCSlowLoop -----------------------------
(* The slow loop on small instances. *)
EXTENDS SlowLoop, TLC

CONSTANTS none, make, proj

\* A command, an event without text, and a correction near the command.
MCKinds ==
    {[text |-> 1, cmd |-> make, exit |-> 0, project |-> proj, salient |-> TRUE],
     [text |-> 0, cmd |-> none, exit |-> 0, project |-> none, salient |-> FALSE]}
MCCorrections == {2}

=============================================================================
