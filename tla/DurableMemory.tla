--------------------------- MODULE DurableMemory ---------------------------
(***************************************************************************)
(* What the claim ledger of SOMA promises, and nothing of how: a claim is  *)
(* part of durable memory (L3 long-term memory or L4 semantic facts) only  *)
(* if it was vetted before, by its source or by a confirming verification; *)
(* it may be taken out of durable memory at any time; and vetting is never *)
(* undone.                                                                 *)
(***************************************************************************)
CONSTANT Claims    \* the identities a claim row can have

VARIABLES
    vetted,     \* claims a trusted source wrote or a verifier confirmed
    durable     \* claims recalled as L3 or L4 memory

vars == <<vetted, durable>>

Init ==
    /\ vetted = {}
    /\ durable = {}

Vet(c) ==
    /\ vetted' = vetted \cup {c}
    /\ UNCHANGED durable

\* A claim of a trusted source may be recorded in a durable state at once.
Admit(c) ==
    /\ vetted' = vetted \cup {c}
    /\ durable' = durable \cup {c}

Promote(c) ==
    /\ c \in vetted
    /\ durable' = durable \cup {c}
    /\ UNCHANGED vetted

Retire(c) ==
    /\ durable' = durable \ {c}
    /\ UNCHANGED vetted

Next == \E c \in Claims : Vet(c) \/ Admit(c) \/ Promote(c) \/ Retire(c)

Spec == Init /\ [][Next]_vars

=============================================================================
