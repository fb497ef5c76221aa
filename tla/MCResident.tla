----------------------------- MODULE MCResident -----------------------------
(* The resident on a small instance.  The two loops are told to end and are   *)
(* waited for in the same way, so one of them stands for both.                *)
EXTENDS Resident

CONSTANTS p1, p2, c1, c2, slow

MCProcs == {p1, p2}
MCClients == {c1, c2}
MCLoops == {slow}

=============================================================================
