--------------------------- MODULE MCAdapterSpool ---------------------------
(* The adapter spool on small instances. *)
EXTENDS AdapterSpool, TLC

CONSTANTS d1, d2, mcp, r1, a1

MCOutputs == {r1}
MCParts == [o \in {r1} |-> 2]
MCDecisions == [o \in {r1} |-> "reject"]
MCDrains == {d1, d2}
Watchers == Permutations(MCDrains)
MCTurns == {"turn"}
MCKinds == {"turn", "query", "frame", "handoff", "unknown"}

=============================================================================
