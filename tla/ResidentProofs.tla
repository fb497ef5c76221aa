--------------------------- MODULE ResidentProofs ---------------------------
(***************************************************************************)
(* Proofs about the resident, for any number of processes, connections and *)
(* background loops.                                                       *)
(*                                                                         *)
(* Reachable is about files that any process may write and remove, so it   *)
(* needs to know who else is at them: unless two processes raced, one      *)
(* process at most is amid the files (Alone), and it owns what it wrote    *)
(* from the step that wrote it on (Owns).                                  *)
(***************************************************************************)
EXTENDS Resident, TLAPS

Alone == \A p, q \in Procs : Amid(p) /\ Amid(q) => p = q

Owns(p) ==
    /\ pc[p] \in {"unlink_stale", "bind", "chmod", "serve"} => pidFile = p
    /\ pc[p] \in {"chmod", "serve"} => sockFile = p

Quiet == ~raced => Alone /\ \A p \in Procs : Owns(p)

IInv == TypeOK /\ Quiet

-----------------------------------------------------------------------------
(* Type correctness. *)

\* Ending connections keeps the type of conn.
LEMMA CloseType ==
    ASSUME NEW cs, TypeOK, Close(cs)
    PROVE  conn' \in [Clients -> Unserved \cup Served]
BY DEF Close, TypeOK, Unserved, HungUp

\* So does the end of a process for everything it touches.
LEMMA GoneType ==
    ASSUME NEW p \in Procs, TypeOK, Gone(p)
    PROVE  /\ pc' \in [Procs -> PCs]
           /\ stopping' \in [Procs -> BOOLEAN]
           /\ loop' \in [Procs -> [Loops -> LoopStates]]
           /\ conn' \in [Clients -> Unserved \cup Served]
<1>1. conn' \in [Clients -> Unserved \cup Served]
    BY CloseType DEF Gone
<1>2. pc' \in [Procs -> PCs]
    BY DEF Gone, TypeOK, PCs
<1>3. stopping' \in [Procs -> BOOLEAN]
    BY DEF Gone, TypeOK
<1>4. [l \in Loops |-> "off"] \in [Loops -> LoopStates]
    BY DEF LoopStates
<1>5. loop' \in [Procs -> [Loops -> LoopStates]]
    BY <1>4 DEF Gone, TypeOK
<1> QED
    BY <1>1, <1>2, <1>3, <1>5

\* A connection keeps its type when it moves to another stage of a handler.
LEMMA StageType ==
    ASSUME NEW c \in Clients, TypeOK, conn[c].stage # "idle",
           NEW s \in {"backlog"} \cup Handled,
           conn' = [conn EXCEPT ![c].stage = s]
    PROVE  conn' \in [Clients -> Unserved \cup Served]
<1>1. conn[c] \in Served
    BY DEF TypeOK, Unserved
<1>2. [conn[c] EXCEPT !.stage = s] \in Served
    BY <1>1 DEF Served
<1> QED
    BY <1>2 DEF TypeOK

LEMMA InitType == Init => TypeOK
<1> SUFFICES ASSUME Init PROVE TypeOK
    OBVIOUS
<1>1. [l \in Loops |-> "off"] \in [Loops -> LoopStates]
    BY DEF LoopStates
<1>2. loop \in [Procs -> [Loops -> LoopStates]]
    BY <1>1 DEF Init
<1>3. conn \in [Clients -> Unserved \cup Served]
    BY DEF Init, Unserved
<1> QED
    BY <1>2, <1>3 DEF Init, TypeOK, PCs

LEMMA BootType ==
    ASSUME NEW p \in Procs, TypeOK, Start(p) \/ Boot(p)
    PROVE  TypeOK'
<1>1. CASE Start(p)
    BY <1>1 DEF Start, At, TypeOK, PCs, Starting, files, inside
<1>2. CASE Probe(p)
    BY <1>2 DEF Probe, At, TypeOK, PCs, Starting, files, inside
<1>3. CASE WritePid(p)
    BY <1>3 DEF WritePid, PidWritten, At, TypeOK, PCs, Starting, inside
<1>4. CASE UnlinkStale(p)
    BY <1>4 DEF UnlinkStale, At, TypeOK, PCs, Starting, inside
<1>5. CASE Bind(p)
    BY <1>5 DEF Bind, At, TypeOK, PCs, Starting, inside
<1>6. CASE Chmod(p)
  <2>1. pc' \in [Procs -> PCs]
    BY <1>6 DEF Chmod, At, TypeOK, PCs, Starting
  <2>2. [l \in Loops |-> "waiting"] \in [Loops -> LoopStates]
    BY DEF LoopStates
  <2>3. loop' \in [Procs -> [Loops -> LoopStates]]
    BY <1>6, <2>2 DEF Chmod, TypeOK
  <2> QED
    BY <1>6, <2>1, <2>3 DEF Chmod, TypeOK, files
<1>7. CASE UndoPid(p)
  <2>1. CASE pc[p] = "undo_bind" /\ Gone(p)
    BY <1>7, <2>1, GoneType DEF UndoPid, TypeOK
  <2>2. CASE At(p, "undo_chmod", "undo_sock") /\ UNCHANGED <<stopping, loop, conn>>
    BY <1>7, <2>2 DEF UndoPid, At, TypeOK, PCs, Starting
  <2> QED
    BY <1>7, <2>1, <2>2 DEF UndoPid
<1>8. CASE UndoSock(p)
    BY <1>8, GoneType DEF UndoSock, TypeOK
<1> QED
    BY <1>1, <1>2, <1>3, <1>4, <1>5, <1>6, <1>7, <1>8 DEF Boot

LEMMA ClientType ==
    ASSUME NEW c \in Clients, TypeOK,
           \/ Connect(c) \/ Hello(c) \/ Request(c) \/ Reply(c) \/ Leave(c)
           \/ \E p \in Procs : Accept(p, c)
    PROVE  TypeOK'
<1>1. CASE Connect(c)
  <2>1. sockFile \in Procs
    BY <1>1 DEF Connect, TypeOK
  <2>2. [server |-> sockFile, stage |-> "backlog"] \in Served
    BY <2>1 DEF Served
  <2> QED
    BY <1>1, <2>2 DEF Connect, TypeOK, files
<1>2. CASE \E p \in Procs : Accept(p, c)
  <2>1. PICK p \in Procs : Accept(p, c)
    BY <1>2
  <2>2. conn' \in [Clients -> Unserved \cup Served]
    BY <2>1, StageType DEF Accept, Acceptable, Backlog, Handled
  <2> QED
    BY <2>1, <2>2 DEF Accept, TypeOK, files
<1>3. CASE Hello(c)
  <2>1. conn' \in [Clients -> Unserved \cup Served]
    BY <1>3, StageType, CloseType DEF Hello, Handled
  <2> QED
    BY <1>3, <2>1 DEF Hello, TypeOK, files
<1>4. CASE Request(c)
  <2>1. conn' \in [Clients -> Unserved \cup Served]
    BY <1>4, StageType DEF Request, Handled
  <2> QED
    BY <1>4, <2>1 DEF Request, TypeOK, files
<1>5. CASE Reply(c)
    BY <1>5, CloseType DEF Reply, TypeOK, files
<1>6. CASE Leave(c)
    BY <1>6 DEF Leave, HungUp, Unserved, TypeOK, files
<1> QED
    BY <1>1, <1>2, <1>3, <1>4, <1>5, <1>6

LEMMA StopType ==
    ASSUME NEW p \in Procs, TypeOK,
           Signal(p) \/ Shut(p) \/ AcceptFails(p) \/ Crash(p)
    PROVE  TypeOK'
<1>1. CASE Signal(p)
    BY <1>1 DEF Signal, TypeOK, files
<1>2. CASE Break(p) \/ AcceptFails(p)
  <2>1. conn' \in [Clients -> Unserved \cup Served]
    BY <1>2, CloseType DEF Break, AcceptFails
  <2> QED
    BY <1>2, <2>1 DEF Break, AcceptFails, At, TypeOK, PCs, Stopping, files
<1>3. CASE UnlinkSock(p)
    BY <1>3 DEF UnlinkSock, At, TypeOK, PCs, Stopping, inside
<1>4. CASE Drain(p)
  <2>1. conn' \in [Clients -> Unserved \cup Served]
    BY <1>4, CloseType DEF Drain
  <2> QED
    BY <1>4, <2>1 DEF Drain, At, TypeOK, PCs, Stopping, files
<1>5. CASE UnlinkPid(p)
    BY <1>5 DEF UnlinkPid, At, TypeOK, PCs, Stopping, inside
<1>6. CASE Exit(p) \/ Crash(p)
    BY <1>6, GoneType DEF Exit, Crash, TypeOK, files
<1> QED
    BY <1>1, <1>2, <1>3, <1>4, <1>5, <1>6 DEF Shut

LEMMA LoopType ==
    ASSUME NEW p \in Procs, NEW l \in Loops, TypeOK,
           Tick(p, l) \/ EndCycle(p, l) \/ EndLoop(p, l)
    PROVE  TypeOK'
<1>1. PICK s \in LoopStates, t \in LoopStates : LoopStep(p, l, s, t)
    BY DEF Tick, EndCycle, EndLoop, LoopStates
<1>2. [loop[p] EXCEPT ![l] = t] \in [Loops -> LoopStates]
    BY DEF TypeOK
<1>3. loop' \in [Procs -> [Loops -> LoopStates]]
    BY <1>1, <1>2 DEF LoopStep, TypeOK
<1> QED
    BY <1>1, <1>3 DEF LoopStep, TypeOK, files

LEMMA NextType == TypeOK /\ [Next]_vars => TypeOK'
<1> SUFFICES ASSUME TypeOK, [Next]_vars PROVE TypeOK'
    OBVIOUS
<1>1. CASE UNCHANGED vars
    BY <1>1 DEF vars, TypeOK
<1>2. CASE Next
    BY <1>2, BootType, StopType, ClientType, LoopType DEF Next
<1> QED
    BY <1>1, <1>2

\* The type invariant, for every value of the constants.
THEOREM TypeCorrect == Spec => []TypeOK
BY InitType, NextType, PTL DEF Spec

-----------------------------------------------------------------------------
(* Reachability. *)

\* A step that leaves the files, the history and every place as they were.
LEMMA SameFiles ==
    ASSUME Quiet, UNCHANGED <<files, pc, raced>>
    PROVE  Quiet'
BY DEF Quiet, Alone, Amid, Owns, files

\* A step of p to a place where it has nothing to do with the files.
LEMMA OutsideStep ==
    ASSUME TypeOK, Quiet, NEW p \in Procs, UNCHANGED <<files, raced>>,
           NEW s \in {"off", "probe", "cascade"}, pc' = [pc EXCEPT ![p] = s]
    PROVE  Quiet'
<1>1. \A q \in Procs : pc'[q] = IF q = p THEN s ELSE pc[q]
    BY DEF TypeOK
<1>2. Alone => Alone'
    BY <1>1 DEF Alone, Amid
<1>3. \A q \in Procs : Owns(q) => Owns(q)'
    BY <1>1 DEF Owns, files
<1> QED
    BY <1>2, <1>3 DEF Quiet

\* A step of p amid the files: nobody else is, so Quiet needs only what p owns
\* where it is now.
LEMMA OwnStep ==
    ASSUME TypeOK, Quiet, NEW p \in Procs, Amid(p), UNCHANGED raced,
           NEW s, pc' = [pc EXCEPT ![p] = s],
           ~raced /\ Owns(p) => Owns(p)'
    PROVE  Quiet'
<1> SUFFICES ASSUME ~raced PROVE Alone' /\ \A q \in Procs : Owns(q)'
    BY DEF Quiet
<1>1. \A q \in Procs : q # p => ~Amid(q) /\ pc'[q] = pc[q]
    BY DEF Quiet, Alone, TypeOK
<1>2. Owns(p)'
    BY DEF Quiet
<1>3. \A q \in Procs : q # p => Owns(q)'
    BY <1>1 DEF Owns, Amid
<1>4. \A q \in Procs : q # p => ~Amid(q)'
    BY <1>1 DEF Amid
<1> QED
    BY <1>2, <1>3, <1>4 DEF Alone

\* A PID check that passes while nobody is amid the files.
LEMMA ProbeQuiet ==
    ASSUME TypeOK, Quiet, NEW p \in Procs, Probe(p)
    PROVE  Quiet'
<1>1. CASE At(p, "probe", "off") /\ UNCHANGED raced
    BY <1>1, OutsideStep DEF Probe, At
<1>2. CASE At(p, "probe", "write_pid") /\ raced' = (\E q \in Procs : Amid(q))
  <2> SUFFICES ASSUME ~raced' PROVE Alone' /\ \A q \in Procs : Owns(q)'
    BY DEF Quiet
  <2>1. \A q \in Procs : pc[q] \in {"off", "probe", "cascade"}
    BY <1>2 DEF Amid
  <2>2. \A q \in Procs : pc'[q] = IF q = p THEN "write_pid" ELSE pc[q]
    BY <1>2 DEF At, TypeOK
  <2> QED
    BY <2>1, <2>2 DEF Alone, Amid, Owns
<1> QED
    BY <1>1, <1>2 DEF Probe

LEMMA BootQuiet ==
    ASSUME TypeOK, Quiet, NEW p \in Procs, Start(p) \/ Boot(p)
    PROVE  Quiet'
<1>1. CASE Start(p)
    BY <1>1, OutsideStep DEF Start, At, inside
<1>2. CASE WritePid(p)
    BY <1>2, OwnStep DEF WritePid, PidWritten, At, Amid, Owns, inside, TypeOK
<1>3. CASE UnlinkStale(p)
    BY <1>3, OwnStep DEF UnlinkStale, At, Amid, Owns, inside, TypeOK
<1>4. CASE Bind(p)
    BY <1>4, OwnStep DEF Bind, At, Amid, Owns, inside, TypeOK
<1>5. CASE Chmod(p)
    BY <1>5, OwnStep DEF Chmod, At, Amid, Owns, files, TypeOK
<1>6. CASE UndoPid(p)
    BY <1>6, OwnStep DEF UndoPid, Gone, At, Amid, Owns, TypeOK
<1>7. CASE UndoSock(p)
    BY <1>7, OwnStep DEF UndoSock, Gone, Amid, Owns, TypeOK
<1> QED
    BY <1>1, <1>2, <1>3, <1>4, <1>5, <1>6, <1>7, ProbeQuiet DEF Boot

LEMMA StopQuiet ==
    ASSUME TypeOK, Quiet, NEW p \in Procs,
           Signal(p) \/ Shut(p) \/ AcceptFails(p) \/ Crash(p)
    PROVE  Quiet'
<1>1. CASE Signal(p)
    BY <1>1, SameFiles DEF Signal, files
<1>2. CASE Break(p) \/ AcceptFails(p) \/ Drain(p)
    BY <1>2, OwnStep DEF Break, AcceptFails, Drain, At, Amid, Owns, TypeOK
<1>3. CASE UnlinkSock(p) \/ UnlinkPid(p)
    BY <1>3, OwnStep DEF UnlinkSock, UnlinkPid, At, Amid, Owns, inside, TypeOK
<1>4. CASE Exit(p) \/ Crash(p)
    BY <1>4, OutsideStep DEF Exit, Crash, Gone
<1> QED
    BY <1>1, <1>2, <1>3, <1>4 DEF Shut

LEMMA NextQuiet == TypeOK /\ Quiet /\ [Next]_vars => Quiet'
<1> SUFFICES ASSUME TypeOK, Quiet, [Next]_vars PROVE Quiet'
    OBVIOUS
<1>1. CASE UNCHANGED vars
    BY <1>1, SameFiles DEF vars, files
<1>2. ASSUME NEW p \in Procs,
             \/ Start(p) \/ Boot(p) \/ Signal(p) \/ Shut(p)
             \/ AcceptFails(p) \/ Crash(p)
      PROVE  Quiet'
    BY <1>2, BootQuiet, StopQuiet
<1>3. ASSUME NEW c \in Clients,
             \/ Connect(c) \/ Hello(c) \/ Request(c) \/ Reply(c) \/ Leave(c)
             \/ \E p \in Procs : Accept(p, c)
      PROVE  Quiet'
    BY <1>3, SameFiles DEF Connect, Hello, Request, Reply, Leave, Accept, files
<1>4. ASSUME NEW p \in Procs, NEW l \in Loops,
             Tick(p, l) \/ EndCycle(p, l) \/ EndLoop(p, l)
      PROVE  Quiet'
    BY <1>4, SameFiles DEF Tick, EndCycle, EndLoop, LoopStep, files
<1> QED
    BY <1>1, <1>2, <1>3, <1>4 DEF Next

\* A resident that serves owns its socket and its PID file, whatever killed
\* residents left behind and however often a start was refused, unless its PID
\* check passed while another process was amid the files.
THEOREM ServingIsReachable == Spec => []Reachable
<1>1. Init => IInv
    BY InitType DEF Init, IInv, Quiet, Alone, Amid, Owns
<1>2. IInv /\ [Next]_vars => IInv'
    BY NextType, NextQuiet DEF IInv
<1>3. IInv => Reachable
    BY DEF IInv, Quiet, Owns, Reachable
<1> QED
    BY <1>1, <1>2, <1>3, PTL DEF Spec

=============================================================================
