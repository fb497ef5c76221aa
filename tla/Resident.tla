------------------------------ MODULE Resident ------------------------------
(***************************************************************************)
(* The resident process (`soma start`) and its control socket: how a       *)
(* process claims the run directory with soma.pid and soma.sock, serves    *)
(* one request per connection, drains when it is told to stop and takes    *)
(* the warm and the slow loop down with it.  Every file operation is a     *)
(* step, so starts and stops of several processes interleave; a process    *)
(* can be killed anywhere and leaves its files behind.                     *)
(*                                                                         *)
(* What a request asks for is left out, but for Stop.  A new `soma start`  *)
(* is a new process: an element of Procs that is off stands for any        *)
(* process whose id it will get.                                           *)
(***************************************************************************)

CONSTANTS
    Procs,      \* process ids of `soma start`
    Clients,    \* connections of CLI commands and MCP servers
    Loops       \* the background loops of one process: the warm and the slow loop

None == "none"
ASSUME NoneIsNoProcess == None \notin Procs

VARIABLES
    pidFile,    \* the process id in soma.pid, or None
    sockFile,   \* the process that bound soma.sock, or None
    pc,         \* pc[p]: where process p is; "off" is no process at all
    stopping,   \* stopping[p]: the shutdown broadcast of p was sent
    loop,       \* loop[p][l]: what background loop l of p does
    conn,       \* conn[c]: the server of connection c, and its stage
    raced       \* history: the last PID check that passed met a process Amid

vars == <<pidFile, sockFile, pc, stopping, loop, conn, raced>>
files == <<pidFile, sockFile>>
inside == <<stopping, loop, conn, raced>>

LoopStates == {"off", "waiting", "cycle", "ended"}

Starting == {"probe", "write_pid", "unlink_stale", "bind", "chmod",
             "undo_bind", "undo_chmod", "undo_sock"}
Stopping == {"unlink_sock", "drain", "unlink_pid", "unlink_pid_again", "cascade"}
PCs == {"off", "serve"} \cup Starting \cup Stopping

\* A handler runs from "hello" to its reply.
Handled == {"hello", "request", "answer", "stop_ack"}
Unserved == [server : {None}, stage : {"idle"}]
Served == [server : Procs, stage : {"backlog"} \cup Handled]

\* Mutant: the place in the backlog outlives the connection.
HungUpInBacklog == [server |-> None, stage |-> "backlog"]

HungUp == [server |-> None, stage |-> "idle"]

TypeOK ==
    /\ pidFile \in Procs \cup {None}
    /\ sockFile \in Procs \cup {None}
    /\ pc \in [Procs -> PCs]
    /\ stopping \in [Procs -> BOOLEAN]
    /\ loop \in [Procs -> [Loops -> LoopStates]]
    /\ conn \in [Clients -> Unserved \cup Served]
    /\ raced \in BOOLEAN

Alive(p) == pc[p] # "off"
\* Between its PID check and its last file operation.
Amid(p) == pc[p] \notin {"off", "probe", "cascade"}
Listening(p) == pc[p] \in {"chmod", "serve"}
InFlight(p) == {c \in Clients : conn[c].server = p /\ conn[c].stage \in Handled}
Backlog(p) == {c \in Clients : conn[c].server = p /\ conn[c].stage = "backlog"}

At(p, here, there) == pc[p] = here /\ pc' = [pc EXCEPT ![p] = there]
Close(cs) == conn' = [c \in Clients |-> IF c \in cs THEN HungUp ELSE conn[c]]

\* p is gone: with it go its loops, its handlers and its listener.
Gone(p) ==
    /\ pc' = [pc EXCEPT ![p] = "off"]
    /\ stopping' = [stopping EXCEPT ![p] = FALSE]
    /\ loop' = [loop EXCEPT ![p] = [l \in Loops |-> "off"]]
    /\ Close(InFlight(p) \cup Backlog(p))

-----------------------------------------------------------------------------
(* Resident::start. *)

Start(p) ==
    /\ At(p, "off", "probe")
    /\ UNCHANGED <<files, inside>>

\* refuse_if_already_running: kill(pid, 0) on what soma.pid holds.  The id of a
\* process that is gone may belong to any other program by now.
Probe(p) ==
    /\ \/ /\ pidFile # None => ~Alive(pidFile)
          /\ At(p, "probe", "write_pid")
          /\ raced' = (\E q \in Procs : Amid(q))
       \/ /\ pidFile # None
          /\ At(p, "probe", "off")
          /\ UNCHANGED raced
    /\ UNCHANGED <<files, stopping, loop, conn>>

\* Mutant: a PID file that is there already is left as it is.
PidKept(p) == IF pidFile = None THEN p ELSE pidFile

\* write_pid_file renames a file of its own over soma.pid.
PidWritten(p) == p

WritePid(p) ==
    /\ At(p, "write_pid", "unlink_stale")
    /\ pidFile' = PidWritten(p)
    /\ UNCHANGED <<sockFile, inside>>

UnlinkStale(p) ==
    /\ At(p, "unlink_stale", "bind")
    /\ sockFile' = None
    /\ UNCHANGED <<pidFile, inside>>

Bind(p) ==
    /\ \/ /\ sockFile = None
          /\ At(p, "bind", "chmod")
          /\ sockFile' = p
       \/ /\ sockFile # None
          /\ At(p, "bind", "undo_bind")
          /\ UNCHANGED sockFile
    /\ UNCHANGED <<pidFile, inside>>

\* set_permissions fails if soma.sock is gone; otherwise the loops are spawned.
Chmod(p) ==
    /\ \/ /\ sockFile # None
          /\ At(p, "chmod", "serve")
          /\ loop' = [loop EXCEPT ![p] = [l \in Loops |-> "waiting"]]
       \/ /\ sockFile = None
          /\ At(p, "chmod", "undo_chmod")
          /\ UNCHANGED loop
    /\ UNCHANGED <<files, stopping, conn, raced>>

\* The error paths remove the files, whoever wrote them by now.
UndoPid(p) ==
    /\ \/ pc[p] = "undo_bind" /\ Gone(p)
       \/ /\ At(p, "undo_chmod", "undo_sock")
          /\ UNCHANGED <<stopping, loop, conn>>
    /\ pidFile' = None
    /\ UNCHANGED <<sockFile, raced>>

UndoSock(p) ==
    /\ pc[p] = "undo_sock"
    /\ Gone(p)
    /\ sockFile' = None
    /\ UNCHANGED <<pidFile, raced>>

-----------------------------------------------------------------------------
(* Connections: Hello, one request, one response. *)

Connect(c) ==
    /\ conn[c].stage = "idle"
    /\ sockFile # None
    /\ Listening(sockFile)
    /\ conn' = [conn EXCEPT ![c] = [server |-> sockFile, stage |-> "backlog"]]
    /\ UNCHANGED <<files, pc, stopping, loop, raced>>

\* Mutant: a connection is handled before the next one is accepted.
AcceptableAlone(p, c) == c \in Backlog(p) /\ InFlight(p) = {}

\* Every connection gets a task of its own, however many are in flight.
Acceptable(p, c) == c \in Backlog(p)

Accept(p, c) ==
    /\ pc[p] = "serve"
    /\ Acceptable(p, c)
    /\ conn' = [conn EXCEPT ![c].stage = "hello"]
    /\ UNCHANGED <<files, pc, stopping, loop, raced>>

\* handle_connection: Hello of another protocol version ends the connection.
Hello(c) ==
    /\ conn[c].stage = "hello"
    /\ \/ conn' = [conn EXCEPT ![c].stage = "request"]
       \/ Close({c})
    /\ UNCHANGED <<files, pc, stopping, loop, raced>>

\* A Stop request sends the broadcast before it is acknowledged.
Request(c) ==
    /\ conn[c].stage = "request"
    /\ \/ /\ conn' = [conn EXCEPT ![c].stage = "answer"]
          /\ UNCHANGED stopping
       \/ /\ conn' = [conn EXCEPT ![c].stage = "stop_ack"]
          /\ stopping' = [stopping EXCEPT ![conn[c].server] = TRUE]
    /\ UNCHANGED <<files, pc, loop, raced>>

Reply(c) ==
    /\ conn[c].stage \in {"answer", "stop_ack"}
    /\ Close({c})
    /\ UNCHANGED <<files, pc, stopping, loop, raced>>

\* The client gives up: its timeout ends, or it is killed.
Leave(c) ==
    /\ conn[c].stage \in Handled \cup {"backlog"}
    /\ conn' = [conn EXCEPT ![c] = HungUp]
    /\ UNCHANGED <<files, pc, stopping, loop, raced>>

-----------------------------------------------------------------------------
(* Shutdown: accept_loop after its select, join_in_place, run_blocking. *)

\* SIGINT or SIGTERM, once wait_for_shutdown_signal listens.
Signal(p) ==
    /\ pc[p] \in {"serve"} \cup Stopping
    /\ stopping' = [stopping EXCEPT ![p] = TRUE]
    /\ UNCHANGED <<files, pc, loop, conn, raced>>

\* The accept loop ends on the broadcast; connections nobody accepted end with
\* the listener.
Break(p) ==
    /\ stopping[p]
    /\ At(p, "serve", "unlink_sock")
    /\ Close(Backlog(p))
    /\ UNCHANGED <<files, stopping, loop, raced>>

\* It also ends when accept fails, with no broadcast sent.
AcceptFails(p) ==
    /\ At(p, "serve", "unlink_sock")
    /\ Close(Backlog(p))
    /\ UNCHANGED <<files, stopping, loop, raced>>

UnlinkSock(p) ==
    /\ At(p, "unlink_sock", "drain")
    /\ sockFile' = None
    /\ UNCHANGED <<pidFile, inside>>

\* Mutant: the drain waits for every handler, however long it takes.
NeverExpires(p) == InFlight(p) = {}

DrainExpires(p) == TRUE

\* The handlers ended, or shutdown_drain did and they are aborted.
Drain(p) ==
    /\ DrainExpires(p)
    /\ At(p, "drain", "unlink_pid")
    /\ Close(InFlight(p))
    /\ UNCHANGED <<files, stopping, loop, raced>>

\* Twice, at the end of accept_loop and in join_in_place, whoever wrote the file.
UnlinkPid(p) ==
    /\ \/ At(p, "unlink_pid", "unlink_pid_again")
       \/ At(p, "unlink_pid_again", "cascade")
    /\ pidFile' = None
    /\ UNCHANGED <<sockFile, inside>>

Exit(p) ==
    /\ pc[p] = "cascade"
    /\ \A l \in Loops : loop[p][l] = "ended"
    /\ Gone(p)
    /\ UNCHANGED <<files, raced>>

\* Killed at any point; the files stay.
Crash(p) ==
    /\ Alive(p)
    /\ Gone(p)
    /\ UNCHANGED <<files, raced>>

-----------------------------------------------------------------------------
(* The warm and the slow loop. *)

LoopStep(p, l, here, there) ==
    /\ loop[p][l] = here
    /\ loop' = [loop EXCEPT ![p][l] = there]
    /\ UNCHANGED <<files, pc, stopping, conn, raced>>

Tick(p, l) == LoopStep(p, l, "waiting", "cycle")
EndCycle(p, l) == LoopStep(p, l, "cycle", "waiting")

\* The loop looks at its watch channel between cycles only.
EndLoop(p, l) == pc[p] = "cascade" /\ LoopStep(p, l, "waiting", "ended")

-----------------------------------------------------------------------------

Init ==
    /\ pidFile = None
    /\ sockFile = None
    /\ pc = [p \in Procs |-> "off"]
    /\ stopping = [p \in Procs |-> FALSE]
    /\ loop = [p \in Procs |-> [l \in Loops |-> "off"]]
    /\ conn = [c \in Clients |-> [server |-> None, stage |-> "idle"]]
    /\ raced = FALSE

Boot(p) ==
    Probe(p) \/ WritePid(p) \/ UnlinkStale(p) \/ Bind(p) \/ Chmod(p)
        \/ UndoPid(p) \/ UndoSock(p)

Shut(p) == Break(p) \/ UnlinkSock(p) \/ Drain(p) \/ UnlinkPid(p) \/ Exit(p)

Next ==
    \/ \E p \in Procs : Start(p) \/ Boot(p) \/ Signal(p) \/ Shut(p)
                          \/ AcceptFails(p) \/ Crash(p)
    \/ \E p \in Procs, c \in Clients : Accept(p, c)
    \/ \E c \in Clients : Connect(c) \/ Hello(c) \/ Request(c) \/ Reply(c) \/ Leave(c)
    \/ \E p \in Procs, l \in Loops : Tick(p, l) \/ EndCycle(p, l) \/ EndLoop(p, l)

Spec == Init /\ [][Next]_vars

\* The runtime polls the accept loop and the tasks behind it, a cycle ends, and
\* select! does not pass over a loop's watch channel for ever.  Nothing is
\* assumed of clients, of signals or of who starts processes.
FairSpec ==
    /\ Spec
    /\ \A p \in Procs : WF_vars(Boot(p)) /\ WF_vars(Shut(p))
    /\ \A p \in Procs, c \in Clients : WF_vars(Accept(p, c))
    /\ \A p \in Procs, l \in Loops : WF_vars(EndCycle(p, l)) /\ SF_vars(EndLoop(p, l))

-----------------------------------------------------------------------------
(* Properties. *)

\* Resident::start: whatever files killed residents left behind and however often
\* a start is refused, a resident that serves is the one soma.sock leads to and
\* soma.pid names, so clients reach it and the next start is refused; unless its
\* PID check passed while another process was still claiming or giving up the
\* files (which happens, see OnlyStaleUnlinked).
Reachable ==
    ~raced => \A p \in Procs : pc[p] = "serve" => sockFile = p /\ pidFile = p

\* resident.rs, accept_loop: a resident that was told to stop ends, whatever its
\* clients do or fail to do and whatever its loops are busy with.
StopIsHonoured == \A p \in Procs : stopping[p] ~> ~Alive(p)

\* resident.rs, accept_loop: a connection is accepted or ended, however many
\* others hang in their handlers and wherever the resident is in its shutdown.
NoneIsStranded ==
    \A c \in Clients : conn[c].stage = "backlog" ~> conn[c].stage # "backlog"

\* Resident::start, before it unlinks soma.sock: "The PID-file check above already
\* ruled out a live one."
OnlyStaleUnlinked ==
    \A p, q \in Procs : pc[p] = "unlink_stale" /\ q # p => pc[q] # "serve"

=============================================================================
