---------------------------- MODULE AdapterSpool ----------------------------
(* `soma adapter-spool` (cli/adapter_spool.rs) over the captures of          *)
(* CloudCapture.  Clients append events, one per line, to a JSONL file; a    *)
(* watcher runs a drain again and again (tools/soma-adapter-spool-watch.sh). *)
(* A drain reads the checkpoint, captures line after line to the end of the  *)
(* file, and writes the checkpoint only then: a drain that is killed, or     *)
(* that meets a line it cannot capture, leaves the checkpoint where it was,  *)
(* and the next one captures the same lines again.                           *)
(*                                                                           *)
(* Offsets are counted in lines.  fs::write truncates the checkpoint file    *)
(* before it writes it: Empty is the file in between.                        *)
EXTENDS CloudCapture

CONSTANTS
    Kinds,      \* the kinds of line clients append
    MaxLines,   \* bound on the lines of the spool
    MaxStarts,  \* bound on the drains started and the calls of the MCP tool
    MaxKills    \* bound on the processes killed

ASSUME SpoolAssumption ==
    /\ Kinds \subseteq {"turn", "query", "frame", "handoff", "unknown"}
    /\ MaxLines \in Nat /\ MaxStarts \in Nat /\ MaxKills \in Nat

VARIABLES
    spool,      \* the lines of the JSONL file
    checkpoint, \* the content of the checkpoint file; 0 when there is none
    drain,      \* drain -> where it is
    starts,     \* the drains and calls started so far
    kills,      \* the processes killed so far
    again       \* history: lines a drain may have captured without a checkpoint

file == <<spool, checkpoint>>
budget == <<starts, kills>>
vars == <<tables, job, disturbed, file, drain, budget, again>>

Empty == -1
Off == [pc |-> "off"]
Lines == [kind: {"turn", "unknown"}] \cup [kind: {"cloud_output"}, req: Requests]

At(d, x) == drain' = [drain EXCEPT ![d] = x]

\* The requests a client can make: about a query, or about a frame it was
\* given, with or without the handoff id.
RequestsOf(kind) ==
    IF kind = "query"
    THEN [out: Outputs, frame: {0}, meant: {0}, handed: {FALSE}]
    ELSE {r \in Requests : /\ r.frame # 0 /\ frames[r.frame] # Absent
                           /\ r.meant = frames[r.frame]
                           /\ r.handed = (kind = "handoff")}

\* append_json_str, or a client that writes its line itself.
Append1 ==
    /\ Len(spool) < MaxLines
    /\ \E k \in Kinds :
         \/ /\ k \in {"turn", "unknown"}
            /\ spool' = Append(spool, [kind |-> k])
         \/ /\ k \notin {"turn", "unknown"}
            /\ \E r \in RequestsOf(k) :
                 spool' = Append(spool, [kind |-> "cloud_output", req |-> r])
    /\ UNCHANGED <<tables, job, disturbed, checkpoint, drain, budget, again>>

\* The lines that are captured twice when a drain that started at s dies at n.
Between(s, n) == {i \in 1 .. MaxLines : s < i /\ i <= n}

\* drain_once reads the checkpoint; an empty file is malformed input.
Start(d) ==
    /\ drain[d] = Off /\ starts < MaxStarts
    /\ checkpoint # Empty
    /\ At(d, [pc |-> "line", start |-> checkpoint, at |-> checkpoint])
    /\ again' = again \cup
          (IF \E e \in Drains : drain[e] # Off THEN Between(checkpoint, MaxLines) ELSE {})
    /\ starts' = starts + 1
    /\ UNCHANGED <<tables, job, disturbed, file, kills>>

Stop(d) ==
    /\ At(d, Off)
    /\ again' = again \cup Between(drain[d].start, drain[d].at + 1)

Passed(d) == [drain[d] EXCEPT !.pc = "line", !.at = @ + 1]

\* process_line of a turn: one transaction stores the episode.
CaptureTurn(d) ==
    /\ drain[d].pc = "line" /\ drain[d].at < Len(spool)
    /\ spool[drain[d].at + 1].kind = "turn"
    /\ Len(episodes) < MaxEpisodes
    /\ episodes' = Append(episodes, drain[d].at + 1)
    /\ At(d, Passed(d))
    /\ UNCHANGED <<frames, claims, proposals, job, disturbed, file, budget, again>>

\* process_line of an answer
CaptureOutput(d) ==
    /\ drain[d].pc = "line" /\ drain[d].at < Len(spool)
    /\ spool[drain[d].at + 1].kind = "cloud_output"
    /\ Begin(d, spool[drain[d].at + 1].req)
    /\ At(d, [drain[d] EXCEPT !.pc = "capture"])
    /\ UNCHANGED <<tables, disturbed, file, budget, again>>

\* process_line of a line it does not know: the drain ends with an error.
Malformed(d) ==
    /\ drain[d].pc = "line" /\ drain[d].at < Len(spool)
    /\ spool[drain[d].at + 1].kind = "unknown"
    /\ Stop(d)
    /\ UNCHANGED <<tables, job, disturbed, file, budget>>

\* The capture returned.
Captures(d) ==
    /\ drain[d].pc = "capture" /\ job[d].pc = "done"
    /\ Fail(d)
    /\ At(d, Passed(d))
    /\ UNCHANGED <<tables, disturbed, file, budget, again>>

\* The capture failed, and the drain with it.
CaptureFailed(d) ==
    /\ drain[d].pc = "capture" /\ job[d] = Idle
    /\ Stop(d)
    /\ UNCHANGED <<tables, job, disturbed, file, budget>>

\* write_checkpoint, reached at the end of the file: truncate, then write.
Truncate(d) ==
    /\ drain[d].pc = "line" /\ drain[d].at = Len(spool)
    /\ checkpoint' = Empty
    /\ At(d, [drain[d] EXCEPT !.pc = "write"])
    /\ UNCHANGED <<tables, job, disturbed, spool, budget, again>>

\* Mutant: the checkpoint passes the line after the last one captured.
OffsetPast(d) == drain[d].at + 1

\* Mutant: the checkpoint is written back as it was read.
OffsetAsRead(d) == drain[d].start

Offset(d) == drain[d].at

Write(d) ==
    /\ drain[d].pc = "write"
    /\ checkpoint' = Offset(d)
    /\ At(d, Off)
    /\ UNCHANGED <<tables, job, disturbed, spool, budget, again>>

\* The drain is killed; what it committed stays.
Kill(d) ==
    /\ drain[d] # Off /\ kills < MaxKills
    /\ Stop(d)
    /\ Fail(d)
    /\ disturbed' = disturbed \cup Cut(d)
    /\ kills' = kills + 1
    /\ UNCHANGED <<tables, file, starts>>

\* The MCP tool is called by a client that holds a frame; its process can be
\* killed as well, and the client may call again.
Call(c) ==
    /\ job[c] = Idle /\ starts < MaxStarts
    /\ \E r \in RequestsOf("handoff") : Begin(c, r)
    /\ starts' = starts + 1
    /\ UNCHANGED <<tables, disturbed, file, drain, kills, again>>

Answer(c) ==
    /\ job[c].pc = "done"
    /\ Fail(c)
    /\ UNCHANGED <<tables, disturbed, file, drain, budget, again>>

KillCall(c) ==
    /\ job[c] # Idle /\ kills < MaxKills
    /\ Fail(c)
    /\ disturbed' = disturbed \cup Cut(c)
    /\ kills' = kills + 1
    /\ UNCHANGED <<tables, file, drain, starts, again>>

-----------------------------------------------------------------------------

Init ==
    /\ episodes = <<>>
    /\ frames = [f \in FrameIds |-> Absent]
    /\ claims = <<>>
    /\ proposals = <<>>
    /\ job = [p \in Procs |-> Idle]
    /\ disturbed = {}
    /\ spool = <<>>
    /\ checkpoint = 0
    /\ drain = [d \in Drains |-> Off]
    /\ starts = 0 /\ kills = 0
    /\ again = {}

Frames == BuildFrame \/ \E f \in FrameIds : Retain(f)

Drain(d) ==
    \/ Start(d) \/ CaptureTurn(d) \/ CaptureOutput(d) \/ Malformed(d)
    \/ Captures(d) \/ CaptureFailed(d) \/ Truncate(d) \/ Write(d)

Next ==
    \/ Append1
    \/ Frames /\ UNCHANGED <<file, drain, budget, again>>
    \/ \E d \in Drains : Drain(d) \/ Kill(d)
    \/ \E p \in Procs : Capture(p) /\ UNCHANGED <<file, drain, budget, again>>
    \/ \E c \in Callers : Call(c) \/ Answer(c) \/ KillCall(c)

Spec == Init /\ [][Next]_vars

\* A watcher polls for as long as the machine is up, and what it started runs
\* on unless it is killed.
WatchedSpec ==
    /\ Spec
    /\ \A d \in Drains : WF_vars(Drain(d))
    /\ \A d \in Drains : WF_vars(Capture(d) /\ UNCHANGED <<file, drain, budget, again>>)

-----------------------------------------------------------------------------
(* Properties. *)

Claim ==
    [frame: FrameIds, out: Outputs, part: Nat \ {0}, meant: Contents,
         handed: BOOLEAN, pulled: BOOLEAN, corrected: BOOLEAN,
         verdict: {"none", "inconclusive", "contradicted"}]

\* The types of the variables.
TypeOK ==
    /\ episodes \in Seq(1 .. MaxLines) /\ Len(episodes) <= MaxEpisodes
    /\ frames \in [FrameIds -> Contents \cup {Absent}]
    /\ claims \in Seq(Claim)
    /\ proposals \in Seq([frame: FrameIds, out: Outputs, ids: SUBSET (1 .. Len(claims)),
                          reason: {"adapter", "tool"}])
    /\ job \in [Procs -> Jobs]
    /\ disturbed \in SUBSET Keys
    /\ spool \in Seq(Lines) /\ Len(spool) <= MaxLines
    /\ checkpoint \in {Empty} \cup 0 .. Len(spool)
    /\ drain \in [Drains -> {Off} \cup [pc: {"line", "capture", "write"},
                                        start: 0 .. MaxLines, at: 0 .. Len(spool)]]
    /\ starts \in 0 .. MaxStarts /\ kills \in 0 .. MaxKills
    /\ again \in SUBSET (1 .. MaxLines)

\* What a line asked for is in the store: the turn is an episode, the answer
\* has a proposal that puts its claims before the reviewer.
Delivered(i) ==
    /\ i \in DOMAIN spool
    /\ \/ /\ spool[i].kind = "turn"
          /\ \E n \in DOMAIN episodes : episodes[n] = i
       \/ /\ spool[i].kind = "cloud_output"
          /\ \E n \in DOMAIN proposals :
               proposals[n].out = spool[i].req.out /\ proposals[n].reason = "adapter"

\* drain_once: the checkpoint never passes a line that was not captured,
\* whatever is killed, fails or drains at the same time.
NothingLost == \A i \in 1 .. checkpoint : Delivered(i)

\* A turn is stored twice only where a drain ended without its checkpoint or
\* two drains overlapped.
TurnsOnce ==
    \A m, n \in DOMAIN episodes :
        m # n /\ episodes[m] = episodes[n] => episodes[n] \in again

\* "task_frame_id+cloud_output_hash+critic_decision" (CLOUD_CONTEXT_CAPTURE_IDEMPOTENCY):
\* however often an answer is captured under one key, its claims are there once,
\* all of them, each with the critic's verdict, unless a capture of the key was
\* killed midway or two overlapped.
CaptureIsOnce ==
    \A k \in Keys \ disturbed :
        Captured(k[1], k[2]) # {} /\ (\A p \in Procs : ~AtWork(p, k[1], k[2]))
          => \A n \in 1 .. PartsOf[k[2]] :
               \E i \in Captured(k[1], k[2]) :
                 /\ {j \in Captured(k[1], k[2]) : claims[j].part = n} = {i}
                 /\ DecisionOf[k[2]] # "accept" => claims[i].verdict = ResultOf(k[2])
                 /\ claims[i].corrected = (DecisionOf[k[2]] = "reject")

\* adapter_cloud_output: the review queue holds one proposal for an answer that
\* arrives again and again through the spool, with the same exceptions.
ProposedOnce ==
    \A m, n \in DOMAIN proposals :
        /\ proposals[m].reason = "adapter" /\ proposals[n].reason = "adapter"
        /\ proposals[m].frame = proposals[n].frame
        /\ proposals[m].out = proposals[n].out
        /\ <<proposals[m].frame, proposals[m].out>> \notin disturbed
        => m = n

\* validate_handoff_id: an answer that comes with its handoff id is filed under
\* the frame its client was given, though frames are pruned and their ids used
\* again, unless retention took the frame away in the middle of the capture.
FiledWhereMeant ==
    \A i \in DOMAIN claims :
        claims[i].handed /\ ~claims[i].pulled
            => frames[claims[i].frame] = claims[i].meant

\* adapter_spool.rs:5: "This command drains new lines since the last checkpoint
\* and forwards each event": every line is captured in the end, or drains start
\* again and again up to the bound.
EveryLineIsCaptured ==
    \A i \in 1 .. MaxLines :
        i <= Len(spool) ~> (Delivered(i) \/ starts = MaxStarts)

=============================================================================
