---------------------------- MODULE CloudCapture ----------------------------
(* The capture of a cloud model's answer: capture_cloud_output_claims        *)
(* (context/critic.rs) and its two callers, `soma adapter-cloud-output`      *)
(* (cli/adapter_cloud_output.rs) and the MCP tool soma_capture_cloud_output  *)
(* (runtime/mcp.rs), over the task frames, claims and proposals they write.  *)
(*                                                                           *)
(* Every statement commits by itself: a process can be killed between any    *)
(* two of them, and what it committed stays.  A capture is keyed by the task *)
(* frame, the text and the critic's decision; an answer that is captured     *)
(* again finds its claims under that key and returns them.                   *)
(*                                                                           *)
(* An answer is an element of Outputs with the number of claims that         *)
(* normalisation takes from it and its decision.  The content of a task      *)
(* frame is the memory it was built from: the number of episodes.            *)
EXTENDS Integers, Sequences, FiniteSets

CONSTANTS
    Outputs,        \* the answers
    PartsOf,        \* the number of claims in each
    DecisionOf,     \* "accept", "revise" or "reject"
    Callers,        \* processes that call the MCP tool
    Drains,         \* processes that drain the spool
    MaxEpisodes,    \* bound on the episodes
    MaxFrames,      \* bound on the ids of task frames
    MaxProposals    \* bound on the proposals

ASSUME BoundsAssumption ==
    /\ MaxEpisodes \in Nat /\ MaxFrames \in Nat /\ MaxProposals \in Nat
ASSUME OutputsAssumption ==
    /\ PartsOf \in [Outputs -> Nat \ {0}]
    /\ DecisionOf \in [Outputs -> {"accept", "revise", "reject"}]
    /\ Callers \cap Drains = {}

VARIABLES
    episodes,   \* the turns stored, by the place of their line in the spool
    frames,     \* task frames: id -> the content it was built from, or Absent
    claims,     \* cloud drafts, in the order of their ids
    proposals,  \* request_verification proposals for captured claims
    job,        \* process -> the capture it runs
    disturbed   \* history: keys whose capture was killed or raced another

tables == <<episodes, frames, claims, proposals>>

Procs == Callers \cup Drains
FrameIds == 1 .. MaxFrames
Absent == -1
Contents == 0 .. MaxEpisodes
Keys == FrameIds \X Outputs

\* What a client asks to capture.  frame = 0 stands for a task_frame_query;
\* meant is the content of the frame the client was given, handed says that it
\* echoes the handoff id.
Requests ==
    [out: Outputs, frame: {0} \cup FrameIds, meant: Contents, handed: BOOLEAN]

Idle == [pc |-> "idle"]
Jobs ==
    {Idle} \cup
    [pc: {"frame", "check", "claim", "event", "correct", "enqueue", "propose", "done"},
     req: Requests, frame: {0} \cup FrameIds, ids: SUBSET (Nat \ {0}),
     part: Nat, pulled: BOOLEAN]

\* cloud_output_claim_records_by_ref: the claims under one key.
Captured(f, o) == {i \in DOMAIN claims : claims[i].frame = f /\ claims[i].out = o}

\* What a capture under way writes to.
AtWork(q, f, o) ==
    /\ job[q].pc \in {"claim", "event", "correct"}
    /\ job[q].frame = f /\ job[q].req.out = o

Step(p, j) == job' = [job EXCEPT ![p] = j]
Goto(p, pc) == Step(p, [job[p] EXCEPT !.pc = pc])
Fail(p) == Step(p, Idle)

-----------------------------------------------------------------------------
(* Task frames.                                                             *)

FrameOf(c) == {f \in FrameIds : frames[f] = c}
NewIds ==
    {f \in FrameIds : /\ \A g \in f .. MaxFrames : frames[g] = Absent
                      /\ f > 1 => frames[f - 1] # Absent}

\* insert_task_frame: an upsert on the hash of the content.  A row that is
\* there keeps its id and its age; a new one takes the next rowid.
UpsertFrame(f) ==
    LET c == Len(episodes)
    IN  /\ f \in (IF FrameOf(c) # {} THEN FrameOf(c) ELSE NewIds)
        /\ frames' = [frames EXCEPT ![f] = c]

\* A client asks for context: it gets the id of a frame.
BuildFrame ==
    /\ \E f \in FrameIds : UpsertFrame(f)
    /\ UNCHANGED <<episodes, claims, proposals, job, disturbed>>

Referenced(f) ==
    \/ \E i \in DOMAIN claims : claims[i].frame = f
    \/ \E i \in DOMAIN proposals : proposals[i].frame = f

\* The frames no row refers to and that were created before a cutoff: ids
\* follow the order of creation.
Prunable(cutoff) == {f \in FrameIds : f <= cutoff /\ frames[f] # Absent /\ ~Referenced(f)}

\* apply_task_frame_retention: one DELETE of the old frames nothing refers to.
Retain(cutoff) ==
    /\ Prunable(cutoff) # {}
    /\ frames' = [f \in FrameIds |-> IF f \in Prunable(cutoff) THEN Absent ELSE frames[f]]
    /\ job' = [p \in Procs |->
                IF job[p] # Idle /\ job[p].frame \in Prunable(cutoff)
                THEN [job[p] EXCEPT !.pulled = TRUE] ELSE job[p]]
    /\ UNCHANGED <<episodes, claims, proposals, disturbed>>

-----------------------------------------------------------------------------
(* One capture.                                                             *)

Begin(p, r) ==
    Step(p, [pc |-> IF r.frame = 0 THEN "frame" ELSE "check", req |-> r,
             frame |-> r.frame, ids |-> {}, part |-> 0, pulled |-> FALSE])

\* resolve_task_frame_id: a query builds the frame of the memory as it is now.
ResolveFrame(p) ==
    /\ job[p].pc = "frame"
    /\ \E f \in FrameIds :
         /\ UpsertFrame(f)
         /\ Step(p, [job[p] EXCEPT !.pc = "check", !.frame = f])
    /\ UNCHANGED <<episodes, claims, proposals, disturbed>>

\* Mutant: the handoff id is not compared with the frame.
AnyHandoff(p) == frames[job[p].frame] # Absent

\* require_task_frame and validate_handoff_id.
FrameValid(p) ==
    /\ frames[job[p].frame] # Absent
    /\ job[p].req.handed => frames[job[p].frame] = job[p].req.meant

\* Mutant: a replay is recognised only for answers that were accepted.
ReplayedAccepted(f, o) == IF DecisionOf[o] = "accept" THEN Captured(f, o) ELSE {}

Replayed(f, o) == Captured(f, o)

\* The head of capture_cloud_output_claims: an error ends the call, a replay
\* takes the claims that are there for the whole capture.
Check(p) ==
    LET f == job[p].frame
        o == job[p].req.out
    IN  /\ job[p].pc = "check"
        /\ \/ /\ ~FrameValid(p)
              /\ Fail(p)
              /\ UNCHANGED disturbed
           \/ /\ FrameValid(p) /\ Replayed(f, o) # {}
              /\ Step(p, [job[p] EXCEPT !.pc = "enqueue", !.ids = Replayed(f, o),
                                         !.pulled = FALSE])
              /\ disturbed' = disturbed \cup
                    {k \in {<<f, o>>} : \E q \in Procs : AtWork(q, f, o)}
           \/ /\ FrameValid(p) /\ Replayed(f, o) = {}
              /\ Step(p, [job[p] EXCEPT !.pc = "claim", !.part = 1, !.pulled = FALSE])
              /\ disturbed' = disturbed \cup
                    {k \in {<<f, o>>} : \E q \in Procs : AtWork(q, f, o)}
        /\ UNCHANGED tables

AfterPart(p, ids) ==
    IF job[p].part = PartsOf[job[p].req.out]
    THEN Step(p, [job[p] EXCEPT !.pc = "enqueue", !.ids = ids])
    ELSE Step(p, [job[p] EXCEPT !.pc = "claim", !.ids = ids, !.part = @ + 1])

\* insert_claim_record; the foreign key refuses a frame that is gone.
InsertClaim(p) ==
    LET r == job[p].req
        id == Len(claims) + 1
    IN  /\ job[p].pc = "claim"
        /\ \/ /\ frames[job[p].frame] = Absent
              /\ Fail(p)
              /\ UNCHANGED claims
           \/ /\ frames[job[p].frame] # Absent
              /\ claims' = Append(claims,
                    [frame |-> job[p].frame, out |-> r.out, part |-> job[p].part,
                     meant |-> r.meant, handed |-> r.handed,
                     pulled |-> job[p].pulled, verdict |-> "none",
                     corrected |-> FALSE])
              /\ IF DecisionOf[r.out] = "accept"
                 THEN AfterPart(p, job[p].ids \cup {id})
                 ELSE Step(p, [job[p] EXCEPT !.pc = "event", !.ids = @ \cup {id}])
        /\ UNCHANGED <<episodes, frames, proposals, disturbed>>

Newest(p) == CHOOSE i \in job[p].ids : \A k \in job[p].ids : k <= i

\* automatic_verification_result
ResultOf(o) == IF DecisionOf[o] = "reject" THEN "contradicted" ELSE "inconclusive"

\* insert_verification_event: the event commits before the claim is corrected.
InsertEvent(p) ==
    LET o == job[p].req.out
    IN  /\ job[p].pc = "event"
        /\ claims' = [claims EXCEPT ![Newest(p)].verdict = ResultOf(o)]
        /\ IF ResultOf(o) = "contradicted"
           THEN Goto(p, "correct")
           ELSE AfterPart(p, job[p].ids)
        /\ UNCHANGED <<episodes, frames, proposals, disturbed>>

\* mark_claim_corrected
Correct(p) ==
    /\ job[p].pc = "correct"
    /\ claims' = [claims EXCEPT ![Newest(p)].corrected = TRUE]
    /\ AfterPart(p, job[p].ids)
    /\ UNCHANGED <<episodes, frames, proposals, disturbed>>

\* learning_critic_proposal_from_capture; the two callers give their own reason.
Draft(p) ==
    [frame |-> job[p].frame, out |-> job[p].req.out, ids |-> job[p].ids,
     reason |-> IF p \in Drains THEN "adapter" ELSE "tool"]

\* Mutant: the existing proposal is not looked for.
EquivalentNone(d) == {}

\* equivalent_learning_critic_proposal
Equivalent(d) == {i \in DOMAIN proposals : proposals[i] = d}

\* The command line looks for an equal proposal first; the MCP tool does not.
Enqueue(p) ==
    /\ job[p].pc = "enqueue"
    /\ IF p \in Drains /\ Equivalent(Draft(p)) # {}
       THEN Goto(p, "done")
       ELSE Goto(p, "propose")
    /\ disturbed' = disturbed \cup
          {<<job[q].frame, job[q].req.out>> :
             q \in {q \in Procs : job[q].pc = "propose" /\ Draft(q) = Draft(p)}}
    /\ UNCHANGED tables

\* insert_learning_critic_proposal
Propose(p) ==
    /\ job[p].pc = "propose"
    /\ Len(proposals) < MaxProposals
    /\ proposals' = Append(proposals, Draft(p))
    /\ Goto(p, "done")
    /\ UNCHANGED <<episodes, frames, claims, disturbed>>

Capture(p) ==
    \/ ResolveFrame(p) \/ Check(p) \/ InsertClaim(p) \/ InsertEvent(p)
    \/ Correct(p) \/ Enqueue(p) \/ Propose(p)

\* The keys a kill of p leaves captured in part.
Cut(p) == {k \in Keys : AtWork(p, k[1], k[2]) /\ job[p].ids # {}}

=============================================================================
