------------------------- MODULE CloudCaptureProofs -------------------------
(***************************************************************************)
(* Proofs about captures, for any number of processes, answers and frames. *)
(*                                                                         *)
(* CaptureNext is what the tables see of any program that captures: the    *)
(* steps of captures, frames built and pruned, turns stored, captures      *)
(* begun and dropped.  An invariant of it is one of every such program.    *)
(***************************************************************************)
EXTENDS CloudCapture, TLAPS

Item ==
    [frame: FrameIds, out: Outputs, part: Nat \ {0}, meant: Contents,
     handed: BOOLEAN, pulled: BOOLEAN, corrected: BOOLEAN,
     verdict: {"none", "inconclusive", "contradicted"}]

Entry == [frame: FrameIds, out: Outputs, ids: SUBSET (Nat \ {0}), reason: {"adapter", "tool"}]

JobRec ==
    [pc: {"frame", "check", "claim", "event", "correct", "enqueue", "propose", "done"},
     req: Requests, frame: {0} \cup FrameIds, ids: SUBSET (Nat \ {0}),
     part: Nat, pulled: BOOLEAN]

Working == {"claim", "event", "correct"}

\* Where a capture under way is: it has its frame once it is past "frame", its
\* ids are claims, and while it works it is on one of the parts.
Placed(p) ==
    /\ job[p] \in JobRec
    /\ job[p].pc # "frame" => job[p].frame \in FrameIds
    /\ job[p].pc \in {"frame", "check"} => job[p].ids = {}
    /\ job[p].pc \in Working => job[p].part \in 1 .. PartsOf[job[p].req.out]
    /\ job[p].ids \subseteq DOMAIN claims
    /\ job[p].pc \in {"event", "correct"} => \E m \in job[p].ids : \A k \in job[p].ids : k <= m

Stored ==
    /\ episodes \in Seq(Nat) /\ Len(episodes) <= MaxEpisodes
    /\ frames \in [FrameIds -> Contents \cup {Absent}]
    /\ claims \in Seq(Item)
    /\ proposals \in Seq(Entry)
    /\ \A n \in DOMAIN proposals : proposals[n].ids \subseteq DOMAIN claims
    /\ job \in [Procs -> Jobs]
    /\ \A p \in Procs : job[p] # Idle => Placed(p)
    /\ disturbed \subseteq Keys

-----------------------------------------------------------------------------
(* The steps.                                                               *)

Turn ==
    /\ Len(episodes) < MaxEpisodes
    /\ \E n \in Nat : episodes' = Append(episodes, n)
    /\ UNCHANGED <<frames, claims, proposals, job, disturbed>>

Begins(p) ==
    /\ job[p] = Idle
    /\ \E r \in Requests : Begin(p, r)
    /\ UNCHANGED <<tables, disturbed>>

Drops(p) ==
    /\ Fail(p)
    /\ disturbed' = disturbed \cup Cut(p)
    /\ UNCHANGED tables

CaptureNext ==
    \/ Turn \/ BuildFrame \/ \E f \in FrameIds : Retain(f)
    \/ \E p \in Procs : Begins(p) \/ Drops(p) \/ Capture(p)

Store == <<tables, job, disturbed>>

\* A capture goes on: its request stays, and from "check" its frame.
Goes(p, j) ==
    /\ job[p] \in JobRec /\ j \in JobRec
    /\ job' = [job EXCEPT ![p] = j]
    /\ j.req = job[p].req

On(p, j, pc) ==
    /\ Goes(p, j)
    /\ job[p].pc = pc /\ j.frame = job[p].frame

Kept(p, j) == j.ids = job[p].ids /\ j.pulled = job[p].pulled

\* After a part comes the next one, or the end.
Parted(p, j) ==
    \/ j.pc = "enqueue" /\ job[p].part = PartsOf[job[p].req.out]
    \/ j.pc = "claim" /\ j.part = job[p].part + 1 /\ job[p].part # PartsOf[job[p].req.out]

Races(f, o) ==
    disturbed' = disturbed \cup {k \in {<<f, o>>} : \E q \in Procs : AtWork(q, f, o)}

\* The steps of a capture, with the job they leave.
Resolves(p) ==
    /\ \E f \in FrameIds, j \in JobRec :
         /\ Goes(p, j) /\ job[p].pc = "frame" /\ j.pc = "check" /\ j.frame = f
         /\ Kept(p, j) /\ UpsertFrame(f)
    /\ UNCHANGED <<episodes, claims, proposals, disturbed>>

Refuses(p) ==
    /\ job[p].pc = "check" \/ (job[p].pc = "claim" /\ frames[job[p].frame] = Absent)
    /\ job[p] \in JobRec
    /\ job' = [job EXCEPT ![p] = Idle]
    /\ UNCHANGED <<tables, disturbed>>

Replays(p) ==
    /\ \E j \in JobRec :
         /\ On(p, j, "check") /\ j.pc = "enqueue"
         /\ j.ids = Captured(job[p].frame, job[p].req.out) /\ j.ids # {}
    /\ Races(job[p].frame, job[p].req.out)
    /\ UNCHANGED tables

Works(p) ==
    /\ \E j \in JobRec :
         /\ On(p, j, "check") /\ j.pc = "claim" /\ j.part = 1 /\ j.ids = job[p].ids
    /\ Captured(job[p].frame, job[p].req.out) = {} /\ FrameValid(p)
    /\ Races(job[p].frame, job[p].req.out)
    /\ UNCHANGED tables

Adds(p) ==
    /\ frames[job[p].frame] # Absent
    /\ \E j \in JobRec, c \in Item :
         /\ On(p, j, "claim") /\ j.pulled = job[p].pulled
         /\ j.ids = job[p].ids \cup {Len(claims) + 1}
         /\ claims' = Append(claims, c)
         /\ c.frame = job[p].frame /\ c.out = job[p].req.out /\ c.part = job[p].part
         /\ c.meant = job[p].req.meant /\ c.handed = job[p].req.handed
         /\ c.pulled = job[p].pulled /\ c.verdict = "none" /\ c.corrected = FALSE
         /\ IF DecisionOf[job[p].req.out] = "accept" THEN Parted(p, j)
            ELSE j.pc = "event" /\ j.part = job[p].part
    /\ UNCHANGED <<episodes, frames, proposals, disturbed>>

Judges(p) ==
    /\ \E j \in JobRec :
         /\ On(p, j, "event") /\ Kept(p, j)
         /\ IF ResultOf(job[p].req.out) = "contradicted"
            THEN j.pc = "correct" /\ j.part = job[p].part
            ELSE Parted(p, j)
    /\ claims' = [claims EXCEPT ![Newest(p)].verdict = ResultOf(job[p].req.out)]
    /\ UNCHANGED <<episodes, frames, proposals, disturbed>>

Corrects(p) ==
    /\ \E j \in JobRec : On(p, j, "correct") /\ Kept(p, j) /\ Parted(p, j)
    /\ claims' = [claims EXCEPT ![Newest(p)].corrected = TRUE]
    /\ UNCHANGED <<episodes, frames, proposals, disturbed>>

Enqueues(p) ==
    /\ \E j \in JobRec :
         /\ On(p, j, "enqueue") /\ Kept(p, j)
         /\ IF p \in Drains /\ Equivalent(Draft(p)) # {} THEN j.pc = "done" ELSE j.pc = "propose"
    /\ Enqueue(p)

Proposes(p) ==
    /\ \E j \in JobRec : On(p, j, "propose") /\ Kept(p, j) /\ j.pc = "done"
    /\ Propose(p)

LEMMA CaptureSteps ==
    ASSUME Stored, NEW p \in Procs, Capture(p)
    PROVE  \/ Resolves(p) \/ Refuses(p) \/ Replays(p) \/ Works(p) \/ Adds(p)
           \/ Judges(p) \/ Corrects(p) \/ Enqueues(p) \/ Proposes(p)
<1>1. job[p] # Idle
  <2>1. job[p].pc \in {"frame", "check", "claim", "event", "correct", "enqueue", "propose"}
    BY DEF Capture, ResolveFrame, Check, InsertClaim, InsertEvent, Correct, Enqueue, Propose
  <2>2. Idle.pc = "idle"
    BY DEF Idle
  <2> QED
    BY <2>1, <2>2
<1>2. job[p] \in JobRec /\ job[p].ids \subseteq DOMAIN claims
  BY <1>1 DEF Stored, Placed
<1>3. /\ job[p].req \in Requests /\ job[p].frame \in {0} \cup FrameIds
      /\ job[p].ids \in SUBSET (Nat \ {0}) /\ job[p].part \in Nat /\ job[p].pulled \in BOOLEAN
  BY <1>2 DEF JobRec
<1>4. /\ job[p].req.out \in Outputs /\ job[p].req.meant \in Contents
      /\ job[p].req.handed \in BOOLEAN
  BY <1>3 DEF Requests
\* After a part, with the ids it has then.
<1>5. ASSUME NEW ids \in SUBSET (Nat \ {0}), AfterPart(p, ids)
      PROVE  \E j \in JobRec : /\ Goes(p, j) /\ j.frame = job[p].frame
                               /\ j.ids = ids /\ j.pulled = job[p].pulled /\ Parted(p, j)
  <2> DEFINE j1 == [job[p] EXCEPT !.pc = "enqueue", !.ids = ids]
             j2 == [job[p] EXCEPT !.pc = "claim", !.ids = ids, !.part = job[p].part + 1]
  <2>1. \/ job[p].part = PartsOf[job[p].req.out] /\ job' = [job EXCEPT ![p] = j1]
        \/ job[p].part # PartsOf[job[p].req.out] /\ job' = [job EXCEPT ![p] = j2]
    BY <1>5 DEF AfterPart, Step
  <2>2. /\ j1 \in JobRec /\ j1.pc = "enqueue" /\ j1.req = job[p].req
        /\ j1.frame = job[p].frame /\ j1.ids = ids /\ j1.pulled = job[p].pulled
    BY <1>2 DEF JobRec
  <2>3. job[p].part + 1 \in Nat
    BY <1>3
  <2>4. /\ j2 \in JobRec /\ j2.pc = "claim" /\ j2.req = job[p].req /\ j2.part = job[p].part + 1
        /\ j2.frame = job[p].frame /\ j2.ids = ids /\ j2.pulled = job[p].pulled
    BY <1>2, <2>3 DEF JobRec
  <2> HIDE DEF j1, j2
  <2> QED
    BY <1>2, <2>1, <2>2, <2>4 DEF Goes, Parted
<1>6. ASSUME NEW pc \in {"check", "claim", "event", "correct", "enqueue", "propose", "done"},
             Goto(p, pc)
      PROVE  \E j \in JobRec : /\ Goes(p, j) /\ j.frame = job[p].frame /\ Kept(p, j)
                               /\ j.pc = pc /\ j.part = job[p].part
  <2> DEFINE j == [job[p] EXCEPT !.pc = pc]
  <2>1. job' = [job EXCEPT ![p] = j]
    BY <1>6 DEF Goto, Step
  <2>2. /\ j \in JobRec /\ j.pc = pc /\ j.req = job[p].req /\ j.part = job[p].part
        /\ j.frame = job[p].frame /\ j.ids = job[p].ids /\ j.pulled = job[p].pulled
    BY <1>2 DEF JobRec
  <2> HIDE DEF j
  <2> QED
    BY <1>2, <2>1, <2>2 DEF Goes, Kept
<1>7. CASE ResolveFrame(p)
  <2>1. PICK f \in FrameIds : UpsertFrame(f) /\ job' = [job EXCEPT ![p] =
                                [job[p] EXCEPT !.pc = "check", !.frame = f]]
    BY <1>7 DEF ResolveFrame, Step
  <2> DEFINE j == [job[p] EXCEPT !.pc = "check", !.frame = f]
  <2>2. /\ j \in JobRec /\ j.req = job[p].req /\ j.pc = "check" /\ j.frame = f
        /\ j.ids = job[p].ids /\ j.pulled = job[p].pulled
    BY <1>2 DEF JobRec
  <2> HIDE DEF j
  <2>3. Goes(p, j) /\ Kept(p, j)
    BY <1>2, <2>1, <2>2 DEF Goes, Kept, j
  <2>4. Resolves(p)
    BY <1>7, <2>1, <2>2, <2>3 DEF ResolveFrame, Resolves
  <2> QED
    BY <2>4
<1>8. CASE Check(p)
  <2> DEFINE f == job[p].frame
             o == job[p].req.out
             j1 == [job[p] EXCEPT !.pc = "enqueue", !.ids = Captured(f, o), !.pulled = FALSE]
             j2 == [job[p] EXCEPT !.pc = "claim", !.part = 1, !.pulled = FALSE]
  <2>1. Captured(f, o) \in SUBSET (Nat \ {0})
    BY DEF Captured, Stored
  <2>2. /\ j1 \in JobRec /\ j1.req = job[p].req /\ j1.pc = "enqueue" /\ j1.frame = f
        /\ j1.ids = Captured(f, o)
    BY <1>2, <2>1 DEF JobRec
  <2>3. /\ j2 \in JobRec /\ j2.req = job[p].req /\ j2.pc = "claim" /\ j2.frame = f
        /\ j2.part = 1 /\ j2.ids = job[p].ids
    BY <1>2 DEF JobRec
  <2>4. job[p].pc = "check" /\ UNCHANGED tables
    BY <1>8 DEF Check
  <2>5. \/ job' = [job EXCEPT ![p] = Idle] /\ UNCHANGED disturbed
        \/ /\ Captured(f, o) # {} /\ job' = [job EXCEPT ![p] = j1] /\ Races(f, o)
        \/ /\ FrameValid(p) /\ Captured(f, o) = {}
           /\ job' = [job EXCEPT ![p] = j2] /\ Races(f, o)
    BY <1>8 DEF Check, Step, Fail, Replayed, Races
  <2> HIDE DEF j1, j2
  <2>6. job' = [job EXCEPT ![p] = j1] => On(p, j1, "check")
    BY <1>2, <2>2, <2>4 DEF Goes, On
  <2>7. job' = [job EXCEPT ![p] = j2] => On(p, j2, "check")
    BY <1>2, <2>3, <2>4 DEF Goes, On
  <2>8. Refuses(p) \/ Replays(p) \/ Works(p)
    BY <1>2, <2>2, <2>3, <2>4, <2>5, <2>6, <2>7 DEF Refuses, Replays, Works
  <2> QED
    BY <2>8
<1>9. CASE InsertClaim(p)
  <2> DEFINE r == job[p].req
             c == [frame |-> job[p].frame, out |-> r.out, part |-> job[p].part,
                   meant |-> r.meant, handed |-> r.handed,
                   pulled |-> job[p].pulled, verdict |-> "none", corrected |-> FALSE]
             ids == job[p].ids \cup {Len(claims) + 1}
             j == [job[p] EXCEPT !.pc = "event", !.ids = ids]
  <2>1. /\ job[p].pc = "claim"
        /\ \/ frames[job[p].frame] = Absent /\ job' = [job EXCEPT ![p] = Idle] /\ UNCHANGED claims
           \/ /\ frames[job[p].frame] # Absent
              /\ claims' = Append(claims, c)
              /\ IF DecisionOf[r.out] = "accept" THEN AfterPart(p, ids)
                 ELSE job' = [job EXCEPT ![p] = j]
        /\ UNCHANGED <<episodes, frames, proposals, disturbed>>
    BY <1>9 DEF InsertClaim, Fail, Step
  <2>2. /\ c.frame = job[p].frame /\ c.out = r.out /\ c.part = job[p].part
        /\ c.meant = r.meant /\ c.handed = r.handed
        /\ c.pulled = job[p].pulled /\ c.verdict = "none" /\ c.corrected = FALSE
    OBVIOUS
  <2>3. c \in Item
    <3>1. job[p].frame \in FrameIds /\ job[p].part \in 1 .. PartsOf[job[p].req.out]
      BY <1>1, <2>1 DEF Stored, Placed, Working
    <3>2. job[p].part \in Nat \ {0}
      BY <3>1, <1>3, <1>4, OutputsAssumption
    <3> QED
      BY <1>3, <1>4, <3>1, <3>2 DEF Item
  <2>4. ids \in SUBSET (Nat \ {0})
    BY <1>3 DEF Stored
  <2>5. /\ j \in JobRec /\ j.req = r /\ j.pc = "event" /\ j.frame = job[p].frame
        /\ j.ids = ids /\ j.pulled = job[p].pulled /\ j.part = job[p].part
    BY <1>2, <2>4 DEF JobRec
  <2> HIDE DEF c, j, ids
  <2>6. CASE frames[job[p].frame] = Absent
    BY <1>2, <2>1, <2>6 DEF Refuses, tables
  <2>7. CASE frames[job[p].frame] # Absent /\ DecisionOf[r.out] = "accept"
    <3>1. PICK k \in JobRec : /\ Goes(p, k) /\ k.frame = job[p].frame
                              /\ k.ids = ids /\ k.pulled = job[p].pulled /\ Parted(p, k)
      BY <1>5, <2>1, <2>4, <2>7
    <3>2. Adds(p)
      BY <2>1, <2>2, <2>3, <2>7, <3>1 DEF Adds, On, ids
    <3> QED
      BY <3>2
  <2>8. CASE frames[job[p].frame] # Absent /\ DecisionOf[r.out] # "accept"
    <3>1. On(p, j, "claim")
      BY <1>2, <2>1, <2>5, <2>8 DEF Goes, On
    <3>2. Adds(p)
      BY <2>1, <2>2, <2>3, <2>5, <2>8, <3>1 DEF Adds, ids
    <3> QED
      BY <3>2
  <2> QED
    BY <2>6, <2>7, <2>8
<1>10. CASE InsertEvent(p)
  <2>1. PICK j \in JobRec :
           /\ Goes(p, j) /\ j.frame = job[p].frame /\ Kept(p, j)
           /\ IF ResultOf(job[p].req.out) = "contradicted"
              THEN j.pc = "correct" /\ j.part = job[p].part
              ELSE Parted(p, j)
    BY <1>3, <1>5, <1>6, <1>10 DEF InsertEvent, Kept
  <2>2. Judges(p)
    BY <1>10, <2>1 DEF InsertEvent, Judges, On
  <2> QED
    BY <2>2
<1>11. CASE Correct(p)
  <2>1. PICK j \in JobRec : Goes(p, j) /\ j.frame = job[p].frame /\ Kept(p, j) /\ Parted(p, j)
    BY <1>3, <1>5, <1>11 DEF Correct, Kept
  <2>2. Corrects(p)
    BY <1>11, <2>1 DEF Correct, Corrects, On
  <2> QED
    BY <2>2
<1>12. CASE Enqueue(p)
  <2>1. PICK pc \in {"done", "propose"} :
           /\ Goto(p, pc)
           /\ IF p \in Drains /\ Equivalent(Draft(p)) # {} THEN pc = "done" ELSE pc = "propose"
    BY <1>12 DEF Enqueue
  <2>2. PICK j \in JobRec : Goes(p, j) /\ j.frame = job[p].frame /\ Kept(p, j) /\ j.pc = pc
    BY <1>6, <2>1
  <2>3. job[p].pc = "enqueue"
    BY <1>12 DEF Enqueue
  <2>4. Enqueues(p)
    BY <1>12, <2>1, <2>2, <2>3 DEF Enqueues, On
  <2> QED
    BY <2>4
<1>13. CASE Propose(p)
  <2>1. PICK j \in JobRec : Goes(p, j) /\ j.frame = job[p].frame /\ Kept(p, j) /\ j.pc = "done"
    BY <1>6, <1>13 DEF Propose
  <2>2. Proposes(p)
    BY <1>13, <2>1 DEF Propose, Proposes, On
  <2> QED
    BY <2>2
<1> QED
  BY <1>7, <1>8, <1>9, <1>10, <1>11, <1>12, <1>13 DEF Capture

-----------------------------------------------------------------------------
(* Types.                                                                   *)

CaptureInit ==
    /\ episodes = <<>> /\ claims = <<>> /\ proposals = <<>>
    /\ frames = [f \in FrameIds |-> Absent]
    /\ job = [p \in Procs |-> Idle]
    /\ disturbed = {}

LEMMA StoredInit == CaptureInit => Stored
<1> SUFFICES ASSUME CaptureInit PROVE Stored
  OBVIOUS
<1>1. Idle \in Jobs /\ \A p \in Procs : job[p] = Idle
  BY DEF CaptureInit, Jobs
<1> QED
  BY <1>1, BoundsAssumption DEF CaptureInit, Stored

\* What both verdicts and corrections leave of the claims.
Same(i) ==
    /\ claims'[i].frame = claims[i].frame /\ claims'[i].out = claims[i].out
    /\ claims'[i].part = claims[i].part /\ claims'[i].meant = claims[i].meant
    /\ claims'[i].handed = claims[i].handed /\ claims'[i].pulled = claims[i].pulled

LEMMA Marks ==
    ASSUME claims \in Seq(Item), NEW n,
           \/ \E o : claims' = [claims EXCEPT ![n].verdict = ResultOf(o)]
           \/ claims' = [claims EXCEPT ![n].corrected = TRUE]
    PROVE  /\ claims' \in Seq(Item) /\ Len(claims') = Len(claims)
           /\ DOMAIN claims' = DOMAIN claims
           /\ \A i \in DOMAIN claims : Same(i) /\ (i # n => claims'[i] = claims[i])
<1>1. /\ claims \in [1 .. Len(claims) -> Item] /\ Len(claims) \in Nat
      /\ DOMAIN claims = 1 .. Len(claims)
  OBVIOUS
<1>2. \E F : /\ claims' = [claims EXCEPT ![n] = F[claims[n]]]
             /\ \A c \in Item : /\ F[c] \in Item
                                /\ F[c].frame = c.frame /\ F[c].out = c.out /\ F[c].part = c.part
                                /\ F[c].meant = c.meant /\ F[c].handed = c.handed
                                /\ F[c].pulled = c.pulled
  <2>1. CASE \E o : claims' = [claims EXCEPT ![n].verdict = ResultOf(o)]
    <3>1. PICK o : claims' = [claims EXCEPT ![n].verdict = ResultOf(o)]
      BY <2>1
    <3> DEFINE F == [c \in Item \cup {claims[n]} |-> [c EXCEPT !.verdict = ResultOf(o)]]
    <3>2. claims' = [claims EXCEPT ![n] = F[claims[n]]]
      BY <3>1
    <3>3. \A c \in Item : /\ F[c] \in Item
                          /\ F[c].frame = c.frame /\ F[c].out = c.out /\ F[c].part = c.part
                          /\ F[c].meant = c.meant /\ F[c].handed = c.handed
                          /\ F[c].pulled = c.pulled
      BY DEF Item, ResultOf
    <3> QED
      BY <3>2, <3>3
  <2>2. CASE claims' = [claims EXCEPT ![n].corrected = TRUE]
    <3> DEFINE F == [c \in Item \cup {claims[n]} |-> [c EXCEPT !.corrected = TRUE]]
    <3>2. claims' = [claims EXCEPT ![n] = F[claims[n]]]
      BY <2>2
    <3>3. \A c \in Item : /\ F[c] \in Item
                          /\ F[c].frame = c.frame /\ F[c].out = c.out /\ F[c].part = c.part
                          /\ F[c].meant = c.meant /\ F[c].handed = c.handed
                          /\ F[c].pulled = c.pulled
      BY DEF Item
    <3> QED
      BY <3>2, <3>3
  <2> QED
    BY <2>1, <2>2
<1>3. PICK F : /\ claims' = [claims EXCEPT ![n] = F[claims[n]]]
               /\ \A c \in Item : /\ F[c] \in Item
                                  /\ F[c].frame = c.frame /\ F[c].out = c.out /\ F[c].part = c.part
                                  /\ F[c].meant = c.meant /\ F[c].handed = c.handed
                                  /\ F[c].pulled = c.pulled
  BY <1>2
<1>4. claims' \in [1 .. Len(claims) -> Item]
  BY <1>1, <1>3
<1>5. claims' \in Seq(Item) /\ Len(claims') = Len(claims) /\ DOMAIN claims' = DOMAIN claims
  BY <1>1, <1>4
<1>6. \A i \in DOMAIN claims : i # n => claims'[i] = claims[i]
  BY <1>1, <1>3
<1>7. \A i \in DOMAIN claims : Same(i)
  BY <1>1, <1>3 DEF Same
<1> QED
  BY <1>5, <1>6, <1>7

LEMMA StoredStep == Stored /\ [CaptureNext]_Store => Stored'
<1> SUFFICES ASSUME Stored, [CaptureNext]_Store PROVE Stored'
  OBVIOUS
<1> USE DEF Stored
<1>1. Len(episodes) \in Contents
  BY DEF Contents
\* One capture moves.
<1>2. ASSUME NEW p \in Procs, NEW j, job' = [job EXCEPT ![p] = j],
             j = Idle \/ Placed(p)', j \in Jobs,
             claims' \in Seq(Item), DOMAIN claims \subseteq DOMAIN claims',
             proposals' \in Seq(Entry),
             \A n \in DOMAIN proposals' : proposals'[n].ids \subseteq DOMAIN claims',
             UNCHANGED episodes, frames' \in [FrameIds -> Contents \cup {Absent}],
             disturbed' \subseteq Keys
      PROVE  Stored'
  <2>1. job'[p] = j /\ \A q \in Procs \ {p} : job'[q] = job[q]
    BY <1>2
  <2>2. \A q \in Procs \ {p} : job[q] # Idle => Placed(q)'
    BY <1>2, <2>1 DEF Placed
  <2>3. job' \in [Procs -> Jobs]
    BY <1>2
  <2>4. \A q \in Procs : job'[q] # Idle => Placed(q)'
    BY <1>2, <2>1, <2>2
  <2> QED
    BY <1>2, <2>3, <2>4
<1>3. /\ \A j \in JobRec : j \in Jobs
      /\ Idle \in Jobs /\ Idle.pc = "idle"
  BY DEF JobRec, Jobs, Idle
<1>4. ASSUME NEW p \in Procs, NEW j, Goes(p, j)
      PROVE  job'[p] = j /\ j \in Jobs /\ j \in JobRec /\ Placed(p) /\ j.req = job[p].req
  <2>1. job[p] # Idle
    BY <1>4 DEF Goes, JobRec, Idle
  <2> QED
    BY <1>3, <1>4, <2>1 DEF Goes
<1>5. ASSUME NEW f \in FrameIds, UpsertFrame(f)
      PROVE  frames' \in [FrameIds -> Contents \cup {Absent}]
  BY <1>1, <1>5 DEF UpsertFrame
<1>6. ASSUME NEW p \in Procs, job[p] # Idle
      PROVE  job[p].req.out \in Outputs /\ PartsOf[job[p].req.out] \in Nat \ {0}
  BY <1>6, OutputsAssumption DEF Placed, JobRec, Requests
\* The steps of a capture.
<1>7. ASSUME NEW p \in Procs, Capture(p) PROVE Stored'
  <2>0. ASSUME NEW j, Goes(p, j), Placed(p)',
               claims' \in Seq(Item), DOMAIN claims \subseteq DOMAIN claims',
               UNCHANGED <<proposals, episodes, frames>>, disturbed' \subseteq Keys
        PROVE  Stored'
    BY <1>2, <1>4, <2>0 DEF Goes
  <2>1. CASE Resolves(p)
    <3>1. PICK f \in FrameIds, j \in JobRec :
             /\ Goes(p, j) /\ job[p].pc = "frame" /\ j.pc = "check" /\ j.frame = f
             /\ Kept(p, j) /\ UpsertFrame(f)
      BY <2>1 DEF Resolves
    <3>2. Placed(p)'
      BY <1>4, <2>1, <3>1 DEF Placed, Kept, Resolves, Working
    <3> QED
      BY <1>2, <1>4, <1>5, <2>1, <3>1, <3>2 DEF Goes, Resolves
  <2>2. CASE Refuses(p)
    BY <1>2, <1>3, <2>2 DEF Refuses, tables
  <2>3. ASSUME NEW j, On(p, j, "check"), Races(job[p].frame, job[p].req.out), UNCHANGED tables,
               \/ j.pc = "enqueue" /\ j.ids = Captured(job[p].frame, job[p].req.out)
               \/ j.pc = "claim" /\ j.part = 1 /\ j.ids = job[p].ids
        PROVE  Stored'
    <3>1. Placed(p) /\ job'[p] = j /\ j.req = job[p].req /\ j \in JobRec
      BY <1>4, <2>3 DEF On
    <3>2. job[p] # Idle /\ job[p].frame \in FrameIds /\ j.frame = job[p].frame
      BY <1>3, <2>3, <3>1 DEF On, Placed
    <3>3. disturbed' \subseteq Keys
      BY <1>6, <2>3, <3>2 DEF Races, Keys
    <3>4. claims' = claims /\ j.ids \subseteq DOMAIN claims
      BY <2>3, <3>1 DEF Placed, Captured, tables
    <3>5. Placed(p)'
      BY <1>6, <2>3, <3>1, <3>2, <3>4 DEF Placed, Working
    <3> QED
      BY <2>0, <2>3, <3>3, <3>4, <3>5 DEF On, tables
  <2>4. CASE Replays(p) \/ Works(p)
    BY <2>3, <2>4 DEF Replays, Works
  \* After a part.
  <2>5. ASSUME NEW j, Goes(p, j), Parted(p, j), job[p].pc \in Working,
               j.frame = job[p].frame, j.ids \subseteq DOMAIN claims'
        PROVE  Placed(p)'
    <3>1. Placed(p) /\ job'[p] = j /\ j.req = job[p].req /\ j \in JobRec
      BY <1>4, <2>5
    <3>2. PartsOf[job[p].req.out] \in Nat /\ job[p].part \in 1 .. PartsOf[job[p].req.out]
      BY <1>3, <1>6, <2>5, <3>1 DEF Placed, Working
    <3>3. job[p].frame \in FrameIds
      BY <2>5, <3>1 DEF Placed, Working
    <3> QED
      BY <2>5, <3>1, <3>2, <3>3 DEF Placed, Parted, Working
  <2>6. CASE Adds(p)
    <3>1. PICK j \in JobRec, c \in Item :
             /\ On(p, j, "claim") /\ j.ids = job[p].ids \cup {Len(claims) + 1}
             /\ claims' = Append(claims, c)
             /\ IF DecisionOf[job[p].req.out] = "accept" THEN Parted(p, j)
                ELSE j.pc = "event" /\ j.part = job[p].part
      BY <2>6 DEF Adds
    <3>2. /\ claims' \in Seq(Item) /\ DOMAIN claims' = DOMAIN claims \cup {Len(claims) + 1}
          /\ \A i \in DOMAIN claims : i <= Len(claims) + 1
          /\ Len(claims) + 1 \in Nat
      BY <3>1
    <3>3. Placed(p) /\ job'[p] = j /\ j.req = job[p].req
      BY <1>4, <3>1 DEF On
    <3>4. j.ids \subseteq DOMAIN claims'
      BY <3>1, <3>2, <3>3 DEF Placed
    <3>5. Placed(p)'
      <4>1. CASE Parted(p, j)
        BY <2>5, <3>1, <3>4, <4>1 DEF On, Working
      <4>2. CASE j.pc = "event" /\ j.part = job[p].part
        <5>1. \A k \in j.ids : k <= Len(claims) + 1
          BY <3>1, <3>2, <3>3 DEF Placed
        <5> QED
          BY <3>1, <3>3, <3>4, <4>2, <5>1 DEF Placed, On, Working
      <4> QED
        BY <3>1, <4>1, <4>2
    <3> QED
      BY <2>0, <2>6, <3>1, <3>2, <3>5 DEF On, Adds
  <2>7. CASE Judges(p) \/ Corrects(p)
    <3>1. PICK j \in JobRec :
             /\ On(p, j, "event") \/ On(p, j, "correct")
             /\ Kept(p, j)
             /\ Parted(p, j) \/ (j.pc = "correct" /\ j.part = job[p].part)
      BY <2>7 DEF Judges, Corrects
    <3>2. claims' \in Seq(Item) /\ DOMAIN claims' = DOMAIN claims
      BY <2>7, Marks DEF Judges, Corrects
    <3>3. /\ Placed(p) /\ job'[p] = j /\ j.req = job[p].req /\ Goes(p, j)
          /\ job[p].pc \in {"event", "correct"} /\ j.frame = job[p].frame
      BY <1>4, <3>1 DEF On
    <3>4. Placed(p)'
      <4>1. CASE Parted(p, j)
        BY <2>5, <3>1, <3>2, <3>3, <4>1 DEF Kept, Working, Placed
      <4>2. CASE j.pc = "correct" /\ j.part = job[p].part
        BY <3>1, <3>2, <3>3, <4>2 DEF Placed, Kept, Working
      <4> QED
        BY <3>1, <4>1, <4>2
    <3> QED
      BY <2>0, <2>7, <3>2, <3>3, <3>4 DEF Judges, Corrects
  <2>8. CASE Enqueues(p)
    <3>1. PICK j \in JobRec :
             On(p, j, "enqueue") /\ Kept(p, j) /\ j.pc \in {"done", "propose"}
      BY <2>8 DEF Enqueues
    <3>2. Placed(p) /\ job'[p] = j /\ j.req = job[p].req
      BY <1>4, <3>1 DEF On
    <3>3. UNCHANGED tables
      BY <2>8 DEF Enqueues, Enqueue
    <3>4. Placed(p)'
      BY <3>1, <3>2, <3>3 DEF Placed, On, Kept, Working, tables
    <3>5. \A q \in Procs : job[q].pc = "propose" => <<job[q].frame, job[q].req.out>> \in Keys
      BY <1>3, <1>6 DEF Placed, Keys
    <3>6. disturbed' \subseteq Keys
      BY <2>8, <3>5 DEF Enqueues, Enqueue
    <3> QED
      BY <2>0, <3>1, <3>3, <3>4, <3>6 DEF On, tables
  <2>9. CASE Proposes(p)
    <3>1. PICK j \in JobRec : On(p, j, "propose") /\ Kept(p, j) /\ j.pc = "done"
      BY <2>9 DEF Proposes
    <3>2. Placed(p) /\ job'[p] = j /\ j.req = job[p].req
      BY <1>4, <3>1 DEF On
    <3>3. proposals' = Append(proposals, Draft(p)) /\ UNCHANGED <<episodes, frames, claims, disturbed>>
      BY <2>9 DEF Proposes, Propose
    <3>4. Draft(p) \in Entry /\ Draft(p).ids = job[p].ids
      <4>1. job[p].frame \in FrameIds /\ job[p].req.out \in Outputs /\ job[p].ids \in SUBSET (Nat \ {0})
        BY <1>3, <1>6, <3>1, <3>2 DEF Placed, On, JobRec
      <4> QED
        BY <4>1 DEF Draft, Entry
    <3>5. Placed(p)'
      BY <3>1, <3>2, <3>3 DEF Placed, On, Kept, Working
    <3>6. proposals' \in Seq(Entry) /\ \A n \in DOMAIN proposals' : proposals'[n].ids \subseteq DOMAIN claims'
      <4>1. \A n \in DOMAIN proposals' : proposals'[n] = Draft(p) \/ (n \in DOMAIN proposals /\ proposals'[n] = proposals[n])
        BY <3>3, <3>4
      <4> QED
        BY <3>2, <3>3, <3>4, <4>1 DEF Placed
    <3> QED
      BY <1>2, <1>4, <3>1, <3>3, <3>5, <3>6 DEF On, Goes
  <2> QED
    BY <1>7, <2>1, <2>2, <2>4, <2>6, <2>7, <2>8, <2>9, CaptureSteps
<1>8. CASE Turn
  <2>1. episodes' \in Seq(Nat) /\ Len(episodes') <= MaxEpisodes
    BY <1>8, BoundsAssumption DEF Turn
  <2>2. \A p \in Procs : Placed(p) => Placed(p)'
    BY <1>8 DEF Turn, Placed
  <2> QED
    BY <1>8, <2>1, <2>2 DEF Turn
<1>9. CASE BuildFrame
  BY <1>5, <1>9 DEF BuildFrame, Placed
<1>10. ASSUME NEW f \in FrameIds, Retain(f) PROVE Stored'
  <2>1. \A p \in Procs :
           \/ job'[p] = job[p]
           \/ job[p] # Idle /\ job'[p] = [job[p] EXCEPT !.pulled = TRUE]
    BY <1>10 DEF Retain
  <2>2. ASSUME NEW p \in Procs PROVE job'[p] \in Jobs /\ (job'[p] # Idle => Placed(p)')
    <3>1. CASE job'[p] = job[p]
      BY <1>10, <3>1 DEF Retain, Placed
    <3>2. CASE job[p] # Idle /\ job'[p] = [job[p] EXCEPT !.pulled = TRUE]
      <4>1. job[p] \in JobRec
        BY <3>2 DEF Placed
      <4>2. /\ job'[p] \in JobRec /\ job'[p].pc = job[p].pc /\ job'[p].frame = job[p].frame
            /\ job'[p].ids = job[p].ids /\ job'[p].part = job[p].part /\ job'[p].req = job[p].req
        BY <3>2, <4>1 DEF JobRec
      <4> QED
        BY <1>3, <1>10, <3>2, <4>2 DEF Retain, Placed
    <3> QED
      BY <2>1, <3>1, <3>2
  <2>3. job' \in [Procs -> Jobs]
    BY <1>10, <2>2 DEF Retain
  <2>4. frames' \in [FrameIds -> Contents \cup {Absent}]
    BY <1>10 DEF Retain
  <2> QED
    BY <1>10, <2>2, <2>3, <2>4 DEF Retain
<1>11. ASSUME NEW p \in Procs, Begins(p) PROVE Stored'
  <2>1. PICK r \in Requests : Begin(p, r)
    BY <1>11 DEF Begins
  <2> DEFINE j == [pc |-> IF r.frame = 0 THEN "frame" ELSE "check", req |-> r,
                   frame |-> r.frame, ids |-> {}, part |-> 0, pulled |-> FALSE]
  <2>2. job' = [job EXCEPT ![p] = j]
    BY <2>1 DEF Begin, Step
  <2>3. r.frame \in {0} \cup FrameIds
    BY DEF Requests
  <2>4. /\ j \in JobRec /\ j.pc \in {"frame", "check"} /\ j.ids = {} /\ j.frame = r.frame
        /\ j.pc # "frame" => j.frame # 0
    BY <2>3 DEF JobRec
  <2> HIDE DEF j
  <2>5. job'[p] = j
    BY <2>2
  <2>6. Placed(p)'
    BY <2>3, <2>4, <2>5 DEF Placed, Working
  <2> QED
    BY <1>2, <1>3, <1>11, <2>2, <2>4, <2>6 DEF Begins, tables
<1>12. ASSUME NEW p \in Procs, Drops(p) PROVE Stored'
  BY <1>2, <1>3, <1>12 DEF Drops, Fail, Step, tables, Cut
<1>13. CASE UNCHANGED Store
  BY <1>13 DEF Store, tables, Placed
<1> QED
  BY <1>7, <1>8, <1>9, <1>10, <1>11, <1>12, <1>13 DEF CaptureNext

-----------------------------------------------------------------------------
(* Frames: a frame that a claim refers to stays, and a capture that works    *)
(* knows whether retention took its frame away since it compared it.         *)

Filed == \A i \in DOMAIN claims : frames[claims[i].frame] # Absent

Right ==
    \A i \in DOMAIN claims :
        claims[i].handed /\ ~claims[i].pulled => frames[claims[i].frame] = claims[i].meant

Meant ==
    \A p \in Procs :
        job[p].pc \in Working /\ job[p].req.handed /\ ~job[p].pulled
            => frames[job[p].frame] = job[p].req.meant

FrameInv == Filed /\ Right /\ Meant

LEMMA FrameInit == CaptureInit => FrameInv
  BY DEF CaptureInit, FrameInv, Filed, Right, Meant, Working, Idle

\* An upsert leaves what is there.
LEMMA Upserted ==
    ASSUME Stored, NEW f \in FrameIds, UpsertFrame(f), NEW g \in FrameIds, frames[g] # Absent
    PROVE  frames'[g] = frames[g]
<1>1. g = f => frames[f] = Len(episodes)
  <2>1. f \in f .. MaxFrames
    BY BoundsAssumption DEF FrameIds
  <2> QED
    BY <2>1 DEF UpsertFrame, FrameOf, NewIds
<1> QED
  BY <1>1 DEF UpsertFrame, Stored

\* Where a capture goes is where it was, as far as it works.
LEMMA WorkingJobs ==
    ASSUME Stored, NEW p \in Procs, job[p].pc \in Working
    PROVE  /\ job[p] \in JobRec /\ job[p].frame \in FrameIds /\ job[p].req.meant \in Contents
           /\ job[p].req.out \in Outputs /\ job[p].req.handed \in BOOLEAN
           /\ <<job[p].frame, job[p].req.out>> \in Keys
<1>1. Placed(p)
  BY DEF Stored, Working, Idle
<1>2. job[p].req \in Requests /\ job[p].frame \in FrameIds
  BY <1>1 DEF Placed, JobRec, Working
<1> QED
  BY <1>1, <1>2 DEF Placed, Requests, Keys

LEMMA IdlePc == Idle.pc = "idle"
  BY DEF Idle

\* A capture that begins has no claims yet.
LEMMA Begun ==
    ASSUME NEW p, Begins(p)
    PROVE  \E j : job' = [job EXCEPT ![p] = j] /\ j.pc \in {"frame", "check"}
<1>1. PICK r \in Requests : Begin(p, r)
  BY DEF Begins
<1> DEFINE j == [pc |-> IF r.frame = 0 THEN "frame" ELSE "check", req |-> r,
                 frame |-> r.frame, ids |-> {}, part |-> 0, pulled |-> FALSE]
<1>2. job' = [job EXCEPT ![p] = j]
  BY <1>1 DEF Begin, Step
<1>3. j.pc \in {"frame", "check"}
  OBVIOUS
<1> HIDE DEF j
<1> QED
  BY <1>2, <1>3

\* What retention leaves of the jobs.
LEMMA Retained ==
    ASSUME Stored, NEW f \in FrameIds, Retain(f), NEW p \in Procs
    PROVE  /\ job'[p].pc = job[p].pc
           /\ job[p] # Idle => /\ job'[p].frame = job[p].frame /\ job'[p].req = job[p].req
                              /\ job'[p].ids = job[p].ids /\ job'[p].part = job[p].part
           /\ job[p].pc \in Working => job[p] # Idle
<1>1. \/ job'[p] = job[p]
      \/ job[p] # Idle /\ job'[p] = [job[p] EXCEPT !.pulled = TRUE]
  BY DEF Retain
<1>2. job[p] # Idle => job[p] \in JobRec
  BY DEF Stored, Placed
<1>3. job[p].pc \in Working => job[p] # Idle
  BY IdlePc DEF Working
<1> QED
  BY <1>1, <1>2, <1>3 DEF JobRec

LEMMA FrameStep == Stored /\ FrameInv /\ [CaptureNext]_Store => FrameInv'
<1> SUFFICES ASSUME Stored, FrameInv, [CaptureNext]_Store PROVE FrameInv'
  OBVIOUS
<1> USE DEF FrameInv
<1>1. Absent \notin Contents
  BY BoundsAssumption DEF Absent, Contents
<1>2. \A i \in DOMAIN claims : claims[i].frame \in FrameIds /\ claims[i].meant \in Contents
  <2>1. \A i \in DOMAIN claims : claims[i] \in Item
    BY DEF Stored
  <2> QED
    BY <2>1 DEF Item
\* The frames that are there stay, and every capture that works did before,
\* or has just compared its frame.
<1>3. ASSUME \A g \in FrameIds : frames[g] # Absent => frames'[g] = frames[g],
             DOMAIN claims' = DOMAIN claims, \A i \in DOMAIN claims : Same(i),
             \A q \in Procs : job'[q].pc \in Working =>
                \/ /\ job[q].pc \in Working
                   /\ job'[q].frame = job[q].frame /\ job'[q].req = job[q].req
                   /\ job'[q].pulled = job[q].pulled
                \/ /\ job'[q].frame \in FrameIds /\ frames[job'[q].frame] # Absent
                   /\ job'[q].req.handed => frames[job'[q].frame] = job'[q].req.meant
      PROVE  FrameInv'
  <2>1. Filed'
    BY <1>2, <1>3 DEF Filed, Same
  <2>2. Right'
    BY <1>1, <1>2, <1>3 DEF Right, Same, Filed
  <2>3. Meant'
    <3> SUFFICES ASSUME NEW q \in Procs, job'[q].pc \in Working,
                        job'[q].req.handed, ~job'[q].pulled
                 PROVE  frames'[job'[q].frame] = job'[q].req.meant
      BY DEF Meant
    <3>1. CASE /\ job[q].pc \in Working
               /\ job'[q].frame = job[q].frame /\ job'[q].req = job[q].req
               /\ job'[q].pulled = job[q].pulled
      <4>1. frames[job[q].frame] = job[q].req.meant
        BY <3>1 DEF Meant
      <4>2. job[q].frame \in FrameIds /\ job[q].req.meant \in Contents
        BY <3>1, WorkingJobs
      <4> QED
        BY <1>1, <1>3, <3>1, <4>1, <4>2
    <3> QED
      BY <1>3, <3>1
  <2> QED
    BY <2>1, <2>2, <2>3
<1>4. UNCHANGED claims => DOMAIN claims' = DOMAIN claims /\ \A i \in DOMAIN claims : Same(i)
  BY DEF Same
<1>5. ASSUME NEW p \in Procs, NEW j, job' = [job EXCEPT ![p] = j]
      PROVE  job'[p] = j /\ \A q \in Procs \ {p} : job'[q] = job[q]
  BY <1>5 DEF Stored
\* The steps of a capture.
<1>6. ASSUME NEW p \in Procs, Capture(p) PROVE FrameInv'
  <2>1. CASE Resolves(p)
    <3>1. PICK f \in FrameIds, j \in JobRec :
             job' = [job EXCEPT ![p] = j] /\ j.pc = "check" /\ UpsertFrame(f)
      BY <2>1 DEF Resolves, Goes
    <3>2. \A g \in FrameIds : frames[g] # Absent => frames'[g] = frames[g]
      BY <3>1, Upserted
    <3>3. job'[p] = j /\ \A q \in Procs \ {p} : job'[q] = job[q]
      BY <1>5, <3>1
    <3> QED
      BY <1>3, <1>4, <2>1, <3>1, <3>2, <3>3 DEF Resolves, Working
  <2>2. CASE Refuses(p)
    <3>1. job'[p].pc = "idle" /\ \A q \in Procs \ {p} : job'[q] = job[q]
      BY <1>5, <2>2, IdlePc DEF Refuses
    <3> QED
      BY <1>3, <1>4, <2>2, <3>1 DEF Refuses, tables, Working
  <2>3. CASE Replays(p) \/ Enqueues(p) \/ Proposes(p)
    <3>1. PICK j \in JobRec :
             job' = [job EXCEPT ![p] = j] /\ j.pc \in {"enqueue", "propose", "done"}
      BY <2>3 DEF Replays, Enqueues, Proposes, On, Goes
    <3>2. job'[p] = j /\ \A q \in Procs \ {p} : job'[q] = job[q]
      BY <1>5, <3>1
    <3> QED
      BY <1>3, <1>4, <2>3, <3>1, <3>2
         DEF Replays, Enqueues, Enqueue, Proposes, Propose, tables, Working
  <2>4. CASE Works(p)
    <3>1. PICK j \in JobRec : /\ job' = [job EXCEPT ![p] = j]
                              /\ j.frame = job[p].frame /\ j.req = job[p].req
                              /\ job[p].pc = "check"
      BY <2>4 DEF Works, On, Goes
    <3>2. job'[p] = j /\ \A q \in Procs \ {p} : job'[q] = job[q]
      BY <1>5, <3>1
    <3>3. job[p].frame \in FrameIds
      BY <3>1 DEF Stored, Placed, Idle
    <3>4. frames[j.frame] # Absent /\ (j.req.handed => frames[j.frame] = j.req.meant)
      BY <2>4, <3>1 DEF Works, FrameValid
    <3> QED
      BY <1>3, <1>4, <2>4, <3>1, <3>2, <3>3, <3>4 DEF Works, tables
  <2>5. CASE Adds(p)
    <3>1. PICK j \in JobRec, c \in Item :
             /\ On(p, j, "claim") /\ j.pulled = job[p].pulled
             /\ claims' = Append(claims, c)
             /\ c.frame = job[p].frame /\ c.meant = job[p].req.meant
             /\ c.handed = job[p].req.handed /\ c.pulled = job[p].pulled
      BY <2>5 DEF Adds
    <3>2. /\ job'[p] = j /\ j.req = job[p].req /\ j.frame = job[p].frame
          /\ \A q \in Procs \ {p} : job'[q] = job[q]
      BY <1>5, <3>1 DEF On, Goes
    <3>3. /\ DOMAIN claims' = DOMAIN claims \cup {Len(claims) + 1}
          /\ \A i \in DOMAIN claims : claims'[i] = claims[i]
          /\ claims'[Len(claims) + 1] = c
      BY <3>1 DEF Stored
    <3>4. frames[job[p].frame] # Absent /\ frames' = frames
      BY <2>5 DEF Adds
    <3>5. job[p].pc \in Working
      BY <3>1 DEF On, Working
    <3>6. Filed'
      BY <3>1, <3>3, <3>4 DEF Filed
    <3>7. c.handed /\ ~c.pulled => frames[c.frame] = c.meant
      BY <3>1, <3>5 DEF Meant
    <3>8. Right'
      BY <3>3, <3>4, <3>7 DEF Right
    <3>9. Meant'
      BY <3>1, <3>2, <3>4, <3>5 DEF Meant
    <3> QED
      BY <3>6, <3>8, <3>9
  <2>6. CASE Judges(p) \/ Corrects(p)
    <3>1. PICK j \in JobRec : (On(p, j, "event") \/ On(p, j, "correct")) /\ Kept(p, j)
      BY <2>6 DEF Judges, Corrects
    <3>2. /\ job'[p] = j /\ j.req = job[p].req /\ j.frame = job[p].frame
          /\ job[p].pc \in Working /\ j.pulled = job[p].pulled
          /\ \A q \in Procs \ {p} : job'[q] = job[q]
      BY <1>5, <3>1 DEF On, Goes, Working, Kept
    <3>3. DOMAIN claims' = DOMAIN claims /\ \A i \in DOMAIN claims : Same(i)
      BY <2>6, Marks DEF Judges, Corrects, Stored
    <3> QED
      BY <1>3, <2>6, <3>2, <3>3 DEF Judges, Corrects
  <2> QED
    BY <1>6, <2>1, <2>2, <2>3, <2>4, <2>5, <2>6, CaptureSteps
<1>7. CASE Turn
  BY <1>3, <1>4, <1>7 DEF Turn
<1>8. CASE BuildFrame
  <2>1. \A g \in FrameIds : frames[g] # Absent => frames'[g] = frames[g]
    BY <1>8, Upserted DEF BuildFrame
  <2> QED
    BY <1>3, <1>4, <1>8, <2>1 DEF BuildFrame
<1>9. ASSUME NEW f \in FrameIds, Retain(f) PROVE FrameInv'
  <2>1. /\ \A g \in FrameIds : frames'[g] = IF g \in Prunable(f) THEN Absent ELSE frames[g]
        /\ \A p \in Procs : job'[p] = IF job[p] # Idle /\ job[p].frame \in Prunable(f)
                                      THEN [job[p] EXCEPT !.pulled = TRUE] ELSE job[p]
        /\ claims' = claims
    BY <1>9 DEF Retain
  <2>2. \A i \in DOMAIN claims : claims[i].frame \notin Prunable(f)
    BY DEF Prunable, Referenced
  <2>3. Filed' /\ Right'
    BY <1>2, <2>1, <2>2 DEF Filed, Right
  <2>4. Meant'
    <3> SUFFICES ASSUME NEW q \in Procs, job'[q].pc \in Working,
                        job'[q].req.handed, ~job'[q].pulled
                 PROVE  frames'[job'[q].frame] = job'[q].req.meant
      BY DEF Meant
    <3>1. CASE job[q] # Idle /\ job[q].frame \in Prunable(f)
      <4>1. job[q] \in JobRec /\ job'[q] = [job[q] EXCEPT !.pulled = TRUE]
        BY <2>1, <3>1 DEF Stored, Placed
      <4>2. job'[q].pulled = TRUE
        BY <4>1 DEF JobRec
      <4> QED
        BY <4>2
    <3>2. CASE ~(job[q] # Idle /\ job[q].frame \in Prunable(f))
      <4>1. job'[q] = job[q]
        BY <2>1, <3>2
      <4>2. job[q].frame \in FrameIds /\ frames[job[q].frame] = job[q].req.meant
        BY <4>1, WorkingJobs DEF Meant
      <4>3. job[q] # Idle
        BY <4>1 DEF Idle, Working
      <4> QED
        BY <2>1, <3>2, <4>1, <4>2, <4>3
    <3> QED
      BY <3>1, <3>2
  <2> QED
    BY <2>3, <2>4
<1>10. ASSUME NEW p \in Procs, Begins(p) PROVE FrameInv'
  <2>1. \E j : job' = [job EXCEPT ![p] = j] /\ j.pc \in {"frame", "check"}
    BY <1>10, Begun
  <2>2. job'[p].pc \in {"frame", "check"} /\ \A q \in Procs \ {p} : job'[q] = job[q]
    BY <1>5, <2>1
  <2> QED
    BY <1>3, <1>4, <1>10, <2>2 DEF Begins, tables, Working
<1>11. ASSUME NEW p \in Procs, Drops(p) PROVE FrameInv'
  <2>1. job'[p].pc = "idle" /\ \A q \in Procs \ {p} : job'[q] = job[q]
    BY <1>5, <1>11, IdlePc DEF Drops, Fail, Step
  <2> QED
    BY <1>3, <1>4, <1>11, <2>1 DEF Drops, tables, Working
<1>12. CASE UNCHANGED Store
  BY <1>3, <1>4, <1>12 DEF Store, tables
<1> QED
  BY <1>6, <1>7, <1>8, <1>9, <1>10, <1>11, <1>12 DEF CaptureNext

-----------------------------------------------------------------------------
(* Captures: under a key that nobody disturbed one capture works at a time,   *)
(* on the claims that are there, part after part.                            *)

Own ==
    \A p \in Procs :
        job[p].pc \in Working => job[p].ids \subseteq Captured(job[p].frame, job[p].req.out)

Alone(f, o) == \A p, q \in Procs : AtWork(p, f, o) /\ AtWork(q, f, o) => p = q

\* A claim has what the decision of the critic asks for.
Done(i) ==
    /\ DecisionOf[claims[i].out] # "accept" => claims[i].verdict = ResultOf(claims[i].out)
    /\ claims[i].corrected = (DecisionOf[claims[i].out] = "reject")

\* The claims of a key are those of its first parts, one each.
Each(f, o, last) ==
    /\ \A n \in 1 .. last :
         \E i \in Captured(f, o) : {j \in Captured(f, o) : claims[j].part = n} = {i}
    /\ \A i \in Captured(f, o) : claims[i].part \in 1 .. last

Complete(f, o) == Each(f, o, PartsOf[o]) /\ \A i \in Captured(f, o) : Done(i)

Busy(p, f, o) ==
    /\ Captured(f, o) = job[p].ids
    /\ job[p].pc = "claim" => Each(f, o, job[p].part - 1)
    /\ job[p].pc # "claim" => Each(f, o, job[p].part)
    /\ \A i \in job[p].ids : job[p].pc = "claim" \/ i # Newest(p) => Done(i)
    /\ job[p].pc \in {"event", "correct"} =>
         DecisionOf[o] # "accept" /\ claims[Newest(p)].corrected = FALSE
    /\ job[p].pc = "correct" =>
         DecisionOf[o] = "reject" /\ claims[Newest(p)].verdict = ResultOf(o)

Whole(f, o) ==
    /\ \A p \in Procs : AtWork(p, f, o) => Busy(p, f, o)
    /\ (\A p \in Procs : ~AtWork(p, f, o)) => Captured(f, o) = {} \/ Complete(f, o)

WorkInv == Own /\ \A k \in Keys \ disturbed : Alone(k[1], k[2]) /\ Whole(k[1], k[2])

LEMMA WorkInit == CaptureInit => WorkInv
<1> SUFFICES ASSUME CaptureInit PROVE WorkInv
  OBVIOUS
<1>1. \A p \in Procs : job[p].pc \notin Working
  BY DEF CaptureInit, Idle, Working
<1>2. \A f, o : Captured(f, o) = {}
  BY DEF CaptureInit, Captured
<1>3. \A p \in Procs : \A f, o : ~AtWork(p, f, o)
  BY <1>1 DEF AtWork, Working
<1> QED
  BY <1>1, <1>2, <1>3 DEF WorkInv, Own, Alone, Whole

LEMMA NewestIn ==
    ASSUME Stored, NEW p \in Procs, job[p].pc \in {"event", "correct"}
    PROVE  /\ Newest(p) \in job[p].ids /\ \A k \in job[p].ids : k <= Newest(p)
           /\ Newest(p) \in DOMAIN claims
<1>1. Placed(p)
  BY DEF Stored, Idle
<1>2. \E m \in job[p].ids : \A k \in job[p].ids : k <= m
  BY <1>1 DEF Placed
<1> QED
  BY <1>1, <1>2 DEF Newest, Placed

\* What a step does not touch of a key stays as it is.
LEMMA Quiet ==
    ASSUME NEW f, NEW o, Whole(f, o), Alone(f, o),
           Captured(f, o)' = Captured(f, o),
           \A i \in Captured(f, o) : claims'[i] = claims[i],
           \A q \in Procs : AtWork(q, f, o)' <=> AtWork(q, f, o),
           \A q \in Procs : AtWork(q, f, o) =>
              /\ job'[q].pc = job[q].pc /\ job'[q].part = job[q].part
              /\ job'[q].ids = job[q].ids,
           \A q \in Procs : AtWork(q, f, o) /\ job[q].pc \in {"event", "correct"} => Newest(q) \in job[q].ids
    PROVE  Whole(f, o)' /\ Alone(f, o)'
<1>1. \A last : Each(f, o, last) => Each(f, o, last)'
  BY DEF Each
<1>2. \A i \in Captured(f, o) : Done(i) => Done(i)'
  BY DEF Done
<1>3. ASSUME NEW q \in Procs, AtWork(q, f, o)' PROVE Busy(q, f, o)'
  <2>1. Busy(q, f, o) /\ AtWork(q, f, o)
    BY <1>3 DEF Whole
  <2>2. /\ job'[q].pc = job[q].pc /\ job'[q].part = job[q].part
        /\ job'[q].ids = job[q].ids /\ Newest(q)' = Newest(q)
    BY <2>1 DEF Newest
  <2>3. job[q].pc \in {"event", "correct"} => Newest(q) \in Captured(f, o)
    BY <2>1 DEF Busy
  <2> QED
    BY <1>1, <1>2, <2>1, <2>2, <2>3 DEF Busy
<1>4. Complete(f, o) => Complete(f, o)'
  BY <1>1, <1>2 DEF Complete
<1> QED
  BY <1>3, <1>4 DEF Whole, Alone

\* The history only grows.
LEMMA Disturbs ==
    ASSUME Stored, [CaptureNext]_Store PROVE disturbed \subseteq disturbed'
<1>1. ASSUME NEW p \in Procs, Capture(p) PROVE disturbed \subseteq disturbed'
  BY <1>1 DEF Capture, ResolveFrame, Check, InsertClaim, InsertEvent, Correct, Enqueue, Propose
<1> QED
  BY <1>1 DEF CaptureNext, Store, Turn, BuildFrame, Retain, Begins, Drops

LEMMA OwnStep == Stored /\ Own /\ [CaptureNext]_Store => Own'
<1> SUFFICES ASSUME Stored, Own, [CaptureNext]_Store PROVE Own'
  OBVIOUS
<1>1. ASSUME NEW p \in Procs, NEW j, job' = [job EXCEPT ![p] = j]
      PROVE  job'[p] = j /\ \A q \in Procs \ {p} : job'[q] = job[q]
  BY <1>1 DEF Stored
<1>2. ASSUME \A f, o : Captured(f, o) \subseteq Captured(f, o)',
             \A q \in Procs : job'[q].pc \in Working =>
                \/ /\ job[q].pc \in Working /\ job'[q].ids = job[q].ids
                   /\ job'[q].frame = job[q].frame /\ job'[q].req = job[q].req
                \/ \E f, o : /\ f = job'[q].frame /\ o = job'[q].req.out
                             /\ job'[q].ids \subseteq Captured(f, o)'
      PROVE  Own'
  BY <1>2 DEF Own, Captured
<1>3. ASSUME UNCHANGED claims
      PROVE  \A f, o : Captured(f, o) \subseteq Captured(f, o)'
  BY <1>3 DEF Captured
<1>4. ASSUME NEW p \in Procs, Capture(p) PROVE Own'
  <2>1. CASE Resolves(p) \/ Replays(p) \/ Enqueues(p) \/ Proposes(p)
    <3>1. PICK j \in JobRec :
             job' = [job EXCEPT ![p] = j] /\ j.pc \in {"check", "enqueue", "propose", "done"}
      BY <2>1 DEF Resolves, Replays, Enqueues, Proposes, On, Goes
    <3>2. job'[p] = j /\ \A q \in Procs \ {p} : job'[q] = job[q]
      BY <1>1, <3>1
    <3>3. claims' = claims
      BY <2>1 DEF Resolves, Replays, Enqueues, Enqueue, Proposes, Propose, tables
    <3> QED
      BY <1>2, <1>3, <3>1, <3>2, <3>3 DEF Working
  <2>2. CASE Refuses(p)
    <3>1. job'[p].pc = "idle" /\ \A q \in Procs \ {p} : job'[q] = job[q]
      BY <1>1, <2>2, IdlePc DEF Refuses
    <3> QED
      BY <1>2, <1>3, <2>2, <3>1 DEF Refuses, tables, Working
  <2>3. CASE Works(p)
    <3>1. PICK j \in JobRec : /\ job' = [job EXCEPT ![p] = j]
                              /\ j.ids = job[p].ids /\ job[p].pc = "check"
      BY <2>3 DEF Works, On, Goes
    <3>2. job'[p] = j /\ \A q \in Procs \ {p} : job'[q] = job[q]
      BY <1>1, <3>1
    <3>3. j.ids = {}
      BY <3>1 DEF Stored, Placed, Idle
    <3> QED
      BY <1>2, <1>3, <2>3, <3>1, <3>2, <3>3 DEF Works, tables
  <2>4. CASE Adds(p)
    <3>1. PICK j \in JobRec, c \in Item :
             /\ On(p, j, "claim") /\ j.ids = job[p].ids \cup {Len(claims) + 1}
             /\ claims' = Append(claims, c)
             /\ c.frame = job[p].frame /\ c.out = job[p].req.out
      BY <2>4 DEF Adds
    <3>2. /\ job'[p] = j /\ j.req = job[p].req /\ j.frame = job[p].frame
          /\ \A q \in Procs \ {p} : job'[q] = job[q]
      BY <1>1, <3>1 DEF On, Goes
    <3>3. /\ DOMAIN claims' = DOMAIN claims \cup {Len(claims) + 1}
          /\ \A i \in DOMAIN claims : claims'[i] = claims[i]
          /\ claims'[Len(claims) + 1] = c
      BY <3>1 DEF Stored
    <3>4. \A f, o : Captured(f, o) \subseteq Captured(f, o)'
      BY <3>3 DEF Captured
    <3>5. job[p].ids \subseteq Captured(job[p].frame, job[p].req.out)
      BY <3>1 DEF Own, On, Working
    <3>6. Len(claims) + 1 \in Captured(job[p].frame, job[p].req.out)'
      BY <3>1, <3>2, <3>3 DEF Captured
    <3>7. j.ids \subseteq Captured(j.frame, j.req.out)'
      <4>1. j.ids \subseteq Captured(job[p].frame, job[p].req.out) \cup {Len(claims) + 1}
        BY <3>1, <3>5
      <4>2. DOMAIN claims' = DOMAIN claims \cup {Len(claims) + 1}
        BY <3>3
      <4> QED
        BY <3>1, <3>2, <3>3, <4>1 DEF Captured
    <3> QED
      <4> DEFINE f == j.frame
                 o == j.req.out
      <4>1. f = job'[p].frame /\ o = job'[p].req.out /\ job'[p].ids \subseteq Captured(f, o)'
        BY <3>2, <3>7
      <4> HIDE DEF f, o
      <4>2. \A q \in Procs \ {p} : job'[q].pc \in Working =>
               /\ job[q].pc \in Working /\ job'[q].ids = job[q].ids
               /\ job'[q].frame = job[q].frame /\ job'[q].req = job[q].req
        BY <3>2
      <4> QED
        BY <1>2, <3>4, <4>1, <4>2
  <2>5. CASE Judges(p) \/ Corrects(p)
    <3>1. PICK j \in JobRec : (On(p, j, "event") \/ On(p, j, "correct")) /\ Kept(p, j)
      BY <2>5 DEF Judges, Corrects
    <3>2. /\ job'[p] = j /\ j.req = job[p].req /\ j.frame = job[p].frame
          /\ job[p].pc \in Working /\ j.ids = job[p].ids
          /\ \A q \in Procs \ {p} : job'[q] = job[q]
      BY <1>1, <3>1 DEF On, Goes, Working, Kept
    <3>3. DOMAIN claims' = DOMAIN claims /\ \A i \in DOMAIN claims : Same(i)
      BY <2>5, Marks DEF Judges, Corrects, Stored
    <3>4. \A f, o : Captured(f, o) \subseteq Captured(f, o)'
      BY <3>3 DEF Captured, Same
    <3> QED
      BY <1>2, <3>2, <3>4
  <2> QED
    BY <1>4, <2>1, <2>2, <2>3, <2>4, <2>5, CaptureSteps
<1>5. CASE Turn \/ BuildFrame
  BY <1>2, <1>3, <1>5 DEF Turn, BuildFrame
<1>6. ASSUME NEW f \in FrameIds, Retain(f) PROVE Own'
  <2>1. \A q \in Procs : job'[q].pc \in Working =>
           /\ job[q].pc \in Working /\ job'[q].ids = job[q].ids
           /\ job'[q].frame = job[q].frame /\ job'[q].req = job[q].req
    BY <1>6, Retained
  <2> QED
    BY <1>2, <1>3, <1>6, <2>1 DEF Retain
<1>7. ASSUME NEW p \in Procs, Begins(p) \/ Drops(p) PROVE Own'
  <2>1. job'[p].pc \notin Working /\ \A q \in Procs \ {p} : job'[q] = job[q]
    <3>1. CASE Begins(p)
      BY <1>1, <3>1, Begun DEF Working
    <3>2. CASE Drops(p)
      BY <1>1, <3>2, IdlePc DEF Working, Drops, Fail, Step
    <3> QED
      BY <1>7, <3>1, <3>2
  <2> QED
    BY <1>2, <1>3, <1>7, <2>1 DEF Begins, Drops, tables
<1>8. CASE UNCHANGED Store
  BY <1>2, <1>3, <1>8 DEF Store, tables
<1> QED
  BY <1>4, <1>5, <1>6, <1>7, <1>8 DEF CaptureNext

\* The last claim of a key gets its verdict, its correction or is complete.
LEMMA Finishes ==
    ASSUME NEW p \in Procs, NEW j, NEW f, NEW o, job' = [job EXCEPT ![p] = j],
           job'[p] = j, job[p].frame = f, job[p].req.out = o, j.frame = f, j.req = job[p].req,
           Parted(p, j), j.ids = Captured(f, o)', NEW m \in Nat, job[p].part = m,
           Each(f, o, m)', \A i \in Captured(f, o)' : Done(i)',
           \A q \in Procs \ {p} : ~AtWork(q, f, o)'
    PROVE  Whole(f, o)' /\ Alone(f, o)'
<1>1. CASE j.pc = "enqueue" /\ m = PartsOf[o]
  <2>1. \A q \in Procs : ~AtWork(q, f, o)'
    BY <1>1 DEF AtWork
  <2>2. Complete(f, o)'
    BY <1>1 DEF Complete
  <2> QED
    BY <2>1, <2>2 DEF Whole, Alone
<1>2. CASE j.pc = "claim" /\ j.part = m + 1
  <2>1. j.part - 1 = m
    BY <1>2
  <2>2. Busy(p, f, o)'
    BY <1>2, <2>1 DEF Busy
  <2>3. \A q \in Procs : AtWork(q, f, o)' => q = p
    OBVIOUS
  <2>4. AtWork(p, f, o)'
    BY <1>2 DEF AtWork
  <2> QED
    BY <2>2, <2>3, <2>4 DEF Whole, Alone
<1> QED
  BY <1>1, <1>2 DEF Parted

LEMMA WholeStep ==
    ASSUME Stored, FrameInv, WorkInv, [CaptureNext]_Store,
           NEW f \in FrameIds, NEW o \in Outputs, <<f, o>> \notin disturbed'
    PROVE  Whole(f, o)' /\ Alone(f, o)'
<1>1. <<f, o>> \in Keys \ disturbed
  BY Disturbs DEF Keys
<1>2. Whole(f, o) /\ Alone(f, o)
  BY <1>1 DEF WorkInv
<1>3. ASSUME NEW p \in Procs, NEW j, job' = [job EXCEPT ![p] = j]
      PROVE  job'[p] = j /\ \A q \in Procs \ {p} : job'[q] = job[q]
  BY <1>3 DEF Stored
<1>4. \A q \in Procs : AtWork(q, f, o) /\ job[q].pc \in {"event", "correct"}
                         => Newest(q) \in job[q].ids
  BY NewestIn
\* A step of a capture of another key, or that does not work.
<1>5. ASSUME NEW p \in Procs, \A q \in Procs \ {p} : job'[q] = job[q],
             ~AtWork(p, f, o), ~AtWork(p, f, o)',
             Captured(f, o)' = Captured(f, o), \A i \in Captured(f, o) : claims'[i] = claims[i]
      PROVE  Whole(f, o)' /\ Alone(f, o)'
  <2>1. \A q \in Procs : AtWork(q, f, o)' <=> AtWork(q, f, o)
    BY <1>5 DEF AtWork
  <2>2. \A q \in Procs : AtWork(q, f, o) => q # p
    BY <1>5
  <2> QED
    BY <1>2, <1>4, <1>5, <2>1, <2>2, Quiet
<1>6. UNCHANGED claims =>
         Captured(f, o)' = Captured(f, o) /\ \A i \in Captured(f, o) : claims'[i] = claims[i]
  BY DEF Captured
\* A capture of the key that stops before it has a claim.
<1>7. ASSUME NEW p \in Procs, AtWork(p, f, o), \A q \in Procs \ {p} : job'[q] = job[q],
             job'[p] = Idle, UNCHANGED claims, job[p].ids = {}
      PROVE  Whole(f, o)' /\ Alone(f, o)'
  <2>1. \A q \in Procs \ {p} : ~AtWork(q, f, o)
    BY <1>2, <1>7 DEF Alone
  <2>2. \A q \in Procs : ~AtWork(q, f, o)'
    BY <1>7, <2>1, IdlePc DEF AtWork
  <2>3. Captured(f, o) = {}
    BY <1>2, <1>7 DEF Whole, Busy
  <2> QED
    BY <1>6, <1>7, <2>2, <2>3 DEF Whole, Alone
<1>8. ASSUME NEW p \in Procs, Capture(p) PROVE Whole(f, o)' /\ Alone(f, o)'
  <2>1. CASE Resolves(p) \/ Replays(p) \/ Enqueues(p) \/ Proposes(p)
    <3>1. PICK j \in JobRec :
             /\ job' = [job EXCEPT ![p] = j] /\ j.pc \in {"check", "enqueue", "propose", "done"}
             /\ job[p].pc \in {"frame", "check", "enqueue", "propose"}
      BY <2>1 DEF Resolves, Replays, Enqueues, Proposes, On, Goes
    <3>2. job'[p] = j /\ \A q \in Procs \ {p} : job'[q] = job[q]
      BY <1>3, <3>1
    <3>3. claims' = claims
      BY <2>1 DEF Resolves, Replays, Enqueues, Enqueue, Proposes, Propose, tables
    <3>4. ~AtWork(p, f, o) /\ ~AtWork(p, f, o)'
      BY <3>1, <3>2 DEF AtWork
    <3> QED
      BY <1>5, <1>6, <3>2, <3>3, <3>4
  <2>2. CASE Refuses(p)
    <3>1. job'[p] = Idle /\ claims' = claims /\ \A q \in Procs \ {p} : job'[q] = job[q]
      BY <1>3, <2>2 DEF Refuses, tables
    <3>2. ~AtWork(p, f, o)'
      BY <3>1, IdlePc DEF AtWork
    <3>3. CASE AtWork(p, f, o)
      <4>1. frames[f] = Absent
        BY <2>2, <3>3 DEF Refuses, AtWork
      <4>2. Captured(f, o) = {}
        BY <4>1 DEF FrameInv, Filed, Captured
      <4>3. job[p].ids = {}
        BY <1>2, <3>3, <4>2 DEF Whole, Busy
      <4> QED
        BY <1>7, <3>1, <3>3, <4>3
    <3> QED
      BY <1>5, <1>6, <3>1, <3>2, <3>3
  <2>3. CASE Works(p)
    <3>1. PICK j \in JobRec :
             /\ job' = [job EXCEPT ![p] = j] /\ j.frame = job[p].frame /\ j.req = job[p].req
             /\ j.pc = "claim" /\ j.part = 1 /\ j.ids = job[p].ids /\ job[p].pc = "check"
      BY <2>3 DEF Works, On, Goes
    <3>2. job'[p] = j /\ \A q \in Procs \ {p} : job'[q] = job[q]
      BY <1>3, <3>1
    <3>3. claims' = claims /\ j.ids = {} /\ ~AtWork(p, f, o)
      BY <2>3, <3>1 DEF Works, tables, Stored, Placed, Idle, AtWork
    <3>4. CASE job[p].frame = f /\ job[p].req.out = o
      <4>1. \A q \in Procs : ~AtWork(q, f, o)
        BY <2>3, <3>4 DEF Works, Races
      <4>2. \A q \in Procs : AtWork(q, f, o)' => q = p
        BY <3>2, <4>1 DEF AtWork
      <4>3. Captured(f, o) = {} /\ Captured(f, o)' = {}
        BY <2>3, <3>3, <3>4 DEF Works, Captured
      <4>4. Each(f, o, 0)'
        BY <4>3 DEF Each
      <4>5. AtWork(p, f, o)'
        BY <3>1, <3>2, <3>4 DEF AtWork
      <4>6. Busy(p, f, o)'
        BY <3>1, <3>2, <3>3, <4>3, <4>4 DEF Busy
      <4> QED
        BY <4>2, <4>5, <4>6 DEF Whole, Alone
    <3>5. CASE ~(job[p].frame = f /\ job[p].req.out = o)
      <4>1. ~AtWork(p, f, o)'
        BY <3>1, <3>2, <3>5 DEF AtWork
      <4> QED
        BY <1>5, <1>6, <3>2, <3>3, <4>1
    <3> QED
      BY <3>4, <3>5
  <2>4. CASE Adds(p)
    <3>1. PICK j \in JobRec, c \in Item :
             /\ On(p, j, "claim") /\ j.ids = job[p].ids \cup {Len(claims) + 1}
             /\ claims' = Append(claims, c)
             /\ c.frame = job[p].frame /\ c.out = job[p].req.out /\ c.part = job[p].part
             /\ c.verdict = "none" /\ c.corrected = FALSE
             /\ IF DecisionOf[job[p].req.out] = "accept" THEN Parted(p, j)
                ELSE j.pc = "event" /\ j.part = job[p].part
      BY <2>4 DEF Adds
    <3>2. /\ job'[p] = j /\ j.req = job[p].req /\ j.frame = job[p].frame /\ job[p].pc = "claim"
          /\ job' = [job EXCEPT ![p] = j]
          /\ \A q \in Procs \ {p} : job'[q] = job[q]
      BY <1>3, <3>1 DEF On, Goes
    <3>0. PICK id : id = Len(claims) + 1
      OBVIOUS
    <3>3. /\ DOMAIN claims' = DOMAIN claims \cup {id} /\ id \notin DOMAIN claims
          /\ \A i \in DOMAIN claims : claims'[i] = claims[i] /\ i <= id
          /\ claims'[id] = c /\ id \in Nat
      BY <3>0, <3>1 DEF Stored
    <3>4. CASE job[p].frame = f /\ job[p].req.out = o
      <4>1. AtWork(p, f, o)
        BY <3>2, <3>4 DEF AtWork
      <4>2. \A q \in Procs \ {p} : ~AtWork(q, f, o)'
        BY <1>2, <3>2, <4>1 DEF Alone, AtWork
      <4>3. Busy(p, f, o)
        BY <1>2, <4>1 DEF Whole
      <4>4. Captured(f, o)' = Captured(f, o) \cup {id} /\ id \notin Captured(f, o)
        BY <3>1, <3>3, <3>4 DEF Captured
      <4>5. Captured(f, o) = job[p].ids /\ j.ids = Captured(f, o)'
        BY <3>0, <3>1, <4>3, <4>4 DEF Busy
      <4>6. PICK m \in Nat : m = job[p].part /\ m >= 1
        BY <3>2, WorkingJobs, OutputsAssumption DEF Stored, Placed, Working, Idle
      <4>7. Each(f, o, m - 1)
        BY <3>2, <4>3, <4>6 DEF Busy
      <4>8. Each(f, o, m)'
        <5>1. \A i \in Captured(f, o) : /\ claims'[i].part = claims[i].part
                                        /\ claims'[i].part \in 1 .. (m - 1)
          BY <3>3, <4>7 DEF Each, Captured
        <5>2. claims'[id].part = m /\ m \in 1 .. m /\ m \notin 1 .. (m - 1)
          BY <3>1, <3>3, <4>6
        <5>3. \A i \in Captured(f, o)' : claims'[i].part \in 1 .. m
          <6>1. \A k : k \in 1 .. (m - 1) => k \in 1 .. m
            BY <4>6
          <6> QED
            BY <4>4, <5>1, <5>2, <6>1
        <5>4. ASSUME NEW n \in 1 .. m
              PROVE  \E i \in Captured(f, o)' : {k \in Captured(f, o)' : claims'[k].part = n} = {i}
          <6>1. CASE n = m
            <7>1. {k \in Captured(f, o)' : claims'[k].part = n} = {id}
              BY <4>4, <5>1, <5>2, <6>1
            <7> QED
              BY <4>4, <7>1
          <6>2. CASE n \in 1 .. (m - 1)
            <7>1. PICK i \in Captured(f, o) : {k \in Captured(f, o) : claims[k].part = n} = {i}
              BY <4>7, <6>2 DEF Each
            <7>2. n # m
              BY <5>2, <6>2
            <7>3. {k \in Captured(f, o)' : claims'[k].part = n} = {k \in Captured(f, o) : claims[k].part = n}
              BY <4>4, <5>1, <5>2, <7>2
            <7> QED
              BY <4>4, <7>1, <7>3
          <6> QED
            BY <4>6, <6>1, <6>2
        <5> QED
          BY <5>3, <5>4 DEF Each
      <4>9. \A i \in Captured(f, o) : Done(i)'
        BY <3>2, <3>3, <4>3 DEF Busy, Done, Captured
      <4>10. CASE DecisionOf[o] = "accept"
        <5>1. Done(id)'
          BY <3>1, <3>3, <3>4, <4>10 DEF Done
        <5>2. Parted(p, j) /\ j.frame = f
          BY <3>1, <3>2, <3>4, <4>10
        <5>3. \A i \in Captured(f, o)' : Done(i)'
          BY <4>4, <4>9, <5>1
        <5> QED
          BY <3>2, <3>4, <4>2, <4>5, <4>6, <4>8, <5>2, <5>3, Finishes
      <4>11. CASE DecisionOf[o] # "accept"
        <5>1. j.pc = "event" /\ j.part = job[p].part
          BY <3>1, <3>4, <4>11
        <5>2. Newest(p)' = id
          <6>1. \A k \in j.ids : k <= id /\ k \in Nat
            BY <3>3, <4>4, <4>5 DEF Captured, Stored
          <6>2. id \in j.ids
            BY <4>4, <4>5
          <6> QED
            BY <3>2, <3>3, <6>1, <6>2 DEF Newest
        <5>3. Busy(p, f, o)'
          BY <3>1, <3>2, <3>3, <4>4, <4>5, <4>6, <4>8, <4>9, <4>11, <5>1, <5>2 DEF Busy
        <5>4. AtWork(p, f, o)'
          BY <3>2, <3>4, <5>1 DEF AtWork
        <5> QED
          BY <4>2, <5>3, <5>4 DEF Whole, Alone
      <4> QED
        BY <4>10, <4>11
    <3>5. CASE ~(job[p].frame = f /\ job[p].req.out = o)
      <4>1. ~AtWork(p, f, o) /\ ~AtWork(p, f, o)'
        BY <3>2, <3>5 DEF AtWork
      <4>2. Captured(f, o)' = Captured(f, o)
        BY <3>1, <3>3, <3>5 DEF Captured
      <4>3. \A i \in Captured(f, o) : claims'[i] = claims[i]
        BY <3>3 DEF Captured
      <4> QED
        BY <1>5, <3>2, <4>1, <4>2, <4>3
    <3> QED
      BY <3>4, <3>5
  <2>5. CASE Judges(p) \/ Corrects(p)
    <3>1. PICK j \in JobRec :
             /\ Kept(p, j)
             /\ \/ On(p, j, "event") /\ Judges(p)
                   /\ IF ResultOf(job[p].req.out) = "contradicted"
                      THEN j.pc = "correct" /\ j.part = job[p].part
                      ELSE Parted(p, j)
                \/ On(p, j, "correct") /\ Corrects(p) /\ Parted(p, j)
      BY <2>5 DEF Judges, Corrects
    <3>2. /\ job'[p] = j /\ j.req = job[p].req /\ j.frame = job[p].frame
          /\ job[p].pc \in {"event", "correct"} /\ j.ids = job[p].ids
          /\ job' = [job EXCEPT ![p] = j]
          /\ \A q \in Procs \ {p} : job'[q] = job[q]
      BY <1>3, <3>1 DEF On, Goes, Kept
    <3>0. PICK n : n = Newest(p)
      OBVIOUS
    <3>3. n \in job[p].ids /\ n \in DOMAIN claims
      BY <3>0, <3>2, NewestIn
    <3>4. /\ DOMAIN claims' = DOMAIN claims
          /\ \A i \in DOMAIN claims : Same(i) /\ (i # n => claims'[i] = claims[i])
      BY <2>5, <3>0, Marks DEF Judges, Corrects, Stored
    <3>5. Captured(f, o)' = Captured(f, o)
      BY <3>4 DEF Captured, Same
    <3>6. n \in Captured(job[p].frame, job[p].req.out)
      BY <3>2, <3>3 DEF WorkInv, Own, Working
    <3>7. claims[n] \in Item
      BY <3>3 DEF Stored
    <3>8. Newest(p)' = n
      BY <3>0, <3>2 DEF Newest
    <3>9. CASE job[p].frame = f /\ job[p].req.out = o
      <4>1. AtWork(p, f, o)
        BY <3>2, <3>9 DEF AtWork
      <4>2. \A q \in Procs \ {p} : ~AtWork(q, f, o)'
        BY <1>2, <3>2, <4>1 DEF Alone, AtWork
      <4>3. Busy(p, f, o)
        BY <1>2, <4>1 DEF Whole
      <4>4. j.ids = Captured(f, o)'
        BY <3>2, <3>5, <4>3 DEF Busy
      <4>5. PICK m \in Nat : m = job[p].part
        BY <3>2, WorkingJobs DEF Working, JobRec
      <4>6. Each(f, o, m)
        BY <3>2, <4>3, <4>5 DEF Busy
      <4>7. Each(f, o, m)'
        <5>1. \A i \in Captured(f, o) : claims'[i].part = claims[i].part
          BY <3>4 DEF Captured, Same
        <5> QED
          BY <3>5, <4>6, <5>1 DEF Each
      <4>8. \A i \in Captured(f, o) : i # n => Done(i) /\ Done(i)'
        BY <3>0, <3>2, <3>4, <4>3 DEF Busy, Done, Captured
      <4>9. claims[n].out = o /\ claims'[n].out = o
        BY <3>4, <3>6, <3>9 DEF Captured, Same
      <4>10. CASE On(p, j, "event") /\ Judges(p)
        <5>1. claims'[n].verdict = ResultOf(o) /\ claims'[n].corrected = claims[n].corrected
          BY <3>0, <3>3, <3>7, <3>9, <4>10 DEF Judges, Item
        <5>2. claims[n].corrected = FALSE /\ DecisionOf[o] # "accept" /\ job[p].pc = "event"
          BY <3>0, <4>3, <4>10 DEF Busy, On
        <5>3. CASE DecisionOf[o] = "reject"
          <6>1. j.pc = "correct" /\ j.part = job[p].part
            BY <3>1, <3>9, <5>2, <5>3 DEF ResultOf, On
          <6>2. Busy(p, f, o)'
            BY <3>2, <3>5, <3>8, <4>4, <4>5, <4>7, <4>8, <5>1, <5>2, <5>3, <6>1 DEF Busy
          <6>3. AtWork(p, f, o)'
            BY <3>2, <3>9, <6>1 DEF AtWork
          <6> QED
            BY <4>2, <6>2, <6>3 DEF Whole, Alone
        <5>4. CASE DecisionOf[o] # "reject"
          <6>1. Parted(p, j)
            BY <3>1, <3>9, <5>2, <5>4 DEF ResultOf, On
          <6>2. Done(n)'
            BY <4>9, <5>1, <5>2, <5>4 DEF Done, ResultOf
          <6>3. \A i \in Captured(f, o)' : Done(i)'
            BY <3>5, <4>8, <6>2
          <6> QED
            BY <3>2, <3>9, <4>2, <4>4, <4>5, <4>7, <6>1, <6>3, Finishes
        <5> QED
          BY <5>3, <5>4
      <4>11. CASE On(p, j, "correct") /\ Corrects(p) /\ Parted(p, j)
        <5>1. claims'[n].corrected = TRUE /\ claims'[n].verdict = claims[n].verdict
          BY <3>0, <3>3, <3>7, <4>11 DEF Corrects, Item
        <5>2. DecisionOf[o] = "reject" /\ claims[n].verdict = ResultOf(o)
          BY <3>0, <4>3, <4>11 DEF Busy, On
        <5>3. Done(n)'
          BY <4>9, <5>1, <5>2 DEF Done, ResultOf
        <5>4. \A i \in Captured(f, o)' : Done(i)'
          BY <3>5, <4>8, <5>3
        <5> QED
          BY <3>2, <3>9, <4>2, <4>4, <4>5, <4>7, <4>11, <5>4, Finishes
      <4> QED
        BY <3>1, <4>10, <4>11
    <3>10. CASE ~(job[p].frame = f /\ job[p].req.out = o)
      <4>1. ~AtWork(p, f, o) /\ ~AtWork(p, f, o)'
        BY <3>2, <3>10 DEF AtWork
      <4>2. n \notin Captured(f, o)
        BY <3>6, <3>10 DEF Captured
      <4>3. \A i \in Captured(f, o) : claims'[i] = claims[i]
        BY <3>4, <4>2 DEF Captured
      <4> QED
        BY <1>5, <3>2, <3>5, <4>1, <4>3
    <3> QED
      BY <3>9, <3>10
  <2> QED
    BY <1>8, <2>1, <2>2, <2>3, <2>4, <2>5, CaptureSteps
<1>9. CASE Turn \/ BuildFrame \/ UNCHANGED Store
  <2>1. job' = job /\ claims' = claims
    BY <1>9 DEF Turn, BuildFrame, Store, tables
  <2>2. \A q \in Procs : AtWork(q, f, o)' <=> AtWork(q, f, o)
    BY <2>1 DEF AtWork
  <2> QED
    BY <1>2, <1>4, <1>6, <2>1, <2>2, Quiet
<1>10. ASSUME NEW g \in FrameIds, Retain(g) PROVE Whole(f, o)' /\ Alone(f, o)'
  <2>1. claims' = claims
    BY <1>10 DEF Retain
  <2>2. \A q \in Procs : AtWork(q, f, o)' <=> AtWork(q, f, o)
    BY <1>10, Retained DEF AtWork, Working
  <2>3. \A q \in Procs : AtWork(q, f, o) =>
           /\ job'[q].pc = job[q].pc /\ job'[q].part = job[q].part /\ job'[q].ids = job[q].ids
    BY <1>10, Retained DEF AtWork, Working
  <2> QED
    BY <1>2, <1>4, <1>6, <2>1, <2>2, <2>3, Quiet
<1>11. ASSUME NEW p \in Procs, Begins(p) PROVE Whole(f, o)' /\ Alone(f, o)'
  <2>1. job'[p].pc \in {"frame", "check"} /\ \A q \in Procs \ {p} : job'[q] = job[q]
    BY <1>3, <1>11, Begun
  <2>2. ~AtWork(p, f, o) /\ ~AtWork(p, f, o)'
    BY <1>11, <2>1, IdlePc DEF Begins, AtWork
  <2> QED
    BY <1>5, <1>6, <1>11, <2>1, <2>2 DEF Begins, tables
<1>12. ASSUME NEW p \in Procs, Drops(p) PROVE Whole(f, o)' /\ Alone(f, o)'
  <2>1. job'[p] = Idle /\ claims' = claims /\ \A q \in Procs \ {p} : job'[q] = job[q]
    BY <1>3, <1>12 DEF Drops, Fail, Step, tables
  <2>2. ~AtWork(p, f, o)'
    BY <2>1, IdlePc DEF AtWork
  <2>3. AtWork(p, f, o) => job[p].ids = {}
    BY <1>1, <1>12 DEF Drops, Cut
  <2> QED
    BY <1>5, <1>6, <1>7, <2>1, <2>2, <2>3
<1> QED
  BY <1>8, <1>9, <1>10, <1>11, <1>12 DEF CaptureNext

LEMMA WorkStep == Stored /\ FrameInv /\ WorkInv /\ [CaptureNext]_Store => WorkInv'
<1> SUFFICES ASSUME Stored, FrameInv, WorkInv, [CaptureNext]_Store PROVE WorkInv'
  OBVIOUS
<1>1. Own'
  BY OwnStep DEF WorkInv
<1>2. ASSUME NEW k \in Keys, k \notin disturbed'
      PROVE  Alone(k[1], k[2])' /\ Whole(k[1], k[2])'
  <2>1. k[1] \in FrameIds /\ k[2] \in Outputs /\ k = <<k[1], k[2]>>
    BY DEF Keys
  <2> QED
    BY <1>2, <2>1, WholeStep
<1> QED
  BY <1>1, <1>2 DEF WorkInv

-----------------------------------------------------------------------------
(* Proposals: once the claims of an undisturbed key are all there, they are   *)
(* what every proposal for them names, and drains propose them once.         *)

Settled(f, o, ids) ==
    ids = Captured(f, o) /\ ids # {} /\ \A p \in Procs : ~AtWork(p, f, o)

Queued(p, f, o) ==
    job[p].pc \in {"enqueue", "propose"} /\ job[p].frame = f /\ job[p].req.out = o

Entering(p, f, o) == job[p].pc = "propose" /\ job[p].frame = f /\ job[p].req.out = o

Entered(n, f, o) ==
    /\ n \in DOMAIN proposals /\ proposals[n].reason = "adapter"
    /\ proposals[n].frame = f /\ proposals[n].out = o

Once(f, o) ==
    /\ \A p \in Procs : Queued(p, f, o) => Settled(f, o, job[p].ids)
    /\ \A n : Entered(n, f, o) => Settled(f, o, proposals[n].ids)
    /\ \A p \in Drains : Entering(p, f, o) => \A n : ~Entered(n, f, o)
    /\ \A p, q \in Drains : Entering(p, f, o) /\ Entering(q, f, o) => p = q
    /\ \A m, n : Entered(m, f, o) /\ Entered(n, f, o) => m = n

OnceInv == \A k \in Keys \ disturbed : Once(k[1], k[2])

LEMMA OnceInit == CaptureInit => OnceInv
<1> SUFFICES ASSUME CaptureInit PROVE OnceInv
  OBVIOUS
<1>1. \A p \in Procs : job[p].pc = "idle"
  BY IdlePc DEF CaptureInit
<1>2. \A n : \A f, o : ~Entered(n, f, o)
  BY DEF CaptureInit, Entered
<1>3. \A p \in Procs : \A f, o : ~Queued(p, f, o) /\ ~Entering(p, f, o)
  BY <1>1 DEF Queued, Entering
<1>4. Drains \subseteq Procs
  BY DEF Procs
<1> QED
  BY <1>2, <1>3, <1>4 DEF OnceInv, Once

\* What is settled stays so: whoever finds claims takes them for a replay.
LEMMA SettledStays ==
    ASSUME Stored, [CaptureNext]_Store, NEW f, NEW o, NEW ids, Settled(f, o, ids)
    PROVE  Settled(f, o, ids)'
<1>1. ASSUME NEW p \in Procs, NEW j, job' = [job EXCEPT ![p] = j]
      PROVE  job'[p] = j /\ \A q \in Procs \ {p} : job'[q] = job[q]
  BY <1>1 DEF Stored
<1>2. ASSUME NEW p \in Procs, \A q \in Procs \ {p} : job'[q] = job[q],
             ~AtWork(p, f, o)', Captured(f, o)' = Captured(f, o)
      PROVE  Settled(f, o, ids)'
  BY <1>2 DEF Settled, AtWork
<1>3. UNCHANGED claims => Captured(f, o)' = Captured(f, o)
  BY DEF Captured
<1>4. ASSUME NEW p \in Procs, Capture(p) PROVE Settled(f, o, ids)'
  <2>1. CASE Resolves(p) \/ Replays(p) \/ Enqueues(p) \/ Proposes(p)
    <3>1. PICK j \in JobRec :
             job' = [job EXCEPT ![p] = j] /\ j.pc \in {"check", "enqueue", "propose", "done"}
      BY <2>1 DEF Resolves, Replays, Enqueues, Proposes, On, Goes
    <3>2. job'[p] = j /\ \A q \in Procs \ {p} : job'[q] = job[q]
      BY <1>1, <3>1
    <3>3. claims' = claims
      BY <2>1 DEF Resolves, Replays, Enqueues, Enqueue, Proposes, Propose, tables
    <3>4. ~AtWork(p, f, o)'
      BY <3>1, <3>2 DEF AtWork
    <3> QED
      BY <1>2, <1>3, <3>2, <3>3, <3>4
  <2>2. CASE Refuses(p)
    <3>1. job'[p] = Idle /\ claims' = claims /\ \A q \in Procs \ {p} : job'[q] = job[q]
      BY <1>1, <2>2 DEF Refuses, tables
    <3>2. ~AtWork(p, f, o)'
      BY <3>1, IdlePc DEF AtWork
    <3> QED
      BY <1>2, <1>3, <3>1, <3>2
  <2>3. CASE Works(p)
    <3>1. PICK j \in JobRec :
             job' = [job EXCEPT ![p] = j] /\ j.frame = job[p].frame /\ j.req = job[p].req
      BY <2>3 DEF Works, On, Goes
    <3>2. job'[p] = j /\ \A q \in Procs \ {p} : job'[q] = job[q]
      BY <1>1, <3>1
    <3>3. ~(job[p].frame = f /\ job[p].req.out = o)
      BY <2>3 DEF Works, Settled
    <3>4. ~AtWork(p, f, o)'
      BY <3>1, <3>2, <3>3 DEF AtWork
    <3> QED
      BY <1>2, <1>3, <2>3, <3>2, <3>4 DEF Works, tables
  <2>4. CASE Adds(p)
    <3>1. PICK j \in JobRec, c \in Item :
             /\ On(p, j, "claim") /\ claims' = Append(claims, c)
             /\ c.frame = job[p].frame /\ c.out = job[p].req.out
      BY <2>4 DEF Adds
    <3>2. /\ job'[p] = j /\ j.req = job[p].req /\ j.frame = job[p].frame /\ job[p].pc = "claim"
          /\ \A q \in Procs \ {p} : job'[q] = job[q]
      BY <1>1, <3>1 DEF On, Goes
    <3>3. ~(job[p].frame = f /\ job[p].req.out = o)
      BY <3>2 DEF Settled, AtWork
    <3>4. /\ DOMAIN claims' = DOMAIN claims \cup {Len(claims) + 1}
          /\ \A i \in DOMAIN claims : claims'[i] = claims[i]
          /\ claims'[Len(claims) + 1] = c
      BY <3>1 DEF Stored
    <3>5. Captured(f, o)' = Captured(f, o)
      BY <3>1, <3>3, <3>4 DEF Captured
    <3>6. ~AtWork(p, f, o)'
      BY <3>2, <3>3 DEF AtWork
    <3> QED
      BY <1>2, <3>2, <3>5, <3>6
  <2>5. CASE Judges(p) \/ Corrects(p)
    <3>1. PICK j \in JobRec : (On(p, j, "event") \/ On(p, j, "correct")) /\ Kept(p, j)
      BY <2>5 DEF Judges, Corrects
    <3>2. /\ job'[p] = j /\ j.req = job[p].req /\ j.frame = job[p].frame
          /\ job[p].pc \in {"event", "correct"}
          /\ \A q \in Procs \ {p} : job'[q] = job[q]
      BY <1>1, <3>1 DEF On, Goes
    <3>3. DOMAIN claims' = DOMAIN claims /\ \A i \in DOMAIN claims : Same(i)
      BY <2>5, Marks DEF Judges, Corrects, Stored
    <3>4. Captured(f, o)' = Captured(f, o)
      BY <3>3 DEF Captured, Same
    <3>5. ~AtWork(p, f, o)'
      BY <3>2 DEF AtWork, Settled
    <3> QED
      BY <1>2, <3>2, <3>4, <3>5
  <2> QED
    BY <1>4, <2>1, <2>2, <2>3, <2>4, <2>5, CaptureSteps
<1>5. CASE Turn \/ BuildFrame \/ UNCHANGED Store
  BY <1>3, <1>5 DEF Turn, BuildFrame, Store, tables, Settled, AtWork
<1>6. ASSUME NEW g \in FrameIds, Retain(g) PROVE Settled(f, o, ids)'
  <2>1. \A q \in Procs : ~AtWork(q, f, o)'
    BY <1>6, Retained DEF AtWork, Settled, Working
  <2> QED
    BY <1>3, <1>6, <2>1 DEF Retain, Settled
<1>7. ASSUME NEW p \in Procs, Begins(p) \/ Drops(p) PROVE Settled(f, o, ids)'
  <2>1. /\ job'[p].pc \in {"idle", "frame", "check"}
        /\ \A q \in Procs \ {p} : job'[q] = job[q]
    <3>1. CASE Begins(p)
      BY <1>1, <3>1, Begun
    <3>2. CASE Drops(p)
      BY <1>1, <3>2, IdlePc DEF Drops, Fail, Step
    <3> QED
      BY <1>7, <3>1, <3>2
  <2>2. ~AtWork(p, f, o)'
    BY <2>1 DEF AtWork
  <2> QED
    BY <1>2, <1>3, <1>7, <2>1, <2>2 DEF Begins, Drops, tables
<1> QED
  BY <1>4, <1>5, <1>6, <1>7 DEF CaptureNext

\* A capture that is done with its last part has the claims of its key.
LEMMA Enters ==
    ASSUME Stored, WorkInv, NEW p \in Procs, NEW j, NEW f \in FrameIds, NEW o \in Outputs,
           Adds(p) \/ Judges(p) \/ Corrects(p), job' = [job EXCEPT ![p] = j],
           <<f, o>> \notin disturbed, Queued(p, f, o)'
    PROVE  Settled(f, o, j.ids)'
<1>1. /\ job'[p] = j /\ job[p].pc \in Working
      /\ job[p].frame = f /\ job[p].req.out = o
      /\ \A q \in Procs \ {p} : job'[q] = job[q]
  BY DEF Adds, Judges, Corrects, On, Goes, Stored, Queued, Working
<1>2. AtWork(p, f, o) /\ Whole(f, o) /\ Alone(f, o)
  BY <1>1 DEF AtWork, Working, WorkInv, Keys
<1>3. \A q \in Procs : ~AtWork(q, f, o)'
  BY <1>1, <1>2 DEF AtWork, Alone, Queued
<1>4. Captured(f, o) = job[p].ids
  BY <1>2 DEF Whole, Busy
<1>5. CASE Adds(p)
  <2>1. PICK c \in Item, k \in JobRec :
           /\ claims' = Append(claims, c) /\ c.frame = job[p].frame /\ c.out = job[p].req.out
           /\ job' = [job EXCEPT ![p] = k] /\ k.ids = job[p].ids \cup {Len(claims) + 1}
    BY <1>5 DEF Adds, On, Goes
  <2>2. k = j
    BY <1>1, <2>1 DEF Stored
  <2>3. /\ DOMAIN claims' = DOMAIN claims \cup {Len(claims) + 1}
        /\ \A i \in DOMAIN claims : claims'[i] = claims[i]
        /\ claims'[Len(claims) + 1] = c
    BY <2>1 DEF Stored
  <2>4. Captured(f, o)' = Captured(f, o) \cup {Len(claims) + 1}
    BY <1>1, <2>1, <2>3 DEF Captured
  <2> QED
    BY <1>3, <1>4, <2>1, <2>2, <2>4 DEF Settled
<1>6. CASE Judges(p) \/ Corrects(p)
  <2>1. PICK k \in JobRec : job' = [job EXCEPT ![p] = k] /\ k.ids = job[p].ids
                            /\ job[p].pc \in {"event", "correct"}
    BY <1>6 DEF Judges, Corrects, On, Goes, Kept
  <2>2. k = j
    BY <1>1, <2>1 DEF Stored
  <2>3. DOMAIN claims' = DOMAIN claims /\ \A i \in DOMAIN claims : Same(i)
    BY <1>6, Marks DEF Judges, Corrects, Stored
  <2>4. Captured(f, o)' = Captured(f, o)
    BY <2>3 DEF Captured, Same
  <2>5. job[p].ids # {}
    BY <2>1, NewestIn
  <2> QED
    BY <1>3, <1>4, <2>1, <2>2, <2>4, <2>5 DEF Settled
<1> QED
  BY <1>5, <1>6

LEMMA OnceAtStep ==
    ASSUME Stored, WorkInv, OnceInv, [CaptureNext]_Store,
           NEW f \in FrameIds, NEW o \in Outputs, <<f, o>> \notin disturbed'
    PROVE  Once(f, o)'
<1>1. <<f, o>> \in Keys \ disturbed
  BY Disturbs DEF Keys
<1>2. Once(f, o)
  BY <1>1 DEF OnceInv
<1>3. ASSUME NEW p \in Procs, NEW j, job' = [job EXCEPT ![p] = j]
      PROVE  job'[p] = j /\ \A q \in Procs \ {p} : job'[q] = job[q]
  BY <1>3 DEF Stored
<1>4. \A ids : Settled(f, o, ids) => Settled(f, o, ids)'
  BY SettledStays
<1>5. Drains \subseteq Procs
  BY DEF Procs
\* No proposal is added, and no drain comes to add one.
<1>6. ASSUME proposals' = proposals,
             \A q \in Procs : Queued(q, f, o)' =>
                \/ Queued(q, f, o) /\ job'[q].ids = job[q].ids
                \/ \E ids : ids = job'[q].ids /\ Settled(f, o, ids)',
             \A q \in Drains : Entering(q, f, o)' => Entering(q, f, o)
      PROVE  Once(f, o)'
  <2>1. \A n : Entered(n, f, o)' <=> Entered(n, f, o)
    BY <1>6 DEF Entered
  <2>2. ASSUME NEW q \in Procs, Queued(q, f, o)', NEW ids, ids = job'[q].ids
        PROVE  Settled(f, o, ids)'
    BY <1>2, <1>4, <1>6, <2>2 DEF Once
  <2>3. \A q \in Procs : Queued(q, f, o)' => Settled(f, o, job[q].ids)'
    BY <2>2 DEF Settled, Captured
  <2>4. \A n : Entered(n, f, o) => \E ids : ids = proposals[n].ids /\ Settled(f, o, ids)
    BY <1>2 DEF Once
  <2>5. \A n : Entered(n, f, o) => \E ids : ids = proposals[n].ids /\ Settled(f, o, ids)'
    BY <1>4, <2>4
  <2>6. \A n : Entered(n, f, o)' => Settled(f, o, proposals[n].ids)'
    BY <1>6, <2>1, <2>5 DEF Settled, Captured
  <2> QED
    BY <1>2, <1>6, <2>1, <2>3, <2>6 DEF Once
<1>7. ASSUME NEW p \in Procs, \A q \in Procs \ {p} : job'[q] = job[q],
             ~Queued(p, f, o)', proposals' = proposals
      PROVE  Once(f, o)'
  <2>1. \A q \in Procs : Queued(q, f, o)' => Queued(q, f, o) /\ job'[q].ids = job[q].ids
    BY <1>7 DEF Queued
  <2>2. \A q \in Drains : Entering(q, f, o)' => Entering(q, f, o)
    BY <1>5, <1>7 DEF Entering, Queued
  <2> QED
    BY <1>6, <1>7, <2>1, <2>2
<1>8. ASSUME NEW p \in Procs, Capture(p) PROVE Once(f, o)'
  <2>1. CASE Resolves(p) \/ Works(p)
    <3>1. PICK j \in JobRec : job' = [job EXCEPT ![p] = j] /\ j.pc \in {"check", "claim"}
      BY <2>1 DEF Resolves, Works, On, Goes
    <3>2. job'[p] = j /\ \A q \in Procs \ {p} : job'[q] = job[q]
      BY <1>3, <3>1
    <3>3. ~Queued(p, f, o)'
      BY <3>1, <3>2 DEF Queued
    <3> QED
      BY <1>7, <2>1, <3>2, <3>3 DEF Resolves, Works, tables
  <2>2. CASE Refuses(p)
    <3>1. job'[p] = Idle /\ proposals' = proposals /\ \A q \in Procs \ {p} : job'[q] = job[q]
      BY <1>3, <2>2 DEF Refuses, tables
    <3>2. ~Queued(p, f, o)'
      BY <3>1, IdlePc DEF Queued
    <3> QED
      BY <1>7, <3>1, <3>2
  <2>3. CASE Replays(p)
    <3>1. PICK j \in JobRec :
             /\ job' = [job EXCEPT ![p] = j] /\ j.frame = job[p].frame /\ j.req = job[p].req
             /\ j.pc = "enqueue" /\ j.ids = Captured(job[p].frame, job[p].req.out) /\ j.ids # {}
             /\ job[p].pc = "check"
      BY <2>3 DEF Replays, On, Goes
    <3>2. job'[p] = j /\ \A q \in Procs \ {p} : job'[q] = job[q]
      BY <1>3, <3>1
    <3>3. proposals' = proposals /\ claims' = claims
      BY <2>3 DEF Replays, tables
    <3>4. CASE job[p].frame = f /\ job[p].req.out = o
      <4>1. \A q \in Procs : ~AtWork(q, f, o)
        BY <2>3, <3>4 DEF Replays, Races
      <4>2. Settled(f, o, j.ids)
        BY <3>1, <3>4, <4>1 DEF Settled
      <4>3. \E ids : ids = job'[p].ids /\ Settled(f, o, ids)'
        BY <1>4, <3>2, <4>2
      <4>4. \A q \in Procs : Queued(q, f, o)' =>
               \/ Queued(q, f, o) /\ job'[q].ids = job[q].ids
               \/ \E ids : ids = job'[q].ids /\ Settled(f, o, ids)'
        BY <3>2, <4>3 DEF Queued
      <4>5. \A q \in Drains : Entering(q, f, o)' => Entering(q, f, o)
        BY <1>5, <3>1, <3>2 DEF Entering
      <4> QED
        BY <1>6, <3>3, <4>4, <4>5
    <3>5. CASE ~(job[p].frame = f /\ job[p].req.out = o)
      <4>1. ~Queued(p, f, o)'
        BY <3>1, <3>2, <3>5 DEF Queued
      <4> QED
        BY <1>7, <3>2, <3>3, <4>1
    <3> QED
      BY <3>4, <3>5
  <2>4. CASE Adds(p) \/ Judges(p) \/ Corrects(p)
    <3>1. PICK j \in JobRec : job' = [job EXCEPT ![p] = j] /\ j.pc # "propose"
      BY <2>4 DEF Adds, Judges, Corrects, On, Goes, Parted
    <3>2. job'[p] = j /\ \A q \in Procs \ {p} : job'[q] = job[q]
      BY <1>3, <3>1
    <3>3. proposals' = proposals
      BY <2>4 DEF Adds, Judges, Corrects
    <3>4. Queued(p, f, o)' => Settled(f, o, j.ids)'
      BY <1>1, <2>4, <3>1, Enters
    <3>5. \A q \in Procs : Queued(q, f, o)' =>
             \/ Queued(q, f, o) /\ job'[q].ids = job[q].ids
             \/ \E ids : ids = job'[q].ids /\ Settled(f, o, ids)'
      BY <3>2, <3>4 DEF Queued
    <3>6. \A q \in Drains : Entering(q, f, o)' => Entering(q, f, o)
      BY <1>5, <3>1, <3>2 DEF Entering
    <3> QED
      BY <1>6, <3>3, <3>5, <3>6
  <2>5. CASE Enqueues(p)
    <3>1. PICK j \in JobRec :
             /\ job' = [job EXCEPT ![p] = j] /\ j.frame = job[p].frame /\ j.req = job[p].req
             /\ j.ids = job[p].ids /\ job[p].pc = "enqueue"
             /\ IF p \in Drains /\ Equivalent(Draft(p)) # {} THEN j.pc = "done" ELSE j.pc = "propose"
      BY <2>5 DEF Enqueues, On, Goes, Kept
    <3>2. job'[p] = j /\ \A q \in Procs \ {p} : job'[q] = job[q]
      BY <1>3, <3>1
    <3>3. proposals' = proposals
      BY <2>5 DEF Enqueues, Enqueue, tables
    <3>4. \A q \in Procs : Queued(q, f, o)' => Queued(q, f, o) /\ job'[q].ids = job[q].ids
      BY <3>1, <3>2 DEF Queued
    <3>5. CASE ~(p \in Drains /\ Entering(p, f, o)')
      <4>1. \A q \in Drains : Entering(q, f, o)' => Entering(q, f, o)
        BY <1>5, <3>2, <3>5 DEF Entering
      <4> QED
        BY <1>6, <3>3, <3>4, <4>1
    <3>6. CASE p \in Drains /\ Entering(p, f, o)'
      <4>1. /\ job[p].frame = f /\ job[p].req.out = o /\ Equivalent(Draft(p)) = {}
            /\ Queued(p, f, o) /\ Settled(f, o, job[p].ids)
        BY <1>2, <3>1, <3>2, <3>6 DEF Entering, Queued, Once
      <4>2. Draft(p) = [frame |-> f, out |-> o, ids |-> Captured(f, o), reason |-> "adapter"]
        BY <3>6, <4>1 DEF Draft, Settled
      <4>3. \A n : ~Entered(n, f, o)
        <5> SUFFICES ASSUME NEW n, Entered(n, f, o) PROVE FALSE
          OBVIOUS
        <5>1. proposals[n].ids = Captured(f, o) /\ proposals[n] \in Entry /\ n \in DOMAIN proposals
          BY <1>2 DEF Once, Settled, Entered, Stored
        <5>2. proposals[n] = [frame |-> f, out |-> o, ids |-> Captured(f, o), reason |-> "adapter"]
          BY <5>1 DEF Entered, Entry
        <5> QED
          BY <4>1, <4>2, <5>1, <5>2 DEF Equivalent
      <4>4. \A q \in Drains : ~Entering(q, f, o)
        <5> SUFFICES ASSUME NEW q \in Drains, Entering(q, f, o) PROVE FALSE
          OBVIOUS
        <5>1. Queued(q, f, o) /\ Settled(f, o, job[q].ids)
          BY <1>2, <1>5 DEF Once, Entering, Queued
        <5>2. Draft(q) = Draft(p)
          BY <4>2, <5>1 DEF Draft, Settled, Entering
        <5>3. <<job[q].frame, job[q].req.out>> \in disturbed'
          BY <1>5, <2>5, <5>2 DEF Enqueues, Enqueue, Entering
        <5> QED
          BY <5>3 DEF Entering
      <4>5. \A q \in Drains : Entering(q, f, o)' => q = p
        BY <1>5, <3>2, <4>4 DEF Entering
      <4>6. \A n : ~Entered(n, f, o)'
        BY <3>3, <4>3 DEF Entered
      <4>7. \A q \in Procs : Queued(q, f, o)' => Settled(f, o, job[q].ids)'
        <5>1. \A q \in Procs : Queued(q, f, o)' =>
                 \E ids : ids = job'[q].ids /\ Settled(f, o, ids)
          BY <1>2, <3>4 DEF Once
        <5>2. \A q \in Procs : Queued(q, f, o)' =>
                 \E ids : ids = job'[q].ids /\ Settled(f, o, ids)'
          BY <1>4, <5>1
        <5> QED
          BY <5>2 DEF Settled, Captured
      <4> QED
        BY <4>5, <4>6, <4>7 DEF Once
    <3> QED
      BY <3>5, <3>6
  <2>6. CASE Proposes(p)
    <3>1. PICK j \in JobRec : job' = [job EXCEPT ![p] = j] /\ j.pc = "done" /\ job[p].pc = "propose"
      BY <2>6 DEF Proposes, On, Goes
    <3>2. job'[p] = j /\ \A q \in Procs \ {p} : job'[q] = job[q]
      BY <1>3, <3>1
    <3>3. proposals' = Append(proposals, Draft(p))
      BY <2>6 DEF Proposes, Propose
    <3>4. PICK id : id = Len(proposals) + 1
      OBVIOUS
    <3>5. /\ DOMAIN proposals' = DOMAIN proposals \cup {id} /\ id \notin DOMAIN proposals
          /\ \A n \in DOMAIN proposals : proposals'[n] = proposals[n]
          /\ proposals'[id] = Draft(p)
      BY <3>3, <3>4 DEF Stored
    <3>6. \A n : n # id => (Entered(n, f, o)' <=> Entered(n, f, o))
      BY <3>5 DEF Entered
    <3>7. \A q \in Procs : Queued(q, f, o)' => Queued(q, f, o) /\ job'[q].ids = job[q].ids
      BY <3>1, <3>2 DEF Queued
    <3>8. \A q \in Drains : Entering(q, f, o)' => Entering(q, f, o) /\ q # p
      BY <1>5, <3>1, <3>2 DEF Entering
    <3>9. Entered(id, f, o)' => p \in Drains /\ Entering(p, f, o) /\ Queued(p, f, o)
      BY <3>1, <3>5 DEF Entered, Draft, Entering, Queued
    <3>10. \A q \in Procs : Queued(q, f, o)' => Settled(f, o, job[q].ids)'
      <4>1. \A q \in Procs : Queued(q, f, o)' =>
               \E ids : ids = job'[q].ids /\ Settled(f, o, ids)'
        BY <1>2, <1>4, <3>7 DEF Once
      <4> QED
        BY <4>1 DEF Settled, Captured
    <3>11. \A n : Entered(n, f, o)' => Settled(f, o, proposals[n].ids)'
      <4>1. \A n : n # id /\ Entered(n, f, o)' =>
               \E ids : ids = proposals'[n].ids /\ Settled(f, o, ids)'
        BY <1>2, <1>4, <3>5, <3>6 DEF Once, Entered
      <4>2. Entered(id, f, o)' => \E ids : ids = proposals'[id].ids /\ Settled(f, o, ids)'
        <5>1. proposals'[id].ids = job[p].ids
          BY <3>5 DEF Draft
        <5> QED
          BY <1>2, <1>4, <3>9, <5>1 DEF Once
      <4> QED
        BY <4>1, <4>2 DEF Settled, Captured
    <3>12. \A q \in Drains : Entering(q, f, o)' => \A n : ~Entered(n, f, o)'
      BY <1>2, <3>6, <3>8, <3>9 DEF Once
    <3>13. \A q, r \in Drains : Entering(q, f, o)' /\ Entering(r, f, o)' => q = r
      BY <1>2, <3>8 DEF Once
    <3>14. \A m, n : Entered(m, f, o)' /\ Entered(n, f, o)' => m = n
      BY <1>2, <3>6, <3>9 DEF Once
    <3> QED
      BY <3>10, <3>11, <3>12, <3>13, <3>14 DEF Once
  <2> QED
    BY <1>8, <2>1, <2>2, <2>3, <2>4, <2>5, <2>6, CaptureSteps
<1>9. CASE Turn \/ BuildFrame \/ UNCHANGED Store
  BY <1>6, <1>9 DEF Turn, BuildFrame, Store, tables, Queued, Entering
<1>10. ASSUME NEW g \in FrameIds, Retain(g) PROVE Once(f, o)'
  <2>1. \A q \in Procs : Queued(q, f, o)' => Queued(q, f, o) /\ job'[q].ids = job[q].ids
    BY <1>10, Retained, IdlePc DEF Queued
  <2>2. \A q \in Drains : Entering(q, f, o)' => Entering(q, f, o)
    BY <1>5, <1>10, Retained, IdlePc DEF Entering
  <2> QED
    BY <1>6, <1>10, <2>1, <2>2 DEF Retain
<1>11. ASSUME NEW p \in Procs, Begins(p) \/ Drops(p) PROVE Once(f, o)'
  <2>1. /\ job'[p].pc \in {"idle", "frame", "check"}
        /\ \A q \in Procs \ {p} : job'[q] = job[q]
    <3>1. CASE Begins(p)
      BY <1>3, <3>1, Begun
    <3>2. CASE Drops(p)
      BY <1>3, <3>2, IdlePc DEF Drops, Fail, Step
    <3> QED
      BY <1>11, <3>1, <3>2
  <2>2. ~Queued(p, f, o)'
    BY <2>1 DEF Queued
  <2> QED
    BY <1>7, <1>11, <2>1, <2>2 DEF Begins, Drops, tables
<1> QED
  BY <1>8, <1>9, <1>10, <1>11 DEF CaptureNext

LEMMA OnceStep == Stored /\ WorkInv /\ OnceInv /\ [CaptureNext]_Store => OnceInv'
<1> SUFFICES ASSUME Stored, WorkInv, OnceInv, [CaptureNext]_Store,
                    NEW k \in Keys, k \notin disturbed'
             PROVE  Once(k[1], k[2])'
  BY DEF OnceInv
<1>1. k[1] \in FrameIds /\ k[2] \in Outputs /\ k = <<k[1], k[2]>>
  BY DEF Keys
<1> QED
  BY <1>1, OnceAtStep
=============================================================================
