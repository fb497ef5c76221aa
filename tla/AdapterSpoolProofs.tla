------------------------- MODULE AdapterSpoolProofs -------------------------
(***************************************************************************)
(* Proofs about the spool, for any number of drains, callers and lines.    *)
(*                                                                         *)
(* The checkpoint is written long after the captures it stands for, by a   *)
(* drain that may overlap others, so the invariant follows a line on its   *)
(* way: what a drain has passed is delivered (Passing), the capture a      *)
(* drain waits for is that of its next line, and a capture that is done    *)
(* has its proposal (Waiting).  A capture of a killed drain is gone, so no *)
(* later drain can take it for its own (Attended).                         *)
(*                                                                         *)
(* What is stored of an answer, and under which frame, is a matter of      *)
(* captures only: SpoolStep brings in what CloudCaptureProofs shows.       *)
(*                                                                         *)
(* A turn carries no key, so that it is stored once is a matter of the     *)
(* drains: a line nobody may have captured twice (Firsts) has one drain    *)
(* that comes by it (Lone), and once it is in the store every drain is     *)
(* past it and will write a checkpoint past it (Behind).                   *)
(***************************************************************************)
EXTENDS AdapterSpool, CloudCaptureProofs, TLAPS

ClaimRec ==
    [frame: {0} \cup FrameIds, out: Outputs, part: Nat, meant: Contents,
         handed: BOOLEAN, pulled: BOOLEAN, corrected: BOOLEAN,
         verdict: {"none", "inconclusive", "contradicted"}]

ProposalRec ==
    [frame: {0} \cup FrameIds, out: Outputs, ids: SUBSET (Nat \ {0}),
     reason: {"adapter", "tool"}]

DrainRec ==
    {Off} \cup [pc: {"line", "capture", "write"}, start: Nat, at: Nat]

Shape ==
    /\ episodes \in Seq(Nat)
    /\ claims \in Seq(ClaimRec)
    /\ proposals \in Seq(ProposalRec)
    /\ job \in [Procs -> Jobs]
    /\ spool \in Seq(Lines)
    /\ checkpoint \in {Empty} \cup Nat
    /\ drain \in [Drains -> DrainRec]

ProposedIn(t, o) == \E n \in DOMAIN t : t[n].out = o /\ t[n].reason = "adapter"
Proposed(o) == ProposedIn(proposals, o)

Passing == \A d \in Drains : drain[d] # Off => \A i \in 1 .. drain[d].at : Delivered(i)

WaitsFor(d) ==
    /\ drain[d].at + 1 \in DOMAIN spool
    /\ spool[drain[d].at + 1].kind = "cloud_output"
    /\ job[d] # Idle => job[d].req = spool[drain[d].at + 1].req
    /\ job[d].pc = "done" => Proposed(job[d].req.out)

Waiting == \A d \in Drains : drain[d].pc = "capture" => WaitsFor(d)

Attended == \A d \in Drains : job[d] # Idle => drain[d].pc = "capture"

IInv == Shape /\ NothingLost /\ Passing /\ Waiting /\ Attended

LEMMA LineInit == Init => IInv
<1> SUFFICES ASSUME Init PROVE IInv
  OBVIOUS
<1>1. Idle \in Jobs /\ Off \in DrainRec
  BY DEF Jobs, DrainRec
<1>2. Shape
  BY <1>1 DEF Init, Shape
<1>3. NothingLost /\ Passing /\ Waiting /\ Attended
  BY DEF Init, NothingLost, Passing, Waiting, Attended, Idle, Off, Procs
<1> QED
  BY <1>2, <1>3 DEF IInv

LEMMA LineStep == IInv /\ [Next]_vars => IInv'
<1> SUFFICES ASSUME IInv, [Next]_vars PROVE IInv'
  OBVIOUS
<1> USE DEF IInv
<1> DEFINE Grows(s, t) == DOMAIN s \subseteq DOMAIN t /\ \A i \in DOMAIN s : t[i] = s[i]
<1>1. ASSUME NEW S, NEW s \in Seq(S), NEW x \in S
      PROVE  Append(s, x) \in Seq(S) /\ Grows(s, Append(s, x))
  OBVIOUS
\* What is delivered stays delivered while the tables only grow.
<1>2. ASSUME Grows(spool, spool'), Grows(episodes, episodes'), Grows(proposals, proposals')
      PROVE  /\ \A i : Delivered(i) => Delivered(i)'
             /\ \A o : Proposed(o) => Proposed(o)'
  BY <1>2 DEF Delivered, Proposed, ProposedIn
\* A step of one capture that leaves the spool and the drains alone.
<1>3. ASSUME NEW p \in Procs, NEW j \in Jobs, job' = [job EXCEPT ![p] = j],
             j # Idle => /\ p \in Drains => job[p] # Idle /\ j.req = job[p].req
                         /\ p \in Drains /\ j.pc = "done" => ProposedIn(proposals', j.req.out),
             UNCHANGED <<spool, checkpoint, drain>>,
             episodes' = episodes, claims' \in Seq(ClaimRec),
             proposals' \in Seq(ProposalRec), Grows(proposals, proposals')
      PROVE  IInv'
  <2>1. /\ \A i : Delivered(i) => Delivered(i)'
        /\ \A o : Proposed(o) => Proposed(o)'
    BY <1>2, <1>3
  <2>2. Shape'
    BY <1>3 DEF Shape
  <2>3. NothingLost' /\ Passing'
    BY <1>3, <2>1 DEF NothingLost, Passing
  <2>4. \A d \in Drains : d \in Procs /\ job'[d] = IF d = p THEN j ELSE job[d]
    BY <1>3 DEF Shape, Procs
  <2>5. Attended'
    BY <1>3, <2>4 DEF Attended
  <2>6. Idle.pc # "done"
    BY DEF Idle
  <2>7. Waiting'
    BY <1>3, <2>1, <2>4, <2>5, <2>6 DEF Waiting, WaitsFor, Attended, Proposed
  <2> QED
    BY <2>2, <2>3, <2>5, <2>7
\* A drain that ends, with its capture.
<1>4. ASSUME NEW d \in Drains, drain' = [drain EXCEPT ![d] = Off],
             job' = [job EXCEPT ![d] = Idle],
             checkpoint' = checkpoint \/ (drain[d] # Off /\ checkpoint' = drain[d].at),
             UNCHANGED <<tables, spool>>
      PROVE  IInv'
  <2>1. \A i : Delivered(i) => Delivered(i)'
    BY <1>4 DEF Delivered, tables
  <2>2. Idle \in Jobs /\ Off \in DrainRec
    BY DEF Jobs, DrainRec
  <2>3. d \in Procs
    BY DEF Procs
  <2>4. drain[d] # Off => drain[d].at \in Nat
    BY DEF Shape, DrainRec
  <2>5. Shape'
    BY <1>4, <2>2, <2>4 DEF Shape, tables
  <2>6. NothingLost'
    BY <1>4, <2>1 DEF NothingLost, Passing
  <2>7. \A e \in Drains : /\ drain'[e] = IF e = d THEN Off ELSE drain[e]
                          /\ job'[e] = IF e = d THEN Idle ELSE job[e]
    BY <1>4, <2>3 DEF Shape, Procs
  <2>8. Passing' /\ Attended'
    BY <2>1, <2>7 DEF Passing, Attended
  <2>9. Waiting'
    BY <1>4, <2>7 DEF Waiting, WaitsFor, Proposed, Off, tables
  <2> QED
    BY <2>5, <2>6, <2>8, <2>9
\* Types of what a capture is made of.
<1>5. ASSUME NEW p \in Procs, job[p] # Idle
      PROVE  job[p] \in JobRec
  BY <1>5 DEF Shape, Jobs, JobRec
<1>6. \A r \in Requests : r.out \in Outputs /\ r.meant \in Contents /\ r.handed \in BOOLEAN
                          /\ r.frame \in {0} \cup FrameIds
  BY DEF Requests
<1>7. ASSUME NEW kind, NEW r \in RequestsOf(kind) PROVE r \in Requests
  <2>1. CASE kind = "query"
    <3>1. 0 \in Contents
      BY BoundsAssumption DEF Contents
    <3>2. r \in [out: Outputs, frame: {0}, meant: {0}, handed: {FALSE}]
      BY <1>7, <2>1 DEF RequestsOf
    <3> QED
      BY <3>1, <3>2 DEF Requests
  <2>2. CASE kind # "query"
    BY <1>7, <2>2 DEF RequestsOf
  <2> QED
    BY <2>1, <2>2
<1>8. Idle \in Jobs /\ Idle.pc = "idle"
  BY DEF Jobs, Idle
<1>9. ASSUME NEW p \in Procs, Capture(p), UNCHANGED <<spool, checkpoint, drain>>
      PROVE  IInv'
  <2> DEFINE PCs == {"frame", "check", "claim", "event", "correct",
                     "enqueue", "propose", "done"}
  <2>1. job[p] # Idle /\ job[p].pc \in PCs
    BY <1>5, <1>8, <1>9 DEF Capture, ResolveFrame, Check, InsertClaim, InsertEvent,
                            Correct, Enqueue, Propose
  <2>2. /\ job[p].req \in Requests /\ job[p].frame \in {0} \cup FrameIds
        /\ job[p].ids \in SUBSET (Nat \ {0}) /\ job[p].part \in Nat
        /\ job[p].pulled \in BOOLEAN
    BY <1>5, <2>1 DEF JobRec
  <2>3. episodes' = episodes
    BY <1>9 DEF Capture, ResolveFrame, Check, InsertClaim, InsertEvent,
                Correct, Enqueue, Propose, tables
  <2>4. \A j \in JobRec : j \in Jobs /\ j # Idle
    BY DEF JobRec, Jobs, Idle
  <2>5. job[p] \in JobRec
    BY <1>5, <2>1
  \* Steps short of the last, that add no proposal.
  <2>6. ASSUME NEW j \in Jobs, job' = [job EXCEPT ![p] = j],
               j = Idle \/ (j.req = job[p].req /\ j.pc # "done"),
               claims' \in Seq(ClaimRec), proposals' = proposals
        PROVE  IInv'
    BY <1>3, <1>9, <2>1, <2>3, <2>6 DEF Shape
  <2>7. CASE ResolveFrame(p)
    <3>1. PICK f \in FrameIds : job' = [job EXCEPT ![p] =
                                         [job[p] EXCEPT !.pc = "check", !.frame = f]]
      BY <2>7 DEF ResolveFrame, Step
    <3> DEFINE j == [job[p] EXCEPT !.pc = "check", !.frame = f]
    <3>2. j \in JobRec /\ j.req = job[p].req /\ j.pc = "check"
      BY <2>5 DEF JobRec
    <3>3. j \in Jobs
      BY <2>4, <3>2
    <3> HIDE DEF j
    <3> QED
      BY <2>6, <2>7, <3>1, <3>2, <3>3 DEF ResolveFrame, Shape, j
  <2>8. CASE Check(p)
    <3> DEFINE f == job[p].frame
               ids == Replayed(f, job[p].req.out)
               j1 == [job[p] EXCEPT !.pc = "enqueue", !.ids = ids, !.pulled = FALSE]
               j2 == [job[p] EXCEPT !.pc = "claim", !.part = 1, !.pulled = FALSE]
    <3>1. ids \in SUBSET (Nat \ {0})
      BY DEF Replayed, Captured, Shape
    <3>2. \/ job' = [job EXCEPT ![p] = Idle]
          \/ job' = [job EXCEPT ![p] = j1]
          \/ job' = [job EXCEPT ![p] = j2]
      BY <2>8 DEF Check, Step, Fail
    <3>3. j1 \in JobRec /\ j1.req = job[p].req /\ j1.pc = "enqueue"
      BY <2>5, <3>1 DEF JobRec
    <3>4. j2 \in JobRec /\ j2.req = job[p].req /\ j2.pc = "claim"
      BY <2>5 DEF JobRec
    <3>5. j1 \in Jobs /\ j2 \in Jobs
      BY <2>4, <3>3, <3>4
    <3>6. UNCHANGED <<claims, proposals>>
      BY <2>8 DEF Check, tables
    <3> HIDE DEF j1, j2
    <3> QED
      BY <1>8, <2>6, <3>2, <3>3, <3>4, <3>5, <3>6 DEF Shape
  \* After a part.
  <2>9. ASSUME NEW ids \in SUBSET (Nat \ {0}), AfterPart(p, ids),
               claims' \in Seq(ClaimRec), proposals' = proposals
        PROVE  IInv'
    <3> DEFINE j1 == [job[p] EXCEPT !.pc = "enqueue", !.ids = ids]
               j2 == [job[p] EXCEPT !.pc = "claim", !.ids = ids, !.part = job[p].part + 1]
    <3>1. job' = [job EXCEPT ![p] = j1] \/ job' = [job EXCEPT ![p] = j2]
      BY <2>9 DEF AfterPart, Step
    <3>2. j1 \in JobRec /\ j1.req = job[p].req /\ j1.pc = "enqueue"
      BY <2>5 DEF JobRec
    <3>3. j2 \in JobRec /\ j2.req = job[p].req /\ j2.pc = "claim"
      <4>1. job[p].part + 1 \in Nat
        BY <2>2
      <4> QED
        BY <2>5, <4>1 DEF JobRec
    <3>4. j1 \in Jobs /\ j2 \in Jobs
      BY <2>4, <3>2, <3>3
    <3> HIDE DEF j1, j2
    <3> QED
      BY <2>6, <2>9, <3>1, <3>2, <3>3, <3>4
  <2>10. CASE InsertClaim(p)
    <3> DEFINE r == job[p].req
               id == Len(claims) + 1
               c == [frame |-> job[p].frame, out |-> r.out, part |-> job[p].part,
                     meant |-> r.meant, handed |-> r.handed,
                     pulled |-> job[p].pulled, verdict |-> "none",
                     corrected |-> FALSE]
               ids == job[p].ids \cup {id}
               j == [job[p] EXCEPT !.pc = "event", !.ids = ids]
    <3>1. \/ job' = [job EXCEPT ![p] = Idle] /\ claims' = claims
          \/ claims' = Append(claims, c) /\ AfterPart(p, ids)
          \/ claims' = Append(claims, c) /\ job' = [job EXCEPT ![p] = j]
      BY <2>10 DEF InsertClaim, Fail, Step
    <3>2. c \in ClaimRec
      BY <1>6, <2>2 DEF ClaimRec
    <3>3. Append(claims, c) \in Seq(ClaimRec)
      BY <3>2 DEF Shape
    <3>4. ids \in SUBSET (Nat \ {0})
      BY <2>2 DEF Shape
    <3>5. j \in JobRec /\ j.req = job[p].req /\ j.pc = "event"
      BY <2>5, <3>4 DEF JobRec
    <3>6. j \in Jobs
      BY <2>4, <3>5
    <3>7. proposals' = proposals /\ claims \in Seq(ClaimRec)
      BY <2>10 DEF InsertClaim, Shape
    <3> HIDE DEF j, ids, c
    <3> QED
      BY <1>8, <2>6, <2>9, <3>1, <3>3, <3>4, <3>5, <3>6, <3>7
  \* The verdict and the correction of a claim leave claims a sequence of them.
  <2>11. ASSUME NEW n, \/ \E o : claims' = [claims EXCEPT ![n].verdict = ResultOf(o)]
                       \/ claims' = [claims EXCEPT ![n].corrected = TRUE]
         PROVE  claims' \in Seq(ClaimRec)
    <3>1. claims \in [1 .. Len(claims) -> ClaimRec] /\ Len(claims) \in Nat
      BY DEF Shape
    <3>2. \A i \in 1 .. Len(claims) :
             /\ \A o : [claims[i] EXCEPT !.verdict = ResultOf(o)] \in ClaimRec
             /\ [claims[i] EXCEPT !.corrected = TRUE] \in ClaimRec
      BY <3>1 DEF ClaimRec, ResultOf
    <3>3. claims' \in [1 .. Len(claims) -> ClaimRec]
      <4>1. CASE \E o : claims' = [claims EXCEPT ![n].verdict = ResultOf(o)]
        <5>1. PICK o : claims' = [claims EXCEPT ![n].verdict = ResultOf(o)]
          BY <4>1
        <5>2. \A i \in 1 .. Len(claims) :
                 claims'[i] \in {claims[i], [claims[i] EXCEPT !.verdict = ResultOf(o)]}
          BY <3>1, <5>1
        <5> QED
          BY <3>1, <3>2, <5>1, <5>2
      <4>2. CASE claims' = [claims EXCEPT ![n].corrected = TRUE]
        <5>1. \A i \in 1 .. Len(claims) :
                 claims'[i] \in {claims[i], [claims[i] EXCEPT !.corrected = TRUE]}
          BY <3>1, <4>2
        <5> QED
          BY <3>1, <3>2, <4>2, <5>1
      <4> QED
        BY <2>11, <4>1, <4>2
    <3> QED
      BY <3>1, <3>3
  <2>12. CASE InsertEvent(p)
    <3> DEFINE j == [job[p] EXCEPT !.pc = "correct"]
    <3>1. claims' \in Seq(ClaimRec)
      BY <2>11, <2>12 DEF InsertEvent
    <3>2. AfterPart(p, job[p].ids) \/ job' = [job EXCEPT ![p] = j]
      BY <2>12 DEF InsertEvent, Goto, Step
    <3>3. j \in JobRec /\ j.req = job[p].req /\ j.pc = "correct"
      BY <2>5 DEF JobRec
    <3>4. j \in Jobs
      BY <2>4, <3>3
    <3>5. proposals' = proposals
      BY <2>12 DEF InsertEvent
    <3> HIDE DEF j
    <3> QED
      BY <2>2, <2>6, <2>9, <3>1, <3>2, <3>3, <3>4, <3>5
  <2>13. CASE Correct(p)
    <3>1. claims' \in Seq(ClaimRec)
      BY <2>11, <2>13 DEF Correct
    <3> QED
      BY <2>2, <2>9, <2>13, <3>1 DEF Correct
  <2>14. CASE Enqueue(p)
    <3> DEFINE j1 == [job[p] EXCEPT !.pc = "propose"]
               j2 == [job[p] EXCEPT !.pc = "done"]
    <3>1. /\ j1 \in JobRec /\ j1.req = job[p].req /\ j1.pc = "propose"
          /\ j2 \in JobRec /\ j2.req = job[p].req /\ j2.pc = "done"
      BY <2>5 DEF JobRec
    <3>2. j1 \in Jobs /\ j2 \in Jobs
      BY <2>4, <3>1
    <3>3. \/ job' = [job EXCEPT ![p] = j1]
          \/ /\ job' = [job EXCEPT ![p] = j2]
             /\ p \in Drains /\ Equivalent(Draft(p)) # {}
      BY <2>14 DEF Enqueue, Goto, Step
    <3> HIDE DEF j1, j2
    <3>4. UNCHANGED <<episodes, claims, proposals>>
      BY <2>14 DEF Enqueue, tables
    <3>5. CASE job' = [job EXCEPT ![p] = j1]
      BY <2>6, <3>1, <3>2, <3>4, <3>5 DEF Shape
    <3>6. CASE job' = [job EXCEPT ![p] = j2] /\ p \in Drains
               /\ Equivalent(Draft(p)) # {}
      <4>1. Proposed(job[p].req.out)
        BY <3>6 DEF Equivalent, Draft, Proposed, ProposedIn
      <4>2. ProposedIn(proposals', j2.req.out)
        BY <4>1, <3>1, <3>4, <3>6 DEF Proposed, ProposedIn
      <4> QED
        BY <1>3, <1>9, <2>1, <3>1, <3>2, <3>4, <3>6, <4>2 DEF Shape
    <3> QED
      BY <3>3, <3>5, <3>6
  <2>15. CASE Propose(p)
    <3> DEFINE j == [job[p] EXCEPT !.pc = "done"]
    <3>1. j \in JobRec /\ j.req = job[p].req /\ j.pc = "done"
      BY <2>5 DEF JobRec
    <3>2. j \in Jobs
      BY <2>4, <3>1
    <3>3. job' = [job EXCEPT ![p] = j] /\ proposals' = Append(proposals, Draft(p))
          /\ claims' = claims
      BY <2>15 DEF Propose, Goto, Step
    <3>4. Draft(p) \in ProposalRec /\ Draft(p).out = job[p].req.out
          /\ (p \in Drains => Draft(p).reason = "adapter")
      BY <1>6, <2>2 DEF Draft, ProposalRec
    <3>5. /\ proposals' \in Seq(ProposalRec) /\ Grows(proposals, proposals')
          /\ Len(proposals) + 1 \in DOMAIN proposals'
          /\ proposals'[Len(proposals) + 1] = Draft(p)
      BY <3>3, <3>4 DEF Shape
    <3>6. p \in Drains => ProposedIn(proposals', j.req.out)
      BY <3>1, <3>4, <3>5 DEF ProposedIn
    <3> HIDE DEF j
    <3> QED
      BY <1>3, <1>9, <2>1, <2>3, <3>1, <3>2, <3>3, <3>5, <3>6 DEF Shape
  <2> QED
    BY <1>9, <2>7, <2>8, <2>10, <2>12, <2>13, <2>14, <2>15 DEF Capture
<1>10. CASE Append1
  <2>1. PICK line \in Lines : spool' = Append(spool, line)
    BY <1>7, <1>10 DEF Append1, Lines
  <2>2. spool' \in Seq(Lines) /\ Grows(spool, spool')
    BY <1>1, <2>1 DEF Shape
  <2>3. UNCHANGED <<episodes, claims, proposals, job, checkpoint, drain>>
    BY <1>10 DEF Append1, tables
  <2>4. \A i : Delivered(i) => Delivered(i)'
    BY <1>2, <2>2, <2>3
  <2>5. Shape'
    BY <2>2, <2>3 DEF Shape
  <2>6. NothingLost' /\ Passing' /\ Attended'
    BY <2>3, <2>4 DEF NothingLost, Passing, Attended
  <2>7. Waiting'
    BY <2>2, <2>3 DEF Waiting, WaitsFor, Proposed
  <2> QED
    BY <2>5, <2>6, <2>7
<1>11. CASE Frames /\ UNCHANGED <<file, drain, budget, again>>
  <2>1. CASE BuildFrame
    BY <1>11, <2>1 DEF BuildFrame, file, Shape, NothingLost, Passing, Waiting,
                       WaitsFor, Attended, Delivered, Proposed, ProposedIn
  <2>2. ASSUME NEW f \in FrameIds, Retain(f) PROVE IInv'
    <3>1. UNCHANGED <<episodes, claims, proposals, spool, checkpoint, drain>>
      BY <1>11, <2>2 DEF Retain, file
    <3>2. \A p \in Procs :
             \/ job'[p] = job[p]
             \/ job[p] # Idle /\ job'[p] = [job[p] EXCEPT !.pulled = TRUE]
      BY <2>2 DEF Retain
    <3>3. \A p \in Procs : /\ job'[p] \in Jobs
                           /\ job'[p] = Idle <=> job[p] = Idle
                           /\ job[p] # Idle => job'[p].pc = job[p].pc /\ job'[p].req = job[p].req
      <4> SUFFICES ASSUME NEW p \in Procs
                   PROVE  /\ job'[p] \in Jobs
                          /\ job'[p] = Idle <=> job[p] = Idle
                          /\ job[p] # Idle => job'[p].pc = job[p].pc /\ job'[p].req = job[p].req
        OBVIOUS
      <4>1. CASE job'[p] = job[p]
        BY <4>1 DEF Shape
      <4>2. CASE job[p] # Idle /\ job'[p] = [job[p] EXCEPT !.pulled = TRUE]
        BY <1>5, <4>2 DEF Jobs, JobRec, Idle
      <4> QED
        BY <3>2, <4>1, <4>2
    <3>4. job' \in [Procs -> Jobs]
      BY <2>2, <3>3 DEF Retain
    <3>5. Drains \subseteq Procs
      BY DEF Procs
    <3>6. Shape'
      BY <3>1, <3>4 DEF Shape
    <3>7. NothingLost' /\ Passing' /\ Attended'
      BY <3>1, <3>3, <3>5 DEF NothingLost, Passing, Attended, Delivered
    <3>8. Waiting'
      BY <1>8, <3>1, <3>3, <3>5 DEF Waiting, WaitsFor, Proposed
    <3> QED
      BY <3>6, <3>7, <3>8
  <2> QED
    BY <1>11, <2>1, <2>2 DEF Frames
\* A drain moves from line to line; the capture it may hold is as Waiting says.
<1>12. ASSUME NEW d \in Drains, NEW x \in DrainRec, NEW j \in Jobs,
              drain' = [drain EXCEPT ![d] = x], job' = [job EXCEPT ![d] = j],
              \A i \in 1 .. x.at : Delivered(i)',
              x # Off, x.pc = "capture" => WaitsFor(d)', j # Idle => x.pc = "capture",
              spool' = spool, checkpoint' \in {checkpoint, Empty},
              episodes' \in Seq(Nat), Grows(episodes, episodes'),
              UNCHANGED <<claims, proposals>>
       PROVE  IInv'
  <2>1. \A i : Delivered(i) => Delivered(i)'
    BY <1>2, <1>12
  <2>2. d \in Procs /\ Drains \subseteq Procs
    BY DEF Procs
  <2>3. Shape'
    BY <1>12, <2>2 DEF Shape
  <2>4. NothingLost'
    BY <1>12, <2>1 DEF NothingLost, Empty
  <2>5. \A e \in Drains : /\ drain'[e] = IF e = d THEN x ELSE drain[e]
                          /\ job'[e] = IF e = d THEN j ELSE job[e]
    BY <1>12, <2>2 DEF Shape
  <2>6. Passing' /\ Attended'
    BY <1>12, <2>1, <2>5 DEF Passing, Attended
  <2>7. \A e \in Drains \ {d} : WaitsFor(e) => WaitsFor(e)'
    BY <1>12, <2>5 DEF WaitsFor, Proposed
  <2>8. Waiting'
    BY <1>12, <2>5, <2>7 DEF Waiting
  <2> QED
    BY <2>3, <2>4, <2>6, <2>8
<1>13. ASSUME NEW d \in Drains, drain[d] # Off
       PROVE  /\ drain[d].pc \in {"line", "capture", "write"}
              /\ drain[d].start \in Nat /\ drain[d].at \in Nat
              /\ drain[d] \in [pc: {"line", "capture", "write"}, start: Nat, at: Nat]
  BY <1>13 DEF Shape, DrainRec
<1>14. Off.pc = "off"
  BY DEF Off
<1>15. \A pc \in {"line", "capture", "write"}, s \in Nat, n \in Nat :
          /\ [pc |-> pc, start |-> s, at |-> n] \in DrainRec
          /\ [pc |-> pc, start |-> s, at |-> n] # Off
  BY DEF DrainRec, Off
<1>16. ASSUME NEW d \in Drains, drain[d] # Off
        PROVE  /\ Passed(d) \in DrainRec /\ Passed(d) # Off
               /\ Passed(d).pc = "line" /\ Passed(d).at = drain[d].at + 1
               /\ \A pc \in {"line", "capture", "write"} :
                    LET x == [drain[d] EXCEPT !.pc = pc]
                    IN  x \in DrainRec /\ x # Off /\ x.pc = pc /\ x.at = drain[d].at
  <2>1. drain[d] \in [pc: {"line", "capture", "write"}, start: Nat, at: Nat]
    BY <1>13, <1>16
  <2>2. \A r \in [pc: {"line", "capture", "write"}, start: Nat, at: Nat] :
           r \in DrainRec /\ r # Off
    BY DEF DrainRec, Off
  <2>3. drain[d].at + 1 \in Nat
    BY <2>1
  <2>4. /\ Passed(d) \in [pc: {"line", "capture", "write"}, start: Nat, at: Nat]
        /\ Passed(d).pc = "line" /\ Passed(d).at = drain[d].at + 1
    BY <2>1, <2>3 DEF Passed
  <2>5. \A pc \in {"line", "capture", "write"} :
           LET x == [drain[d] EXCEPT !.pc = pc]
           IN  /\ x \in [pc: {"line", "capture", "write"}, start: Nat, at: Nat]
               /\ x.pc = pc /\ x.at = drain[d].at
    BY <2>1
  <2> QED
    BY <2>2, <2>4, <2>5
<1>17. ASSUME NEW d \in Drains, drain[d].pc # "capture"
       PROVE  job[d] = Idle /\ job = [job EXCEPT ![d] = Idle]
  BY <1>17 DEF Attended, Shape
<1>18. ASSUME NEW d \in Drains, Start(d) PROVE IInv'
  <2>1. checkpoint \in Nat
    BY <1>18 DEF Start, Shape
  <2> DEFINE x == [pc |-> "line", start |-> checkpoint, at |-> checkpoint]
  <2>2. /\ drain' = [drain EXCEPT ![d] = x] /\ drain[d] = Off
        /\ UNCHANGED <<episodes, claims, proposals, job, spool, checkpoint>>
    BY <1>18 DEF Start, At, tables, file
  <2>3. x \in DrainRec /\ x # Off /\ x.at = checkpoint /\ x.pc = "line"
    BY <1>15, <2>1
  <2>4. job' = [job EXCEPT ![d] = Idle]
    BY <1>14, <1>17, <2>2
  <2>5. \A i \in 1 .. x.at : Delivered(i)'
    BY <2>2, <2>3 DEF NothingLost, Delivered
  <2> HIDE DEF x
  <2> QED
    BY <1>8, <1>12, <2>2, <2>3, <2>4, <2>5 DEF Shape
<1>19. ASSUME NEW d \in Drains, CaptureTurn(d) PROVE IInv'
  <2>1. drain[d].pc = "line" /\ drain[d] # Off
    BY <1>14, <1>19 DEF CaptureTurn
  <2> DEFINE x == Passed(d)
  <2>2. PICK n \in Nat : n = drain[d].at + 1 /\ drain[d].at \in Nat
    BY <1>13, <2>1
  <2>4. /\ drain' = [drain EXCEPT ![d] = x]
        /\ n <= Len(spool) /\ spool[n].kind = "turn"
        /\ episodes' = Append(episodes, n)
        /\ UNCHANGED <<claims, proposals, job, spool, checkpoint>>
    BY <1>19, <2>2 DEF CaptureTurn, At, file, Shape
  <2>5. x \in DrainRec /\ x # Off /\ x.at = n /\ x.pc = "line"
    BY <1>16, <2>1, <2>2
  <2>6. job' = [job EXCEPT ![d] = Idle]
    BY <1>17, <2>1, <2>4
  <2>7. /\ episodes' \in Seq(Nat) /\ Grows(episodes, episodes')
        /\ \E k \in DOMAIN episodes' : episodes'[k] = n
    <3>1. episodes' \in Seq(Nat) /\ Grows(episodes, episodes')
      BY <1>1, <2>2, <2>4 DEF Shape
    <3>2. /\ Len(episodes) + 1 \in DOMAIN episodes'
          /\ episodes'[Len(episodes) + 1] = n
      BY <2>2, <2>4 DEF Shape
    <3> QED
      BY <3>1, <3>2
  <2>8. Delivered(n)'
    BY <2>2, <2>4, <2>7 DEF Delivered, Shape
  <2>9. \A i \in 1 .. drain[d].at : Delivered(i)'
    BY <1>2, <2>1, <2>4, <2>7 DEF Passing
  <2>10. \A i \in 1 .. x.at : Delivered(i)'
    BY <2>2, <2>5, <2>8, <2>9
  <2> HIDE DEF x
  <2> QED
    BY <1>8, <1>12, <2>4, <2>5, <2>6, <2>7, <2>10
<1>20. ASSUME NEW d \in Drains, CaptureOutput(d) PROVE IInv'
  <2>1. drain[d].pc = "line" /\ drain[d] # Off
    BY <1>14, <1>20 DEF CaptureOutput
  <2> DEFINE n == drain[d].at + 1
             x == [drain[d] EXCEPT !.pc = "capture"]
             r == spool[n].req
             j == [pc |-> IF r.frame = 0 THEN "frame" ELSE "check", req |-> r,
                   frame |-> r.frame, ids |-> {}, part |-> 0, pulled |-> FALSE]
  <2>2. drain[d].at \in Nat /\ n \in Nat /\ drain[d].start \in Nat
    BY <1>13, <2>1
  <2>4. /\ drain' = [drain EXCEPT ![d] = x] /\ job' = [job EXCEPT ![d] = j]
        /\ n \in DOMAIN spool /\ spool[n].kind = "cloud_output"
        /\ UNCHANGED <<episodes, claims, proposals, spool, checkpoint>>
    BY <1>20, <2>2 DEF CaptureOutput, Begin, Step, At, file, tables, Shape
  <2>5. x \in DrainRec /\ x # Off /\ x.at = drain[d].at /\ x.pc = "capture"
    BY <1>16, <2>1
  <2>6. r \in Requests
    <3>1. spool[n] \in Lines
      BY <2>4 DEF Shape
    <3> QED
      BY <2>4, <3>1 DEF Lines
  <2>7. j \in Jobs /\ j.req = r /\ j.pc # "done" /\ j # Idle
    BY <1>6, <2>6 DEF Jobs, Idle
  <2>8. \A i \in 1 .. x.at : Delivered(i)'
    BY <2>1, <2>4, <2>5 DEF Passing, Delivered
  <2>9. drain'[d] = x /\ job'[d] = j
    BY <2>4 DEF Shape, Procs
  <2>10. WaitsFor(d)'
    BY <2>4, <2>5, <2>7, <2>9 DEF WaitsFor
  <2> HIDE DEF x, j
  <2> QED
    BY <1>12, <2>4, <2>5, <2>7, <2>8, <2>10 DEF Shape
<1>21. ASSUME NEW d \in Drains, Malformed(d) PROVE IInv'
  <2>1. job' = [job EXCEPT ![d] = Idle]
    BY <1>17, <1>21 DEF Malformed
  <2> QED
    BY <1>4, <1>21, <2>1 DEF Malformed, Stop, At, file
<1>22. ASSUME NEW d \in Drains, Captures(d) PROVE IInv'
  <2>1. drain[d].pc = "capture" /\ drain[d] # Off /\ job[d] # Idle
    BY <1>8, <1>14, <1>22 DEF Captures
  <2> DEFINE x == Passed(d)
  <2>2. PICK n \in Nat : n = drain[d].at + 1 /\ drain[d].at \in Nat
    BY <1>13, <2>1
  <2>4. /\ drain' = [drain EXCEPT ![d] = x] /\ job' = [job EXCEPT ![d] = Idle]
        /\ UNCHANGED <<episodes, claims, proposals, spool, checkpoint>>
    BY <1>22 DEF Captures, Fail, Step, At, file, tables
  <2>5. x \in DrainRec /\ x # Off /\ x.at = n /\ x.pc = "line"
    BY <1>16, <2>1, <2>2
  <2>6. Delivered(n)'
    BY <1>22, <2>1, <2>2, <2>4 DEF Captures, Waiting, WaitsFor, Proposed, ProposedIn, Delivered
  <2>7. \A i \in 1 .. drain[d].at : Delivered(i)'
    BY <2>1, <2>4 DEF Passing, Delivered
  <2>8. \A i \in 1 .. x.at : Delivered(i)'
    BY <2>2, <2>5, <2>6, <2>7
  <2> HIDE DEF x
  <2> QED
    BY <1>8, <1>12, <2>4, <2>5, <2>8 DEF Shape
<1>23. ASSUME NEW d \in Drains, CaptureFailed(d) PROVE IInv'
  <2>1. job' = [job EXCEPT ![d] = Idle]
    BY <1>23 DEF CaptureFailed, Shape
  <2> QED
    BY <1>4, <1>23, <2>1 DEF CaptureFailed, Stop, At, file
<1>24. ASSUME NEW d \in Drains, Truncate(d) PROVE IInv'
  <2>1. drain[d].pc = "line" /\ drain[d] # Off
    BY <1>14, <1>24 DEF Truncate
  <2> DEFINE x == [drain[d] EXCEPT !.pc = "write"]
  <2>2. drain[d].at \in Nat /\ drain[d].start \in Nat
    BY <1>13, <2>1
  <2>4. /\ drain' = [drain EXCEPT ![d] = x] /\ checkpoint' = Empty
        /\ UNCHANGED <<episodes, claims, proposals, job, spool>>
    BY <1>24 DEF Truncate, At, tables
  <2>5. x \in DrainRec /\ x # Off /\ x.at = drain[d].at /\ x.pc = "write"
    BY <1>16, <2>1
  <2>6. job' = [job EXCEPT ![d] = Idle]
    BY <1>17, <2>1, <2>4
  <2>7. \A i \in 1 .. x.at : Delivered(i)'
    BY <2>1, <2>4, <2>5 DEF Passing, Delivered
  <2> HIDE DEF x
  <2> QED
    BY <1>8, <1>12, <2>4, <2>5, <2>6, <2>7 DEF Shape
<1>25. ASSUME NEW d \in Drains, Write(d) PROVE IInv'
  <2>1. drain[d].pc = "write" /\ drain[d] # Off
    BY <1>14, <1>25 DEF Write
  <2>2. job' = [job EXCEPT ![d] = Idle]
    BY <1>17, <1>25, <2>1 DEF Write
  <2> QED
    BY <1>4, <1>25, <2>1, <2>2 DEF Write, Offset, At
<1>26. ASSUME NEW d \in Drains, Kill(d) PROVE IInv'
  BY <1>4, <1>26 DEF Kill, Stop, Fail, Step, At, file
<1>27. ASSUME NEW c \in Callers, Call(c) \/ Answer(c) \/ KillCall(c) PROVE IInv'
  <2>1. c \in Procs /\ c \notin Drains
    BY OutputsAssumption DEF Procs
  <2>2. UNCHANGED <<episodes, claims, proposals, spool, checkpoint, drain>>
    BY <1>27 DEF Call, Answer, KillCall, tables, file
  <2>3. \E j \in Jobs : job' = [job EXCEPT ![c] = j]
    <3>1. CASE Call(c)
      <4>1. PICK r \in RequestsOf("handoff") : Begin(c, r)
        BY <3>1 DEF Call
      <4>2. r \in Requests
        BY <1>7
      <4>3. [pc |-> IF r.frame = 0 THEN "frame" ELSE "check", req |-> r,
             frame |-> r.frame, ids |-> {}, part |-> 0, pulled |-> FALSE] \in Jobs
        BY <1>6, <4>2 DEF Jobs
      <4> QED
        BY <4>1, <4>3 DEF Begin, Step
    <3>2. CASE Answer(c) \/ KillCall(c)
      BY <1>8, <3>2 DEF Answer, KillCall, Fail, Step
    <3> QED
      BY <1>27, <3>1, <3>2
  <2> QED
    BY <1>3, <2>1, <2>2, <2>3 DEF Shape
<1>28. CASE UNCHANGED vars
  BY <1>28 DEF vars, tables, file, Shape, NothingLost, Passing, Waiting, WaitsFor,
               Attended, Delivered, Proposed, ProposedIn
<1> QED
  BY <1>9, <1>10, <1>11, <1>18, <1>19, <1>20, <1>21, <1>22, <1>23, <1>24, <1>25,
     <1>26, <1>27, <1>28 DEF Next, Drain, file

\* NothingLost for every instance: whatever is killed, fails or drains at the
\* same time, the checkpoint never passes a line that is not in the store.
THEOREM NothingIsLost == Spec => []NothingLost
<1>1. IInv => NothingLost
  BY DEF IInv
<1> QED
  BY <1>1, LineInit, LineStep, PTL DEF Spec

-----------------------------------------------------------------------------
(* What CloudCaptureProofs shows of captures holds of those of the spool: a *)
(* step of the program is one of CaptureNext or leaves the tables alone.    *)

LEMMA Idling == \A p \in Procs : Cut(p) # {} => job[p].pc \in Working
BY DEF Cut, AtWork, Working

LEMMA SpoolInit == Init => CaptureInit
BY DEF Init, CaptureInit

LEMMA Requested ==
    ASSUME NEW kind, NEW r \in RequestsOf(kind) PROVE r \in Requests
<1>1. CASE kind = "query"
  <2>1. 0 \in Contents
    BY BoundsAssumption DEF Contents
  <2>2. r \in [out: Outputs, frame: {0}, meant: {0}, handed: {FALSE}]
    BY <1>1 DEF RequestsOf
  <2> QED
    BY <2>1, <2>2 DEF Requests
<1>2. CASE kind # "query"
  BY <1>2 DEF RequestsOf
<1> QED
  BY <1>1, <1>2

LEMMA SpoolStep == IInv /\ [Next]_vars => [CaptureNext]_Store
<1> SUFFICES ASSUME IInv, [Next]_vars PROVE [CaptureNext]_Store
  OBVIOUS
<1>1. Drains \subseteq Procs /\ Callers \subseteq Procs
  BY DEF Procs
<1>2. CASE Append1
  BY <1>2 DEF Append1, Store
<1>3. CASE Frames
  BY <1>3 DEF Frames, CaptureNext
<1>4. ASSUME NEW d \in Drains, Start(d) \/ Malformed(d) \/ CaptureFailed(d) \/ Truncate(d) \/ Write(d)
      PROVE  UNCHANGED Store
  BY <1>4 DEF Start, Malformed, CaptureFailed, Truncate, Write, Store, tables
<1>5. ASSUME NEW d \in Drains, CaptureTurn(d) PROVE Turn
  <2>1. drain[d].at + 1 \in Nat
    <3>1. Off.pc = "off" /\ drain[d].pc = "line"
      BY <1>5 DEF Off, CaptureTurn
    <3> QED
      BY <3>1 DEF IInv, Shape, DrainRec
  <2>2. /\ Len(episodes) < MaxEpisodes /\ episodes' = Append(episodes, drain[d].at + 1)
        /\ UNCHANGED <<frames, claims, proposals, job, disturbed>>
    BY <1>5 DEF CaptureTurn
  <2> QED
    BY <2>1, <2>2 DEF Turn
<1>6. ASSUME NEW d \in Drains, CaptureOutput(d) PROVE Begins(d)
  <2>1. drain[d].at \in Nat /\ drain[d].pc = "line"
    <3>1. Off.pc = "off" /\ drain[d].pc = "line"
      BY <1>6 DEF Off, CaptureOutput
    <3> QED
      BY <3>1 DEF IInv, Shape, DrainRec
  <2>2. job[d] = Idle
    BY <2>1 DEF IInv, Attended
  <2>3. spool[drain[d].at + 1] \in Lines /\ spool[drain[d].at + 1].kind = "cloud_output"
    BY <1>6, <2>1 DEF CaptureOutput, IInv, Shape
  <2>4. spool[drain[d].at + 1].req \in Requests
    BY <2>3 DEF Lines
  <2> QED
    BY <1>6, <2>2, <2>4 DEF CaptureOutput, Begins
<1>7. ASSUME NEW p \in Procs, job[p].pc = "done", Fail(p), UNCHANGED <<tables, disturbed>>
      PROVE  Drops(p)
  <2>1. Cut(p) = {}
    BY <1>7, Idling DEF Working
  <2> QED
    BY <1>7, <2>1 DEF Drops
<1>8. ASSUME NEW d \in Drains, Captures(d) PROVE Drops(d)
  BY <1>1, <1>7, <1>8 DEF Captures
<1>9. ASSUME NEW d \in Drains, Kill(d) PROVE Drops(d)
  BY <1>9 DEF Kill, Drops
<1>10. ASSUME NEW c \in Callers, Call(c) PROVE Begins(c)
  BY <1>10, Requested DEF Call, Begins
<1>11. ASSUME NEW c \in Callers, Answer(c) \/ KillCall(c) PROVE Drops(c)
  BY <1>1, <1>7, <1>11 DEF Answer, KillCall, Drops
<1>12. CASE UNCHANGED vars
  BY <1>12 DEF vars, Store
<1> QED
  BY <1>1, <1>2, <1>3, <1>4, <1>5, <1>6, <1>8, <1>9, <1>10, <1>11, <1>12
     DEF Next, Drain, CaptureNext

\* Everything that is known of captures, with the way of a line.
CaptureInv == IInv /\ Stored /\ FrameInv /\ WorkInv /\ OnceInv

LEMMA CaptureInvHolds == Spec => []CaptureInv
<1>1. Init => CaptureInv
  BY LineInit, SpoolInit, StoredInit, FrameInit, WorkInit, OnceInit DEF CaptureInv
<1>2. CaptureInv /\ [Next]_vars => CaptureInv'
  BY LineStep, SpoolStep, StoredStep, FrameStep, WorkStep, OnceStep DEF CaptureInv
<1> QED
  BY <1>1, <1>2, PTL DEF Spec

\* FiledWhereMeant for every instance: an answer that comes with its handoff id
\* is under the frame its client was given, whatever frames retention prunes
\* and however often their ids are used again.
THEOREM HandoffsHold == Spec => []FiledWhereMeant
<1>1. CaptureInv => FiledWhereMeant
  BY DEF CaptureInv, FrameInv, Right, FiledWhereMeant
<1> QED
  BY <1>1, CaptureInvHolds, PTL

\* CaptureIsOnce for every instance: under a key that no kill and no race
\* disturbed, an answer captured again and again has each claim once, with
\* its verdict.
THEOREM ReplaysHold == Spec => []CaptureIsOnce
<1>1. ASSUME CaptureInv, NEW k \in Keys \ disturbed,
             Captured(k[1], k[2]) # {}, \A p \in Procs : ~AtWork(p, k[1], k[2]),
             NEW n \in 1 .. PartsOf[k[2]]
      PROVE  \E i \in Captured(k[1], k[2]) :
                /\ {j \in Captured(k[1], k[2]) : claims[j].part = n} = {i}
                /\ DecisionOf[k[2]] # "accept" => claims[i].verdict = ResultOf(k[2])
                /\ claims[i].corrected = (DecisionOf[k[2]] = "reject")
  <2>1. Complete(k[1], k[2])
    BY <1>1 DEF CaptureInv, WorkInv, Whole
  <2>2. PICK i \in Captured(k[1], k[2]) : {j \in Captured(k[1], k[2]) : claims[j].part = n} = {i}
    BY <1>1, <2>1 DEF Complete, Each
  <2>3. Done(i) /\ claims[i].out = k[2]
    BY <2>1 DEF Complete, Captured
  <2> QED
    BY <2>2, <2>3 DEF Done
<1>2. CaptureInv => CaptureIsOnce
  BY <1>1 DEF CaptureIsOnce
<1> QED
  BY <1>2, CaptureInvHolds, PTL

\* ProposedOnce for every instance: the spool brings an answer before the
\* reviewer once, under every key that no kill and no race disturbed.
THEOREM ProposalsHold == Spec => []ProposedOnce
<1>1. ASSUME CaptureInv, NEW m \in DOMAIN proposals, NEW n \in DOMAIN proposals,
             proposals[m].reason = "adapter", proposals[n].reason = "adapter",
             proposals[m].frame = proposals[n].frame, proposals[m].out = proposals[n].out,
             <<proposals[m].frame, proposals[m].out>> \notin disturbed
      PROVE  m = n
  <2>1. PICK f \in FrameIds, o \in Outputs : f = proposals[m].frame /\ o = proposals[m].out
    <3>1. proposals[m] \in Entry
      BY <1>1 DEF CaptureInv, Stored
    <3> QED
      BY <3>1 DEF Entry
  <2>2. Once(f, o)
    BY <1>1, <2>1 DEF CaptureInv, OnceInv, Keys
  <2>3. Entered(m, f, o) /\ Entered(n, f, o)
    BY <1>1, <2>1 DEF Entered
  <2> QED
    BY <2>2, <2>3 DEF Once
<1>2. CaptureInv => ProposedOnce
  BY <1>1 DEF ProposedOnce
<1> QED
  BY <1>2, CaptureInvHolds, PTL

-----------------------------------------------------------------------------
(* A turn and the drains.                                                   *)

Going(d) == drain[d] # Off

\* The spool, the checkpoint and the drains in their bounds; a drain is at the
\* line it started from or after it.
Ranged ==
    /\ episodes \in Seq(1 .. MaxLines)
    /\ Len(spool) <= MaxLines
    /\ checkpoint <= Len(spool)
    /\ \A d \in Drains : Going(d) => drain[d].start <= drain[d].at /\ drain[d].at <= Len(spool)
    /\ starts \in 0 .. MaxStarts /\ kills \in 0 .. MaxKills
    /\ again \subseteq 1 .. MaxLines

Firsts == (1 .. MaxLines) \ again

\* Two drains that both may capture a line, overlap.
Lone(i) ==
    \A d, e \in Drains : d # e /\ Going(d) /\ Going(e) => drain[d].start >= i \/ drain[e].start >= i

Seen(i) == \E n \in DOMAIN episodes : episodes[n] = i

\* A line that is in the store is behind every drain, and a checkpoint that is
\* not past it is older than a drain that is.
Behind(i) ==
    /\ \A d \in Drains : Going(d) => drain[d].at >= i
    /\ \/ checkpoint = Empty \/ checkpoint >= i
       \/ \E d \in Drains : Going(d) /\ drain[d].start < i

TurnInv == Ranged /\ TurnsOnce /\ \A i \in Firsts : Lone(i) /\ (Seen(i) => Behind(i))

LEMMA TurnInit == Init => TurnInv
<1> SUFFICES ASSUME Init PROVE TurnInv
  OBVIOUS
<1>1. Ranged
  BY SpoolAssumption DEF Init, Ranged, Going
<1>2. TurnsOnce
  BY DEF Init, TurnsOnce
<1>3. \A i \in Firsts : Lone(i) /\ (Seen(i) => Behind(i))
  BY DEF Init, Lone, Seen, Going
<1> QED
  BY <1>1, <1>2, <1>3 DEF TurnInv

\* A drain as it is between two steps.
LEMMA GoingDrains ==
    ASSUME IInv, NEW d \in Drains, Going(d) \/ drain[d].pc \in {"line", "capture", "write"}
    PROVE  /\ Going(d) /\ drain[d] \in [pc: {"line", "capture", "write"}, start: Nat, at: Nat]
           /\ drain[d].start \in Nat /\ drain[d].at \in Nat
<1>1. Off.pc = "off"
  BY DEF Off
<1>2. drain[d] # Off
  BY <1>1 DEF Going
<1>3. drain[d] \in [pc: {"line", "capture", "write"}, start: Nat, at: Nat]
  BY <1>2 DEF IInv, Shape, DrainRec
<1> QED
  BY <1>2, <1>3 DEF Going

\* A drain that starts at the checkpoint: what it may capture again is in again.
LEMMA TurnStart ==
    ASSUME IInv, TurnInv, NEW d \in Drains, Start(d) PROVE TurnInv'
<1>1. checkpoint \in Nat /\ checkpoint # Empty
  BY DEF Start, IInv, Shape
<1> DEFINE x == [pc |-> "line", start |-> checkpoint, at |-> checkpoint]
<1>2. drain[d] = Off /\ x # Off /\ x.start = checkpoint /\ x.at = checkpoint
  BY DEF Start, Off
<1>3. drain' = [drain EXCEPT ![d] = x] /\ UNCHANGED <<episodes, spool, checkpoint, kills>>
      /\ starts < MaxStarts /\ starts' = starts + 1
  BY DEF Start, At, tables, file
<1>4. again' = again \cup
         (IF \E e \in Drains : Going(e) THEN Between(checkpoint, MaxLines) ELSE {})
  BY DEF Start, Going
<1> HIDE DEF x
<1>5. \A e \in Drains : drain'[e] = IF e = d THEN x ELSE drain[e]
  BY <1>3 DEF IInv, Shape
<1>6. /\ ~Going(d) /\ Going(d)'
      /\ \A e \in Drains : e # d => (Going(e)' <=> Going(e)) /\ drain'[e] = drain[e]
  BY <1>2, <1>5 DEF Going
<1>7. Ranged'
  <2>1. again' \subseteq 1 .. MaxLines
    BY <1>4 DEF TurnInv, Ranged, Between
  <2>2. \A e \in Drains : Going(e)' => drain'[e].start <= drain'[e].at /\ drain'[e].at <= Len(spool)
    BY <1>1, <1>2, <1>5, <1>6 DEF TurnInv, Ranged
  <2>3. starts' \in 0 .. MaxStarts
    BY <1>3, SpoolAssumption DEF TurnInv, Ranged
  <2> QED
    BY <1>3, <2>1, <2>2, <2>3 DEF TurnInv, Ranged
<1>8. TurnsOnce'
  BY <1>3, <1>4 DEF TurnInv, TurnsOnce
<1>9. ASSUME NEW i \in Firsts' PROVE Lone(i)' /\ (Seen(i)' => Behind(i)')
  <2>1. i \in Firsts /\ i \in Nat
    BY <1>4 DEF Firsts
  <2>2. (\E e \in Drains : Going(e)) => i <= checkpoint
    BY <1>1, <1>4, SpoolAssumption DEF Firsts, Between
  <2>3. Lone(i)'
    <3> SUFFICES ASSUME NEW a \in Drains, NEW b \in Drains, a # b, Going(a)', Going(b)'
                 PROVE  drain'[a].start >= i \/ drain'[b].start >= i
      BY DEF Lone
    <3>1. CASE a # d /\ b # d
      BY <1>6, <2>1, <3>1 DEF TurnInv, Lone
    <3>2. CASE a = d \/ b = d
      BY <1>1, <1>2, <1>5, <1>6, <2>1, <2>2, <3>2
    <3> QED
      BY <3>1, <3>2
  <2>4. ASSUME Seen(i)' PROVE Behind(i)'
    <3>1. Behind(i)
      BY <1>3, <2>1, <2>4 DEF TurnInv, Seen
    <3>2. i <= checkpoint
      BY <1>1, <2>2, <2>1, <3>1 DEF Behind
    <3> QED
      BY <1>1, <1>2, <1>3, <1>5, <1>6, <2>1, <3>1, <3>2 DEF Behind
  <2> QED
    BY <2>3, <2>4
<1> QED
  BY <1>7, <1>8, <1>9 DEF TurnInv

\* A drain that passes on to x, with its start, and stores no turn.
LEMMA TurnPasses ==
    ASSUME IInv, TurnInv, NEW d \in Drains, Going(d), NEW x \in DrainRec, x # Off,
           drain' = [drain EXCEPT ![d] = x], x.start = drain[d].start,
           x.at = drain[d].at \/ x.at = drain[d].at + 1, x.at <= Len(spool),
           checkpoint' = checkpoint \/ checkpoint' = Empty,
           UNCHANGED <<episodes, spool, budget, again>>
    PROVE  TurnInv'
<1>1. drain[d].start \in Nat /\ drain[d].at \in Nat
  BY GoingDrains
<1>2. \A e \in Drains : drain'[e] = IF e = d THEN x ELSE drain[e]
  BY DEF IInv, Shape
<1>3. \A e \in Drains : (Going(e)' <=> Going(e)) /\ drain'[e].start = drain[e].start
                        /\ (e # d => drain'[e] = drain[e])
  BY <1>2 DEF Going
<1>4. Ranged'
  <2>1. Len(spool) \in Nat
    BY DEF IInv, Shape
  <2>2. checkpoint' <= Len(spool)
    BY <2>1 DEF TurnInv, Ranged, Empty
  <2>3. \A e \in Drains : Going(e)' => drain'[e].start <= drain'[e].at /\ drain'[e].at <= Len(spool)
    BY <1>1, <1>2, <1>3 DEF TurnInv, Ranged
  <2> QED
    BY <2>2, <2>3 DEF TurnInv, Ranged, budget
<1>5. TurnsOnce'
  BY DEF TurnInv, TurnsOnce
<1>6. ASSUME NEW i \in Firsts' PROVE Lone(i)' /\ (Seen(i)' => Behind(i)')
  <2>1. i \in Firsts /\ i \in Nat
    BY DEF Firsts
  <2>2. Lone(i)'
    BY <1>3, <2>1 DEF TurnInv, Lone
  <2>3. ASSUME Seen(i)' PROVE Behind(i)'
    <3>1. Behind(i)
      BY <2>1, <2>3 DEF TurnInv, Seen
    <3>2. \A e \in Drains : Going(e)' => drain'[e].at >= i
      BY <1>1, <1>2, <1>3, <2>1, <3>1 DEF Behind
    <3> QED
      BY <1>3, <3>1, <3>2 DEF Behind
  <2> QED
    BY <2>2, <2>3
<1> QED
  BY <1>4, <1>5, <1>6 DEF TurnInv

\* A drain that ends without its checkpoint: what it may have captured is in again.
LEMMA TurnStops ==
    ASSUME IInv, TurnInv, NEW d \in Drains, Going(d), Stop(d),
           starts' = starts, kills' \in 0 .. MaxKills,
           UNCHANGED <<episodes, spool, checkpoint>>
    PROVE  TurnInv'
<1>1. drain[d].start \in Nat /\ drain[d].at \in Nat
  BY GoingDrains
<1>2. \A e \in Drains : drain'[e] = IF e = d THEN Off ELSE drain[e]
  BY DEF IInv, Shape, Stop, At
<1>3. \A e \in Drains : Going(e)' <=> (Going(e) /\ e # d)
  BY <1>2 DEF Going
<1>4. again' = again \cup Between(drain[d].start, drain[d].at + 1)
  BY DEF Stop
<1>5. Ranged'
  BY <1>2, <1>3, <1>4 DEF TurnInv, Ranged, Between
<1>6. TurnsOnce'
  BY <1>4 DEF TurnInv, TurnsOnce
<1>7. ASSUME NEW i \in Firsts' PROVE Lone(i)' /\ (Seen(i)' => Behind(i)')
  <2>1. i \in Firsts /\ i \in Nat
    BY <1>4 DEF Firsts
  <2>2. Lone(i)'
    BY <1>2, <1>3, <2>1 DEF TurnInv, Lone
  <2>3. ASSUME Seen(i)' PROVE Behind(i)'
    <3>1. Behind(i)
      BY <2>1, <2>3 DEF TurnInv, Seen
    <3>2. drain[d].start >= i
      BY <1>1, <1>4, <2>1, <3>1 DEF Behind, Firsts, Between
    <3>3. (\E e \in Drains : Going(e) /\ drain[e].start < i)
             => \E e \in Drains : Going(e)' /\ drain'[e].start < i
      BY <1>1, <1>2, <1>3, <2>1, <3>2
    <3>4. \A e \in Drains : Going(e)' => drain'[e].at >= i
      BY <1>2, <1>3, <3>1 DEF Behind
    <3> QED
      BY <3>1, <3>3, <3>4 DEF Behind
  <2> QED
    BY <2>2, <2>3
<1> QED
  BY <1>5, <1>6, <1>7 DEF TurnInv

\* A turn is stored: nobody else who has yet to come to its line is on the way.
LEMMA TurnStored ==
    ASSUME IInv, TurnInv, NEW d \in Drains, CaptureTurn(d) PROVE TurnInv'
<1>1. Going(d) /\ drain[d].start \in Nat /\ drain[d].at \in Nat
      /\ drain[d] \in [pc: {"line", "capture", "write"}, start: Nat, at: Nat]
  BY GoingDrains DEF CaptureTurn
<1>2. PICK n \in Nat : n = drain[d].at + 1
  BY <1>1
<1> DEFINE x == Passed(d)
<1>3. /\ x \in [pc: {"line", "capture", "write"}, start: Nat, at: Nat]
      /\ x.start = drain[d].start /\ x.at = n
  BY <1>1, <1>2 DEF Passed
<1>4. x # Off
  BY <1>3 DEF Off
<1>5. /\ drain' = [drain EXCEPT ![d] = x] /\ episodes' = Append(episodes, n)
      /\ drain[d].at < Len(spool)
      /\ UNCHANGED <<spool, checkpoint, starts, kills, again>>
  BY <1>2 DEF CaptureTurn, At, file, budget
<1> HIDE DEF x
<1>6. \A e \in Drains : drain'[e] = IF e = d THEN x ELSE drain[e]
  BY <1>5 DEF IInv, Shape
<1>7. \A e \in Drains : (Going(e)' <=> Going(e)) /\ drain'[e].start = drain[e].start
                        /\ (e # d => drain'[e] = drain[e])
  BY <1>1, <1>3, <1>4, <1>6 DEF Going
<1>8. Len(spool) \in Nat /\ Len(spool) <= MaxLines /\ MaxLines \in Nat
  BY SpoolAssumption DEF IInv, Shape, TurnInv, Ranged
<1>9. n \in 1 .. MaxLines /\ n <= Len(spool)
  BY <1>1, <1>2, <1>5, <1>8
<1>10. /\ episodes' \in Seq(1 .. MaxLines) /\ Len(episodes') = Len(episodes) + 1
       /\ Len(episodes) \in Nat /\ episodes'[Len(episodes) + 1] = n
       /\ \A k \in DOMAIN episodes : episodes'[k] = episodes[k]
       /\ DOMAIN episodes' = DOMAIN episodes \cup {Len(episodes) + 1}
  BY <1>5, <1>9 DEF TurnInv, Ranged
<1>11. \A i : Seen(i)' <=> Seen(i) \/ i = n
  BY <1>10 DEF Seen
<1>12. Ranged'
  <2>1. \A e \in Drains : Going(e)' => drain'[e].start <= drain'[e].at /\ drain'[e].at <= Len(spool)
    BY <1>1, <1>2, <1>3, <1>6, <1>7, <1>9 DEF TurnInv, Ranged
  <2> QED
    BY <1>5, <1>10, <2>1 DEF TurnInv, Ranged
<1>13. Seen(n) => n \in again
  <2> SUFFICES ASSUME Seen(n), n \notin again PROVE FALSE
    OBVIOUS
  <2>1. Behind(n)
    BY <1>9 DEF TurnInv, Firsts
  <2> QED
    BY <1>1, <1>2, <2>1 DEF Behind
<1>14. TurnsOnce'
  BY <1>5, <1>10, <1>13 DEF TurnInv, TurnsOnce, Seen
<1>15. ASSUME NEW i \in Firsts' PROVE Lone(i)' /\ (Seen(i)' => Behind(i)')
  <2>1. i \in Firsts /\ i \in Nat
    BY <1>5 DEF Firsts
  <2>2. Lone(i) /\ Lone(i)'
    BY <1>7, <2>1 DEF TurnInv, Lone
  <2>3. ASSUME Seen(i) PROVE Behind(i)'
    <3>1. Behind(i)
      BY <2>1, <2>3 DEF TurnInv
    <3>2. \A e \in Drains : Going(e)' => drain'[e].at >= i
      BY <1>1, <1>2, <1>3, <1>6, <1>7, <2>1, <3>1 DEF Behind
    <3> QED
      BY <1>5, <1>7, <3>1, <3>2 DEF Behind
  <2>4. ASSUME i = n PROVE Behind(i)'
    <3>1. drain[d].start <= drain[d].at
      BY <1>1 DEF TurnInv, Ranged
    <3>2. drain[d].start < i
      BY <1>1, <1>2, <2>4, <3>1
    <3>3. ASSUME NEW e \in Drains, Going(e)' PROVE drain'[e].at >= i
      <4>1. CASE e = d
        BY <1>2, <1>3, <1>6, <2>4, <4>1
      <4>2. CASE e # d
        <5>1. Going(e) /\ drain[e].start \in Nat /\ drain[e].at \in Nat
          BY <1>7, <3>3, GoingDrains
        <5>2. drain[e].start >= i
          BY <1>1, <2>1, <2>2, <3>2, <4>2, <5>1 DEF Lone
        <5>3. drain[e].start <= drain[e].at
          BY <5>1 DEF TurnInv, Ranged
        <5> QED
          BY <1>7, <2>1, <4>2, <5>1, <5>2, <5>3
      <4> QED
        BY <4>1, <4>2
    <3> QED
      BY <1>1, <1>7, <3>2, <3>3 DEF Behind
  <2> QED
    BY <1>11, <2>2, <2>3, <2>4
<1> QED
  BY <1>12, <1>14, <1>15 DEF TurnInv

\* A drain that writes its checkpoint is past what is in the store.
LEMMA TurnWritten ==
    ASSUME IInv, TurnInv, NEW d \in Drains, Write(d) PROVE TurnInv'
<1>1. Going(d) /\ drain[d].start \in Nat /\ drain[d].at \in Nat
  BY GoingDrains DEF Write
<1>2. /\ checkpoint' = drain[d].at /\ UNCHANGED <<episodes, spool, starts, kills, again>>
      /\ drain' = [drain EXCEPT ![d] = Off]
  BY DEF Write, Offset, At, tables, budget
<1>3. \A e \in Drains : drain'[e] = IF e = d THEN Off ELSE drain[e]
  BY <1>2 DEF IInv, Shape
<1>4. \A e \in Drains : Going(e)' <=> (Going(e) /\ e # d)
  BY <1>3 DEF Going
<1>5. Ranged'
  BY <1>1, <1>2, <1>3, <1>4 DEF TurnInv, Ranged
<1>6. TurnsOnce'
  BY <1>2 DEF TurnInv, TurnsOnce
<1>7. ASSUME NEW i \in Firsts' PROVE Lone(i)' /\ (Seen(i)' => Behind(i)')
  <2>1. i \in Firsts
    BY <1>2 DEF Firsts
  <2>2. Lone(i)'
    BY <1>3, <1>4, <2>1 DEF TurnInv, Lone
  <2>3. Seen(i)' => Behind(i)'
    BY <1>1, <1>2, <1>3, <1>4, <2>1 DEF TurnInv, Seen, Behind
  <2> QED
    BY <2>2, <2>3
<1> QED
  BY <1>5, <1>6, <1>7 DEF TurnInv

LEMMA TurnStep == IInv /\ TurnInv /\ [Next]_vars => TurnInv'
<1> SUFFICES ASSUME IInv, TurnInv, [Next]_vars PROVE TurnInv'
  OBVIOUS
\* Nothing of it moves.
<1>1. ASSUME UNCHANGED <<episodes, spool, checkpoint, drain, kills, again>>,
             starts' \in 0 .. MaxStarts
      PROVE  TurnInv'
  BY <1>1 DEF TurnInv, Ranged, TurnsOnce, Firsts, Lone, Seen, Behind, Going
<1>2. starts \in 0 .. MaxStarts /\ kills \in 0 .. MaxKills
  BY DEF TurnInv, Ranged
<1>3. CASE Append1
  <2>1. PICK line : spool' = Append(spool, line)
    BY <1>3 DEF Append1
  <2>2. Len(spool') = Len(spool) + 1 /\ Len(spool) \in Nat /\ Len(spool) < MaxLines
    BY <1>3, <2>1 DEF Append1, IInv, Shape
  <2>3. UNCHANGED <<episodes, checkpoint, drain, starts, kills, again>>
    BY <1>3 DEF Append1, tables, budget
  <2>4. checkpoint \in {Empty} \cup Nat
    BY DEF IInv, Shape
  <2>5. \A e \in Drains : Going(e) => drain[e].at \in Nat
    BY GoingDrains
  <2>6. Ranged'
    <3>1. checkpoint <= Len(spool')
      BY <2>2, <2>4 DEF TurnInv, Ranged, Empty
    <3>2. \A e \in Drains : Going(e) => drain[e].at <= Len(spool')
      BY <2>2, <2>5 DEF TurnInv, Ranged
    <3>3. Len(spool') <= MaxLines
      BY <2>2, SpoolAssumption
    <3> QED
      BY <2>3, <3>1, <3>2, <3>3 DEF TurnInv, Ranged, Going
  <2> QED
    BY <2>3, <2>6 DEF TurnInv, TurnsOnce, Firsts, Lone, Seen, Behind, Going
<1>4. CASE Frames /\ UNCHANGED <<file, drain, budget, again>>
  BY <1>1, <1>2, <1>4 DEF Frames, BuildFrame, Retain, file, budget
<1>5. ASSUME NEW d \in Drains, Malformed(d) PROVE TurnInv'
  <2>1. Going(d)
    BY <1>5, GoingDrains DEF Malformed
  <2> QED
    BY <1>2, <1>5, <2>1, TurnStops DEF Malformed, tables, file, budget
<1>6. ASSUME NEW d \in Drains, CaptureFailed(d) PROVE TurnInv'
  <2>1. Going(d)
    BY <1>6, GoingDrains DEF CaptureFailed
  <2> QED
    BY <1>2, <1>6, <2>1, TurnStops DEF CaptureFailed, tables, file, budget
<1>7. ASSUME NEW d \in Drains, Kill(d) PROVE TurnInv'
  <2>1. kills' \in 0 .. MaxKills
    BY <1>2, <1>7, SpoolAssumption DEF Kill
  <2> QED
    BY <1>7, <2>1, TurnStops DEF Kill, Going, tables, file
<1>8. ASSUME NEW d \in Drains, Going(d) PROVE
        \A pc \in {"line", "capture", "write"} :
           LET x == [drain[d] EXCEPT !.pc = pc]
           IN  x \in DrainRec /\ x # Off /\ x.start = drain[d].start /\ x.at = drain[d].at
  <2>1. drain[d] \in [pc: {"line", "capture", "write"}, start: Nat, at: Nat]
    BY <1>8, GoingDrains
  <2> QED
    BY <2>1 DEF DrainRec, Off
<1>9. ASSUME NEW d \in Drains, CaptureOutput(d) PROVE TurnInv'
  <2>1. Going(d)
    BY <1>9, GoingDrains DEF CaptureOutput
  <2> DEFINE x == [drain[d] EXCEPT !.pc = "capture"]
  <2>2. x \in DrainRec /\ x # Off /\ x.start = drain[d].start /\ x.at = drain[d].at
    BY <1>8, <2>1
  <2>3. /\ drain' = [drain EXCEPT ![d] = x]
        /\ UNCHANGED <<episodes, spool, checkpoint, budget, again>>
    BY <1>9 DEF CaptureOutput, At, tables, file
  <2> HIDE DEF x
  <2>4. x.at <= Len(spool)
    BY <2>1, <2>2 DEF TurnInv, Ranged
  <2> QED
    BY <2>1, <2>2, <2>3, <2>4, TurnPasses
<1>10. ASSUME NEW d \in Drains, Truncate(d) PROVE TurnInv'
  <2>1. Going(d)
    BY <1>10, GoingDrains DEF Truncate
  <2> DEFINE x == [drain[d] EXCEPT !.pc = "write"]
  <2>2. x \in DrainRec /\ x # Off /\ x.start = drain[d].start /\ x.at = drain[d].at
    BY <1>8, <2>1
  <2>3. /\ drain' = [drain EXCEPT ![d] = x] /\ checkpoint' = Empty
        /\ UNCHANGED <<episodes, spool, budget, again>>
    BY <1>10 DEF Truncate, At, tables
  <2> HIDE DEF x
  <2>4. x.at <= Len(spool)
    BY <2>1, <2>2 DEF TurnInv, Ranged
  <2> QED
    BY <2>1, <2>2, <2>3, <2>4, TurnPasses
<1>11. ASSUME NEW d \in Drains, Captures(d) PROVE TurnInv'
  <2>1. Going(d) /\ drain[d].at \in Nat
        /\ drain[d] \in [pc: {"line", "capture", "write"}, start: Nat, at: Nat]
    BY <1>11, GoingDrains DEF Captures
  <2> DEFINE x == Passed(d)
  <2>2. /\ x \in [pc: {"line", "capture", "write"}, start: Nat, at: Nat]
        /\ x.start = drain[d].start /\ x.at = drain[d].at + 1
    <3>1. drain[d].at + 1 \in Nat
      BY <2>1
    <3> QED
      BY <2>1, <3>1 DEF Passed
  <2>3. x \in DrainRec /\ x # Off
    BY <2>2 DEF DrainRec, Off
  <2>4. /\ drain' = [drain EXCEPT ![d] = x]
        /\ UNCHANGED <<episodes, spool, checkpoint, budget, again>>
    BY <1>11 DEF Captures, At, tables, file
  <2> HIDE DEF x
  <2>5. x.at <= Len(spool)
    <3>1. drain[d].at + 1 \in DOMAIN spool
      BY <1>11 DEF Captures, IInv, Waiting, WaitsFor
    <3> QED
      BY <2>2, <3>1 DEF IInv, Shape
  <2> QED
    BY <2>1, <2>2, <2>3, <2>4, <2>5, TurnPasses
<1>12. ASSUME NEW p \in Procs, Capture(p), UNCHANGED <<file, drain, budget, again>> PROVE TurnInv'
  <2>1. episodes' = episodes
    BY <1>12 DEF Capture, ResolveFrame, Check, InsertClaim, InsertEvent, Correct, Enqueue,
                 Propose, tables
  <2> QED
    BY <1>1, <1>2, <1>12, <2>1 DEF file, budget
<1>13. ASSUME NEW c \in Callers, Call(c) \/ Answer(c) PROVE TurnInv'
  <2>1. starts' \in 0 .. MaxStarts
    BY <1>2, <1>13, SpoolAssumption DEF Call, Answer, budget
  <2> QED
    BY <1>1, <1>13, <2>1 DEF Call, Answer, tables, file, budget
<1>14. ASSUME NEW c \in Callers, KillCall(c) PROVE TurnInv'
  <2>1. kills' \in 0 .. MaxKills
    BY <1>2, <1>14, SpoolAssumption DEF KillCall
  <2> QED
    BY <1>14, <2>1 DEF KillCall, tables, file, TurnInv, Ranged, TurnsOnce, Firsts, Lone,
                       Seen, Behind, Going
<1>15. CASE UNCHANGED vars
  BY <1>1, <1>2, <1>15 DEF vars, tables, file, budget
<1> QED
  BY <1>3, <1>4, <1>5, <1>6, <1>7, <1>9, <1>10, <1>11, <1>12, <1>13, <1>14, <1>15,
     TurnStart, TurnStored, TurnWritten DEF Next, Drain

SpoolInv == CaptureInv /\ TurnInv

LEMMA SpoolInvHolds == Spec => []SpoolInv
<1>1. Init => TurnInv
  BY TurnInit
<1>2. CaptureInv /\ TurnInv /\ [Next]_vars => TurnInv'
  BY TurnStep DEF CaptureInv
<1> QED
  BY <1>1, <1>2, CaptureInvHolds, PTL DEF Spec, SpoolInv

\* TurnsOnce for every instance: a turn is stored twice only where a drain
\* ended without its checkpoint or two drains overlapped.
THEOREM TurnsHold == Spec => []TurnsOnce
<1>1. SpoolInv => TurnsOnce
  BY DEF SpoolInv, TurnInv
<1> QED
  BY <1>1, SpoolInvHolds, PTL

\* TypeOK for every instance: no checkpoint past the spool, no drain past its
\* end, no proposal of a claim that is not there.
THEOREM TypeCorrect == Spec => []TypeOK
<1>1. SpoolInv => TypeOK
  <2> SUFFICES ASSUME SpoolInv PROVE TypeOK
    OBVIOUS
  <2> USE DEF SpoolInv, CaptureInv
  <2>1. claims \in Seq(Claim) /\ Len(claims) \in Nat /\ DOMAIN claims = 1 .. Len(claims)
    BY DEF Stored, Item, Claim
  <2> DEFINE T == [frame: FrameIds, out: Outputs, ids: SUBSET (1 .. Len(claims)),
                   reason: {"adapter", "tool"}]
  <2>2. ASSUME NEW n \in DOMAIN proposals PROVE proposals[n] \in T
    <3>1. proposals[n] \in Entry /\ proposals[n].ids \subseteq 1 .. Len(claims)
      BY <2>1, <2>2 DEF Stored
    <3> QED
      BY <3>1 DEF Entry
  <2>3. proposals \in Seq(T)
    <3> HIDE DEF T
    <3>1. proposals \in Seq(Entry)
      BY DEF Stored
    <3> QED
      BY <2>2, <3>1
  <2>4. checkpoint \in {Empty} \cup 0 .. Len(spool)
    BY DEF IInv, Shape, TurnInv, Ranged
  <2>5. ASSUME NEW d \in Drains
        PROVE  drain[d] \in {Off} \cup [pc: {"line", "capture", "write"},
                                        start: 0 .. MaxLines, at: 0 .. Len(spool)]
    <3>1. CASE drain[d] = Off
      BY <3>1
    <3>2. CASE Going(d)
      <4>1. /\ drain[d] \in [pc: {"line", "capture", "write"}, start: Nat, at: Nat]
            /\ drain[d].start \in Nat /\ drain[d].at \in Nat
        BY <3>2, GoingDrains
      <4>2. drain[d].start <= drain[d].at /\ drain[d].at <= Len(spool) /\ Len(spool) <= MaxLines
        BY <3>2 DEF TurnInv, Ranged
      <4>3. drain[d].at \in 0 .. Len(spool) /\ drain[d].start \in 0 .. MaxLines
        BY <4>1, <4>2, SpoolAssumption DEF IInv, Shape
      <4> QED
        BY <4>1, <4>3
    <3> QED
      BY <3>1, <3>2 DEF Going
  <2>6. drain \in [Drains -> {Off} \cup [pc: {"line", "capture", "write"},
                                         start: 0 .. MaxLines, at: 0 .. Len(spool)]]
    BY <2>5 DEF IInv, Shape
  <2>7. /\ episodes \in Seq(1 .. MaxLines) /\ Len(spool) <= MaxLines
        /\ starts \in 0 .. MaxStarts /\ kills \in 0 .. MaxKills
        /\ again \in SUBSET (1 .. MaxLines)
    BY DEF TurnInv, Ranged
  <2>8. spool \in Seq(Lines)
    BY DEF IInv, Shape
  <2>9. /\ Len(episodes) <= MaxEpisodes /\ frames \in [FrameIds -> Contents \cup {Absent}]
        /\ job \in [Procs -> Jobs] /\ disturbed \in SUBSET Keys
    BY DEF Stored
  <2> QED
    BY <2>1, <2>3, <2>4, <2>6, <2>7, <2>8, <2>9 DEF TypeOK
<1> QED
  BY <1>1, SpoolInvHolds, PTL
=============================================================================
