------------------------- MODULE ClaimLedgerProofs -------------------------
(***************************************************************************)
(* Proofs about ClaimLedger, for any number of claims, proposals and       *)
(* processes.                                                              *)
(***************************************************************************)
EXTENDS ClaimLedger, TLAPS

\* Rows that were read are rows that are in the store: a stored proposal names
\* stored claims only.
QueueOK ==
    \A q \in Proposals :
        status[q] # "absent" =>
            /\ ValidProposal(draft[q])
            /\ \A c \in draft[q].claims : Exists(c)

AtClaim == {"correct", "long_term", "write_long_term", "semantic", "write_semantic"}
AtPromotion == AtClaim \ {"correct"}
AtProposal == AtPromotion \cup {"apply", "support", "trust", "promote", "decay", "mark"}

\* What a process that is at o knows of the rows it works on: they exist, ...
Grounded(o) ==
    /\ \A c \in o.todo : Exists(c)
    /\ \A row \in o.batch : status[row[1]] # "absent"
    /\ o.pc \in AtClaim => o.claim \in Claims /\ Exists(o.claim)
    /\ o.pc \in AtProposal \/ (o.pc \in {"verify", "correct"} /\ o.thenApply) =>
          o.prop \in Proposals /\ status[o.prop] # "absent"

\* ... it is at a statement of the proposal's own branch, ...
OnBranch(o) ==
    /\ o.pc \in {"verify", "correct"} => o.verdict # "none"
    /\ o.pc = "mark" => o.outcome # "none"
    /\ o.pc = "decay" => draft[o.prop].action = "decay"

\* ... and it writes a durable state only where it saw trust.
SawTrust(o) ==
    o.pc \in {"write_long_term", "write_semantic"} => Trusted(o.claim)

OpOK(o) == Grounded(o) /\ OnBranch(o) /\ SawTrust(o)

Base == TypeOK /\ QueueOK /\ \A p \in Procs : OpOK(op[p])

\* What a process that is at o has done of its proposal: the claims it is through
\* with are accounted for, and it marks a promotion applied only after the last one.
Done(o) ==
    /\ o.pc = "decay" => o.todo \subseteq draft[o.prop].claims
    /\ o.pc = "promote" =>
         \A c \in draft[o.prop].claims \ o.todo : Accounted(c)
    /\ o.pc \in AtPromotion =>
         \A c \in draft[o.prop].claims \ (o.todo \cup {o.claim}) : Accounted(c)
    /\ o.pc = "mark" /\ o.outcome = "applied"
         /\ draft[o.prop].action = "propose_promotion" =>
         \A c \in draft[o.prop].claims : Accounted(c)

AllDone == \A p \in Procs : Done(op[p])

\* Only an operator that asked for destruction is at the decay loop.
Asked ==
    \A p \in Procs :
        /\ op[p].pc = "decay" => op[p].destructive
        /\ op[p].destructive => p \in Operators

-----------------------------------------------------------------------------
(* Type correctness. *)

LEMMA IdleIsOp == Idle \in Op
BY DEF Idle, Op, PCs, NoProposal, NoClaim

LEMMA FirstOpenRows == FirstOpen \in SUBSET (Proposals \X OpenStatus)
BY DEF FirstOpen, OpenRows, Open

\* Where MarkAs, Goto, Return and AfterProposal leave a process.
LEMMA ControlTypes ==
    ASSUME NEW p \in Procs, op \in [Procs -> Op]
    PROVE  /\ \A pc \in PCs : Goto(p, pc) => op' \in [Procs -> Op]
           /\ \A pc \in PCs : Return(p, pc) => op' \in [Procs -> Op]
           /\ \A s \in OpenStatus \cup ClosedStatus : MarkAs(p, s) => op' \in [Procs -> Op]
           /\ AfterProposal(p) => op' \in [Procs -> Op]
<1>1. op[p] \in Op
    OBVIOUS
<1>2. ASSUME NEW pc \in PCs
      PROVE  [op[p] EXCEPT !.pc = pc] \in Op
    BY <1>1 DEF Op
<1>3. ASSUME NEW pc \in PCs
      PROVE  [op[p] EXCEPT !.pc = pc, !.claim = NoClaim] \in Op
    BY <1>1 DEF Op
<1>4. ASSUME NEW s \in OpenStatus \cup ClosedStatus
      PROVE  [op[p] EXCEPT !.pc = "mark", !.outcome = s] \in Op
    BY <1>1 DEF Op, PCs
<1>5. [op[p] EXCEPT !.pc = "drain", !.prop = NoProposal, !.outcome = "none"] \in Op
    BY <1>1 DEF Op, PCs
<1>6. QED
    BY <1>2, <1>3, <1>4, <1>5, IdleIsOp
    DEF Goto, Return, MarkAs, AfterProposal, Step

\* Every step leaves the processes at points of their programs.
LEMMA OpTyped ==
    ASSUME Base, [Next]_vars
    PROVE  op' \in [Procs -> Op]
<1> USE DEF Base, TypeOK
<1>1. ASSUME NEW p \in Procs, BeginDrain(p)
      PROVE  op' \in [Procs -> Op]
    <2>1. PICK decay \in BOOLEAN, noops \in BOOLEAN :
            Step(p, [Idle EXCEPT !.pc = "drain", !.batch = FirstOpen, !.draining = TRUE,
                                 !.destructive = decay, !.noops = noops])
        BY <1>1 DEF BeginDrain
    <2>2. [Idle EXCEPT !.pc = "drain", !.batch = FirstOpen, !.draining = TRUE,
                       !.destructive = decay, !.noops = noops] \in Op
        BY FirstOpenRows, IdleIsOp DEF Op, PCs
    <2>3. QED  BY <2>1, <2>2 DEF Step
<1>2. ASSUME NEW p \in Procs, Continue(p)
      PROVE  op' \in [Procs -> Op]
    <2>0. op[p] \in Op
        OBVIOUS
    <2>1. CASE RecordVerdict(p)
        <3>1. PICK c \in op[p].todo :
                \/ Step(p, [op[p] EXCEPT !.pc = "correct", !.claim = c, !.todo = @ \ {c}])
                \/ Step(p, [op[p] EXCEPT !.todo = @ \ {c}])
            BY <2>1 DEF RecordVerdict
        <3>2. /\ [op[p] EXCEPT !.pc = "correct", !.claim = c, !.todo = @ \ {c}] \in Op
              /\ [op[p] EXCEPT !.todo = @ \ {c}] \in Op
            BY <2>0, <3>1 DEF Op, PCs
        <3>3. QED  BY <3>1, <3>2 DEF Step
    <2>2. CASE MarkCorrected(p)
        BY <2>2, ControlTypes DEF MarkCorrected, PCs
    <2>3. CASE VerifyDone(p)
        <3>1. [Idle EXCEPT !.pc = "apply", !.prop = op[p].prop,
                           !.destructive = op[p].destructive] \in Op
            BY <2>0, IdleIsOp DEF Op, PCs
        <3>2. QED  BY <2>3, <3>1, IdleIsOp DEF VerifyDone, Step
    <2>4. CASE DrainNext(p)
        <3>1. CASE Step(p, Idle)
            BY <3>1, IdleIsOp DEF Step
        <3>2. CASE \E row \in op[p].batch, diverse \in BOOLEAN :
                     Step(p, IF Ready(row[1], op[p], diverse)
                             THEN [op[p] EXCEPT !.batch = @ \ {row}, !.prop = row[1],
                                                !.pc = "apply"]
                             ELSE [op[p] EXCEPT !.batch = @ \ {row}])
            <4>1. PICK row \in op[p].batch :
                    \/ Step(p, [op[p] EXCEPT !.batch = @ \ {row}, !.prop = row[1],
                                             !.pc = "apply"])
                    \/ Step(p, [op[p] EXCEPT !.batch = @ \ {row}])
                BY <3>2
            <4>2. row[1] \in Proposals
                BY <2>0, <4>1 DEF Op
            <4>3. /\ [op[p] EXCEPT !.batch = @ \ {row}, !.prop = row[1], !.pc = "apply"] \in Op
                  /\ [op[p] EXCEPT !.batch = @ \ {row}] \in Op
                BY <2>0, <4>2 DEF Op, PCs
            <4>4. QED  BY <4>1, <4>3 DEF Step
        <3>3. QED  BY <2>4, <3>1, <3>2 DEF DrainNext
    <2>5. CASE Dispatch(p)
        <3>1. CASE Step(p, [op[p] EXCEPT !.pc = "decay", !.todo = draft[op[p].prop].claims])
            <4>1. op[p].prop \in Proposals
                BY <2>5 DEF Dispatch, OpOK, Grounded, AtProposal
            <4>2. draft[op[p].prop].claims \in SUBSET Claims
                BY <4>1 DEF ProposalDraft
            <4>3. QED  BY <2>0, <3>1, <4>2 DEF Step, Op, PCs
        <3>2. QED  BY <2>5, <3>1, ControlTypes, IdleIsOp
                   DEF Dispatch, PCs, OpenStatus, ClosedStatus, Step
    <2>6. CASE SupportGate(p)
        BY <2>6, ControlTypes DEF SupportGate, PCs, ClosedStatus
    <2>7. CASE TrustGate(p)
        <3>1. op[p].prop \in Proposals
            BY <2>7 DEF TrustGate, OpOK, Grounded, AtProposal
        <3>2. draft[op[p].prop].claims \in SUBSET Claims
            BY <3>1 DEF ProposalDraft
        <3>3. CASE Step(p, [op[p] EXCEPT !.pc = "promote", !.todo = draft[op[p].prop].claims])
            BY <2>0, <3>2, <3>3 DEF Step, Op, PCs
        <3>4. QED  BY <2>7, <3>3, ControlTypes DEF TrustGate, OpenStatus
    <2>8. CASE ReadClaim(p)
        <3>1. CASE MarkAs(p, "applied")
            BY <3>1, ControlTypes DEF ClosedStatus
        <3>2. CASE \E c \in op[p].todo :
                     Step(p, IF Settled(c, draft[op[p].prop].target)
                             THEN [op[p] EXCEPT !.todo = @ \ {c}]
                             ELSE [op[p] EXCEPT !.todo = @ \ {c}, !.claim = c,
                                     !.pc = IF Durable(c) THEN "semantic" ELSE "long_term"])
            <4>1. PICK c \in op[p].todo :
                    \/ Step(p, [op[p] EXCEPT !.todo = @ \ {c}])
                    \/ Step(p, [op[p] EXCEPT !.todo = @ \ {c}, !.claim = c,
                                             !.pc = "semantic"])
                    \/ Step(p, [op[p] EXCEPT !.todo = @ \ {c}, !.claim = c,
                                             !.pc = "long_term"])
                BY <3>2
            <4>2. /\ [op[p] EXCEPT !.todo = @ \ {c}] \in Op
                  /\ [op[p] EXCEPT !.todo = @ \ {c}, !.claim = c, !.pc = "semantic"] \in Op
                  /\ [op[p] EXCEPT !.todo = @ \ {c}, !.claim = c, !.pc = "long_term"] \in Op
                BY <2>0, <4>1 DEF Op, PCs
            <4>3. QED  BY <4>1, <4>2 DEF Step
        <3>3. QED  BY <2>8, <3>1, <3>2 DEF ReadClaim
    <2>9. CASE CheckLongTerm(p)
        BY <2>9, ControlTypes, IdleIsOp DEF CheckLongTerm, Step, PCs
    <2>10. CASE WriteLongTerm(p)
        BY <2>10, ControlTypes DEF WriteLongTerm, PCs
    <2>11. CASE CheckSemantic(p)
        BY <2>11, ControlTypes, IdleIsOp DEF CheckSemantic, Step, PCs
    <2>12. CASE WriteSemantic(p)
        BY <2>12, ControlTypes DEF WriteSemantic, PCs
    <2>13. CASE DecayClaim(p)
        <3>1. CASE MarkAs(p, "applied")
            BY <3>1, ControlTypes DEF ClosedStatus
        <3>2. CASE \E c \in op[p].todo : Step(p, [op[p] EXCEPT !.todo = @ \ {c}])
            BY <2>0, <3>2 DEF Step, Op
        <3>3. QED  BY <2>13, <3>1, <3>2 DEF DecayClaim
    <2>14. CASE Mark(p)
        BY <2>14, ControlTypes DEF Mark
    <2>15. QED
        BY <1>2, <2>1, <2>2, <2>3, <2>4, <2>5, <2>6, <2>7, <2>8, <2>9, <2>10, <2>11,
           <2>12, <2>13, <2>14
        DEF Continue
<1>3. ASSUME NEW p \in Operators, Begin(p)
      PROVE  op' \in [Procs -> Op]
    <2>1. CASE BeginVerify(p)
        <3>1. ASSUME NEW v \in Verdicts, NEW S \in SUBSET Claims, NEW q \in Proposals,
                     NEW apply \in BOOLEAN, NEW destr \in BOOLEAN
              PROVE  /\ [Idle EXCEPT !.pc = "verify", !.todo = S, !.verdict = v] \in Op
                     /\ [Idle EXCEPT !.pc = "verify", !.prop = q, !.verdict = v, !.todo = S,
                                     !.thenApply = apply, !.destructive = destr] \in Op
            <4>1. v \in VerificationResults
                BY VerdictsValid
            <4>2. [Idle EXCEPT !.pc = "verify", !.todo = S, !.verdict = v] \in Op
                BY <4>1, IdleIsOp DEF Op, PCs
            <4>3. [Idle EXCEPT !.pc = "verify", !.prop = q, !.verdict = v, !.todo = S,
                               !.thenApply = apply, !.destructive = destr] \in Op
                BY <4>1 DEF Idle, Op, PCs, NoClaim
            <4>4. QED  BY <4>2, <4>3
        <3>2. ASSUME NEW v \in Verdicts, NEW c \in Claims,
                     Step(p, [Idle EXCEPT !.pc = "verify", !.todo = {c}, !.verdict = v])
              PROVE  op' \in [Procs -> Op]
            <4>1. [Idle EXCEPT !.pc = "verify", !.todo = {c}, !.verdict = v] \in Op
                BY VerdictsValid, IdleIsOp DEF Op, PCs
            <4>2. QED  BY <3>2, <4>1 DEF Step
        <3>3. ASSUME NEW v \in Verdicts, NEW q \in Proposals,
                     NEW apply \in BOOLEAN, NEW destr \in BOOLEAN,
                     Step(p, [Idle EXCEPT !.pc = "verify", !.prop = q, !.verdict = v,
                                          !.todo = VerificationTargets(q, v),
                                          !.thenApply = apply, !.destructive = destr])
              PROVE  op' \in [Procs -> Op]
            <4>1. VerificationTargets(q, v) \in SUBSET Claims
                BY DEF VerificationTargets, Missing, ProposalDraft
            <4>2. QED  BY <3>1, <3>3, <4>1 DEF Step
        <3>4. QED  BY <2>1, <3>2, <3>3 DEF BeginVerify
    <2>2. CASE BeginCorrection(p)
        <3>1. PICK S \in SUBSET Claims :
                Step(p, [Idle EXCEPT !.pc = "verify", !.todo = S, !.verdict = "superseded"])
            BY <2>2 DEF BeginCorrection
        <3>2. [Idle EXCEPT !.pc = "verify", !.todo = S, !.verdict = "superseded"] \in Op
            BY IdleIsOp DEF Op, PCs, VerificationResults
        <3>3. QED  BY <3>1, <3>2 DEF Step
    <2>3. CASE BeginApply(p)
        <3>1. PICK q \in Proposals, destr \in BOOLEAN :
                Step(p, [Idle EXCEPT !.pc = "apply", !.prop = q, !.destructive = destr])
            BY <2>3 DEF BeginApply
        <3>2. [Idle EXCEPT !.pc = "apply", !.prop = q, !.destructive = destr] \in Op
            BY IdleIsOp DEF Op, PCs
        <3>3. QED  BY <3>1, <3>2 DEF Step
    <2>4. QED  BY <1>3, <2>1, <2>2, <2>3 DEF Begin
<1>4. ASSUME NEW p \in Procs, Crash(p)
      PROVE  op' \in [Procs -> Op]
    BY <1>4, IdleIsOp DEF Crash, Step
<1>5. CASE InsertClaim \/ InsertProposal \/ SetStatus \/ UNCHANGED vars
    BY <1>5 DEF InsertClaim, InsertProposal, SetStatus, vars
<1>6. QED  BY <1>1, <1>2, <1>3, <1>4, <1>5 DEF Next

\* A step that writes no row: it only moves a process.
Quiet(p) ==
    \/ BeginDrain(p) \/ Begin(p) \/ VerifyDone(p) \/ DrainNext(p) \/ Dispatch(p)
    \/ SupportGate(p) \/ TrustGate(p) \/ ReadClaim(p) \/ CheckLongTerm(p)
    \/ CheckSemantic(p) \/ Crash(p)

\* What every step does to the rows, in terms of where the process was.
LEMMA Writes ==
    ASSUME [Next]_vars
    PROVE  \/ InsertClaim
           \/ InsertProposal
           \/ SetStatus
           \/ UNCHANGED vars
           \/ \E p \in Procs :
                \/ Quiet(p) /\ UNCHANGED <<ledger, queue>>
                \/ RecordVerdict(p) \/ MarkCorrected(p) \/ WriteLongTerm(p)
                \/ WriteSemantic(p) \/ DecayClaim(p) \/ Mark(p)
<1>1. ASSUME NEW p \in Procs, Quiet(p)
      PROVE  UNCHANGED <<ledger, queue>>
    <2>1. CASE BeginDrain(p) \/ Begin(p) \/ VerifyDone(p) \/ DrainNext(p) \/ Crash(p)
        BY <2>1 DEF BeginDrain, Begin, BeginVerify, BeginCorrection, BeginApply,
                    VerifyDone, DrainNext, Crash
    <2>2. CASE Dispatch(p) \/ SupportGate(p) \/ TrustGate(p) \/ ReadClaim(p)
                 \/ CheckLongTerm(p) \/ CheckSemantic(p)
        BY <2>2 DEF Dispatch, SupportGate, TrustGate, ReadClaim, CheckLongTerm,
                    CheckSemantic
    <2>3. QED  BY <1>1, <2>1, <2>2 DEF Quiet
<1>2. QED  BY <1>1 DEF Next, Continue, Procs, Quiet

LEMMA LedgerTyped ==
    ASSUME Base, [Next]_vars
    PROVE  /\ source' \in [Claims -> SourceTypes \cup {"absent"}]
           /\ state' \in [Claims -> LifecycleStates \cup {"absent"}]
           /\ verdicts' \in [Claims -> SUBSET VerificationResults]
           /\ draft' \in [Proposals -> ProposalDraft]
           /\ status' \in [Proposals -> OpenStatus \cup ClosedStatus \cup {"absent"}]
<1> USE DEF Base, TypeOK
<1>1. CASE InsertClaim
    BY <1>1, ClaimDraftsValid DEF InsertClaim, queue
<1>2. CASE InsertProposal
    BY <1>2, ProposalDraftsValid DEF InsertProposal, ledger, OpenStatus
<1>3. CASE SetStatus
    BY <1>3, ReviewStatusesValid DEF SetStatus, ledger
<1>4. CASE UNCHANGED vars
    BY <1>4 DEF vars
<1>5. ASSUME NEW p \in Procs, UNCHANGED <<ledger, queue>>
      PROVE  UNCHANGED <<source, state, verdicts, draft, status>>
    BY <1>5 DEF ledger, queue
<1>6. ASSUME NEW p \in Procs, RecordVerdict(p)
      PROVE  /\ verdicts' \in [Claims -> SUBSET VerificationResults]
             /\ UNCHANGED <<source, state, draft, status>>
    <2>1. op[p].verdict \in VerificationResults
        BY <1>6 DEF RecordVerdict, OpOK, OnBranch, Op
    <2>2. QED  BY <1>6, <2>1 DEF RecordVerdict, WithVerdict, queue
<1>7. ASSUME NEW p \in Procs, MarkCorrected(p) \/ WriteLongTerm(p) \/ WriteSemantic(p)
      PROVE  /\ state' \in [Claims -> LifecycleStates \cup {"absent"}]
             /\ UNCHANGED <<source, verdicts, draft, status>>
    BY <1>7 DEF MarkCorrected, WriteLongTerm, WriteSemantic, LifecycleStates, queue
<1>8. ASSUME NEW p \in Procs, DecayClaim(p)
      PROVE  /\ state' \in [Claims -> LifecycleStates \cup {"absent"}]
             /\ UNCHANGED <<source, verdicts, draft, status>>
    <2>1. ValidProposal(draft[op[p].prop]) /\ draft[op[p].prop].action = "decay"
        BY <1>8 DEF DecayClaim, QueueOK, OpOK, Grounded, OnBranch, AtProposal
    <2>2. draft[op[p].prop].target \in LifecycleStates
        BY <2>1 DEF ValidProposal, GoneStates, LifecycleStates
    <2>3. QED  BY <1>8, <2>2 DEF DecayClaim, queue
<1>9. ASSUME NEW p \in Procs, Mark(p)
      PROVE  /\ status' \in [Proposals -> OpenStatus \cup ClosedStatus \cup {"absent"}]
             /\ UNCHANGED <<source, state, verdicts, draft>>
    <2>1. op[p].outcome \in OpenStatus \cup ClosedStatus
        BY <1>9 DEF Mark, OpOK, OnBranch, Op
    <2>2. QED  BY <1>9, <2>1 DEF Mark, ledger
<1>10. QED
    BY Writes, <1>1, <1>2, <1>3, <1>4, <1>5, <1>6, <1>7, <1>8, <1>9

-----------------------------------------------------------------------------
(* What no step takes back. *)

\* Rows stay, sources and drafts are immutable, verification events are only added.
Grows ==
    /\ \A c \in Claims : Exists(c) => Exists(c)' /\ source'[c] = source[c]
    /\ \A c \in Claims : verdicts[c] \subseteq verdicts'[c]
    /\ \A q \in Proposals :
         status[q] # "absent" => status'[q] # "absent" /\ draft'[q] = draft[q]

LEMMA GrowsStep ==
    ASSUME Base, [Next]_vars
    PROVE  Grows
<1> USE DEF Base, TypeOK, Grows, Exists
<1>1. CASE InsertClaim
    BY <1>1, ClaimDraftsValid DEF InsertClaim, queue, LifecycleStates
<1>2. CASE InsertProposal
    BY <1>2 DEF InsertProposal, ledger
<1>3. CASE SetStatus
    BY <1>3, ReviewStatusesValid DEF SetStatus, ledger, OpenStatus, ClosedStatus
<1>4. CASE UNCHANGED vars
    BY <1>4 DEF vars
<1>5. ASSUME NEW p \in Procs, UNCHANGED <<ledger, queue>>
      PROVE  Grows
    BY <1>5 DEF ledger, queue
<1>6. ASSUME NEW p \in Procs, RecordVerdict(p)
      PROVE  Grows
    BY <1>6 DEF RecordVerdict, WithVerdict, queue
<1>7. ASSUME NEW p \in Procs, MarkCorrected(p) \/ WriteLongTerm(p) \/ WriteSemantic(p)
      PROVE  Grows
    BY <1>7 DEF MarkCorrected, WriteLongTerm, WriteSemantic, queue
<1>8. ASSUME NEW p \in Procs, DecayClaim(p)
      PROVE  Grows
    <2>1. ValidProposal(draft[op[p].prop]) /\ draft[op[p].prop].action = "decay"
        BY <1>8 DEF DecayClaim, QueueOK, OpOK, Grounded, OnBranch, AtProposal
    <2>2. draft[op[p].prop].target # "absent"
        BY <2>1 DEF ValidProposal, GoneStates
    <2>3. QED  BY <1>8, <2>2 DEF DecayClaim, queue
<1>9. ASSUME NEW p \in Procs, Mark(p)
      PROVE  Grows
    <2>1. op[p].outcome # "absent"
        BY <1>9 DEF Mark, OpOK, OnBranch, Op, OpenStatus, ClosedStatus
    <2>2. QED  BY <1>9, <2>1 DEF Mark, ledger
<1>10. QED
    BY Writes, <1>1, <1>2, <1>3, <1>4, <1>5, <1>6, <1>7, <1>8, <1>9

\* The gate of a promotion stays open once it was.
LEMMA TrustStays ==
    ASSUME Base, [Next]_vars, NEW c \in Claims, Exists(c), Trusted(c)
    PROVE  Trusted(c)'
BY GrowsStep DEF Grows, Trusted

LEMMA QueueStep ==
    ASSUME Base, [Next]_vars
    PROVE  QueueOK'
<1> SUFFICES ASSUME NEW q \in Proposals, status'[q] # "absent"
             PROVE  /\ ValidProposal(draft'[q])
                    /\ \A c \in draft'[q].claims : Exists(c)'
    BY DEF QueueOK, ValidProposal, Exists
<1>1. CASE status[q] # "absent"
    <2>1. draft'[q] = draft[q]
        BY <1>1, GrowsStep DEF Grows
    <2>2. draft[q].claims \subseteq Claims
        BY DEF Base, TypeOK, ProposalDraft
    <2>3. QED  BY <1>1, <2>1, <2>2, GrowsStep DEF Base, QueueOK, Grows
<1>2. CASE status[q] = "absent"
    <2>1. CASE InsertProposal
        BY <1>2, <2>1, ProposalDraftsValid
        DEF Base, TypeOK, InsertProposal, ledger, Exists
    <2>2. ASSUME NEW p \in Procs, Mark(p)
          PROVE  status'[q] = "absent"
        BY <1>2, <2>2 DEF Mark, Base, TypeOK, OpOK, Grounded, AtProposal
    <2>3. CASE SetStatus
        BY <1>2, <2>3 DEF SetStatus, Base, TypeOK
    <2>4. QED
        BY <1>2, <2>1, <2>2, <2>3, Writes
        DEF InsertClaim, vars, RecordVerdict, MarkCorrected, WriteLongTerm,
            WriteSemantic, DecayClaim, queue
<1>3. QED  BY <1>1, <1>2

-----------------------------------------------------------------------------
(* Where the processes are. *)

LEMMA IdleOK == OpOK(Idle)
BY DEF OpOK, Grounded, OnBranch, SawTrust, Idle, AtClaim, AtProposal, AtPromotion

\* What a process knew when it came to a point stays true while rows are written.
LEMMA OpOKStays ==
    ASSUME Base, [Next]_vars, NEW p \in Procs, OpOK(op'[p])
    PROVE  OpOK(op[p])'
<1> USE DEF Base, TypeOK
<1>0. op'[p] \in Op
    BY OpTyped
<1>1. Grounded(op[p])'
    <2>1. op'[p].todo \subseteq Claims /\ op'[p].batch \subseteq Proposals \X OpenStatus
        BY <1>0 DEF Op
    <2>2. \A row \in op'[p].batch : status[row[1]] # "absent" => status'[row[1]] # "absent"
        BY <2>1, GrowsStep DEF Grows
    <2>3. QED  BY <2>1, <2>2, GrowsStep DEF Grows, OpOK, Grounded
<1>2. OnBranch(op[p])'
    BY GrowsStep DEF Grows, OpOK, OnBranch, Grounded, AtProposal
<1>3. SawTrust(op[p])'
    BY TrustStays DEF OpOK, SawTrust, Grounded, AtClaim
<1>4. QED  BY <1>1, <1>2, <1>3 DEF OpOK

\* The points from which nothing is written before the next gate.
LEMMA GotoOK ==
    ASSUME NEW p \in Procs, op \in [Procs -> Op], OpOK(op[p])
    PROVE  /\ \A pc \in PCs :
                /\ Goto(p, pc)
                /\ pc \notin {"verify", "correct", "mark", "decay",
                             "write_long_term", "write_semantic"}
                /\ pc \in AtProposal => op[p].pc \in AtProposal
                /\ pc \in AtClaim => op[p].pc \in AtClaim
                => OpOK(op'[p])
           /\ Return(p, "promote") /\ op[p].pc \in AtProposal => OpOK(op'[p])
           /\ \A s \in OpenStatus \cup ClosedStatus :
                MarkAs(p, s) /\ op[p].pc \in AtProposal => OpOK(op'[p])
           /\ AfterProposal(p) => OpOK(op'[p])
<1>0. op[p] \in Op
    OBVIOUS
<1> USE DEF OpOK, Grounded, OnBranch, SawTrust, AtClaim, AtProposal, AtPromotion
<1>1. ASSUME NEW pc \in PCs, Goto(p, pc),
             pc \notin {"verify", "correct", "mark", "decay",
                       "write_long_term", "write_semantic"},
             pc \in AtProposal => op[p].pc \in AtProposal,
             pc \in AtClaim => op[p].pc \in AtClaim
      PROVE  OpOK(op'[p])
    <2>1. op'[p] = [op[p] EXCEPT !.pc = pc]
        BY <1>1 DEF Goto, Step
    <2>2. QED  BY <1>0, <1>1, <2>1 DEF Op
<1>2. ASSUME Return(p, "promote"), op[p].pc \in AtProposal
      PROVE  OpOK(op'[p])
    <2>1. op'[p] = [op[p] EXCEPT !.pc = "promote", !.claim = NoClaim]
        BY <1>2 DEF Return, Step
    <2>2. QED  BY <1>0, <1>2, <2>1 DEF Op
<1>3. ASSUME NEW s \in OpenStatus \cup ClosedStatus, MarkAs(p, s), op[p].pc \in AtProposal
      PROVE  OpOK(op'[p])
    <2>1. op'[p] = [op[p] EXCEPT !.pc = "mark", !.outcome = s]
        BY <1>3 DEF MarkAs, Step
    <2>2. QED  BY <1>0, <1>3, <2>1 DEF Op, OpenStatus, ClosedStatus
<1>4. ASSUME AfterProposal(p)
      PROVE  OpOK(op'[p])
    <2>1. CASE op'[p] = Idle
        BY <2>1, IdleOK
    <2>2. CASE op'[p] = [op[p] EXCEPT !.pc = "drain", !.prop = NoProposal, !.outcome = "none"]
        BY <1>0, <1>4, <2>2 DEF Op
    <2>3. QED  BY <1>4, <2>1, <2>2 DEF AfterProposal, Step
<1>5. QED  BY <1>1, <1>2, <1>3, <1>4

\* A process keeps to the branch of its proposal.
LEMMA ContinueOK ==
    ASSUME Base, NEW p \in Procs, Continue(p)
    PROVE  OpOK(op'[p])
<1> USE DEF Base, TypeOK
<1>0. op[p] \in Op /\ OpOK(op[p])
    OBVIOUS
<1>1. CASE RecordVerdict(p)
    <2>1. PICK c \in op[p].todo :
            \/ /\ op[p].verdict \in Correcting
               /\ op'[p] = [op[p] EXCEPT !.pc = "correct", !.claim = c, !.todo = @ \ {c}]
            \/ op'[p] = [op[p] EXCEPT !.todo = @ \ {c}]
        BY <1>1 DEF RecordVerdict, Step
    <2>2. op[p].pc = "verify"
        BY <1>1 DEF RecordVerdict
    <2>3. /\ op'[p].todo = op[p].todo \ {c} /\ op'[p].batch = op[p].batch
          /\ op'[p].prop = op[p].prop /\ op'[p].thenApply = op[p].thenApply
          /\ op'[p].verdict = op[p].verdict
          /\ \/ op'[p].pc = "verify"
             \/ op'[p].pc = "correct" /\ op'[p].claim = c
        <3>1. CASE op'[p] = [op[p] EXCEPT !.pc = "correct", !.claim = c, !.todo = @ \ {c}]
            BY <1>0, <3>1 DEF Op
        <3>2. CASE op'[p] = [op[p] EXCEPT !.todo = @ \ {c}]
            BY <1>0, <2>2, <3>2 DEF Op
        <3>3. QED  BY <2>1, <3>1, <3>2
    <2>4. c \in Claims /\ Exists(c)
        BY <1>0, <2>1 DEF Op, OpOK, Grounded
    <2>5. QED
        BY <1>0, <2>2, <2>3, <2>4
        DEF OpOK, Grounded, OnBranch, SawTrust, AtClaim, AtProposal, AtPromotion
<1>2. CASE MarkCorrected(p)
    <2>1. op'[p] = [op[p] EXCEPT !.pc = "verify", !.claim = NoClaim] /\ op[p].pc = "correct"
        BY <1>2 DEF MarkCorrected, Return, Step
    <2>2. QED
        BY <1>0, <2>1
        DEF Op, OpOK, Grounded, OnBranch, SawTrust, AtClaim, AtProposal, AtPromotion
<1>3. CASE VerifyDone(p)
    <2>1. CASE op'[p] = Idle
        BY <2>1, IdleOK
    <2>2. CASE /\ op'[p] = [Idle EXCEPT !.pc = "apply", !.prop = op[p].prop,
                                        !.destructive = op[p].destructive]
               /\ op[p].pc = "verify" /\ op[p].thenApply
        BY <1>0, <2>2
        DEF Idle, OpOK, Grounded, OnBranch, SawTrust, AtClaim, AtProposal, AtPromotion
    <2>3. QED  BY <1>3, <2>1, <2>2 DEF VerifyDone, Step
<1>4. CASE DrainNext(p)
    <2>1. CASE op'[p] = Idle
        BY <2>1, IdleOK
    <2>2. ASSUME NEW row \in op[p].batch, op[p].pc = "drain",
                 \/ op'[p] = [op[p] EXCEPT !.batch = @ \ {row}, !.prop = row[1], !.pc = "apply"]
                 \/ op'[p] = [op[p] EXCEPT !.batch = @ \ {row}]
          PROVE  OpOK(op'[p])
        <3>1. row[1] \in Proposals /\ status[row[1]] # "absent"
            BY <1>0, <2>2 DEF Op, OpOK, Grounded
        <3>2. /\ op'[p].todo = op[p].todo /\ op'[p].batch = op[p].batch \ {row}
              /\ \/ op'[p].pc = "apply" /\ op'[p].prop = row[1]
                 \/ op'[p].pc = "drain"
            BY <1>0, <2>2 DEF Op
        <3>3. QED
            BY <1>0, <3>1, <3>2
            DEF OpOK, Grounded, OnBranch, SawTrust, AtClaim, AtProposal, AtPromotion
    <2>3. CASE op[p].batch = {}
        BY <1>4, <2>1, <2>3 DEF DrainNext, Step
    <2>4. QED  BY <1>4, <2>1, <2>2 DEF DrainNext, Step
<1>5. CASE Dispatch(p)
    <2>1. op[p].pc = "apply" /\ op[p].prop \in Proposals /\ status[op[p].prop] # "absent"
        BY <1>0, <1>5 DEF Dispatch, OpOK, Grounded, AtProposal
    <2>2. CASE /\ draft[op[p].prop].action = "decay"
               /\ op'[p] = [op[p] EXCEPT !.pc = "decay", !.todo = draft[op[p].prop].claims]
        BY <1>0, <2>1, <2>2
        DEF QueueOK, Op, OpOK, Grounded, OnBranch, SawTrust, AtClaim, AtProposal, AtPromotion
    <2>3. CASE Step(p, Idle)
        BY <2>3, IdleOK DEF Step
    <2>4. CASE \/ Goto(p, "support") \/ Goto(p, "trust") \/ AfterProposal(p)
               \/ MarkAs(p, "waiting_verification") \/ MarkAs(p, "applied")
        BY <1>0, <2>1, <2>4, GotoOK
        DEF PCs, OpenStatus, ClosedStatus, AtProposal, AtPromotion, AtClaim
    <2>5. QED  BY <1>5, <2>2, <2>3, <2>4 DEF Dispatch, Step
<1>6. CASE SupportGate(p)
    BY <1>0, <1>6, GotoOK
    DEF SupportGate, PCs, ClosedStatus, AtProposal, AtPromotion, AtClaim
<1>7. CASE TrustGate(p)
    <2>1. op[p].pc = "trust" /\ op[p].prop \in Proposals /\ status[op[p].prop] # "absent"
        BY <1>0, <1>7 DEF TrustGate, OpOK, Grounded, AtProposal
    <2>2. CASE op'[p] = [op[p] EXCEPT !.pc = "promote", !.todo = draft[op[p].prop].claims]
        BY <1>0, <2>1, <2>2
        DEF QueueOK, Op, OpOK, Grounded, OnBranch, SawTrust, AtClaim, AtProposal, AtPromotion
    <2>3. CASE MarkAs(p, "waiting_verification")
        BY <1>0, <2>1, <2>3, GotoOK DEF OpenStatus, AtProposal
    <2>4. QED  BY <1>7, <2>2, <2>3 DEF TrustGate, Step
<1>8. CASE ReadClaim(p)
    <2>1. op[p].pc = "promote"
        BY <1>8 DEF ReadClaim
    <2>2. CASE MarkAs(p, "applied")
        BY <1>0, <2>1, <2>2, GotoOK DEF ClosedStatus, AtProposal
    <2>3. ASSUME NEW c \in op[p].todo,
                 \/ op'[p] = [op[p] EXCEPT !.todo = @ \ {c}]
                 \/ op'[p] = [op[p] EXCEPT !.todo = @ \ {c}, !.claim = c, !.pc = "semantic"]
                 \/ op'[p] = [op[p] EXCEPT !.todo = @ \ {c}, !.claim = c, !.pc = "long_term"]
          PROVE  OpOK(op'[p])
        <3>1. /\ op'[p].todo = op[p].todo \ {c} /\ op'[p].batch = op[p].batch
              /\ op'[p].prop = op[p].prop
              /\ \/ op'[p].pc = "promote"
                 \/ op'[p].pc \in {"semantic", "long_term"} /\ op'[p].claim = c
            BY <1>0, <2>1, <2>3 DEF Op
        <3>2. c \in Claims /\ Exists(c)
            BY <1>0, <2>3 DEF Op, OpOK, Grounded
        <3>3. QED
            BY <1>0, <2>1, <3>1, <3>2
            DEF OpOK, Grounded, OnBranch, SawTrust, AtClaim, AtProposal, AtPromotion
    <2>4. QED  BY <1>8, <2>2, <2>3 DEF ReadClaim, Step
<1>9. CASE CheckLongTerm(p)
    <2>1. CASE op'[p] = Idle
        BY <2>1, IdleOK
    <2>2. CASE /\ op'[p] = [op[p] EXCEPT !.pc = "write_long_term"]
               /\ op[p].pc = "long_term" /\ Trusted(op[p].claim)
        BY <1>0, <2>2
        DEF Op, OpOK, Grounded, OnBranch, SawTrust, AtClaim, AtProposal, AtPromotion
    <2>3. QED  BY <1>9, <2>1, <2>2 DEF CheckLongTerm, Goto, Step
<1>10. CASE WriteLongTerm(p)
    BY <1>0, <1>10, GotoOK DEF WriteLongTerm, PCs, AtProposal, AtPromotion, AtClaim
<1>11. CASE CheckSemantic(p)
    <2>1. CASE op'[p] = Idle
        BY <2>1, IdleOK
    <2>2. CASE /\ op'[p] = [op[p] EXCEPT !.pc = "write_semantic"]
               /\ op[p].pc = "semantic" /\ Trusted(op[p].claim)
        BY <1>0, <2>2
        DEF Op, OpOK, Grounded, OnBranch, SawTrust, AtClaim, AtProposal, AtPromotion
    <2>3. QED  BY <1>11, <2>1, <2>2 DEF CheckSemantic, Goto, Step
<1>12. CASE WriteSemantic(p)
    BY <1>0, <1>12, GotoOK DEF WriteSemantic, AtProposal, AtPromotion, AtClaim
<1>13. CASE DecayClaim(p)
    <2>1. op[p].pc = "decay"
        BY <1>13 DEF DecayClaim
    <2>2. CASE MarkAs(p, "applied")
        BY <1>0, <2>1, <2>2, GotoOK DEF ClosedStatus, AtProposal
    <2>3. ASSUME NEW c \in op[p].todo, op'[p] = [op[p] EXCEPT !.todo = @ \ {c}]
          PROVE  OpOK(op'[p])
        BY <1>0, <2>1, <2>3
        DEF Op, OpOK, Grounded, OnBranch, SawTrust, AtClaim, AtProposal, AtPromotion
    <2>4. QED  BY <1>13, <2>2, <2>3 DEF DecayClaim, Step
<1>14. CASE Mark(p)
    BY <1>0, <1>14, GotoOK DEF Mark
<1>15. QED
    BY <1>1, <1>2, <1>3, <1>4, <1>5, <1>6, <1>7, <1>8, <1>9, <1>10, <1>11, <1>12,
       <1>13, <1>14 DEF Continue

\* An operation starts from rows it just read.
LEMMA BeginOK ==
    ASSUME Base, NEW p \in Procs, BeginDrain(p) \/ Begin(p)
    PROVE  OpOK(op'[p])
<1> USE DEF Base, TypeOK
<1>1. CASE BeginDrain(p)
    <2>1. PICK decay \in BOOLEAN, noops \in BOOLEAN :
            op'[p] = [Idle EXCEPT !.pc = "drain", !.batch = FirstOpen, !.draining = TRUE,
                                  !.destructive = decay, !.noops = noops]
        BY <1>1 DEF BeginDrain, Step
    <2>2. /\ op'[p].pc = "drain" /\ op'[p].todo = {} /\ op'[p].batch = FirstOpen
        BY <2>1 DEF Idle
    <2>3. \A row \in FirstOpen : status[row[1]] # "absent"
        BY DEF FirstOpen, OpenRows, Open, OpenStatus
    <2>4. QED
        BY <2>2, <2>3 DEF OpOK, Grounded, OnBranch, SawTrust, AtClaim, AtProposal, AtPromotion
<1>2. CASE BeginVerify(p)
    <2>1. ASSUME NEW v \in Verdicts, NEW c \in Claims, Exists(c),
                 op'[p] = [Idle EXCEPT !.pc = "verify", !.todo = {c}, !.verdict = v]
          PROVE  OpOK(op'[p])
        BY <2>1, VerdictsValid
        DEF Idle, OpOK, Grounded, OnBranch, SawTrust, AtClaim, AtProposal, AtPromotion,
            VerificationResults
    <2>2. ASSUME NEW v \in Verdicts, NEW q \in Proposals, status[q] # "absent",
                 NEW apply \in BOOLEAN, NEW destr \in BOOLEAN,
                 op'[p] = [Idle EXCEPT !.pc = "verify", !.prop = q, !.verdict = v,
                                       !.todo = VerificationTargets(q, v),
                                       !.thenApply = apply, !.destructive = destr]
          PROVE  OpOK(op'[p])
        <3>1. /\ op'[p].pc = "verify" /\ op'[p].prop = q /\ op'[p].verdict = v
              /\ op'[p].todo = VerificationTargets(q, v) /\ op'[p].batch = {}
            BY <2>2 DEF Idle
        <3>2. \A c \in VerificationTargets(q, v) : Exists(c)
            BY <2>2 DEF VerificationTargets, Missing, QueueOK
        <3>3. v # "none"
            BY VerdictsValid DEF VerificationResults
        <3>4. QED
            BY <2>2, <3>1, <3>2, <3>3
            DEF OpOK, Grounded, OnBranch, SawTrust, AtClaim, AtProposal, AtPromotion
    <2>3. PICK v \in Verdicts :
            \/ \E c \in Claims :
                 /\ Exists(c)
                 /\ Step(p, [Idle EXCEPT !.pc = "verify", !.todo = {c}, !.verdict = v])
            \/ \E q \in Proposals, apply \in BOOLEAN, destr \in BOOLEAN :
                 /\ status[q] # "absent"
                 /\ Step(p, [Idle EXCEPT !.pc = "verify", !.prop = q, !.verdict = v,
                                         !.todo = VerificationTargets(q, v),
                                         !.thenApply = apply, !.destructive = destr])
        BY <1>2, Zenon DEF BeginVerify
    <2>4. CASE \E c \in Claims :
                 /\ Exists(c)
                 /\ Step(p, [Idle EXCEPT !.pc = "verify", !.todo = {c}, !.verdict = v])
        BY <2>1, <2>4 DEF Step
    <2>5. CASE \E q \in Proposals, apply \in BOOLEAN, destr \in BOOLEAN :
                 /\ status[q] # "absent"
                 /\ Step(p, [Idle EXCEPT !.pc = "verify", !.prop = q, !.verdict = v,
                                         !.todo = VerificationTargets(q, v),
                                         !.thenApply = apply, !.destructive = destr])
        <3>1. PICK q \in Proposals, apply \in BOOLEAN, destr \in BOOLEAN :
                 /\ status[q] # "absent"
                 /\ Step(p, [Idle EXCEPT !.pc = "verify", !.prop = q, !.verdict = v,
                                         !.todo = VerificationTargets(q, v),
                                         !.thenApply = apply, !.destructive = destr])
            BY <2>5, Zenon
        <3>2. op'[p] = [Idle EXCEPT !.pc = "verify", !.prop = q, !.verdict = v,
                                    !.todo = VerificationTargets(q, v),
                                    !.thenApply = apply, !.destructive = destr]
            BY <3>1 DEF Step
        <3>3. QED  BY <2>2, <3>1, <3>2, Zenon
    <2>6. QED  BY <2>3, <2>4, <2>5, Zenon
<1>3. CASE BeginCorrection(p)
    <2>1. PICK S \in SUBSET {c \in Claims : state[c] \in ActiveStates} :
            op'[p] = [Idle EXCEPT !.pc = "verify", !.todo = S, !.verdict = "superseded"]
        BY <1>3 DEF BeginCorrection, Step
    <2>2. \A c \in S : Exists(c)
        BY DEF ActiveStates, LifecycleStates, Exists
    <2>3. QED
        BY <2>1, <2>2
        DEF Idle, OpOK, Grounded, OnBranch, SawTrust, AtClaim, AtProposal, AtPromotion
<1>4. CASE BeginApply(p)
    <2>1. PICK q \in Proposals, destr \in BOOLEAN :
            /\ status[q] # "absent"
            /\ op'[p] = [Idle EXCEPT !.pc = "apply", !.prop = q, !.destructive = destr]
        BY <1>4 DEF BeginApply, Step
    <2>2. QED
        BY <2>1 DEF Idle, OpOK, Grounded, OnBranch, SawTrust, AtClaim, AtProposal, AtPromotion
<1>5. QED  BY <1>1, <1>2, <1>3, <1>4 DEF Begin

\* Every process is where Next put it, or where it was.
LEMMA Moves ==
    ASSUME op \in [Procs -> Op], [Next]_vars, NEW x \in Procs
    PROVE  \/ op'[x] = op[x]
           \/ op'[x] = Idle
           \/ Continue(x)
           \/ BeginDrain(x)
           \/ x \in Operators /\ Begin(x)
<1>1. ASSUME NEW p \in Procs, Crash(p)
      PROVE  op'[p] = Idle
    BY <1>1 DEF Crash, Step
<1>2. ASSUME NEW p \in Procs, Continue(p) \/ Begin(p) \/ BeginDrain(p) \/ Crash(p), x # p
      PROVE  op'[x] = op[x]
    <2>1. CASE Begin(p) \/ BeginDrain(p) \/ Crash(p)
        BY <1>2, <2>1
        DEF Begin, BeginVerify, BeginCorrection, BeginApply, BeginDrain, Crash, Step
    <2>2. CASE Continue(p)
        BY <1>2, <2>2
        DEF Continue, RecordVerdict, MarkCorrected, VerifyDone, DrainNext, Dispatch,
            SupportGate, TrustGate, ReadClaim, CheckLongTerm, WriteLongTerm,
            CheckSemantic, WriteSemantic, DecayClaim, Mark, AfterProposal, MarkAs,
            Goto, Return, Step
    <2>3. QED  BY <1>2, <2>1, <2>2
<1>3. CASE InsertClaim \/ InsertProposal \/ SetStatus \/ UNCHANGED vars
    BY <1>3 DEF InsertClaim, InsertProposal, SetStatus, vars
<1>4. QED  BY <1>1, <1>2, <1>3 DEF Next, Procs

LEMMA MovesOK ==
    ASSUME Base, [Next]_vars, NEW x \in Procs
    PROVE  OpOK(op'[x])
<1>1. op \in [Procs -> Op] /\ OpOK(op[x])
    BY DEF Base, TypeOK
<1>2. QED  BY <1>1, Moves, ContinueOK, BeginOK, IdleOK DEF Procs

LEMMA BaseStep ==
    ASSUME Base, [Next]_vars
    PROVE  Base'
BY OpTyped, LedgerTyped, QueueStep, MovesOK, OpOKStays DEF Base, TypeOK, Procs

LEMMA BaseInit ==
    ASSUME Init
    PROVE  Base
BY IdleIsOp, IdleOK DEF Init, Base, TypeOK, QueueOK, ProposalDraft, NoDraft, Actions

-----------------------------------------------------------------------------
(* Entering and leaving durable memory. *)

\* A claim enters it as a row of a trusted source, or after a gate saw its trust.
LEMMA Entering ==
    ASSUME Base, [Next]_vars, NEW c \in Claims, ~Durable(c), Durable(c)'
    PROVE  \/ ~Exists(c) /\ source'[c] # "cloud_draft"
           \/ Exists(c) /\ Trusted(c)
<1> USE DEF Base, TypeOK, Durable, Exists
<1>1. CASE InsertClaim
    BY <1>1, ClaimDraftsValid DEF InsertClaim, ValidClaim, DurableStates
<1>2. ASSUME NEW p \in Procs, WriteLongTerm(p) \/ WriteSemantic(p)
      PROVE  Exists(c) /\ Trusted(c)
    <2>1. c = op[p].claim
        BY <1>2 DEF WriteLongTerm, WriteSemantic
    <2>2. OpOK(op[p]) /\ op[p].pc \in {"write_long_term", "write_semantic"}
        BY <1>2 DEF WriteLongTerm, WriteSemantic
    <2>3. QED  BY <2>1, <2>2 DEF OpOK, Grounded, SawTrust, AtClaim
<1>3. ASSUME NEW p \in Procs, MarkCorrected(p)
      PROVE  ~Durable(c)'
    BY <1>3 DEF MarkCorrected, DurableStates
<1>4. ASSUME NEW p \in Procs, DecayClaim(p)
      PROVE  ~Durable(c)'
    <2>1. ValidProposal(draft[op[p].prop]) /\ draft[op[p].prop].action = "decay"
        BY <1>4 DEF DecayClaim, QueueOK, OpOK, Grounded, OnBranch, AtProposal
    <2>2. draft[op[p].prop].target \notin DurableStates
        BY <2>1 DEF ValidProposal, GoneStates, DurableStates
    <2>3. QED  BY <1>4, <2>2 DEF DecayClaim
<1>5. ASSUME UNCHANGED state
      PROVE  ~Durable(c)'
    BY <1>5
<1>6. QED
    BY Writes, <1>1, <1>2, <1>3, <1>4, <1>5
    DEF InsertProposal, SetStatus, vars, ledger, queue, RecordVerdict, Mark

LEMMA DurableStep ==
    ASSUME Base, DurableNeedsTrust, [Next]_vars
    PROVE  DurableNeedsTrust'
<1> SUFFICES ASSUME NEW c \in Claims, Durable(c)'
             PROVE  Vetted(c)'
    BY DEF DurableNeedsTrust
<1>1. CASE Durable(c)
    BY <1>1, GrowsStep DEF DurableNeedsTrust, Vetted, Grows, Durable, DurableStates, Exists
<1>2. CASE ~Durable(c)
    BY <1>2, Entering, TrustStays DEF Vetted, Trusted
<1>3. QED  BY <1>1, <1>2

-----------------------------------------------------------------------------
(* Theorems. *)

\* Every step of every process, crashes included, keeps the rows and the
\* programs well formed.
THEOREM TypeCorrect == Spec => []TypeOK
<1>1. Init => Base
    BY BaseInit
<1>2. Base /\ [Next]_vars => Base'
    BY BaseStep
<1>3. Base => TypeOK
    BY DEF Base
<1>4. QED  BY <1>1, <1>2, <1>3, PTL DEF Spec

\* README "Trust Boundary", promote_claim_to_state: no cloud draft is durable
\* memory before it was confirmed.
THEOREM TrustBoundary == Spec => []DurableNeedsTrust
<1>1. Init => Base /\ DurableNeedsTrust
    BY BaseInit DEF Init, DurableNeedsTrust, Durable, DurableStates
<1>2. Base /\ DurableNeedsTrust /\ [Next]_vars => Base' /\ DurableNeedsTrust'
    BY BaseStep, DurableStep
<1>3. QED  BY <1>1, <1>2, PTL DEF Spec

\* The ledger implements DurableMemory: its durable claims are vetted when they
\* enter, leave one at a time, and stay vetted.
LEMMA RefinementStep ==
    ASSUME Base, [Next]_vars
    PROVE  [DM!Next]_(DM!vars)
<1> DEFINE V == {c \in Claims : Exists(c) /\ Vetted(c)}
           D == {c \in Claims : Durable(c)}
<1> USE DEF Base, TypeOK, DM!vars
<1>1. CASE InsertClaim
    <2>1. PICK c \in Claims, d \in ClaimDrafts :
            /\ ~Exists(c)
            /\ source' = [source EXCEPT ![c] = d[1]]
            /\ state' = [state EXCEPT ![c] = d[2]]
            /\ verdicts' = verdicts
        BY <1>1 DEF InsertClaim
    <2>2. \A x \in Claims : x # c => /\ Exists(x)' <=> Exists(x)
                                     /\ Vetted(x)' <=> Vetted(x)
                                     /\ Durable(x)' <=> Durable(x)
        BY <2>1 DEF Exists, Vetted, Durable
    <2>3. c \notin V /\ c \notin D /\ Exists(c)'
        BY <2>1, ClaimDraftsValid DEF Exists, Durable, DurableStates, LifecycleStates
    <2>4. Durable(c)' => Vetted(c)'
        BY <2>1, ClaimDraftsValid DEF ValidClaim, Durable, Vetted, DurableStates
    <2>5. CASE Durable(c)'
        <3>1. V' = V \cup {c} /\ D' = D \cup {c}
            BY <2>2, <2>3, <2>4, <2>5
        <3>2. QED  BY <3>1 DEF DM!Next, DM!Admit
    <2>6. CASE ~Durable(c)' /\ Vetted(c)'
        <3>1. V' = V \cup {c} /\ D' = D
            BY <2>2, <2>3, <2>6
        <3>2. QED  BY <3>1 DEF DM!Next, DM!Vet
    <2>7. CASE ~Durable(c)' /\ ~Vetted(c)'
        <3>1. V' = V /\ D' = D
            BY <2>2, <2>3, <2>7
        <3>2. QED  BY <3>1
    <2>8. QED  BY <2>4, <2>5, <2>6, <2>7
<1>2. ASSUME UNCHANGED ledger
      PROVE  UNCHANGED DM!vars
    BY <1>2 DEF ledger, Exists, Vetted, Durable
<1>3. ASSUME NEW p \in Procs, RecordVerdict(p)
      PROVE  [DM!Next]_(DM!vars)
    <2>1. PICK c \in Claims : /\ Exists(c)
                             /\ verdicts' = [verdicts EXCEPT ![c] = @ \cup {op[p].verdict}]
                             /\ UNCHANGED <<source, state>>
        BY <1>3 DEF RecordVerdict, WithVerdict, OpOK, Grounded, Op
    <2>2. D' = D
        BY <2>1 DEF Durable
    <2>3. V' = V \cup {c} \/ V' = V
        BY <2>1 DEF Exists, Vetted
    <2>4. QED  BY <2>2, <2>3 DEF DM!Next, DM!Vet
<1>4. ASSUME NEW p \in Procs, WriteLongTerm(p) \/ WriteSemantic(p)
      PROVE  [DM!Next]_(DM!vars)
    <2>1. OpOK(op[p]) /\ op[p].pc \in {"write_long_term", "write_semantic"}
        BY <1>4 DEF WriteLongTerm, WriteSemantic
    <2>2. PICK c \in Claims : Exists(c) /\ Trusted(c) /\ c = op[p].claim
        BY <2>1 DEF OpOK, Grounded, SawTrust, AtClaim
    <2>3. PICK s \in DurableStates : /\ state' = [state EXCEPT ![c] = s]
                                    /\ UNCHANGED <<source, verdicts>>
        BY <1>4, <2>2 DEF WriteLongTerm, WriteSemantic, DurableStates
    <2>4. V' = V
        BY <2>2, <2>3 DEF Exists, Vetted, DurableStates
    <2>5. D' = D \cup {c}
        BY <2>3 DEF Durable
    <2>6. c \in V
        BY <2>2 DEF Trusted, Vetted
    <2>7. QED  BY <2>4, <2>5, <2>6 DEF DM!Next, DM!Promote
<1>5. ASSUME NEW p \in Procs, MarkCorrected(p) \/ DecayClaim(p), ~UNCHANGED ledger
      PROVE  [DM!Next]_(DM!vars)
    <2>1. op[p].pc = "decay" => draft[op[p].prop].target \in GoneStates
        BY DEF QueueOK, OpOK, Grounded, OnBranch, AtProposal, ValidProposal
    <2>2. \A c \in op[p].todo : c \in Claims /\ Exists(c)
        BY DEF Op, OpOK, Grounded
    <2>3. op[p].pc = "correct" => op[p].claim \in Claims /\ Exists(op[p].claim)
        BY DEF OpOK, Grounded, AtClaim
    <2>4. PICK c \in Claims, s \in GoneStates \cup {"corrected"} :
            /\ Exists(c)
            /\ state' = [state EXCEPT ![c] = s]
            /\ UNCHANGED <<source, verdicts>>
        BY <1>5, <2>1, <2>2, <2>3 DEF MarkCorrected, DecayClaim, ledger
    <2>5. V' = V
        BY <2>4 DEF Exists, Vetted, GoneStates
    <2>6. D' = D \ {c}
        BY <2>4 DEF Durable, DurableStates, GoneStates
    <2>7. QED  BY <2>5, <2>6 DEF DM!Next, DM!Retire
<1>6. QED
    BY Writes, <1>1, <1>2, <1>3, <1>4, <1>5
    DEF InsertProposal, SetStatus, vars, ledger, Mark

\* The whole promise of DurableMemory, for every number of claims and processes.
THEOREM ImplementsDurableMemory == Spec => Refinement
<1>1. Init => DM!Init
    BY DEF Init, DM!Init, Exists, Durable, DurableStates
<1>2. Init => Base
    BY BaseInit
<1>3. Base /\ [Next]_vars => Base' /\ [DM!Next]_(DM!vars)
    BY BaseStep, RefinementStep
<1>4. QED  BY <1>1, <1>2, <1>3, PTL DEF Spec, Refinement, DM!Spec

-----------------------------------------------------------------------------
(* Destruction. *)

\* n asks for no more than o did, and is not at the decay loop unasked.
NoMore(o, n) ==
    /\ n.destructive => o.destructive
    /\ n.pc = "decay" => n.destructive

LEMMA GotoAsked ==
    ASSUME NEW p \in Procs, op \in [Procs -> Op]
    PROVE  /\ Step(p, Idle) => NoMore(op[p], op'[p])
           /\ \A pc \in PCs \ {"decay"} : Goto(p, pc) => NoMore(op[p], op'[p])
           /\ \A pc \in PCs \ {"decay"} : Return(p, pc) => NoMore(op[p], op'[p])
           /\ \A s \in OpenStatus \cup ClosedStatus : MarkAs(p, s) => NoMore(op[p], op'[p])
           /\ AfterProposal(p) => NoMore(op[p], op'[p])
<1>0. op[p] \in Op
    OBVIOUS
<1> USE DEF NoMore
<1>1. ASSUME op'[p] = Idle
      PROVE  NoMore(op[p], op'[p])
    BY <1>1 DEF Idle
<1>2. ASSUME NEW pc \in PCs \ {"decay"}, op'[p] = [op[p] EXCEPT !.pc = pc]
      PROVE  NoMore(op[p], op'[p])
    BY <1>0, <1>2 DEF Op
<1>3. ASSUME NEW pc \in PCs \ {"decay"}, op'[p] = [op[p] EXCEPT !.pc = pc, !.claim = NoClaim]
      PROVE  NoMore(op[p], op'[p])
    BY <1>0, <1>3 DEF Op
<1>4. ASSUME NEW s \in OpenStatus \cup ClosedStatus,
             op'[p] = [op[p] EXCEPT !.pc = "mark", !.outcome = s]
      PROVE  NoMore(op[p], op'[p])
    BY <1>0, <1>4 DEF Op
<1>5. ASSUME op'[p] = [op[p] EXCEPT !.pc = "drain", !.prop = NoProposal, !.outcome = "none"]
      PROVE  NoMore(op[p], op'[p])
    BY <1>0, <1>5 DEF Op
<1>6. QED
    BY <1>1, <1>2, <1>3, <1>4, <1>5 DEF Goto, Return, MarkAs, AfterProposal, Step

LEMMA ContinueAsked ==
    ASSUME Base, Asked, NEW p \in Procs, Continue(p)
    PROVE  NoMore(op[p], op'[p])
<1>0. /\ op \in [Procs -> Op]
      /\ op[p] \in Op
      /\ op[p].pc = "decay" => op[p].destructive
    BY DEF Base, TypeOK, Asked
<1>1. CASE RecordVerdict(p)
    <2>1. PICK c \in op[p].todo :
            \/ op'[p] = [op[p] EXCEPT !.pc = "correct", !.claim = c, !.todo = @ \ {c}]
            \/ op'[p] = [op[p] EXCEPT !.todo = @ \ {c}]
        BY <1>0, <1>1 DEF RecordVerdict, Step
    <2>2. QED  BY <1>0, <2>1 DEF NoMore, Op
<1>2. CASE VerifyDone(p)
    <2>1. \/ op'[p] = Idle
          \/ op'[p] = [Idle EXCEPT !.pc = "apply", !.prop = op[p].prop,
                                   !.destructive = op[p].destructive]
        BY <1>0, <1>2 DEF VerifyDone, Step
    <2>2. CASE op'[p] = Idle
        BY <2>2 DEF NoMore, Idle
    <2>3. CASE op'[p] = [Idle EXCEPT !.pc = "apply", !.prop = op[p].prop,
                                     !.destructive = op[p].destructive]
        BY <2>3 DEF NoMore, Idle
    <2>4. QED  BY <2>1, <2>2, <2>3
<1>3. CASE DrainNext(p)
    <2>1. \/ op'[p] = Idle
          \/ \E row \in op[p].batch :
               \/ op'[p] = [op[p] EXCEPT !.batch = @ \ {row}, !.prop = row[1], !.pc = "apply"]
               \/ op'[p] = [op[p] EXCEPT !.batch = @ \ {row}]
        BY <1>0, <1>3 DEF DrainNext, Step
    <2>2. CASE op'[p] = Idle
        BY <2>2 DEF NoMore, Idle
    <2>3. ASSUME NEW row \in op[p].batch,
                 \/ op'[p] = [op[p] EXCEPT !.batch = @ \ {row}, !.prop = row[1], !.pc = "apply"]
                 \/ op'[p] = [op[p] EXCEPT !.batch = @ \ {row}]
          PROVE  NoMore(op[p], op'[p])
        BY <1>0, <2>3 DEF NoMore, Op
    <2>4. QED  BY <2>1, <2>2, <2>3
<1>4. CASE Dispatch(p)
    <2>1. CASE /\ op[p].destructive
               /\ op'[p] = [op[p] EXCEPT !.pc = "decay", !.todo = draft[op[p].prop].claims]
        BY <1>0, <2>1 DEF NoMore, Op
    <2>2. CASE \/ Goto(p, "support") \/ Goto(p, "trust") \/ AfterProposal(p) \/ Step(p, Idle)
               \/ MarkAs(p, "waiting_verification") \/ MarkAs(p, "applied")
        BY <1>0, <2>2, GotoAsked DEF PCs, OpenStatus, ClosedStatus
    <2>3. QED  BY <1>0, <1>4, <2>1, <2>2 DEF Dispatch, DecayAllowed, Step
<1>5. CASE TrustGate(p)
    <2>1. CASE op'[p] = [op[p] EXCEPT !.pc = "promote", !.todo = draft[op[p].prop].claims]
        BY <1>0, <2>1 DEF NoMore, Op
    <2>2. CASE MarkAs(p, "waiting_verification")
        BY <1>0, <2>2, GotoAsked DEF OpenStatus
    <2>3. QED  BY <1>0, <1>5, <2>1, <2>2 DEF TrustGate, Step
<1>6. CASE ReadClaim(p)
    <2>1. CASE \E c \in op[p].todo :
                \/ op'[p] = [op[p] EXCEPT !.todo = @ \ {c}]
                \/ op'[p] = [op[p] EXCEPT !.todo = @ \ {c}, !.claim = c, !.pc = "semantic"]
                \/ op'[p] = [op[p] EXCEPT !.todo = @ \ {c}, !.claim = c, !.pc = "long_term"]
        BY <1>0, <1>6, <2>1 DEF ReadClaim, NoMore, Op
    <2>2. CASE MarkAs(p, "applied")
        BY <1>0, <2>2, GotoAsked DEF ClosedStatus
    <2>3. QED  BY <1>0, <1>6, <2>1, <2>2 DEF ReadClaim, Step
<1>7. CASE DecayClaim(p)
    <2>1. CASE \E c \in op[p].todo : op'[p] = [op[p] EXCEPT !.todo = @ \ {c}]
        BY <1>0, <2>1 DEF NoMore, Op
    <2>2. CASE MarkAs(p, "applied")
        BY <1>0, <2>2, GotoAsked DEF ClosedStatus
    <2>3. QED  BY <1>0, <1>7, <2>1, <2>2 DEF DecayClaim, Step
<1>8. CASE MarkCorrected(p) \/ SupportGate(p) \/ CheckLongTerm(p) \/ WriteLongTerm(p)
             \/ CheckSemantic(p) \/ WriteSemantic(p) \/ Mark(p)
    BY <1>0, <1>8, GotoAsked
    DEF MarkCorrected, SupportGate, CheckLongTerm, WriteLongTerm, CheckSemantic,
        WriteSemantic, Mark, PCs, ClosedStatus
<1>9. QED
    BY <1>1, <1>2, <1>3, <1>4, <1>5, <1>6, <1>7, <1>8 DEF Continue

\* No operation starts at the decay loop.
LEMMA BeginAsked ==
    ASSUME NEW p \in Procs, op \in [Procs -> Op],
           (p \in Operators /\ Begin(p)) \/ BeginDrain(p)
    PROVE  /\ op'[p].pc # "decay"
           /\ op'[p].destructive => p \in Operators
<1>1. CASE p \in Operators /\ BeginVerify(p)
    <2>1. ASSUME NEW v, NEW c,
                 Step(p, [Idle EXCEPT !.pc = "verify", !.todo = {c}, !.verdict = v])
          PROVE  op'[p].pc # "decay"
        BY <2>1 DEF Step, Idle
    <2>2. ASSUME NEW v, NEW q, NEW apply, NEW destr,
                 Step(p, [Idle EXCEPT !.pc = "verify", !.prop = q, !.verdict = v,
                                      !.todo = VerificationTargets(q, v),
                                      !.thenApply = apply, !.destructive = destr])
          PROVE  op'[p].pc # "decay"
        BY <2>2 DEF Step, Idle
    <2>3. op'[p].pc # "decay"
        BY <1>1, <2>1, <2>2, Zenon DEF BeginVerify
    <2>4. QED  BY <1>1, <2>3
<1>2. CASE p \in Operators /\ BeginCorrection(p)
    <2>1. PICK S : op'[p] = [Idle EXCEPT !.pc = "verify", !.todo = S, !.verdict = "superseded"]
        BY <1>2 DEF BeginCorrection, Step
    <2>2. QED  BY <1>2, <2>1 DEF Idle
<1>3. CASE p \in Operators /\ BeginApply(p)
    <2>1. PICK q \in Proposals, destr \in BOOLEAN :
            op'[p] = [Idle EXCEPT !.pc = "apply", !.prop = q, !.destructive = destr]
        BY <1>3 DEF BeginApply, Step
    <2>2. QED  BY <1>3, <2>1 DEF Idle
<1>4. CASE BeginDrain(p)
    <2>1. PICK decay \in BOOLEAN, noops \in BOOLEAN :
            /\ p \in Residents => ~decay
            /\ op'[p] = [Idle EXCEPT !.pc = "drain", !.batch = FirstOpen, !.draining = TRUE,
                                     !.destructive = decay, !.noops = noops]
        BY <1>4 DEF BeginDrain, Step
    <2>2. op'[p].pc = "drain" /\ op'[p].destructive = decay
        BY <2>1 DEF Idle
    <2>3. QED  BY <2>1, <2>2 DEF Procs
<1>5. QED  BY <1>1, <1>2, <1>3, <1>4 DEF Begin

LEMMA AskedStep ==
    ASSUME Base, Asked, [Next]_vars
    PROVE  Asked'
<1> SUFFICES ASSUME NEW x \in Procs
             PROVE  /\ op'[x].pc = "decay" => op'[x].destructive
                    /\ op'[x].destructive => x \in Operators
    BY DEF Asked
<1>0. op \in [Procs -> Op]
    BY DEF Base, TypeOK
<1>1. CASE op'[x] = op[x]
    BY <1>1 DEF Asked
<1>2. CASE op'[x] = Idle
    BY <1>2 DEF Idle
<1>3. CASE Continue(x)
    BY <1>3, ContinueAsked DEF NoMore, Asked
<1>4. CASE x \in Operators /\ Begin(x)
    BY <1>0, <1>4, BeginAsked
<1>5. CASE BeginDrain(x)
    BY <1>0, <1>5, BeginAsked
<1>6. QED  BY <1>0, <1>1, <1>2, <1>3, <1>4, <1>5, Moves

\* Decay and forgetting are never the slow loop's doing, nor anyone's by default.
THEOREM DestructionIsAsked == Spec => DecayIsConfirmed
<1> DEFINE Confirmed ==
        \A c \in Claims :
            Exists(c) /\ state'[c] \in GoneStates /\ state'[c] # state[c]
                => \E p \in Operators : op[p].pc = "decay" /\ op[p].destructive
<1>1. Init => Base /\ Asked
    BY BaseInit DEF Init, Asked, Idle
<1>2. Base /\ Asked /\ [Next]_vars => Base' /\ Asked'
    BY BaseStep, AskedStep
<1>3. ASSUME Base, Asked, [Next]_vars
      PROVE  [Confirmed]_vars
    <2> SUFFICES ASSUME NEW c \in Claims, Exists(c),
                        state'[c] \in GoneStates, state'[c] # state[c]
                 PROVE  \E p \in Operators : op[p].pc = "decay" /\ op[p].destructive
        OBVIOUS
    <2>0. state \in [Claims -> LifecycleStates \cup {"absent"}]
        BY <1>3 DEF Base, TypeOK
    <2>1. PICK p \in Procs : DecayClaim(p)
        BY <1>3, <2>0, Writes
        DEF InsertClaim, InsertProposal, SetStatus, vars, ledger, RecordVerdict,
            MarkCorrected, WriteLongTerm, WriteSemantic, Mark, GoneStates, Exists
    <2>2. QED  BY <1>3, <2>1 DEF DecayClaim, Asked
<1>4. QED  BY <1>1, <1>2, <1>3, PTL DEF Spec, DecayIsConfirmed

-----------------------------------------------------------------------------
(* Applied promotions. *)

\* A claim leaves durable memory with a record of why, and records stay.
LEMMA AccountedStays ==
    ASSUME Base, AllDone, [Next]_vars, NEW c \in Claims, Accounted(c)
    PROVE  Accounted(c)'
<1> USE DEF Base, TypeOK
<1>1. CASE HasCorrecting(c)
    BY <1>1, GrowsStep DEF Grows, HasCorrecting, Accounted
<1>2. CASE \E q \in Proposals :
             status[q] # "absent" /\ draft[q].action = "decay" /\ c \in draft[q].claims
    BY <1>2, GrowsStep DEF Grows, Accounted
<1>3. CASE Durable(c) /\ ~Accounted(c)'
    <2>0. state'[c] # state[c]
        BY <1>3 DEF Durable, Accounted
    <2>1. ASSUME NEW p \in Procs, MarkCorrected(p)
          PROVE  HasCorrecting(c)
        BY <2>0, <2>1 DEF MarkCorrected
    <2>2. ASSUME NEW p \in Procs, DecayClaim(p)
          PROVE  \E q \in Proposals : /\ status[q] # "absent"
                                     /\ draft[q].action = "decay"
                                     /\ c \in draft[q].claims
        <3>1. c \in op[p].todo /\ op[p].pc = "decay"
            BY <2>0, <2>2 DEF DecayClaim
        <3>2. OpOK(op[p]) /\ Done(op[p])
            BY DEF AllDone
        <3>3. QED  BY <3>1, <3>2 DEF OpOK, Grounded, OnBranch, Done, AtProposal
    <2>3. ASSUME NEW p \in Procs, WriteLongTerm(p) \/ WriteSemantic(p)
          PROVE  FALSE
        BY <1>3, <2>0, <2>3 DEF WriteLongTerm, WriteSemantic, Durable, DurableStates, Accounted
    <2>4. ~InsertClaim
        BY <1>3, <2>0 DEF InsertClaim, Durable, DurableStates, Exists
    <2>5. QED
        BY <1>1, <1>2, <2>0, <2>1, <2>2, <2>3, <2>4, Writes
        DEF InsertProposal, SetStatus, vars, ledger, RecordVerdict, Mark
<1>4. QED  BY <1>1, <1>2, <1>3 DEF Accounted

LEMMA DoneStays ==
    ASSUME Base, AllDone, [Next]_vars, NEW p \in Procs, OpOK(op'[p]), Done(op'[p])
    PROVE  Done(op[p])'
<1>1. op'[p].pc \in AtProposal => /\ draft'[op'[p].prop] = draft[op'[p].prop]
                                 /\ draft[op'[p].prop].claims \subseteq Claims
    BY GrowsStep DEF Grows, OpOK, Grounded, Base, TypeOK, ProposalDraft
<1>2. QED  BY <1>1, AccountedStays DEF Done, AtProposal, AtPromotion

LEMMA IdleDone == Done(Idle)
BY DEF Done, Idle, AtPromotion, AtClaim

LEMMA GotoDone ==
    ASSUME NEW p \in Procs, op \in [Procs -> Op]
    PROVE  /\ Step(p, Idle) => Done(op'[p])
           /\ \A pc \in {"support", "trust", "verify"} :
                 Goto(p, pc) \/ Return(p, pc) => Done(op'[p])
           /\ \A s \in {"waiting_verification", "rejected"} : MarkAs(p, s) => Done(op'[p])
           /\ AfterProposal(p) => Done(op'[p])
<1>0. op[p] \in Op
    OBVIOUS
<1> USE DEF Done, AtPromotion, AtClaim
<1>1. ASSUME NEW pc \in {"support", "trust", "verify"}, op'[p] = [op[p] EXCEPT !.pc = pc]
      PROVE  Done(op'[p])
    BY <1>0, <1>1 DEF Op
<1>2. ASSUME NEW pc \in {"support", "trust", "verify"},
             op'[p] = [op[p] EXCEPT !.pc = pc, !.claim = NoClaim]
      PROVE  Done(op'[p])
    BY <1>0, <1>2 DEF Op
<1>3. ASSUME NEW s \in {"waiting_verification", "rejected"},
             op'[p] = [op[p] EXCEPT !.pc = "mark", !.outcome = s]
      PROVE  Done(op'[p])
    BY <1>0, <1>3 DEF Op
<1>4. ASSUME op'[p] = [op[p] EXCEPT !.pc = "drain", !.prop = NoProposal, !.outcome = "none"]
      PROVE  Done(op'[p])
    BY <1>0, <1>4 DEF Op
<1>5. QED
    BY <1>1, <1>2, <1>3, <1>4, IdleDone DEF Goto, Return, MarkAs, AfterProposal, Step

\* Points a process reaches without having written a claim.
LEMMA ContinueDone ==
    ASSUME Base, AllDone, NEW p \in Procs, Continue(p),
           ~WriteLongTerm(p), ~WriteSemantic(p)
    PROVE  Done(op'[p])
<1>0. /\ op \in [Procs -> Op]
      /\ op[p] \in Op /\ OpOK(op[p]) /\ Done(op[p])
    BY DEF Base, TypeOK, AllDone
<1>1. CASE RecordVerdict(p)
    <2>1. PICK c \in op[p].todo :
            \/ op'[p] = [op[p] EXCEPT !.pc = "correct", !.claim = c, !.todo = @ \ {c}]
            \/ op'[p] = [op[p] EXCEPT !.todo = @ \ {c}]
        BY <1>0, <1>1 DEF RecordVerdict, Step
    <2>2. op'[p].pc \in {"correct", "verify"}
        BY <1>0, <1>1, <2>1 DEF RecordVerdict, Op
    <2>3. QED  BY <2>2 DEF Done, AtPromotion, AtClaim
<1>2. CASE VerifyDone(p)
    <2>1. CASE op'[p] = Idle
        BY <2>1, IdleDone
    <2>2. CASE op'[p] = [Idle EXCEPT !.pc = "apply", !.prop = op[p].prop,
                                     !.destructive = op[p].destructive]
        BY <2>2 DEF Idle, Done, AtPromotion, AtClaim
    <2>3. QED  BY <1>0, <1>2, <2>1, <2>2 DEF VerifyDone, Step
<1>3. CASE DrainNext(p)
    <2>1. CASE op'[p] = Idle
        BY <2>1, IdleDone
    <2>2. ASSUME NEW row \in op[p].batch, op[p].pc = "drain",
                 \/ op'[p] = [op[p] EXCEPT !.batch = @ \ {row}, !.prop = row[1], !.pc = "apply"]
                 \/ op'[p] = [op[p] EXCEPT !.batch = @ \ {row}]
          PROVE  Done(op'[p])
        <3>1. op'[p].pc \in {"apply", "drain"}
            BY <1>0, <2>2 DEF Op
        <3>2. QED  BY <3>1 DEF Done, AtPromotion, AtClaim
    <2>3. CASE op[p].batch = {}
        BY <1>0, <1>3, <2>1, <2>3 DEF DrainNext, Step
    <2>4. QED  BY <1>0, <1>3, <2>1, <2>2 DEF DrainNext, Step
<1>4. CASE Dispatch(p)
    <2>1. CASE op'[p] = [op[p] EXCEPT !.pc = "decay", !.todo = draft[op[p].prop].claims]
        BY <1>0, <2>1 DEF Op, Done, AtPromotion, AtClaim
    <2>2. CASE /\ draft[op[p].prop].action \in {"create_candidate", "noop"}
               /\ op'[p] = [op[p] EXCEPT !.pc = "mark", !.outcome = "applied"]
        BY <1>0, <2>2 DEF Op, Done, AtPromotion, AtClaim
    <2>3. CASE \/ Goto(p, "support") \/ Goto(p, "trust") \/ AfterProposal(p) \/ Step(p, Idle)
               \/ MarkAs(p, "waiting_verification")
        BY <1>0, <2>3, GotoDone
    <2>4. QED  BY <1>0, <1>4, <2>1, <2>2, <2>3 DEF Dispatch, MarkAs, Step
<1>5. CASE TrustGate(p)
    <2>1. CASE op'[p] = [op[p] EXCEPT !.pc = "promote", !.todo = draft[op[p].prop].claims]
        BY <1>0, <2>1 DEF Op, Done, AtPromotion, AtClaim
    <2>2. CASE MarkAs(p, "waiting_verification")
        BY <1>0, <2>2, GotoDone
    <2>3. QED  BY <1>0, <1>5, <2>1, <2>2 DEF TrustGate, Step
<1>6. CASE ReadClaim(p)
    <2>0. op[p].pc = "promote"
        BY <1>6 DEF ReadClaim
    <2>1. CASE op[p].todo = {} /\ op'[p] = [op[p] EXCEPT !.pc = "mark", !.outcome = "applied"]
        <3>1. op'[p].prop = op[p].prop /\ op'[p].pc = "mark"
            BY <1>0, <2>1 DEF Op
        <3>2. QED  BY <1>0, <2>0, <2>1, <3>1 DEF Done, AtPromotion, AtClaim
    <2>2. ASSUME NEW c \in op[p].todo, Durable(c), op'[p] = [op[p] EXCEPT !.todo = @ \ {c}]
          PROVE  Done(op'[p])
        <3>1. /\ op'[p].prop = op[p].prop /\ op'[p].pc = "promote"
              /\ op'[p].todo = op[p].todo \ {c}
            BY <1>0, <2>0, <2>2 DEF Op
        <3>2. QED  BY <1>0, <2>0, <2>2, <3>1 DEF Done, AtPromotion, AtClaim, Accounted
    <2>3. ASSUME NEW c \in op[p].todo,
                 \/ op'[p] = [op[p] EXCEPT !.todo = @ \ {c}, !.claim = c, !.pc = "semantic"]
                 \/ op'[p] = [op[p] EXCEPT !.todo = @ \ {c}, !.claim = c, !.pc = "long_term"]
          PROVE  Done(op'[p])
        <3>1. /\ op'[p].prop = op[p].prop /\ op'[p].pc \in {"semantic", "long_term"}
              /\ op'[p].todo = op[p].todo \ {c} /\ op'[p].claim = c
            BY <1>0, <2>3 DEF Op
        <3>2. QED  BY <1>0, <2>0, <3>1 DEF Done, AtPromotion, AtClaim
    <2>4. \A c : Settled(c, draft[op[p].prop].target) => Durable(c)
        BY DEF Settled, Durable, DurableStates
    <2>5. QED  BY <1>0, <1>6, <2>1, <2>2, <2>3, <2>4 DEF ReadClaim, MarkAs, Step
<1>7. CASE CheckLongTerm(p) \/ CheckSemantic(p)
    <2>1. CASE op'[p] = Idle
        BY <2>1, IdleDone
    <2>2. ASSUME op[p].pc \in AtPromotion,
                 \/ op'[p] = [op[p] EXCEPT !.pc = "write_long_term"]
                 \/ op'[p] = [op[p] EXCEPT !.pc = "write_semantic"]
          PROVE  Done(op'[p])
        <3>1. /\ op'[p].prop = op[p].prop /\ op'[p].todo = op[p].todo
              /\ op'[p].claim = op[p].claim
              /\ op'[p].pc \in {"write_long_term", "write_semantic"}
            BY <1>0, <2>2 DEF Op
        <3>2. QED  BY <1>0, <2>2, <3>1 DEF Done, AtPromotion, AtClaim
    <2>3. QED
        BY <1>0, <1>7, <2>1, <2>2
        DEF CheckLongTerm, CheckSemantic, Goto, Step, AtPromotion, AtClaim
<1>8. CASE DecayClaim(p)
    <2>0. op[p].pc = "decay" /\ draft[op[p].prop].action = "decay"
        BY <1>0, <1>8 DEF DecayClaim, OpOK, OnBranch
    <2>1. CASE op'[p] = [op[p] EXCEPT !.pc = "mark", !.outcome = "applied"]
        <3>1. op'[p].prop = op[p].prop /\ op'[p].pc = "mark"
            BY <1>0, <2>1 DEF Op
        <3>2. QED  BY <2>0, <3>1 DEF Done, AtPromotion, AtClaim
    <2>2. ASSUME NEW c \in op[p].todo, op'[p] = [op[p] EXCEPT !.todo = @ \ {c}]
          PROVE  Done(op'[p])
        <3>1. /\ op'[p].prop = op[p].prop /\ op'[p].pc = "decay"
              /\ op'[p].todo = op[p].todo \ {c}
            BY <1>0, <2>0, <2>2 DEF Op
        <3>2. QED  BY <1>0, <2>0, <3>1 DEF Done, AtPromotion, AtClaim
    <2>3. QED  BY <1>0, <1>8, <2>1, <2>2 DEF DecayClaim, MarkAs, Step
<1>9. CASE MarkCorrected(p) \/ Mark(p)
    BY <1>0, <1>9, GotoDone DEF MarkCorrected, Mark
<1>10. CASE SupportGate(p)
    BY <1>0, <1>10, GotoDone DEF SupportGate
<1>11. QED
    BY <1>1, <1>2, <1>3, <1>4, <1>5, <1>6, <1>7, <1>8, <1>9, <1>10 DEF Continue

\* The claim a process writes is accounted for because it wrote it.
LEMMA WriteDone ==
    ASSUME Base, AllDone, [Next]_vars, NEW p \in Procs, WriteLongTerm(p) \/ WriteSemantic(p)
    PROVE  Done(op[p])'
<1>0. /\ op[p] \in Op /\ Done(op[p])
      /\ op \in [Procs -> Op] /\ state \in [Claims -> LifecycleStates \cup {"absent"}]
      /\ op[p].pc \in {"write_long_term", "write_semantic"}
      /\ op[p].claim \in Claims
      /\ op[p].prop \in Proposals /\ status[op[p].prop] # "absent"
      /\ draft[op[p].prop].claims \subseteq Claims
    BY DEF Base, TypeOK, AllDone, OpOK, Grounded, AtProposal, AtClaim, AtPromotion,
           ProposalDraft, WriteLongTerm, WriteSemantic
<1>1. draft'[op[p].prop] = draft[op[p].prop]
    BY <1>0, GrowsStep DEF Grows
<1>2. \A c \in Claims : c = op[p].claim => Accounted(c)'
    BY <1>0 DEF WriteLongTerm, WriteSemantic, Accounted, Durable, DurableStates
<1>3. \A c \in draft[op[p].prop].claims \ op[p].todo : Accounted(c)'
    <2>1. TAKE c \in draft[op[p].prop].claims \ op[p].todo
    <2>2. CASE c = op[p].claim
        BY <1>0, <1>2, <2>2
    <2>3. CASE c # op[p].claim
        BY <1>0, <2>3, AccountedStays DEF Done, AtPromotion, AtClaim
    <2>4. QED  BY <2>2, <2>3
<1>4. \/ op'[p] = [op[p] EXCEPT !.pc = "semantic"]
      \/ op'[p] = [op[p] EXCEPT !.pc = "promote", !.claim = NoClaim]
    BY <1>0 DEF WriteLongTerm, WriteSemantic, Goto, Return, Step
<1>5. /\ op'[p].prop = op[p].prop /\ op'[p].todo = op[p].todo
      /\ op'[p].pc \in {"semantic", "promote"}
    BY <1>0, <1>4 DEF Op
<1>6. QED  BY <1>1, <1>3, <1>5 DEF Done, AtPromotion, AtClaim

LEMMA BeginDone ==
    ASSUME op \in [Procs -> Op], NEW p \in Procs, BeginDrain(p) \/ Begin(p)
    PROVE  Done(op'[p])
<1>1. op'[p].pc \in {"verify", "apply", "drain"}
    <2>1. CASE BeginVerify(p)
        <3>1. ASSUME NEW v, NEW c,
                     Step(p, [Idle EXCEPT !.pc = "verify", !.todo = {c}, !.verdict = v])
              PROVE  op'[p].pc = "verify"
            BY <3>1 DEF Step, Idle
        <3>2. ASSUME NEW v, NEW q, NEW apply, NEW destr,
                     Step(p, [Idle EXCEPT !.pc = "verify", !.prop = q, !.verdict = v,
                                          !.todo = VerificationTargets(q, v),
                                          !.thenApply = apply, !.destructive = destr])
              PROVE  op'[p].pc = "verify"
            BY <3>2 DEF Step, Idle
        <3>3. op'[p].pc = "verify"
            BY <2>1, <3>1, <3>2, Zenon DEF BeginVerify
        <3>4. QED  BY <3>3
    <2>2. CASE BeginCorrection(p)
        BY <2>2 DEF BeginCorrection, Step, Idle
    <2>3. CASE BeginApply(p)
        <3>1. PICK q \in Proposals, destr \in BOOLEAN :
                op'[p] = [Idle EXCEPT !.pc = "apply", !.prop = q, !.destructive = destr]
            BY <2>3 DEF BeginApply, Step
        <3>2. QED  BY <3>1 DEF Idle
    <2>4. CASE BeginDrain(p)
        <3>1. PICK decay \in BOOLEAN, noops \in BOOLEAN :
                op'[p] = [Idle EXCEPT !.pc = "drain", !.batch = FirstOpen, !.draining = TRUE,
                                      !.destructive = decay, !.noops = noops]
            BY <2>4 DEF BeginDrain, Step
        <3>2. QED  BY <3>1 DEF Idle
    <2>5. QED  BY <2>1, <2>2, <2>3, <2>4 DEF Begin
<1>2. QED  BY <1>1 DEF Done, AtPromotion, AtClaim

LEMMA AllDoneStep ==
    ASSUME Base, AllDone, [Next]_vars
    PROVE  AllDone'
<1> SUFFICES ASSUME NEW x \in Procs
             PROVE  Done(op[x])'
    BY DEF AllDone
<1>0. op \in [Procs -> Op] /\ Done(op[x]) /\ OpOK(op'[x])
    BY MovesOK DEF Base, TypeOK, AllDone
<1>1. CASE WriteLongTerm(x) \/ WriteSemantic(x)
    BY <1>1, WriteDone
<1>2. CASE ~WriteLongTerm(x) /\ ~WriteSemantic(x)
    <2>1. Done(op'[x])
        BY <1>0, <1>2, Moves, ContinueDone, BeginDone, IdleDone DEF Procs
    <2>2. QED  BY <1>0, <2>1, DoneStays
<1>3. QED  BY <1>1, <1>2

LEMMA AppliedStep ==
    ASSUME Base, AllDone, AppliedPromotionsHold, [Next]_vars
    PROVE  AppliedPromotionsHold'
<1> SUFFICES ASSUME NEW q \in Proposals, status'[q] = "applied",
                    draft'[q].action = "propose_promotion", NEW c \in draft'[q].claims
             PROVE  Accounted(c)'
    BY DEF AppliedPromotionsHold
<1>0. status \in [Proposals -> OpenStatus \cup ClosedStatus \cup {"absent"}]
    BY DEF Base, TypeOK
<1>1. CASE status[q] # "absent"
    <2>1. draft'[q] = draft[q] /\ c \in Claims
        BY <1>1, GrowsStep DEF Grows, Base, TypeOK, ProposalDraft
    <2>2. CASE status[q] = "applied"
        BY <2>1, <2>2, AccountedStays DEF AppliedPromotionsHold
    <2>3. CASE status[q] # "applied"
        <3>1. PICK p \in Procs : Mark(p) /\ op[p].prop = q /\ op[p].outcome = "applied"
            BY <1>0, <1>1, <2>3, Writes, ReviewStatusesValid
            DEF InsertClaim, InsertProposal, SetStatus, vars, queue, RecordVerdict,
                MarkCorrected, WriteLongTerm, WriteSemantic, DecayClaim, Mark
        <3>2. Accounted(c)
            BY <2>1, <3>1 DEF AllDone, Done, Mark
        <3>3. QED  BY <2>1, <3>2, AccountedStays
    <2>4. QED  BY <2>2, <2>3
<1>2. CASE status[q] = "absent"
    <2>1. ASSUME NEW p \in Procs, Mark(p)
          PROVE  FALSE
        BY <1>0, <1>2, <2>1 DEF Mark, Base, OpOK, Grounded, AtProposal
    <2>2. QED
        BY <1>0, <1>2, <2>1, Writes, ReviewStatusesValid
        DEF InsertClaim, InsertProposal, SetStatus, vars, queue, RecordVerdict,
            MarkCorrected, WriteLongTerm, WriteSemantic, DecayClaim
<1>3. QED  BY <1>1, <1>2

\* apply_promotion_proposal: what is marked applied was promoted in full.
THEOREM AppliedIsComplete == Spec => []AppliedPromotionsHold
<1>1. Init => Base /\ AllDone /\ AppliedPromotionsHold
    BY BaseInit, IdleDone DEF Init, AllDone, AppliedPromotionsHold
<1>2. Base /\ AllDone /\ AppliedPromotionsHold /\ [Next]_vars
        => Base' /\ AllDone' /\ AppliedPromotionsHold'
    BY BaseStep, AllDoneStep, AppliedStep
<1>3. QED  BY <1>1, <1>2, PTL DEF Spec

=============================================================================
