---------------------------- MODULE ClaimLedger ----------------------------
(***************************************************************************)
(* The claim ledger: claim records, their verification events and the      *)
(* learning-critic proposals that move them through the lifecycle.         *)
(*                                                                         *)
(* Several processes share one SQLite store, each over a connection of its *)
(* own: CLI commands and the MCP server (Operators) and the slow loop of   *)
(* `soma start` (Residents).  No ledger operation opens a transaction:     *)
(* every statement commits by itself, so the operations are modelled       *)
(* statement by statement, the program of a process being kept in op[p].   *)
(* A process can stop between any two statements (Crash): it is killed, or *)
(* SQLite answers BUSY and the error ends the command.                     *)
(*                                                                         *)
(* Row contents the gates never read (text, confidence, evidence, times)   *)
(* are left out.  A claim's verification events are kept as the set of     *)
(* their results: rows are only ever added and the gates ask whether a row *)
(* with some result exists.  Every verifier type is accepted by the gates. *)
(***************************************************************************)
EXTENDS Naturals, FiniteSets

CONSTANTS
    Claims,         \* ids of claim_records rows
    Proposals,      \* ids of learning_critic_proposals rows, in creation order
    Operators,      \* CLI and MCP processes
    Residents,      \* slow loops
    ClaimDrafts,    \* <<source, state>> pairs the capture paths insert
    ProposalDrafts, \* proposals the critics and the operators insert
    Verdicts,       \* verification results that are recorded
    ReviewStatuses, \* statuses operators set by hand
    DrainLimit      \* rows one drain looks at

Procs == Operators \cup Residents

SourceTypes == {"cloud_draft", "user_confirmed", "tool_verified",
                "local_observed", "explicit_correction"}

LifecycleStates == {"captured", "working", "short_term_candidate",
                    "long_term_memory", "semantic_fact",
                    "corrected", "decayed", "forgotten"}

DurableStates == {"long_term_memory", "semantic_fact"}
GoneStates == {"decayed", "forgotten"}
ActiveStates == LifecycleStates \ (GoneStates \cup {"corrected"})

VerificationResults == {"confirmed", "contradicted", "superseded", "inconclusive"}
Correcting == {"contradicted", "superseded"}

Actions == {"create_candidate", "propose_promotion", "decay",
            "request_verification", "noop"}

OpenStatus == {"queued", "waiting_verification", "accepted"}
ClosedStatus == {"rejected", "applied"}

\* support: the L3 claims a semantic consolidation cites; none for other drafts.
ProposalDraft ==
    [action : Actions, target : LifecycleStates \cup {"none"},
     claims : SUBSET Claims, support : SUBSET Claims]

\* validate_claim_record_draft
ValidClaim(source, st) ==
    source = "cloud_draft" => st = "short_term_candidate"

\* validate_learning_critic_proposal
ValidProposal(d) ==
    CASE d.action = "create_candidate"     -> d.target = "short_term_candidate"
      [] d.action = "propose_promotion"    -> d.claims # {} /\ d.target \in DurableStates
      [] d.action = "decay"                -> d.claims # {} /\ d.target \in GoneStates
      [] d.action = "request_verification" -> d.claims # {} /\ d.target = "none"
      [] d.action = "noop"                 -> d.target = "none"

ASSUME ProposalIds == Proposals \subseteq Nat \ {0}
ASSUME Roles == Operators \cap Residents = {}
ASSUME ClaimDraftsValid ==
    /\ ClaimDrafts \subseteq SourceTypes \X LifecycleStates
    /\ \A d \in ClaimDrafts : ValidClaim(d[1], d[2])
ASSUME ProposalDraftsValid ==
    /\ ProposalDrafts \subseteq ProposalDraft
    /\ \A d \in ProposalDrafts : ValidProposal(d)
ASSUME VerdictsValid == Verdicts \subseteq VerificationResults
ASSUME ReviewStatusesValid ==
    ReviewStatuses \subseteq (OpenStatus \cup ClosedStatus) \ {"applied"}
ASSUME DrainLimitValid == DrainLimit \in Nat \ {0}

VARIABLES
    source,     \* source[c]: claim_records.source_type, or "absent"
    state,      \* state[c]: claim_records.lifecycle_state, or "absent"
    verdicts,   \* verdicts[c]: results in verification_events of c
    draft,      \* draft[q]: the immutable columns of proposal q, or NoDraft
    status,     \* status[q]: its status, or "absent"
    op          \* op[p]: where process p is in the operation it runs

ledger == <<source, state, verdicts>>
queue == <<draft, status>>
vars == <<source, state, verdicts, draft, status, op>>

NoDraft == [action |-> "noop", target |-> "none", claims |-> {}, support |-> {}]

PCs == {"idle", "verify", "correct", "drain", "apply", "support", "trust",
        "promote", "long_term", "write_long_term", "semantic", "write_semantic",
        "decay", "mark"}

NoProposal == 0
NoClaim == "none"

Op == [pc : PCs,
       prop : Proposals \cup {NoProposal},   \* proposal it works on
       claim : Claims \cup {NoClaim},        \* claim of the current statement
       todo : SUBSET Claims,                 \* claims still to be visited
       verdict : VerificationResults \cup {"none"},
       thenApply : BOOLEAN,                  \* confirm_and_apply
       destructive : BOOLEAN,                \* allow_destructive
       outcome : OpenStatus \cup ClosedStatus \cup {"none"},
       batch : SUBSET (Proposals \X OpenStatus), \* rows a drain has yet to consider
       draining : BOOLEAN,
       noops : BOOLEAN]                      \* include_noop of the drain

Idle == [pc |-> "idle", prop |-> NoProposal, claim |-> NoClaim, todo |-> {},
         verdict |-> "none", thenApply |-> FALSE, destructive |-> FALSE,
         outcome |-> "none", batch |-> {}, draining |-> FALSE, noops |-> FALSE]

TypeOK ==
    /\ source \in [Claims -> SourceTypes \cup {"absent"}]
    /\ state \in [Claims -> LifecycleStates \cup {"absent"}]
    /\ verdicts \in [Claims -> SUBSET VerificationResults]
    /\ draft \in [Proposals -> ProposalDraft]
    /\ status \in [Proposals -> OpenStatus \cup ClosedStatus \cup {"absent"}]
    /\ op \in [Procs -> Op]

-----------------------------------------------------------------------------
(* The gates. *)

Exists(c) == state[c] # "absent"
Durable(c) == state[c] \in DurableStates

\* Mutant: any verification event is taken for a confirmation.
TrustedByAnyEvent(c) == source[c] # "cloud_draft" \/ verdicts[c] # {}

\* claim_has_promotion_trust: a source other than the cloud, or any confirmation ever.
Trusted(c) == source[c] # "cloud_draft" \/ "confirmed" \in verdicts[c]

\* claim_has_correcting_verification
HasCorrecting(c) == verdicts[c] \cap Correcting # {}

Missing(q) == {c \in draft[q].claims : ~Trusted(c)}

\* invalid_semantic_learning_support_claim_ids
InvalidSupport(q) == {c \in draft[q].support : ~(Durable(c) /\ Trusted(c))}

Open(q) == status[q] \in OpenStatus

StatusRank(s) ==
    CASE s = "waiting_verification" -> 0
      [] s = "queued" -> 1
      [] OTHER -> 2

\* ORDER BY of open_learning_critic_proposals_scoped over rows <<id, status>>;
\* ids follow creation time.
Before(r, q) ==
    \/ StatusRank(r[2]) < StatusRank(q[2])
    \/ StatusRank(r[2]) = StatusRank(q[2]) /\ r[1] < q[1]

OpenRows == {<<q, status[q]>> : q \in {q \in Proposals : Open(q)}}

\* Mutant: the limit is off by one.
FirstOpenShort ==
    {q \in OpenRows : Cardinality({r \in OpenRows : Before(r, q)}) + 1 < DrainLimit}

\* The rows the LIMIT lets through.
FirstOpen ==
    {q \in OpenRows : Cardinality({r \in OpenRows : Before(r, q)}) < DrainLimit}

\* The claims a verification of proposal q is recorded for.
VerificationTargets(q, v) ==
    IF v = "confirmed" /\ draft[q].action = "propose_promotion"
    THEN Missing(q)
    ELSE draft[q].claims

\* apply_ready_decision.  diverse: the support spans enough projects and sources.
Ready(q, o, diverse) ==
    CASE draft[q].action = "propose_promotion" ->
            /\ Missing(q) = {}
            /\ draft[q].target = "semantic_fact" =>
                 /\ draft[q].support # {}
                 /\ InvalidSupport(q) = {}
                 /\ diverse
      [] draft[q].action = "decay" -> o.destructive
      [] draft[q].action \in {"create_candidate", "noop"} -> o.noops
      [] OTHER -> FALSE

-----------------------------------------------------------------------------
(* Single statements. *)

InsertClaim ==
    \E c \in Claims, d \in ClaimDrafts :
        /\ ~Exists(c)
        /\ source' = [source EXCEPT ![c] = d[1]]
        /\ state' = [state EXCEPT ![c] = d[2]]
        /\ UNCHANGED <<verdicts, queue, op>>

InsertProposal ==
    \E q \in Proposals, d \in ProposalDrafts :
        /\ status[q] = "absent"
        /\ \A r \in Proposals : r < q => status[r] # "absent"
        /\ \A c \in d.claims : Exists(c)
        /\ draft' = [draft EXCEPT ![q] = d]
        /\ status' = [status EXCEPT ![q] = "queued"]
        /\ UNCHANGED <<ledger, op>>

\* set_status and the accept, reject and wait review actions: any status but
\* applied can be written over any other, applied and rejected included.
SetStatus ==
    \E q \in Proposals, s \in ReviewStatuses :
        /\ status[q] # "absent"
        /\ status' = [status EXCEPT ![q] = s]
        /\ UNCHANGED <<ledger, draft, op>>

-----------------------------------------------------------------------------
(* Verification: verify-claim, the review actions and record_correction. *)

Step(p, o) == op' = [op EXCEPT ![p] = o]

\* The op of p goes on at pc, with the same claim or with none at hand.
Goto(p, pc) == Step(p, [op[p] EXCEPT !.pc = pc])
Return(p, pc) == Step(p, [op[p] EXCEPT !.pc = pc, !.claim = NoClaim])

BeginVerify(p) ==
    /\ op[p].pc = "idle"
    /\ \E v \in Verdicts :
         \/ \E c \in Claims :
              /\ Exists(c)
              /\ Step(p, [Idle EXCEPT !.pc = "verify", !.todo = {c}, !.verdict = v])
         \/ \E q \in Proposals, apply \in BOOLEAN, destr \in BOOLEAN :
              /\ status[q] # "absent"
              /\ draft[q].claims # {}
              /\ apply => v = "confirmed"
              /\ destr => apply /\ draft[q].action = "decay"
              /\ Step(p, [Idle EXCEPT !.pc = "verify", !.prop = q, !.verdict = v,
                                      !.todo = VerificationTargets(q, v),
                                      !.thenApply = apply, !.destructive = destr])
    /\ UNCHANGED <<ledger, queue>>

\* record_correction: every active claim whose text matches is superseded.
BeginCorrection(p) ==
    /\ op[p].pc = "idle"
    /\ "superseded" \in Verdicts
    /\ \E matches \in SUBSET {c \in Claims : state[c] \in ActiveStates} :
         Step(p, [Idle EXCEPT !.pc = "verify", !.todo = matches,
                              !.verdict = "superseded"])
    /\ UNCHANGED <<ledger, queue>>

\* Mutant: one verification row per claim, replaced instead of added.
ReplaceVerdict(c, v) == {v}

\* verification_events is append-only.
WithVerdict(c, v) == verdicts[c] \cup {v}

\* First autocommit of insert_verification_event.
RecordVerdict(p) ==
    /\ op[p].pc = "verify"
    /\ \E c \in op[p].todo :
         /\ verdicts' = [verdicts EXCEPT ![c] = WithVerdict(c, op[p].verdict)]
         /\ Step(p, IF op[p].verdict \in Correcting
                    THEN [op[p] EXCEPT !.pc = "correct", !.claim = c, !.todo = @ \ {c}]
                    ELSE [op[p] EXCEPT !.todo = @ \ {c}])
    /\ UNCHANGED <<source, state, queue>>

\* Second autocommit: mark_claim_corrected, whatever state the claim is in.
MarkCorrected(p) ==
    /\ op[p].pc = "correct"
    /\ HasCorrecting(op[p].claim)
    /\ state' = [state EXCEPT ![op[p].claim] = "corrected"]
    /\ Return(p, "verify")
    /\ UNCHANGED <<source, verdicts, queue>>

VerifyDone(p) ==
    /\ op[p].pc = "verify"
    /\ op[p].todo = {}
    /\ IF op[p].thenApply
       THEN Step(p, [Idle EXCEPT !.pc = "apply", !.prop = op[p].prop,
                                 !.destructive = op[p].destructive])
       ELSE Step(p, Idle)
    /\ UNCHANGED <<ledger, queue>>

-----------------------------------------------------------------------------
(* Applying proposals: one at a time, or every ready one of a drain. *)

BeginApply(p) ==
    /\ op[p].pc = "idle"
    /\ \E q \in Proposals, destr \in BOOLEAN :
         /\ status[q] # "absent"
         /\ destr => draft[q].action = "decay"
         /\ Step(p, [Idle EXCEPT !.pc = "apply", !.prop = q, !.destructive = destr])
    /\ UNCHANGED <<ledger, queue>>

\* drain_review_queue (no flags) and learning-proposals apply-ready (any flags).
BeginDrain(p) ==
    /\ op[p].pc = "idle"
    /\ \E decay \in BOOLEAN, noops \in BOOLEAN :
         /\ p \in Residents => ~decay /\ ~noops
         /\ Step(p, [Idle EXCEPT !.pc = "drain", !.batch = FirstOpen,
                                 !.draining = TRUE, !.destructive = decay,
                                 !.noops = noops])
    /\ UNCHANGED <<ledger, queue>>

\* The rows are looked at in the order they were read in, whatever their status
\* has become since.
DrainNext(p) ==
    /\ op[p].pc = "drain"
    /\ \/ /\ op[p].batch = {}
          /\ Step(p, Idle)
       \/ \E row \in op[p].batch, diverse \in BOOLEAN :
            /\ \A r \in op[p].batch : ~Before(r, row)
            /\ Step(p, IF Ready(row[1], op[p], diverse)
                       THEN [op[p] EXCEPT !.batch = @ \ {row}, !.prop = row[1],
                                          !.pc = "apply"]
                       ELSE [op[p] EXCEPT !.batch = @ \ {row}])
    /\ UNCHANGED <<ledger, queue>>

\* Where a process goes when it is done with a proposal.
AfterProposal(p) ==
    IF op[p].draining
    THEN Step(p, [op[p] EXCEPT !.pc = "drain", !.prop = NoProposal,
                               !.outcome = "none"])
    ELSE Step(p, Idle)

\* Mutant: the reason is written where the status belongs.
MarkAsReason(p, outcome) ==
    Step(p, [op[p] EXCEPT !.pc = "mark", !.outcome = "verification_requested"])

MarkAs(p, outcome) == Step(p, [op[p] EXCEPT !.pc = "mark", !.outcome = outcome])

\* Mutant: a decay proposal is applied without the confirmation.
DecayUnasked(p) == TRUE

DecayAllowed(p) == op[p].destructive

\* apply_learning_critic_proposal_with_options reads the proposal once, here.
Dispatch(p) ==
    LET q == op[p].prop
        d == draft[q]
    IN  /\ op[p].pc = "apply"
        /\ \/ /\ ~Open(q)
              /\ AfterProposal(p)
           \/ /\ Open(q) /\ d.action = "propose_promotion"
              /\ Goto(p, IF d.target = "semantic_fact" THEN "support" ELSE "trust")
           \/ /\ Open(q) /\ d.action = "decay" /\ DecayAllowed(p)
              /\ Step(p, [op[p] EXCEPT !.pc = "decay", !.todo = d.claims])
           \/ /\ Open(q) /\ d.action = "decay" /\ ~DecayAllowed(p)
              /\ Step(p, Idle)
           \/ /\ Open(q) /\ d.action = "request_verification"
              /\ MarkAs(p, "waiting_verification")
           \/ /\ Open(q) /\ d.action \in {"create_candidate", "noop"}
              /\ MarkAs(p, "applied")
        /\ UNCHANGED <<ledger, queue>>

SupportGate(p) ==
    /\ op[p].pc = "support"
    /\ IF InvalidSupport(op[p].prop) # {}
       THEN MarkAs(p, "rejected")
       ELSE Goto(p, "trust")
    /\ UNCHANGED <<ledger, queue>>

\* Mutant: the claims without trust are left out and the rest is promoted.
TrustGatePartial(p) ==
    /\ op[p].pc = "trust"
    /\ LET q == op[p].prop
       IN  IF Missing(q) = draft[q].claims
           THEN MarkAs(p, "waiting_verification")
           ELSE Step(p, [op[p] EXCEPT !.pc = "promote",
                                      !.todo = draft[q].claims \ Missing(q)])
    /\ UNCHANGED <<ledger, queue>>

TrustGate(p) ==
    /\ op[p].pc = "trust"
    /\ IF Missing(op[p].prop) # {}
       THEN MarkAs(p, "waiting_verification")
       ELSE Step(p, [op[p] EXCEPT !.pc = "promote", !.todo = draft[op[p].prop].claims])
    /\ UNCHANGED <<ledger, queue>>

\* A claim that is already where the proposal wants it is passed over.
Settled(c, target) ==
    state[c] = "semantic_fact" \/ (target = "long_term_memory" /\ Durable(c))

\* The promotion loop reads the claim and decides which writes it needs.
ReadClaim(p) ==
    LET target == draft[op[p].prop].target
    IN  /\ op[p].pc = "promote"
        /\ \/ /\ op[p].todo = {}
              /\ MarkAs(p, "applied")
           \/ \E c \in op[p].todo :
                Step(p, IF Settled(c, target)
                        THEN [op[p] EXCEPT !.todo = @ \ {c}]
                        ELSE [op[p] EXCEPT !.todo = @ \ {c}, !.claim = c,
                                !.pc = IF Durable(c) THEN "semantic" ELSE "long_term"])
        /\ UNCHANGED <<ledger, queue>>

\* promote_claim_to_long_term: the trust gate; there is no gate on the state.
CheckLongTerm(p) ==
    /\ op[p].pc = "long_term"
    /\ IF Trusted(op[p].claim) THEN Goto(p, "write_long_term") ELSE Step(p, Idle)
    /\ UNCHANGED <<ledger, queue>>

WriteLongTerm(p) ==
    /\ op[p].pc = "write_long_term"
    /\ state' = [state EXCEPT ![op[p].claim] = "long_term_memory"]
    /\ IF draft[op[p].prop].target = "semantic_fact"
       THEN Goto(p, "semantic")
       ELSE Return(p, "promote")
    /\ UNCHANGED <<source, verdicts, queue>>

\* promote_claim_to_semantic: an error here ends the operation, drains included.
CheckSemantic(p) ==
    /\ op[p].pc = "semantic"
    /\ IF state[op[p].claim] = "long_term_memory" /\ Trusted(op[p].claim)
       THEN Goto(p, "write_semantic")
       ELSE Step(p, Idle)
    /\ UNCHANGED <<ledger, queue>>

WriteSemantic(p) ==
    /\ op[p].pc = "write_semantic"
    /\ state' = [state EXCEPT ![op[p].claim] = "semantic_fact"]
    /\ Return(p, "promote")
    /\ UNCHANGED <<source, verdicts, queue>>

\* apply_decay_proposal: one UPDATE per claim, whatever state it is in.
DecayClaim(p) ==
    /\ op[p].pc = "decay"
    /\ \/ /\ op[p].todo = {}
          /\ MarkAs(p, "applied")
          /\ UNCHANGED state
       \/ \E c \in op[p].todo :
            /\ state' = [state EXCEPT ![c] = draft[op[p].prop].target]
            /\ Step(p, [op[p] EXCEPT !.todo = @ \ {c}])
    /\ UNCHANGED <<source, verdicts, queue>>

\* update_learning_critic_proposal_status: the status is not read again.
Mark(p) ==
    /\ op[p].pc = "mark"
    /\ status' = [status EXCEPT ![op[p].prop] = op[p].outcome]
    /\ AfterProposal(p)
    /\ UNCHANGED <<ledger, draft>>

\* The process is killed or the statement fails; what committed stays.
Crash(p) ==
    /\ op[p].pc # "idle"
    /\ Step(p, Idle)
    /\ UNCHANGED <<ledger, queue>>

-----------------------------------------------------------------------------

Init ==
    /\ source = [c \in Claims |-> "absent"]
    /\ state = [c \in Claims |-> "absent"]
    /\ verdicts = [c \in Claims |-> {}]
    /\ draft = [q \in Proposals |-> NoDraft]
    /\ status = [q \in Proposals |-> "absent"]
    /\ op = [p \in Procs |-> Idle]

\* What a started operation does next.
Continue(p) ==
    \/ RecordVerdict(p) \/ MarkCorrected(p) \/ VerifyDone(p)
    \/ DrainNext(p) \/ Dispatch(p) \/ SupportGate(p) \/ TrustGate(p)
    \/ ReadClaim(p) \/ CheckLongTerm(p) \/ WriteLongTerm(p)
    \/ CheckSemantic(p) \/ WriteSemantic(p) \/ DecayClaim(p) \/ Mark(p)

Begin(p) == BeginVerify(p) \/ BeginCorrection(p) \/ BeginApply(p)

Next ==
    \/ InsertClaim
    \/ InsertProposal
    \/ SetStatus
    \/ \E p \in Operators : Begin(p)
    \/ \E p \in Procs : BeginDrain(p) \/ Continue(p) \/ Crash(p)

Spec == Init /\ [][Next]_vars

\* A slow loop that stays up: its interval ticks again and again
\* (scheduler/slow_loop.rs), and an operation that started, in any process,
\* runs on to its end unless its process stops.
StableNext ==
    \/ InsertClaim
    \/ InsertProposal
    \/ SetStatus
    \/ \E p \in Operators : Begin(p) \/ Crash(p)
    \/ \E p \in Procs : BeginDrain(p) \/ Continue(p)

StableSpec ==
    /\ Init
    /\ [][StableNext]_vars
    /\ \A p \in Residents : WF_vars(BeginDrain(p) \/ Continue(p))
    /\ \A p \in Operators : WF_vars(Continue(p))

-----------------------------------------------------------------------------
(* Properties. *)

\* README "Trust Boundary": a cloud draft is never durable memory (L3 or L4)
\* before some verifier confirmed it, whatever the processes interleave and
\* wherever they stop.
Vetted(c) == source[c] = "cloud_draft" => "confirmed" \in verdicts[c]

DurableNeedsTrust == \A c \in Claims : Durable(c) => Vetted(c)

\* A claim left durable memory for a reason the store records: a correcting
\* verification, or a decay proposal that names it.
Accounted(c) ==
    \/ Durable(c)
    \/ HasCorrecting(c)
    \/ \E q \in Proposals :
         status[q] # "absent" /\ draft[q].action = "decay" /\ c \in draft[q].claims

\* apply_promotion_proposal: a promotion that is marked applied did promote all
\* of its claims; none was lost to a crash, a concurrent writer or a partial
\* loop, unless a correction or a decay took it out again.
AppliedPromotionsHold ==
    \A q \in Proposals :
        status[q] = "applied" /\ draft[q].action = "propose_promotion"
            => \A c \in draft[q].claims : Accounted(c)

\* apply_learning_critic_proposal_with_options and the drain policy
\* "verified_non_destructive_promotion_only": only an operator's operation that
\* asked for destruction makes a claim decay or forgets it, and no slow loop.
DecayIsConfirmed ==
    [][\A c \in Claims :
         Exists(c) /\ state'[c] \in GoneStates /\ state'[c] # state[c]
            => \E p \in Operators : op[p].pc = "decay" /\ op[p].destructive]_vars

\* The ledger implements the promise of DurableMemory.
DM == INSTANCE DurableMemory
        WITH vetted <- {c \in Claims : Exists(c) /\ Vetted(c)},
             durable <- {c \in Claims : Durable(c)}

Refinement == DM!Spec

\* review_drain: the slow loop leaves no verified promotion behind.  A promotion
\* to long-term memory whose claims are all trusted is applied, or an operator
\* closes it, for as long as the open proposals fit into one drain: rows that
\* wait for verification sort first and are never auto-applied.
ReadyIsClosed ==
    \A q \in Proposals :
        /\ Open(q)
        /\ draft[q].action = "propose_promotion"
        /\ draft[q].target = "long_term_memory"
        /\ Missing(q) = {}
      ~> ~Open(q)

\* README, state diagram of the learning hierarchy: no transition leaves
\* "forgotten"; in particular a forgotten claim is not recalled again.
ForgottenNotRecalled ==
    [][\A c \in Claims :
         state[c] = "forgotten" => state'[c] \notin DurableStates]_vars

\* README, same diagram: a semantic fact is corrected, decays or is forgotten;
\* it does not fall back to long-term memory.
SemanticNotDemoted ==
    [][\A c \in Claims :
         state[c] = "semantic_fact" => state'[c] # "long_term_memory"]_vars

=============================================================================
