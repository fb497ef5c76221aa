# SOMA: a TLA+ verification project

TLA+ modules of the parts of SOMA in which several processes change shared state,
the TLC configurations that check them on small instances, and proofs that TLAPS
checks. Paths below are relative to `src/crates/soma/src/` unless they start with
`src/`.

    tlasany M.tla                        parse a module
    tlc -config X.cfg M                  check a run (PROJECT.json "runs" lists module and cfg)
    tlapm M.tla                          check the proofs of M, one of ClaimLedgerProofs,
                                         ResidentProofs, CloudCaptureProofs, AdapterSpoolProofs,
                                         ProxyLifecycleProofs, SlowLoopProofs, ProposersProofs
                                         (two to five minutes each)

`PROJECT.json` maps every definition that models code to the lines it stands for,
and lists runs, mutants, findings, hazards and theorems.

## 1. The system

SOMA is one Rust binary. Its state is a SQLite store in WAL mode (`~/.soma/soma.db`)
and a few files next to it. Many processes open the store, each over a connection
of its own: one-shot CLI commands, the resident (`soma start`, with a warm and a
slow loop that share one `Arc<Mutex<Storage>>`), MCP servers (`soma mcp-serve`)
and the dashboard. Between processes only SQLite serialises anything, and mostly
single statements: few operations open a transaction.

| Component | State | Operations | What is hard | Model |
|---|---|---|---|---|
| Claim ledger and learning critic (`storage/claims.rs`, `storage/learning_critic.rs`, `context/review_apply.rs`, `review_drain.rs`, `review_action.rs`, `correction.rs`) | claim rows with a lifecycle state, append-only verification events, critic proposals with a status | insert, verify, correct, set status, apply one, drain | no transaction: statements of several processes interleave; kills and errors between two; stale reads; LIMIT of a drain | `ClaimLedger` |
| Resident and control socket (`runtime/resident.rs`, `cli/start.rs`, `cli/stop.rs`) | `soma.pid`, `soma.sock`, the shutdown broadcast, connections, loop channels | start, serve, stop, kill | overlapping starts, files left by kills, hung clients against the drain deadline, cascade to the loops | `Resident` |
| Cloud output capture (`context/critic.rs`, `cli/adapter_cloud_output.rs`) | task frame, claims and proposals derived from one answer | capture, replay | claim-by-claim commits under a replay check that looks for any of them; ids of frames used again | `CloudCapture` |
| Adapter spool (`cli/adapter_spool.rs`, `adapter_capture.rs`) | JSONL file, checkpoint | append, drain | kill between ingestion and checkpoint, and inside the write of the checkpoint; two drains | `AdapterSpool` |
| Latent proxies (`storage/lifecycle.rs`) | layer and state of a proxy, event log | extract, promote, promote to semantic, decay, touch | transition decided on an old state; row and event in two commits | `ProxyLifecycle` |
| Proposers (`context/open_decision_review.rs`, `semantic_learning.rs`) | claims and proposals inserted by themselves | propose | check then insert without a unique key; claim and proposal in two commits; groups decided on rows read one after the other | `Proposers` |
| Episode store (`storage/mod.rs`, `episode.rs`, `capture/ai_cli.rs`, `cli/forget.rs`) | episodes, vectors, edges, pins, signatures, beliefs | capture, correct, forget | a capture in several commits; one pin row shared by salience, merge, compression and the audit of a forget | `EpisodeStore` |
| Slow loop (`runtime/scheduler/slow_loop.rs`, `cli/backfill.rs`, `memory/beliefs.rs`) | last seen count, cycle number | merge, compress, scan, backfill, seed beliefs, drain, propose | a lock taken anew for every pin over lists read earlier; a gate that compares counts; a command that backfills beside it | `SlowLoop` (drain: `ClaimLedger`, proposals: `Proposers`) |
| Warm loop and pack cache (`runtime/scheduler/warm_loop.rs`, `runtime/mcp_cache.rs`) | last count, cached packs | cycle, get or build, invalidate | a pack built while the facts behind it change | not modelled (section 9) |
| Review queue (`context/review.rs`, `storage/review_notification.rs`) | views; digest acknowledgements | list, batch, acknowledge | control bound to a queue that moved on | not modelled |
| MCP server (`runtime/mcp.rs`) | none of its own | dispatch, forward to the resident | its capture tool differs from the command | capture tool in `AdapterSpool` |
| Task frames and sessions (`storage/task_frame.rs`, `session.rs`, `thread_identity.rs`) | frames, sessions, identities | insert, retain, upsert | retention against work that still refers to a frame | frames in `CloudCapture` |
| Migrations, client bindings, persona registry, context compiler, capture parsers, cognitive models, dashboard, reports, command line | files or none | reads, rendering, numerics, keyed upserts | little shared state; floating point | not modelled |

How they interact. Capture paths and proposers insert claims and proposals; people
(CLI), agents (MCP) and the slow loop verify and apply them; the context compiler
recalls what is in a durable state. The resident owns the loops; CLI and MCP
processes talk to it over `soma.sock` for status, stop and cached packs, and
otherwise go to the store directly.

What makes each part correct, in a sentence: an unverified cloud draft is never
recalled as memory; a proposal marked applied was applied; only a person's explicit
wish destroys a claim; a ready proposal is eventually applied; a serving resident
can be found and stopped; a captured answer is captured once and wholly; an open
decision is proposed once; a proxy's event log explains its layer; a forgotten
episode keeps its audit; duplicates are not marked in a circle; a new episode is
embedded in the end; a spooled record is ingested at least once.

## 2. ClaimLedger

State. `source[c]` and `state[c]` are `claim_records.source_type` and
`lifecycle_state`; `verdicts[c]` is the set of results in `verification_events`
(rows are only added, and every gate asks whether a row with some result exists);
`draft[q]` and `status[q]` are the immutable columns and the status of a row of
`learning_critic_proposals`; `op[p]` is the local state of process `p` in the
operation it runs: a place, the proposal, the claim at hand, the claims or rows
still to visit, the flags.

Actions. One action per statement that commits or per read whose result is used
later, because no operation of the ledger runs in a transaction:

| Actions | Code |
|---|---|
| `InsertClaim`, `InsertProposal` | `insert_claim_record`, `insert_learning_critic_proposal`, with their validation (`ValidClaim`, `ValidProposal`) |
| `SetStatus` | `learning-proposals set-status`, the review actions accept, reject and wait: any status over any other |
| `BeginVerify`, `RecordVerdict`, `MarkCorrected`, `VerifyDone` | `verify-claim`, confirm, contradict, supersede, inconclusive and `confirm_and_apply`; a correcting event and the state `corrected` are two commits |
| `BeginCorrection` | `record_correction`: supersedes every active claim that matches |
| `BeginApply`, `Dispatch` | `apply_learning_critic_proposal_with_options` |
| `SupportGate`, `TrustGate`, `ReadClaim`, `CheckLongTerm`, `WriteLongTerm`, `CheckSemantic`, `WriteSemantic` | `apply_promotion_proposal` and the two `promote_claim_to_*` |
| `DecayClaim`, `Mark` | `apply_decay_proposal`, `update_learning_critic_proposal_status` |
| `BeginDrain`, `DrainNext` | `drain_review_queue` of the slow loop (no flags), `apply-ready` of an operator (any flags) |
| `Crash` | a kill, or a statement that fails (BUSY) and ends the command |

Abstractions. Text, confidence, evidence and times are left out: no gate reads
them. The claim list of a proposal is a set and is visited in any order. A gate
that reads several claims in several statements (`TrustGate`, `SupportGate`) is one
step; the steps before each write repeat the trust check, as in the code. Whether
semantic support spans enough projects and sources is a free boolean. Contradicting
claims and task frame outcomes are not modelled, nor are dry runs, review batches
and the control token of a review action. `allow_destructive` matters for decay
proposals only and is set for those only. Ids follow creation time.

`DurableMemory` is the promise: a claim enters durable memory only if it was vetted
before; it may leave at any time; vetting is never undone. `ClaimLedger` implements
it with `vetted` as the claims with a trusted source or a confirmation and
`durable` as the claims in L3 or L4.

## 3. Resident

State. `pidFile`, `sockFile`: whose id `soma.pid` holds and who bound the file
`soma.sock`; `pc[p]`: where process `p` is in `Resident::start`, `accept_loop`,
`join_in_place` and `run_blocking`; `stopping[p]`: the shutdown broadcast was sent;
`loop[p][l]`; `conn[c]`: whose connection and at which stage. `raced` is a history
variable: the last PID check that passed did so while another process was between
its own check and its last file operation (`Amid`).

Actions. Every file operation is a step: `Start`, `Probe`, `WritePid`,
`UnlinkStale`, `Bind`, `Chmod` with their error paths `UndoPid`, `UndoSock`;
connections `Connect`, `Accept`, `Hello`, `Request`, `Reply`, `Leave`; shutdown
`Signal`, `Break`, `AcceptFails`, `UnlinkSock`, `Drain`, `UnlinkPid` (twice, as in
the code), `Exit`; `Tick`, `EndCycle`, `EndLoop` of a loop; `Crash` anywhere.

Abstractions. What Status and McpFetch answer is left out. A refused start and an
exit without a crash look alike afterwards. The temporary name of the PID file is
left out (it is per process); its rename is the step `WritePid`. `Probe` reads the
file and probes the process in one step, and may also refuse because the id of a
dead resident belongs to another program by now. A process can be started again: an
element of `Procs` stands for any process that gets that id.

## 4. CloudCapture and AdapterSpool

State. `claims`, `proposals`: the drafts and review proposals captured from answers,
in the order of their ids; `frames[id]`: the content a task frame was built from, or
`Absent`; `episodes`: the turns stored, each by its line. `job[p]`: the capture process
`p` runs. `spool`, `checkpoint`: the two files; `drain[d]`: where a drain is. `disturbed`
and `again` are history variables: keys whose capture was killed or raced another,
lines a drain may have captured without a checkpoint.

Actions. `ResolveFrame`, `Check`, `InsertClaim`, `InsertEvent`, `Correct`, `Enqueue`,
`Propose` are the commits of `capture_cloud_output_claims` and of its two callers; the
command looks for an equal proposal before it inserts one, the MCP tool does not.
`Frames` builds and prunes task frames; a rowid that was freed is used again, and a
frame that exists keeps its id. `CaptureTurn`, `CaptureOutput`, `Malformed`, `Captures`,
`CaptureFailed` are the cases of `process_line`; `Truncate` and `Write` are the two
halves of `fs::write`. `Kill` and `KillCall` end a process anywhere.

Abstractions. An answer is a model value with the number of claims in it and the
critic's decision; a frame's content is the number of episodes it was built from.
Offsets are counted in lines. A line that the drain can never capture ends every drain
at the same place, in the code and in the model.

## 5. ProxyLifecycle, Proposers, EpisodeStore and SlowLoop

`ProxyLifecycle`. `proxies` is the table in the order of ids (layer and state always
change together, so a row keeps the state), `log[i]` the lifecycle events of a row,
`job[a]` the rows a pass of process `a` has read and still holds. `Insert` and
`InsertEvent`, `Reread` and `Promote`, `Semantic`, `Decay`, `Touch` are the commits of
extraction, policy promotion, promotion to semantic memory, decay and a context build;
`Begin...` reads the candidates. The UPDATE names the id only: `Transition` writes over
whatever state is there and logs the state the pass had read. `contended`, `touched` and
`cut` remember which rows two writers held, a build touched under a decay, or lost their
first event to a kill. `insert_evidence_latent_proxy` and `promote_proxy_to_semantic`
have no caller outside the tests (the second one is modelled all the same, as
`Semantic`). Expiry and scopes only take candidates away and are left out.

`Proposers`. `signals` are contradictions and anomalies, detected, resolved and detected
again; `asked` the claims of open decisions; `claims` the long-term memory and facts the
semantic pass groups; `proposals` the queue. `BeginOpen`, `Collect`, `Ask`, `File` are
the open decision pass: what is known, what is collected (contradictions before
anomalies, then the limit, then the filter), a claim, its proposal. `BeginSemantic`,
`ReadFacts`, `ReadQueue`, `ConsiderRepeated`, `ConsiderReview`, `NextPhase` are the
semantic pass: repeated groups by text and by tokens, then conflicts, then paraphrases.
The text of a claim is a number; `Tokens` and `Negated` say which words normalisation
takes from it. Readiness scores and resolution plans are text for the reviewer. `Settled` is what a pass that starts later
would find done by a proposal: its key, and for a promotion every key of the text it
promotes; `raced` keeps it for the passes that run at the same time. Worth knowing from
the code: the key of a paraphrase group is the words its claims share, and two groups of
one pass with no claim in common can share the same words, so the pass proposes the same
key twice (the keys read at its start are not extended as it goes). `ProposedOnce` names
this as `Namesake`.

A place is a project and a session, or none of one or both. An episode is in a place, and
so is the task frame a proposal is filed under: for an open decision `PlaceOf`, the
project that the two episodes share or else the first that one of them has, and the
session likewise (`shared_or_first`). An open decision pass is for one project, one
session, both or all (`Scopes`). It collects a contradiction if either episode is in its
scope (`Live`), but knows of a proposal only if the task frame is (`Scanned`, `Known`): a
contradiction between two sessions is filed under the first, and every pass for the
second proposes it again. `AskedOnce` names this as `Split`. The semantic pass is
modelled without a scope, and the claims of one text have their task frames in one place
(`Home`); its proposals only take up room in the scan of an open decision pass.

`EpisodeStore`. An episode is a row with its pin and signature, `vectors`, `edges` and
`beliefs` are the other tables. `persist_episode` is one commit for row and vector, then
`WireEdges`, `PinSalient`, `StampSignature`, with `KillIngest` between them;
`RecordCorrection` inserts a row without vector; `Forget` stamps rows and pins their
audit in one transaction. No row is ever deleted, so the count the delta gate compares
never falls. Texts lie on a line, and the cosine of two of them falls with distance.

`SlowLoop`. `loop` is the resident's cycle: `Gate` (the delta of counts), `MergeRead`,
`PinNext`, `PinEdge` (the merge takes the lock anew for each pin), `CompressRead` to
`FoldStrip` (a group of equal commands is folded into its oldest row), `BackfillRead`,
`BackfillNext`, `Seed` (beliefs over the recent window), `Resilience` and `ScanNext`,
`EndCycle`. `PassFails` is an error the loop logs or swallows: a pass ends, a vector is
not written, or the count of the gate is taken for 0 (a cycle idles, the next one trains).
`KillLoop` kills the resident. `cli` is a `soma backfill` beside it, `CliStart` to
`CliExit`; in `CliFails` its read or a write fails, which the code turns into an empty
window or an uncounted row and does not report. `AboutToPin` is what a pass has decided to pin; `raced`
keeps the episodes forgotten while somebody was about to pin them. Worth knowing from
the code: a merged duplicate is itself pinned and so no longer merged; a folded row loses
its signature, a row whose capture was killed before it got one is never folded, and the
count of a representative starts again with each fold; backfill runs only in cycles in
which episodes landed. Left out: the secondary embedder, the centroid, training,
narrative, policy and the cold scan, which write nothing these passes read.

## 6. Runs

| Run | Checks | Instance |
|---|---|---|
| `ledger` | `TypeOK`, `DurableNeedsTrust`, `AppliedPromotionsHold`, `DecayIsConfirmed`, `Refinement` | 2 claims, 2 proposals (semantic promotion of both, semantic promotion with support, decay), an operator and a slow loop; 1.25 million states |
| `drain` | `ReadyIsClosed` | 1 claim, 2 proposals of every kind a drain meets, window of 2; 320 thousand states |
| `resident` | `TypeOK`, `Reachable`, `StopIsHonoured`, `NoneIsStranded` | 2 processes, 2 clients, one loop; 89 thousand states |
| `starvation` | violates `ReadyIsClosed` | as `drain` with a window of 1 |
| `forgotten` | violates `ForgottenNotRecalled` | 1 claim, a promotion and a decay of it |
| `demotion` | violates `SemanticNotDemoted` | 1 claim, two promotions of it |
| `overlap` | violates `OnlyStaleUnlinked` | as `resident`, without fairness |
| `spool` | `TypeOK`, `NothingLost`, `TurnsOnce`, `CaptureIsOnce`, `ProposedOnce`, `FiledWhereMeant` | 2 drains and a caller of the MCP tool, 2 starts, 1 kill, 2 lines of any kind, 2 frame ids, an answer of two claims that is rejected; 494 thousand states |
| `wedge` | violates `EveryLineIsCaptured` | 1 drain that a watcher starts again, 1 turn, 1 kill |
| `proxies` | `TypeOK`, `TrustBoundary`, `FactsWereLongTerm`, `LogIsTheHistory`, `DecaysOnlyStale` | 2 processes, 2 proxies of 4 classes (salient, quiet, draft, private), 6 passes, a clock of 2 values; 623 thousand states |
| `proposers` | `TypeOK`, `AskedOnce`, `AskedIsFiled`, `ProposedOnce`, `ConflictIsReviewed` | 2 processes, a project, 2 sessions, episodes in either and in none, 4 texts (a statement, the same in other words, its denial, a negated paraphrase), 2 passes, 3 proposals; 1.27 million states |
| `sleep` | `TypeOK`, `ForgottenIsAudited`, `SomeCopySurvives`, `BackfillTellsTruth`, `GateOnlySaves`, `NewIsEmbedded` | 3 episodes (a command, a text without words, a correction), one disturbance (kill, failed pass, new embedder), full scans of 2, a scan window of 2, backfill windows of 1, any number of failed reads and writes of `soma backfill`; 1.07 million states |

Why the bounds are enough to be interesting. In the ledger and the resident, two
processes are what an interleaving needs, and every operation can run in either. Two
claims make a promotion loop that can stop halfway and a support claim that differs
from the promoted one; two proposals make a promotion and a decay, or two promotions,
of one claim. Every started operation can be repeated, statuses can be reopened, and
crashes are unlimited, so the depth of those runs is not bounded. `TrustedByAnyEvent`
and the other mutants show that each property is reached: each names a definition and
a form of it that a plausible mistake would give, under which the run fails. In the
spool, two lines let a drain stop between a good and a bad line, two drains overlap,
a second start captures again what a killed first one did, and two frame ids let one
be freed and used again. Two proxies of one signature support each other, one of them
a draft; six passes are the longest path of one proxy (extract, promote, fact or
decay) with a second process on the same rows. Three texts are an exact repetition, a
denial and a paraphrase; two passes overlap or follow each other after a reviewer's
answer. One project is enough where sessions are two: the code treats the two fields in
the same way, so a second project would show what the second session shows. Three episodes are the smallest set in which duplicates could mark each other
in a circle across passes with different orders, and a window of one is full at once.
What the runs say nothing about beyond these bounds, the proofs say for the safety
properties.

Constants of a run that bound what the code does not: `Claims`, `Proposals` (rows
ever inserted), `ClaimDrafts`, `ProposalDrafts`, `Verdicts`, `ReviewStatuses`
(inputs), `DrainLimit` (32 in the slow loop, 20 in the CLI), `Procs`, `Clients`,
`Loops`. In the spool: `MaxLines`, `MaxStarts`, `MaxKills`, `MaxFrames`,
`MaxEpisodes`, `MaxProposals`. Proxies: `Limit`, `MaxAccess`, `MaxProxies`,
`MaxTouches`, `MaxTime`, `MaxJobs`. Proposers: `Limit`, `ScanLimit` (1000),
`MaxLoad`, `MaxCorrections`, `MaxDetections`, `MaxPasses`, `MaxProposals`. Slow loop:
`EdgeK`, `FullScanCap`, `ScanInterval`, `ScanWindow`, `BackfillCap` (64),
`BeliefWindow` stand for constants of the code; `MaxEpisodes` and `MaxEvents` bound
what it does not. Symmetry is used over processes and sessions, which no definition
tells apart, in runs without liveness.

Fairness. `StableSpec` assumes a slow loop that stays up, whose interval ticks
again and again (`scheduler/slow_loop.rs`, `run`), and that an operation that
started runs to its end unless its process dies; nothing is assumed of people.
`FairSpec` of `Resident` assumes that tokio polls the accept loop and the tasks
behind it, that a cycle of a loop ends, and that `select!`, which picks among ready
branches at random, does not pass over the watch channel for ever (strong fairness
of `EndLoop`; the channel is looked at between cycles only). Nothing is assumed of
clients, of signals or of who starts processes. `WatchedSpec` of `AdapterSpool` assumes
that the watcher script (`tools/soma-adapter-spool-watch.sh`) starts drains again and
again and that a drain runs on unless it is killed. `SlowLoop` assumes that the timer of
a running resident fires and its passes get their turn (`WF_vars(Resident)`); nothing is
assumed of captures, of users or of `soma backfill`.

Deadlock is checked where a person or a timer can always do something: in the ledger,
the resident and the slow loop. `spool`, `wedge`, `proxies` and `proposers` switch it
off: a spool whose checkpoint is empty refuses every further drain, and in all of them
the bounds on starts and passes end the behaviour.

## 7. What the runs show against the documents

* `starvation`. `open_learning_critic_proposals_scoped` puts rows that wait for
  verification first and cuts at LIMIT before readiness is looked at. As many of
  them as the window holds keep every ready promotion out, in this drain and in
  all later ones; `src/README.md:988` says `apply-ready` applies all that are ready.
* `forgotten`. `promote_claim_to_state` checks trust, not the state. A promotion
  that is still open when a decay proposal forgets its claim recalls it afterwards;
  the diagram of `src/README.md:572-588` has no way out of `forgotten`.
* `demotion`. The promotion loop acts on a state it read earlier: it writes
  `long_term_memory` over the `semantic_fact` another process wrote in between.
* `overlap`. The PID check and the write of `soma.pid` are two steps. Of two
  residents started together the slower one unlinks the socket the faster one
  serves on, which goes on, unreachable (`runtime/resident.rs:312-313`).
* `wedge`. `write_checkpoint` truncates the checkpoint and then writes it. Killed in
  between it leaves an empty file, which `read_checkpoint` refuses: no later line is
  captured until somebody removes the file by hand (`cli/adapter_spool.rs:276-297`).

Some properties hold with exceptions, which say where the code is weaker than its words;
each is written into the property. A turn is stored twice if a drain ended without its
checkpoint or two overlapped (`TurnsOnce`). An answer whose first capture was killed
midway is taken for captured (`CaptureIsOnce`). A decision is asked twice if two passes
overlap, if it spans two projects or two sessions, or behind a queue longer than the scan
(`AskedOnce`); a kill between claim and proposal leaves a claim nobody is asked about (`AskedIsFiled`).
Two sides of a conflict that are each repeated are proposed as facts without a review of
the conflict (`ConflictIsReviewed`). A review that was rejected is asked for again in
every cycle, while a rejected promotion is never proposed again (`ProposedOnce`). A pin
decided before a forget overwrites its audit (`ForgottenIsAudited`). Of any duplicates
one points to an episode outside, which may have been forgotten since
(`SomeCopySurvives`).

`soma backfill` prints that every episode has its vector, or that it is complete, when
less is true. A full window of texts that embed to nothing, or of rows whose writes fail,
ends it with later rows unembedded; a row of the last window whose write failed is left;
and a read that fails counts as an empty window, after which nothing at all is known.
`BackfillTellsTruth` says that these are all: unless the last read failed (`blind`), what
the command saw and left is either such a row (`failed`) or outside a full window that
wrote nothing.

## 8. Proofs

The theorems hold for every value of the constants under the named assumptions of the
modules: proposal ids are positive, an operator is not a slow loop, drafts, verdicts
and statuses are what the code validates, a drain looks at one row at least; `None`
is no process; bounds are numbers, an answer has a claim at least, and no caller of
the MCP tool is a drain; limits are at least one and texts are numbers, and every text has
a place.

| Theorem | Statement |
|---|---|
| `ClaimLedgerProofs!TypeCorrect` | `Spec => []TypeOK` |
| `ClaimLedgerProofs!TrustBoundary` | `Spec => []DurableNeedsTrust` |
| `ClaimLedgerProofs!DestructionIsAsked` | `Spec => DecayIsConfirmed` |
| `ClaimLedgerProofs!AppliedIsComplete` | `Spec => []AppliedPromotionsHold` |
| `ClaimLedgerProofs!ImplementsDurableMemory` | `Spec => Refinement` |
| `ResidentProofs!TypeCorrect` | `Spec => []TypeOK` |
| `ResidentProofs!ServingIsReachable` | `Spec => []Reachable` |
| `AdapterSpoolProofs!TypeCorrect` | `Spec => []TypeOK` |
| `AdapterSpoolProofs!NothingIsLost` | `Spec => []NothingLost` |
| `AdapterSpoolProofs!HandoffsHold` | `Spec => []FiledWhereMeant` |
| `AdapterSpoolProofs!ReplaysHold` | `Spec => []CaptureIsOnce` |
| `AdapterSpoolProofs!ProposalsHold` | `Spec => []ProposedOnce` |
| `AdapterSpoolProofs!TurnsHold` | `Spec => []TurnsOnce` |
| `ProxyLifecycleProofs!TypeCorrect` | `Spec => []TypeOK` |
| `ProxyLifecycleProofs!TrustHolds` | `Spec => []TrustBoundary` |
| `ProxyLifecycleProofs!FactsHold` | `Spec => []FactsWereLongTerm` |
| `ProxyLifecycleProofs!HistoryHolds` | `Spec => []LogIsTheHistory` |
| `ProxyLifecycleProofs!DecayHolds` | `Spec => DecaysOnlyStale` |
| `ProposersProofs!TypeCorrect` | `Spec => []TypeOK` |
| `ProposersProofs!AsksHold` | `Spec => []AskedOnce` |
| `ProposersProofs!FilesHold` | `Spec => []AskedIsFiled` |
| `ProposersProofs!ProposalsHold` | `Spec => ProposedOnce` |
| `ProposersProofs!FollowsHold` | `Spec => ConflictIsReviewed` |
| `SlowLoopProofs!TypeCorrect` | `Spec => []TypeOK` |
| `SlowLoopProofs!AuditHolds` | `Spec => []ForgottenIsAudited` |
| `SlowLoopProofs!CopiesSurvive` | `Spec => []SomeCopySurvives` |
| `SlowLoopProofs!BackfillHolds` | `Spec => []BackfillTellsTruth` |
| `SlowLoopProofs!GateHolds` | `Spec => GateOnlySaves` |

Every safety invariant and every action property that a passing run checks is a theorem.

The argument for the ledger. `DurableNeedsTrust` is not inductive: a process that is
about to write a durable state has looked at the claim some statements ago. The
inductive invariant `Base` therefore says what a process knows where it stands: the
rows it works on exist (`Grounded`), it is in the branch of its proposal's action
(`OnBranch`), and at a durable write the claim is trusted (`SawTrust`). This is
stable under the steps of all others for one reason: the source of a claim never
changes and verification events are never removed (`ReplaceVerdict` is the mutant
that breaks exactly this). Admission of a claim in a durable state is covered by
`ValidClaim`. Refinement follows step by step from the same invariant: a statement
is a `Vet`, `Admit`, `Promote` or `Retire` step, or a stutter.

`AppliedPromotionsHold` needs to know what a running promotion has done so far
(`Done`): the claims it no longer has to visit are `Accounted` for, durable or taken
out by something recorded. `Accounted` is stable because the only steps that take a
claim out of durable memory leave their record first: the correcting event is
committed before the state changes, and a decay loop works on a decay proposal.
`DecayIsConfirmed` needs `Asked`: the destructive flag is set by operators only and
a process is in the decay loop only with the flag.

The argument for the resident. `Reachable` is about files that any process may
write and remove. Unless two processes raced, one process at most is amid the files
(`Alone`), it owns what it wrote from the step that wrote it on (`Owns`), and a start
that is refused or has yet to look touches nothing. A PID check that passes while
nobody is amid the files establishes this again from whatever files are there. So a
killed resident can be replaced, a refused start does no harm, and a new resident may
start as soon as the old one has removed its PID file for the second time, its loops
still running; the window that is left is the one `overlap` shows.

The argument for the spool. The checkpoint is written long after the captures it stands
for. The invariant follows a line on its way: what a drain has passed is delivered
(`Passing`), the capture it waits for is that of its next line, and one that is done has
its proposal (`Waiting`); a process captures only while its drain waits (`Attended`), so
a capture left by a killed drain is never taken for the next one's. Deliveries are never
undone, which makes all of it stable under other drains, kills and the MCP tool.

What is stored of an answer is a matter of captures alone, whoever runs them, so it is
proved once for all programs that capture (`CloudCaptureProofs`): `CaptureNext` is what
the tables see of any of them, and `SpoolStep` shows that a step of the spool is one of
its steps or leaves the tables alone. Four invariants build on each other. A capture
under way has its frame, and its ids are claims (`Stored`). The frame of a claim stays;
a capture under way or a claim whose client was handed its frame has the frame that was
meant, unless retention took it while the capture worked (`FrameInv`). Under a key that
was not disturbed, a capture has its parts one after the other and nobody else has any
of them (`WorkInv`). So what is whole stays whole, and a replay finds all of it
(`OnceInv`).

A turn carries no key that would show a second copy, so that it is stored once is a
matter of the drains: a line nobody may have captured twice (`Firsts`) has one drain that
comes by it (`Lone`), and once it is stored every drain is past it and will write a
checkpoint past it (`Behind`).

The argument for the proxies. A pass writes rows it read earlier. The class of a row is
the class of the proxy it names (`Read`: no statement changes a class), and the rows of a
job that moves proxies out of the short term passed the filter (`Admitted`); so whatever
else changed meanwhile, what is written over an untrusted proxy is not a promotion.

A process holds at most one row of a proxy, in a state its pass may change (`Aim`), so
there are four transitions and no others (`Steps`), and the tables keep their types
(`Books`). A proxy that is long-term, or was when it was read, has the event that made it
so in its log, and the log only grows (`Evidence`): facts were long-term memory first,
races or not. The other two properties hold of proxies nobody contends for: one writer
holds the row (`Sole`) and knows its state (`Fresh`), so an event starts where the last
one ended (`History`), and what decays is what the pass had found stale.

The argument for the proposers. A pass acts on what it read steps before, on a queue
that others fill. `Grown` says what can happen to the tables meanwhile: signals and
claims keep what they are about, trust is only lost, and a proposal that is new was filed
by the one process that moved, and is in `raced` for all others at work. With it every
invariant has to be looked at for the process that moves only.

A decision somebody may still ask about has no proposal (`Asks`): true when the queue is
read, if the scan reaches all of it, and kept because the signal leaves the list in the
step that files it. Its claims are as many as its proposals and the processes between the
two (`Files`). What a semantic pass does not know of the queue came while it ran or is
its own, and the claims of its own proposals are taken (`Informed`); two groups that
share the key share a claim, except for the namesakes. For a topic in conflict, the
repeated groups take only claims that are repeated, the groups of other topics take
none of its claims, and its own group stays until it is considered (`Follows`).

The attempt to prove `ProposedOnce` found the property too strong in two ways the small
instance had not shown: the namesakes of section 5, and two passes at the same time of
which one proposes a text by its words and the other by its tokens, a race that `raced`
did not record. The property names the first, `Settled` records the second, and a fourth
text in the instance makes the second happen.

The argument for the slow loop. A pin is written steps after it was decided. Every
episode somebody is about to pin is live, or was forgotten since and is in `raced`
(`Decided`): a pass chooses among live episodes, and `Forget` records what was chosen.
The compression names its next victim by a minimum, so its group must hold two rows until
it is done (`Folding`).

Every list of pins that a pass works through names an older episode as what stays
(`Lists`), so every pin in the table points to an older one (`Tables`), and of any
duplicates the oldest is pinned to none of the others. What `soma backfill` has gone
through of its window is embedded, has no text to embed or failed to be written, and a
window that was not full held all that was missing, unless its read failed (`Backfilled`);
both stay so because vectors are only added. A cycle that has seeded, or was let pass, has
caught up with the episodes it counted, and so has the loop between two cycles (`Gated`),
unless it could not count them.

Only model-checked: liveness (`ReadyIsClosed`, `StopIsHonoured`, `NoneIsStranded`,
`NewIsEmbedded`), which the prover cannot do under fairness, and of course the five
violations.

## 9. What is not modelled, and why

Most of the code by lines is reports, rendering and command line (`cli/client_status.rs`,
`cli/learning_status.rs`, `context/eval.rs`, `context/review.rs`, `runtime/mcp.rs`,
`cli/mod.rs`): functions of the store at one moment that write text. Nothing interleaves
in them and a model would repeat them; the modules here cover the code that writes.

* Warm loop facts and pack cache. The loop drops the cached packs before it recomputes
  (`scheduler/warm_loop.rs`), so a pack that a reader builds during the run is built from
  the facts before it and served until its TTL ends or the next cycle drops it. The
  staleness is bounded by the TTL. This is the next module to write.
* Review batches, the binding of review controls to options, digest acknowledgements:
  they run the operations of `ClaimLedger` one after the other behind a comparison of
  tokens.
* Client bindings and their proofs (`cli/adapter_binding_proof.rs`): what another
  program's configuration says, read and stored under a key.
* Migrations: numbered steps, each in one transaction with its version row.
* Sessions, thread identity, task frame outcomes: appends and upserts under a key.
* Persona registry: files one person edits.
* Context compilation, capture parsers, redaction, explanations, the dashboard: reads
  and text.
* Cognitive models, embeddings, training, centroid, forgetting curves: floating point;
  the modules see them as a distance of texts.
* The predictor over latent proxies: a computation on the rows that were read.

Open proofs: a refinement of the spool to a promise of delivery, of the slow loop to a
promise about what is kept, and of the resident to one owner at a time where nothing
races.
