--------------------------- MODULE ProxyLifecycle ---------------------------
(* The lifecycle of evidence-backed latent proxies (storage/lifecycle.rs)    *)
(* under several processes: extraction, `soma context l2-promote`,           *)
(* `soma context l3-decay`, the scheduler control of the MCP server, and the *)
(* context builds that touch what they project.                              *)
(*                                                                           *)
(* A pass reads its candidates once and then works on the rows it read, one  *)
(* commit per row.  Promotion reads a row again before it changes it; decay  *)
(* does not.  The UPDATE itself names the id only, so the state it replaces  *)
(* is the one the pass decided on only if nobody was faster.                 *)
(*                                                                           *)
(* Layer and state always change together, so a row keeps the state.  Expiry *)
(* and scopes are left out: they only take candidates away.                  *)
EXTENDS Integers, Sequences, FiniteSets

CONSTANTS
    Actors,     \* processes that open the database
    Classes,    \* what extraction can yield, see ClassesAssumption
    Limit,      \* the LIMIT of a pass
    MaxAccess,  \* the max_access_count of a decay pass
    MaxProxies, \* bound on the proxies
    MaxTouches, \* bound on the accesses of a proxy
    MaxTime,    \* bound on the clock
    MaxJobs     \* bound on the jobs started

ASSUME NumbersAssumption ==
    /\ Limit \in Nat \ {0} /\ MaxAccess \in Nat
    /\ MaxProxies \in Nat /\ MaxTouches \in Nat /\ MaxTime \in Nat /\ MaxJobs \in Nat
\* salient: a durable or anomaly type over its confidence threshold; sig: the
\* normalised claim; safe: every privacy label is public or project_internal.
ASSUME ClassesAssumption ==
    \A c \in Classes : /\ c.salient \in BOOLEAN /\ c.safe \in BOOLEAN
                       /\ c.trust \in {"local_observed", "cloud_draft"}

VARIABLES
    proxies,    \* evidence_latent_proxies, in the order of their ids
    log,        \* memory_lifecycle_events: proxy -> its transitions, as committed
    clock,
    job,        \* actor -> what it is doing
    started,    \* jobs started so far
    contended,  \* history: proxies two writers held at the same time
    touched,    \* history: proxies touched while a decay pass held them
    cut         \* history: proxies whose extraction was killed halfway

vars == <<proxies, log, clock, job, started, contended, touched, cut>>

States == {"short_term_candidate", "long_term_memory", "semantic_fact", "decayed"}
Ids == 1 .. MaxProxies
Rows == {proxies[i] : i \in DOMAIN proxies}
RowType ==
    [id: Ids, class: Classes, state: States, updated: 0 .. MaxTime,
     accessed: {-1} \cup 0 .. MaxTime, accesses: 0 .. MaxTouches]

\* job.rows are the rows a pass read and has still to do, job.current the one
\* it has read again, job.cutoff the cutoff of a decay pass.
Idle == [kind |-> "idle", rows |-> {}, current |-> {}, cutoff |-> 0]
Kinds == {"idle", "extract", "promote", "semantic", "decay", "project"}

Held(a) == {r.id : r \in job[a].rows \cup job[a].current}
Writers == {a \in Actors : job[a].kind \in {"extract", "promote", "semantic", "decay"}}

\* What a contends for when it takes the rows of the given ids.
Contended(a, ids) == {i \in ids : \E b \in Writers \ {a} : i \in Held(b)}

\* An actor takes up a job on the rows it read.
Take(a, kind, rows, current, cutoff) ==
    /\ job[a] = Idle /\ started < MaxJobs
    /\ started' = started + 1
    /\ job' = [job EXCEPT ![a] = [kind |-> kind, rows |-> rows,
                                  current |-> current, cutoff |-> cutoff]]
    /\ contended' = contended \cup
          (IF kind = "project" THEN {}
           ELSE Contended(a, {r.id : r \in rows \cup current}))

\* After a row: the job goes on with the rest, or ends.
Rest(a, row) ==
    LET rest == job[a].rows \ {row}
    IN  job' = [job EXCEPT ![a] =
                  IF rest = {} THEN Idle
                  ELSE [job[a] EXCEPT !.rows = rest, !.current = {}]]

\* Mutant: a decay writes no event.
LoggedButDecay(id, from, to) ==
    IF to = "decayed" THEN log
    ELSE [log EXCEPT ![id] = Append(@, [from |-> from, to |-> to])]

\* Mutant: an event has its two ends swapped.
LoggedSwapped(id, from, to) == [log EXCEPT ![id] = Append(@, [from |-> to, to |-> from])]

\* insert_lifecycle_event_row
Logged(id, from, to) == [log EXCEPT ![id] = Append(@, [from |-> from, to |-> to])]

\* transition_proxy: the row and its event in one transaction, from the state
\* of the row the caller read.
Transition(row, to) ==
    /\ proxies' = [proxies EXCEPT ![row.id].state = to, ![row.id].updated = clock]
    /\ log' = Logged(row.id, row.state, to)

-----------------------------------------------------------------------------
(* Extraction: the row commits, then its first event.                       *)

Insert(a) ==
    /\ Len(proxies) < MaxProxies
    /\ \E c \in Classes :
         LET row == [id |-> Len(proxies) + 1, class |-> c,
                     state |-> "short_term_candidate", updated |-> clock,
                     accessed |-> -1, accesses |-> 0]
         IN  /\ proxies' = Append(proxies, row)
             /\ Take(a, "extract", {row}, {}, 0)
    /\ UNCHANGED <<log, clock, touched, cut>>

InsertEvent(a) ==
    /\ job[a].kind = "extract"
    /\ \E row \in job[a].rows :
         /\ log' = Logged(row.id, "none", "short_term_candidate")
         /\ Rest(a, row)
    /\ UNCHANGED <<proxies, clock, started, contended, touched, cut>>

-----------------------------------------------------------------------------
(* Promotion to long term, by policy.                                       *)

\* The candidates newest first, cut at the limit.
Newer(r, s) == r.updated > s.updated \/ (r.updated = s.updated /\ r.id > s.id)
ShortTerm ==
    LET rows == {r \in Rows : r.state = "short_term_candidate"}
    IN  {r \in rows : Cardinality({s \in rows : Newer(s, r)}) < Limit}

\* Mutant: privacy is not looked at.
EligibleAnyPrivacy(r, read, pinned) == r.class.trust # "cloud_draft"

\* promote_short_term_proxies_by_policy, the filters of the loop.  A claim is
\* repeated when another candidate that was read says the same, whatever the
\* trust of that candidate.
Eligible(r, read, pinned) ==
    /\ r.class.trust # "cloud_draft"
    /\ r.class.safe
    /\ \/ r.id \in pinned
       \/ r.class.salient
       \/ \E s \in read : s # r /\ s.class.sig = r.class.sig

BeginPromote(a) ==
    \E pinned \in {{}} \cup {{i} : i \in DOMAIN proxies} :
      LET rows == {r \in ShortTerm : Eligible(r, ShortTerm, pinned)}
      IN  /\ rows # {}
          /\ Take(a, "promote", rows, {}, 0)
          /\ UNCHANGED <<proxies, log, clock, touched, cut>>

NextNewest(a) == {r \in job[a].rows : \A s \in job[a].rows : s = r \/ Newer(r, s)}

\* promote_proxy_to_long_term reads the row again; anything but a candidate
\* ends the pass with an error, and the rows after it stay as they are.
Reread(a) ==
    /\ job[a].kind = "promote" /\ job[a].current = {}
    /\ \E next \in NextNewest(a) :
         LET row == proxies[next.id]
         IN  job' = [job EXCEPT ![a] =
                       IF row.state = "short_term_candidate"
                       THEN [job[a] EXCEPT !.current = {row}]
                       ELSE Idle]
    /\ UNCHANGED <<proxies, log, clock, started, contended, touched, cut>>

Promote(a) ==
    /\ job[a].kind = "promote"
    /\ \E row \in job[a].current, next \in NextNewest(a) :
         /\ Transition(row, "long_term_memory")
         /\ Rest(a, next)
    /\ UNCHANGED <<clock, started, contended, touched, cut>>

-----------------------------------------------------------------------------
(* Promotion to semantic memory.                                            *)

\* Mutant: any row can become a fact.
MayBeFactAny(r) == r.state # "semantic_fact"

MayBeFact(r) == r.state = "long_term_memory"

\* promote_proxy_to_semantic
BeginSemantic(a) ==
    /\ \E r \in Rows : MayBeFact(r) /\ Take(a, "semantic", {}, {r}, 0)
    /\ UNCHANGED <<proxies, log, clock, touched, cut>>

Semantic(a) ==
    /\ job[a].kind = "semantic"
    /\ \E row \in job[a].current : Transition(row, "semantic_fact")
    /\ job' = [job EXCEPT ![a] = Idle]
    /\ UNCHANGED <<clock, started, contended, touched, cut>>

-----------------------------------------------------------------------------
(* Decay.                                                                   *)

LastUse(r) == IF r.accessed = -1 THEN r.updated ELSE r.accessed

\* Mutant: the number of accesses does not count.
InactiveOld(r, cutoff) == r.state = "long_term_memory" /\ r.updated < cutoff

\* inactive_long_term_proxy_candidates_scoped
Inactive(r, cutoff) ==
    /\ r.state = "long_term_memory"
    /\ LastUse(r) < cutoff
    /\ r.accesses <= MaxAccess

LongerUnused(r, s) ==
    LastUse(r) < LastUse(s) \/ (LastUse(r) = LastUse(s) /\ r.id < s.id)

LongestUnused(cutoff) ==
    LET rows == {r \in Rows : Inactive(r, cutoff)}
    IN  {r \in rows : Cardinality({s \in rows : LongerUnused(s, r)}) < Limit}

BeginDecay(a) ==
    \E cutoff \in 1 .. clock :
      LET rows == LongestUnused(cutoff)
      IN  /\ rows # {}
          /\ Take(a, "decay", rows, {}, cutoff)
          /\ UNCHANGED <<proxies, log, clock, touched, cut>>

\* The rows in the order they were read, as they were read.
Decay(a) ==
    /\ job[a].kind = "decay"
    /\ \E row \in job[a].rows :
         /\ \A s \in job[a].rows : s = row \/ LongerUnused(row, s)
         /\ Transition(row, "decayed")
         /\ Rest(a, row)
    /\ UNCHANGED <<clock, started, contended, touched, cut>>

-----------------------------------------------------------------------------
(* Context builds touch the long-term proxies they project.                 *)

BeginProject(a) ==
    /\ \E rows \in SUBSET {r \in Rows : r.state = "long_term_memory" /\ r.class.safe} :
         rows # {} /\ Cardinality(rows) <= Limit /\ Take(a, "project", rows, {}, 0)
    /\ UNCHANGED <<proxies, log, clock, touched, cut>>

\* touch_long_term_proxy_accesses: one UPDATE a row, of long-term rows only.
Touch(a) ==
    /\ job[a].kind = "project"
    /\ \E row \in job[a].rows :
         /\ IF proxies[row.id].state = "long_term_memory"
            THEN /\ proxies[row.id].accesses < MaxTouches
                 /\ proxies' = [proxies EXCEPT ![row.id].accesses = @ + 1,
                                               ![row.id].accessed = clock]
                 /\ touched' = touched \cup
                      {i \in {row.id} : \E b \in Actors : job[b].kind = "decay" /\ i \in Held(b)}
            ELSE UNCHANGED <<proxies, touched>>
         /\ Rest(a, row)
    /\ UNCHANGED <<log, clock, started, contended, cut>>

-----------------------------------------------------------------------------

Tick ==
    /\ clock < MaxTime
    /\ clock' = clock + 1
    /\ UNCHANGED <<proxies, log, job, started, contended, touched, cut>>

\* A process is killed between two commits.
Kill(a) ==
    /\ job[a] # Idle
    /\ job' = [job EXCEPT ![a] = Idle]
    /\ cut' = IF job[a].kind = "extract" THEN cut \cup Held(a) ELSE cut
    /\ UNCHANGED <<proxies, log, clock, started, contended, touched>>

Init ==
    /\ proxies = <<>>
    /\ log = [i \in Ids |-> <<>>]
    /\ clock = 0
    /\ job = [a \in Actors |-> Idle]
    /\ started = 0
    /\ contended = {} /\ touched = {} /\ cut = {}

Act(a) ==
    \/ Insert(a) \/ InsertEvent(a)
    \/ BeginPromote(a) \/ Reread(a) \/ Promote(a)
    \/ BeginSemantic(a) \/ Semantic(a)
    \/ BeginDecay(a) \/ Decay(a)
    \/ BeginProject(a) \/ Touch(a)
    \/ Kill(a)

Next == Tick \/ \E a \in Actors : Act(a)

Spec == Init /\ [][Next]_vars

-----------------------------------------------------------------------------
(* Properties. *)

Pairs == {<<"none", "short_term_candidate">>,
          <<"short_term_candidate", "long_term_memory">>,
          <<"long_term_memory", "semantic_fact">>,
          <<"long_term_memory", "decayed">>}

\* The types of the variables.
TypeOK ==
    /\ proxies \in Seq(RowType) /\ Len(proxies) <= MaxProxies
    /\ \A i \in DOMAIN proxies : proxies[i].id = i
    /\ log \in [Ids -> Seq([from: States \cup {"none"}, to: States])]
    /\ clock \in 0 .. MaxTime
    /\ job \in [Actors -> [kind: Kinds, rows: SUBSET RowType,
                           current: SUBSET RowType, cutoff: 0 .. MaxTime]]
    /\ started \in 0 .. MaxJobs
    /\ contended \subseteq Ids /\ touched \subseteq Ids /\ cut \subseteq Ids

\* l2-promote "still blocks cloud_draft or unsafe privacy labels before L3
\* lifecycle transition" (cli/context.rs): pinned by hand, repeated or raced,
\* such a proxy never leaves the short term.
TrustBoundary ==
    \A r \in Rows :
        r.class.trust = "cloud_draft" \/ ~r.class.safe
            => r.state = "short_term_candidate"

\* promote_proxy_to_semantic: "Direct L2 -> L4 promotion is rejected".  However
\* the passes race, a fact was long-term memory before, and every event of the
\* log is one of the four transitions.
FactsWereLongTerm ==
    \A i \in DOMAIN proxies :
        /\ \A n \in DOMAIN log[i] : <<log[i][n].from, log[i][n].to>> \in Pairs
        /\ proxies[i].state = "semantic_fact" =>
             \E m, n \in DOMAIN log[i] :
               m < n /\ log[i][m].to = "long_term_memory" /\ log[i][n].to = "semantic_fact"

Chained(events) == \A n \in 2 .. Len(events) : events[n].from = events[n - 1].to

\* The log is the history of the row: it begins with the extraction, each
\* transition starts where the last one ended, and the last one ends in the
\* state of the row.  Two writers that hold the row at the same time break the
\* chain; an extraction killed between its two commits loses the beginning.
LogIsTheHistory ==
    \A i \in DOMAIN proxies \ contended :
        (\A a \in Actors : job[a].kind = "extract" => i \notin Held(a)) =>
            \/ log[i] = <<>> /\ i \in cut /\ proxies[i].state = "short_term_candidate"
            \/ /\ log[i] # <<>>
               /\ Chained(log[i])
               /\ log[i][1].from = "none" \/ i \in cut
               /\ log[i][Len(log[i])].to = proxies[i].state

\* "explicit_l3_decay_pass_only_soft_decays_stale_low_access_proxy_memory"
\* (context/scheduler_control.rs): a proxy that decays is long-term memory that
\* was not used since the cutoff, at the moment it decays, unless another writer
\* held it or a context build touched it after the pass had read it.
DecaysOnlyStale ==
    [][\A i \in DOMAIN proxies \ (contended \cup touched) :
         proxies'[i].state = "decayed" /\ proxies[i].state # "decayed" =>
            \E a \in Actors : job[a].kind = "decay" /\
                proxies[i].state = "long_term_memory" /\ LastUse(proxies[i]) < job[a].cutoff
                /\ proxies[i].accesses <= MaxAccess]_vars

=============================================================================
