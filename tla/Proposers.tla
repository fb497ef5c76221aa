----------------------------- MODULE Proposers ------------------------------
(* The two passes that fill the review queue on their own: open decisions    *)
(* (context/open_decision_review.rs) and semantic consolidation              *)
(* (context/semantic_learning.rs).  The slow loop, the command line and the  *)
(* MCP tools run them, each on its own connection.                           *)
(*                                                                           *)
(* A pass reads what the queue holds already, then the signals or claims,    *)
(* and then inserts proposal after proposal; the queue has no unique key, so *)
(* what was read at the start is all that keeps a decision from being        *)
(* proposed twice.  Every insert commits by itself.                          *)
(*                                                                           *)
(* The text of a claim is a number, the order of texts; Tokens and Negated   *)
(* stand for the words normalisation takes from it.  Every text is long      *)
(* enough to be normalised.                                                  *)
(*                                                                           *)
(* Episodes and task frames are in a project and a session, or in none of    *)
(* one or both; an open-decision pass may be for one project, one session or *)
(* both.  The semantic pass is modelled without a scope, and the claims of   *)
(* one text have task frames in one place.                                   *)
EXTENDS Integers, Sequences, FiniteSets, FiniteSetsExt

CONSTANTS
    Actors,         \* processes that run passes
    Projects, Sessions,
    Places,         \* the projects and sessions episodes and task frames are in
    Tokens,         \* text -> its signature tokens
    Home,           \* text -> the place of the task frames of its claims
    Negated,        \* text -> it has a negation word
    Negations,      \* the tokens that are negation words
    Limit,          \* the limit of a pass
    ScanLimit,      \* DEFAULT_PROPOSAL_SCAN_LIMIT
    MaxLoad,        \* bound on the signals and claims: a signal weighs 3, a claim 2
    MaxCorrections, \* bound on the claims corrected
    MaxDetections, MaxPasses, MaxProposals

ASSUME BoundsAssumption ==
    /\ Limit \in Nat \ {0} /\ ScanLimit \in Nat \ {0}
    /\ MaxLoad \in Nat /\ MaxDetections \in Nat /\ MaxCorrections \in Nat
    /\ MaxPasses \in Nat /\ MaxProposals \in Nat
ASSUME PlacesAssumption ==
    /\ "none" \notin Projects \cup Sessions
    /\ Places \subseteq [project: Projects \cup {"none"}, session: Sessions \cup {"none"}]
ASSUME TextsAssumption ==
    /\ DOMAIN Tokens \subseteq Nat
    /\ Negated \in [DOMAIN Tokens -> BOOLEAN]
    /\ Home \in [DOMAIN Tokens -> Places]

VARIABLES
    signals,    \* contradictions and anomalies, in the order of their ids
    detections, \* detections so far: the clock of the signals
    asked,      \* the claims of open decisions: the signal of each
    claims,     \* long-term claims and what became of them
    proposals,  \* the review queue
    job,        \* actor -> the pass it runs
    passes,     \* passes started
    raced,      \* history: open decisions and keys proposed while another pass ran
    cut         \* history: open decisions whose capture was killed halfway

world == <<signals, detections, claims>>
history == <<raced, cut>>
vars == <<world, asked, proposals, job, passes, history>>

Texts == DOMAIN Tokens
MinSupport == 2
MinTokens == 5
None == "none"
NoFilter == "no filter"
Scopes == [project: Projects \cup {NoFilter}, session: Sessions \cup {NoFilter}]
Everywhere == [project |-> NoFilter, session |-> NoFilter]

Idle == [pc |-> "idle"]
OpenPass == {"collect", "ask", "file"}
SemanticPass == {"facts", "queue", "group"}
Others(a, pcs) == {b \in Actors \ {a} : job[b].pc \in pcs}
Goto(a, j) == job' = [job EXCEPT ![a] = j]

\* Mutant: the support is forgotten, only the claim to promote is stored.
ProposalOfRep(rule, ids, rep, key, place) ==
    [rule |-> rule, ids |-> {rep}, rep |-> rep, key |-> key, place |-> place,
     status |-> "queued"]

\* insert_learning_critic_proposal.  ids: the signal or the supporting claims;
\* rep: the claim that would be promoted.
Proposal(rule, ids, rep, key, place) ==
    [rule |-> rule, ids |-> ids, rep |-> rep, key |-> key, place |-> place,
     status |-> "queued"]
Queue(p) ==
    /\ Len(proposals) < MaxProposals
    /\ proposals' = Append(proposals, p)

\* learning_critic_proposals_scoped: the newest proposals whose task frame is in
\* the scope.
InScope(p, scope) ==
    /\ scope.project \in {NoFilter, p.place.project}
    /\ scope.session \in {NoFilter, p.place.session}
Scanned(scope) ==
    {n \in DOMAIN proposals :
        /\ InScope(proposals[n], scope)
        /\ Cardinality({m \in DOMAIN proposals :
              m > n /\ InScope(proposals[m], scope)}) < ScanLimit}

\* semantic_group_keys_for_text
Keys(t) ==
    {<<"exact", {t}>>} \cup
    {k \in {<<"tokens", Tokens[t]>>} : Cardinality(Tokens[t]) >= MinTokens}

-----------------------------------------------------------------------------
(* What the passes look at.                                                 *)

\* A contradiction between two episodes, or an anomaly of one.
Detect ==
    /\ 3 * (Len(signals) + 1) + 2 * Len(claims) <= MaxLoad /\ detections < MaxDetections
    /\ \E t \in {"contradiction", "anomaly"}, a, b \in Places :
         /\ t = "anomaly" => a = b
         /\ signals' = Append(signals,
              [type |-> t, a |-> a, b |-> b, open |-> TRUE, at |-> detections])
    /\ detections' = detections + 1
    /\ UNCHANGED <<asked, claims, proposals, job, passes, history>>

\* upsert_context_anomaly: the same row, unresolved again and the newest.
DetectAgain ==
    /\ detections < MaxDetections
    /\ \E s \in DOMAIN signals :
         /\ signals[s].type = "anomaly"
         /\ signals' = [signals EXCEPT ![s].open = TRUE, ![s].at = detections]
    /\ detections' = detections + 1
    /\ UNCHANGED <<asked, claims, proposals, job, passes, history>>

\* A correction resolves it, or its episode is forgotten.
Resolve ==
    /\ \E s \in DOMAIN signals :
         /\ signals[s].open
         /\ signals' = [signals EXCEPT ![s].open = FALSE]
    /\ UNCHANGED <<detections, asked, claims, proposals, job, passes, history>>

\* A claim reaches long-term memory: it is trusted.
Learn ==
    /\ 3 * Len(signals) + 2 * (Len(claims) + 1) <= MaxLoad
    /\ \E t \in Texts :
         claims' = Append(claims, [text |-> t, state |-> "long", trusted |-> TRUE])
    /\ UNCHANGED <<signals, detections, asked, proposals, job, passes, history>>

\* A correcting verdict takes the trust away, and then the claim is corrected.
Correct ==
    /\ \E i \in DOMAIN claims :
         \/ /\ claims[i].trusted
            /\ Cardinality({k \in DOMAIN claims : ~claims[k].trusted}) < MaxCorrections
            /\ claims' = [claims EXCEPT ![i].trusted = FALSE]
         \/ /\ ~claims[i].trusted /\ claims[i].state # "corrected"
            /\ claims' = [claims EXCEPT ![i].state = "corrected"]
    /\ UNCHANGED <<signals, detections, asked, proposals, job, passes, history>>

\* The reviewer refuses a proposal, or a promotion is applied.
Reject ==
    /\ \E n \in DOMAIN proposals :
         /\ proposals[n].status = "queued"
         /\ proposals' = [proposals EXCEPT ![n].status = "rejected"]
    /\ UNCHANGED <<world, asked, job, passes, history>>

ApplyPromotion ==
    /\ \E n \in DOMAIN proposals :
         LET p == proposals[n]
         IN  /\ p.rule = "promotion" /\ p.status = "queued"
             /\ \A i \in p.ids : claims[i].state # "corrected" /\ claims[i].trusted
             /\ proposals' = [proposals EXCEPT ![n].status = "applied"]
             /\ claims' = [claims EXCEPT ![p.rep].state = "semantic"]
             /\ raced' = IF \E a \in Actors : job[a].pc \in SemanticPass
                         THEN raced \cup Keys(claims[p.rep].text) ELSE raced
    /\ UNCHANGED <<signals, detections, asked, job, passes, cut>>

-----------------------------------------------------------------------------
(* Open decisions.                                                          *)

\* Mutant: a decision whose proposal was rejected counts as new.
KnownQueued(scope) ==
    UNION {proposals[n].ids : n \in {n \in Scanned(scope) :
              proposals[n].rule = "open" /\ proposals[n].status = "queued"}}

\* existing_open_decision_proposal_refs; these proposals are never applied.
Known(scope) ==
    UNION {proposals[n].ids : n \in {n \in Scanned(scope) : proposals[n].rule = "open"}}

\* Contradictions come before anomalies, each newest first.
Before(s, t) ==
    LET x == signals[s] y == signals[t]
    IN  \/ x.type = "contradiction" /\ y.type = "anomaly"
        \/ x.type = y.type /\ x.at > y.at

\* collect_open_decision_signals.  The limit counts the signals that are
\* skipped later because they have a proposal.
Live(scope) ==
    {s \in DOMAIN signals :
        /\ signals[s].open
        /\ scope.project \in {NoFilter, signals[s].a.project, signals[s].b.project}
        /\ scope.session \in {NoFilter, signals[s].a.session, signals[s].b.session}}
Collected(scope) ==
    {s \in Live(scope) : Cardinality({t \in Live(scope) : Before(t, s)}) < Limit}

BeginOpen(a) ==
    /\ job[a] = Idle /\ passes < MaxPasses
    /\ passes' = passes + 1
    /\ \E scope \in Scopes :
         Goto(a, [pc |-> "collect", scope |-> scope, known |-> Known(scope)])
    /\ UNCHANGED <<world, asked, proposals, history>>

Collect(a) ==
    /\ job[a].pc = "collect"
    /\ LET todo == Collected(job[a].scope) \ job[a].known
       IN  Goto(a, IF todo = {} THEN Idle ELSE [pc |-> "ask", todo |-> todo])
    /\ UNCHANGED <<world, asked, proposals, passes, history>>

\* Mutant: the next signal is taken up before the proposal is filed.
AskedOnly(s, todo) == IF todo = {} THEN Idle ELSE [pc |-> "ask", todo |-> todo]

Asked(s, todo) == [pc |-> "file", signal |-> s, todo |-> todo]

\* shared_or_first, of the projects and of the sessions by itself.
First(x, y) == IF x # None THEN x ELSE y
PlaceOf(s) ==
    LET a == signals[s].a b == signals[s].b
    IN  [project |-> First(a.project, b.project), session |-> First(a.session, b.session)]

\* The claim of the decision, and then its proposal.
Ask(a) ==
    /\ job[a].pc = "ask"
    /\ \E s \in job[a].todo :
         /\ \A t \in job[a].todo \ {s} : ~Before(t, s)
         /\ asked' = Append(asked, s)
         /\ Goto(a, Asked(s, job[a].todo \ {s}))
    /\ UNCHANGED <<world, proposals, passes, history>>

File(a) ==
    /\ job[a].pc = "file"
    /\ LET s == job[a].signal
       IN  /\ Queue(Proposal("open", {s}, 0, <<>>, PlaceOf(s)))
           /\ raced' = IF Others(a, OpenPass) # {} THEN raced \cup {<<"open", {s}>>} ELSE raced
    /\ Goto(a, IF job[a].todo = {} THEN Idle ELSE [pc |-> "ask", todo |-> job[a].todo])
    /\ UNCHANGED <<world, asked, passes, cut>>

-----------------------------------------------------------------------------
(* Semantic consolidation.  A group is a rule, a key, and the claims that    *)
(* share the key.                                                           *)

TextOf(i) == claims[i].text

Group(key, ids, text) == [key |-> key, ids |-> ids, text |-> text]

RepeatedGroups(ids) ==
    LET Sharing(k) == {i \in ids : k \in Keys(TextOf(i))}
    IN  {g \in {Group(k, Sharing(k), TextOf(Max(Sharing(k)))) :
                  k \in UNION {Keys(TextOf(i)) : i \in ids}} :
            Cardinality(g.ids) >= MinSupport}

\* semantic_group_has_mixed_negation_polarity
Mixed(ids) == \E i, j \in ids : Negated[TextOf(i)] /\ ~Negated[TextOf(j)]

\* negation_conflict_candidate_groups: what is left when negations are dropped.
Topic(t) == Tokens[t] \ Negations
ConflictGroups(ids) ==
    LET On(topic) == {i \in ids : Topic(TextOf(i)) = topic}
        topics == {Topic(TextOf(i)) : i \in ids}
    IN  {g \in {Group(<<"conflict", x>>, On(x), Min({TextOf(i) : i \in On(x)})) :
                  x \in {x \in topics : Cardinality(x) >= MinTokens}} :
            Cardinality(g.ids) >= MinSupport /\ Mixed(g.ids)}

\* latent_token_overlap_candidate
Near(x, y) ==
    LET shared == Cardinality(x \cap y)
        small == Min({Cardinality(x), Cardinality(y)})
        large == Max({Cardinality(x), Cardinality(y)})
    IN  x # y /\ shared >= 4 /\ 100 * shared >= 55 * small /\ 100 * shared >= 40 * large

\* latent_review_candidate_groups: an anchor and the claims near to it, under
\* the tokens they all share.
LatentGroups(ids) ==
    LET rich == {i \in ids : Cardinality(Tokens[TextOf(i)]) >= MinTokens}
        Around(i) == {i} \cup {j \in rich : Near(Tokens[TextOf(i)], Tokens[TextOf(j)])}
        Shared(i) == {t \in Tokens[TextOf(i)] : \A j \in Around(i) : t \in Tokens[TextOf(j)]}
        KeyOf(i) == IF Cardinality(Shared(i)) >= 4
                    THEN <<"latent", Shared(i)>> ELSE <<"latent ids", Around(i)>>
        anchors == {i \in rich : \A j \in rich : Around(j) = Around(i) => j <= i}
    IN  {g \in {Group(KeyOf(i), Around(i), TextOf(i)) : i \in anchors} :
            Cardinality(g.ids) >= MinSupport}

\* The larger group first, exact before tokens, then by text.
Rank(g) == IF g.key[1] = "exact" THEN 0 ELSE 1
Sooner(g, h) ==
    \/ Cardinality(g.ids) > Cardinality(h.ids)
    \/ /\ Cardinality(g.ids) = Cardinality(h.ids)
       /\ \/ Rank(g) < Rank(h)
          \/ Rank(g) = Rank(h) /\ g.text < h.text

LongTerm == {i \in DOMAIN claims : claims[i].state = "long"}

\* long_term_claim_records_scoped, newest first.
BeginSemantic(a) ==
    /\ job[a] = Idle /\ passes < MaxPasses
    /\ passes' = passes + 1
    /\ Goto(a, [pc |-> "facts",
                ids |-> {i \in LongTerm : Cardinality({j \in LongTerm : j > i}) < Limit}])
    /\ UNCHANGED <<world, asked, proposals, history>>

\* Mutant: only promotions that are still queued count.
PromotionKeysQueued ==
    UNION {Keys(TextOf(proposals[n].rep)) : n \in {n \in Scanned(Everywhere) :
              proposals[n].rule = "promotion" /\ proposals[n].status = "queued"}}

\* existing_semantic_proposal_group_keys: a rejected promotion counts.
PromotionKeys ==
    UNION {Keys(TextOf(proposals[n].rep)) : n \in {n \in Scanned(Everywhere) :
              proposals[n].rule = "promotion" /\ proposals[n].status # "applied"}}

\* existing_semantic_review_proposal_group_keys: a rejected review does not.
ReviewKeys ==
    {proposals[n].key : n \in {n \in Scanned(Everywhere) :
              proposals[n].rule = "review" /\ proposals[n].status # "rejected"}}

\* existing_semantic_group_keys; it reads 10 * limit facts, more than there are.
FactKeys ==
    UNION {Keys(TextOf(i)) : i \in {i \in DOMAIN claims : claims[i].state = "semantic"}}

ReadFacts(a) ==
    /\ job[a].pc = "facts"
    /\ Goto(a, [pc |-> "queue", ids |-> job[a].ids, facts |-> FactKeys])
    /\ UNCHANGED <<world, asked, proposals, passes, history>>

ReadQueue(a) ==
    /\ job[a].pc = "queue"
    /\ Goto(a, [pc |-> "group", phase |-> "repeated", ids |-> job[a].ids,
                groups |-> RepeatedGroups(job[a].ids), consumed |-> {}, seen |-> {},
                promotions |-> PromotionKeys \cup job[a].facts, reviews |-> ReviewKeys])
    /\ UNCHANGED <<world, asked, proposals, passes, history>>

\* claim_has_durable_promotion_trust of every claim of the group.
Trusted(g) == \A i \in g.ids : claims[i].trusted

\* Mutant: a group that says a thing and its opposite is repeated all the same.
PromotableMixed(j, g) == g.ids \notin j.seen /\ g.ids \cap j.consumed = {}

\* The first three tests of the loop over repeated groups.
Promotable(j, g) ==
    /\ g.ids \notin j.seen
    /\ g.ids \cap j.consumed = {}
    /\ ~Mixed(g.ids)

\* The group is done: its claims are taken, or stay for the groups after it.
Done(a, g, taken) ==
    Goto(a, [job[a] EXCEPT !.groups = @ \ {g}, !.seen = @ \cup {g.ids},
                           !.consumed = @ \cup (IF taken THEN g.ids ELSE {})])

\* What a proposal settles: a promotion, whatever has the text of its claim.
Settled(p) == {p.key} \cup (IF p.rule = "promotion" THEN Keys(TextOf(p.rep)) ELSE {})

Propose(a, g, p) ==
    /\ Queue(p)
    /\ raced' = IF Others(a, SemanticPass) # {} THEN raced \cup Settled(p) ELSE raced
    /\ Done(a, g, TRUE)

\* The task frame of a semantic proposal is that of the first claim of its group:
\* the oldest of a conflict, the newest that repeats, the anchor of a latent one.
HomeOf(g) == Home[IF g.key[1] = "conflict" THEN TextOf(Min(g.ids)) ELSE g.text]

\* One group that says the same twice.
ConsiderRepeated(a, g) ==
    LET j == job[a]
    IN  \/ ~Promotable(j, g) /\ Done(a, g, FALSE) /\ UNCHANGED <<proposals, raced>>
        \/ /\ Promotable(j, g) /\ g.key \in j.promotions
           /\ Done(a, g, TRUE) /\ UNCHANGED <<proposals, raced>>
        \/ /\ Promotable(j, g) /\ g.key \notin j.promotions /\ ~Trusted(g)
           /\ Done(a, g, FALSE) /\ UNCHANGED <<proposals, raced>>
        \/ /\ Promotable(j, g) /\ g.key \notin j.promotions /\ Trusted(g)
           /\ Propose(a, g, Proposal("promotion", g.ids, Max(g.ids), g.key, HomeOf(g)))

\* One group for the reviewer: claims that disagree, or that are near.  An
\* untrusted conflict keeps its claims from the latent groups; an untrusted
\* latent group leaves them to the next.
ConsiderReview(a, g) ==
    LET j == job[a]
        free == g.ids \cap j.consumed = {}
    IN  \/ ~free /\ Done(a, g, FALSE) /\ UNCHANGED <<proposals, raced>>
        \/ /\ free /\ g.key \in j.reviews
           /\ Done(a, g, TRUE) /\ UNCHANGED <<proposals, raced>>
        \/ /\ free /\ g.key \notin j.reviews /\ ~Trusted(g)
           /\ Done(a, g, j.phase = "conflict") /\ UNCHANGED <<proposals, raced>>
        \/ /\ free /\ g.key \notin j.reviews /\ Trusted(g)
           /\ Propose(a, g, Proposal("review", g.ids, 0, g.key, HomeOf(g)))

Consider(a) ==
    /\ job[a].pc = "group"
    /\ \E g \in job[a].groups :
         /\ \A h \in job[a].groups \ {g} : ~Sooner(h, g)
         /\ IF job[a].phase = "repeated" THEN ConsiderRepeated(a, g) ELSE ConsiderReview(a, g)
    /\ UNCHANGED <<world, asked, passes, cut>>

\* The next kind of group, over the claims no group has taken.
NextPhase(a) ==
    /\ job[a].pc = "group" /\ job[a].groups = {}
    /\ LET j == job[a]
           left == j.ids \ j.consumed
       IN  Goto(a, CASE j.phase = "repeated" ->
                          [j EXCEPT !.phase = "conflict", !.groups = ConflictGroups(left)]
                     [] j.phase = "conflict" ->
                          [j EXCEPT !.phase = "latent", !.groups = LatentGroups(left)]
                     [] j.phase = "latent" -> Idle)
    /\ UNCHANGED <<world, asked, proposals, passes, history>>

-----------------------------------------------------------------------------

Kill(a) ==
    /\ job[a] # Idle
    /\ Goto(a, Idle)
    /\ cut' = IF job[a].pc = "file" THEN cut \cup {job[a].signal} ELSE cut
    /\ UNCHANGED <<world, asked, proposals, passes, raced>>

Init ==
    /\ signals = <<>> /\ detections = 0 /\ asked = <<>>
    /\ claims = <<>> /\ proposals = <<>>
    /\ job = [a \in Actors |-> Idle]
    /\ passes = 0
    /\ raced = {} /\ cut = {}

Pass(a) ==
    \/ BeginOpen(a) \/ Collect(a) \/ Ask(a) \/ File(a)
    \/ BeginSemantic(a) \/ ReadFacts(a) \/ ReadQueue(a) \/ Consider(a) \/ NextPhase(a)
    \/ Kill(a)

Next ==
    \/ Detect \/ DetectAgain \/ Resolve \/ Learn \/ Correct \/ Reject \/ ApplyPromotion
    \/ \E a \in Actors : Pass(a)

Spec == Init /\ [][Next]_vars

-----------------------------------------------------------------------------
(* Properties. *)

Groups == [key: ({"exact", "tokens", "conflict", "latent", "latent ids"} \X SUBSET Nat),
           ids: SUBSET DOMAIN claims, text: Texts]
Signals == 1 .. MaxLoad

\* The types of the variables.
TypeOK ==
    /\ signals \in Seq([type: {"contradiction", "anomaly"}, a: Places, b: Places,
                        open: BOOLEAN, at: 0 .. MaxDetections])
    /\ detections \in 0 .. MaxDetections
    /\ asked \in Seq(DOMAIN signals)
    /\ claims \in Seq([text: Texts, state: {"long", "semantic", "corrected"},
                       trusted: BOOLEAN])
    /\ \A n \in DOMAIN proposals :
         /\ proposals[n].status \in {"queued", "rejected", "applied"}
         /\ proposals[n].rule = "open" =>
               proposals[n].ids \subseteq DOMAIN signals
         /\ proposals[n].rule = "promotion" =>
               proposals[n].rep \in proposals[n].ids /\ proposals[n].ids \subseteq DOMAIN claims
    /\ \A a \in Actors :
         /\ job[a].pc \in {"idle"} \cup OpenPass \cup SemanticPass
         /\ job[a].pc \in SemanticPass => job[a].ids \subseteq DOMAIN claims
         /\ job[a].pc = "group" => job[a].consumed \subseteq job[a].ids
    /\ passes \in 0 .. MaxPasses
    /\ cut \subseteq Signals

Of(s) == {n \in DOMAIN proposals : proposals[n].rule = "open" /\ proposals[n].ids = {s}}

\* A contradiction across two projects or two sessions.  Its proposal is filed
\* under the first; a pass for the second finds the signal and not the proposal.
Split(s) ==
    LET a == signals[s].a b == signals[s].b
    IN  \/ a.project # b.project /\ None \notin {a.project, b.project}
        \/ a.session # b.session /\ None \notin {a.session, b.session}

\* "open_decision_review_proposal_already_exists": the reviewer is asked about
\* a decision once, though it is resolved and detected again, rejected, looked
\* for in any project and any session, or its capture is killed and repeated.
\* Three things ask twice: passes that overlap, a contradiction that is split
\* over two projects or sessions, and a queue longer than the scan.
AskedOnce ==
    \A s \in DOMAIN signals :
        \/ Cardinality(Of(s)) <= 1
        \/ <<"open", {s}>> \in raced
        \/ Split(s)
        \/ Len(proposals) > ScanLimit

\* The claim of an open decision never waits without the proposal that brings
\* it to the reviewer, except where a process was killed between the two.
AskedIsFiled ==
    \A s \in DOMAIN signals \ cut :
        Cardinality({n \in DOMAIN asked : asked[n] = s}) =
            Cardinality(Of(s)) +
            Cardinality({a \in Actors : job[a].pc = "file" /\ job[a].signal = s})

\* "semantic_fact_already_exists", "semantic_promotion_proposal_already_exists":
\* what is a fact, is proposed as one or was refused as one is not proposed
\* again, in the same words or with the same tokens, and a review that is open
\* is not asked for twice; the exceptions are passes that overlap, a queue longer
\* than the scan, and latent groups of one pass that have no claim in common:
\* their key is the words they share, and these can be the same.
Namesake(p, m) ==
    /\ p.key[1] = "latent"
    /\ \E a \in Actors : job'[a] # job[a] /\ job[a].pc = "group" /\ m.ids \subseteq job[a].consumed
ProposedOnce ==
    [][\A n \in DOMAIN proposals' \ DOMAIN proposals :
         LET p == proposals'[n]
         IN  p.key \notin raced' /\ n <= ScanLimit =>
               /\ p.rule = "promotion" =>
                    /\ p.key \notin FactKeys
                    /\ \A m \in DOMAIN proposals :
                         proposals[m].rule = "promotion" /\ proposals[m].status # "applied"
                           => p.key \notin Keys(TextOf(proposals[m].rep))
               /\ p.rule = "review" =>
                    \A m \in DOMAIN proposals :
                       proposals[m].rule = "review" /\ proposals[m].key = p.key
                         => proposals[m].status = "rejected" \/ Namesake(p, proposals[m])]_vars

\* "reviewer resolution is required before any L4 proposal": when a pass is
\* through, a topic of which the claims it read say opposite things is before
\* the reviewer, if neither side is repeated.  (A side that is repeated is
\* proposed as a fact by itself, without a review of the conflict.)
Alone(i, ids) == \A g \in RepeatedGroups(ids) : i \in g.ids => Mixed(g.ids)
ConflictIsReviewed ==
    [][\A a \in Actors :
         job[a].pc = "group" /\ job[a].phase = "latent" /\ job[a].groups = {} =>
           \A i, j \in job[a].ids :
             LET on == {k \in job[a].ids : Topic(TextOf(k)) = Topic(TextOf(i))}
             IN  /\ j \in on /\ Negated[TextOf(i)] /\ ~Negated[TextOf(j)]
                 /\ Cardinality(Topic(TextOf(i))) >= MinTokens
                 /\ \A k \in on : claims[k].trusted /\ Alone(k, job[a].ids)
                 => \E n \in DOMAIN proposals :
                      /\ proposals[n].rule = "review"
                      /\ proposals[n].key = <<"conflict", Topic(TextOf(i))>>]_vars

=============================================================================
