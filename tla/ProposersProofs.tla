-------------------------- MODULE ProposersProofs ---------------------------
(***************************************************************************)
(* Proofs about the two proposers, for any number of processes, places,    *)
(* signals, claims and texts, and for any limits.                          *)
(*                                                                         *)
(* A pass acts on what it read steps before, on a queue that others fill.  *)
(* Grown says what may happen to the tables in the meantime: signals and   *)
(* claims keep what they are about, trust is only lost, and what is new in *)
(* the queue was put there by a pass that ran alone, or is in raced.       *)
(*                                                                         *)
(* Open decisions.  A decision an actor may still ask about has no         *)
(* proposal (Asks); its claims are counted against its proposals and the   *)
(* actors between the two (Files).                                         *)
(*                                                                         *)
(* Semantic passes.  Every fact and every proposal is among what the pass  *)
(* has read, came while it ran, or is its own, and then its claims are     *)
(* taken (Informed).  A topic of which the claims disagree keeps them      *)
(* through the repeated groups and its group through the conflicts, until  *)
(* it is considered (Follows).                                             *)
(***************************************************************************)
EXTENDS Proposers, TLAPS, FiniteSetTheorems, NaturalsInduction, WellFoundedInduction

SignalRow == [type: {"contradiction", "anomaly"}, a: Places, b: Places,
              open: BOOLEAN, at: 0 .. MaxDetections]
ClaimRow == [text: Texts, state: {"long", "semantic", "corrected"}, trusted: BOOLEAN]
ProposalFields == {"rule", "ids", "rep", "key", "place", "status"}
GroupFields == {"pc", "phase", "ids", "groups", "consumed", "seen", "promotions", "reviews"}

Tables ==
    /\ signals \in Seq(SignalRow) /\ claims \in Seq(ClaimRow)
    /\ asked \in Seq(DOMAIN signals)
    /\ 3 * Len(signals) + 2 * Len(claims) <= MaxLoad
    /\ detections \in 0 .. MaxDetections /\ passes \in 0 .. MaxPasses
    /\ cut \subseteq DOMAIN signals

\* A proposal is about one signal, or about claims that share a key.
Filed(p) ==
    /\ DOMAIN p = ProposalFields
    /\ p.status \in {"queued", "rejected", "applied"}
    /\ p.rule \in {"open", "promotion", "review"}
    /\ p.rule = "open" => \E s \in DOMAIN signals : p.ids = {s} /\ p.place = PlaceOf(s)
    /\ p.rule = "promotion" => p.rep \in p.ids /\ p.ids \subseteq DOMAIN claims
    /\ p.rule = "review" => p.ids # {} /\ (p.key[1] = "latent ids" => p.key[2] = p.ids)

Filings ==
    /\ \E S : proposals \in Seq(S)
    /\ \A n \in DOMAIN proposals : Filed(proposals[n])

\* A group has claims; one that shares too few words has them for a key.
Grouped(g, ids) ==
    /\ g.ids \subseteq ids /\ g.ids # {}
    /\ g.key[1] = "latent ids" => g.key[2] = g.ids

\* What an actor has read and has still to do.
Working(a) ==
    /\ job[a].pc \in {"idle"} \cup OpenPass \cup SemanticPass
    /\ job[a].pc = "collect" => job[a].scope \in Scopes
    /\ job[a].pc \in {"ask", "file"} => job[a].todo \subseteq DOMAIN signals
    /\ job[a].pc = "file" => job[a].signal \in DOMAIN signals \ job[a].todo
    /\ job[a].pc \in SemanticPass => job[a].ids \subseteq DOMAIN claims
    /\ job[a].pc = "group" =>
         /\ DOMAIN job[a] = GroupFields
         /\ job[a].phase \in {"repeated", "conflict", "latent"}
         /\ job[a].consumed \subseteq job[a].ids
         /\ \A g \in job[a].groups : Grouped(g, job[a].ids)

Types == Tables /\ Filings /\ DOMAIN job = Actors /\ \A a \in Actors : Working(a)

\* Signals and claims are added, and the older ones keep what they are about.
Kept ==
    /\ DOMAIN signals \subseteq DOMAIN signals'
    /\ \A s \in DOMAIN signals : /\ signals'[s].a = signals[s].a
                                 /\ signals'[s].b = signals[s].b
    /\ DOMAIN claims \subseteq DOMAIN claims'
    /\ \A i \in DOMAIN claims : /\ claims'[i].text = claims[i].text
                                /\ claims'[i].trusted => claims[i].trusted

\* The facts that are new and the proposals that are new, as the passes see
\* them that do not move.
NewFacts ==
    \A i \in DOMAIN claims' :
        claims'[i].state = "semantic" =>
            /\ i \in DOMAIN claims
            /\ \/ claims[i].state = "semantic"
               \/ \A a \in Actors : job[a].pc \notin SemanticPass
               \/ Keys(TextOf(i)) \subseteq raced'
NewProposals ==
    /\ DOMAIN proposals \subseteq DOMAIN proposals'
    /\ \A n \in DOMAIN proposals :
         /\ proposals'[n].rule = proposals[n].rule /\ proposals'[n].ids = proposals[n].ids
         /\ proposals'[n].rep = proposals[n].rep /\ proposals'[n].key = proposals[n].key
         /\ proposals'[n].place = proposals[n].place
         /\ proposals'[n].status = proposals[n].status \/ proposals[n].status = "queued"
    /\ \A n \in DOMAIN proposals' \ DOMAIN proposals :
         /\ n = Len(proposals) + 1 /\ n = Len(proposals')
         /\ proposals'[n].rule = "open" =>
              /\ proposals'[n].ids \subseteq DOMAIN signals
              /\ \A b \in Actors : job'[b] = job[b] /\ job[b].pc \in OpenPass
                    => <<"open", proposals'[n].ids>> \in raced'
         /\ proposals'[n].rule = "promotion" => proposals'[n].rep \in DOMAIN claims
         /\ proposals'[n].rule # "open" =>
              \A b \in Actors : job'[b] = job[b] /\ job[b].pc \in SemanticPass
                    => Settled(proposals'[n]) \subseteq raced'

Grown ==
    /\ Kept /\ NewFacts /\ NewProposals
    /\ raced \subseteq raced' /\ cut \subseteq cut'

-----------------------------------------------------------------------------
(* Sequences, the largest of a set, a move of an actor.                     *)

LEMMA Appended ==
    ASSUME NEW S, NEW q \in Seq(S), NEW x \in S
    PROVE  /\ Append(q, x) \in Seq(S) /\ Len(Append(q, x)) = Len(q) + 1
           /\ DOMAIN Append(q, x) = DOMAIN q \cup {Len(q) + 1}
           /\ DOMAIN q = 1 .. Len(q) /\ Len(q) \in Nat /\ Len(q) + 1 \notin DOMAIN q
           /\ \A n \in DOMAIN q : Append(q, x)[n] = q[n]
           /\ Append(q, x)[Len(q) + 1] = x
OBVIOUS

LEMMA Widened ==
    ASSUME NEW S, NEW T, S \subseteq T, NEW q \in Seq(S)
    PROVE  q \in Seq(T)
<1>1. q \in [1 .. Len(q) -> S] /\ Len(q) \in Nat
  OBVIOUS
<1>2. q \in [1 .. Len(q) -> T]
  BY <1>1
<1> QED
  BY <1>1, <1>2

LEMMA Replaced ==
    ASSUME NEW S, NEW q \in Seq(S), NEW x, NEW s \in S
    PROVE  [q EXCEPT ![x] = s] \in Seq(S) /\ Len([q EXCEPT ![x] = s]) = Len(q)
<1> DEFINE r == [q EXCEPT ![x] = s]
<1>1. Len(q) \in Nat /\ q \in [1 .. Len(q) -> S]
  OBVIOUS
<1>2. r \in [1 .. Len(q) -> S]
  BY <1>1
<1> HIDE DEF r
<1>3. r \in Seq(S) /\ Len(r) = Len(q)
  BY <1>1, <1>2
<1> QED
  BY <1>3 DEF r

LEMMA Largest ==
    ASSUME NEW n \in Nat, NEW S \in SUBSET (1 .. n), S # {}
    PROVE  Max(S) \in S
<1> DEFINE R == {ss \in Nat \X Nat : ss[1] < ss[2]}
           Ages == {n - e : e \in S}
<1>1. IsWellFoundedOn(R, Nat)
  <2>1. R = OpToRel(<, Nat)
    BY Zenon DEF OpToRel
  <2> QED
    BY <2>1, NatLessThanWellFounded
<1>2. Ages \subseteq Nat /\ Ages # {}
  <2>1. \A e \in S : n - e \in Nat
    OBVIOUS
  <2> QED
    BY <2>1
<1>3. PICK x \in Ages : \A y \in Ages : <<y, x>> \notin R
  <2> HIDE DEF Ages, R
  <2> QED
    BY <1>1, <1>2, WFMin
<1>4. PICK m \in S : x = n - m
  OBVIOUS
<1>5. ASSUME NEW e \in S PROVE m >= e
  <2>1. n - e \in Nat /\ n - m \in Nat /\ m \in Nat /\ e \in Nat
    OBVIOUS
  <2>2. <<n - e, n - m>> \notin R
    BY <1>3, <1>4
  <2>3. ~(n - e < n - m)
    BY <2>1, <2>2
  <2> QED
    BY <2>1, <2>3
<1> QED
  BY <1>5 DEF Max

LEMMA Went ==
    ASSUME DOMAIN job = Actors, NEW a \in Actors, NEW j, Goto(a, j)
    PROVE  /\ DOMAIN job' = Actors /\ job'[a] = j
           /\ \A b \in Actors \ {a} : job'[b] = job[b]
BY DEF Goto

\* What was read stays good.
LEMMA Carried ==
    ASSUME Kept
    PROVE  /\ \A p : Filed(p) => Filed(p)'
           /\ \A a \in Actors : Working(a) /\ job'[a] = job[a] => Working(a)'
<1>1. \A p : Filed(p) => Filed(p)'
  BY DEF Kept, Filed, PlaceOf
<1>2. ASSUME NEW a \in Actors, Working(a), job'[a] = job[a] PROVE Working(a)'
  BY <1>2 DEF Kept, Working
<1> QED
  BY <1>1, <1>2

LEMMA Queued ==
    ASSUME Filings, NEW p, Queue(p)
    PROVE  /\ \E S : proposals' \in Seq(S)
           /\ DOMAIN proposals' = DOMAIN proposals \cup {Len(proposals) + 1}
           /\ Len(proposals) + 1 \notin DOMAIN proposals
           /\ Len(proposals') = Len(proposals) + 1
           /\ \A n \in DOMAIN proposals : proposals'[n] = proposals[n]
           /\ proposals'[Len(proposals) + 1] = p
<1>1. PICK S : proposals \in Seq(S)
  BY DEF Filings
<1>2. proposals \in Seq(S \cup {p})
  BY <1>1, Widened
<1>3. proposals' = Append(proposals, p) /\ p \in S \cup {p}
  BY DEF Queue
<1> QED
  BY <1>2, <1>3, Appended

\* A proposal that is decided.
LEMMA Decided ==
    ASSUME Filings, NEW n \in DOMAIN proposals, NEW status \in {"rejected", "applied"},
           proposals[n].status = "queued", proposals' = [proposals EXCEPT ![n].status = status]
    PROVE  /\ \E S : proposals' \in Seq(S)
           /\ DOMAIN proposals' = DOMAIN proposals /\ Len(proposals') = Len(proposals)
           /\ \A m \in DOMAIN proposals \ {n} : proposals'[m] = proposals[m]
           /\ proposals'[n].status = status
           /\ \A m \in DOMAIN proposals :
                /\ proposals'[m].rule = proposals[m].rule /\ proposals'[m].ids = proposals[m].ids
                /\ proposals'[m].rep = proposals[m].rep /\ proposals'[m].key = proposals[m].key
                /\ proposals'[m].place = proposals[m].place
                /\ proposals'[m].status \in {proposals[m].status, status}
                /\ proposals'[m].status = proposals[m].status \/ proposals[m].status = "queued"
                /\ DOMAIN proposals'[m] = DOMAIN proposals[m]
<1> DEFINE s == [proposals[n] EXCEPT !.status = status]
<1>1. proposals' = [proposals EXCEPT ![n] = s]
  OBVIOUS
<1>2. PICK S : proposals \in Seq(S)
  BY DEF Filings
<1>3. DOMAIN proposals[n] = ProposalFields
  BY DEF Filings, Filed
<1>4. /\ s.rule = proposals[n].rule /\ s.ids = proposals[n].ids /\ s.rep = proposals[n].rep
      /\ s.key = proposals[n].key /\ s.place = proposals[n].place
      /\ s.status = status /\ DOMAIN s = DOMAIN proposals[n]
  BY <1>3 DEF ProposalFields
<1> HIDE DEF s
<1>5. proposals \in Seq(S \cup {s})
  BY <1>2, Widened
<1>6. proposals' \in Seq(S \cup {s}) /\ Len(proposals') = Len(proposals)
  BY <1>1, <1>5, Replaced
<1>7. /\ DOMAIN proposals' = DOMAIN proposals /\ proposals'[n] = s
      /\ \A m \in DOMAIN proposals \ {n} : proposals'[m] = proposals[m]
  BY <1>1
<1>8. ASSUME NEW m \in DOMAIN proposals
      PROVE  /\ proposals'[m].rule = proposals[m].rule /\ proposals'[m].ids = proposals[m].ids
             /\ proposals'[m].rep = proposals[m].rep /\ proposals'[m].key = proposals[m].key
             /\ proposals'[m].place = proposals[m].place
             /\ proposals'[m].status \in {proposals[m].status, status}
             /\ proposals'[m].status = proposals[m].status \/ proposals[m].status = "queued"
             /\ DOMAIN proposals'[m] = DOMAIN proposals[m]
  <2>1. CASE m = n
    BY <1>4, <1>7, <2>1
  <2>2. CASE m # n
    BY <1>7, <2>2
  <2> QED
    BY <2>1, <2>2
<1> QED
  BY <1>4, <1>6, <1>7, <1>8

\* Groups are of claims the pass has read.
LEMMA OfRepeated ==
    ASSUME NEW ids, NEW g \in RepeatedGroups(ids)
    PROVE  /\ Grouped(g, ids) /\ g.key[1] # "latent ids" /\ g.key[1] # "latent"
           /\ g.ids = {i \in ids : g.key \in Keys(TextOf(i))}
           /\ Cardinality(g.ids) >= MinSupport
<1>1. PICK k : /\ \E i \in ids : k \in Keys(TextOf(i))
               /\ g = Group(k, {i \in ids : k \in Keys(TextOf(i))},
                            TextOf(Max({i \in ids : k \in Keys(TextOf(i))})))
  BY DEF RepeatedGroups
<1>2. g.key = k /\ g.ids = {i \in ids : k \in Keys(TextOf(i))}
  BY <1>1 DEF Group
<1>3. k[1] \in {"exact", "tokens"}
  BY <1>1 DEF Keys
<1>4. Cardinality(g.ids) >= MinSupport
  BY DEF RepeatedGroups
<1> QED
  BY <1>1, <1>2, <1>3, <1>4 DEF Grouped

LEMMA OfConflict ==
    ASSUME NEW ids, NEW g \in ConflictGroups(ids)
    PROVE  /\ Grouped(g, ids)
           /\ \E x : g.key = <<"conflict", x>> /\ g.ids = {i \in ids : Topic(TextOf(i)) = x}
           /\ g.key[1] = "conflict"
           /\ \A h \in ConflictGroups(ids) : h.key = g.key => h = g
<1>1. PICK x \in {Topic(TextOf(i)) : i \in ids} :
         g = Group(<<"conflict", x>>, {i \in ids : Topic(TextOf(i)) = x},
                   Min({TextOf(i) : i \in {i \in ids : Topic(TextOf(i)) = x}}))
  BY DEF ConflictGroups
<1>2. g.key = <<"conflict", x>> /\ g.ids = {i \in ids : Topic(TextOf(i)) = x}
  BY <1>1 DEF Group
<1>3. g.ids # {} /\ g.ids \subseteq ids
  BY <1>2
<1>4. g.key[1] = "conflict"
  BY <1>2
<1>5. ASSUME NEW h \in ConflictGroups(ids), h.key = g.key PROVE h = g
  <2>1. PICK y \in {Topic(TextOf(i)) : i \in ids} :
           h = Group(<<"conflict", y>>, {i \in ids : Topic(TextOf(i)) = y},
                     Min({TextOf(i) : i \in {i \in ids : Topic(TextOf(i)) = y}}))
    BY <1>5 DEF ConflictGroups
  <2>2. h.key = <<"conflict", y>>
    BY <2>1 DEF Group
  <2>3. y = x
    BY <1>2, <1>5, <2>2
  <2> QED
    BY <1>1, <2>1, <2>3
<1> QED
  BY <1>2, <1>3, <1>4, <1>5 DEF Grouped

LEMMA OfLatent ==
    ASSUME NEW ids, NEW g \in LatentGroups(ids)
    PROVE  Grouped(g, ids) /\ g.key[1] \in {"latent", "latent ids"}
<1> DEFINE rich == {i \in ids : Cardinality(Tokens[TextOf(i)]) >= MinTokens}
           Around(i) == {i} \cup {j \in rich : Near(Tokens[TextOf(i)], Tokens[TextOf(j)])}
           Shared(i) == {t \in Tokens[TextOf(i)] : \A j \in Around(i) : t \in Tokens[TextOf(j)]}
           KeyOf(i) == IF Cardinality(Shared(i)) >= 4
                       THEN <<"latent", Shared(i)>> ELSE <<"latent ids", Around(i)>>
<1>1. PICK i \in rich : g = Group(KeyOf(i), Around(i), TextOf(i))
  BY DEF LatentGroups
<1>2. g.key = KeyOf(i) /\ g.ids = Around(i)
  BY <1>1 DEF Group
<1>3. Around(i) \subseteq ids /\ Around(i) # {}
  OBVIOUS
<1> HIDE DEF Around
<1>4. \/ KeyOf(i)[1] = "latent"
      \/ KeyOf(i)[1] = "latent ids" /\ KeyOf(i)[2] = Around(i)
  OBVIOUS
<1> HIDE DEF KeyOf
<1> QED
  BY <1>2, <1>3, <1>4 DEF Grouped

-----------------------------------------------------------------------------
(* Types.                                                                   *)

LEMMA TypesInit == Init => Types
<1> SUFFICES ASSUME Init PROVE Types
  OBVIOUS
<1>1. /\ signals = <<>> /\ claims = <<>> /\ asked = <<>> /\ proposals = <<>>
      /\ job = [a \in Actors |-> Idle]
  BY DEF Init
<1>2. Tables
  BY <1>1, BoundsAssumption DEF Init, Tables
<1>3. Filings
  BY <1>1 DEF Filings
<1>4. \A a \in Actors : Working(a)
  BY <1>1 DEF Working, Idle, OpenPass, SemanticPass
<1> QED
  BY <1>1, <1>2, <1>3, <1>4 DEF Types

\* A group that is done.
LEMMA Finished ==
    ASSUME Types, NEW a \in Actors, job[a].pc = "group", NEW g \in job[a].groups, NEW taken,
           Done(a, g, taken)
    PROVE  /\ job'[a].pc = "group" /\ DOMAIN job'[a] = GroupFields
           /\ job'[a].phase = job[a].phase /\ job'[a].ids = job[a].ids
           /\ job'[a].groups = job[a].groups \ {g} /\ job'[a].seen = job[a].seen \cup {g.ids}
           /\ job'[a].consumed = job[a].consumed \cup (IF taken THEN g.ids ELSE {})
           /\ job'[a].promotions = job[a].promotions /\ job'[a].reviews = job[a].reviews
           /\ job'[a] # job[a]
           /\ DOMAIN job' = Actors /\ \A b \in Actors \ {a} : job'[b] = job[b]
<1> DEFINE j == [job[a] EXCEPT !.groups = @ \ {g}, !.seen = @ \cup {g.ids},
                               !.consumed = @ \cup (IF taken THEN g.ids ELSE {})]
<1>1. DOMAIN job[a] = GroupFields /\ DOMAIN job = Actors
  BY DEF Types, Working
<1>2. /\ j.pc = "group" /\ DOMAIN j = GroupFields
      /\ j.phase = job[a].phase /\ j.ids = job[a].ids
      /\ j.groups = job[a].groups \ {g} /\ j.seen = job[a].seen \cup {g.ids}
      /\ j.consumed = job[a].consumed \cup (IF taken THEN g.ids ELSE {})
      /\ j.promotions = job[a].promotions /\ j.reviews = job[a].reviews
  BY <1>1 DEF GroupFields
<1>3. job'[a] = j /\ DOMAIN job' = Actors /\ \A b \in Actors \ {a} : job'[b] = job[b]
  BY <1>1, Went DEF Done
<1> HIDE DEF j
<1> QED
  BY <1>2, <1>3

\* It leaves the pass at work.
LEMMA StillWorking ==
    ASSUME Types, NEW a \in Actors, job[a].pc = "group", NEW g \in job[a].groups, NEW taken,
           Done(a, g, taken), UNCHANGED <<signals, claims>>
    PROVE  Working(a)'
<1>1. /\ job'[a].pc = "group" /\ DOMAIN job'[a] = GroupFields
      /\ job'[a].phase = job[a].phase /\ job'[a].ids = job[a].ids
      /\ job'[a].groups = job[a].groups \ {g}
      /\ job'[a].consumed = job[a].consumed \cup (IF taken THEN g.ids ELSE {})
  BY Finished
<1>2. /\ job[a].ids \subseteq DOMAIN claims /\ job[a].phase \in {"repeated", "conflict", "latent"}
      /\ job[a].consumed \subseteq job[a].ids
      /\ \A h \in job[a].groups : Grouped(h, job[a].ids)
  BY DEF Types, Working, SemanticPass
<1>3. job'[a].consumed \subseteq job'[a].ids
  BY <1>1, <1>2 DEF Grouped
<1> QED
  BY <1>1, <1>2, <1>3 DEF Working, OpenPass, SemanticPass

\* A pass goes on to groups of another kind, or it is through.
LEMMA Advanced ==
    ASSUME Types, NEW a \in Actors, NextPhase(a)
    PROVE  \E j : /\ Goto(a, j)
                  /\ \/ j = Idle /\ job[a].phase = "latent"
                     \/ /\ job[a].phase = "repeated"
                        /\ j = [job[a] EXCEPT !.phase = "conflict",
                                              !.groups = ConflictGroups(job[a].ids \ job[a].consumed)]
                     \/ /\ job[a].phase = "conflict"
                        /\ j = [job[a] EXCEPT !.phase = "latent",
                                              !.groups = LatentGroups(job[a].ids \ job[a].consumed)]
                  /\ j.pc \in {"idle", "group"}
<1> DEFINE left == job[a].ids \ job[a].consumed
<1>1. /\ job[a].pc = "group" /\ DOMAIN job[a] = GroupFields
      /\ job[a].phase \in {"repeated", "conflict", "latent"}
  BY DEF NextPhase, Types, Working
<1>2. CASE job[a].phase = "repeated"
  <2> DEFINE j == [job[a] EXCEPT !.phase = "conflict", !.groups = ConflictGroups(left)]
  <2>1. Goto(a, j)
    BY <1>2 DEF NextPhase
  <2>2. j.pc = "group"
    BY <1>1
  <2> QED
    BY <1>2, <2>1, <2>2
<1>3. CASE job[a].phase = "conflict"
  <2> DEFINE j == [job[a] EXCEPT !.phase = "latent", !.groups = LatentGroups(left)]
  <2>1. Goto(a, j)
    BY <1>3 DEF NextPhase
  <2>2. j.pc = "group"
    BY <1>1
  <2> QED
    BY <1>3, <2>1, <2>2
<1>4. CASE job[a].phase = "latent"
  BY <1>4 DEF NextPhase, Idle
<1> QED
  BY <1>1, <1>2, <1>3, <1>4

\* A group of a pass is considered: it is done, and what is filed is new to the pass.
Promotion(g) == Proposal("promotion", g.ids, Max(g.ids), g.key, HomeOf(g))
Review(g) == Proposal("review", g.ids, 0, g.key, HomeOf(g))

LEMMA Outcome ==
    ASSUME NEW a \in Actors, Consider(a)
    PROVE  \E g \in job[a].groups :
              /\ job[a].pc = "group"
              /\ \/ \E taken \in BOOLEAN :
                       /\ Done(a, g, taken) /\ UNCHANGED <<proposals, raced>>
                       /\ job[a].phase = "repeated" /\ taken => Promotable(job[a], g)
                       /\ job[a].phase # "repeated" =>
                            \/ g.ids \cap job[a].consumed # {}
                            \/ g.key \in job[a].reviews \/ ~Trusted(g)
                 \/ /\ job[a].phase = "repeated" /\ Promotable(job[a], g) /\ Trusted(g)
                    /\ g.key \notin job[a].promotions /\ Propose(a, g, Promotion(g))
                 \/ /\ job[a].phase # "repeated" /\ g.ids \cap job[a].consumed = {} /\ Trusted(g)
                    /\ g.key \notin job[a].reviews /\ Propose(a, g, Review(g))
<1>1. PICK g \in job[a].groups :
         /\ job[a].phase = "repeated" => ConsiderRepeated(a, g)
         /\ job[a].phase # "repeated" => ConsiderReview(a, g)
  BY DEF Consider
<1>2. job[a].pc = "group"
  BY DEF Consider
<1>3. CASE job[a].phase = "repeated"
  BY <1>1, <1>2, <1>3 DEF ConsiderRepeated, Promotion
<1>4. CASE job[a].phase # "repeated"
  BY <1>1, <1>2, <1>4 DEF ConsiderReview, Review
<1> QED
  BY <1>3, <1>4

LEMMA Considered ==
    ASSUME Types, NEW a \in Actors, Consider(a)
    PROVE  \E g \in job[a].groups, taken \in BOOLEAN :
              /\ job[a].pc = "group" /\ Done(a, g, taken)
              /\ \A n \in DOMAIN proposals' \ DOMAIN proposals : proposals'[n].rule # "open"
<1>1. PICK g \in job[a].groups :
         /\ job[a].pc = "group"
         /\ \/ \E taken \in BOOLEAN : Done(a, g, taken) /\ UNCHANGED proposals
            \/ \E p \in {Promotion(g), Review(g)} : Propose(a, g, p)
  BY Outcome
<1>2. ASSUME NEW p \in {Promotion(g), Review(g)}, Propose(a, g, p)
      PROVE  /\ Done(a, g, TRUE)
             /\ \A n \in DOMAIN proposals' \ DOMAIN proposals : proposals'[n].rule # "open"
  <2>1. p.rule # "open"
    BY <1>2 DEF Promotion, Review, Proposal
  <2> QED
    BY <1>2, <2>1, Queued DEF Types, Propose
<1> QED
  BY <1>1, <1>2

\* The queue stands.
LEMMA NoneFiled == Filings /\ UNCHANGED proposals => NewProposals
BY DEF Filings, Filed, NewProposals

LEMMA TypesStep == Types /\ [Next]_vars => Types' /\ Grown
<1> SUFFICES ASSUME Types, [Next]_vars PROVE Types' /\ Grown
  OBVIOUS
<1>1. /\ Tables /\ Filings /\ DOMAIN job = Actors /\ \A a \in Actors : Working(a)
  BY DEF Types
<1>2. /\ signals \in Seq(SignalRow) /\ claims \in Seq(ClaimRow) /\ asked \in Seq(DOMAIN signals)
      /\ Len(signals) \in Nat /\ Len(claims) \in Nat
      /\ DOMAIN signals = 1 .. Len(signals) /\ DOMAIN claims = 1 .. Len(claims)
      /\ \A s \in DOMAIN signals : signals[s] \in SignalRow
      /\ \A i \in DOMAIN claims : claims[i] \in ClaimRow
  BY <1>1 DEF Tables
\* What the passes look at changes, they stand still.
<1>3. ASSUME Kept, Tables', UNCHANGED <<job, proposals, raced, cut>>, NewFacts
      PROVE  Types' /\ Grown
  <2>1. \A a \in Actors : Working(a)'
    BY <1>1, <1>3, Carried
  <2>2. Filings'
    BY <1>1, <1>3, Carried DEF Filings
  <2> QED
    BY <1>1, <1>3, <2>1, <2>2, NoneFiled DEF Types, Grown
\* An actor moves and files nothing.
<1>4. ASSUME UNCHANGED <<signals, detections, claims, proposals, raced>>,
             asked' \in Seq(DOMAIN signals), passes' \in 0 .. MaxPasses,
             cut \subseteq cut', cut' \subseteq DOMAIN signals,
             NEW a \in Actors, NEW j, Goto(a, j),
             job'[a] = j => Working(a)'
      PROVE  Types' /\ Grown
  <2>1. Kept /\ NewFacts
    BY <1>4 DEF Kept, NewFacts
  <2>2. DOMAIN job' = Actors /\ \A b \in Actors : Working(b)'
    BY <1>1, <1>4, <2>1, Went, Carried
  <2>3. Filings'
    BY <1>1, <1>4, <2>1, Carried DEF Filings
  <2>4. Tables'
    BY <1>1, <1>4 DEF Tables
  <2> QED
    BY <1>1, <1>4, <2>1, <2>2, <2>3, <2>4, NoneFiled DEF Types, Grown
\* An actor files a proposal.
<1>5. ASSUME UNCHANGED <<signals, detections, claims, asked, passes, cut>>,
             NEW a \in Actors, NEW j, Goto(a, j), job'[a] = j => Working(a)', j # job[a],
             NEW p, Queue(p), Filed(p), raced \subseteq raced',
             p.rule = "open" => \A b \in Others(a, OpenPass) : <<"open", p.ids>> \in raced',
             p.rule # "open" => \A b \in Others(a, SemanticPass) : Settled(p) \subseteq raced'
      PROVE  Types' /\ Grown
  <2>1. Kept /\ NewFacts
    BY <1>5 DEF Kept, NewFacts
  <2>2. /\ DOMAIN job' = Actors /\ \A b \in Actors : Working(b)'
        /\ \A b \in Actors : job'[b] = job[b] => b # a
    BY <1>1, <1>5, <2>1, Went, Carried
  <2>3. /\ \E S : proposals' \in Seq(S)
        /\ DOMAIN proposals' = DOMAIN proposals \cup {Len(proposals) + 1}
        /\ Len(proposals) + 1 \notin DOMAIN proposals
        /\ Len(proposals') = Len(proposals) + 1
        /\ \A n \in DOMAIN proposals : proposals'[n] = proposals[n]
        /\ proposals'[Len(proposals) + 1] = p
    BY <1>1, <1>5, Queued
  <2>4. Filings'
    BY <1>1, <1>5, <2>1, <2>3, Carried DEF Filings
  <2>5. Tables'
    BY <1>1, <1>5 DEF Tables
  <2>6. NewProposals
    <3>1. \A b \in Actors : job'[b] = job[b] /\ job[b].pc \in OpenPass => b \in Others(a, OpenPass)
      BY <2>2 DEF Others
    <3>2. \A b \in Actors : job'[b] = job[b] /\ job[b].pc \in SemanticPass
             => b \in Others(a, SemanticPass)
      BY <2>2 DEF Others
    <3>3. /\ p.rule = "open" => p.ids \subseteq DOMAIN signals
          /\ p.rule = "promotion" => p.rep \in DOMAIN claims
      BY <1>5 DEF Filed
    <3> QED
      BY <1>5, <2>3, <3>1, <3>2, <3>3 DEF NewProposals
  <2> QED
    BY <1>5, <2>1, <2>2, <2>4, <2>5, <2>6 DEF Types, Grown
<1>6. CASE Detect
  <2>1. PICK t \in {"contradiction", "anomaly"}, a \in Places, b \in Places :
           signals' = Append(signals, [type |-> t, a |-> a, b |-> b, open |-> TRUE, at |-> detections])
    BY <1>6 DEF Detect
  <2> DEFINE row == [type |-> t, a |-> a, b |-> b, open |-> TRUE, at |-> detections]
  <2>2. row \in SignalRow
    BY <1>1 DEF SignalRow, Tables
  <2>3. signals' = Append(signals, row)
    BY <2>1
  <2> HIDE DEF row
  <2>4. /\ signals' \in Seq(SignalRow) /\ Len(signals') = Len(signals) + 1
        /\ DOMAIN signals \subseteq DOMAIN signals'
        /\ \A s \in DOMAIN signals : signals'[s] = signals[s]
    BY <1>2, <2>2, <2>3, Appended
  <2>5. UNCHANGED <<asked, claims, proposals, job, passes, raced, cut>>
    BY <1>6 DEF Detect, history
  <2>6. Kept /\ NewFacts
    BY <2>4, <2>5 DEF Kept, NewFacts
  <2>7. asked' \in Seq(DOMAIN signals')
    BY <1>2, <2>4, <2>5, Widened
  <2>8. detections' \in 0 .. MaxDetections
    BY <1>1, <1>6, BoundsAssumption DEF Detect, Tables
  <2>9. 3 * Len(signals') + 2 * Len(claims') <= MaxLoad
    BY <1>6, <2>4, <2>5 DEF Detect
  <2>10. Tables'
    BY <1>1, <2>4, <2>5, <2>7, <2>8, <2>9 DEF Tables
  <2> QED
    BY <1>3, <2>5, <2>6, <2>10
\* A signal is written again.
<1>7. ASSUME NEW s \in DOMAIN signals, NEW row \in SignalRow, row.a = signals[s].a,
             row.b = signals[s].b, signals' = [signals EXCEPT ![s] = row],
             detections' \in 0 .. MaxDetections,
             UNCHANGED <<asked, claims, proposals, job, passes, raced, cut>>
      PROVE  Types' /\ Grown
  <2>1. signals' \in Seq(SignalRow) /\ Len(signals') = Len(signals)
    BY <1>2, <1>7, Replaced
  <2>2. DOMAIN signals' = DOMAIN signals
    BY <1>7
  <2>3. \A t \in DOMAIN signals : signals'[t].a = signals[t].a /\ signals'[t].b = signals[t].b
    BY <1>7
  <2>4. Kept /\ NewFacts
    BY <1>7, <2>2, <2>3 DEF Kept, NewFacts
  <2>5. Tables'
    BY <1>1, <1>7, <2>1, <2>2 DEF Tables
  <2> QED
    BY <1>3, <1>7, <2>4, <2>5
<1>8. CASE DetectAgain
  <2>1. PICK s \in DOMAIN signals :
           signals' = [signals EXCEPT ![s].open = TRUE, ![s].at = detections]
    BY <1>8 DEF DetectAgain
  <2>2. PICK row : /\ row = [signals[s] EXCEPT !.open = TRUE, !.at = detections]
                   /\ signals' = [signals EXCEPT ![s] = row]
    <3>1. DOMAIN signals[s] = {"type", "a", "b", "open", "at"}
      BY <1>2 DEF SignalRow
    <3> QED
      BY <2>1, <3>1
  <2>3. row \in SignalRow /\ row.a = signals[s].a /\ row.b = signals[s].b
    <3>1. detections \in 0 .. MaxDetections /\ signals[s] \in SignalRow
      BY <1>1, <1>2 DEF Tables
    <3> QED
      BY <2>2, <3>1 DEF SignalRow
  <2>4. detections' \in 0 .. MaxDetections
    BY <1>1, <1>8, BoundsAssumption DEF DetectAgain, Tables
  <2> QED
    BY <1>7, <1>8, <2>2, <2>3, <2>4 DEF DetectAgain, history
<1>9. CASE Resolve
  <2>1. PICK s \in DOMAIN signals : signals' = [signals EXCEPT ![s].open = FALSE]
    BY <1>9 DEF Resolve
  <2>2. PICK row : /\ row = [signals[s] EXCEPT !.open = FALSE]
                   /\ signals' = [signals EXCEPT ![s] = row]
    BY <2>1
  <2>3. row \in SignalRow /\ row.a = signals[s].a /\ row.b = signals[s].b
    BY <1>2, <2>2 DEF SignalRow
  <2>4. detections' \in 0 .. MaxDetections
    BY <1>1, <1>9 DEF Resolve, Tables
  <2> QED
    BY <1>7, <1>9, <2>2, <2>3, <2>4 DEF Resolve, history
<1>10. CASE Learn
  <2>1. PICK t \in Texts : claims' = Append(claims, [text |-> t, state |-> "long", trusted |-> TRUE])
    BY <1>10 DEF Learn
  <2> DEFINE row == [text |-> t, state |-> "long", trusted |-> TRUE]
  <2>2. row \in ClaimRow
    BY DEF ClaimRow
  <2>3. claims' = Append(claims, row) /\ row.state = "long"
    BY <2>1
  <2> HIDE DEF row
  <2>4. /\ claims' \in Seq(ClaimRow) /\ Len(claims') = Len(claims) + 1
        /\ DOMAIN claims' = DOMAIN claims \cup {Len(claims) + 1}
        /\ \A i \in DOMAIN claims : claims'[i] = claims[i]
        /\ claims'[Len(claims) + 1].state = "long"
    BY <1>2, <2>2, <2>3, Appended
  <2>5. UNCHANGED <<signals, detections, asked, proposals, job, passes, raced, cut>>
    BY <1>10 DEF Learn, history
  <2>6. Kept /\ NewFacts
    BY <2>4, <2>5 DEF Kept, NewFacts
  <2>7. 3 * Len(signals') + 2 * Len(claims') <= MaxLoad
    BY <1>10, <2>4, <2>5 DEF Learn
  <2>8. Tables'
    BY <1>1, <2>4, <2>5, <2>7 DEF Tables
  <2> QED
    BY <1>3, <2>5, <2>6, <2>8
\* A claim is written again.
<1>11. ASSUME NEW i \in DOMAIN claims, NEW row \in ClaimRow, row.text = claims[i].text,
              row.trusted => claims[i].trusted, claims' = [claims EXCEPT ![i] = row]
       PROVE  /\ claims' \in Seq(ClaimRow) /\ Len(claims') = Len(claims)
              /\ DOMAIN claims' = DOMAIN claims
              /\ \A k \in DOMAIN claims : /\ claims'[k].text = claims[k].text
                                          /\ claims'[k].trusted => claims[k].trusted
              /\ \A k \in DOMAIN claims \ {i} : claims'[k] = claims[k]
              /\ claims'[i] = row
  <2>1. claims' \in Seq(ClaimRow) /\ Len(claims') = Len(claims)
    BY <1>2, <1>11, Replaced
  <2>2. /\ DOMAIN claims' = DOMAIN claims /\ claims'[i] = row
        /\ \A k \in DOMAIN claims \ {i} : claims'[k] = claims[k]
    BY <1>11
  <2>3. ASSUME NEW k \in DOMAIN claims
        PROVE  claims'[k].text = claims[k].text /\ (claims'[k].trusted => claims[k].trusted)
    BY <1>11, <2>2
  <2> QED
    BY <2>1, <2>2, <2>3
<1>12. CASE Correct
  <2>1. PICK i \in DOMAIN claims : \/ claims' = [claims EXCEPT ![i].trusted = FALSE]
                                   \/ claims' = [claims EXCEPT ![i].state = "corrected"]
    BY <1>12 DEF Correct
  <2>2. PICK row : /\ \/ row = [claims[i] EXCEPT !.trusted = FALSE]
                      \/ row = [claims[i] EXCEPT !.state = "corrected"]
                   /\ claims' = [claims EXCEPT ![i] = row]
    BY <2>1
  <2>3. /\ row \in ClaimRow /\ row.text = claims[i].text /\ (row.trusted => claims[i].trusted)
        /\ row.state = "semantic" => claims[i].state = "semantic"
    <3>1. claims[i] \in ClaimRow
      BY <1>2
    <3>2. CASE row = [claims[i] EXCEPT !.trusted = FALSE]
      BY <3>1, <3>2 DEF ClaimRow
    <3>3. CASE row = [claims[i] EXCEPT !.state = "corrected"]
      BY <3>1, <3>3 DEF ClaimRow
    <3> QED
      BY <2>2, <3>2, <3>3
  <2>4. UNCHANGED <<signals, detections, asked, proposals, job, passes, raced, cut>>
    BY <1>12 DEF Correct, history
  <2>5. Kept
    BY <1>11, <2>2, <2>3, <2>4 DEF Kept
  <2>6. NewFacts
    BY <1>11, <2>2, <2>3 DEF NewFacts
  <2>7. Tables'
    BY <1>1, <1>11, <2>2, <2>3, <2>4 DEF Tables
  <2> QED
    BY <1>3, <2>4, <2>5, <2>6, <2>7
\* A proposal is decided.
<1>13. ASSUME NEW n \in DOMAIN proposals, NEW status \in {"rejected", "applied"},
              proposals[n].status = "queued", proposals' = [proposals EXCEPT ![n].status = status],
              Kept
       PROVE  Filings' /\ NewProposals
  <2>1. /\ \E S : proposals' \in Seq(S)
        /\ DOMAIN proposals' = DOMAIN proposals
        /\ \A m \in DOMAIN proposals :
                /\ proposals'[m].rule = proposals[m].rule /\ proposals'[m].ids = proposals[m].ids
                /\ proposals'[m].rep = proposals[m].rep /\ proposals'[m].key = proposals[m].key
                /\ proposals'[m].place = proposals[m].place
                /\ proposals'[m].status \in {proposals[m].status, status}
                /\ proposals'[m].status = proposals[m].status \/ proposals[m].status = "queued"
                /\ DOMAIN proposals'[m] = DOMAIN proposals[m]
    BY <1>1, <1>13, Decided
  <2>2. ASSUME NEW p, Filed(p), NEW q, q.rule = p.rule, q.ids = p.ids, q.rep = p.rep, q.key = p.key,
               q.place = p.place, q.status \in {p.status, status}, DOMAIN q = DOMAIN p
        PROVE  Filed(q)'
    BY <1>13, <2>2 DEF Filed, Kept, PlaceOf
  <2>3. \A m \in DOMAIN proposals : Filed(proposals[m])
    BY <1>1 DEF Filings
  <2>4. Filings'
    BY <2>1, <2>2, <2>3 DEF Filings
  <2>5. NewProposals
    BY <2>1 DEF NewProposals
  <2> QED
    BY <2>4, <2>5

<1>14. CASE Reject
  <2>1. UNCHANGED <<signals, detections, claims, asked, job, passes, raced, cut>>
    BY <1>14 DEF Reject, world, history
  <2>2. Kept /\ NewFacts
    BY <2>1 DEF Kept, NewFacts
  <2>3. Filings' /\ NewProposals
    BY <1>13, <1>14, <2>2 DEF Reject
  <2>4. Tables'
    BY <1>1, <2>1 DEF Tables
  <2>5. \A a \in Actors : Working(a)'
    BY <1>1, <2>1, <2>2, Carried
  <2> QED
    BY <1>1, <2>1, <2>2, <2>3, <2>4, <2>5 DEF Types, Grown
<1>15. CASE ApplyPromotion
  <2>1. PICK n \in DOMAIN proposals :
           LET p == proposals[n]
           IN  /\ p.rule = "promotion" /\ p.status = "queued"
               /\ proposals' = [proposals EXCEPT ![n].status = "applied"]
               /\ claims' = [claims EXCEPT ![p.rep].state = "semantic"]
               /\ raced' = IF \E a \in Actors : job[a].pc \in SemanticPass
                           THEN raced \cup Keys(claims[p.rep].text) ELSE raced
    BY <1>15 DEF ApplyPromotion
  <2> DEFINE i == proposals[n].rep
  <2>2. i \in DOMAIN claims
    BY <1>1, <2>1 DEF Filings, Filed
  <2>3. PICK row : row = [claims[i] EXCEPT !.state = "semantic"] /\ claims' = [claims EXCEPT ![i] = row]
    BY <2>1
  <2>4. row \in ClaimRow /\ row.text = claims[i].text /\ (row.trusted => claims[i].trusted)
    <3>1. claims[i] \in ClaimRow
      BY <1>2, <2>2
    <3> QED
      BY <2>3, <3>1 DEF ClaimRow
  <2>5. UNCHANGED <<signals, detections, asked, job, passes, cut>>
    BY <1>15 DEF ApplyPromotion
  <2>6. /\ claims' \in Seq(ClaimRow) /\ Len(claims') = Len(claims)
        /\ DOMAIN claims' = DOMAIN claims
        /\ \A k \in DOMAIN claims : /\ claims'[k].text = claims[k].text
                                    /\ claims'[k].trusted => claims[k].trusted
        /\ \A k \in DOMAIN claims \ {i} : claims'[k] = claims[k]
    BY <1>11, <2>2, <2>3, <2>4
  <2>7. Kept
    BY <2>5, <2>6 DEF Kept
  <2>8. NewFacts
    <3>1. /\ DOMAIN claims' = DOMAIN claims
          /\ \A k \in DOMAIN claims \ {i} : claims'[k].state = "semantic" => claims[k].state = "semantic"
      BY <2>6
    <3>2. \/ \A a \in Actors : job[a].pc \notin SemanticPass
          \/ Keys(TextOf(i)) \subseteq raced'
      BY <2>1 DEF TextOf
    <3> QED
      BY <3>1, <3>2 DEF NewFacts
  <2>9. Filings' /\ NewProposals
    BY <1>13, <2>1, <2>7
  <2>10. Tables'
    BY <1>1, <2>5, <2>6 DEF Tables
  <2>11. \A a \in Actors : Working(a)'
    BY <1>1, <2>5, <2>7, Carried
  <2>12. raced \subseteq raced'
    BY <2>1
  <2> QED
    BY <1>1, <2>5, <2>7, <2>8, <2>9, <2>10, <2>11, <2>12 DEF Types, Grown
\* An actor begins, reads or ends.
<1>16. ASSUME UNCHANGED <<signals, detections, claims, proposals, raced, asked>>,
              passes' \in 0 .. MaxPasses, cut' = cut,
              NEW a \in Actors, NEW j, Goto(a, j), job'[a] = j => Working(a)'
       PROVE  Types' /\ Grown
  <2>1. asked' \in Seq(DOMAIN signals) /\ cut' \subseteq DOMAIN signals
    BY <1>1, <1>16 DEF Tables
  <2> QED
    BY <1>4, <1>16, <2>1
<1>17. ASSUME NEW a \in Actors, BeginOpen(a) PROVE Types' /\ Grown
  <2>1. PICK scope \in Scopes :
           Goto(a, [pc |-> "collect", scope |-> scope, known |-> Known(scope)])
    BY <1>17 DEF BeginOpen
  <2>2. passes' \in 0 .. MaxPasses
    BY <1>1, <1>17, BoundsAssumption DEF BeginOpen, Tables
  <2>3. job'[a] = [pc |-> "collect", scope |-> scope, known |-> Known(scope)] => Working(a)'
    BY DEF Working, OpenPass, SemanticPass
  <2> QED
    BY <1>16, <1>17, <2>1, <2>2, <2>3 DEF BeginOpen, world, history
<1>18. ASSUME NEW a \in Actors, Collect(a) PROVE Types' /\ Grown
  <2> DEFINE todo == Collected(job[a].scope) \ job[a].known
             j == IF todo = {} THEN Idle ELSE [pc |-> "ask", todo |-> todo]
  <2>1. Goto(a, j) /\ UNCHANGED <<world, asked, proposals, passes, history>>
    BY <1>18 DEF Collect
  <2>2. todo \subseteq DOMAIN signals'
    BY <2>1 DEF Collected, Live, world
  <2> HIDE DEF todo
  <2>3. job'[a] = j => Working(a)'
    BY <2>2 DEF Working, Idle, OpenPass, SemanticPass
  <2> HIDE DEF j
  <2>4. passes' \in 0 .. MaxPasses
    BY <1>1, <2>1 DEF Tables
  <2> QED
    BY <1>16, <2>1, <2>3, <2>4 DEF world, history
<1>19. ASSUME NEW a \in Actors, Ask(a) PROVE Types' /\ Grown
  <2>1. PICK s \in job[a].todo : /\ asked' = Append(asked, s)
                                 /\ Goto(a, Asked(s, job[a].todo \ {s}))
    BY <1>19 DEF Ask
  <2>2. UNCHANGED <<world, proposals, passes, history>> /\ job[a].pc = "ask"
    BY <1>19 DEF Ask
  <2>3. job[a].todo \subseteq DOMAIN signals
    BY <1>1, <2>2 DEF Working
  <2>4. asked' \in Seq(DOMAIN signals)
    BY <1>2, <2>1, <2>3, Appended
  <2>5. job'[a] = Asked(s, job[a].todo \ {s}) => Working(a)'
    BY <2>1, <2>2, <2>3 DEF Asked, Working, OpenPass, SemanticPass, world
  <2>6. passes' \in 0 .. MaxPasses /\ cut' = cut /\ cut' \subseteq DOMAIN signals
    BY <1>1, <2>2 DEF Tables, history
  <2> QED
    BY <1>4, <2>1, <2>2, <2>4, <2>5, <2>6 DEF world, history
<1>20. ASSUME NEW a \in Actors, File(a) PROVE Types' /\ Grown
  <2> DEFINE s == job[a].signal
             p == Proposal("open", {s}, 0, <<>>, PlaceOf(s))
             j == IF job[a].todo = {} THEN Idle ELSE [pc |-> "ask", todo |-> job[a].todo]
  <2>1. /\ Queue(p) /\ Goto(a, j) /\ job[a].pc = "file"
        /\ raced' = (IF Others(a, OpenPass) # {} THEN raced \cup {<<"open", {s}>>} ELSE raced)
        /\ UNCHANGED <<world, asked, passes, cut>>
    BY <1>20 DEF File
  <2>2. s \in DOMAIN signals /\ job[a].todo \subseteq DOMAIN signals
    BY <1>1, <2>1 DEF Working
  <2>3. Filed(p) /\ p.rule = "open" /\ p.ids = {s}
    BY <2>2 DEF Proposal, Filed, ProposalFields
  <2>4. j # job[a] /\ (job'[a] = j => Working(a)')
    BY <2>1, <2>2 DEF Working, Idle, OpenPass, SemanticPass, world
  <2>5. raced \subseteq raced' /\ \A b \in Others(a, OpenPass) : <<"open", p.ids>> \in raced'
    BY <2>1, <2>3
  <2> HIDE DEF p, j
  <2> QED
    BY <1>5, <2>1, <2>3, <2>4, <2>5 DEF world
<1>21. ASSUME NEW a \in Actors, BeginSemantic(a) PROVE Types' /\ Grown
  <2> DEFINE ids == {i \in LongTerm : Cardinality({j \in LongTerm : j > i}) < Limit}
  <2>1. Goto(a, [pc |-> "facts", ids |-> ids]) /\ UNCHANGED <<world, asked, proposals, history>>
    BY <1>21 DEF BeginSemantic
  <2>2. ids \subseteq DOMAIN claims'
    BY <2>1 DEF LongTerm, world
  <2> HIDE DEF ids
  <2>3. passes' \in 0 .. MaxPasses
    BY <1>1, <1>21, BoundsAssumption DEF BeginSemantic, Tables
  <2>4. job'[a] = [pc |-> "facts", ids |-> ids] => Working(a)'
    BY <2>2 DEF Working, OpenPass, SemanticPass
  <2> QED
    BY <1>16, <2>1, <2>3, <2>4 DEF world, history
<1>22. ASSUME NEW a \in Actors, ReadFacts(a) PROVE Types' /\ Grown
  <2> DEFINE j == [pc |-> "queue", ids |-> job[a].ids, facts |-> FactKeys]
  <2>1. Goto(a, j) /\ UNCHANGED <<world, asked, proposals, passes, history>> /\ job[a].pc = "facts"
    BY <1>22 DEF ReadFacts
  <2>2. job[a].ids \subseteq DOMAIN claims'
    BY <1>1, <2>1 DEF Working, SemanticPass, world
  <2>3. job'[a] = j => Working(a)'
    BY <2>2 DEF Working, OpenPass, SemanticPass
  <2>4. passes' \in 0 .. MaxPasses
    BY <1>1, <2>1 DEF Tables
  <2> HIDE DEF j
  <2> QED
    BY <1>16, <2>1, <2>3, <2>4 DEF world, history
<1>23. ASSUME NEW a \in Actors, ReadQueue(a) PROVE Types' /\ Grown
  <2> DEFINE j == [pc |-> "group", phase |-> "repeated", ids |-> job[a].ids,
                   groups |-> RepeatedGroups(job[a].ids), consumed |-> {}, seen |-> {},
                   promotions |-> PromotionKeys \cup job[a].facts, reviews |-> ReviewKeys]
  <2>1. Goto(a, j) /\ UNCHANGED <<world, asked, proposals, passes, history>> /\ job[a].pc = "queue"
    BY <1>23 DEF ReadQueue
  <2>2. job[a].ids \subseteq DOMAIN claims'
    BY <1>1, <2>1 DEF Working, SemanticPass, world
  <2>3. \A g \in RepeatedGroups(job[a].ids) : Grouped(g, job[a].ids)
    BY OfRepeated
  <2>4. job'[a] = j => Working(a)'
    BY <2>2, <2>3 DEF Working, OpenPass, SemanticPass, GroupFields
  <2>5. passes' \in 0 .. MaxPasses
    BY <1>1, <2>1 DEF Tables
  <2> HIDE DEF j
  <2> QED
    BY <1>16, <2>1, <2>4, <2>5 DEF world, history
<1>24. ASSUME NEW a \in Actors, NextPhase(a) PROVE Types' /\ Grown
  <2> DEFINE left == job[a].ids \ job[a].consumed
  <2>1. /\ job[a].pc = "group" /\ UNCHANGED <<world, asked, proposals, passes, history>>
        /\ job[a].ids \subseteq DOMAIN claims /\ job[a].consumed \subseteq job[a].ids
        /\ DOMAIN job[a] = GroupFields
    BY <1>1, <1>24 DEF NextPhase, Working, SemanticPass
  <2>2. passes' \in 0 .. MaxPasses
    BY <1>1, <2>1 DEF Tables
  <2>3. PICK j : /\ Goto(a, j)
                 /\ \/ \E groups : \E phase \in {"conflict", "latent"} :
                          /\ j = [job[a] EXCEPT !.phase = phase, !.groups = groups]
                          /\ \A g \in groups : Grouped(g, left)
                    \/ j = Idle
    <3>1. job[a].phase \in {"repeated", "conflict", "latent"}
      BY <1>1, <2>1 DEF Working
    <3>2. CASE job[a].phase = "repeated"
      <4>1. \A g \in ConflictGroups(left) : Grouped(g, left)
        BY OfConflict
      <4>2. Goto(a, [job[a] EXCEPT !.phase = "conflict", !.groups = ConflictGroups(left)])
        BY <1>24, <3>2 DEF NextPhase
      <4> QED
        BY <4>1, <4>2
    <3>3. CASE job[a].phase = "conflict"
      BY <1>24, <3>3, OfLatent DEF NextPhase
    <3>4. CASE job[a].phase = "latent"
      BY <1>24, <3>4 DEF NextPhase
    <3> QED
      BY <3>1, <3>2, <3>3, <3>4
  <2>4. job'[a] = j => Working(a)'
    <3>1. CASE j = Idle
      BY <3>1 DEF Working, Idle, OpenPass, SemanticPass
    <3>2. ASSUME NEW groups, NEW phase \in {"conflict", "latent"},
                 j = [job[a] EXCEPT !.phase = phase, !.groups = groups],
                 \A g \in groups : Grouped(g, left), job'[a] = j
          PROVE  Working(a)'
      <4>1. /\ job'[a].pc = "group" /\ job'[a].phase = phase /\ job'[a].groups = groups
            /\ job'[a].ids = job[a].ids /\ job'[a].consumed = job[a].consumed
            /\ DOMAIN job'[a] = GroupFields
        BY <2>1, <3>2 DEF GroupFields
      <4>2. \A g \in groups : Grouped(g, job[a].ids)
        BY <3>2 DEF Grouped
      <4> QED
        BY <2>1, <4>1, <4>2 DEF Working, OpenPass, SemanticPass, world
    <3> QED
      BY <2>3, <3>1, <3>2
  <2> QED
    BY <1>16, <2>1, <2>2, <2>3, <2>4 DEF world, history
<1>25. ASSUME NEW a \in Actors, Kill(a) PROVE Types' /\ Grown
  <2>1. /\ Goto(a, Idle) /\ UNCHANGED <<world, asked, proposals, passes, raced>>
        /\ cut' = (IF job[a].pc = "file" THEN cut \cup {job[a].signal} ELSE cut)
    BY <1>25 DEF Kill
  <2>2. job'[a] = Idle => Working(a)'
    BY DEF Working, Idle, OpenPass, SemanticPass
  <2>3. cut \subseteq cut' /\ cut' \subseteq DOMAIN signals
    BY <1>1, <2>1 DEF Working, Tables
  <2>4. passes' \in 0 .. MaxPasses /\ asked' \in Seq(DOMAIN signals)
    BY <1>1, <2>1 DEF Tables
  <2> QED
    BY <1>4, <2>1, <2>2, <2>3, <2>4 DEF world
<1>26. ASSUME NEW a \in Actors, Consider(a) PROVE Types' /\ Grown
  <2>1. PICK g \in job[a].groups :
           \/ \E taken \in BOOLEAN : Done(a, g, taken) /\ UNCHANGED <<proposals, raced>>
           \/ \E p \in {Promotion(g), Review(g)} : Propose(a, g, p)
    BY <1>26, Outcome
  <2>2. job[a].pc = "group" /\ UNCHANGED <<world, asked, passes, cut>>
    BY <1>26 DEF Consider
  <2>3. Grouped(g, job[a].ids) /\ job[a].ids \subseteq DOMAIN claims
    BY <1>1, <2>2 DEF Working, SemanticPass
  <2>5. ASSUME NEW t, Done(a, g, t) PROVE Working(a)'
    BY <1>1, <2>2, <2>5, StillWorking DEF Types, world
  <2>6. ASSUME NEW taken \in BOOLEAN, Done(a, g, taken), UNCHANGED <<proposals, raced>>
        PROVE  Types' /\ Grown
    <3>1. passes' \in 0 .. MaxPasses /\ cut' = cut
      BY <1>1, <2>2 DEF Tables
    <3> DEFINE j == [job[a] EXCEPT !.groups = @ \ {g}, !.seen = @ \cup {g.ids},
                                  !.consumed = @ \cup (IF taken THEN g.ids ELSE {})]
    <3>2. Goto(a, j)
      BY <2>6 DEF Done
    <3>3. Working(a)'
      BY <2>5, <2>6
    <3> HIDE DEF j
    <3> QED
      BY <1>16, <2>2, <2>6, <3>1, <3>2, <3>3 DEF world
  <2>7. ASSUME NEW p, Propose(a, g, p), Filed(p), p.rule # "open" PROVE Types' /\ Grown
    <3> DEFINE j == [job[a] EXCEPT !.groups = @ \ {g}, !.seen = @ \cup {g.ids},
                                  !.consumed = @ \cup (IF TRUE THEN g.ids ELSE {})]
    <3>1. Queue(p) /\ Done(a, g, TRUE)
      BY <2>7 DEF Propose
    <3>2. Goto(a, j)
      BY <3>1 DEF Done
    <3>3. Working(a)' /\ job'[a] # job[a]
      BY <1>1, <2>2, <2>5, <3>1, Finished DEF Types
    <3>4. j # job[a]
      BY <1>1, <3>2, <3>3, Went
    <3>5. /\ raced \subseteq raced'
          /\ Others(a, SemanticPass) # {} => Settled(p) \subseteq raced'
      BY <2>7 DEF Propose
    <3> HIDE DEF j
    <3> QED
      BY <1>5, <2>2, <2>7, <3>1, <3>2, <3>3, <3>4, <3>5 DEF world
  <2>8. Max(g.ids) \in g.ids
    BY <1>2, <2>3, Largest DEF Grouped
  <2>9. \A p \in {Promotion(g), Review(g)} : Filed(p) /\ p.rule # "open"
    <3>1. Filed(Promotion(g)) /\ Promotion(g).rule # "open"
      BY <2>3, <2>8 DEF Promotion, Proposal, Filed, ProposalFields, Grouped
    <3>2. Filed(Review(g)) /\ Review(g).rule # "open"
      BY <2>3 DEF Review, Proposal, Filed, ProposalFields, Grouped
    <3> QED
      BY <3>1, <3>2
  <2> QED
    BY <2>1, <2>6, <2>7, <2>9
<1>27. CASE UNCHANGED vars
  <2>1. UNCHANGED <<signals, detections, claims, asked, proposals, job, passes, raced, cut>>
    BY <1>27 DEF vars, world, history
  <2>2. Kept /\ NewFacts
    BY <2>1 DEF Kept, NewFacts
  <2>3. Tables'
    BY <1>1, <2>1 DEF Tables
  <2> QED
    BY <1>3, <2>1, <2>2, <2>3
<1> QED
  BY <1>6, <1>7, <1>8, <1>9, <1>10, <1>12, <1>14, <1>15, <1>17, <1>18, <1>19, <1>20, <1>21,
     <1>22, <1>23, <1>24, <1>25, <1>26, <1>27 DEF Next, Pass

\* The bounds on the loads bound the marks of the killed captures.
THEOREM TypeCorrect == Spec => []TypeOK
<1>1. Types => TypeOK
  <2> SUFFICES ASSUME Types PROVE TypeOK
    OBVIOUS
  <2>1. Tables /\ Filings /\ \A a \in Actors : Working(a)
    BY DEF Types
  <2>2. cut \subseteq Signals
    <3>1. Len(signals) \in Nat /\ Len(claims) \in Nat /\ DOMAIN signals = 1 .. Len(signals)
      BY <2>1 DEF Tables
    <3>2. Len(signals) <= MaxLoad
      BY <2>1, <3>1, BoundsAssumption DEF Tables
    <3> QED
      BY <2>1, <3>1, <3>2, BoundsAssumption DEF Tables, Signals
  <2>3. \A n \in DOMAIN proposals :
          /\ proposals[n].status \in {"queued", "rejected", "applied"}
          /\ proposals[n].rule = "open" =>
                proposals[n].ids \subseteq DOMAIN signals
          /\ proposals[n].rule = "promotion" =>
                proposals[n].rep \in proposals[n].ids /\ proposals[n].ids \subseteq DOMAIN claims
    BY <2>1 DEF Filings, Filed
  <2>4. \A a \in Actors :
          /\ job[a].pc \in {"idle"} \cup OpenPass \cup SemanticPass
          /\ job[a].pc \in SemanticPass => job[a].ids \subseteq DOMAIN claims
          /\ job[a].pc = "group" => job[a].consumed \subseteq job[a].ids
    BY <2>1 DEF Working
  <2> QED
    BY <2>1, <2>2, <2>3, <2>4 DEF TypeOK, Tables, SignalRow, ClaimRow
<1> QED
  BY <1>1, TypesInit, TypesStep, PTL DEF Spec

-----------------------------------------------------------------------------
(* Open decisions are asked once.                                           *)

\* A queue no longer than the scan is read whole.
LEMMA AllScanned ==
    ASSUME Types, Len(proposals) <= ScanLimit, NEW scope
    PROVE  Scanned(scope) = {n \in DOMAIN proposals : InScope(proposals[n], scope)}
<1>1. Len(proposals) \in Nat /\ DOMAIN proposals = 1 .. Len(proposals)
  BY DEF Types, Filings
<1>2. ASSUME NEW n \in DOMAIN proposals
      PROVE  Cardinality({m \in DOMAIN proposals :
                m > n /\ InScope(proposals[m], scope)}) < ScanLimit
  <2> DEFINE S == {m \in DOMAIN proposals : m > n /\ InScope(proposals[m], scope)}
  <2>1. n \in 1 .. Len(proposals) /\ S \subseteq n + 1 .. Len(proposals)
    BY <1>1
  <2>2. /\ IsFiniteSet(n + 1 .. Len(proposals))
        /\ Cardinality(n + 1 .. Len(proposals)) =
              IF n + 1 > Len(proposals) THEN 0 ELSE Len(proposals) - (n + 1) + 1
    <3>1. n + 1 \in Int /\ Len(proposals) \in Int
      BY <1>1, <2>1
    <3> HIDE DEF S
    <3> QED
      BY <3>1, FS_Interval
  <2>3. IsFiniteSet(S) /\ Cardinality(S) <= Cardinality(n + 1 .. Len(proposals))
    BY <2>1, <2>2, FS_Subset
  <2>4. Cardinality(S) \in Nat
    BY <2>3, FS_CardinalityType
  <2> HIDE DEF S
  <2>5. Cardinality(S) < ScanLimit
    BY <1>1, <2>1, <2>2, <2>3, <2>4, BoundsAssumption
  <2> QED
    BY <2>5 DEF S
<1> QED
  BY <1>2 DEF Scanned

\* The proposals of a decision stay, and one is new only where one is filed.
LEMMA OfStep ==
    ASSUME Types, Types', Grown, NEW s \in DOMAIN signals
    PROVE  /\ Of(s) \subseteq Of(s)'
           /\ \A n \in Of(s)' \ Of(s) : /\ n \in DOMAIN proposals' \ DOMAIN proposals
                                        /\ n = Len(proposals) + 1
           /\ Len(proposals) <= Len(proposals')
<1>1. NewProposals
  BY DEF Grown
<1>2. Of(s) \subseteq Of(s)'
  BY <1>1 DEF NewProposals, Of
<1>3. \A n \in Of(s)' \ Of(s) : n \in DOMAIN proposals' \ DOMAIN proposals
  BY <1>1 DEF NewProposals, Of
<1>4. Len(proposals) <= Len(proposals')
  <2>1. /\ Len(proposals) \in Nat /\ DOMAIN proposals = 1 .. Len(proposals)
        /\ Len(proposals') \in Nat /\ DOMAIN proposals' = 1 .. Len(proposals')
    BY DEF Types, Filings
  <2>2. DOMAIN proposals \subseteq DOMAIN proposals'
    BY <1>1 DEF NewProposals
  <2> QED
    BY <2>1, <2>2
<1> QED
  BY <1>1, <1>2, <1>3, <1>4 DEF NewProposals

\* A signal that is new has no proposal.
LEMMA NewSignal ==
    ASSUME Types, Grown, NEW s \in DOMAIN signals' \ DOMAIN signals
    PROVE  Of(s)' = {}
<1>1. SUFFICES ASSUME NEW n \in Of(s)' PROVE FALSE
  OBVIOUS
<1>2. proposals'[n].ids = {s} /\ proposals'[n].rule = "open" /\ n \in DOMAIN proposals'
  BY <1>1 DEF Of
<1>3. NewProposals
  BY DEF Grown
<1>4. CASE n \in DOMAIN proposals
  <2>1. proposals[n].ids = {s} /\ proposals[n].rule = "open"
    BY <1>2, <1>3, <1>4 DEF NewProposals
  <2>2. Filed(proposals[n])
    BY <1>4 DEF Types, Filings
  <2> QED
    BY <2>1, <2>2 DEF Filed
<1>5. CASE n \notin DOMAIN proposals
  BY <1>2, <1>3, <1>5 DEF NewProposals
<1> QED
  BY <1>4, <1>5

\* A pass for the scope looks at a signal of these episodes.
Sees(scope, s) ==
    /\ scope.project \in {NoFilter, signals[s].a.project, signals[s].b.project}
    /\ scope.session \in {NoFilter, signals[s].a.session, signals[s].b.session}

\* The decisions an actor may still ask about.
Bound(a, s) ==
    \/ /\ job[a].pc = "collect" /\ s \notin job[a].known
       /\ Sees(job[a].scope, s)
    \/ job[a].pc \in {"ask", "file"} /\ s \in job[a].todo
    \/ job[a].pc = "file" /\ s = job[a].signal

Exempt(s) ==
    \/ <<"open", {s}>> \in raced
    \/ Split(s)
    \/ Len(proposals) > ScanLimit

Asks ==
    \A s \in DOMAIN signals :
        \/ Exempt(s)
        \/ /\ \A m, n \in Of(s) : m = n
           /\ \A a \in Actors : Bound(a, s) => Of(s) = {}

\* Where a signal that is not split is looked for, its proposal is found.
LEMMA FiledInScope ==
    ASSUME NEW s \in DOMAIN signals, signals[s] \in SignalRow,
           NEW scope \in Scopes, Sees(scope, s), ~Split(s)
    PROVE  /\ scope.project \in {NoFilter, PlaceOf(s).project}
           /\ scope.session \in {NoFilter, PlaceOf(s).session}
<1> DEFINE a == signals[s].a
           b == signals[s].b
<1>1. PlaceOf(s).project = First(a.project, b.project) /\ PlaceOf(s).session = First(a.session, b.session)
  BY DEF PlaceOf
<1>2. scope.project \in Projects \cup {NoFilter} /\ scope.session \in Sessions \cup {NoFilter}
  BY DEF Scopes
<1>3. scope.project # None /\ scope.session # None
  BY <1>2, PlacesAssumption DEF None, NoFilter
<1>4. /\ a.project = b.project \/ None \in {a.project, b.project}
      /\ a.session = b.session \/ None \in {a.session, b.session}
  BY DEF Split
<1> QED
  BY <1>1, <1>3, <1>4 DEF Sees, First

LEMMA AsksInit == Init => Asks
BY DEF Init, Asks

LEMMA AsksStep == Types /\ Asks /\ [Next]_vars => Asks'
<1> SUFFICES ASSUME Types, Asks, [Next]_vars PROVE Asks'
  OBVIOUS
<1>1. Types' /\ Grown
  BY TypesStep
<1>2. /\ DOMAIN job = Actors /\ DOMAIN job' = Actors
      /\ \A a \in Actors : Working(a) /\ Working(a)'
      /\ Kept /\ NewProposals /\ raced \subseteq raced'
      /\ Len(proposals) \in Nat /\ Len(proposals') \in Nat
  BY <1>1 DEF Types, Grown, Filings
<1>3. \A s \in DOMAIN signals : Exempt(s) => Exempt(s)'
  BY <1>1, <1>2, OfStep, BoundsAssumption DEF Exempt, Kept, Split
\* A signal that is new has no proposal.
<1>4. \A s \in DOMAIN signals' \ DOMAIN signals : Of(s)' = {}
  BY <1>1, NewSignal
\* No decision is proposed, and no one is bound to more.
<1>5. ASSUME \A n \in DOMAIN proposals' \ DOMAIN proposals : proposals'[n].rule # "open",
             \A a \in Actors, s \in DOMAIN signals : Bound(a, s)' => Bound(a, s) \/ Exempt(s) \/ Of(s) = {}
      PROVE  Asks'
  <2> SUFFICES ASSUME NEW s \in DOMAIN signals', ~Exempt(s)'
               PROVE  (\A m, n \in Of(s)' : m = n) /\ (\A a \in Actors : Bound(a, s)' => Of(s)' = {})
    BY DEF Asks
  <2>1. CASE s \notin DOMAIN signals
    BY <1>4, <2>1
  <2>2. CASE s \in DOMAIN signals
    <3>1. Of(s)' = Of(s)
      BY <1>1, <1>5, <2>2, OfStep DEF Of
    <3>2. ~Exempt(s)
      BY <1>3, <2>2
    <3> QED
      BY <1>5, <2>2, <3>1, <3>2 DEF Asks
  <2> QED
    BY <2>1, <2>2
\* An actor that stands still.
<1>6. ASSUME NEW a \in Actors, job'[a] = job[a], NEW s \in DOMAIN signals, Bound(a, s)'
      PROVE  Bound(a, s)
  BY <1>2, <1>6 DEF Bound, Kept, Sees
<1>7. ASSUME UNCHANGED job, \A n \in DOMAIN proposals' \ DOMAIN proposals : proposals'[n].rule # "open"
      PROVE  Asks'
  BY <1>5, <1>6, <1>7
\* An actor that moves and asks about nothing new.
<1>8. ASSUME NEW a \in Actors, NEW j, Goto(a, j),
             \A n \in DOMAIN proposals' \ DOMAIN proposals : proposals'[n].rule # "open",
             \A s \in DOMAIN signals : Bound(a, s)' => Bound(a, s) \/ Exempt(s) \/ Of(s) = {}
      PROVE  Asks'
  <2>1. \A b \in Actors \ {a} : job'[b] = job[b]
    BY <1>2, <1>8, Went
  <2> QED
    BY <1>5, <1>6, <1>8, <2>1
<1>9. CASE Detect \/ DetectAgain \/ Resolve \/ Learn \/ Correct
  BY <1>7, <1>9 DEF Detect, DetectAgain, Resolve, Learn, Correct
<1>10. CASE Reject \/ ApplyPromotion
  <2>1. UNCHANGED job
    BY <1>10 DEF Reject, ApplyPromotion
  <2>2. DOMAIN proposals' = DOMAIN proposals
    BY <1>10 DEF Reject, ApplyPromotion
  <2> QED
    BY <1>7, <2>1, <2>2
<1>11. ASSUME NEW a \in Actors, BeginOpen(a) PROVE Asks'
  <2>1. PICK scope \in Scopes :
           Goto(a, [pc |-> "collect", scope |-> scope, known |-> Known(scope)])
    BY <1>11 DEF BeginOpen
  <2>2. job'[a] = [pc |-> "collect", scope |-> scope, known |-> Known(scope)]
    BY <1>2, <2>1, Went
  <2>3. UNCHANGED <<signals, proposals>>
    BY <1>11 DEF BeginOpen, world
  <2>4. ASSUME NEW s \in DOMAIN signals, Bound(a, s)', ~Exempt(s), NEW n \in Of(s) PROVE FALSE
    <3>1. s \notin Known(scope) /\ Sees(scope, s) /\ ~Split(s)
      BY <2>2, <2>3, <2>4 DEF Bound, Exempt, Sees
    <3>2. n \in DOMAIN proposals /\ proposals[n].rule = "open" /\ proposals[n].ids = {s}
      BY <2>4 DEF Of
    <3>3. proposals[n].place = PlaceOf(s)
      <4>1. Filed(proposals[n])
        BY <3>2 DEF Types, Filings
      <4> QED
        BY <3>2, <4>1 DEF Filed
    <3>4. InScope(proposals[n], scope)
      <4>1. signals[s] \in SignalRow
        BY DEF Types, Tables
      <4> QED
        BY <2>1, <3>1, <3>3, <4>1, FiledInScope DEF InScope
    <3>5. Len(proposals) <= ScanLimit
      BY <1>2, <2>4, BoundsAssumption DEF Exempt
    <3>6. n \in Scanned(scope)
      BY <3>2, <3>4, <3>5, AllScanned
    <3> QED
      BY <3>1, <3>2, <3>6 DEF Known
  <2> QED
    BY <1>8, <2>1, <2>3, <2>4
<1>12. ASSUME NEW a \in Actors, Collect(a) PROVE Asks'
  <2> DEFINE todo == Collected(job[a].scope) \ job[a].known
             j == IF todo = {} THEN Idle ELSE [pc |-> "ask", todo |-> todo]
  <2>1. Goto(a, j) /\ job[a].pc = "collect" /\ UNCHANGED <<signals, proposals>>
    BY <1>12 DEF Collect, world
  <2>2. job'[a] = j
    BY <1>2, <2>1, Went
  <2>3. \A s \in todo : Sees(job[a].scope, s) /\ s \notin job[a].known
    BY DEF Collected, Live, Sees
  <2>4. ASSUME NEW s \in DOMAIN signals, Bound(a, s)' PROVE s \in todo
    <3> HIDE DEF todo
    <3> QED
      BY <2>2, <2>4 DEF Bound, Idle
  <2>5. \A s \in DOMAIN signals : Bound(a, s)' => Bound(a, s)
    BY <2>1, <2>3, <2>4 DEF Bound
  <2> HIDE DEF j
  <2> QED
    BY <1>8, <2>1, <2>5
<1>13. ASSUME NEW a \in Actors, Ask(a) PROVE Asks'
  <2>1. PICK s \in job[a].todo : Goto(a, Asked(s, job[a].todo \ {s}))
    BY <1>13 DEF Ask
  <2>2. job[a].pc = "ask" /\ UNCHANGED <<signals, proposals>>
    BY <1>13 DEF Ask, world
  <2>3. job'[a] = Asked(s, job[a].todo \ {s})
    BY <1>2, <2>1, Went
  <2>4. \A t \in DOMAIN signals : Bound(a, t)' => Bound(a, t)
    BY <2>1, <2>2, <2>3 DEF Bound, Asked
  <2> QED
    BY <1>8, <2>1, <2>2, <2>4
<1>14. ASSUME NEW a \in Actors, File(a) PROVE Asks'
  <2>0. PICK s : s = job[a].signal
    OBVIOUS
  <2> DEFINE p == Proposal("open", {s}, 0, <<>>, PlaceOf(s))
             j == IF job[a].todo = {} THEN Idle ELSE [pc |-> "ask", todo |-> job[a].todo]
  <2>1. /\ Queue(p) /\ Goto(a, j) /\ job[a].pc = "file" /\ UNCHANGED signals
        /\ s \in DOMAIN signals /\ s \notin job[a].todo
    BY <1>2, <1>14, <2>0 DEF File, world, Working
  <2>2. job'[a] = j /\ \A b \in Actors \ {a} : job'[b] = job[b]
    BY <1>2, <2>1, Went
  <2>3. p.rule = "open" /\ p.ids = {s}
    BY DEF Proposal
  <2> HIDE DEF p
  <2>4. /\ DOMAIN proposals' = DOMAIN proposals \cup {Len(proposals) + 1}
        /\ Len(proposals) + 1 \notin DOMAIN proposals
        /\ \A n \in DOMAIN proposals : proposals'[n] = proposals[n]
        /\ proposals'[Len(proposals) + 1] = p
    BY <2>1, Queued DEF Types
  <2>5. \A t : Of(t)' = Of(t) \cup (IF t = s THEN {Len(proposals) + 1} ELSE {})
    BY <2>3, <2>4 DEF Of
  <2>6. ASSUME NEW t \in DOMAIN signals, Bound(a, t)' PROVE t # s /\ Bound(a, t)
    BY <2>0, <2>1, <2>2, <2>6 DEF Bound, Idle
  <2>7. ASSUME NEW b \in Actors \ {a}, Bound(b, s)' PROVE Exempt(s)'
    <3>1. Bound(b, s) /\ job'[b] = job[b]
      BY <1>6, <2>1, <2>2, <2>7
    <3>2. job[b].pc \in OpenPass
      BY <3>1 DEF Bound, OpenPass
    <3> QED
      BY <1>2, <2>3, <2>4, <3>1, <3>2 DEF NewProposals, Exempt
  <2>8. Bound(a, s)
    BY <2>0, <2>1 DEF Bound
  <2> SUFFICES ASSUME NEW t \in DOMAIN signals, ~Exempt(t)'
               PROVE  (\A m, n \in Of(t)' : m = n) /\ (\A b \in Actors : Bound(b, t)' => Of(t)' = {})
    BY <2>1 DEF Asks
  <2>9. ~Exempt(t)
    BY <1>3
  <2>10. CASE t = s
    BY <2>5, <2>6, <2>7, <2>8, <2>9, <2>10 DEF Asks
  <2>11. CASE t # s
    <3>1. Of(t)' = Of(t)
      BY <2>5, <2>11
    <3>2. \A b \in Actors : Bound(b, t)' => Bound(b, t)
      BY <1>6, <2>2, <2>6
    <3> QED
      BY <2>9, <3>1, <3>2 DEF Asks
  <2> QED
    BY <2>10, <2>11
\* An actor of the semantic pass, or one that ends.
<1>15. ASSUME NEW a \in Actors, NEW j, Goto(a, j), j.pc \notin OpenPass,
              \A n \in DOMAIN proposals' \ DOMAIN proposals : proposals'[n].rule # "open"
       PROVE  Asks'
  <2>1. job'[a] = j
    BY <1>2, <1>15, Went
  <2>2. \A s \in DOMAIN signals : ~Bound(a, s)'
    BY <1>15, <2>1 DEF Bound, OpenPass
  <2> QED
    BY <1>8, <1>15, <2>2
<1>16. ASSUME NEW a \in Actors, BeginSemantic(a) \/ ReadFacts(a) \/ ReadQueue(a) \/ NextPhase(a) \/ Kill(a)
       PROVE  Asks'
  <2>1. UNCHANGED proposals
    BY <1>16 DEF BeginSemantic, ReadFacts, ReadQueue, NextPhase, Kill
  <2>2. \E j : Goto(a, j) /\ j.pc \notin OpenPass
    <3>1. CASE BeginSemantic(a)
      BY <3>1 DEF BeginSemantic, OpenPass
    <3>2. CASE ReadFacts(a)
      BY <3>2 DEF ReadFacts, OpenPass
    <3>3. CASE ReadQueue(a)
      BY <3>3 DEF ReadQueue, OpenPass
    <3>4. CASE NextPhase(a)
      BY <3>4, <1>2, Advanced DEF Types, OpenPass
    <3>5. CASE Kill(a)
      BY <3>5 DEF Kill, Idle, OpenPass
    <3> QED
      BY <1>16, <3>1, <3>2, <3>3, <3>4, <3>5
  <2> QED
    BY <1>15, <2>1, <2>2
<1>17. ASSUME NEW a \in Actors, Consider(a) PROVE Asks'
  <2>1. PICK g \in job[a].groups, taken \in BOOLEAN :
           /\ job[a].pc = "group" /\ Done(a, g, taken)
           /\ \A n \in DOMAIN proposals' \ DOMAIN proposals : proposals'[n].rule # "open"
    BY <1>17, Considered
  <2>2. job'[a].pc = "group" /\ \A b \in Actors \ {a} : job'[b] = job[b]
    BY <2>1, Finished
  <2>3. \A s \in DOMAIN signals : ~Bound(a, s)'
    BY <2>2 DEF Bound
  <2> QED
    BY <1>5, <1>6, <2>1, <2>2, <2>3
<1>18. CASE UNCHANGED vars
  BY <1>7, <1>18 DEF vars
<1> QED
  BY <1>9, <1>10, <1>11, <1>12, <1>13, <1>14, <1>16, <1>17, <1>18 DEF Next, Pass

\* "open_decision_review_proposal_already_exists": a decision gets a second
\* proposal only where passes overlap, its two episodes are of two projects or
\* of two sessions, or the queue has grown longer than the scan.
THEOREM AsksHold == Spec => []AskedOnce
<1>1. Asks => AskedOnce
  <2> SUFFICES ASSUME Asks, NEW s \in DOMAIN signals, ~Exempt(s) PROVE Cardinality(Of(s)) <= 1
    BY DEF AskedOnce, Exempt
  <2>1. \A m, n \in Of(s) : m = n
    BY DEF Asks
  <2>2. CASE Of(s) = {}
    BY <2>2, FS_EmptySet
  <2>3. CASE Of(s) # {}
    <3>1. PICK n \in Of(s) : Of(s) = {n}
      BY <2>1, <2>3
    <3>2. Cardinality({n}) = 1
      BY FS_Singleton
    <3> QED
      BY <3>1, <3>2
  <2> QED
    BY <2>2, <2>3
<1> QED
  BY <1>1, TypesInit, TypesStep, AsksInit, AsksStep, PTL DEF Spec

-----------------------------------------------------------------------------
(* The claim of a decision and its proposal.                                *)

Captured(s) == {n \in DOMAIN asked : asked[n] = s}
Filing(s) == {a \in Actors : job[a].pc = "file" /\ job[a].signal = s}

\* One by one: each claim has a proposal, or an actor that is about to file it.
Balanced(s) ==
    /\ IsFiniteSet(Filing(s))
    /\ Cardinality(Captured(s)) = Cardinality(Of(s)) + Cardinality(Filing(s))
Files == \A s \in DOMAIN signals \ cut : Balanced(s)

LEMMA FilesInit == Init => Files
BY DEF Init, Files

\* What is counted is finite.
LEMMA Countable ==
    ASSUME Types, NEW s
    PROVE  /\ IsFiniteSet(Captured(s)) /\ Cardinality(Captured(s)) \in Nat
           /\ IsFiniteSet(Of(s)) /\ Cardinality(Of(s)) \in Nat
<1>1. Len(asked) \in Nat /\ DOMAIN asked = 1 .. Len(asked)
  BY DEF Types, Tables
<1>2. Len(proposals) \in Nat /\ DOMAIN proposals = 1 .. Len(proposals)
  BY DEF Types, Filings
<1>3. IsFiniteSet(1 .. Len(asked)) /\ IsFiniteSet(1 .. Len(proposals))
  BY <1>1, <1>2, FS_Interval
<1>4. Captured(s) \subseteq 1 .. Len(asked) /\ Of(s) \subseteq 1 .. Len(proposals)
  BY <1>1, <1>2 DEF Captured, Of
<1>5. IsFiniteSet(Captured(s)) /\ IsFiniteSet(Of(s))
  BY <1>3, <1>4, FS_Subset
<1> QED
  BY <1>5, FS_CardinalityType

LEMMA FilesStep == Types /\ Files /\ [Next]_vars => Files'
<1> SUFFICES ASSUME Types, Files, [Next]_vars PROVE Files'
  OBVIOUS
<1>1. Types' /\ Grown
  BY TypesStep
<1>2. /\ DOMAIN job = Actors /\ DOMAIN job' = Actors
      /\ \A a \in Actors : Working(a) /\ Working(a)'
      /\ cut \subseteq cut' /\ asked \in Seq(DOMAIN signals)
  BY <1>1 DEF Types, Grown, Tables
<1>3. \A n \in DOMAIN asked : asked[n] \in DOMAIN signals
  BY <1>2
\* Nothing that is counted changes.
<1>4. ASSUME UNCHANGED asked, \A s \in DOMAIN signals \ cut' : Of(s)' = Of(s),
             \A s \in DOMAIN signals' \ cut' : Filing(s)' = Filing(s)
      PROVE  Files'
  <2> SUFFICES ASSUME NEW s \in DOMAIN signals' \ cut' PROVE Balanced(s)'
    BY DEF Files
  <2>1. CASE s \in DOMAIN signals
    <3>1. Captured(s)' = Captured(s) /\ Of(s)' = Of(s) /\ Filing(s)' = Filing(s)
      BY <1>4, <2>1 DEF Captured
    <3> QED
      BY <1>2, <2>1, <3>1 DEF Files, Balanced
  <2>2. CASE s \notin DOMAIN signals
    <3>1. Captured(s)' = {}
      BY <1>3, <1>4, <2>2 DEF Captured
    <3>2. Of(s)' = {}
      BY <1>1, <2>2, NewSignal
    <3>3. Filing(s)' = {}
      BY <1>2, <1>4, <2>2 DEF Filing, Working
    <3> QED
      BY <3>1, <3>2, <3>3, FS_EmptySet DEF Balanced
  <2> QED
    BY <2>1, <2>2
\* No decision is proposed.
<1>5. ASSUME \A n \in DOMAIN proposals' \ DOMAIN proposals : proposals'[n].rule # "open",
             NEW s \in DOMAIN signals
      PROVE  Of(s)' = Of(s)
  BY <1>1, <1>5, OfStep DEF Of
<1>6. ASSUME UNCHANGED <<job, asked>>,
             \A n \in DOMAIN proposals' \ DOMAIN proposals : proposals'[n].rule # "open"
      PROVE  Files'
  BY <1>4, <1>5, <1>6 DEF Filing
\* An actor moves that files nothing.
<1>7. ASSUME NEW a \in Actors, NEW j, Goto(a, j), j.pc # "file", job[a].pc # "file", UNCHANGED asked,
             \A n \in DOMAIN proposals' \ DOMAIN proposals : proposals'[n].rule # "open"
      PROVE  Files'
  <2>1. job'[a] = j /\ \A b \in Actors \ {a} : job'[b] = job[b]
    BY <1>2, <1>7, Went
  <2>2. \A s : Filing(s)' = Filing(s)
    BY <1>7, <2>1 DEF Filing
  <2> QED
    BY <1>4, <1>5, <1>7, <2>2
<1>8. CASE Detect \/ DetectAgain \/ Resolve \/ Learn \/ Correct
  BY <1>6, <1>8 DEF Detect, DetectAgain, Resolve, Learn, Correct
<1>9. CASE Reject \/ ApplyPromotion
  <2>1. UNCHANGED <<job, asked>>
    BY <1>9 DEF Reject, ApplyPromotion
  <2>2. DOMAIN proposals' = DOMAIN proposals
    BY <1>9 DEF Reject, ApplyPromotion
  <2> QED
    BY <1>6, <2>1, <2>2
<1>10. ASSUME NEW a \in Actors,
              BeginOpen(a) \/ Collect(a) \/ BeginSemantic(a) \/ ReadFacts(a) \/ ReadQueue(a) \/ NextPhase(a)
       PROVE  Files'
  <2>1. UNCHANGED <<proposals, asked>> /\ job[a].pc # "file"
    BY <1>10 DEF BeginOpen, Collect, BeginSemantic, ReadFacts, ReadQueue, NextPhase, Idle
  <2>2. \E j : Goto(a, j) /\ j.pc # "file"
    <3>1. CASE BeginOpen(a)
      BY <3>1 DEF BeginOpen
    <3>2. CASE Collect(a)
      BY <3>2 DEF Collect, Idle
    <3>3. CASE BeginSemantic(a)
      BY <3>3 DEF BeginSemantic
    <3>4. CASE ReadFacts(a)
      BY <3>4 DEF ReadFacts
    <3>5. CASE ReadQueue(a)
      BY <3>5 DEF ReadQueue
    <3>6. CASE NextPhase(a)
      BY <3>6, Advanced
    <3> QED
      BY <1>10, <3>1, <3>2, <3>3, <3>4, <3>5, <3>6
  <2> QED
    BY <1>7, <2>1, <2>2
<1>11. ASSUME NEW a \in Actors, Consider(a) PROVE Files'
  <2>1. PICK g \in job[a].groups, taken \in BOOLEAN :
           /\ job[a].pc = "group" /\ Done(a, g, taken)
           /\ \A n \in DOMAIN proposals' \ DOMAIN proposals : proposals'[n].rule # "open"
    BY <1>11, Considered
  <2>2. job'[a].pc = "group" /\ \A b \in Actors \ {a} : job'[b] = job[b]
    BY <2>1, Finished
  <2>3. \A s : Filing(s)' = Filing(s)
    BY <2>1, <2>2 DEF Filing
  <2> QED
    BY <1>4, <1>5, <1>11, <2>1, <2>3 DEF Consider
<1>12. ASSUME NEW a \in Actors, Ask(a) PROVE Files'
  <2>1. PICK s \in job[a].todo : asked' = Append(asked, s) /\ Goto(a, Asked(s, job[a].todo \ {s}))
    BY <1>12 DEF Ask
  <2>2. /\ job[a].pc = "ask" /\ UNCHANGED <<signals, proposals, cut>>
        /\ s \in DOMAIN signals
    BY <1>2, <1>12, <2>1 DEF Ask, world, history, Working
  <2>3. job'[a].pc = "file" /\ job'[a].signal = s /\ \A b \in Actors \ {a} : job'[b] = job[b]
    BY <1>2, <2>1, Went DEF Asked
  <2>4. /\ DOMAIN asked' = DOMAIN asked \cup {Len(asked) + 1} /\ Len(asked) + 1 \notin DOMAIN asked
        /\ \A n \in DOMAIN asked : asked'[n] = asked[n]
        /\ asked'[Len(asked) + 1] = s
    BY <1>2, <2>1, <2>2, Appended
  <2> SUFFICES ASSUME NEW t \in DOMAIN signals \ cut PROVE Balanced(t)'
    BY <2>2 DEF Files
  <2>5. Balanced(t) /\ Of(t)' = Of(t)
    BY <2>2 DEF Files, Of
  <2>6. CASE t = s
    <3>1. Captured(t)' = Captured(t) \cup {Len(asked) + 1} /\ Len(asked) + 1 \notin Captured(t)
      BY <2>4, <2>6 DEF Captured
    <3>2. Filing(t)' = Filing(t) \cup {a} /\ a \notin Filing(t)
      BY <2>2, <2>3, <2>6 DEF Filing
    <3>3. Cardinality(Captured(t)') = Cardinality(Captured(t)) + 1
      BY <3>1, Countable, FS_AddElement
    <3>4. /\ IsFiniteSet(Filing(t)') /\ Cardinality(Filing(t)') = Cardinality(Filing(t)) + 1
          /\ Cardinality(Filing(t)) \in Nat
      BY <2>5, <3>2, FS_AddElement, FS_CardinalityType DEF Balanced
    <3>5. Cardinality(Captured(t)') = Cardinality(Of(t)') + Cardinality(Filing(t)')
      BY <2>5, <3>3, <3>4, Countable DEF Balanced
    <3> QED
      BY <3>4, <3>5 DEF Balanced
  <2>7. CASE t # s
    <3>1. Captured(t)' = Captured(t)
      BY <2>4, <2>7 DEF Captured
    <3>2. Filing(t)' = Filing(t)
      BY <2>2, <2>3, <2>7 DEF Filing
    <3> QED
      BY <2>5, <3>1, <3>2 DEF Balanced
  <2> QED
    BY <2>6, <2>7
<1>13. ASSUME NEW a \in Actors, File(a) PROVE Files'
  <2>1. PICK s : s = job[a].signal
    OBVIOUS
  <2> DEFINE p == Proposal("open", {s}, 0, <<>>, PlaceOf(s))
             j == IF job[a].todo = {} THEN Idle ELSE [pc |-> "ask", todo |-> job[a].todo]
  <2>2. /\ Queue(p) /\ Goto(a, j) /\ job[a].pc = "file" /\ UNCHANGED <<signals, asked, cut>>
    BY <1>13, <2>1 DEF File, world
  <2>3. job'[a].pc # "file" /\ \A b \in Actors \ {a} : job'[b] = job[b]
    <3>1. j.pc # "file"
      BY DEF Idle
    <3> HIDE DEF j
    <3> QED
      BY <1>2, <2>2, <3>1, Went
  <2>4. p.rule = "open" /\ p.ids = {s}
    BY DEF Proposal
  <2> HIDE DEF p
  <2>5. /\ DOMAIN proposals' = DOMAIN proposals \cup {Len(proposals) + 1}
        /\ Len(proposals) + 1 \notin DOMAIN proposals
        /\ \A n \in DOMAIN proposals : proposals'[n] = proposals[n]
        /\ proposals'[Len(proposals) + 1] = p
    BY <2>2, Queued DEF Types
  <2> SUFFICES ASSUME NEW t \in DOMAIN signals \ cut PROVE Balanced(t)'
    BY <2>2 DEF Files
  <2>6. Balanced(t) /\ Captured(t)' = Captured(t)
    BY <2>2 DEF Files, Captured
  <2>7. CASE t = s
    <3>1. Of(t)' = Of(t) \cup {Len(proposals) + 1} /\ Len(proposals) + 1 \notin Of(t)
      BY <2>4, <2>5, <2>7 DEF Of
    <3>2. Filing(t)' = Filing(t) \ {a} /\ a \in Filing(t)
      BY <2>1, <2>2, <2>3, <2>7 DEF Filing
    <3>3. Cardinality(Of(t)') = Cardinality(Of(t)) + 1
      BY <3>1, Countable, FS_AddElement
    <3>4. /\ IsFiniteSet(Filing(t)') /\ Cardinality(Filing(t)') = Cardinality(Filing(t)) - 1
          /\ Cardinality(Filing(t)) \in Nat
      BY <2>6, <3>2, FS_RemoveElement, FS_CardinalityType DEF Balanced
    <3>5. Cardinality(Captured(t)') = Cardinality(Of(t)') + Cardinality(Filing(t)')
      BY <2>6, <3>3, <3>4, Countable DEF Balanced
    <3> QED
      BY <3>4, <3>5 DEF Balanced
  <2>8. CASE t # s
    <3>1. Of(t)' = Of(t)
      BY <2>4, <2>5, <2>8 DEF Of
    <3>2. Filing(t)' = Filing(t)
      BY <2>1, <2>3, <2>8 DEF Filing
    <3> QED
      BY <2>6, <3>1, <3>2 DEF Balanced
  <2> QED
    BY <2>7, <2>8
<1>14. ASSUME NEW a \in Actors, Kill(a) PROVE Files'
  <2>1. /\ Goto(a, Idle) /\ UNCHANGED <<asked, signals, proposals>>
        /\ cut' = (IF job[a].pc = "file" THEN cut \cup {job[a].signal} ELSE cut)
    BY <1>14 DEF Kill, world
  <2>2. job'[a] = Idle /\ \A b \in Actors \ {a} : job'[b] = job[b]
    BY <1>2, <2>1, Went
  <2>3. \A s : s \notin cut' => Filing(s)' = Filing(s)
    BY <2>1, <2>2 DEF Filing, Idle
  <2>4. \A s : Of(s)' = Of(s)
    BY <2>1 DEF Of
  <2> QED
    BY <1>4, <2>1, <2>3, <2>4
<1>15. CASE UNCHANGED vars
  BY <1>6, <1>15 DEF vars
<1> QED
  BY <1>8, <1>9, <1>10, <1>11, <1>12, <1>13, <1>14, <1>15 DEF Next, Pass

\* The claim of a decision is filed with the reviewer, or an actor is between
\* the two steps, or was killed there.
THEOREM FilesHold == Spec => []AskedIsFiled
<1>1. Files => AskedIsFiled
  BY DEF Files, Balanced, Captured, Filing, AskedIsFiled
<1> QED
  BY <1>1, TypesInit, TypesStep, FilesInit, FilesStep, PTL DEF Spec

-----------------------------------------------------------------------------
(* What a semantic pass has read stays good enough.                         *)

\* The groups an actor has left are of the kind of its phase.
Phased(a) ==
    job[a].pc = "group" =>
      /\ job[a].phase = "repeated" => \A g \in job[a].groups :
            g.ids = {i \in job[a].ids : g.key \in Keys(TextOf(i))}
      /\ job[a].phase = "conflict" => \A g \in job[a].groups :
            g.key[1] = "conflict" /\ \A h \in job[a].groups : h.key = g.key => h = g
      /\ job[a].phase = "latent" => \A g \in job[a].groups : g.key[1] \in {"latent", "latent ids"}

\* Every fact was there when the facts were read, or it came in the meantime.
KnowsFacts(a) ==
    /\ job[a].pc = "queue" => FactKeys \subseteq job[a].facts \cup raced
    /\ job[a].pc = "group" => FactKeys \subseteq job[a].promotions \cup raced

\* A promotion that was there, that came in the meantime, or that is the pass's own.
KnowsPromotion(a, p) ==
    \/ Keys(TextOf(p.rep)) \subseteq job[a].promotions \cup raced
    \/ p.rep \in job[a].consumed
KnowsReview(a, p) ==
    \/ p.key \in job[a].reviews \cup raced
    \/ /\ job[a].phase # "repeated" /\ p.ids \subseteq job[a].consumed
       /\ p.key[1] \in {"conflict", "latent", "latent ids"}
       /\ p.key[1] = "conflict" /\ job[a].phase = "conflict" =>
            \A g \in job[a].groups : g.key # p.key
Knows(a, p) ==
    /\ p.rule = "promotion" /\ p.status # "applied" => KnowsPromotion(a, p)
    /\ p.rule = "review" /\ p.status # "rejected" => KnowsReview(a, p)
KnowsQueue(a) ==
    job[a].pc = "group" /\ Len(proposals) <= ScanLimit =>
        \A m \in DOMAIN proposals : Knows(a, proposals[m])

Informed == \A a \in Actors : Phased(a) /\ KnowsFacts(a) /\ KnowsQueue(a)

LEMMA InformedInit == Init => Informed
<1>1. ASSUME Init, NEW a \in Actors PROVE job[a].pc = "idle"
  BY <1>1 DEF Init, Idle
<1> QED
  BY <1>1 DEF Informed, Phased, KnowsFacts, KnowsQueue

\* A fact that is new has the keys of a promotion that was applied meanwhile.
LEMMA FactsStep ==
    ASSUME Types, Grown, NEW a \in Actors, job[a].pc \in SemanticPass
    PROVE  FactKeys' \subseteq FactKeys \cup raced'
<1> SUFFICES ASSUME NEW k \in FactKeys' PROVE k \in FactKeys \cup raced'
  OBVIOUS
<1>1. PICK i \in DOMAIN claims' : claims'[i].state = "semantic" /\ k \in Keys(claims'[i].text)
  BY DEF FactKeys, TextOf
<1>2. /\ i \in DOMAIN claims
      /\ claims[i].state = "semantic" \/ Keys(TextOf(i)) \subseteq raced'
  BY <1>1 DEF Grown, NewFacts
<1>3. k \in Keys(TextOf(i))
  BY <1>1, <1>2 DEF Grown, Kept, TextOf
<1> QED
  BY <1>2, <1>3 DEF FactKeys

\* An actor that stands still knows what it knew, and of what is new that it
\* came in the meantime.
LEMMA StillInformed ==
    ASSUME Types, Types', Grown, NEW a \in Actors, job'[a] = job[a],
           Phased(a), KnowsFacts(a), KnowsQueue(a)
    PROVE  Phased(a)' /\ KnowsFacts(a)' /\ KnowsQueue(a)'
<1>1. Kept /\ NewFacts /\ NewProposals /\ raced \subseteq raced'
  BY DEF Grown
<1>2. Working(a) /\ DOMAIN proposals = 1 .. Len(proposals) /\ Len(proposals) \in Nat
      /\ DOMAIN proposals' = 1 .. Len(proposals') /\ Len(proposals') \in Nat
  BY DEF Types, Filings
<1>3. \A i \in DOMAIN claims : TextOf(i)' = TextOf(i)
  BY <1>1 DEF Kept, TextOf
<1>4. Phased(a)'
  <2> SUFFICES ASSUME job[a].pc = "group" PROVE Phased(a)'
    BY DEF Phased
  <2>1. job[a].ids \subseteq DOMAIN claims
    BY <1>2 DEF Working, SemanticPass
  <2>2. \A k : {i \in job[a].ids : k \in Keys(TextOf(i))'} = {i \in job[a].ids : k \in Keys(TextOf(i))}
    BY <1>3, <2>1
  <2> QED
    BY <2>2 DEF Phased
<1>5. KnowsFacts(a)'
  <2>1. job[a].pc \in {"queue", "group"} => FactKeys' \subseteq FactKeys \cup raced'
    BY FactsStep DEF SemanticPass
  <2> QED
    BY <1>1, <2>1 DEF KnowsFacts
<1>6. KnowsQueue(a)'
  <2> SUFFICES ASSUME job[a].pc = "group", Len(proposals') <= ScanLimit,
                      NEW m \in DOMAIN proposals'
               PROVE  Knows(a, proposals[m])'
    BY DEF KnowsQueue
  <2>1. Len(proposals) <= ScanLimit
    <3>1. DOMAIN proposals \subseteq DOMAIN proposals'
      BY <1>1 DEF NewProposals
    <3> QED
      BY <1>2, <3>1, BoundsAssumption
  <2>2. CASE m \in DOMAIN proposals
    <3> DEFINE p == proposals[m]
               q == proposals'[m]
    <3>1. /\ q.rule = p.rule /\ q.ids = p.ids /\ q.rep = p.rep /\ q.key = p.key
          /\ q.status = p.status \/ p.status = "queued"
      BY <1>1, <2>2 DEF NewProposals
    <3>2. Knows(a, p) /\ Filed(p)
      BY <2>1, <2>2 DEF KnowsQueue, Types, Filings
    <3>3. q.rule = "promotion" => Keys(claims'[q.rep].text) = Keys(TextOf(p.rep))
      BY <1>3, <3>1, <3>2 DEF Filed, TextOf
    <3>4. ASSUME q.rule = "promotion", q.status # "applied"
          PROVE  Keys(claims'[q.rep].text) \subseteq job'[a].promotions \cup raced'
                    \/ q.rep \in job'[a].consumed
      BY <1>1, <3>1, <3>2, <3>3, <3>4 DEF Knows, KnowsPromotion
    <3>5. ASSUME q.rule = "review", q.status # "rejected"
          PROVE  \/ q.key \in job'[a].reviews \cup raced'
                 \/ /\ job'[a].phase # "repeated" /\ q.ids \subseteq job'[a].consumed
                    /\ q.key[1] \in {"conflict", "latent", "latent ids"}
                    /\ q.key[1] = "conflict" /\ job'[a].phase = "conflict" =>
                          \A g \in job'[a].groups : g.key # q.key
      <4>1. KnowsReview(a, p)
        BY <3>1, <3>2, <3>5 DEF Knows
      <4> QED
        BY <1>1, <3>1, <4>1 DEF KnowsReview
    <3> QED
      BY <3>4, <3>5 DEF Knows, KnowsPromotion, KnowsReview, TextOf
  <2>3. CASE m \notin DOMAIN proposals
    <3>1. proposals'[m].rule # "open" => Settled(proposals'[m]) \subseteq raced'
      BY <1>1, <2>3 DEF NewProposals, SemanticPass
    <3>2. proposals'[m].rule # "open" => proposals'[m].key \in raced'
      BY <3>1 DEF Settled
    <3>3. proposals'[m].rule = "promotion" => Keys(claims'[proposals'[m].rep].text) \subseteq raced'
      <4>1. ASSUME proposals'[m].rule = "promotion"
            PROVE  Keys(TextOf(proposals'[m].rep)) \subseteq raced'
        BY <3>1, <4>1 DEF Settled
      <4>2. proposals'[m].rule = "promotion" => proposals'[m].rep \in DOMAIN claims
        BY <1>1, <2>3 DEF NewProposals
      <4> QED
        BY <1>3, <4>1, <4>2 DEF TextOf
    <3> QED
      BY <3>2, <3>3 DEF Knows, KnowsPromotion, KnowsReview, TextOf
  <2> QED
    BY <2>2, <2>3
<1> QED
  BY <1>4, <1>5, <1>6

LEMMA InformedStep == Types /\ Informed /\ [Next]_vars => Informed'
<1> SUFFICES ASSUME Types, Informed, [Next]_vars PROVE Informed'
  OBVIOUS
<1>1. Types' /\ Grown
  BY TypesStep
<1>2. /\ DOMAIN job = Actors /\ DOMAIN job' = Actors
      /\ \A a \in Actors : Working(a) /\ Working(a)'
      /\ \A a \in Actors : Phased(a) /\ KnowsFacts(a) /\ KnowsQueue(a)
  BY <1>1 DEF Types, Informed
<1>3. /\ Len(proposals) \in Nat /\ DOMAIN proposals = 1 .. Len(proposals)
      /\ \A m \in DOMAIN proposals : Filed(proposals[m])
  BY DEF Types, Filings
<1>4. CASE UNCHANGED job
  BY <1>1, <1>2, <1>4, StillInformed DEF Informed
\* It is enough to look at the actor that moves.
<1>5. ASSUME NEW a \in Actors, \A b \in Actors \ {a} : job'[b] = job[b],
             Phased(a)' /\ KnowsFacts(a)' /\ KnowsQueue(a)'
      PROVE  Informed'
  BY <1>1, <1>2, <1>5, StillInformed DEF Informed
<1>6. ASSUME NEW a \in Actors, NEW j, Goto(a, j), j.pc \notin {"queue", "group"}
      PROVE  Informed'
  <2>1. job'[a] = j /\ \A b \in Actors \ {a} : job'[b] = job[b]
    BY <1>2, <1>6, Went
  <2>2. Phased(a)' /\ KnowsFacts(a)' /\ KnowsQueue(a)'
    BY <1>6, <2>1 DEF Phased, KnowsFacts, KnowsQueue
  <2> QED
    BY <1>5, <2>1, <2>2
<1>7. CASE Detect \/ DetectAgain \/ Resolve \/ Learn \/ Correct \/ Reject \/ ApplyPromotion
           \/ UNCHANGED vars
  BY <1>4, <1>7 DEF Detect, DetectAgain, Resolve, Learn, Correct, Reject, ApplyPromotion, vars
<1>8. ASSUME NEW a \in Actors,
             BeginOpen(a) \/ Collect(a) \/ Ask(a) \/ File(a) \/ BeginSemantic(a) \/ Kill(a)
      PROVE  Informed'
  <2>1. CASE BeginOpen(a)
    BY <1>6, <2>1 DEF BeginOpen
  <2>2. CASE Collect(a)
    BY <1>6, <2>2 DEF Collect, Idle
  <2>3. CASE Ask(a)
    BY <1>6, <2>3 DEF Ask, Asked
  <2>4. CASE File(a)
    BY <1>6, <2>4 DEF File, Idle
  <2>5. CASE BeginSemantic(a)
    BY <1>6, <2>5 DEF BeginSemantic
  <2>6. CASE Kill(a)
    BY <1>6, <2>6 DEF Kill, Idle
  <2> QED
    BY <1>8, <2>1, <2>2, <2>3, <2>4, <2>5, <2>6
<1>9. ASSUME NEW a \in Actors, ReadFacts(a) PROVE Informed'
  <2>1. /\ Goto(a, [pc |-> "queue", ids |-> job[a].ids, facts |-> FactKeys])
        /\ UNCHANGED <<claims, raced>>
    BY <1>9 DEF ReadFacts, world, history
  <2>2. /\ job'[a] = [pc |-> "queue", ids |-> job[a].ids, facts |-> FactKeys]
        /\ \A b \in Actors \ {a} : job'[b] = job[b]
    BY <1>2, <2>1, Went
  <2>3. FactKeys' = FactKeys
    BY <2>1 DEF FactKeys, TextOf
  <2>4. Phased(a)' /\ KnowsFacts(a)' /\ KnowsQueue(a)'
    BY <2>2, <2>3 DEF Phased, KnowsFacts, KnowsQueue
  <2> QED
    BY <1>5, <2>2, <2>4
<1>10. ASSUME NEW a \in Actors, ReadQueue(a) PROVE Informed'
  <2> DEFINE j == [pc |-> "group", phase |-> "repeated", ids |-> job[a].ids,
                   groups |-> RepeatedGroups(job[a].ids), consumed |-> {}, seen |-> {},
                   promotions |-> PromotionKeys \cup job[a].facts, reviews |-> ReviewKeys]
  <2>1. Goto(a, j) /\ UNCHANGED <<claims, proposals, raced>> /\ job[a].pc = "queue"
    BY <1>10 DEF ReadQueue, world, history
  <2>2. job'[a] = j /\ \A b \in Actors \ {a} : job'[b] = job[b]
    BY <1>2, <2>1, Went
  <2>3. /\ job'[a].pc = "group" /\ job'[a].phase = "repeated" /\ job'[a].ids = job[a].ids
        /\ job'[a].groups = RepeatedGroups(job[a].ids)
        /\ job'[a].promotions = PromotionKeys \cup job[a].facts
        /\ job'[a].reviews = ReviewKeys
    BY <2>2
  <2> HIDE DEF j
  <2>4. FactKeys' = FactKeys /\ \A i : TextOf(i)' = TextOf(i)
    BY <2>1 DEF FactKeys, TextOf
  <2>5. Phased(a)'
    <3>1. ASSUME NEW g \in RepeatedGroups(job[a].ids)
          PROVE  g.ids = {i \in job[a].ids : g.key \in Keys(TextOf(i))}
      BY OfRepeated
    <3> QED
      BY <2>3, <2>4, <3>1 DEF Phased
  <2>6. KnowsFacts(a)'
    <3>1. FactKeys \subseteq job[a].facts \cup raced
      BY <1>2, <2>1 DEF KnowsFacts
    <3> QED
      BY <2>1, <2>3, <2>4, <3>1 DEF KnowsFacts
  <2>7. KnowsQueue(a)'
    <3> SUFFICES ASSUME Len(proposals) <= ScanLimit, NEW m \in DOMAIN proposals
                 PROVE  Knows(a, proposals[m])'
      BY <2>1 DEF KnowsQueue
    <3>1. m \in Scanned(Everywhere)
      BY AllScanned DEF InScope, Everywhere
    <3>2. proposals[m].rule = "promotion" /\ proposals[m].status # "applied"
             => Keys(TextOf(proposals[m].rep)) \subseteq PromotionKeys
      BY <3>1 DEF PromotionKeys
    <3>3. proposals[m].rule = "review" /\ proposals[m].status # "rejected"
             => proposals[m].key \in ReviewKeys
      BY <3>1 DEF ReviewKeys
    <3> QED
      BY <2>1, <2>3, <2>4, <3>2, <3>3 DEF Knows, KnowsPromotion, KnowsReview
  <2> QED
    BY <1>5, <2>2, <2>5, <2>6, <2>7
<1>11. ASSUME NEW a \in Actors, NextPhase(a) PROVE Informed'
  <2>1. PICK j : /\ Goto(a, j)
                 /\ \/ j = Idle
                    \/ /\ job[a].phase = "repeated"
                       /\ j = [job[a] EXCEPT !.phase = "conflict",
                                             !.groups = ConflictGroups(job[a].ids \ job[a].consumed)]
                    \/ /\ job[a].phase = "conflict"
                       /\ j = [job[a] EXCEPT !.phase = "latent",
                                             !.groups = LatentGroups(job[a].ids \ job[a].consumed)]
    BY <1>11, Advanced
  <2>2. /\ UNCHANGED <<claims, proposals, raced>> /\ job[a].pc = "group"
        /\ DOMAIN job[a] = GroupFields
    BY <1>2, <1>11 DEF NextPhase, world, history, Working
  <2>3. CASE j = Idle
    BY <1>6, <2>1, <2>3 DEF Idle
  <2>4. ASSUME NEW phase \in {"conflict", "latent"}, NEW groups,
               j = [job[a] EXCEPT !.phase = phase, !.groups = groups],
               phase = "conflict" => job[a].phase = "repeated",
               phase = "conflict" => groups = ConflictGroups(job[a].ids \ job[a].consumed),
               phase = "latent" => groups = LatentGroups(job[a].ids \ job[a].consumed)
        PROVE  Informed'
    <3>1. j.pc = "group" /\ j.phase = phase /\ j.groups = groups /\ j.consumed = job[a].consumed
          /\ j.promotions = job[a].promotions /\ j.reviews = job[a].reviews
      BY <2>2, <2>4 DEF GroupFields
    <3>2. job'[a] = j /\ \A b \in Actors \ {a} : job'[b] = job[b]
      BY <1>2, <2>1, Went
    <3>3. Phased(a)'
      <4>1. phase = "conflict" => \A g \in groups :
               g.key[1] = "conflict" /\ \A h \in groups : h.key = g.key => h = g
        BY <2>4, OfConflict
      <4>2. phase = "latent" => \A g \in groups : g.key[1] \in {"latent", "latent ids"}
        BY <2>4, OfLatent
      <4> QED
        BY <3>1, <3>2, <4>1, <4>2 DEF Phased
    <3>4. KnowsFacts(a)'
      <4>1. FactKeys' = FactKeys
        BY <2>2 DEF FactKeys, TextOf
      <4> QED
        BY <1>2, <2>2, <3>1, <3>2, <4>1 DEF KnowsFacts
    <3>5. KnowsQueue(a)'
      <4> SUFFICES ASSUME Len(proposals) <= ScanLimit, NEW m \in DOMAIN proposals
                   PROVE  Knows(a, proposals[m])'
        BY <2>2 DEF KnowsQueue
      <4>1. Knows(a, proposals[m])
        BY <1>2, <2>2 DEF KnowsQueue
      <4>2. \A i : TextOf(i)' = TextOf(i)
        BY <2>2 DEF TextOf
      <4>3. KnowsReview(a, proposals[m]) => KnowsReview(a, proposals[m])'
        BY <2>2, <2>4, <3>1, <3>2 DEF KnowsReview
      <4>4. KnowsPromotion(a, proposals[m]) => KnowsPromotion(a, proposals[m])'
        BY <2>2, <3>1, <3>2, <4>2 DEF KnowsPromotion
      <4> QED
        BY <2>2, <4>1, <4>3, <4>4 DEF Knows
    <3> QED
      BY <1>5, <3>2, <3>3, <3>4, <3>5
  <2> QED
    BY <2>1, <2>3, <2>4
<1>12. ASSUME NEW a \in Actors, Consider(a) PROVE Informed'
  <2>1. PICK g \in job[a].groups :
           /\ job[a].pc = "group"
           /\ \/ \E taken \in BOOLEAN : Done(a, g, taken) /\ UNCHANGED <<proposals, raced>>
              \/ job[a].phase = "repeated" /\ Propose(a, g, Promotion(g))
              \/ job[a].phase # "repeated" /\ Propose(a, g, Review(g))
    BY <1>12, Outcome
  <2>2. PICK taken \in BOOLEAN :
           /\ Done(a, g, taken)
           /\ \/ UNCHANGED proposals
              \/ job[a].phase = "repeated" /\ Queue(Promotion(g)) /\ taken
              \/ job[a].phase # "repeated" /\ Queue(Review(g)) /\ taken
    BY <2>1 DEF Propose
  <2>3. /\ job'[a].pc = "group" /\ job'[a].phase = job[a].phase /\ job'[a].ids = job[a].ids
        /\ job'[a].groups = job[a].groups \ {g}
        /\ job'[a].consumed = job[a].consumed \cup (IF taken THEN g.ids ELSE {})
        /\ job'[a].promotions = job[a].promotions /\ job'[a].reviews = job[a].reviews
        /\ \A b \in Actors \ {a} : job'[b] = job[b]
    BY <2>1, <2>2, Finished
  <2>4. UNCHANGED claims /\ raced \subseteq raced' /\ \A i : TextOf(i)' = TextOf(i)
    BY <1>1, <1>12 DEF Consider, world, Grown, TextOf
  <2>5. Phased(a)'
    <3>1. Phased(a) /\ \A k : {i \in job[a].ids : k \in Keys(TextOf(i))'}
                               = {i \in job[a].ids : k \in Keys(TextOf(i))}
      BY <1>2, <2>4
    <3> QED
      BY <2>1, <2>3, <3>1 DEF Phased
  <2>6. KnowsFacts(a)'
    <3>1. FactKeys' = FactKeys
      BY <2>4 DEF FactKeys, TextOf
    <3> QED
      BY <1>2, <2>1, <2>3, <2>4, <3>1 DEF KnowsFacts
  <2>7. ASSUME NEW p, Knows(a, p) PROVE Knows(a, p)'
    <3>1. KnowsPromotion(a, p) => KnowsPromotion(a, p)'
      BY <2>3, <2>4 DEF KnowsPromotion
    <3>2. KnowsReview(a, p) => KnowsReview(a, p)'
      BY <2>3, <2>4 DEF KnowsReview
    <3> QED
      BY <2>7, <3>1, <3>2 DEF Knows
  <2>8. Grouped(g, job[a].ids) /\ g.ids \subseteq 1 .. Len(claims) /\ Len(claims) \in Nat
    <3>1. Len(claims) \in Nat /\ DOMAIN claims = 1 .. Len(claims)
      BY DEF Types, Tables
    <3> QED
      BY <1>2, <2>1, <3>1 DEF Working, SemanticPass, Grouped
  <2>9. ASSUME job[a].phase = "repeated", taken, NEW p, p = Promotion(g) PROVE Knows(a, p)'
    <3>1. Max(g.ids) \in job'[a].consumed
      BY <2>3, <2>8, <2>9, Largest DEF Grouped
    <3>2. p.rule = "promotion" /\ p.rep = Max(g.ids)
      BY <2>9 DEF Promotion, Proposal
    <3> QED
      BY <3>1, <3>2 DEF Knows, KnowsPromotion
  <2>10. ASSUME job[a].phase # "repeated", taken, NEW p, p = Review(g) PROVE Knows(a, p)'
    <3>1. p.rule = "review" /\ p.ids = g.ids /\ p.key = g.key
      BY <2>10 DEF Review, Proposal
    <3>2. p.ids \subseteq job'[a].consumed
      BY <2>3, <2>10, <3>1
    <3>3. job[a].phase \in {"conflict", "latent"}
      BY <1>2, <2>1, <2>10 DEF Working
    <3>4. Phased(a)
      BY <1>2
    <3>5. p.key[1] \in {"conflict", "latent", "latent ids"}
      BY <2>1, <3>1, <3>3, <3>4 DEF Phased
    <3>6. job[a].phase = "conflict" => \A h \in job'[a].groups : h.key # p.key
      BY <2>1, <2>3, <3>1, <3>4 DEF Phased
    <3>7. KnowsReview(a, p)'
      BY <2>3, <2>10, <3>1, <3>2, <3>5, <3>6 DEF KnowsReview
    <3> QED
      BY <3>1, <3>7 DEF Knows
  <2>11. KnowsQueue(a)'
    <3> SUFFICES ASSUME Len(proposals') <= ScanLimit, NEW m \in DOMAIN proposals'
                 PROVE  Knows(a, proposals[m])'
      BY DEF KnowsQueue
    <3>1. \/ UNCHANGED proposals
          \/ \E p : /\ \/ job[a].phase = "repeated" /\ p = Promotion(g) /\ taken
                       \/ job[a].phase # "repeated" /\ p = Review(g) /\ taken
                    /\ DOMAIN proposals' = DOMAIN proposals \cup {Len(proposals) + 1}
                    /\ Len(proposals') = Len(proposals) + 1
                    /\ \A n \in DOMAIN proposals : proposals'[n] = proposals[n]
                    /\ proposals'[Len(proposals) + 1] = p
      BY <2>2, Queued DEF Types
    <3>2. Len(proposals) <= ScanLimit
      BY <1>3, <3>1, BoundsAssumption
    <3>3. \A n \in DOMAIN proposals : Knows(a, proposals[n])
      BY <1>2, <2>1, <3>2 DEF KnowsQueue
    <3>4. CASE m \in DOMAIN proposals
      <4>1. PICK p : p = proposals[m] /\ Knows(a, p)
        BY <3>3, <3>4
      <4>2. Knows(a, p)' /\ proposals'[m] = p
        BY <2>7, <3>1, <3>4, <4>1
      <4> QED
        BY <4>2 DEF Knows, KnowsPromotion, KnowsReview
    <3>5. CASE m \notin DOMAIN proposals
      <4>1. PICK p : /\ \/ job[a].phase = "repeated" /\ p = Promotion(g) /\ taken
                        \/ job[a].phase # "repeated" /\ p = Review(g) /\ taken
                     /\ proposals'[m] = p
        BY <3>1, <3>5
      <4>2. proposals'[m] = p /\ Knows(a, p)'
        BY <2>9, <2>10, <4>1
      <4> QED
        BY <4>2 DEF Knows, KnowsPromotion, KnowsReview
    <3> QED
      BY <3>4, <3>5
  <2> QED
    BY <1>5, <2>3, <2>5, <2>6, <2>11
<1> QED
  BY <1>7, <1>8, <1>9, <1>10, <1>11, <1>12 DEF Next, Pass

\* What a step may file, as ProposedOnce says it.
New(n) ==
    LET p == proposals'[n]
    IN  p.key \notin raced' /\ n <= ScanLimit =>
          /\ p.rule = "promotion" =>
               /\ p.key \notin FactKeys
               /\ \A m \in DOMAIN proposals :
                    proposals[m].rule = "promotion" /\ proposals[m].status # "applied"
                      => p.key \notin Keys(TextOf(proposals[m].rep))
          /\ p.rule = "review" =>
               \A m \in DOMAIN proposals :
                  proposals[m].rule = "review" /\ proposals[m].key = p.key
                    => proposals[m].status = "rejected" \/ Namesake(p, proposals[m])

LEMMA NewStep ==
    Types /\ Informed /\ [Next]_vars => \A n \in DOMAIN proposals' \ DOMAIN proposals : New(n)
<1> SUFFICES ASSUME Types, Informed, [Next]_vars, NEW n \in DOMAIN proposals' \ DOMAIN proposals
             PROVE  New(n)
  OBVIOUS
<1>1. Types' /\ Grown
  BY TypesStep
<1>2. /\ DOMAIN job = Actors /\ \A a \in Actors : Working(a) /\ Phased(a) /\ KnowsFacts(a) /\ KnowsQueue(a)
      /\ Len(proposals) \in Nat /\ DOMAIN proposals = 1 .. Len(proposals)
      /\ \A m \in DOMAIN proposals : Filed(proposals[m])
      /\ raced \subseteq raced' /\ n = Len(proposals) + 1
  <2>1. DOMAIN job = Actors /\ \A a \in Actors : Working(a)
    BY DEF Types
  <2>2. /\ Len(proposals) \in Nat /\ DOMAIN proposals = 1 .. Len(proposals)
        /\ \A m \in DOMAIN proposals : Filed(proposals[m])
    BY DEF Types, Filings
  <2>3. raced \subseteq raced' /\ n = Len(proposals) + 1
    BY <1>1 DEF Grown, NewProposals
  <2> QED
    BY <2>1, <2>2, <2>3 DEF Informed
<1>3. ASSUME proposals'[n].rule = "open" PROVE New(n)
  BY <1>3 DEF New
<1>4. ASSUME NEW a \in Actors, File(a) PROVE New(n)
  <2>1. Queue(Proposal("open", {job[a].signal}, 0, <<>>, PlaceOf(job[a].signal)))
    BY <1>4 DEF File
  <2>2. proposals'[n] = Proposal("open", {job[a].signal}, 0, <<>>, PlaceOf(job[a].signal))
    BY <1>2, <2>1, Queued DEF Types
  <2> QED
    BY <1>3, <2>2 DEF Proposal
<1>5. ASSUME NEW a \in Actors, Consider(a) PROVE New(n)
  <2>1. PICK g \in job[a].groups :
           /\ job[a].pc = "group"
           /\ \/ \E taken \in BOOLEAN : Done(a, g, taken) /\ UNCHANGED <<proposals, raced>>
              \/ /\ job[a].phase = "repeated" /\ Promotable(job[a], g) /\ Trusted(g)
                 /\ g.key \notin job[a].promotions /\ Propose(a, g, Promotion(g))
              \/ /\ job[a].phase # "repeated" /\ g.ids \cap job[a].consumed = {} /\ Trusted(g)
                 /\ g.key \notin job[a].reviews /\ Propose(a, g, Review(g))
    BY <1>5, Outcome
  <2>2. Grouped(g, job[a].ids) /\ job[a].consumed \subseteq job[a].ids
    BY <1>2, <2>1 DEF Working
  <2> SUFFICES ASSUME proposals'[n].key \notin raced', n <= ScanLimit PROVE New(n)
    BY DEF New
  <2>3. \A m \in DOMAIN proposals : Knows(a, proposals[m])
    <3>1. Len(proposals) <= ScanLimit
      BY <1>2, BoundsAssumption
    <3> QED
      BY <1>2, <2>1, <3>1 DEF KnowsQueue
  <2>4. CASE UNCHANGED proposals
    BY <2>4
  \* A promotion: the group shares its key with no claim that is taken.
  <2>5. CASE /\ job[a].phase = "repeated" /\ Promotable(job[a], g)
             /\ g.key \notin job[a].promotions /\ Propose(a, g, Promotion(g))
    <3>1. proposals'[n] = Promotion(g)
      BY <1>2, <2>5, Queued DEF Types, Propose
    <3>2. proposals'[n].rule = "promotion" /\ proposals'[n].key = g.key
      BY <3>1 DEF Promotion, Proposal
    <3>3. g.key \notin raced
      BY <1>2, <3>2
    <3>4. g.key \notin FactKeys
      BY <1>2, <2>1, <2>5, <3>3 DEF KnowsFacts
    <3>5. ASSUME NEW m \in DOMAIN proposals, proposals[m].rule = "promotion",
                 proposals[m].status # "applied", g.key \in Keys(TextOf(proposals[m].rep))
          PROVE  FALSE
      <4>1. KnowsPromotion(a, proposals[m])
        BY <2>3, <3>5 DEF Knows
      <4>2. proposals[m].rep \in job[a].consumed
        BY <2>5, <3>3, <3>5, <4>1 DEF KnowsPromotion
      <4>3. g.ids = {i \in job[a].ids : g.key \in Keys(TextOf(i))}
        BY <1>2, <2>1, <2>5 DEF Phased
      <4> QED
        BY <2>2, <2>5, <3>5, <4>2, <4>3 DEF Promotable
    <3> QED
      BY <3>2, <3>4, <3>5 DEF New
  \* A review: its key is known, or it is the own one of another group.
  <2>6. CASE /\ job[a].phase # "repeated" /\ g.ids \cap job[a].consumed = {}
             /\ g.key \notin job[a].reviews /\ Propose(a, g, Review(g))
    <3>1. proposals'[n] = Review(g) /\ job'[a] # job[a]
      BY <1>2, <2>1, <2>6, Queued, Finished DEF Types, Propose
    <3>2. proposals'[n].rule = "review" /\ proposals'[n].key = g.key
      BY <3>1 DEF Review, Proposal
    <3>3. g.key \notin raced
      BY <1>2, <3>2
    <3>4. ASSUME NEW m \in DOMAIN proposals, proposals[m].rule = "review",
                 proposals[m].status # "rejected", proposals[m].key = g.key
          PROVE  Namesake(proposals'[n], proposals[m])
      <4>1. KnowsReview(a, proposals[m])
        BY <2>3, <3>4 DEF Knows
      <4>2. /\ proposals[m].ids \subseteq job[a].consumed
            /\ g.key[1] = "conflict" /\ job[a].phase = "conflict" => FALSE
        BY <2>1, <2>6, <3>3, <3>4, <4>1 DEF KnowsReview
      <4>3. job[a].phase \in {"conflict", "latent"}
        BY <1>2, <2>1, <2>6 DEF Working
      <4>4. g.key[1] \in {"latent", "latent ids"}
        BY <1>2, <2>1, <4>2, <4>3 DEF Phased
      <4>5. g.key[1] # "latent ids"
        <5>1. SUFFICES ASSUME g.key[1] = "latent ids" PROVE FALSE
          OBVIOUS
        <5>2. g.ids = proposals[m].ids
          BY <1>2, <2>2, <3>4, <5>1 DEF Grouped, Filed
        <5> QED
          BY <2>2, <2>6, <4>2, <5>2 DEF Grouped
      <4> QED
        BY <2>1, <3>1, <3>2, <4>2, <4>4, <4>5 DEF Namesake
    <3> QED
      BY <3>2, <3>4 DEF New
  <2> QED
    BY <2>1, <2>4, <2>5, <2>6
<1>6. ASSUME DOMAIN proposals' = DOMAIN proposals PROVE New(n)
  BY <1>6
<1>7. CASE Detect \/ DetectAgain \/ Resolve \/ Learn \/ Correct \/ UNCHANGED vars
  BY <1>6, <1>7 DEF Detect, DetectAgain, Resolve, Learn, Correct, vars
<1>8. CASE Reject \/ ApplyPromotion
  <2>1. DOMAIN proposals' = DOMAIN proposals
    BY <1>8 DEF Reject, ApplyPromotion
  <2> QED
    BY <1>6, <2>1
<1>9. ASSUME NEW a \in Actors,
             BeginOpen(a) \/ Collect(a) \/ Ask(a) \/ BeginSemantic(a) \/ ReadFacts(a) \/ ReadQueue(a)
             \/ NextPhase(a) \/ Kill(a)
      PROVE  New(n)
  BY <1>6, <1>9 DEF BeginOpen, Collect, Ask, BeginSemantic, ReadFacts, ReadQueue, NextPhase, Kill
<1> QED
  BY <1>4, <1>5, <1>7, <1>8, <1>9 DEF Next, Pass

\* "semantic_promotion_proposal_already_exists": a pass proposes nothing that is
\* a fact, that was proposed or refused as one, or that waits for the reviewer.
THEOREM ProposalsHold == Spec => ProposedOnce
<1>1. Types /\ Informed /\ [Next]_vars => [\A n \in DOMAIN proposals' \ DOMAIN proposals : New(n)]_vars
  BY NewStep
<1> QED
  BY <1>1, TypesInit, TypesStep, InformedInit, InformedStep, PTL DEF Spec, ProposedOnce, New

-----------------------------------------------------------------------------
(* A conflict comes before the reviewer.                                    *)

\* The claims on a topic, and those whose words or tokens are another's.
Saying(ids, x) == {k \in ids : Topic(TextOf(k)) = x}
Sharing(ids, key) == {k \in ids : key \in Keys(TextOf(k))}
Loner(i, ids) ==
    \A key \in Keys(TextOf(i)) :
        Cardinality(Sharing(ids, key)) >= MinSupport => Mixed(Sharing(ids, key))

\* A topic on which the claims disagree, all of them trusted and none repeated.
Due(ids, x) ==
    /\ Cardinality(x) >= MinTokens /\ Mixed(Saying(ids, x))
    /\ \A k \in Saying(ids, x) : claims[k].trusted /\ Loner(k, ids)

Reviewed(key) == \E n \in DOMAIN proposals : proposals[n].rule = "review" /\ proposals[n].key = key

\* Its claims stay for the conflicts, its group stays until it is considered.
Following(a) ==
    LET ids == job[a].ids
        groups == job[a].groups
        consumed == job[a].consumed
    IN  job[a].pc = "group" =>
          /\ \A key \in job[a].reviews : Reviewed(key)
          /\ job[a].phase = "repeated" =>
               /\ \A g \in groups : Cardinality(g.ids) >= MinSupport /\ g.ids = Sharing(ids, g.key)
               /\ \A k \in consumed : ~Loner(k, ids)
          /\ job[a].phase = "conflict" =>
               /\ \A g \in groups : \E x : g.key = <<"conflict", x>> /\ g.ids \subseteq Saying(ids, x)
               /\ \A x : Due(ids, x) =>
                    \/ Reviewed(<<"conflict", x>>)
                    \/ /\ Saying(ids, x) \cap consumed = {}
                       /\ \E g \in groups : g.key = <<"conflict", x>> /\ g.ids = Saying(ids, x)
          /\ job[a].phase = "latent" => \A x : Due(ids, x) => Reviewed(<<"conflict", x>>)
Follows == \A a \in Actors : Following(a)

LEMMA FollowsInit == Init => Follows
<1>1. ASSUME Init, NEW a \in Actors PROVE job[a].pc = "idle"
  BY <1>1 DEF Init, Idle
<1> QED
  BY <1>1 DEF Follows, Following

\* Texts stay, trust is only lost, and no proposal goes.
LEMMA DueStep ==
    ASSUME Kept, NEW ids \in SUBSET DOMAIN claims
    PROVE  /\ \A x : Saying(ids, x)' = Saying(ids, x) /\ Sharing(ids, x)' = Sharing(ids, x)
           /\ \A i \in ids : Loner(i, ids)' <=> Loner(i, ids)
           /\ \A x : Due(ids, x)' => Due(ids, x)
<1>1. \A i \in ids : TextOf(i)' = TextOf(i)
  BY DEF Kept, TextOf
<1>2. \A x : Saying(ids, x)' = Saying(ids, x) /\ Sharing(ids, x)' = Sharing(ids, x)
  BY <1>1 DEF Saying, Sharing
<1>3. ASSUME NEW S \in SUBSET ids PROVE Mixed(S)' <=> Mixed(S)
  BY <1>1 DEF Mixed
<1>4. \A x : Saying(ids, x) \subseteq ids /\ Sharing(ids, x) \subseteq ids
  BY DEF Saying, Sharing
<1>5. ASSUME NEW i \in ids PROVE Loner(i, ids)' <=> Loner(i, ids)
  <2>1. ASSUME NEW key PROVE Mixed(Sharing(ids, key))' <=> Mixed(Sharing(ids, key))
    <3>1. PICK S \in SUBSET ids : S = Sharing(ids, key) /\ Sharing(ids, key)' = S
      BY <1>2, <1>4
    <3>2. Mixed(S)' <=> Mixed(Sharing(ids, key))'
      BY <3>1 DEF Mixed
    <3> QED
      BY <1>3, <3>1, <3>2
  <2> QED
    BY <1>1, <1>2, <2>1 DEF Loner
<1>6. ASSUME NEW x, Due(ids, x)' PROVE Due(ids, x)
  <2>1. Mixed(Saying(ids, x))
    BY <1>2, <1>3, <1>4, <1>6 DEF Due, Mixed
  <2>2. \A k \in Saying(ids, x) : claims[k].trusted /\ Loner(k, ids)
    BY <1>2, <1>4, <1>5, <1>6 DEF Due, Kept
  <2> QED
    BY <1>6, <2>1, <2>2 DEF Due
<1> QED
  BY <1>2, <1>5, <1>6

LEMMA ReviewedStep ==
    ASSUME NewProposals, NEW key, Reviewed(key)
    PROVE  Reviewed(key)'
BY DEF NewProposals, Reviewed

LEMMA StillFollowing ==
    ASSUME Types, Grown, NEW a \in Actors, job'[a] = job[a], Following(a)
    PROVE  Following(a)'
<1> SUFFICES ASSUME job[a].pc = "group" PROVE Following(a)'
  BY DEF Following
<1>1. PICK ids : ids = job[a].ids
  OBVIOUS
<1>2. ids \subseteq DOMAIN claims /\ job[a].consumed \subseteq ids
  BY <1>1 DEF Types, Working, SemanticPass
<1>3. Kept /\ NewProposals
  BY DEF Grown
<1>4. /\ \A x : Saying(ids, x)' = Saying(ids, x) /\ Sharing(ids, x)' = Sharing(ids, x)
      /\ \A i \in ids : Loner(i, ids)' <=> Loner(i, ids)
      /\ \A x : Due(ids, x)' => Due(ids, x)
  BY <1>2, <1>3, DueStep
<1>5. \A key : Reviewed(key) => Reviewed(key)'
  BY <1>3, ReviewedStep
<1> QED
  BY <1>1, <1>2, <1>4, <1>5 DEF Following

\* The group of a topic is among those a pass takes up, if its claims are free.
LEMMA ConflictFound ==
    ASSUME Types, NEW ids \in SUBSET DOMAIN claims, NEW left \in SUBSET ids, NEW x, Due(ids, x),
           Saying(ids, x) \subseteq left
    PROVE  \E g \in ConflictGroups(left) : g.key = <<"conflict", x>> /\ g.ids = Saying(ids, x)
<1> DEFINE On(topic) == {i \in left : Topic(TextOf(i)) = topic}
           G(topic) == Group(<<"conflict", topic>>, On(topic), Min({TextOf(i) : i \in On(topic)}))
<1>1. On(x) = Saying(ids, x)
  BY DEF Saying
<1>2. PICK i, j \in Saying(ids, x) : Negated[TextOf(i)] /\ ~Negated[TextOf(j)]
  BY DEF Due, Mixed
<1>3. x \in {Topic(TextOf(k)) : k \in left}
  BY <1>1, <1>2
<1>4. G(x).key = <<"conflict", x>> /\ G(x).ids = On(x)
  BY DEF Group
<1>5. Cardinality(On(x)) >= MinSupport
  <2>1. Len(claims) \in Nat /\ DOMAIN claims = 1 .. Len(claims)
    BY DEF Types, Tables
  <2>2. IsFiniteSet(1 .. Len(claims))
    BY <2>1, FS_Interval
  <2>3. On(x) \subseteq 1 .. Len(claims)
    BY <2>1
  <2>4. IsFiniteSet(On(x))
    BY <2>2, <2>3, FS_Subset
  <2>5. i # j /\ {i} \cup {j} \subseteq On(x)
    BY <1>1, <1>2
  <2>6. Cardinality({i}) = 1 /\ IsFiniteSet({i})
    BY FS_Singleton
  <2>7. Cardinality({i} \cup {j}) = 2
    <3>1. j \notin {i}
      BY <2>5
    <3>2. Cardinality({i} \cup {j}) = Cardinality({i}) + 1
      BY <2>6, <3>1, FS_AddElement
    <3> QED
      BY <2>6, <3>2
  <2>8. Cardinality({i} \cup {j}) <= Cardinality(On(x))
    BY <2>4, <2>5, FS_Subset
  <2> HIDE DEF On
  <2> QED
    BY <2>4, <2>7, <2>8, FS_CardinalityType DEF MinSupport
<1>6. Mixed(On(x))
  BY <1>1 DEF Due, Mixed
<1>7. ConflictGroups(left) =
        {g \in {G(y) : y \in {y \in {Topic(TextOf(k)) : k \in left} : Cardinality(y) >= MinTokens}} :
            Cardinality(g.ids) >= MinSupport /\ Mixed(g.ids)}
  BY DEF ConflictGroups
<1>8. Cardinality(x) >= MinTokens
  BY DEF Due
<1> HIDE DEF On, G
<1>9. G(x) \in ConflictGroups(left)
  BY <1>3, <1>4, <1>5, <1>6, <1>7, <1>8 DEF Mixed
<1> QED
  BY <1>1, <1>4, <1>9

LEMMA FollowsStep == Types /\ Informed /\ Follows /\ [Next]_vars => Follows'
<1> SUFFICES ASSUME Types, Informed, Follows, [Next]_vars PROVE Follows'
  OBVIOUS
<1>1. Types' /\ Grown
  BY TypesStep
<1>2. /\ DOMAIN job = Actors /\ DOMAIN job' = Actors
      /\ \A a \in Actors : Working(a) /\ Following(a)
      /\ Kept /\ NewProposals
  BY <1>1 DEF Types, Follows, Grown
<1>3. CASE UNCHANGED job
  BY <1>1, <1>2, <1>3, StillFollowing DEF Follows
<1>4. ASSUME NEW a \in Actors, \A b \in Actors \ {a} : job'[b] = job[b], Following(a)'
      PROVE  Follows'
  BY <1>1, <1>2, <1>4, StillFollowing DEF Follows
<1>5. ASSUME NEW a \in Actors, NEW j, Goto(a, j), j.pc # "group" PROVE Follows'
  <2>1. job'[a] = j /\ \A b \in Actors \ {a} : job'[b] = job[b]
    BY <1>2, <1>5, Went
  <2>2. Following(a)'
    BY <1>5, <2>1 DEF Following
  <2> QED
    BY <1>4, <2>1, <2>2
<1>6. CASE Detect \/ DetectAgain \/ Resolve \/ Learn \/ Correct \/ Reject \/ ApplyPromotion
           \/ UNCHANGED vars
  BY <1>3, <1>6 DEF Detect, DetectAgain, Resolve, Learn, Correct, Reject, ApplyPromotion, vars
<1>7. ASSUME NEW a \in Actors,
             BeginOpen(a) \/ Collect(a) \/ Ask(a) \/ File(a) \/ BeginSemantic(a) \/ ReadFacts(a) \/ Kill(a)
      PROVE  Follows'
  <2>1. CASE BeginOpen(a)
    BY <1>5, <2>1 DEF BeginOpen
  <2>2. CASE Collect(a)
    BY <1>5, <2>2 DEF Collect, Idle
  <2>3. CASE Ask(a)
    BY <1>5, <2>3 DEF Ask, Asked
  <2>4. CASE File(a)
    BY <1>5, <2>4 DEF File, Idle
  <2>5. CASE BeginSemantic(a)
    BY <1>5, <2>5 DEF BeginSemantic
  <2>6. CASE ReadFacts(a)
    BY <1>5, <2>6 DEF ReadFacts
  <2>7. CASE Kill(a)
    BY <1>5, <2>7 DEF Kill, Idle
  <2> QED
    BY <1>7, <2>1, <2>2, <2>3, <2>4, <2>5, <2>6, <2>7
<1>8. ASSUME NEW a \in Actors, ReadQueue(a) PROVE Follows'
  <2> DEFINE j == [pc |-> "group", phase |-> "repeated", ids |-> job[a].ids,
                   groups |-> RepeatedGroups(job[a].ids), consumed |-> {}, seen |-> {},
                   promotions |-> PromotionKeys \cup job[a].facts, reviews |-> ReviewKeys]
  <2>1. Goto(a, j) /\ UNCHANGED <<claims, proposals>>
    BY <1>8 DEF ReadQueue, world
  <2>2. job'[a] = j /\ \A b \in Actors \ {a} : job'[b] = job[b]
    BY <1>2, <2>1, Went
  <2>3. /\ job'[a].pc = "group" /\ job'[a].phase = "repeated" /\ job'[a].consumed = {}
        /\ job'[a].groups = RepeatedGroups(job[a].ids) /\ job'[a].reviews = ReviewKeys
        /\ job'[a].ids = job[a].ids
    BY <2>2
  <2> HIDE DEF j
  <2>4. \A key \in ReviewKeys : Reviewed(key)'
    BY <2>1 DEF ReviewKeys, Reviewed, Scanned
  <2>5. PICK ids : ids = job[a].ids
    OBVIOUS
  <2>6. \A g \in RepeatedGroups(ids) : Cardinality(g.ids) >= MinSupport /\ g.ids = Sharing(ids, g.key)'
    <3>1. ASSUME NEW g \in RepeatedGroups(ids)
          PROVE  Cardinality(g.ids) >= MinSupport /\ g.ids = {i \in ids : g.key \in Keys(TextOf(i))}
      BY OfRepeated
    <3> QED
      BY <2>1, <3>1 DEF Sharing, TextOf
  <2>7. Following(a)'
    BY <2>3, <2>4, <2>5, <2>6 DEF Following
  <2> QED
    BY <1>4, <2>2, <2>7
<1>9. ASSUME NEW a \in Actors, NextPhase(a) PROVE Follows'
  <2>1. PICK j : /\ Goto(a, j)
                 /\ \/ j = Idle
                    \/ /\ job[a].phase = "repeated"
                       /\ j = [job[a] EXCEPT !.phase = "conflict",
                                             !.groups = ConflictGroups(job[a].ids \ job[a].consumed)]
                    \/ /\ job[a].phase = "conflict"
                       /\ j = [job[a] EXCEPT !.phase = "latent",
                                             !.groups = LatentGroups(job[a].ids \ job[a].consumed)]
    BY <1>9, Advanced
  <2>2. /\ UNCHANGED <<claims, proposals>> /\ job[a].pc = "group" /\ job[a].groups = {}
        /\ DOMAIN job[a] = GroupFields
    BY <1>2, <1>9 DEF NextPhase, world, Working
  <2>3. PICK ids : ids = job[a].ids
    OBVIOUS
  <2>4. ids \in SUBSET DOMAIN claims
    BY <1>2, <2>2, <2>3 DEF Working, SemanticPass
  <2>5. /\ \A x : Saying(ids, x)' = Saying(ids, x)
        /\ \A x : Due(ids, x)' => Due(ids, x)
    BY <1>2, <2>4, DueStep
  <2>6. \A key : Reviewed(key) => Reviewed(key)'
    BY <1>2, ReviewedStep
  <2>7. job'[a] = j /\ \A b \in Actors \ {a} : job'[b] = job[b]
    BY <1>2, <2>1, Went
  <2>8. Following(a)
    BY <1>2
  <2>9. CASE j = Idle
    BY <1>5, <2>1, <2>9 DEF Idle
  \* What no repeated group has taken is still there.
  <2>10. ASSUME job[a].phase = "repeated",
                j = [job[a] EXCEPT !.phase = "conflict",
                                   !.groups = ConflictGroups(job[a].ids \ job[a].consumed)]
         PROVE  Follows'
    <3>1. PICK left \in SUBSET ids : left = ids \ job[a].consumed
      OBVIOUS
    <3>2. /\ job'[a].pc = "group" /\ job'[a].phase = "conflict" /\ job'[a].ids = ids
          /\ job'[a].groups = ConflictGroups(left) /\ job'[a].consumed = job[a].consumed
          /\ job'[a].reviews = job[a].reviews
      BY <2>2, <2>3, <2>7, <2>10, <3>1 DEF GroupFields
    <3>3. \A key \in job[a].reviews : Reviewed(key)'
      BY <2>2, <2>6, <2>8 DEF Following
    <3>4. \A g \in ConflictGroups(left) : \E x : g.key = <<"conflict", x>> /\ g.ids \subseteq Saying(ids, x)
      BY OfConflict DEF Saying
    <3>5. ASSUME NEW x, Due(ids, x)
          PROVE  /\ Saying(ids, x) \cap job[a].consumed = {}
                 /\ \E g \in ConflictGroups(left) : g.key = <<"conflict", x>> /\ g.ids = Saying(ids, x)
      <4>1. Saying(ids, x) \cap job[a].consumed = {}
        BY <2>2, <2>3, <2>8, <2>10, <3>5 DEF Following, Due
      <4>2. Saying(ids, x) \subseteq left
        BY <3>1, <4>1 DEF Saying
      <4> QED
        BY <2>4, <3>5, <4>1, <4>2, ConflictFound
    <3>6. Following(a)'
      BY <2>5, <3>2, <3>3, <3>4, <3>5 DEF Following
    <3> QED
      BY <1>4, <2>7, <3>6
  \* No group is left, so every topic that is due has come up.
  <2>11. ASSUME job[a].phase = "conflict",
                j = [job[a] EXCEPT !.phase = "latent",
                                   !.groups = LatentGroups(job[a].ids \ job[a].consumed)]
         PROVE  Follows'
    <3>1. /\ job'[a].pc = "group" /\ job'[a].phase = "latent" /\ job'[a].ids = ids
          /\ job'[a].reviews = job[a].reviews
      BY <2>2, <2>3, <2>7, <2>11 DEF GroupFields
    <3>2. \A key \in job[a].reviews : Reviewed(key)'
      BY <2>2, <2>6, <2>8 DEF Following
    <3>3. \A x : Due(ids, x) => Reviewed(<<"conflict", x>>)
      BY <2>2, <2>3, <2>8, <2>11 DEF Following
    <3>4. Following(a)'
      BY <2>5, <2>6, <3>1, <3>2, <3>3 DEF Following
    <3> QED
      BY <1>4, <2>7, <3>4
  <2> QED
    BY <2>1, <2>9, <2>10, <2>11
<1>10. ASSUME NEW a \in Actors, Consider(a) PROVE Follows'
  <2>1. PICK g \in job[a].groups :
           /\ job[a].pc = "group"
           /\ \/ \E taken \in BOOLEAN :
                    /\ Done(a, g, taken) /\ UNCHANGED proposals
                    /\ job[a].phase = "repeated" /\ taken => Promotable(job[a], g)
                    /\ job[a].phase # "repeated" =>
                         \/ g.ids \cap job[a].consumed # {}
                         \/ g.key \in job[a].reviews \/ ~Trusted(g)
              \/ job[a].phase = "repeated" /\ Promotable(job[a], g) /\ Propose(a, g, Promotion(g))
              \/ job[a].phase # "repeated" /\ Propose(a, g, Review(g))
    BY <1>10, Outcome
  <2>2. PICK taken \in BOOLEAN :
           /\ Done(a, g, taken)
           /\ job[a].phase = "repeated" /\ taken => Promotable(job[a], g)
           /\ job[a].phase # "repeated" =>
                \/ g.ids \cap job[a].consumed # {}
                \/ g.key \in job[a].reviews \/ ~Trusted(g)
                \/ Queue(Review(g))
    BY <2>1 DEF Propose
  <2>3. PICK ids : ids = job[a].ids
    OBVIOUS
  <2>4. /\ job'[a].pc = "group" /\ job'[a].phase = job[a].phase /\ job'[a].ids = ids
        /\ job'[a].groups = job[a].groups \ {g}
        /\ job'[a].consumed = job[a].consumed \cup (IF taken THEN g.ids ELSE {})
        /\ job'[a].reviews = job[a].reviews
        /\ \A b \in Actors \ {a} : job'[b] = job[b]
    BY <2>1, <2>2, <2>3, Finished
  <2>5. ids \in SUBSET DOMAIN claims /\ g.ids \subseteq ids /\ job[a].consumed \subseteq ids
        /\ job[a].phase \in {"repeated", "conflict", "latent"}
    BY <1>2, <2>1, <2>3 DEF Working, SemanticPass, Grouped
  <2>6. /\ \A x : Saying(ids, x)' = Saying(ids, x) /\ Sharing(ids, x)' = Sharing(ids, x)
        /\ \A i \in ids : Loner(i, ids)' <=> Loner(i, ids)
        /\ \A x : Due(ids, x)' => Due(ids, x)
    BY <1>2, <2>5, DueStep
  <2>7. \A key : Reviewed(key) => Reviewed(key)'
    BY <1>2, ReviewedStep
  <2>8. \A key \in job[a].reviews : Reviewed(key)'
    BY <1>2, <2>1, <2>7 DEF Following
  <2>9. CASE job[a].phase = "repeated"
    <3>1. \A h \in job[a].groups : Cardinality(h.ids) >= MinSupport /\ h.ids = Sharing(ids, h.key)
      BY <1>2, <2>1, <2>3, <2>9 DEF Following
    <3>2. \A k \in job[a].consumed : ~Loner(k, ids)
      BY <1>2, <2>1, <2>3, <2>9 DEF Following
    <3>3. ASSUME taken, NEW k \in g.ids PROVE ~Loner(k, ids)
      <4>1. ~Mixed(g.ids)
        BY <2>2, <2>9, <3>3 DEF Promotable
      <4>2. Cardinality(g.ids) >= MinSupport /\ g.ids = Sharing(ids, g.key)
        BY <3>1
      <4>3. g.key \in Keys(TextOf(k))
        BY <3>3, <4>2 DEF Sharing
      <4>4. ~Mixed(Sharing(ids, g.key)) /\ Cardinality(Sharing(ids, g.key)) >= MinSupport
        BY <4>1, <4>2 DEF Mixed
      <4> QED
        BY <4>3, <4>4 DEF Loner
    <3>4. \A k \in job'[a].consumed : ~Loner(k, ids)'
      BY <2>4, <2>5, <2>6, <3>2, <3>3
    <3>5. Following(a)'
      BY <2>4, <2>6, <2>8, <2>9, <3>1, <3>4 DEF Following
    <3> QED
      BY <1>4, <2>4, <3>5
  <2>10. CASE job[a].phase = "conflict"
    <3>1. \A h \in job[a].groups : \E x : h.key = <<"conflict", x>> /\ h.ids \subseteq Saying(ids, x)
      BY <1>2, <2>1, <2>3, <2>10 DEF Following
    <3>2. ASSUME NEW x, Due(ids, x), ~Reviewed(<<"conflict", x>>)'
          PROVE  /\ Saying(ids, x) \cap job'[a].consumed = {}
                 /\ \E h \in job'[a].groups : h.key = <<"conflict", x>> /\ h.ids = Saying(ids, x)
      <4>1. PICK h \in job[a].groups : h.key = <<"conflict", x>> /\ h.ids = Saying(ids, x)
        BY <1>2, <2>1, <2>3, <2>7, <2>10, <3>2 DEF Following
      <4>2. Saying(ids, x) \cap job[a].consumed = {}
        BY <1>2, <2>1, <2>3, <2>7, <2>10, <3>2 DEF Following
      <4>3. ASSUME h = g PROVE FALSE
        <5>1. Trusted(g)
          BY <3>2, <4>1, <4>3 DEF Due, Trusted
        <5>2. g.key \notin job[a].reviews
          BY <2>8, <3>2, <4>1, <4>3
        <5>3. Queue(Review(g))
          BY <2>2, <2>10, <4>1, <4>2, <4>3, <5>1, <5>2
        <5>4. Reviewed(g.key)'
          <6>1. \E n \in DOMAIN proposals' : proposals'[n] = Review(g)
            BY <5>3, Queued DEF Types
          <6>2. Review(g).rule = "review" /\ Review(g).key = g.key
            BY DEF Review, Proposal
          <6> QED
            BY <6>1, <6>2 DEF Reviewed
        <5> QED
          BY <3>2, <4>1, <4>3, <5>4
      <4>4. g.ids \cap Saying(ids, x) = {}
        <5>1. PICK y : g.key = <<"conflict", y>> /\ g.ids \subseteq Saying(ids, y)
          BY <3>1
        <5>2. y # x
          <6>1. SUFFICES ASSUME y = x PROVE FALSE
            OBVIOUS
          <6>2. Phased(a)
            BY DEF Informed
          <6> QED
            BY <2>1, <2>10, <4>1, <4>3, <5>1, <6>1, <6>2 DEF Phased
        <5> QED
          BY <5>1, <5>2 DEF Saying
      <4> QED
        BY <2>4, <4>1, <4>2, <4>3, <4>4
    <3>3. Following(a)'
      BY <2>4, <2>6, <2>7, <2>8, <2>10, <3>1, <3>2 DEF Following
    <3> QED
      BY <1>4, <2>4, <3>3
  <2>11. CASE job[a].phase = "latent"
    <3>1. \A x : Due(ids, x) => Reviewed(<<"conflict", x>>)
      BY <1>2, <2>1, <2>3, <2>11 DEF Following
    <3>2. Following(a)'
      BY <2>4, <2>6, <2>7, <2>8, <2>11, <3>1 DEF Following
    <3> QED
      BY <1>4, <2>4, <3>2
  <2> QED
    BY <2>5, <2>9, <2>10, <2>11
<1> QED
  BY <1>6, <1>7, <1>8, <1>9, <1>10 DEF Next, Pass

\* Claims that are not repeated share their words and their tokens with none.
LEMMA AloneIs ==
    ASSUME NEW ids, NEW i \in ids, Alone(i, ids)
    PROVE  Loner(i, ids)
<1> SUFFICES ASSUME NEW key \in Keys(TextOf(i)), Cardinality(Sharing(ids, key)) >= MinSupport
             PROVE  Mixed(Sharing(ids, key))
  BY DEF Loner
<1> DEFINE S(k) == {m \in ids : k \in Keys(TextOf(m))}
           g == Group(key, S(key), TextOf(Max(S(key))))
<1>1. g.ids = S(key) /\ S(key) = Sharing(ids, key)
  BY DEF Group, Sharing
<1>2. RepeatedGroups(ids) =
        {h \in {Group(k, S(k), TextOf(Max(S(k)))) : k \in UNION {Keys(TextOf(m)) : m \in ids}} :
            Cardinality(h.ids) >= MinSupport}
  BY DEF RepeatedGroups
<1>3. key \in UNION {Keys(TextOf(m)) : m \in ids} /\ i \in S(key)
  OBVIOUS
<1>4. Cardinality(g.ids) >= MinSupport /\ i \in g.ids
  BY <1>1, <1>3
<1>5. g \in {Group(k, S(k), TextOf(Max(S(k)))) : k \in UNION {Keys(TextOf(m)) : m \in ids}}
  BY <1>3
<1> HIDE DEF g, S
<1>6. g \in RepeatedGroups(ids)
  BY <1>2, <1>4, <1>5
<1>7. Mixed(g.ids)
  BY <1>4, <1>6 DEF Alone
<1> QED
  BY <1>1, <1>7 DEF Mixed

\* What ConflictIsReviewed says of a state.
Through ==
    \A a \in Actors :
        job[a].pc = "group" /\ job[a].phase = "latent" /\ job[a].groups = {} =>
          \A i, j \in job[a].ids :
            LET on == {k \in job[a].ids : Topic(TextOf(k)) = Topic(TextOf(i))}
            IN  /\ j \in on /\ Negated[TextOf(i)] /\ ~Negated[TextOf(j)]
                /\ Cardinality(Topic(TextOf(i))) >= MinTokens
                /\ \A k \in on : claims[k].trusted /\ Alone(k, job[a].ids)
                => \E n \in DOMAIN proposals :
                     /\ proposals[n].rule = "review"
                     /\ proposals[n].key = <<"conflict", Topic(TextOf(i))>>

\* "reviewer resolution is required before any L4 proposal": a topic on which
\* the claims a pass has read disagree is before the reviewer when the pass is
\* through, if none of them is repeated.
THEOREM FollowsHold == Spec => ConflictIsReviewed
<1>1. Types /\ Follows => Through
  <2> SUFFICES ASSUME Follows, NEW a \in Actors, job[a].pc = "group", job[a].phase = "latent",
                      NEW i \in job[a].ids, NEW j \in Saying(job[a].ids, Topic(TextOf(i))),
                      Negated[TextOf(i)], ~Negated[TextOf(j)],
                      Cardinality(Topic(TextOf(i))) >= MinTokens,
                      \A k \in Saying(job[a].ids, Topic(TextOf(i))) :
                         claims[k].trusted /\ Alone(k, job[a].ids)
               PROVE  Reviewed(<<"conflict", Topic(TextOf(i))>>)
    BY DEF Through, Saying, Reviewed
  <2> DEFINE x == Topic(TextOf(i))
             on == Saying(job[a].ids, x)
  <2>1. i \in on /\ on \subseteq job[a].ids
    BY DEF Saying
  <2>2. Mixed(on)
    BY <2>1 DEF Mixed
  <2>3. \A k \in on : claims[k].trusted /\ Loner(k, job[a].ids)
    BY <2>1, AloneIs
  <2>4. Due(job[a].ids, x)
    BY <2>2, <2>3 DEF Due, Mixed
  <2> HIDE DEF x
  <2>5. Reviewed(<<"conflict", x>>)
    BY <2>4 DEF Follows, Following
  <2> QED
    BY <2>5 DEF x
<1>2. Types /\ Follows /\ [Next]_vars => [Through]_vars
  BY <1>1
<1> QED
  BY <1>2, TypesInit, TypesStep, InformedInit, InformedStep, FollowsInit, FollowsStep, PTL
     DEF Spec, ConflictIsReviewed, Through
=============================================================================
