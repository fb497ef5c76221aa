---------------------------- MODULE EpisodeStore ----------------------------
(* The episode tables of the database (storage/mod.rs) and the processes     *)
(* that write them besides the slow loop: a capture (capture/ai_cli.rs       *)
(* persist_episode), a recorded correction, `soma forget`.                   *)
(*                                                                           *)
(* An episode is a row with its note pin.  A capture commits the row with    *)
(* its vector and then, commit by commit, edges, pin and signature; it may   *)
(* be killed in between.  Forgetting only stamps the row: no row is deleted. *)
(*                                                                           *)
(* Texts lie on a line and the cosine of two texts falls with their          *)
(* distance; the text NoText embeds to nothing.  Ids are in the order of the *)
(* timestamps.  The centroid, the secondary embedder and anomalies are left  *)
(* out (Proposers has the anomalies).                                        *)
EXTENDS Integers, Sequences, FiniteSets, FiniteSetsExt

CONSTANTS
    Kinds,          \* what can be captured: [text, cmd, exit, project, salient]
    Corrections,    \* the texts of corrections
    NoText,
    None,           \* no command, no signature
    EdgeK,          \* [memory] edge_k
    MaxEpisodes

ASSUME StoreAssumption ==
    /\ EdgeK \in Nat /\ MaxEpisodes \in Nat
    /\ \A k \in Kinds : k.text \in Int /\ k.exit \in Int

VARIABLES
    episodes,   \* the rows, by id
    vectors,    \* the ids with a vector of the primary embedder
    edges,      \* episode_edges: pairs of ids, the smaller first
    beliefs,    \* belief_candidates
    ingest,     \* the capture under way
    raced       \* history: forgotten while somebody was about to pin it

store == <<episodes, vectors, edges, beliefs>>

Ids == DOMAIN episodes
Live == {e \in Ids : episodes[e].live}
TextOf(e) == episodes[e].kind.text
Distance(a, b) == IF TextOf(a) > TextOf(b) THEN TextOf(a) - TextOf(b)
                                           ELSE TextOf(b) - TextOf(a)
\* Two ids, the older first, at most that far apart.
Near(d, a, b) == a < b /\ Distance(a, b) =< d
CompressAt == 0     \* cosine > 0.98
MergeAt == 1        \* merge_similarity, 0.95
BeliefAt == 2       \* belief_threshold, 0.85
EdgeAt == 3         \* EDGE_THRESHOLD, 0.5

Signature(k) == <<k.cmd, k.project, k.exit>>
Embeds(e) == TextOf(e) # NoText

Unpinned == [why |-> "none", into |-> 0]
Pinned(why, into) == [why |-> why, into |-> into]
\* pin_episode: an upsert, whatever the reason was before.
Pin(e, why, into) == episodes' = [episodes EXCEPT ![e].pin = Pinned(why, into)]

\* Mutant: the join with the live episodes is dropped.
RowsAll == vectors
\* vectors_for_model: the rows of live episodes.
Rows == vectors \cap Live
\* episodes_missing_vector_for, without its limit.
Missing == Live \ vectors

Insert(k) ==
    /\ Len(episodes) < MaxEpisodes
    /\ episodes' = Append(episodes, [kind |-> k, live |-> TRUE, count |-> 1,
                                     sig |-> None, pin |-> Unpinned])

----------------------------------------------------------------------------
NoIngest == [pc |-> "idle", id |-> 0]
IngestAt(pc, id) == [pc |-> pc, id |-> id]

\* append_episode_with_vector: the row and its vector in one transaction.
Capture(k) ==
    /\ ingest.pc = "idle"
    /\ Insert(k)
    /\ LET id == Len(episodes) + 1
       IN IF k.text # NoText
          THEN vectors' = vectors \cup {id} /\ ingest' = IngestAt("wire", id)
          ELSE /\ UNCHANGED vectors
               /\ ingest' = IF k.cmd # None THEN IngestAt("sign", id) ELSE NoIngest
    /\ UNCHANGED <<edges, beliefs, raced>>

\* wire_edges_after_ingest: the nearest neighbours, among equals any.
WireEdges ==
    /\ ingest.pc = "wire"
    /\ LET id == ingest.id
           close == {e \in Rows \ {id} : Distance(e, id) =< EdgeAt}
           k == IF Cardinality(close) < EdgeK THEN Cardinality(close) ELSE EdgeK
       IN \E top \in kSubset(k, close) :
            /\ \A e \in top, f \in close \ top : Distance(e, id) =< Distance(f, id)
            /\ edges' = edges \cup {IF e < id THEN <<e, id>> ELSE <<id, e>> : e \in top}
    /\ ingest' = [ingest EXCEPT !.pc = "pin"]
    /\ UNCHANGED <<episodes, vectors, beliefs, raced>>

\* should_pin: the salience score of the new episode, given with its kind.
PinSalient ==
    /\ ingest.pc = "pin"
    /\ IF episodes[ingest.id].kind.salient THEN Pin(ingest.id, "salience", 0)
                                           ELSE UNCHANGED episodes
    /\ ingest' = IF episodes[ingest.id].kind.cmd # None THEN [ingest EXCEPT !.pc = "sign"]
                                                        ELSE NoIngest
    /\ UNCHANGED <<vectors, edges, beliefs, raced>>

\* Only a command has a signature.
StampSignature ==
    /\ ingest.pc = "sign"
    /\ episodes' = [episodes EXCEPT ![ingest.id].count = 1,
                                    ![ingest.id].sig = Signature(episodes[ingest.id].kind)]
    /\ ingest' = NoIngest
    /\ UNCHANGED <<vectors, edges, beliefs, raced>>

KillIngest ==
    /\ ingest.pc # "idle"
    /\ ingest' = NoIngest
    /\ UNCHANGED <<store, raced>>

\* record_correction: an episode without vector, pin or signature.
RecordCorrection(text) ==
    /\ Insert([text |-> text, cmd |-> None, exit |-> 0, project |-> None,
               salient |-> FALSE])
    /\ UNCHANGED <<vectors, edges, beliefs, ingest, raced>>

\* What `soma forget` can name: an episode, a project, everything before.
Forgettable ==
    {{e} : e \in Live}
        \cup {{e \in Live : episodes[e].kind.project = p} :
                p \in {k.project : k \in Kinds} \ {None}}
        \cup {{e \in Live : e < t} : t \in Ids}

\* Stamp and audit pin in one transaction.  about: the episodes somebody is
\* about to pin.
Forget(about) ==
    /\ \E gone \in Forgettable \ {{}} :
        /\ episodes' = [e \in Ids |-> IF e \in gone
                          THEN [episodes[e] EXCEPT !.live = FALSE,
                                                   !.pin = Pinned("forgotten", 0)]
                          ELSE episodes[e]]
        /\ raced' = raced \cup (gone \cap about)
    /\ UNCHANGED <<vectors, edges, beliefs, ingest>>

\* With every process stopped another embedder is installed: none of its
\* vectors is there yet.
Upgrade ==
    /\ ingest.pc = "idle"
    /\ vectors' = {}
    /\ UNCHANGED <<episodes, edges, beliefs, ingest, raced>>

StoreInit ==
    /\ episodes = <<>> /\ vectors = {}
    /\ edges = {} /\ beliefs = {}
    /\ ingest = NoIngest /\ raced = {}

=============================================================================
