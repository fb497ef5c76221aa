------------------------------ MODULE SlowLoop ------------------------------
(* One resident's slow loop (runtime/scheduler/slow_loop.rs) and `soma       *)
(* backfill` (cli/backfill.rs) over the episode tables.                      *)
(*                                                                           *)
(* The resident shares its connection with other threads and takes the lock  *)
(* anew for every read and, in the merge, for every pin: a step here is what *)
(* one lock holds together and one commit makes visible.  The passes on the  *)
(* review queue are ClaimLedger and Proposers; cold scan, centroid,          *)
(* narrative, policy and training write nothing the others read here.        *)
EXTENDS EpisodeStore

CONSTANTS
    FullScanCap,    \* MERGE_FULL_SCAN_CAP
    ScanInterval,   \* RESILIENCE_SCAN_INTERVAL
    ScanWindow,     \* RESILIENCE_SCAN_WINDOW
    BackfillCap,    \* BACKFILL_CAP
    BeliefWindow,   \* [memory] belief_window
    MaxEvents       \* bound on kills, failures, upgrades, forgets and backfills together

ASSUME LoopAssumption ==
    /\ FullScanCap \in Nat /\ ScanInterval \in Nat \ {0} /\ ScanWindow \in Nat
    /\ BackfillCap \in Nat \ {0} /\ BeliefWindow \in Nat
    /\ MaxEvents \in Nat

VARIABLES
    loop,       \* the resident's slow loop
    cli,        \* `soma backfill`
    events,
    moved       \* history: since the last seeding an old episode came into its view

vars == <<store, ingest, raced, loop, cli, events, moved>>

Off == [pc |-> "off", last |-> -1, cycle |-> 0, count |-> 0,
        train |-> FALSE, todo |-> {}, group |-> {}]
Goto(pc) == loop' = [loop EXCEPT !.pc = pc, !.todo = {}]
\* The rest of a list of work, or what comes after it.
Work(pc, todo, after) == IF todo = {} THEN Goto(after)
                         ELSE loop' = [loop EXCEPT !.pc = pc, !.todo = todo]
Event == events < MaxEvents /\ events' = events + 1
Keep == UNCHANGED <<ingest, raced, cli, events>>

Boot ==
    /\ loop.pc = "off"
    /\ loop' = [Off EXCEPT !.pc = "idle"]
    /\ Keep /\ UNCHANGED <<store, moved>>

\* Mutant: forgotten rows are not counted.
DeltaOfLive == IF loop.last < 0 THEN Cardinality(Live)
               ELSE IF Cardinality(Live) > loop.last THEN Cardinality(Live) - loop.last ELSE 0
\* counters() counts every row; the delta gate.
Delta == IF loop.last < 0 THEN Len(episodes)
         ELSE IF Len(episodes) > loop.last THEN Len(episodes) - loop.last ELSE 0

Gate ==
    /\ loop.pc = "idle"
    /\ loop' = [loop EXCEPT !.count = Len(episodes), !.train = Delta > 0,
                            !.pc = IF Delta > 0 THEN "merge" ELSE "compress"]
    /\ Keep /\ UNCHANGED <<store, moved>>

----------------------------------------------------------------------------
(* Merge.                                                                    *)

\* merge_full_scan: an episode is merged into the oldest near one that is not
\* merged itself.
FullScan(rows) ==
    LET kept[n \in rows] == \A m \in rows : Near(MergeAt, m, n) => ~kept[m]
        into(n) == {m \in rows : Near(MergeAt, m, n) /\ kept[m]}
    IN {<<Min(into(n)), n>> : n \in {n \in rows : into(n) # {}}}

MergeRead ==
    /\ loop.pc = "merge"
    /\ LET rows == Rows
           near == {p \in edges : p[1] \in rows /\ p[2] \in rows /\ Near(MergeAt, p[1], p[2])}
       IN IF Cardinality(rows) =< FullScanCap THEN Work("pin", FullScan(rows), "compress")
                                              ELSE Work("via_edges", near, "compress")
    /\ Keep /\ UNCHANGED <<store, moved>>

\* The pins of the full scan, in the order of its loops.
PinNext ==
    /\ loop.pc = "pin"
    /\ LET before(p, q) == p[1] < q[1] \/ (p[1] = q[1] /\ p[2] < q[2])
       IN \E p \in loop.todo :
            /\ \A q \in loop.todo \ {p} : before(p, q)
            /\ Pin(p[2], "merged", p[1])
            /\ Work("pin", loop.todo \ {p}, "compress")
    /\ Keep /\ UNCHANGED <<vectors, edges, beliefs, moved>>

\* merge_via_edges: the edges in the order the table gives them, any here; the
\* others of a merged episode are skipped.
PinEdge ==
    /\ loop.pc = "via_edges"
    /\ \E p \in loop.todo :
        LET rest == {q \in loop.todo \ {p} : p[2] \notin {q[1], q[2]}}
        IN Pin(p[2], "merged", p[1]) /\ Work("via_edges", rest, "compress")
    /\ Keep /\ UNCHANGED <<vectors, edges, beliefs, moved>>

\* Mutant: the count is read again at the end.
CountedAtEnd == Len(episodes)
\* LAST_EPISODE_COUNT takes the count the gate saw.
Counted == loop.count
\* The end of a cycle.  RESILIENCE_SCAN_COUNTER, modulo the interval, moves only
\* with episodes.
EndCycle ==
    loop' = [loop EXCEPT !.pc = "idle", !.last = Counted, !.count = 0, !.train = FALSE, !.todo = {},
                         !.cycle = IF loop.count > 0 THEN (@ + 1) % ScanInterval ELSE @]
ScanOrEnd(pairs) == IF pairs = {} THEN EndCycle
                    ELSE loop' = [loop EXCEPT !.pc = "scan", !.todo = pairs]

\* Mutant: the window is newest first, the first of a pair taken for the older.
ScanPairsAsFound(window) ==
    {<<q[2], q[1]>> : q \in {p \in window \X window : Near(MergeAt, p[1], p[2])}}
\* resilience_scan_recent_window goes from the newest down and pins an episode
\* into every older near one, whether or not that one is merged itself: the
\* last pin, into the oldest, stands.
ScanPairs(window) == {p \in window \X window : Near(MergeAt, p[1], p[2])}

Resilience ==
    /\ loop.pc = "resilience"
    /\ LET rows == Rows
           window == {e \in rows : Cardinality({f \in rows : f > e}) < ScanWindow}
       IN ScanOrEnd(IF loop.count > 0 /\ loop.cycle = 0 THEN ScanPairs(window) ELSE {})
    /\ Keep /\ UNCHANGED <<store, moved>>
\* One lock, a commit for each pin: newer ones first, the oldest target last.
ScanNext ==
    /\ loop.pc = "scan"
    /\ LET before(p, q) == p[2] > q[2] \/ (p[2] = q[2] /\ p[1] > q[1])
       IN \E p \in loop.todo :
            /\ \A q \in loop.todo \ {p} : before(p, q)
            /\ Pin(p[2], "resilience", p[1])
            /\ ScanOrEnd(loop.todo \ {p})
    /\ Keep /\ UNCHANGED <<vectors, edges, beliefs, moved>>

----------------------------------------------------------------------------
(* Compression of repeated commands.                                         *)

AfterCompress == IF loop.train THEN "backfill" ELSE "resilience"

\* episodes_by_signature: forgotten rows are grouped as well.
CompressRead ==
    /\ loop.pc = "compress"
    /\ LET alike(e) == {f \in Ids : episodes[f].sig = episodes[e].sig}
       IN Work("group", {g \in {alike(e) : e \in {e \in Ids : episodes[e].sig # None}} :
                            Cardinality(g) >= 2}, AfterCompress)
    /\ Keep /\ UNCHANGED <<store, moved>>

CompressGroup ==
    /\ loop.pc = "group"
    /\ \E g \in loop.todo :
        LET members == g \cap Rows
            close == \A e \in members : Distance(Min(members), e) =< CompressAt
            rest == loop.todo \ {g}
        IN IF Cardinality(members) >= 2 /\ close
           THEN loop' = [loop EXCEPT !.todo = rest, !.group = members, !.pc = "fold"]
           ELSE Work("group", rest, AfterCompress)
    /\ Keep /\ UNCHANGED <<store, moved>>

\* The oldest gets the size of the group and keeps its signature.
FoldCount ==
    /\ loop.pc = "fold"
    /\ episodes' = [episodes EXCEPT ![Min(loop.group)].count = Cardinality(loop.group)]
    /\ loop' = [loop EXCEPT !.pc = "dup"]
    /\ Keep /\ UNCHANGED <<vectors, edges, beliefs, moved>>
Rep == Min(loop.group)
Dup == Min(loop.group \ {Rep})
FoldPin ==
    /\ loop.pc = "dup"
    /\ Pin(Dup, "compressed", Rep)
    /\ loop' = [loop EXCEPT !.pc = "strip"]
    /\ Keep /\ UNCHANGED <<vectors, edges, beliefs, moved>>
FoldStrip ==
    /\ loop.pc = "strip"
    /\ episodes' = [episodes EXCEPT ![Dup].count = 1, ![Dup].sig = None]
    /\ loop' = LET rest == loop.group \ {Dup}
               IN IF Cardinality(rest) > 1 THEN [loop EXCEPT !.pc = "dup", !.group = rest]
                  ELSE [loop EXCEPT !.pc = IF loop.todo = {} THEN AfterCompress ELSE "group",
                                    !.group = {}]
    /\ Keep /\ UNCHANGED <<vectors, edges, beliefs, moved>>

----------------------------------------------------------------------------
(* Backfill and belief seeding.                                              *)

\* Mutant: the LIMIT is dropped.
WindowUncapped == Missing
Window == {e \in Missing : Cardinality({f \in Missing : f < e}) < BackfillCap}

\* The vector is looked up again under the lock of the write.
Embeddable(e) == Embeds(e) /\ e \notin Rows
Embed(e) == vectors' = IF Embeddable(e) THEN vectors \cup {e} ELSE vectors

BackfillRead ==
    /\ loop.pc = "backfill"
    /\ Work("embed", Window, "seed")
    /\ Keep /\ UNCHANGED <<store, moved>>
BackfillNext ==
    /\ loop.pc = "embed"
    /\ Embed(Min(loop.todo))
    /\ Work("embed", loop.todo \ {Min(loop.todo)}, "seed")
    /\ Keep /\ UNCHANGED <<episodes, edges, beliefs, moved>>

\* classify_pair.
BeliefKind(a, b) ==
    LET ka == episodes[a].kind  kb == episodes[b].kind
    IN IF ka.cmd # None /\ ka.cmd = kb.cmd /\ (ka.exit = 0) # (kb.exit = 0)
       THEN "contradicts" ELSE "corroborates"
\* seed_belief_candidates: what the recent window would add.
Seedable ==
    LET recent == {e \in Live : Cardinality({f \in Live : f > e}) < BeliefWindow}
        pairs == {p \in (recent \cap vectors) \X (recent \cap vectors) :
                    Near(BeliefAt, p[1], p[2])}
    IN {<<p[1], p[2], BeliefKind(p[1], p[2])>> : p \in pairs} \ beliefs

Seed ==
    /\ loop.pc = "seed"
    /\ beliefs' = beliefs \cup Seedable
    /\ moved' = FALSE
    /\ Goto("resilience")
    /\ Keep /\ UNCHANGED <<episodes, vectors, edges>>

\* An error in a pass is logged and the cycle goes on; the inserts before it stay.
\* A count that cannot be read is taken for 0, which idles the cycle and opens the
\* gate of the next; a vector that is not written is left to a later window.
PassFails ==
    /\ Event
    /\ \/ /\ loop.pc = "idle" /\ moved' = TRUE /\ UNCHANGED beliefs
          /\ loop' = [loop EXCEPT !.pc = "compress", !.count = 0, !.train = FALSE]
       \/ /\ loop.pc = "embed" /\ UNCHANGED <<beliefs, moved>>
          /\ Work("embed", loop.todo \ {Min(loop.todo)}, "seed")
       \/ (loop.pc = "merge" /\ Goto("compress") /\ UNCHANGED <<beliefs, moved>>)
       \/ (loop.pc = "backfill" /\ Goto("seed") /\ UNCHANGED <<beliefs, moved>>)
       \/ /\ loop.pc = "seed" /\ Goto("resilience") /\ moved' = TRUE
          /\ \E some \in SUBSET Seedable : beliefs' = beliefs \cup some
    /\ UNCHANGED <<episodes, vectors, edges, ingest, raced, cli>>

KillLoop ==
    /\ loop.pc # "off"
    /\ Event /\ loop' = Off
    /\ UNCHANGED <<store, ingest, raced, cli, moved>>

----------------------------------------------------------------------------
(* `soma backfill`: windows until one writes nothing.                        *)

NoCli == [pc |-> "off", window |-> {}, todo |-> {}, failed |-> {}, wrote |-> FALSE,
          blind |-> FALSE, seen |-> 0]

\* Mutant: one window and no more.
AgainNever(wrote) == FALSE
Again(wrote) == wrote

\* The rest of the window, or another one if this one wrote anything.
AfterRow(e, wrote) == IF cli.todo # {e} THEN "embed"
                      ELSE IF Again(wrote) THEN "read" ELSE "done"

CliStart ==
    /\ cli.pc = "off"
    /\ Event
    /\ cli' = [NoCli EXCEPT !.pc = "read"]
    /\ UNCHANGED <<store, ingest, raced, loop, moved>>
CliRead ==
    /\ cli.pc = "read"
    /\ cli' = [cli EXCEPT !.pc = IF Window = {} THEN "done" ELSE "embed",
                          !.wrote = FALSE, !.failed = {}, !.seen = Len(episodes),
                          !.window = Window, !.todo = Window]
    /\ UNCHANGED <<store, ingest, raced, loop, events, moved>>
CliNext ==
    /\ cli.pc = "embed"
    /\ LET e == Min(cli.todo)
           new == Embeddable(e)
       IN /\ Embed(e)
          /\ cli' = [cli EXCEPT !.todo = @ \ {e}, !.wrote = @ \/ new,
                                !.pc = AfterRow(e, cli.wrote \/ new)]
          /\ moved' = (moved \/ new)
    /\ UNCHANGED <<episodes, edges, beliefs, ingest, raced, loop, events>>
\* Errors are swallowed: a window that cannot be read counts as empty, a vector
\* that is not written is not counted.
CliFails ==
    /\ \/ /\ cli.pc = "read"
          /\ cli' = [NoCli EXCEPT !.pc = "done", !.blind = TRUE]
       \/ /\ cli.pc = "embed" /\ Embeddable(Min(cli.todo))
          /\ LET e == Min(cli.todo)
             IN cli' = [cli EXCEPT !.todo = @ \ {e}, !.failed = @ \cup {e},
                                   !.pc = AfterRow(e, cli.wrote)]
    /\ UNCHANGED <<store, ingest, raced, loop, events, moved>>
CliExit ==
    /\ cli.pc = "done"
    /\ cli' = NoCli
    /\ UNCHANGED <<store, ingest, raced, loop, events, moved>>

----------------------------------------------------------------------------
\* The episodes somebody has decided to pin.
AboutToPin ==
    (IF loop.pc \in {"pin", "via_edges", "scan"} THEN {p[2] : p \in loop.todo} ELSE {})
        \cup loop.group
        \cup (IF ingest.pc \in {"wire", "pin"} THEN {ingest.id} ELSE {})

Ingest ==
    /\ \/ \E k \in Kinds : Capture(k)
       \/ WireEdges
       \/ PinSalient
       \/ StampSignature
       \/ \E t \in Corrections : RecordCorrection(t)
    /\ UNCHANGED <<loop, cli, events, moved>>
User ==
    /\ \/ KillIngest /\ UNCHANGED moved
       \/ loop.pc = "off" /\ cli.pc = "off" /\ Upgrade /\ UNCHANGED moved
       \/ Forget(AboutToPin) /\ moved' = TRUE
    /\ Event
    /\ UNCHANGED <<loop, cli>>
Resident ==
    \/ Boot \/ Gate \/ MergeRead \/ PinNext \/ PinEdge
    \/ CompressRead \/ CompressGroup \/ FoldCount \/ FoldPin \/ FoldStrip
    \/ BackfillRead \/ BackfillNext \/ Seed
    \/ Resilience \/ ScanNext
Operator == CliStart \/ CliRead \/ CliNext \/ CliExit

Init ==
    /\ StoreInit
    /\ loop = Off /\ cli = NoCli
    /\ events = 0 /\ moved = FALSE
Next == Ingest \/ User \/ Resident \/ PassFails \/ KillLoop \/ Operator \/ CliFails
\* The timer of a running resident fires and its passes take their turns.
Spec == Init /\ [][Next]_vars /\ WF_vars(Resident)

----------------------------------------------------------------------------
(* Properties.                                                               *)

\* Shapes; edges and beliefs are ordered pairs, a window respects its cap.
TypeOK ==
    /\ \A e \in Ids : /\ episodes[e].live \in BOOLEAN /\ episodes[e].count \in 1..MaxEpisodes
                      /\ episodes[e].pin.into \in 0..Len(episodes)
    /\ vectors \subseteq Ids
    /\ \A p \in edges \cup beliefs : p[1] \in Ids /\ p[2] \in Ids /\ p[1] < p[2]
    /\ loop.last \in -1..Len(episodes) /\ loop.cycle \in 0..(ScanInterval - 1)
    /\ cli.todo \subseteq cli.window /\ cli.window \subseteq Ids
    /\ Cardinality(cli.window) =< BackfillCap
    /\ raced \subseteq Ids \ Live

\* A forgotten episode keeps its audit pin whatever the later cycles do: only
\* a pin decided before it was forgotten can overwrite it
\* (storage/migrations/0010_forgotten.sql:10, slow_loop.rs merge_full_scan).
ForgottenIsAudited ==
    \A e \in Ids \ Live : episodes[e].pin.why = "forgotten" \/ e \in raced

\* The merges, the resilience scan and the compression, each with its own
\* order and over many cycles, never mark each other's survivors in a circle:
\* of live episodes marked as duplicates one always points to an episode that
\* is not among them (one that is no duplicate, or has been forgotten since).
Marked == {e \in Live : episodes[e].pin.why \in {"merged", "resilience", "compressed"}}
SomeCopySurvives ==
    \A S \in (SUBSET Marked) \ {{}} : \E e \in S : episodes[e].pin.into \notin S

\* slow_loop.rs:326-329: the episode-delta gate saves time and loses nothing:
\* a cycle it idles would have seeded no belief, unless since the last seeding
\* an older episode came into view (a forgotten one made room in the window,
\* `soma backfill` embedded it), that seeding failed or the count was not read.
GateOnlySaves ==
    [][loop.pc = "idle" /\ loop'.pc = "compress"
        => Seedable = {} \/ moved']_vars

\* "every episode already has a primary-model vector", "backfill complete": when
\* `soma backfill` ends, what it saw and left without a vector is accounted for,
\* unless its last read failed (blind), which it reports the same way.  Of its
\* last window only a row whose write failed is left, for a window that writes
\* anything is followed by another; a row outside can be left only by a full
\* window that wrote nothing: of texts that embed to nothing, of failed writes,
\* of episodes forgotten or embedded by the resident meanwhile.
ToEmbed == {e \in Missing : Embeds(e)}
BackfillTellsTruth ==
    cli.pc = "done" /\ ~cli.blind =>
        /\ cli.window \cap ToEmbed \subseteq cli.failed
        /\ ~((1..cli.seen) \cap ToEmbed \subseteq cli.failed)
            => Cardinality(cli.window) = BackfillCap /\ ~cli.wrote

\* The last episode to land, when it has no vector (a correction), is embedded
\* by the slow loop though no later one opens the gate again, provided no more
\* than a window is missing and no pass fails or is killed from here on; an
\* episode forgotten in the meantime does not offset it (slow_loop.rs:289).
Waiting(e) ==
    /\ e \in ToEmbed /\ loop.pc = "idle" /\ e > loop.last
    /\ Cardinality(Missing) =< BackfillCap /\ events = MaxEvents
NewIsEmbedded ==
    Waiting(MaxEpisodes) ~> (MaxEpisodes \notin ToEmbed \/ loop.pc = "off")

=============================================================================
