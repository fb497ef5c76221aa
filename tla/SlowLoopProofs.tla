--------------------------- MODULE SlowLoopProofs ---------------------------
(***************************************************************************)
(* Proofs about the slow loop and `soma backfill`, for any number of       *)
(* episodes and any length of their windows.                               *)
(*                                                                         *)
(* Audit.  Whoever pins an episode decided to some steps before, so what   *)
(* must be invariant is about the decisions under way: every episode       *)
(* somebody is about to pin is live, or was forgotten since and is marked  *)
(* as such (Decided).  The compression names its victims only when it gets *)
(* to them, as the next smallest of its group, so there must be one        *)
(* (Folding).                                                              *)
(*                                                                         *)
(* Tables and lists.  Every list of pins names an older episode first      *)
(* (Lists), so every pin in the table points to an older one (Tables).     *)
(*                                                                         *)
(* Backfill.  What the command has gone through of its window is embedded  *)
(* or cannot be, and a window that is not full held all that was missing   *)
(* (Backfilled); both stay so because vectors are only added while it runs. *)
(*                                                                         *)
(* Gate.  A cycle that has seeded, or was let pass, has caught up with the *)
(* episodes it counted, and between cycles so has the loop (Gated).        *)
(***************************************************************************)
EXTENDS SlowLoop, TLAPS, FiniteSetTheorems

Fields == {"kind", "live", "count", "sig", "pin"}
LoopFields == {"pc", "last", "cycle", "count", "train", "todo", "group"}

Shape ==
    /\ \E S : episodes \in Seq(S)
    /\ \A e \in Ids : DOMAIN episodes[e] = Fields
    /\ DOMAIN loop = LoopFields
    /\ DOMAIN ingest = {"pc", "id"}

Doomed(e) == e \in Ids /\ (episodes[e].live \/ e \in raced)

Decided == \A e \in AboutToPin : Doomed(e)

Folding ==
    loop.pc \in {"fold", "dup", "strip"} => Cardinality(loop.group) > 1

IInv == Shape /\ Decided /\ Folding /\ ForgottenIsAudited

\* The smallest of a set of ids.
LEMMA Smallest ==
    ASSUME NEW S \in SUBSET Nat, S # {}
    PROVE  Min(S) \in S /\ \A y \in S : Min(S) <= y
<1> DEFINE R == {ss \in Nat \X Nat : ss[1] < ss[2]}
<1>1. R = OpToRel(<, Nat)
  BY Zenon DEF OpToRel
<1>2. IsWellFoundedOn(R, Nat)
  BY <1>1, NatLessThanWellFounded
<1>3. PICK x \in S : \A y \in S : <<y, x>> \notin R
  BY <1>2, WFMin
<1>4. ASSUME NEW y \in S PROVE x <= y
  <2>1. x \in Nat /\ y \in Nat /\ <<y, x>> \in Nat \X Nat
    OBVIOUS
  <2>2. ~(y < x)
    BY <1>3, <2>1
  <2> QED
    BY <2>1, <2>2
<1> QED
  BY <1>4 DEF Min

LEMMA AuditInit == Init => IInv
BY DEF Init, StoreInit, NoIngest, Off, LoopFields, IInv, Shape, Decided, Folding, AboutToPin,
       ForgottenIsAudited, Ids, Live

LEMMA AuditStep == IInv /\ [Next]_vars => IInv'
<1> SUFFICES ASSUME IInv, [Next]_vars PROVE IInv'
  OBVIOUS
<1> USE DEF IInv
<1>2. Len(episodes) \in Nat /\ Ids = 1 .. Len(episodes)
  BY DEF Shape, Ids
<1>3. ASSUME NEW S \in SUBSET Ids, NEW x, Cardinality(S) > 1
      PROVE  S \ {x} # {} /\ IsFiniteSet(S)
  <2>1. IsFiniteSet(S)
    <3>1. IsFiniteSet(Ids)
      BY <1>2, FS_Interval
    <3> QED
      BY <3>1, FS_Subset
  <2>2. S \ {x} = {} => S = {} \/ S = {x}
    OBVIOUS
  <2> QED
    BY <1>3, <2>1, <2>2, FS_EmptySet, FS_Singleton
<1> USE DEF LoopFields
<1> DEFINE Image == {episodes'[e] : e \in Ids}
\* A table over the same ids is a table.
<1>4. ASSUME episodes' \in [Ids -> Image]
      PROVE  (\E S : episodes' \in Seq(S)) /\ Ids' = Ids
  <2> HIDE DEF Image
  <2>1. DOMAIN episodes' = 1 .. Len(episodes)
    BY <1>2, <1>4
  <2>2. episodes' \in Seq(Image)
    BY <1>2, <1>4
  <2> QED
    BY <1>2, <2>1, <2>2 DEF Ids
\* Steps that forget nothing and pin only what somebody was about to pin.
<1>5. ASSUME episodes' \in [Ids -> Image],
             \A e \in Ids : /\ DOMAIN episodes'[e] = Fields
                            /\ episodes'[e].live = episodes[e].live
                            /\ (episodes'[e].pin = episodes[e].pin \/ Doomed(e)),
             DOMAIN loop' = LoopFields, DOMAIN ingest' = {"pc", "id"},
             raced' = raced, Folding',
             AboutToPin' \subseteq AboutToPin \cup Live
      PROVE  IInv'
  <2>1. Ids' = Ids /\ Shape'
    BY <1>4, <1>5 DEF Shape
  <2>2. \A e : Doomed(e) => Doomed(e)'
    BY <1>5, <2>1 DEF Doomed
  <2>3. \A e \in AboutToPin' : Doomed(e)
    BY <1>5 DEF Decided, Doomed, Live
  <2>4. Decided'
    BY <2>2, <2>3 DEF Decided
  <2>5. ForgottenIsAudited'
    BY <1>5, <2>1 DEF ForgottenIsAudited, Live, Doomed
  <2> QED
    BY <1>5, <2>1, <2>4, <2>5
\* Among them, those that leave the table alone,
<1>6. ASSUME UNCHANGED <<episodes, raced>>, DOMAIN loop' = LoopFields, Folding',
             DOMAIN ingest' = {"pc", "id"},
             AboutToPin' \subseteq AboutToPin \cup Live
      PROVE  IInv'
  <2>1. episodes' \in [Ids -> Image]
    BY <1>6 DEF Shape, Ids
  <2> QED
    BY <1>5, <1>6, <2>1 DEF Shape
\* and those that pin.
<1>7. ASSUME NEW x \in AboutToPin, NEW why, NEW into, Pin(x, why, into),
             DOMAIN loop' = LoopFields, DOMAIN ingest' = {"pc", "id"},
             raced' = raced, Folding', AboutToPin' \subseteq AboutToPin \cup Live
      PROVE  IInv'
  <2>1. Doomed(x)
    BY DEF Decided
  <2>2. /\ episodes' \in [Ids -> Image]
        /\ episodes'[x] = [episodes[x] EXCEPT !.pin = Pinned(why, into)]
        /\ \A e \in Ids \ {x} : episodes'[e] = episodes[e]
    BY <1>7, <2>1 DEF Pin, Doomed, Ids
  <2>3. \A e \in Ids : /\ DOMAIN episodes'[e] = Fields
                       /\ episodes'[e].live = episodes[e].live
                       /\ (episodes'[e].pin = episodes[e].pin \/ Doomed(e))
    <3> SUFFICES ASSUME NEW e \in Ids
                 PROVE  /\ DOMAIN episodes'[e] = Fields
                        /\ episodes'[e].live = episodes[e].live
                        /\ (episodes'[e].pin = episodes[e].pin \/ Doomed(e))
      OBVIOUS
    <3>1. DOMAIN episodes[e] = Fields
      BY DEF Shape
    <3>2. CASE e = x
      BY <2>1, <2>2, <3>1, <3>2 DEF Fields
    <3>3. CASE e # x
      BY <2>2, <3>1, <3>3
    <3> QED
      BY <3>2, <3>3
  <2> QED
    BY <1>5, <1>7, <2>2, <2>3
\* A row of which only the counter and the signature change.
<1>8. ASSUME NEW x, NEW y,
             \/ episodes' = [episodes EXCEPT ![x].count = y]
             \/ \E s : episodes' = [episodes EXCEPT ![x].count = y, ![x].sig = s],
             DOMAIN loop' = LoopFields, DOMAIN ingest' = {"pc", "id"},
             raced' = raced, Folding', AboutToPin' \subseteq AboutToPin \cup Live
      PROVE  IInv'
  <2>1. PICK s : \/ episodes' = [episodes EXCEPT ![x].count = y]
                 \/ episodes' = [episodes EXCEPT ![x].count = y, ![x].sig = s]
    BY <1>8
  <2>2. episodes' \in [Ids -> Image]
    BY <2>1 DEF Ids
  <2>3. \A e \in Ids : \/ episodes'[e] = episodes[e]
                       \/ episodes'[e] = [episodes[e] EXCEPT !.count = y]
                       \/ episodes'[e] = [episodes[e] EXCEPT !.count = y, !.sig = s]
    BY <2>1 DEF Ids
  <2>4. \A e \in Ids : /\ DOMAIN episodes'[e] = Fields
                       /\ episodes'[e].live = episodes[e].live
                       /\ episodes'[e].pin = episodes[e].pin
    <3> SUFFICES ASSUME NEW e \in Ids
                 PROVE  /\ DOMAIN episodes'[e] = Fields
                        /\ episodes'[e].live = episodes[e].live
                        /\ episodes'[e].pin = episodes[e].pin
      OBVIOUS
    <3>1. DOMAIN episodes[e] = Fields
      BY DEF Shape
    <3> QED
      BY <2>3, <3>1 DEF Fields
  <2> QED
    BY <1>5, <1>8, <2>2, <2>4
\* A new row.
<1>9. ASSUME NEW k, Insert(k), UNCHANGED <<raced, loop>>, DOMAIN ingest' = {"pc", "id"},
             AboutToPin' \subseteq AboutToPin \cup {Len(episodes) + 1}
      PROVE  IInv'
  <2> DEFINE row == [kind |-> k, live |-> TRUE, count |-> 1, sig |-> None, pin |-> Unpinned]
             id == Len(episodes) + 1
  <2>1. PICK S : episodes \in Seq(S)
    BY DEF Shape
  <2>2. episodes \in Seq(S \cup {row}) /\ row \in S \cup {row}
    <3>1. episodes \in [1 .. Len(episodes) -> S]
      BY <2>1
    <3>2. episodes \in [1 .. Len(episodes) -> S \cup {row}]
      BY <3>1
    <3> QED
      BY <1>2, <3>2
  <2>3. episodes' = Append(episodes, row)
    BY <1>9 DEF Insert
  <2>4. episodes' \in Seq(S \cup {row})
    BY <2>2, <2>3
  <2>5. /\ DOMAIN episodes' = DOMAIN episodes \cup {id}
        /\ \A e \in DOMAIN episodes : episodes'[e] = episodes[e]
        /\ episodes'[Len(episodes) + 1] = row
    BY <2>2, <2>3
  <2>6. DOMAIN row = Fields /\ row.live
    BY DEF Fields
  <2>7. Shape'
    BY <1>9, <2>4, <2>5, <2>6 DEF Shape, Ids
  <2>8. \A e : Doomed(e) => Doomed(e)'
    BY <1>9, <2>5 DEF Doomed, Ids
  <2>9. Decided'
    BY <1>9, <2>5, <2>6, <2>8 DEF Decided, Doomed, Ids
  <2>10. ForgottenIsAudited'
    BY <1>9, <2>5, <2>6 DEF ForgottenIsAudited, Live, Ids
  <2> QED
    BY <1>9, <2>7, <2>9, <2>10 DEF Folding
\* What a step of the loop puts on its list.
<1>10. ASSUME NEW pc, NEW todo, NEW after, Work(pc, todo, after), ingest' = ingest,
              pc \notin {"fold", "dup", "strip"},
              after \notin {"fold", "dup", "strip", "pin", "via_edges", "scan"},
              \/ pc \notin {"pin", "via_edges", "scan"}
              \/ \A p \in todo : p[2] \in AboutToPin \cup Live
       PROVE  /\ DOMAIN loop' = LoopFields /\ Folding'
              /\ AboutToPin' \subseteq AboutToPin \cup Live
              /\ DOMAIN ingest' = {"pc", "id"}
  <2>1. /\ loop'.group = loop.group /\ DOMAIN loop' = LoopFields
        /\ \/ loop'.pc = pc /\ loop'.todo = todo
           \/ loop'.pc = after
    BY <1>10 DEF Work, Goto, Shape
  <2>2. Folding'
    BY <1>10, <2>1 DEF Folding
  <2>3. ASSUME NEW e \in AboutToPin' PROVE e \in AboutToPin \cup Live
    <3>1. CASE e \in loop'.group \/ (ingest'.pc \in {"wire", "pin"} /\ e = ingest'.id)
      BY <1>10, <2>1, <3>1 DEF AboutToPin
    <3>2. CASE loop'.pc \in {"pin", "via_edges", "scan"} /\ \E p \in loop'.todo : e = p[2]
      BY <1>10, <2>1, <3>2
    <3> QED
      BY <2>3, <3>1, <3>2 DEF AboutToPin
  <2> QED
    BY <1>10, <2>1, <2>2, <2>3 DEF Shape
<1>11. ASSUME Keep, UNCHANGED store, DOMAIN loop' = LoopFields, Folding',
              AboutToPin' \subseteq AboutToPin \cup Live
       PROVE  IInv'
  BY <1>6, <1>11 DEF Keep, store, Shape
<1>12. CASE Boot
  <2>1. /\ DOMAIN loop' = LoopFields /\ loop'.pc = "idle" /\ loop'.group = {}
        /\ ingest' = ingest
    BY <1>12 DEF Boot, Off, Keep
  <2> QED
    BY <1>11, <1>12, <2>1 DEF Boot, Folding, AboutToPin
<1>13. CASE Gate
  <2>1. /\ DOMAIN loop' = LoopFields /\ loop'.pc \in {"merge", "compress"}
        /\ loop'.group = loop.group /\ ingest' = ingest
    BY <1>13 DEF Gate, Keep, Shape
  <2> QED
    BY <1>11, <1>13, <2>1 DEF Gate, Folding, AboutToPin
<1>14. CASE MergeRead
  <2>1. ASSUME NEW p \in FullScan(Rows) PROVE p[2] \in Live
    <3>1. PICK n \in Rows : \E m : p = <<m, n>>
      BY <2>1 DEF FullScan
    <3> QED
      BY <3>1 DEF Rows
  <2> DEFINE near == {p \in edges : p[1] \in Rows /\ p[2] \in Rows /\ Near(MergeAt, p[1], p[2])}
  <2>2. \A p \in near : p[2] \in Live
    BY DEF Rows
  <2>3. Work("pin", FullScan(Rows), "compress") \/ Work("via_edges", near, "compress")
    BY <1>14 DEF MergeRead
  <2>4. Keep /\ UNCHANGED store /\ ingest' = ingest
    BY <1>14 DEF MergeRead, Keep
  <2> HIDE DEF near
  <2>5. /\ DOMAIN loop' = LoopFields /\ Folding'
        /\ AboutToPin' \subseteq AboutToPin \cup Live
    <3>1. CASE Work("pin", FullScan(Rows), "compress")
      BY <1>10, <2>1, <2>4, <3>1
    <3>2. CASE Work("via_edges", near, "compress")
      BY <1>10, <2>2, <2>4, <3>2
    <3> QED
      BY <2>3, <3>1, <3>2
  <2> QED
    BY <1>11, <2>4, <2>5
<1>15. CASE PinNext
  <2>1. PICK p \in loop.todo : /\ Pin(p[2], "merged", p[1])
                               /\ Work("pin", loop.todo \ {p}, "compress")
    BY <1>15 DEF PinNext
  <2>2. loop.pc = "pin" /\ ingest' = ingest /\ raced' = raced
    BY <1>15 DEF PinNext, Keep
  <2>3. \A q \in loop.todo : q[2] \in AboutToPin
    BY <2>2 DEF AboutToPin
  <2>4. /\ DOMAIN loop' = LoopFields /\ Folding' /\ DOMAIN ingest' = {"pc", "id"}
        /\ AboutToPin' \subseteq AboutToPin \cup Live
    BY <1>10, <2>1, <2>2, <2>3
  <2> QED
    BY <1>7, <2>1, <2>2, <2>3, <2>4
<1>16. CASE PinEdge
  <2>1. PICK p \in loop.todo :
           /\ Pin(p[2], "merged", p[1])
           /\ Work("via_edges", {q \in loop.todo \ {p} : p[2] \notin {q[1], q[2]}}, "compress")
    BY <1>16 DEF PinEdge
  <2>2. loop.pc = "via_edges" /\ ingest' = ingest /\ raced' = raced
    BY <1>16 DEF PinEdge, Keep
  <2>3. \A q \in loop.todo : q[2] \in AboutToPin
    BY <2>2 DEF AboutToPin
  <2>4. /\ DOMAIN loop' = LoopFields /\ Folding' /\ DOMAIN ingest' = {"pc", "id"}
        /\ AboutToPin' \subseteq AboutToPin \cup Live
    BY <1>10, <2>1, <2>2, <2>3
  <2> QED
    BY <1>7, <2>1, <2>2, <2>3, <2>4
<1>17. CASE CompressRead
  <2>1. PICK todo : Work("group", todo, AfterCompress)
    BY <1>17 DEF CompressRead
  <2>2. Keep /\ UNCHANGED store /\ ingest' = ingest
    BY <1>17 DEF CompressRead, Keep
  <2>3. AfterCompress \in {"backfill", "resilience"}
    BY DEF AfterCompress
  <2> QED
    BY <1>10, <1>11, <2>1, <2>2, <2>3
<1>18. CASE CompressGroup
  <2>1. PICK g \in loop.todo :
           LET members == g \cap Rows
               close == \A e \in members : Distance(Min(members), e) =< CompressAt
               rest == loop.todo \ {g}
           IN IF Cardinality(members) >= 2 /\ close
              THEN loop' = [loop EXCEPT !.todo = rest, !.group = members, !.pc = "fold"]
              ELSE Work("group", rest, AfterCompress)
    BY <1>18 DEF CompressGroup
  <2> DEFINE members == g \cap Rows
  <2>2. Keep /\ UNCHANGED store /\ ingest' = ingest
    BY <1>18 DEF CompressGroup, Keep
  <2>3. CASE Work("group", loop.todo \ {g}, AfterCompress)
    <3>1. AfterCompress \in {"backfill", "resilience"}
      BY DEF AfterCompress
    <3> QED
      BY <1>10, <1>11, <2>2, <2>3, <3>1
  <2>4. CASE /\ Cardinality(members) >= 2
             /\ loop' = [loop EXCEPT !.todo = loop.todo \ {g}, !.group = members, !.pc = "fold"]
    <3>1. IsFiniteSet(Ids)
      BY <1>2, FS_Interval
    <3>2. members \in SUBSET Live /\ Live \in SUBSET Ids
      BY DEF Rows, Live
    <3>3. Cardinality(members) > 1
      <4>1. IsFiniteSet(members)
        BY <3>1, <3>2, FS_Subset
      <4>2. Cardinality(members) \in Nat
        BY <4>1, FS_CardinalityType
      <4> QED
        BY <2>4, <4>2
    <3> HIDE DEF members
    <3>4. /\ DOMAIN loop' = LoopFields /\ loop'.group = members /\ loop'.pc = "fold"
      BY <2>4 DEF Shape
    <3>5. Folding'
      BY <3>3, <3>4 DEF Folding
    <3>6. AboutToPin' \subseteq AboutToPin \cup Live
      BY <2>2, <3>2, <3>4 DEF AboutToPin
    <3> QED
      BY <1>11, <2>2, <3>4, <3>5, <3>6
  <2> QED
    BY <2>1, <2>3, <2>4
<1>19. CASE FoldCount
  <2>1. /\ loop.pc = "fold" /\ loop' = [loop EXCEPT !.pc = "dup"]
        /\ ingest' = ingest /\ raced' = raced
        /\ episodes' = [episodes EXCEPT ![Min(loop.group)].count = Cardinality(loop.group)]
    BY <1>19 DEF FoldCount, Keep
  <2>2. DOMAIN loop' = LoopFields /\ loop'.pc = "dup" /\ loop'.group = loop.group
    BY <2>1 DEF Shape
  <2>3. Folding' /\ AboutToPin' \subseteq AboutToPin \cup Live
    BY <2>1, <2>2 DEF Folding, AboutToPin
  <2>4. DOMAIN ingest' = {"pc", "id"}
    BY <2>1 DEF Shape
  <2> QED
    BY <1>8, <2>1, <2>2, <2>3, <2>4
<1>20. CASE FoldPin
  <2>1. /\ loop.pc = "dup" /\ loop' = [loop EXCEPT !.pc = "strip"]
        /\ ingest' = ingest /\ raced' = raced /\ Pin(Dup, "compressed", Rep)
    BY <1>20 DEF FoldPin, Keep
  <2>2. DOMAIN loop' = LoopFields /\ loop'.pc = "strip" /\ loop'.group = loop.group
    BY <2>1 DEF Shape
  <2>3. Folding' /\ AboutToPin' \subseteq AboutToPin \cup Live
    BY <2>1, <2>2 DEF Folding, AboutToPin
  <2>4. DOMAIN ingest' = {"pc", "id"}
    BY <2>1 DEF Shape
  <2>5. loop.group \in SUBSET Ids /\ loop.group \subseteq AboutToPin
    BY DEF Decided, Doomed, AboutToPin
  <2>6. loop.group \ {Rep} # {}
    BY <1>3, <2>1, <2>5 DEF Folding
  <2>7. Dup \in loop.group \ {Rep}
    BY Smallest, <1>2, <2>5, <2>6 DEF Dup
  <2>8. Dup \in AboutToPin
    BY <2>5, <2>7
  <2> QED
    BY <1>7, <2>1, <2>2, <2>3, <2>4, <2>8
<1>21. CASE FoldStrip
  <2> DEFINE rest == loop.group \ {Dup}
  <2>1. /\ episodes' = [episodes EXCEPT ![Dup].count = 1, ![Dup].sig = None]
        /\ ingest' = ingest /\ raced' = raced /\ loop.pc = "strip"
    BY <1>21 DEF FoldStrip, Keep
  <2>2. \/ Cardinality(rest) > 1 /\ loop' = [loop EXCEPT !.pc = "dup", !.group = rest]
        \/ loop' = [loop EXCEPT !.pc = IF loop.todo = {} THEN AfterCompress ELSE "group",
                                 !.group = {}]
    BY <1>21 DEF FoldStrip
  <2> HIDE DEF rest
  <2>3. /\ DOMAIN loop' = LoopFields
        /\ loop'.pc \in {"dup", "group", "backfill", "resilience"}
        /\ loop'.pc = "dup" => Cardinality(loop'.group) > 1
        /\ loop'.group = rest \/ loop'.group = {}
    BY <2>2 DEF Shape, AfterCompress
  <2>4. rest \subseteq loop.group
    BY DEF rest
  <2>5. Folding' /\ AboutToPin' \subseteq AboutToPin \cup Live
    BY <2>1, <2>3, <2>4 DEF Folding, AboutToPin
  <2>6. DOMAIN ingest' = {"pc", "id"}
    BY <2>1 DEF Shape
  <2> QED
    BY <1>8, <2>1, <2>3, <2>5, <2>6
<1>22. CASE BackfillRead
  <2>1. Work("embed", Window, "seed") /\ Keep /\ UNCHANGED store /\ ingest' = ingest
    BY <1>22 DEF BackfillRead, Keep
  <2> QED
    BY <1>10, <1>11, <2>1
<1>23. CASE BackfillNext
  <2>1. Work("embed", loop.todo \ {Min(loop.todo)}, "seed")
    BY <1>23 DEF BackfillNext
  <2>2. ingest' = ingest /\ UNCHANGED <<episodes, raced>>
    BY <1>23 DEF BackfillNext, Keep
  <2> QED
    BY <1>6, <1>10, <2>1, <2>2
<1>24. ASSUME NEW pc \in {"compress", "seed", "resilience"}, Goto(pc),
              UNCHANGED <<episodes, ingest, raced>>
       PROVE  IInv'
  <2>1. /\ DOMAIN loop' = LoopFields /\ loop'.pc = pc /\ loop'.group = loop.group
        /\ DOMAIN ingest' = {"pc", "id"}
    BY <1>24 DEF Goto, Shape
  <2>2. Folding' /\ AboutToPin' \subseteq AboutToPin \cup Live
    BY <1>24, <2>1 DEF Folding, AboutToPin
  <2> QED
    BY <1>6, <1>24, <2>1, <2>2
<1>25. CASE Seed
  BY <1>24, <1>25 DEF Seed, Keep
<1>26. CASE PassFails
  <2>1. UNCHANGED <<episodes, ingest, raced>>
    BY <1>26 DEF PassFails
  <2>2. CASE loop' = [loop EXCEPT !.pc = "compress", !.count = 0, !.train = FALSE]
    <3>1. /\ DOMAIN loop' = LoopFields /\ loop'.pc = "compress" /\ loop'.group = loop.group
          /\ DOMAIN ingest' = {"pc", "id"}
      BY <2>1, <2>2 DEF Shape
    <3>2. Folding' /\ AboutToPin' \subseteq AboutToPin \cup Live
      BY <2>1, <3>1 DEF Folding, AboutToPin
    <3> QED
      BY <1>6, <2>1, <3>1, <3>2
  <2>3. CASE Work("embed", loop.todo \ {Min(loop.todo)}, "seed")
    BY <1>6, <1>10, <2>1, <2>3
  <2>4. CASE Goto("compress") \/ Goto("seed") \/ Goto("resilience")
    BY <1>24, <2>1, <2>4
  <2> QED
    BY <1>26, <2>2, <2>3, <2>4 DEF PassFails
\* The end of a cycle, or the next pin of the resilience scan.
<1>27. ASSUME NEW pairs, ScanOrEnd(pairs), ingest' = ingest,
              \A p \in pairs : p[2] \in AboutToPin \cup Live
       PROVE  /\ DOMAIN loop' = LoopFields /\ Folding'
              /\ AboutToPin' \subseteq AboutToPin \cup Live
              /\ DOMAIN ingest' = {"pc", "id"}
  <2>1. /\ DOMAIN loop' = LoopFields /\ loop'.group = loop.group
        /\ \/ loop'.pc = "idle"
           \/ loop'.pc = "scan" /\ loop'.todo = pairs
    BY <1>27 DEF ScanOrEnd, EndCycle, Shape
  <2>2. Folding'
    BY <2>1 DEF Folding
  <2>3. ASSUME NEW e \in AboutToPin' PROVE e \in AboutToPin \cup Live
    <3>1. CASE e \in loop'.group \/ (ingest'.pc \in {"wire", "pin"} /\ e = ingest'.id)
      BY <1>27, <2>1, <3>1 DEF AboutToPin
    <3>2. CASE loop'.pc \in {"pin", "via_edges", "scan"} /\ \E p \in loop'.todo : e = p[2]
      BY <1>27, <2>1, <3>2
    <3> QED
      BY <2>3, <3>1, <3>2 DEF AboutToPin
  <2> QED
    BY <1>27, <2>1, <2>2, <2>3 DEF Shape
<1>28. CASE Resilience
  <2>1. PICK window \in SUBSET Rows : ScanOrEnd(ScanPairs(window)) \/ ScanOrEnd({})
    BY <1>28 DEF Resilience
  <2>2. \A p \in ScanPairs(window) : p[2] \in Live
    BY DEF ScanPairs, Rows
  <2>3. Keep /\ UNCHANGED store /\ ingest' = ingest
    BY <1>28 DEF Resilience, Keep
  <2>4. /\ DOMAIN loop' = LoopFields /\ Folding'
        /\ AboutToPin' \subseteq AboutToPin \cup Live
    <3>1. CASE ScanOrEnd(ScanPairs(window))
      BY <1>27, <2>2, <2>3, <3>1
    <3>2. CASE ScanOrEnd({})
      BY <1>27, <2>3, <3>2
    <3> QED
      BY <2>1, <3>1, <3>2
  <2> QED
    BY <1>11, <2>3, <2>4
<1>29. CASE ScanNext
  <2>1. PICK p \in loop.todo : Pin(p[2], "resilience", p[1]) /\ ScanOrEnd(loop.todo \ {p})
    BY <1>29 DEF ScanNext
  <2>2. loop.pc = "scan" /\ ingest' = ingest /\ raced' = raced
    BY <1>29 DEF ScanNext, Keep
  <2>3. \A q \in loop.todo : q[2] \in AboutToPin
    BY <2>2 DEF AboutToPin
  <2>4. /\ DOMAIN loop' = LoopFields /\ Folding' /\ DOMAIN ingest' = {"pc", "id"}
        /\ AboutToPin' \subseteq AboutToPin \cup Live
    BY <1>27, <2>1, <2>2, <2>3
  <2> QED
    BY <1>7, <2>1, <2>2, <2>3, <2>4
<1>30. CASE KillLoop
  <2>1. DOMAIN loop' = LoopFields /\ loop'.pc = "off" /\ loop'.group = {}
    BY <1>30 DEF KillLoop, Off
  <2>2. UNCHANGED <<episodes, raced, ingest>>
    BY <1>30 DEF KillLoop, store
  <2> QED
    BY <1>6, <2>1, <2>2 DEF Folding, AboutToPin, Shape
\* Steps of the capture under way; the loop stands still.
<1>31. ASSUME UNCHANGED loop, DOMAIN ingest' = {"pc", "id"}, NEW E,
              ingest'.pc \in {"wire", "pin"} => ingest'.id \in AboutToPin \cup E
       PROVE  /\ DOMAIN loop' = LoopFields /\ Folding'
              /\ AboutToPin' \subseteq AboutToPin \cup E
  BY <1>31 DEF Shape, Folding, AboutToPin
<1>32. ASSUME NEW k \in Kinds, Capture(k), UNCHANGED loop PROVE IInv'
  <2>1. /\ DOMAIN ingest' = {"pc", "id"} /\ Insert(k) /\ raced' = raced
        /\ ingest'.pc \in {"wire", "pin"} => ingest'.id = Len(episodes) + 1
    BY <1>32 DEF Capture, IngestAt, NoIngest
  <2>2. AboutToPin' \subseteq AboutToPin \cup {Len(episodes) + 1}
    BY <1>31, <1>32, <2>1
  <2> QED
    BY <1>9, <1>32, <2>1, <2>2
<1>33. CASE WireEdges /\ UNCHANGED loop
  <2>1. /\ DOMAIN ingest' = {"pc", "id"} /\ ingest'.id \in AboutToPin
        /\ UNCHANGED <<episodes, raced>>
    BY <1>33 DEF WireEdges, AboutToPin, Shape
  <2> QED
    BY <1>6, <1>31, <1>33, <2>1
<1>34. CASE PinSalient /\ UNCHANGED loop
  <2>1. /\ DOMAIN ingest' = {"pc", "id"} /\ ingest.id \in AboutToPin /\ raced' = raced
        /\ ingest'.pc \notin {"wire", "pin"}
        /\ UNCHANGED episodes \/ Pin(ingest.id, "salience", 0)
    BY <1>34 DEF PinSalient, AboutToPin, Shape, NoIngest
  <2>2. /\ DOMAIN loop' = LoopFields /\ Folding'
        /\ AboutToPin' \subseteq AboutToPin \cup Live
    BY <1>31, <1>34, <2>1
  <2>3. CASE UNCHANGED episodes
    BY <1>6, <2>1, <2>2, <2>3
  <2>4. CASE Pin(ingest.id, "salience", 0)
    BY <1>7, <2>1, <2>2, <2>4
  <2> QED
    BY <2>1, <2>3, <2>4
<1>35. CASE StampSignature /\ UNCHANGED loop
  <2>1. /\ DOMAIN ingest' = {"pc", "id"} /\ ingest'.pc = "idle" /\ raced' = raced
        /\ \E s : episodes' = [episodes EXCEPT ![ingest.id].count = 1, ![ingest.id].sig = s]
    BY <1>35 DEF StampSignature, NoIngest
  <2>2. /\ DOMAIN loop' = LoopFields /\ Folding'
        /\ AboutToPin' \subseteq AboutToPin \cup Live
    BY <1>31, <1>35, <2>1
  <2> QED
    BY <1>8, <2>1, <2>2
<1>36. CASE (\E t \in Corrections : RecordCorrection(t)) /\ UNCHANGED loop
  <2>1. PICK k : Insert(k) /\ UNCHANGED <<ingest, raced>>
    BY <1>36 DEF RecordCorrection
  <2>2. DOMAIN ingest' = {"pc", "id"} /\ AboutToPin' = AboutToPin
    BY <1>36, <2>1 DEF Shape, AboutToPin
  <2> QED
    BY <1>9, <1>36, <2>1, <2>2
<1>37. CASE KillIngest /\ UNCHANGED loop
  <2>1. /\ DOMAIN ingest' = {"pc", "id"} /\ ingest'.pc = "idle"
        /\ UNCHANGED <<episodes, raced>>
    BY <1>37 DEF KillIngest, NoIngest, store
  <2> QED
    BY <1>6, <1>31, <1>37, <2>1
<1>38. CASE UNCHANGED <<episodes, ingest, raced, loop>>
  <2>1. DOMAIN ingest' = {"pc", "id"} /\ AboutToPin' = AboutToPin
    BY <1>38 DEF Shape, AboutToPin
  <2> QED
    BY <1>6, <1>38, <2>1 DEF Shape, Folding
\* Forgetting: what it takes from under a decision is marked.
<1>39. CASE Forget(AboutToPin) /\ UNCHANGED loop
  <2>1. PICK gone \in Forgettable :
           /\ episodes' = [e \in Ids |-> IF e \in gone
                              THEN [episodes[e] EXCEPT !.live = FALSE,
                                                       !.pin = Pinned("forgotten", 0)]
                              ELSE episodes[e]]
           /\ raced' = raced \cup (gone \cap AboutToPin)
    BY <1>39 DEF Forget
  <2>2. ingest' = ingest /\ AboutToPin' = AboutToPin
    BY <1>39 DEF Forget, AboutToPin
  <2>3. \A e \in Ids : DOMAIN episodes[e] = Fields
    BY DEF Shape
  <2>4. ASSUME NEW e \in Ids
        PROVE  /\ DOMAIN episodes'[e] = Fields
               /\ e \in gone => /\ ~episodes'[e].live
                                /\ episodes'[e].pin.why = "forgotten"
               /\ e \notin gone => episodes'[e] = episodes[e]
    <3>1. CASE e \in gone
      <4>1. episodes'[e] = [episodes[e] EXCEPT !.live = FALSE, !.pin = Pinned("forgotten", 0)]
        BY <2>1, <3>1
      <4> QED
        BY <2>3, <3>1, <4>1 DEF Fields, Pinned
    <3>2. CASE e \notin gone
      BY <2>1, <2>3, <3>2
    <3> QED
      BY <3>1, <3>2
  <2>5. episodes' \in [Ids -> Image]
    BY <2>1
  <2>6. Ids' = Ids /\ Shape'
    BY <1>4, <1>39, <2>2, <2>4, <2>5 DEF Shape
  <2>7. Decided'
    BY <2>1, <2>2, <2>4, <2>6 DEF Decided, Doomed
  <2>8. ForgottenIsAudited'
    BY <2>1, <2>4, <2>6 DEF ForgottenIsAudited, Live
  <2> QED
    BY <1>39, <2>6, <2>7, <2>8 DEF Folding
<1> QED
  <2>1. CASE Ingest
    BY <1>32, <1>33, <1>34, <1>35, <1>36, <2>1 DEF Ingest
  <2>2. CASE User
    BY <1>37, <1>38, <1>39, <2>2 DEF User, Upgrade
  <2>3. CASE Resident
    BY <1>12, <1>13, <1>14, <1>15, <1>16, <1>17, <1>18, <1>19, <1>20, <1>21, <1>22,
       <1>23, <1>25, <1>28, <1>29, <2>3 DEF Resident
  <2>4. CASE Operator
    BY <1>38, <2>4 DEF Operator, CliStart, CliRead, CliNext, CliExit, store
  <2>5. CASE UNCHANGED vars
    BY <1>38, <2>5 DEF vars, store
  <2>6. CASE CliFails
    BY <1>38, <2>6 DEF CliFails, store
  <2> QED
    BY <1>26, <1>30, <2>1, <2>2, <2>3, <2>4, <2>5, <2>6 DEF Next

\* ForgottenIsAudited for every instance: no pass of the loop, however often
\* it is killed or fails, overwrites the audit pin of a forgotten episode it
\* had not chosen before the episode was forgotten.
THEOREM AuditHolds == Spec => []ForgottenIsAudited
<1>1. IInv => ForgottenIsAudited
  BY DEF IInv
<1> QED
  BY <1>1, AuditInit, AuditStep, PTL DEF Spec

-----------------------------------------------------------------------------
(* The tables.                                                              *)

AllKinds ==
    Kinds \cup {[text |-> t, cmd |-> None, exit |-> 0, project |-> None, salient |-> FALSE] :
                  t \in Corrections}
Sigs == {None} \cup {Signature(k) : k \in AllKinds}
Reasons == {"none", "merged", "resilience", "compressed", "salience", "forgotten"}
Row == [kind: AllKinds, live: BOOLEAN, count: 1 .. MaxEpisodes, sig: Sigs,
        pin: [why: Reasons, into: Nat]]

\* Two episodes, the older first.
Pair(p) == p[1] \in Ids /\ p[2] \in Ids /\ p[1] < p[2]

\* A pin points to an older episode (or to none, 0), whoever made it.
Tables ==
    /\ episodes \in Seq(Row) /\ Len(episodes) <= MaxEpisodes
    /\ \A e \in Ids : episodes[e].pin.into < e
    /\ vectors \subseteq Ids
    /\ \A p \in edges \cup beliefs : Pair(p)
    /\ raced \subseteq Ids \ Live
    /\ ingest.pc # "idle" => ingest.id \in Ids

CliFields == {"pc", "window", "todo", "failed", "wrote", "blind", "seen"}

\* What the loop has read or has on its list.
Lists ==
    /\ loop.last \in -1 .. Len(episodes) /\ loop.count \in 0 .. Len(episodes)
    /\ loop.cycle \in 0 .. (ScanInterval - 1)
    /\ loop.group \subseteq Ids
    /\ loop.pc \in {"pin", "via_edges", "scan"} => \A p \in loop.todo : Pair(p)
    /\ loop.pc = "embed" => loop.todo \subseteq Ids /\ loop.todo # {}
    /\ DOMAIN cli = CliFields
    /\ cli.pc = "embed" => cli.todo \subseteq Ids /\ cli.todo # {}

\* A step that writes rows again, the same episodes as live as before.
Rewrites ==
    /\ episodes' \in Seq(Row) /\ Len(episodes') = Len(episodes)
    /\ \A e \in Ids : /\ episodes'[e].kind = episodes[e].kind
                      /\ episodes'[e].live = episodes[e].live
                      /\ episodes'[e].pin.into < e

\* Episodes are added and forgotten, and no more.
Grown ==
    /\ Len(episodes) <= Len(episodes')
    /\ \A e \in Ids : /\ episodes'[e].kind = episodes[e].kind
                      /\ episodes'[e].live => episodes[e].live
    /\ Rewrites \/ Len(episodes) < Len(episodes') \/ moved'

LEMMA IdsOf == Tables => Ids = 1 .. Len(episodes) /\ Len(episodes) \in Nat /\ IsFiniteSet(Ids)
BY FS_Interval DEF Tables, Ids

LEMMA RowIn == Tables => \A e \in Ids : episodes[e] \in Row
BY DEF Tables, Ids

LEMMA RowOf ==
    ASSUME NEW r \in Row
    PROVE  /\ DOMAIN r = Fields /\ r.pin.into \in Nat /\ r.live \in BOOLEAN
           /\ r.count \in 1 .. MaxEpisodes /\ r.kind \in AllKinds
BY DEF Row, Fields

LEMMA RowPinned ==
    ASSUME NEW r \in Row, NEW why \in Reasons, NEW into \in Nat, NEW s,
           s = [r EXCEPT !.pin = Pinned(why, into)]
    PROVE  s \in Row /\ s.kind = r.kind /\ s.live = r.live /\ s.pin.into = into
BY DEF Row, Pinned

LEMMA RowCounted ==
    ASSUME NEW r \in Row, NEW n \in 1 .. MaxEpisodes, NEW s,
           \/ s = [r EXCEPT !.count = n]
           \/ \E sig \in Sigs : s = [r EXCEPT !.count = n, !.sig = sig]
    PROVE  s \in Row /\ s.kind = r.kind /\ s.live = r.live /\ s.pin = r.pin
BY DEF Row

LEMMA RowForgotten ==
    ASSUME NEW r \in Row, NEW s, s = [r EXCEPT !.live = FALSE, !.pin = Pinned("forgotten", 0)]
    PROVE  s \in Row /\ s.kind = r.kind /\ s.live = FALSE /\ s.pin.into = 0
BY DEF Row, Pinned, Reasons

LEMMA Replaced ==
    ASSUME NEW S, NEW q \in Seq(S), NEW x, NEW s \in S
    PROVE  /\ [q EXCEPT ![x] = s] \in Seq(S)
           /\ Len([q EXCEPT ![x] = s]) = Len(q)
<1> DEFINE r == [q EXCEPT ![x] = s]
<1>1. Len(q) \in Nat /\ q \in [1 .. Len(q) -> S]
  OBVIOUS
<1>2. r \in [1 .. Len(q) -> S]
  BY <1>1
<1> HIDE DEF r
<1>3. r \in Seq(S) /\ Len(r) = Len(q)
  BY <1>1, <1>2
<1> QED
  BY <1>3 DEF r

\* One row of the table, written again.
LEMMA RowRewritten ==
    ASSUME Tables, NEW x \in Ids, NEW s \in Row, s.kind = episodes[x].kind,
           s.live = episodes[x].live, s.pin.into < x, episodes' = [episodes EXCEPT ![x] = s]
    PROVE  Rewrites
<1>1. episodes \in Seq(Row)
  BY DEF Tables
<1>2. episodes' \in Seq(Row) /\ Len(episodes') = Len(episodes)
  BY <1>1, Replaced
<1>3. \A e \in Ids : episodes'[e] = IF e = x THEN s ELSE episodes[e]
  BY DEF Ids
<1> QED
  BY <1>2, <1>3 DEF Rewrites, Tables

LEMMA PinRewrites ==
    ASSUME Tables, NEW x \in Ids, NEW why \in Reasons, NEW into \in Nat, into < x,
           Pin(x, why, into)
    PROVE  Rewrites
<1> DEFINE s == [episodes[x] EXCEPT !.pin = Pinned(why, into)]
<1>1. episodes[x] \in Row
  BY RowIn
<1>2. episodes' = [episodes EXCEPT ![x] = s]
  BY DEF Pin
<1>3. s \in Row /\ s.kind = episodes[x].kind /\ s.live = episodes[x].live /\ s.pin.into = into
  BY <1>1, RowPinned
<1> HIDE DEF s
<1> QED
  BY <1>2, <1>3, RowRewritten

LEMMA CountRewrites ==
    ASSUME Tables, NEW x \in Ids, NEW n \in 1 .. MaxEpisodes,
           \/ episodes' = [episodes EXCEPT ![x].count = n]
           \/ \E sig \in Sigs : episodes' = [episodes EXCEPT ![x].count = n, ![x].sig = sig]
    PROVE  Rewrites
<1>1. episodes[x] \in Row /\ DOMAIN episodes[x] = Fields
  BY RowIn, RowOf
<1>2. PICK s : /\ \/ s = [episodes[x] EXCEPT !.count = n]
                  \/ \E sig \in Sigs : s = [episodes[x] EXCEPT !.count = n, !.sig = sig]
               /\ episodes' = [episodes EXCEPT ![x] = s]
  BY <1>1 DEF Fields
<1>3. PICK r \in Row : r = episodes[x]
  BY <1>1
<1>4. \/ s = [r EXCEPT !.count = n]
      \/ \E sig \in Sigs : s = [r EXCEPT !.count = n, !.sig = sig]
  BY <1>2, <1>3
<1>5. s \in Row /\ s.kind = r.kind /\ s.live = r.live /\ s.pin = r.pin
  BY <1>4, RowCounted
<1>6. s \in Row /\ s.kind = episodes[x].kind /\ s.live = episodes[x].live /\ s.pin = episodes[x].pin
  BY <1>3, <1>5
<1>7. s.pin.into < x
  BY <1>6 DEF Tables
<1> QED
  BY <1>2, <1>6, <1>7, RowRewritten

LEMMA Altered ==
    ASSUME Tables, Rewrites \/ UNCHANGED episodes, vectors' \subseteq Ids,
           \A p \in edges' \cup beliefs' : Pair(p), raced' = raced,
           \/ ingest' = ingest \/ ingest'.pc = "idle"
           \/ ingest'.id = ingest.id /\ ingest.pc # "idle"
    PROVE  Tables' /\ Grown
<1>1. Rewrites
  BY IdsOf DEF Rewrites, Tables
<1>2. Ids' = Ids
  <2>1. Ids' = 1 .. Len(episodes')
    BY <1>1 DEF Rewrites, Ids
  <2> QED
    BY <1>1, <2>1, IdsOf DEF Rewrites
<1>3. Live' = Live
  BY <1>1, <1>2 DEF Rewrites, Live
<1>4. \A p : Pair(p)' <=> Pair(p)
  BY <1>2 DEF Pair
<1>5. Grown
  BY <1>1, IdsOf DEF Rewrites, Grown
<1>6. Tables'
  BY <1>1, <1>2, <1>3, <1>4 DEF Tables, Rewrites
<1> QED
  BY <1>5, <1>6

\* A new row, with or without a vector.
LEMMA Added ==
    ASSUME Tables, NEW k \in AllKinds, Insert(k), UNCHANGED <<edges, beliefs, raced>>,
           vectors' \subseteq vectors \cup {Len(episodes) + 1},
           ingest' = ingest \/ ingest'.pc = "idle" \/ ingest'.id = Len(episodes) + 1
    PROVE  Tables' /\ Grown /\ Len(episodes') = Len(episodes) + 1
<1> DEFINE row == [kind |-> k, live |-> TRUE, count |-> 1, sig |-> None, pin |-> Unpinned]
           id == Len(episodes) + 1
<1>1. episodes' = Append(episodes, row) /\ Len(episodes) < MaxEpisodes /\ Len(episodes) \in Nat
  BY IdsOf DEF Insert
<1>2. row \in Row /\ row.live /\ row.pin.into = 0
  BY <1>1, StoreAssumption DEF Row, Unpinned, Reasons, Sigs
<1> HIDE DEF row
<1>3. /\ episodes' \in Seq(Row) /\ Len(episodes') = Len(episodes) + 1
      /\ Len(episodes') <= MaxEpisodes
      /\ \A e \in DOMAIN episodes : episodes'[e] = episodes[e]
      /\ episodes'[Len(episodes) + 1] = row
  BY <1>1, <1>2, StoreAssumption DEF Tables
<1>4. Ids' = Ids \cup {id}
  BY <1>1, <1>3, IdsOf DEF Ids
<1>5. \A e \in Ids : episodes'[e] = episodes[e] /\ e # id
  BY <1>3, IdsOf DEF Ids
<1>6. \A p : Pair(p) => Pair(p)'
  BY <1>4 DEF Pair
<1>7. raced' \subseteq Ids' \ Live'
  BY <1>4, <1>5 DEF Tables, Live
<1>8. \A e \in Ids' : episodes'[e].pin.into < e
  <2>1. ASSUME NEW e \in Ids PROVE episodes'[e].pin.into < e
    BY <1>5, <2>1 DEF Tables
  <2>2. episodes'[id].pin.into < id
    BY <1>1, <1>2, <1>3
  <2> QED
    BY <1>4, <2>1, <2>2
<1>9. Tables'
  BY <1>3, <1>4, <1>6, <1>7, <1>8 DEF Tables
<1>10. Grown
  <2>1. Len(episodes) <= Len(episodes') /\ Len(episodes) < Len(episodes')
    BY <1>1, <1>3
  <2> QED
    BY <1>5, <2>1 DEF Grown
<1> QED
  BY <1>3, <1>9, <1>10

\* The merges and the scan pair an episode with an older one.
LEMMA Merged ==
    ASSUME Tables, NEW p \in FullScan(Rows) PROVE Pair(p) /\ p[1] \in Nat
<1>1. PICK n \in Rows : \E S \in SUBSET {m \in Rows : Near(MergeAt, m, n)} :
                            S # {} /\ p = <<Min(S), n>>
  BY DEF FullScan
<1>2. PICK S \in SUBSET {m \in Rows : Near(MergeAt, m, n)} : S # {} /\ p = <<Min(S), n>>
  BY <1>1
<1>3. Rows \subseteq Ids /\ Ids \subseteq Nat
  BY IdsOf DEF Rows, Live
<1>4. S \in SUBSET Nat
  BY <1>3
<1>5. Min(S) \in S
  BY <1>2, <1>4, Smallest
<1>6. Min(S) \in Ids /\ Min(S) < n
  BY <1>3, <1>5 DEF Near
<1> QED
  BY <1>2, <1>3, <1>6 DEF Pair

LEMMA Scanned ==
    ASSUME NEW window \in SUBSET Ids, NEW p \in ScanPairs(window) PROVE Pair(p)
BY DEF ScanPairs, Near, Pair

\* The compression folds the second oldest of a group into the oldest.
LEMMA Folded ==
    ASSUME IInv, Tables, Lists, loop.pc \in {"fold", "dup", "strip"}
    PROVE  /\ Rep \in Ids /\ Rep \in Nat /\ Dup \in loop.group \ {Rep} /\ Dup \in Ids /\ Rep < Dup
           /\ Cardinality(loop.group) \in 1 .. MaxEpisodes
<1>1. /\ loop.group \in SUBSET Ids /\ loop.group \in SUBSET Nat /\ Cardinality(loop.group) > 1
      /\ IsFiniteSet(loop.group)
  <2>1. loop.group \in SUBSET Ids /\ Cardinality(loop.group) > 1
    BY DEF Lists, IInv, Folding
  <2> QED
    BY <2>1, IdsOf, FS_Subset
<1>2. loop.group # {} /\ loop.group \ {Rep} # {}
  <2>1. loop.group \ {Rep} = {} => loop.group = {} \/ loop.group = {Rep}
    OBVIOUS
  <2> QED
    BY <1>1, <2>1, FS_EmptySet, FS_Singleton
<1>3. Rep \in loop.group /\ \A y \in loop.group : Rep <= y
  BY <1>1, <1>2, Smallest DEF Rep
<1>4. Dup \in loop.group \ {Rep}
  BY <1>1, <1>2, Smallest DEF Dup
<1>5. Rep \in Nat /\ Dup \in Nat /\ Rep < Dup
  BY <1>1, <1>3, <1>4
<1>6. Cardinality(loop.group) \in 1 .. MaxEpisodes
  <2>1. Cardinality(Ids) = Len(episodes)
    <3>1. Len(episodes) \in Int /\ 1 \in Int /\ Ids = 1 .. Len(episodes) /\ Len(episodes) \in Nat
      BY IdsOf
    <3>2. Cardinality(1 .. Len(episodes)) =
            IF 1 > Len(episodes) THEN 0 ELSE Len(episodes) - 1 + 1
      BY <3>1, FS_Interval
    <3> QED
      BY <3>1, <3>2
  <2>2. Cardinality(loop.group) <= Cardinality(Ids) /\ Cardinality(loop.group) \in Nat
    BY <1>1, IdsOf, FS_Subset, FS_CardinalityType
  <2> QED
    BY <1>1, <2>1, <2>2, IdsOf, StoreAssumption DEF Tables
<1> QED
  BY <1>1, <1>3, <1>4, <1>5, <1>6

LEMMA SomeEpisode == Tables => \A e \in Ids : 1 \in 1 .. MaxEpisodes
BY IdsOf, StoreAssumption DEF Tables

\* What is about to be embedded is an episode.
LEMMA Embedded ==
    ASSUME Tables, NEW todo, todo \subseteq Ids, todo # {}, Embed(Min(todo))
    PROVE  Min(todo) \in todo /\ vectors' \subseteq Ids /\ vectors \subseteq vectors'
<1>1. todo \in SUBSET Nat
  BY IdsOf
<1>2. Min(todo) \in todo
  BY <1>1, Smallest
<1> QED
  BY <1>2 DEF Embed, Tables

\* Seeding relates pairs of episodes.
LEMMA Seeds ==
    ASSUME Tables, NEW b \in Seedable PROVE Pair(b)
<1>1. PICK p : /\ p \in (Live \cap vectors) \X (Live \cap vectors)
               /\ Near(BeliefAt, p[1], p[2])
               /\ b = <<p[1], p[2], BeliefKind(p[1], p[2])>>
  BY DEF Seedable
<1> QED
  BY <1>1 DEF Near, Pair, Live

LEMMA TablesStep == IInv /\ Tables /\ Lists /\ [Next]_vars => Tables' /\ Grown
<1> SUFFICES ASSUME IInv, Tables, Lists, [Next]_vars PROVE Tables' /\ Grown
  OBVIOUS
<1>1. \A p \in edges \cup beliefs : Pair(p)
  BY DEF Tables
<1>2. vectors \subseteq Ids /\ Ids \subseteq Nat
  BY IdsOf DEF Tables
\* The table of episodes stands.
<1>3. ASSUME UNCHANGED <<episodes, edges, raced>>, vectors' \subseteq Ids,
             \A p \in beliefs' : Pair(p), ingest' = ingest \/ ingest'.pc = "idle"
      PROVE  Tables' /\ Grown
  BY <1>1, <1>3, Altered
<1>4. ASSUME UNCHANGED <<store, raced>>, ingest' = ingest \/ ingest'.pc = "idle"
      PROVE  Tables' /\ Grown
  BY <1>1, <1>2, <1>3, <1>4 DEF store
\* A row is written again.
<1>5. ASSUME Rewrites, UNCHANGED <<vectors, edges, beliefs, raced>>,
             \/ ingest' = ingest \/ ingest'.pc = "idle"
             \/ ingest'.id = ingest.id /\ ingest.pc # "idle"
      PROVE  Tables' /\ Grown
  BY <1>1, <1>2, <1>5, Altered
<1>6. ASSUME NEW p, Pair(p), NEW why \in Reasons, Pin(p[2], why, p[1]),
             UNCHANGED <<vectors, edges, beliefs, raced, ingest>>
      PROVE  Tables' /\ Grown
  <2>1. Rewrites
    BY <1>2, <1>6, PinRewrites DEF Pair
  <2> QED
    BY <1>5, <1>6, <2>1
<1>7. CASE \/ Boot \/ Gate \/ MergeRead \/ CompressRead \/ CompressGroup \/ BackfillRead
           \/ Resilience \/ KillLoop \/ CliStart \/ CliRead \/ CliFails \/ CliExit
  BY <1>4, <1>7 DEF Boot, Gate, MergeRead, CompressRead, CompressGroup, BackfillRead,
     Resilience, KillLoop, CliStart, CliRead, CliFails, CliExit, Keep
<1>8. CASE PinNext
  <2>1. PICK p \in loop.todo : Pin(p[2], "merged", p[1])
    BY <1>8 DEF PinNext
  <2>2. Pair(p) /\ UNCHANGED <<vectors, edges, beliefs, raced, ingest>>
    BY <1>8 DEF PinNext, Lists, Keep
  <2> QED
    BY <1>6, <2>1, <2>2 DEF Reasons
<1>9. CASE PinEdge
  <2>1. PICK p \in loop.todo : Pin(p[2], "merged", p[1])
    BY <1>9 DEF PinEdge
  <2>2. Pair(p) /\ UNCHANGED <<vectors, edges, beliefs, raced, ingest>>
    BY <1>9 DEF PinEdge, Lists, Keep
  <2> QED
    BY <1>6, <2>1, <2>2 DEF Reasons
<1>10. CASE ScanNext
  <2>1. PICK p \in loop.todo : Pin(p[2], "resilience", p[1])
    BY <1>10 DEF ScanNext
  <2>2. Pair(p) /\ UNCHANGED <<vectors, edges, beliefs, raced, ingest>>
    BY <1>10 DEF ScanNext, Lists, Keep
  <2> QED
    BY <1>6, <2>1, <2>2 DEF Reasons
<1>11. CASE FoldCount
  <2>1. Rewrites
    BY <1>11, Folded, CountRewrites DEF FoldCount, Rep
  <2> QED
    BY <1>5, <1>11, <2>1 DEF FoldCount, Keep
<1>12. CASE FoldPin
  <2>1. Rep \in Nat /\ Dup \in Ids /\ Rep < Dup
    BY <1>12, Folded DEF FoldPin
  <2>2. Rewrites
    BY <1>12, <2>1, PinRewrites DEF FoldPin, Reasons
  <2> QED
    BY <1>5, <1>12, <2>2 DEF FoldPin, Keep
<1>13. CASE FoldStrip
  <2>1. Dup \in Ids /\ 1 \in 1 .. MaxEpisodes /\ None \in Sigs
    BY <1>13, Folded, SomeEpisode DEF FoldStrip, Sigs
  <2>2. episodes' = [episodes EXCEPT ![Dup].count = 1, ![Dup].sig = None]
    BY <1>13 DEF FoldStrip
  <2>3. Rewrites
    BY <2>1, <2>2, CountRewrites
  <2> QED
    BY <1>5, <1>13, <2>3 DEF FoldStrip, Keep
<1>14. CASE BackfillNext
  <2>1. vectors' \subseteq Ids
    BY <1>14, Embedded DEF BackfillNext, Lists
  <2> QED
    BY <1>1, <1>3, <1>14, <2>1 DEF BackfillNext, Keep
<1>15. CASE CliNext
  <2>1. vectors' \subseteq Ids
    BY <1>15, Embedded DEF CliNext, Lists
  <2> QED
    BY <1>1, <1>3, <1>15, <2>1 DEF CliNext
<1>16. CASE Seed
  <2>1. \A b \in beliefs' : Pair(b)
    BY <1>1, <1>16, Seeds DEF Seed
  <2> QED
    BY <1>2, <1>3, <1>16, <2>1 DEF Seed, Keep
<1>17. CASE PassFails
  <2>1. \A b \in beliefs' : Pair(b)
    BY <1>1, <1>17, Seeds DEF PassFails
  <2> QED
    BY <1>2, <1>3, <1>17, <2>1 DEF PassFails
<1>18. ASSUME NEW k \in Kinds, Capture(k) PROVE Tables' /\ Grown
  <2>1. k \in AllKinds
    BY DEF AllKinds
  <2>2. /\ vectors' \subseteq vectors \cup {Len(episodes) + 1}
        /\ ingest'.pc = "idle" \/ ingest'.id = Len(episodes) + 1
        /\ Insert(k) /\ UNCHANGED <<edges, beliefs, raced>>
    BY <1>18 DEF Capture, IngestAt, NoIngest
  <2> QED
    BY <2>1, <2>2, Added
<1>19. ASSUME NEW t \in Corrections, RecordCorrection(t) PROVE Tables' /\ Grown
  <2> DEFINE k == [text |-> t, cmd |-> None, exit |-> 0, project |-> None, salient |-> FALSE]
  <2>1. k \in AllKinds
    BY DEF AllKinds
  <2>2. Insert(k) /\ UNCHANGED <<vectors, edges, beliefs, ingest, raced>>
    BY <1>19 DEF RecordCorrection
  <2> HIDE DEF k
  <2> QED
    BY <2>1, <2>2, Added
<1>20. CASE WireEdges
  <2> DEFINE id == ingest.id
             close == {e \in Rows \ {id} : Distance(e, id) =< EdgeAt}
  <2>1. id \in Ids /\ Rows \subseteq Ids
    BY <1>20 DEF WireEdges, Tables, Rows, Live
  <2>2. PICK top \in SUBSET close :
           edges' = edges \cup {IF e < id THEN <<e, id>> ELSE <<id, e>> : e \in top}
    BY <1>20 DEF WireEdges, kSubset
  <2>3. \A e \in top : e \in Ids /\ e # id
    BY <2>1
  <2>4. ASSUME NEW e \in top, NEW p, p = IF e < id THEN <<e, id>> ELSE <<id, e>>
        PROVE  Pair(p)
    <3>1. e \in Ids /\ e \in Nat /\ id \in Nat /\ e # id
      BY <1>2, <2>1, <2>3
    <3>2. CASE e < id
      BY <2>1, <2>4, <3>1, <3>2 DEF Pair
    <3>3. CASE id < e
      BY <2>1, <2>4, <3>1, <3>3 DEF Pair
    <3> QED
      BY <3>1, <3>2, <3>3
  <2>5. \A p \in edges' \cup beliefs' : Pair(p)
    BY <1>1, <1>20, <2>2, <2>4 DEF WireEdges
  <2>6. ingest'.id = ingest.id /\ ingest.pc # "idle"
    BY <1>20 DEF WireEdges, IInv, Shape
  <2> QED
    BY <1>2, <1>20, <2>5, <2>6, Altered DEF WireEdges
<1>21. CASE PinSalient
  <2>1. ingest.id \in Ids /\ ingest.pc # "idle"
    BY <1>21 DEF PinSalient, Tables
  <2>2. Rewrites \/ UNCHANGED episodes
    <3>1. Pin(ingest.id, "salience", 0) \/ UNCHANGED episodes
      BY <1>21 DEF PinSalient
    <3>2. 0 < ingest.id
      BY <2>1, IdsOf
    <3> QED
      BY <2>1, <3>1, <3>2, PinRewrites DEF Reasons
  <2>3. \/ ingest'.pc = "idle"
        \/ ingest'.id = ingest.id
    BY <1>21 DEF PinSalient, NoIngest, IInv, Shape
  <2> QED
    BY <1>1, <1>2, <1>21, <2>1, <2>2, <2>3, Altered DEF PinSalient
<1>22. CASE StampSignature
  <2>1. ingest.id \in Ids /\ ingest.pc # "idle"
    BY <1>22 DEF StampSignature, Tables
  <2>2. PICK sig \in Sigs : episodes' = [episodes EXCEPT ![ingest.id].count = 1, ![ingest.id].sig = sig]
    <3>1. Signature(episodes[ingest.id].kind) \in Sigs
      BY <2>1, RowIn, RowOf DEF Sigs
    <3> QED
      BY <1>22, <3>1 DEF StampSignature
  <2>3. Rewrites
    BY <2>1, <2>2, SomeEpisode, CountRewrites
  <2>4. ingest'.pc = "idle"
    BY <1>22 DEF StampSignature, NoIngest
  <2> QED
    BY <1>5, <1>22, <2>3, <2>4 DEF StampSignature
<1>23. CASE KillIngest
  BY <1>4, <1>23 DEF KillIngest, NoIngest
<1>24. CASE Upgrade
  BY <1>1, <1>3, <1>24 DEF Upgrade
<1>25. CASE Forget(AboutToPin) /\ moved'
  <2>1. PICK gone \in Forgettable :
           /\ episodes' = [e \in Ids |-> IF e \in gone
                              THEN [episodes[e] EXCEPT !.live = FALSE,
                                                       !.pin = Pinned("forgotten", 0)]
                              ELSE episodes[e]]
           /\ raced' = raced \cup (gone \cap AboutToPin)
           /\ UNCHANGED <<vectors, edges, beliefs, ingest>>
    BY <1>25 DEF Forget
  <2>2. gone \subseteq Ids
    BY DEF Forgettable, Live
  <2>3. ASSUME NEW e \in Ids
        PROVE  /\ episodes'[e] \in Row /\ episodes'[e].kind = episodes[e].kind
               /\ episodes'[e].pin.into < e
               /\ episodes'[e].live => episodes[e].live
               /\ e \in gone => episodes'[e].live = FALSE
    <3>1. CASE e \in gone
      <4>1. PICK s : /\ s = [episodes[e] EXCEPT !.live = FALSE, !.pin = Pinned("forgotten", 0)]
                     /\ episodes'[e] = s
        BY <2>1, <3>1
      <4>2. s \in Row /\ s.kind = episodes[e].kind /\ s.live = FALSE /\ s.pin.into = 0
        BY <4>1, RowIn, RowForgotten
      <4>3. 0 < e
        BY IdsOf
      <4> QED
        BY <4>1, <4>2, <4>3
    <3>2. CASE e \notin gone
      <4>1. episodes'[e] = episodes[e]
        BY <2>1, <3>2
      <4> QED
        BY <3>2, <4>1, RowIn DEF Tables
    <3> QED
      BY <3>1, <3>2
  <2>4. episodes' \in Seq(Row) /\ Len(episodes') = Len(episodes) /\ Ids' = Ids
    <3>1. DOMAIN episodes' = 1 .. Len(episodes) /\ Len(episodes) \in Nat
      BY <2>1, IdsOf
    <3>2. episodes' \in [1 .. Len(episodes) -> Row]
      BY <2>1, <2>3, <3>1, IdsOf
    <3>3. episodes' \in Seq(Row) /\ Len(episodes') = Len(episodes)
      BY <3>1, <3>2
    <3> QED
      BY <3>1, <3>3, IdsOf DEF Ids
  <2>5. raced' \subseteq Ids' \ Live'
    BY <2>1, <2>2, <2>3, <2>4 DEF Tables, Live
  <2>6. Tables'
    BY <2>1, <2>3, <2>4, <2>5 DEF Tables, Pair
  <2>7. Len(episodes) <= Len(episodes')
    BY <2>4, IdsOf
  <2>8. Grown
    BY <1>25, <2>3, <2>7 DEF Grown
  <2> QED
    BY <2>6, <2>8
<1>26. CASE UNCHANGED vars
  BY <1>4, <1>26 DEF vars
<1> QED
  BY <1>7, <1>8, <1>9, <1>10, <1>11, <1>12, <1>13, <1>14, <1>15, <1>16, <1>17, <1>18, <1>19,
     <1>20, <1>21, <1>22, <1>23, <1>24, <1>25, <1>26
     DEF Next, Ingest, User, Resident, Operator

LEMMA ListsInit == Init => Tables /\ Lists
BY StoreAssumption, LoopAssumption
   DEF Init, StoreInit, NoIngest, Off, NoCli, CliFields, Tables, Lists, Ids

LEMMA WorkTo ==
    ASSUME IInv, NEW pc, NEW todo, NEW after, Work(pc, todo, after)
    PROVE  /\ loop'.last = loop.last /\ loop'.count = loop.count /\ loop'.cycle = loop.cycle
           /\ loop'.group = loop.group /\ loop'.train = loop.train
           /\ \/ loop'.pc = pc /\ loop'.todo = todo /\ todo # {}
              \/ loop'.pc = after /\ loop'.todo = {}
BY DEF Work, Goto, IInv, Shape, LoopFields

LEMMA GoneTo ==
    ASSUME IInv, NEW pc, Goto(pc)
    PROVE  /\ loop'.last = loop.last /\ loop'.count = loop.count /\ loop'.cycle = loop.cycle
           /\ loop'.group = loop.group /\ loop'.train = loop.train
           /\ loop'.pc = pc /\ loop'.todo = {}
BY DEF Goto, IInv, Shape, LoopFields

\* A cycle ends, or the scan goes on.
LEMMA Ended ==
    ASSUME IInv, NEW pairs, ScanOrEnd(pairs)
    PROVE  /\ loop'.group = loop.group
           /\ \/ /\ loop'.pc = "scan" /\ loop'.todo = pairs /\ loop'.last = loop.last
                 /\ loop'.count = loop.count /\ loop'.cycle = loop.cycle /\ loop'.train = loop.train
              \/ /\ loop'.pc = "idle" /\ loop'.last = loop.count /\ loop'.count = 0
                 /\ loop'.cycle \in {loop.cycle, (loop.cycle + 1) % ScanInterval}
                 /\ loop'.train = FALSE
BY DEF ScanOrEnd, EndCycle, Counted, IInv, Shape, LoopFields

LEMMA ListsStep == IInv /\ Tables /\ Lists /\ [Next]_vars => Lists'
<1> SUFFICES ASSUME IInv, Tables, Lists, [Next]_vars PROVE Lists'
  OBVIOUS
<1>1. Tables' /\ Grown
  BY TablesStep
<1>2. Ids \subseteq Ids' /\ Len(episodes) <= Len(episodes')
      /\ Len(episodes) \in Nat /\ Len(episodes') \in Nat
  <2>1. Ids = 1 .. Len(episodes) /\ Len(episodes) \in Nat
    BY IdsOf
  <2>2. episodes' \in Seq(Row)
    BY <1>1 DEF Tables
  <2>3. Ids' = 1 .. Len(episodes') /\ Len(episodes') \in Nat
    BY <2>2 DEF Ids
  <2> QED
    BY <1>1, <2>1, <2>3 DEF Grown
<1>3. \A p : Pair(p) => Pair(p)'
  BY <1>2 DEF Pair
<1>4. /\ loop.last \in -1 .. Len(episodes') /\ loop.count \in 0 .. Len(episodes')
      /\ loop.last \in -1 .. Len(episodes) /\ loop.count \in 0 .. Len(episodes)
      /\ loop.group \subseteq Ids /\ loop.group \subseteq Ids'
      /\ loop.cycle \in 0 .. (ScanInterval - 1)
  BY <1>2 DEF Lists
\* The lists of the loop and those of the command.
<1> DEFINE OfLoop ==
      /\ loop'.last \in -1 .. Len(episodes') /\ loop'.count \in 0 .. Len(episodes')
      /\ loop'.cycle \in 0 .. (ScanInterval - 1)
      /\ loop'.group \subseteq Ids'
      /\ loop'.pc \in {"pin", "via_edges", "scan"} => \A p \in loop'.todo : Pair(p)'
      /\ loop'.pc = "embed" => loop'.todo \subseteq Ids' /\ loop'.todo # {}
<1> DEFINE OfCli ==
      /\ DOMAIN cli' = CliFields
      /\ cli'.pc = "embed" => cli'.todo \subseteq Ids' /\ cli'.todo # {}
<1>5. ASSUME OfLoop, OfCli PROVE Lists'
  BY <1>5 DEF Lists
<1>6. UNCHANGED loop => OfLoop
  BY <1>2, <1>3, <1>4 DEF Lists
<1>7. UNCHANGED cli => OfCli
  BY <1>2 DEF Lists
\* The loop goes on within its cycle.
<1>8. ASSUME loop'.last = loop.last, loop'.count = loop.count, loop'.cycle = loop.cycle,
             loop'.group \subseteq Ids,
             loop'.pc \in {"pin", "via_edges", "scan"} => \A p \in loop'.todo : Pair(p),
             loop'.pc = "embed" => loop'.todo \subseteq Ids /\ loop'.todo # {}
      PROVE  OfLoop
  BY <1>2, <1>3, <1>4, <1>8
<1>9. ASSUME NEW pc, NEW todo, NEW after, Work(pc, todo, after),
             after \notin {"pin", "via_edges", "scan", "embed"},
             pc \in {"pin", "via_edges", "scan"} => \A p \in todo : Pair(p),
             pc = "embed" => todo \subseteq Ids
      PROVE  OfLoop
  <2>1. /\ loop'.last = loop.last /\ loop'.count = loop.count /\ loop'.cycle = loop.cycle
        /\ loop'.group = loop.group
        /\ \/ loop'.pc = pc /\ loop'.todo = todo /\ todo # {}
           \/ loop'.pc = after /\ loop'.todo = {}
    BY <1>9, WorkTo
  <2> HIDE DEF OfLoop
  <2>2. loop'.pc \in {"pin", "via_edges", "scan"} => \A p \in loop'.todo : Pair(p)
    BY <1>9, <2>1
  <2>3. loop'.pc = "embed" => loop'.todo \subseteq Ids /\ loop'.todo # {}
    BY <1>9, <2>1
  <2> QED
    BY <1>4, <1>8, <2>1, <2>2, <2>3
<1>10. ASSUME NEW pairs, ScanOrEnd(pairs), \A p \in pairs : Pair(p) PROVE OfLoop
  <2>1. CASE /\ loop'.pc = "scan" /\ loop'.todo = pairs /\ loop'.last = loop.last
             /\ loop'.count = loop.count /\ loop'.cycle = loop.cycle
    <3>1. loop'.group = loop.group
      BY <1>10, Ended
    <3> QED
      BY <1>4, <1>8, <1>10, <2>1, <3>1
  <2>2. CASE /\ loop'.pc = "idle" /\ loop'.last = loop.count /\ loop'.count = 0
             /\ loop'.cycle \in {loop.cycle, (loop.cycle + 1) % ScanInterval}
    <3>1. loop'.group = loop.group
      BY <1>10, Ended
    <3>2. (loop.cycle + 1) % ScanInterval \in 0 .. (ScanInterval - 1)
      BY <1>4, LoopAssumption
    <3>3. loop'.last \in -1 .. Len(episodes') /\ loop'.count \in 0 .. Len(episodes')
      BY <1>2, <1>4, <2>2
    <3> QED
      BY <1>4, <2>2, <3>1, <3>2, <3>3
  <2> QED
    BY <1>10, <2>1, <2>2, Ended
<1>11. AfterCompress \in {"backfill", "resilience"}
  BY DEF AfterCompress
<1> HIDE DEF OfLoop, OfCli
<1>12. CASE Boot \/ KillLoop
  <2>1. /\ loop'.pc \in {"idle", "off"} /\ loop'.last = -1 /\ loop'.count = 0 /\ loop'.cycle = 0
        /\ loop'.group = {}
    BY <1>12 DEF Boot, KillLoop, Off
  <2>2. OfLoop
    BY <1>2, <2>1, LoopAssumption DEF OfLoop
  <2> QED
    BY <1>5, <1>7, <1>12, <2>2 DEF Boot, KillLoop, Keep
<1>13. CASE Gate
  <2>1. /\ loop'.count = Len(episodes) /\ loop'.last = loop.last /\ loop'.cycle = loop.cycle
        /\ loop'.group = loop.group /\ loop'.pc \in {"merge", "compress"}
    BY <1>13 DEF Gate, IInv, Shape, LoopFields
  <2>2. OfLoop
    BY <1>2, <1>4, <2>1 DEF OfLoop
  <2> QED
    BY <1>5, <1>7, <1>13, <2>2 DEF Gate, Keep
<1>14. CASE MergeRead
  <2> DEFINE near == {p \in edges : p[1] \in Rows /\ p[2] \in Rows /\ Near(MergeAt, p[1], p[2])}
  <2>1. Work("pin", FullScan(Rows), "compress") \/ Work("via_edges", near, "compress")
    BY <1>14 DEF MergeRead
  <2>2. \A p \in near : Pair(p)
    BY DEF Tables
  <2> HIDE DEF near
  <2>3. OfLoop
    BY <1>9, <2>1, <2>2, Merged
  <2> QED
    BY <1>5, <1>7, <1>14, <2>3 DEF MergeRead, Keep
<1>15. CASE PinNext
  <2>1. PICK p \in loop.todo : Work("pin", loop.todo \ {p}, "compress")
    BY <1>15 DEF PinNext
  <2>2. \A q \in loop.todo \ {p} : Pair(q)
    BY <1>15 DEF PinNext, Lists
  <2>3. OfLoop
    BY <1>9, <2>1, <2>2
  <2> QED
    BY <1>5, <1>7, <1>15, <2>3 DEF PinNext, Keep
<1>16. CASE PinEdge
  <2>1. PICK rest \in SUBSET loop.todo : Work("via_edges", rest, "compress")
    BY <1>16 DEF PinEdge
  <2>2. \A q \in rest : Pair(q)
    BY <1>16 DEF PinEdge, Lists
  <2>3. OfLoop
    BY <1>9, <2>1, <2>2
  <2> QED
    BY <1>5, <1>7, <1>16, <2>3 DEF PinEdge, Keep
<1>17. CASE Resilience
  <2>1. PICK window \in SUBSET Rows : ScanOrEnd(ScanPairs(window)) \/ ScanOrEnd({})
    BY <1>17 DEF Resilience
  <2>2. \A p \in ScanPairs(window) : Pair(p)
    BY Scanned DEF Rows, Live
  <2>3. OfLoop
    BY <1>10, <2>1, <2>2
  <2> QED
    BY <1>5, <1>7, <1>17, <2>3 DEF Resilience, Keep
<1>18. CASE ScanNext
  <2>1. PICK p \in loop.todo : ScanOrEnd(loop.todo \ {p})
    BY <1>18 DEF ScanNext
  <2>2. \A q \in loop.todo \ {p} : Pair(q)
    BY <1>18 DEF ScanNext, Lists
  <2>3. OfLoop
    BY <1>10, <2>1, <2>2
  <2> QED
    BY <1>5, <1>7, <1>18, <2>3 DEF ScanNext, Keep
<1>19. CASE CompressRead
  <2>1. PICK todo : Work("group", todo, AfterCompress)
    BY <1>19 DEF CompressRead
  <2>2. OfLoop
    BY <1>9, <1>11, <2>1
  <2> QED
    BY <1>5, <1>7, <1>19, <2>2 DEF CompressRead, Keep
<1>20. CASE CompressGroup
  <2>1. PICK g \in loop.todo :
           \/ loop' = [loop EXCEPT !.todo = loop.todo \ {g}, !.group = g \cap Rows, !.pc = "fold"]
           \/ Work("group", loop.todo \ {g}, AfterCompress)
    BY <1>20 DEF CompressGroup
  <2>2. CASE loop' = [loop EXCEPT !.todo = loop.todo \ {g}, !.group = g \cap Rows, !.pc = "fold"]
    <3>1. /\ loop'.last = loop.last /\ loop'.count = loop.count /\ loop'.cycle = loop.cycle
          /\ loop'.group \subseteq Ids /\ loop'.pc = "fold"
      BY <2>2 DEF IInv, Shape, LoopFields, Rows, Live
    <3>2. OfLoop
      BY <1>8, <3>1
    <3> QED
      BY <1>5, <1>7, <1>20, <3>2 DEF CompressGroup, Keep
  <2>3. CASE Work("group", loop.todo \ {g}, AfterCompress)
    <3>1. OfLoop
      BY <1>9, <1>11, <2>3
    <3> QED
      BY <1>5, <1>7, <1>20, <3>1 DEF CompressGroup, Keep
  <2> QED
    BY <2>1, <2>2, <2>3
<1>21. CASE FoldCount \/ FoldPin \/ FoldStrip
  <2>1. /\ loop'.last = loop.last /\ loop'.count = loop.count /\ loop'.cycle = loop.cycle
        /\ loop'.group \subseteq loop.group
        /\ loop'.pc \in {"dup", "strip", "backfill", "resilience", "group"}
    <3>1. CASE FoldCount \/ FoldPin
      BY <3>1 DEF FoldCount, FoldPin, IInv, Shape, LoopFields
    <3>2. CASE FoldStrip
      <4>1. PICK rest \in SUBSET loop.group :
               \/ loop' = [loop EXCEPT !.pc = "dup", !.group = rest]
               \/ loop' = [loop EXCEPT !.pc = IF loop.todo = {} THEN AfterCompress ELSE "group",
                                       !.group = {}]
        BY <3>2 DEF FoldStrip
      <4> QED
        BY <1>11, <4>1 DEF IInv, Shape, LoopFields
    <3> QED
      BY <1>21, <3>1, <3>2
  <2>2. loop'.group \subseteq Ids
    BY <1>4, <2>1
  <2>3. OfLoop
    BY <1>8, <2>1, <2>2
  <2> QED
    BY <1>5, <1>7, <1>21, <2>3 DEF FoldCount, FoldPin, FoldStrip, Keep
<1>22. CASE BackfillRead
  <2>1. Work("embed", Window, "seed") /\ Window \subseteq Ids
    BY <1>22 DEF BackfillRead, Window, Missing, Live
  <2>2. OfLoop
    BY <1>9, <2>1
  <2> QED
    BY <1>5, <1>7, <1>22, <2>2 DEF BackfillRead, Keep
<1>23. CASE BackfillNext
  <2>1. Work("embed", loop.todo \ {Min(loop.todo)}, "seed") /\ loop.todo \subseteq Ids
    BY <1>23 DEF BackfillNext, Lists
  <2>2. OfLoop
    BY <1>9, <2>1
  <2> QED
    BY <1>5, <1>7, <1>23, <2>2 DEF BackfillNext, Keep
<1>24. CASE Seed \/ PassFails
  <2>1. ASSUME NEW pc \in {"compress", "seed", "resilience"}, Goto(pc) PROVE OfLoop
    <3>1. /\ loop'.last = loop.last /\ loop'.count = loop.count /\ loop'.cycle = loop.cycle
          /\ loop'.group = loop.group /\ loop'.pc = pc
      BY <2>1, GoneTo
    <3> QED
      BY <1>4, <1>8, <3>1
  <2>2. ASSUME loop' = [loop EXCEPT !.pc = "compress", !.count = 0, !.train = FALSE] PROVE OfLoop
    <3>1. /\ loop'.last = loop.last /\ loop'.count = 0 /\ loop'.cycle = loop.cycle
          /\ loop'.group = loop.group /\ loop'.pc = "compress"
      BY <2>2 DEF IInv, Shape, LoopFields
    <3> QED
      BY <1>2, <1>4, <3>1 DEF OfLoop
  <2>3. ASSUME loop.pc = "embed", Work("embed", loop.todo \ {Min(loop.todo)}, "seed") PROVE OfLoop
    BY <1>9, <2>3 DEF Lists
  <2>4. OfLoop
    BY <1>24, <2>1, <2>2, <2>3 DEF Seed, PassFails
  <2> QED
    BY <1>5, <1>7, <1>24, <2>4 DEF Seed, PassFails, Keep
<1>25. CASE CliStart \/ CliExit
  <2>1. cli'.pc \in {"read", "off"} /\ DOMAIN cli' = CliFields
    BY <1>25 DEF CliStart, CliExit, NoCli, CliFields
  <2> QED
    BY <1>5, <1>6, <1>25, <2>1 DEF OfCli, CliStart, CliExit
<1>26. CASE CliRead
  <2>1. /\ DOMAIN cli' = CliFields /\ cli'.todo = Window
        /\ cli'.pc = "embed" => Window # {}
    BY <1>26 DEF CliRead, Lists, CliFields
  <2>2. Window \subseteq Ids
    BY DEF Window, Missing, Live
  <2> QED
    BY <1>2, <1>5, <1>6, <1>26, <2>1, <2>2 DEF OfCli, CliRead
<1>27. CASE CliNext
  <2>1. cli.todo \subseteq Ids
    BY <1>27 DEF CliNext, Lists
  <2>2. /\ DOMAIN cli' = CliFields
        /\ cli'.todo = cli.todo \ {Min(cli.todo)}
        /\ cli'.pc = "embed" => cli.todo # {Min(cli.todo)}
    BY <1>27 DEF CliNext, AfterRow, Lists, CliFields
  <2>3. cli.todo # {}
    BY <1>27 DEF CliNext, Lists
  <2> QED
    BY <1>2, <1>5, <1>6, <1>27, <2>1, <2>2, <2>3 DEF OfCli, CliNext
<1>28. CASE CliFails
  <2>1. CASE cli' = [NoCli EXCEPT !.pc = "done", !.blind = TRUE]
    <3>1. DOMAIN cli' = CliFields /\ cli'.pc = "done"
      BY <2>1 DEF NoCli, CliFields
    <3> QED
      BY <1>5, <1>6, <1>28, <3>1 DEF OfCli, CliFails
  <2>2. CASE /\ cli.pc = "embed"
             /\ cli' = [cli EXCEPT !.todo = @ \ {Min(cli.todo)}, !.failed = @ \cup {Min(cli.todo)},
                                   !.pc = AfterRow(Min(cli.todo), cli.wrote)]
    <3>1. cli.todo \subseteq Ids /\ cli.todo # {}
      BY <2>2 DEF Lists
    <3>2. /\ DOMAIN cli' = CliFields
          /\ cli'.todo = cli.todo \ {Min(cli.todo)}
          /\ cli'.pc = "embed" => cli.todo # {Min(cli.todo)}
      BY <2>2 DEF AfterRow, Lists, CliFields
    <3> QED
      BY <1>2, <1>5, <1>6, <1>28, <3>1, <3>2 DEF OfCli, CliFails
  <2> QED
    BY <1>28, <2>1, <2>2 DEF CliFails
<1>29. CASE Ingest \/ User \/ UNCHANGED vars
  BY <1>5, <1>6, <1>7, <1>29 DEF Ingest, User, vars
<1> QED
  BY <1>12, <1>13, <1>14, <1>15, <1>16, <1>17, <1>18, <1>19, <1>20, <1>21, <1>22, <1>23, <1>24,
     <1>25, <1>26, <1>27, <1>28, <1>29 DEF Next, Resident, Operator

\* SomeCopySurvives for every instance: every pass, in whatever order it works
\* and whatever it read before, points a duplicate to an older episode, so the
\* oldest of any set of duplicates points out of it.
THEOREM CopiesSurvive == Spec => []SomeCopySurvives
<1>1. Tables => SomeCopySurvives
  <2> SUFFICES ASSUME Tables, NEW S \in (SUBSET Marked) \ {{}}
               PROVE  \E e \in S : episodes[e].pin.into \notin S
    BY DEF SomeCopySurvives
  <2>1. Marked \subseteq Ids /\ Ids \subseteq Nat
    BY IdsOf DEF Marked, Live
  <2>2. Min(S) \in S /\ \A y \in S : Min(S) <= y
    BY <2>1, Smallest
  <2>3. Min(S) \in Ids /\ Min(S) \in Nat
    BY <2>1, <2>2
  <2>4. episodes[Min(S)].pin.into < Min(S) /\ episodes[Min(S)].pin.into \in Nat
    BY <2>3, RowIn, RowOf DEF Tables
  <2>5. episodes[Min(S)].pin.into \notin S
    BY <2>2, <2>3, <2>4
  <2> QED
    BY <2>2, <2>5
<1>2. IInv /\ Tables /\ Lists /\ [Next]_vars => (IInv /\ Tables /\ Lists)'
  BY AuditStep, TablesStep, ListsStep
<1> QED
  BY <1>1, <1>2, AuditInit, ListsInit, PTL DEF Spec

-----------------------------------------------------------------------------
(* `soma backfill`.                                                         *)

\* A window is the oldest that miss a vector: all of them, or as many as fit.
LEMMA WindowFits ==
    ASSUME Tables
    PROVE  /\ Cardinality(Window) <= BackfillCap
           /\ Cardinality(Window) = BackfillCap \/ Window = Missing
<1> DEFINE Before(e) == {f \in Missing : f < e}
<1>1. /\ Window \subseteq Missing /\ Missing \subseteq Ids /\ IsFiniteSet(Ids)
      /\ Ids = 1 .. Len(episodes) /\ Len(episodes) \in Nat
  BY IdsOf DEF Window, Missing, Live
<1>2. IsFiniteSet(Missing) /\ IsFiniteSet(Window) /\ \A e : IsFiniteSet(Before(e))
  BY <1>1, FS_Subset
<1>3. Cardinality(Window) \in Nat /\ \A e : Cardinality(Before(e)) \in Nat
  BY <1>2, FS_CardinalityType
<1>4. \A e \in Missing : e \in Window <=> Cardinality(Before(e)) < BackfillCap
  BY DEF Window
<1> HIDE DEF Before
<1>5. Cardinality(Window) <= BackfillCap
  <2>1. CASE Window = {}
    BY <2>1, FS_EmptySet, LoopAssumption
  <2>2. CASE Window # {}
    <3> DEFINE Ages == {Len(episodes) - e : e \in Window}
    <3>1. Ages \in SUBSET Nat /\ Ages # {}
      <4>1. \A e \in Window : Len(episodes) - e \in Nat
        BY <1>1
      <4> QED
        BY <2>2, <4>1
    <3>2. Min(Ages) \in Ages /\ \A y \in Ages : Min(Ages) <= y
      <4> HIDE DEF Ages
      <4> QED
        BY <3>1, Smallest
    <3>3. PICK m \in Window : \A e \in Window : Len(episodes) - m <= Len(episodes) - e
      BY <3>2
    <3>4. Window \ {m} \subseteq Before(m)
      <4>1. \A e \in Window : e \in Nat /\ m \in Nat
        BY <1>1
      <4> QED
        BY <1>1, <3>3, <4>1 DEF Before
    <3>5. Cardinality(Window \ {m}) <= Cardinality(Before(m))
      BY <1>2, <3>4, FS_Subset
    <3>6. Cardinality(Window \ {m}) = Cardinality(Window) - 1
      BY <1>2, <3>3, FS_RemoveElement
    <3>7. Cardinality(Before(m)) < BackfillCap
      BY <1>1, <1>4, <3>3
    <3> QED
      BY <1>3, <3>5, <3>6, <3>7, LoopAssumption
  <2> QED
    BY <2>1, <2>2
<1>6. ASSUME Window # Missing PROVE Cardinality(Window) = BackfillCap
  <2> DEFINE Rest == Missing \ Window
  <2>1. Rest \in SUBSET Nat /\ Rest # {}
    <3>1. Missing \subseteq Nat
      BY <1>1
    <3>2. Missing \ Window # {}
      BY <1>1, <1>6
    <3> QED
      BY <3>1, <3>2
  <2>2. Min(Rest) \in Rest /\ \A y \in Rest : Min(Rest) <= y
    BY <2>1, Smallest
  <2>3. PICK m \in Rest : \A y \in Rest : m <= y
    BY <2>2
  <2>4. Before(m) \subseteq Window
    <3>1. ASSUME NEW f \in Missing, f < m PROVE f \in Window
      <4>1. f \in Nat /\ m \in Nat /\ ~(m <= f)
        BY <1>1, <3>1
      <4> QED
        BY <2>3, <3>1, <4>1
    <3> QED
      BY <3>1 DEF Before
  <2>5. Cardinality(Before(m)) <= Cardinality(Window)
    BY <1>2, <2>4, FS_Subset
  <2>6. ~(Cardinality(Before(m)) < BackfillCap)
    BY <1>4, <2>3
  <2> QED
    BY <1>3, <1>5, <2>5, <2>6, LoopAssumption
<1> QED
  BY <1>5, <1>6

\* What the command knows of its last window: of the rows it is done with only
\* those it failed to write still want a vector.  A read that fails ends it.
Backfilled ==
    /\ cli.pc \in {"off", "read", "embed", "done"}
    /\ cli.window \subseteq Ids /\ cli.todo \subseteq cli.window
    /\ Cardinality(cli.window) <= BackfillCap
    /\ cli.seen \in 0 .. Len(episodes)
    /\ cli.pc \in {"embed", "done"} /\ ~cli.blind =>
         /\ (cli.window \ cli.todo) \cap ToEmbed \subseteq cli.failed
         /\ Cardinality(cli.window) = BackfillCap \/ (1 .. cli.seen) \cap Missing \subseteq cli.window
    /\ cli.pc = "done" => cli.todo = {} /\ ~cli.wrote

\* An episode with a vector, or forgotten, never misses one again.
LEMMA FewerMissing ==
    ASSUME Tables, Tables', Grown, vectors \subseteq vectors'
    PROVE  /\ Ids \subseteq Ids'
           /\ Missing' \cap Ids \subseteq Missing /\ ToEmbed' \cap Ids \subseteq ToEmbed
<1>1. Ids \subseteq Ids'
  <2>1. Ids = 1 .. Len(episodes) /\ Len(episodes) \in Nat
    BY IdsOf
  <2>2. episodes' \in Seq(Row)
    BY DEF Tables
  <2>3. Ids' = 1 .. Len(episodes') /\ Len(episodes') \in Nat
    BY <2>2 DEF Ids
  <2> QED
    BY <2>1, <2>3 DEF Grown
<1>2. Missing' \cap Ids \subseteq Missing
  BY DEF Missing, Live, Grown
<1>3. \A e \in Ids : Embeds(e)' <=> Embeds(e)
  BY DEF Embeds, TextOf, Grown
<1> QED
  BY <1>1, <1>2, <1>3 DEF ToEmbed

LEMMA BackfilledInit == Init => Backfilled
BY LoopAssumption, FS_EmptySet DEF Init, StoreInit, NoCli, Backfilled, Ids

LEMMA BackfilledStep == IInv /\ Tables /\ Lists /\ Backfilled /\ [Next]_vars => Backfilled'
<1> SUFFICES ASSUME IInv, Tables, Lists, Backfilled, [Next]_vars PROVE Backfilled'
  OBVIOUS
<1>1. Tables' /\ Grown
  BY TablesStep
<1>2. /\ Len(episodes) \in Nat /\ Len(episodes') \in Nat /\ Len(episodes) <= Len(episodes')
      /\ Ids = 1 .. Len(episodes) /\ Ids' = 1 .. Len(episodes')
  <2>1. episodes' \in Seq(Row)
    BY <1>1 DEF Tables
  <2> QED
    BY <1>1, <2>1, IdsOf DEF Grown, Ids
\* The others: they only add vectors, an upgrade finds the command not running.
<1>3. ASSUME UNCHANGED cli, vectors \subseteq vectors' \/ cli.pc = "off" PROVE Backfilled'
  <2>1. /\ cli'.window \subseteq Ids' /\ cli'.todo \subseteq cli'.window
        /\ Cardinality(cli'.window) <= BackfillCap /\ cli'.seen \in 0 .. Len(episodes')
    BY <1>2, <1>3 DEF Backfilled
  <2>2. CASE cli.pc \in {"off", "read"}
    BY <1>3, <2>1, <2>2 DEF Backfilled
  <2>3. CASE cli.pc \in {"embed", "done"}
    <3>1. Missing' \cap Ids \subseteq Missing /\ ToEmbed' \cap Ids \subseteq ToEmbed
      BY <1>1, <1>3, <2>3, FewerMissing
    <3>2. 1 .. cli.seen \subseteq Ids /\ cli.window \subseteq Ids
      BY <1>2 DEF Backfilled
    <3>3. ~cli'.blind => (cli'.window \ cli'.todo) \cap ToEmbed' \subseteq cli'.failed
      BY <1>3, <2>3, <3>1, <3>2 DEF Backfilled
    <3>4. \/ cli'.blind
          \/ Cardinality(cli'.window) = BackfillCap
          \/ (1 .. cli'.seen) \cap Missing' \subseteq cli'.window
      BY <1>3, <2>3, <3>1, <3>2 DEF Backfilled
    <3> QED
      BY <1>3, <2>1, <3>3, <3>4 DEF Backfilled
  <2> QED
    BY <2>2, <2>3 DEF Backfilled
<1>4. CASE CliStart \/ CliExit
  <2>1. /\ cli'.window = {} /\ cli'.todo = {} /\ cli'.seen = 0
        /\ cli'.pc \in {"off", "read"}
    BY <1>4 DEF CliStart, CliExit, NoCli
  <2> QED
    BY <1>2, <2>1, LoopAssumption, FS_EmptySet DEF Backfilled
<1>5. CASE CliRead
  <2>1. /\ cli'.window = Window /\ cli'.todo = Window /\ cli'.seen = Len(episodes)
        /\ cli'.pc = (IF Window = {} THEN "done" ELSE "embed") /\ cli'.wrote = FALSE
        /\ UNCHANGED <<episodes, vectors>>
    BY <1>5 DEF CliRead, Lists, CliFields, store
  <2>2. Window \subseteq Ids /\ Cardinality(Window) <= BackfillCap
    BY WindowFits DEF Window, Missing, Live
  <2>3. Missing' = Missing
    BY <2>1 DEF Missing, Live, Ids
  <2>4. Cardinality(Window) = BackfillCap \/ (1 .. Len(episodes)) \cap Missing' \subseteq Window
    BY <2>3, WindowFits
  <2> HIDE DEF Window
  <2>5. cli'.pc \in {"embed", "done"} /\ (cli'.pc = "done" => cli'.todo = {} /\ ~cli'.wrote)
    BY <2>1
  <2>6. Len(episodes) \in 0 .. Len(episodes')
    BY <1>2
  <2>7. cli'.window \subseteq Ids' /\ cli'.window \ cli'.todo = {}
    BY <1>2, <2>1, <2>2
  <2> QED
    BY <2>1, <2>2, <2>4, <2>5, <2>6, <2>7 DEF Backfilled
<1>6. CASE CliNext
  <2> DEFINE e == Min(cli.todo)
             new == Embeddable(e)
  <2>1. cli.pc = "embed" /\ cli.todo \subseteq Ids /\ cli.todo # {} /\ Embed(e)
    BY <1>6 DEF CliNext, Lists
  <2>2. e \in cli.todo /\ vectors \subseteq vectors'
    BY <2>1, Embedded
  <2>3. /\ cli'.window = cli.window /\ cli'.todo = cli.todo \ {e} /\ cli'.seen = cli.seen
        /\ cli'.wrote = (cli.wrote \/ new) /\ cli'.failed = cli.failed /\ cli'.blind = cli.blind
        /\ cli'.pc = (IF cli.todo # {e} THEN "embed"
                      ELSE IF Again(cli.wrote \/ new) THEN "read" ELSE "done")
    BY <1>6 DEF CliNext, AfterRow, Lists, CliFields
  <2>4. /\ Missing' \cap Ids \subseteq Missing /\ ToEmbed' \cap Ids \subseteq ToEmbed
    BY <1>1, <2>2, FewerMissing
  <2>5. e \notin ToEmbed'
    <3>1. e \in ToEmbed' => e \in ToEmbed
      BY <2>1, <2>2, <2>4
    <3>2. e \in ToEmbed => e \in vectors'
      BY <2>1 DEF ToEmbed, Embed, Embeddable, Rows
    <3> QED
      BY <3>1, <3>2 DEF ToEmbed, Missing
  <2> HIDE DEF e, new
  <2>6. ~cli'.blind => (cli'.window \ cli'.todo) \cap ToEmbed' \subseteq cli'.failed
    BY <2>1, <2>3, <2>4, <2>5 DEF Backfilled
  <2>7. 1 .. cli.seen \subseteq Ids
    BY <1>2 DEF Backfilled
  <2>8. \/ cli'.blind
        \/ Cardinality(cli'.window) = BackfillCap
        \/ (1 .. cli'.seen) \cap Missing' \subseteq cli'.window
    BY <2>1, <2>3, <2>4, <2>7 DEF Backfilled
  <2>9. cli'.pc = "done" => cli'.todo = {} /\ ~cli'.wrote
    BY <2>3 DEF Again
  <2>10. /\ cli'.window \subseteq Ids' /\ cli'.todo \subseteq cli'.window
         /\ Cardinality(cli'.window) <= BackfillCap /\ cli'.seen \in 0 .. Len(episodes')
    BY <1>2, <2>3 DEF Backfilled
  <2>11. cli'.pc \in {"read", "embed", "done"}
    BY <2>3
  <2> QED
    BY <2>6, <2>8, <2>9, <2>10, <2>11 DEF Backfilled
<1>7. CASE BackfillNext
  <2>1. vectors \subseteq vectors'
    BY <1>7, Embedded DEF BackfillNext, Lists
  <2> QED
    BY <1>3, <1>7, <2>1 DEF BackfillNext, Keep
<1>8. CASE Ingest
  <2>1. vectors \subseteq vectors' /\ UNCHANGED cli
    <3>1. ASSUME NEW k \in Kinds, Capture(k) PROVE vectors \subseteq vectors'
      BY <3>1 DEF Capture
    <3>2. WireEdges \/ PinSalient \/ StampSignature => vectors' = vectors
      BY DEF WireEdges, PinSalient, StampSignature
    <3>3. ASSUME NEW t \in Corrections, RecordCorrection(t) PROVE vectors \subseteq vectors'
      BY <3>3 DEF RecordCorrection
    <3> QED
      BY <1>8, <3>1, <3>2, <3>3 DEF Ingest
  <2> QED
    BY <1>3, <2>1
<1>9. CASE User
  BY <1>3, <1>9 DEF User, KillIngest, Forget, store
<1>10. CASE Boot \/ Gate \/ MergeRead \/ CompressRead \/ CompressGroup \/ BackfillRead
            \/ Resilience \/ KillLoop
  <2>1. UNCHANGED <<vectors, cli>>
    BY <1>10 DEF Boot, Gate, MergeRead, CompressRead, CompressGroup, BackfillRead, Resilience,
       KillLoop, Keep, store
  <2> QED
    BY <1>3, <2>1
<1>11. CASE PinNext \/ PinEdge \/ FoldCount \/ FoldPin \/ FoldStrip \/ ScanNext \/ Seed
            \/ PassFails
  <2>1. UNCHANGED <<vectors, cli>>
    BY <1>11 DEF PinNext, PinEdge, FoldCount, FoldPin, FoldStrip, ScanNext, Seed, PassFails, Keep
  <2> QED
    BY <1>3, <2>1
<1>12. CASE CliFails
  <2>1. UNCHANGED <<episodes, vectors>>
    BY <1>12 DEF CliFails, store
  <2>2. ToEmbed' = ToEmbed /\ Missing' = Missing
    BY <2>1 DEF ToEmbed, Missing, Live, Ids, Embeds, TextOf
  <2>3. CASE cli' = [NoCli EXCEPT !.pc = "done", !.blind = TRUE]
    <3>1. /\ cli'.window = {} /\ cli'.todo = {} /\ cli'.seen = 0 /\ cli'.pc = "done"
          /\ cli'.blind /\ ~cli'.wrote
      BY <2>3 DEF NoCli
    <3> QED
      BY <1>2, <3>1, LoopAssumption, FS_EmptySet DEF Backfilled
  <2>4. CASE /\ cli.pc = "embed"
             /\ cli' = [cli EXCEPT !.todo = @ \ {Min(cli.todo)}, !.failed = @ \cup {Min(cli.todo)},
                                   !.pc = AfterRow(Min(cli.todo), cli.wrote)]
    <3> DEFINE e == Min(cli.todo)
    <3>1. /\ cli'.window = cli.window /\ cli'.todo = cli.todo \ {e} /\ cli'.seen = cli.seen
          /\ cli'.wrote = cli.wrote /\ cli'.failed = cli.failed \cup {e} /\ cli'.blind = cli.blind
          /\ cli'.pc = (IF cli.todo # {e} THEN "embed" ELSE IF Again(cli.wrote) THEN "read" ELSE "done")
      BY <2>4 DEF AfterRow, Lists, CliFields
    <3> HIDE DEF e
    <3>2. ~cli'.blind => (cli'.window \ cli'.todo) \cap ToEmbed' \subseteq cli'.failed
      BY <2>2, <2>4, <3>1 DEF Backfilled
    <3>3. \/ cli'.blind
          \/ Cardinality(cli'.window) = BackfillCap
          \/ (1 .. cli'.seen) \cap Missing' \subseteq cli'.window
      BY <2>2, <2>4, <3>1 DEF Backfilled
    <3>4. cli'.pc = "done" => cli'.todo = {} /\ ~cli'.wrote
      BY <3>1 DEF Again
    <3>5. /\ cli'.window \subseteq Ids' /\ cli'.todo \subseteq cli'.window
          /\ Cardinality(cli'.window) <= BackfillCap /\ cli'.seen \in 0 .. Len(episodes')
      BY <1>2, <3>1 DEF Backfilled
    <3>6. cli'.pc \in {"read", "embed", "done"}
      BY <3>1
    <3> QED
      BY <3>2, <3>3, <3>4, <3>5, <3>6 DEF Backfilled
  <2> QED
    BY <1>12, <2>3, <2>4 DEF CliFails
<1>13. CASE UNCHANGED vars
  BY <1>3, <1>13 DEF vars, store
<1> QED
  BY <1>4, <1>5, <1>6, <1>7, <1>8, <1>9, <1>10, <1>11, <1>12, <1>13 DEF Next, Resident, Operator

\* BackfillTellsTruth for every instance: whatever is captured, forgotten or
\* embedded by the slow loop while `soma backfill` runs, an episode it saw and
\* left without a vector is one whose write failed or was outside a full last
\* window that wrote nothing, unless the last read failed.
THEOREM BackfillHolds == Spec => []BackfillTellsTruth
<1>1. Backfilled => BackfillTellsTruth
  <2> SUFFICES ASSUME Backfilled, cli.pc = "done", ~cli.blind PROVE BackfillTellsTruth
    BY DEF BackfillTellsTruth
  <2>1. cli.window \cap ToEmbed \subseteq cli.failed
    BY DEF Backfilled
  <2>2. ToEmbed \subseteq Missing
    BY DEF ToEmbed
  <2> QED
    BY <2>1, <2>2 DEF Backfilled, BackfillTellsTruth
<1>2. IInv /\ Tables /\ Lists /\ Backfilled /\ [Next]_vars => (IInv /\ Tables /\ Lists /\ Backfilled)'
  BY AuditStep, TablesStep, ListsStep, BackfilledStep
<1> QED
  BY <1>1, <1>2, AuditInit, ListsInit, BackfilledInit, PTL DEF Spec

\* Type correctness for every instance: rows of the declared shape, tables that
\* refer to rows there are, windows within their limit.
THEOREM TypeCorrect == Spec => []TypeOK
<1>1. Tables /\ Lists /\ Backfilled => TypeOK
  <2> SUFFICES ASSUME Tables, Lists, Backfilled PROVE TypeOK
    OBVIOUS
  <2>1. ASSUME NEW e \in Ids
        PROVE  /\ episodes[e].live \in BOOLEAN /\ episodes[e].count \in 1 .. MaxEpisodes
               /\ episodes[e].pin.into \in 0 .. Len(episodes)
    <3>1. /\ episodes[e].live \in BOOLEAN /\ episodes[e].count \in 1 .. MaxEpisodes
          /\ episodes[e].pin.into \in Nat
      BY RowIn, RowOf
    <3>2. episodes[e].pin.into < e /\ e \in 1 .. Len(episodes) /\ Len(episodes) \in Nat
      BY IdsOf DEF Tables
    <3>3. episodes[e].pin.into \in 0 .. Len(episodes)
      BY <3>1, <3>2
    <3> QED
      BY <3>1, <3>3
  <2>2. \A p \in edges \cup beliefs : p[1] \in Ids /\ p[2] \in Ids /\ p[1] < p[2]
    BY DEF Tables, Pair
  <2> QED
    BY <2>1, <2>2 DEF TypeOK, Tables, Lists, Backfilled
<1>2. IInv /\ Tables /\ Lists /\ Backfilled /\ [Next]_vars => (IInv /\ Tables /\ Lists /\ Backfilled)'
  BY AuditStep, TablesStep, ListsStep, BackfilledStep
<1> QED
  BY <1>1, <1>2, AuditInit, ListsInit, BackfilledInit, PTL DEF Spec

-----------------------------------------------------------------------------
(* The gate.                                                                *)

Training == {"merge", "pin", "via_edges", "backfill", "embed", "seed"}

\* With so many episodes there is nothing to seed.
Caught(n) == Len(episodes) = n => Seedable = {} \/ moved

\* A cycle that is done with seeding, or was let pass by the gate, has caught
\* up with the episodes it counted, and so has the resident between cycles.
Gated ==
    /\ ~loop.train => loop.pc \notin Training
    /\ loop.pc = "idle" /\ loop.last >= 0 => Caught(loop.last)
    /\ loop.pc \notin {"off", "idle"} /\ (~loop.train \/ loop.pc \in {"resilience", "scan"})
         => Caught(loop.count)

\* What can be seeded depends on kinds, vectors and beliefs alone.
LEMMA SeedableStands ==
    ASSUME Tables, Rewrites, vectors' = vectors, beliefs \subseteq beliefs'
    PROVE  Seedable' \subseteq Seedable /\ Len(episodes') = Len(episodes)
<1>1. Len(episodes') = Len(episodes) /\ Ids' = Ids
  <2>1. Ids' = 1 .. Len(episodes')
    BY DEF Rewrites, Ids
  <2> QED
    BY <2>1, IdsOf DEF Rewrites
<1>2. Live' = Live
  BY <1>1 DEF Rewrites, Live
<1>3. ASSUME NEW a \in Ids, NEW b \in Ids
      PROVE  /\ Near(BeliefAt, a, b)' <=> Near(BeliefAt, a, b)
             /\ BeliefKind(a, b)' = BeliefKind(a, b)
  <2>1. episodes'[a].kind = episodes[a].kind /\ episodes'[b].kind = episodes[b].kind
    BY DEF Rewrites
  <2> QED
    BY <2>1 DEF Near, Distance, TextOf, BeliefAt, BeliefKind
<1> DEFINE recent == {e \in Live : Cardinality({f \in Live : f > e}) < BeliefWindow}
           pairs == {p \in (recent \cap vectors) \X (recent \cap vectors) :
                       Near(BeliefAt, p[1], p[2])}
           new == {<<p[1], p[2], BeliefKind(p[1], p[2])>> : p \in pairs}
<1>4. recent' = recent /\ recent \subseteq Ids
  BY <1>2 DEF Live
<1> HIDE DEF recent
<1>5. pairs' = pairs /\ \A p \in pairs : p[1] \in Ids /\ p[2] \in Ids
  BY <1>3, <1>4
<1> HIDE DEF pairs
<1>6. new' = new
  BY <1>3, <1>5
<1>7. Seedable = new \ beliefs /\ Seedable' = new' \ beliefs'
  BY DEF Seedable, new, pairs, recent
<1> HIDE DEF new
<1> QED
  BY <1>1, <1>6, <1>7

\* A gate that finds no new episode.
LEMMA GateShuts ==
    ASSUME Tables, Lists, Gated, loop.pc = "idle", ~(Delta > 0)
    PROVE  Seedable = {} \/ moved
<1>1. Len(episodes) \in Nat /\ Ids = 1 .. Len(episodes)
  BY IdsOf
<1>2. loop.last \in -1 .. Len(episodes)
  BY DEF Lists
<1>3. CASE loop.last < 0
  <2>1. Len(episodes) = 0
    BY <1>1, <1>3 DEF Delta
  <2>2. Live = {}
    BY <1>1, <2>1 DEF Live
  <2> QED
    BY <2>2 DEF Seedable
<1>4. CASE loop.last >= 0
  <2>1. ~(Len(episodes) > loop.last)
    BY <1>1, <1>2, <1>4 DEF Delta
  <2>2. Len(episodes) = loop.last
    BY <1>1, <1>2, <2>1
  <2> QED
    BY <1>4, <2>2 DEF Gated, Caught
<1> QED
  BY <1>2, <1>3, <1>4

LEMMA GatedInit == Init => Gated
BY DEF Init, Off, Gated, Training

LEMMA GatedStep == IInv /\ Tables /\ Lists /\ Gated /\ [Next]_vars => Gated'
<1> SUFFICES ASSUME IInv, Tables, Lists, Gated, [Next]_vars PROVE Gated'
  OBVIOUS
<1>1. Tables' /\ Grown
  BY TablesStep
<1>2. /\ Len(episodes) \in Nat /\ loop.last \in -1 .. Len(episodes)
      /\ loop.count \in 0 .. Len(episodes)
  BY IdsOf DEF Lists
<1> DEFINE Holds == \A n \in 0 .. Len(episodes) : Caught(n) => Caught(n)'
<1>3. ASSUME Len(episodes) < Len(episodes') \/ moved' PROVE Holds
  <2>1. Len(episodes') \in Nat
    <3>1. episodes' \in Seq(Row)
      BY <1>1 DEF Tables
    <3> QED
      BY <3>1
  <2> QED
    BY <1>2, <1>3, <2>1 DEF Caught
<1>4. ASSUME vectors' = vectors, beliefs \subseteq beliefs', moved => moved' PROVE Holds
  <2>1. CASE Rewrites
    <3>1. Seedable' \subseteq Seedable /\ Len(episodes') = Len(episodes)
      BY <1>4, <2>1, SeedableStands
    <3> QED
      BY <1>4, <3>1 DEF Caught
  <2>2. CASE Len(episodes) < Len(episodes') \/ moved'
    BY <1>3, <2>2
  <2> QED
    BY <1>1, <2>1, <2>2 DEF Grown
<1> HIDE DEF Holds
\* The loop stands still,
<1>5. ASSUME Holds, UNCHANGED loop PROVE Gated'
  <2>1. loop.last >= 0 => (Caught(loop.last) => Caught(loop.last)')
    BY <1>2, <1>5 DEF Holds, Caught
  <2>2. Caught(loop.count) => Caught(loop.count)'
    BY <1>2, <1>5 DEF Holds, Caught
  <2> QED
    BY <1>5, <2>1, <2>2 DEF Gated
\* goes on within a cycle that trains and has not seeded yet,
<1>6. ASSUME loop.train, loop'.train = loop.train,
             loop'.pc \notin {"off", "idle", "resilience", "scan"}
      PROVE  Gated'
  BY <1>6 DEF Gated
\* or within a cycle that does not train or has seeded.
<1>7. ASSUME Holds, loop.pc \notin {"off", "idle"}, loop'.pc \notin Training \cup {"off", "idle"},
             loop'.train = loop.train, loop'.count = loop.count,
             ~loop.train \/ loop.pc \in {"resilience", "scan"}
      PROVE  Gated'
  <2>1. Caught(loop.count)
    BY <1>7 DEF Gated
  <2>2. Caught(loop.count)'
    BY <1>2, <1>7, <2>1 DEF Holds, Caught
  <2> QED
    BY <1>7, <2>2 DEF Gated
<1>8. loop.pc \in Training => loop.train
  BY DEF Gated
<1>9. AfterCompress = IF loop.train THEN "backfill" ELSE "resilience"
  BY DEF AfterCompress
\* The steps of the compression.
<1>10. ASSUME vectors' = vectors, beliefs' = beliefs, moved' = moved,
              loop.pc \in {"compress", "group", "fold", "dup", "strip"},
              loop'.pc \in {"group", "fold", "dup", "strip", AfterCompress},
              loop'.train = loop.train, loop'.count = loop.count
       PROVE  Gated'
  <2>1. Holds
    BY <1>4, <1>10
  <2>2. CASE loop.train
    BY <1>6, <1>9, <1>10, <2>2
  <2>3. CASE ~loop.train
    BY <1>7, <1>9, <1>10, <2>1, <2>3 DEF Training
  <2> QED
    BY <2>2, <2>3
<1>11. CASE Boot
  BY <1>11 DEF Boot, Off, Gated, Training
<1>12. CASE KillLoop
  BY <1>12 DEF KillLoop, Off, Gated, Training
<1>13. CASE Gate
  <2>1. /\ loop'.count = Len(episodes) /\ loop'.train = (Delta > 0)
        /\ loop'.pc = (IF Delta > 0 THEN "merge" ELSE "compress")
        /\ UNCHANGED <<episodes, vectors, beliefs, moved>>
    BY <1>13 DEF Gate, IInv, Shape, LoopFields, store
  <2>2. CASE Delta > 0
    BY <2>1, <2>2 DEF Gated
  <2>3. CASE ~(Delta > 0)
    <3>1. Seedable = {} \/ moved
      BY <1>13, <2>3, GateShuts DEF Gate
    <3>2. Holds
      BY <1>4, <2>1
    <3>3. Caught(Len(episodes))
      BY <3>1 DEF Caught
    <3>4. Caught(loop.count)'
      BY <1>2, <2>1, <3>2, <3>3 DEF Holds, Caught
    <3> QED
      BY <2>1, <2>3, <3>4 DEF Gated, Training
  <2> QED
    BY <2>2, <2>3
<1>14. CASE MergeRead \/ PinNext \/ PinEdge \/ BackfillRead \/ BackfillNext
  <2>1. loop.train
    BY <1>8, <1>14 DEF MergeRead, PinNext, PinEdge, BackfillRead, BackfillNext, Training
  <2>2. PICK pc \in {"pin", "via_edges", "embed"} : \E todo : \E after \in {"compress", "seed"} :
           Work(pc, todo, after)
    BY <1>14 DEF MergeRead, PinNext, PinEdge, BackfillRead, BackfillNext
  <2>3. loop'.train = loop.train /\ loop'.pc \in {"pin", "via_edges", "embed", "compress", "seed"}
    BY <2>2, WorkTo
  <2> QED
    BY <1>6, <2>1, <2>3
<1>15. CASE CompressRead
  <2>1. PICK todo : Work("group", todo, AfterCompress)
    BY <1>15 DEF CompressRead
  <2>2. /\ loop'.pc \in {"group", AfterCompress} /\ loop'.train = loop.train
        /\ loop'.count = loop.count
    BY <2>1, WorkTo
  <2> QED
    BY <1>10, <1>15, <2>2 DEF CompressRead, store
<1>16. CASE CompressGroup
  <2>1. PICK g \in loop.todo :
           \/ loop' = [loop EXCEPT !.todo = loop.todo \ {g}, !.group = g \cap Rows, !.pc = "fold"]
           \/ Work("group", loop.todo \ {g}, AfterCompress)
    BY <1>16 DEF CompressGroup
  <2>2. /\ loop'.pc \in {"fold", "group", AfterCompress} /\ loop'.train = loop.train
        /\ loop'.count = loop.count
    <3>1. CASE loop' = [loop EXCEPT !.todo = loop.todo \ {g}, !.group = g \cap Rows, !.pc = "fold"]
      BY <3>1 DEF IInv, Shape, LoopFields
    <3>2. CASE Work("group", loop.todo \ {g}, AfterCompress)
      BY <3>2, WorkTo
    <3> QED
      BY <2>1, <3>1, <3>2
  <2> QED
    BY <1>10, <1>16, <2>2 DEF CompressGroup, store
<1>17. CASE FoldCount \/ FoldPin \/ FoldStrip
  <2>1. /\ loop'.pc \in {"group", "dup", "strip", AfterCompress}
        /\ loop'.train = loop.train /\ loop'.count = loop.count
    BY <1>17 DEF FoldCount, FoldPin, FoldStrip, IInv, Shape, LoopFields
  <2>2. UNCHANGED <<vectors, beliefs, moved>> /\ loop.pc \in {"fold", "dup", "strip"}
    BY <1>17 DEF FoldCount, FoldPin, FoldStrip
  <2> QED
    BY <1>10, <2>1, <2>2
<1>18. CASE Seed
  <2>1. /\ loop'.pc = "resilience" /\ loop'.train = loop.train
        /\ beliefs' = beliefs \cup Seedable /\ UNCHANGED <<episodes, vectors>>
    BY <1>18, GoneTo DEF Seed
  <2>2. Rewrites
    BY <2>1 DEF Rewrites, Tables
  <2>3. Seedable' \subseteq Seedable
    BY <2>1, <2>2, SeedableStands
  <2>4. Seedable' \cap beliefs' = {}
    BY DEF Seedable
  <2>5. Seedable' = {}
    BY <2>1, <2>3, <2>4
  <2> QED
    BY <2>1, <2>5 DEF Gated, Caught, Training
<1>19. CASE PassFails
  <2>1. CASE \/ loop.pc = "merge" /\ Goto("compress")
             \/ loop.pc = "backfill" /\ Goto("seed")
    <3>1. loop'.pc \in {"compress", "seed"} /\ loop'.train = loop.train
      BY <2>1, GoneTo
    <3>2. loop.train
      BY <1>8, <2>1 DEF Training
    <3> QED
      BY <1>6, <3>1, <3>2
  <2>2. CASE loop.pc = "seed" /\ Goto("resilience") /\ moved' = TRUE
    <3>1. loop'.pc = "resilience" /\ loop'.train = loop.train
      BY <2>2, GoneTo
    <3> QED
      BY <2>2, <3>1 DEF Gated, Caught, Training
  <2>3. CASE /\ moved' = TRUE
             /\ loop' = [loop EXCEPT !.pc = "compress", !.count = 0, !.train = FALSE]
    <3>1. loop'.pc = "compress" /\ ~loop'.train
      BY <2>3 DEF IInv, Shape, LoopFields
    <3> QED
      BY <2>3, <3>1 DEF Gated, Caught, Training
  <2>4. CASE loop.pc = "embed" /\ Work("embed", loop.todo \ {Min(loop.todo)}, "seed")
    <3>1. loop'.train = loop.train /\ loop'.pc \in {"embed", "seed"}
      BY <2>4, WorkTo
    <3>2. loop.train
      BY <1>8, <2>4 DEF Training
    <3> QED
      BY <1>6, <3>1, <3>2
  <2> QED
    BY <1>19, <2>1, <2>2, <2>3, <2>4 DEF PassFails
<1>20. CASE Resilience \/ ScanNext
  <2>1. PICK pairs : ScanOrEnd(pairs)
    BY <1>20 DEF Resilience, ScanNext
  <2>2. UNCHANGED <<vectors, beliefs, moved>> /\ loop.pc \in {"resilience", "scan"}
    BY <1>20 DEF Resilience, ScanNext, store
  <2>3. Holds
    BY <1>4, <2>2
  <2>4. CASE /\ loop'.pc = "scan" /\ loop'.count = loop.count /\ loop'.train = loop.train
    BY <1>7, <2>2, <2>3, <2>4 DEF Training
  <2>5. CASE /\ loop'.pc = "idle" /\ loop'.last = loop.count
    <3>1. Caught(loop.count)
      BY <2>2 DEF Gated
    <3>2. Caught(loop.last)'
      BY <1>2, <2>3, <2>5, <3>1 DEF Holds, Caught
    <3> QED
      BY <2>5, <3>2 DEF Gated, Training
  <2> QED
    BY <2>1, <2>4, <2>5, Ended
<1>21. CASE CliNext
  <2>1. Holds
    <3>1. CASE Embeddable(Min(cli.todo))
      BY <1>3, <1>21, <3>1 DEF CliNext
    <3>2. CASE ~Embeddable(Min(cli.todo))
      BY <1>4, <1>21, <3>2 DEF CliNext, Embed
    <3> QED
      BY <3>1, <3>2
  <2> QED
    BY <1>5, <1>21, <2>1 DEF CliNext
<1>22. CASE CliStart \/ CliRead \/ CliFails \/ CliExit
  <2>1. Holds
    BY <1>4, <1>22 DEF CliStart, CliRead, CliFails, CliExit, store
  <2> QED
    BY <1>5, <1>22, <2>1 DEF CliStart, CliRead, CliFails, CliExit
<1>23. CASE Ingest
  <2>1. ASSUME NEW k, Insert(k) PROVE Holds
    <3>1. Len(episodes') = Len(episodes) + 1
      BY <2>1 DEF Insert, Tables
    <3> QED
      BY <1>2, <1>3, <3>1
  <2>2. ASSUME UNCHANGED <<vectors, beliefs>> PROVE Holds
    BY <1>4, <1>23, <2>2 DEF Ingest
  <2>3. \/ \E k : Insert(k)
        \/ UNCHANGED <<vectors, beliefs>>
    BY <1>23 DEF Ingest, Capture, RecordCorrection, WireEdges, PinSalient, StampSignature
  <2>4. Holds
    BY <2>1, <2>2, <2>3
  <2> QED
    BY <1>5, <1>23, <2>4 DEF Ingest
<1>24. CASE User
  <2>1. CASE KillIngest /\ UNCHANGED moved
    <3>1. Holds
      BY <1>4, <2>1 DEF KillIngest, store
    <3> QED
      BY <1>5, <1>24, <3>1 DEF User
  <2>2. CASE loop.pc = "off"
    BY <1>24, <2>2 DEF User, Gated, Training
  <2>3. CASE moved' = TRUE
    <3>1. Holds
      BY <1>3, <2>3
    <3> QED
      BY <1>5, <1>24, <3>1 DEF User
  <2> QED
    BY <1>24, <2>1, <2>2, <2>3 DEF User
<1>25. CASE UNCHANGED vars
  <2>1. Holds
    BY <1>4, <1>25 DEF vars, store
  <2> QED
    BY <1>5, <1>25, <2>1 DEF vars
<1> QED
  BY <1>11, <1>12, <1>13, <1>14, <1>15, <1>16, <1>17, <1>18, <1>19, <1>20, <1>21, <1>22, <1>23,
     <1>24, <1>25 DEF Next, Resident, Operator

\* GateOnlySaves for every instance: whenever a cycle is idled, the seeding it
\* skips would have found nothing, unless an older episode has come into view
\* since the last one, that one failed or the episodes could not be counted.
THEOREM GateHolds == Spec => GateOnlySaves
<1>1. Gated /\ Tables /\ Lists /\ [Next]_vars
        => [loop.pc = "idle" /\ loop'.pc = "compress" => Seedable = {} \/ moved']_vars
  <2> SUFFICES ASSUME Gated, Tables, Lists, [Next]_vars, loop.pc = "idle", loop'.pc = "compress"
               PROVE  Seedable = {} \/ moved'
    OBVIOUS
  <2>1. Gate \/ PassFails
    <3>1. loop' # loop
      OBVIOUS
    <3>2. ~Boot /\ ~KillLoop
      BY DEF Boot, KillLoop, Off
    <3> QED
      BY <3>1, <3>2 DEF Next, Ingest, User, Resident, Operator, MergeRead, PinNext,
         PinEdge, CompressRead, CompressGroup, FoldCount, FoldPin, FoldStrip, BackfillRead,
         BackfillNext, Seed, Resilience, ScanNext, CliStart, CliRead, CliNext, CliFails, CliExit, vars
  <2>2. CASE Gate
    <3>1. ~(Delta > 0) /\ moved' = moved
      BY <2>2 DEF Gate
    <3> QED
      BY <3>1, GateShuts
  <2>3. CASE PassFails
    BY <2>3 DEF PassFails
  <2> QED
    BY <2>1, <2>2, <2>3
<1>2. IInv /\ Tables /\ Lists /\ Gated /\ [Next]_vars => (IInv /\ Tables /\ Lists /\ Gated)'
  BY AuditStep, TablesStep, ListsStep, GatedStep
<1> QED
  BY <1>1, <1>2, AuditInit, ListsInit, GatedInit, PTL DEF Spec, GateOnlySaves
=============================================================================
