------------------------ MODULE ProxyLifecycleProofs ------------------------
(***************************************************************************)
(* Proofs about the lifecycle of proxies, for any number of processes,     *)
(* proxies and classes.                                                    *)
(*                                                                         *)
(* A pass acts on rows it read earlier, so what holds of the table when a  *)
(* row is written has to be carried by the row: its class is the class of  *)
(* the proxy it names (Read: no statement ever changes a class), and the   *)
(* rows of a job that moves proxies out of the short term passed the       *)
(* filter (Admitted), whichever way they came into the job.                *)
(*                                                                         *)
(* Jobs.  A process holds at most one row of a proxy, in a state that its  *)
(* pass may change (Aim), so every event is one of the four transitions    *)
(* (Steps, Books), and what is promoted to a fact was long-term when it    *)
(* was read: the log, which only grows, says so (Evidence).                *)
(*                                                                         *)
(* The history.  Of a proxy nobody contends for, one process at most holds *)
(* the row (Sole) and knows its state (Fresh), so the next event starts    *)
(* where the last one ended (History), from the extraction (Newborn) on.   *)
(***************************************************************************)
EXTENDS ProxyLifecycle, TLAPS

Trusted(r) == r.class.trust # "cloud_draft" /\ r.class.safe

JobType ==
    [kind: Kinds, rows: SUBSET RowType, current: SUBSET RowType, cutoff: 0 .. MaxTime]

Shape ==
    /\ proxies \in Seq(RowType)
    /\ \A i \in DOMAIN proxies : proxies[i].id = i
    /\ clock \in 0 .. MaxTime
    /\ job \in [Actors -> JobType]

Work(a) == job[a].rows \cup job[a].current

Read ==
    \A a \in Actors : \A r \in Work(a) :
        r.id \in DOMAIN proxies /\ r.class = proxies[r.id].class

Admitted ==
    \A a \in Actors :
        job[a].kind \in {"promote", "semantic", "decay"} => \A r \in Work(a) : Trusted(r)

Guarded ==
    \A i \in DOMAIN proxies : ~Trusted(proxies[i]) => proxies[i].state = "short_term_candidate"

IInv == Shape /\ Read /\ Admitted /\ Guarded

\* The invariant holds in the empty store.
LEMMA InitInv == Init => IInv
<1> SUFFICES ASSUME Init PROVE IInv
  OBVIOUS
<1>1. Idle \in JobType
  BY NumbersAssumption DEF Idle, JobType, Kinds
<1>2. job \in [Actors -> JobType] /\ proxies \in Seq(RowType) /\ clock \in 0 .. MaxTime
  BY <1>1, NumbersAssumption DEF Init
<1>3. \A a \in Actors : Work(a) = {}
  BY DEF Init, Work, Idle
<1> QED
  BY <1>2, <1>3 DEF Init, IInv, Shape, Read, Admitted, Guarded

\* Every step keeps the invariant.
LEMMA StepInv == IInv /\ [Next]_vars => IInv'
<1> SUFFICES ASSUME IInv, [Next]_vars PROVE IInv'
  OBVIOUS
<1> USE DEF IInv
\* A job that begins on rows of the table.
<1>1. ASSUME NEW a \in Actors, NEW kind \in Kinds, NEW cutoff \in 0 .. MaxTime,
             NEW rows \in SUBSET Rows, NEW current \in SUBSET Rows,
             Take(a, kind, rows, current, cutoff), UNCHANGED <<proxies, clock>>,
             kind \in {"promote", "semantic", "decay"}
               => \A r \in rows \cup current : Trusted(r)
      PROVE  IInv'
  <2>1. \A r \in Rows : r \in RowType /\ r.id \in DOMAIN proxies /\ r = proxies[r.id]
    BY DEF Rows, Shape
  <2>2. [kind |-> kind, rows |-> rows, current |-> current, cutoff |-> cutoff] \in JobType
    BY <2>1 DEF JobType
  <2>3. job' \in [Actors -> JobType]
    BY <1>1, <2>2 DEF Take, Shape
  <2>4. Work(a)' = rows \cup current /\ job'[a].kind = kind
    BY <1>1 DEF Take, Work, Shape
  <2>5. \A b \in Actors \ {a} : Work(b)' = Work(b) /\ job'[b] = job[b]
    BY <1>1 DEF Take, Work, Shape
  <2>6. Read'
    BY <1>1, <2>1, <2>4, <2>5 DEF Read
  <2>7. Admitted'
    BY <1>1, <2>4, <2>5 DEF Admitted
  <2> QED
    BY <1>1, <2>3, <2>6, <2>7 DEF Shape, Guarded
\* A job that goes on with part of what it holds, while the table keeps its
\* rows and their classes.
<1>2. ASSUME NEW a \in Actors, NEW j \in JobType,
             job' = [job EXCEPT ![a] = j],
             j.rows \cup j.current \subseteq Work(a),
             j.kind = job[a].kind \/ j.rows \cup j.current = {},
             clock' = clock, proxies' \in Seq(RowType),
             DOMAIN proxies' = DOMAIN proxies,
             \A i \in DOMAIN proxies : proxies'[i].id = i /\ proxies'[i].class = proxies[i].class
      PROVE  Shape' /\ Read' /\ Admitted'
  <2>1. job' \in [Actors -> JobType]
    BY <1>2 DEF Shape
  <2>2. Work(a)' = j.rows \cup j.current /\ job'[a].kind = j.kind
    BY <1>2 DEF Work, Shape
  <2>3. \A b \in Actors \ {a} : Work(b)' = Work(b) /\ job'[b] = job[b]
    BY <1>2 DEF Work, Shape
  <2>4. Read'
    BY <1>2, <2>2, <2>3 DEF Read
  <2>5. Admitted'
    BY <1>2, <2>2, <2>3 DEF Admitted
  <2> QED
    BY <1>2, <2>1, <2>4, <2>5 DEF Shape
\* What Rest leaves of a job.
<1>3. ASSUME NEW a \in Actors, NEW row, Rest(a, row)
      PROVE  \E j \in JobType :
               /\ job' = [job EXCEPT ![a] = j]
               /\ j.rows \cup j.current \subseteq Work(a)
               /\ j.kind = job[a].kind \/ j.rows \cup j.current = {}
  <2>1. job[a] \in JobType
    BY DEF Shape
  <2>2. Idle \in JobType /\ Idle.rows \cup Idle.current = {}
    BY NumbersAssumption DEF Idle, JobType, Kinds
  <2> DEFINE k == [job[a] EXCEPT !.rows = job[a].rows \ {row}, !.current = {}]
  <2>3. /\ k \in JobType /\ k.kind = job[a].kind
        /\ k.rows = job[a].rows \ {row} /\ k.current = {}
    BY <2>1 DEF JobType
  <2>4. job' = [job EXCEPT ![a] = Idle] \/ job' = [job EXCEPT ![a] = k]
    BY <1>3 DEF Rest
  <2> QED
    BY <2>2, <2>3, <2>4 DEF Work
\* A transition of a trusted row, with the rest of the job as in <1>2.
<1>4. ASSUME NEW a \in Actors, NEW j \in JobType, NEW row \in Work(a), Trusted(row),
             NEW to \in States, Transition(row, to), clock' = clock,
             job' = [job EXCEPT ![a] = j],
             j.rows \cup j.current \subseteq Work(a),
             j.kind = job[a].kind \/ j.rows \cup j.current = {}
      PROVE  IInv'
  <2>1. row.id \in DOMAIN proxies /\ Trusted(proxies[row.id])
    BY <1>4 DEF Read, Trusted
  <2>2. proxies' = [proxies EXCEPT ![row.id].state = to, ![row.id].updated = clock]
    BY <1>4 DEF Transition
  <2>3. DOMAIN proxies' = DOMAIN proxies
    BY <2>2
  <2>4. \A i \in DOMAIN proxies : proxies[i] \in RowType /\ proxies[i].id = i
    BY DEF Shape
  <2>5. \A i \in DOMAIN proxies :
           /\ proxies'[i] \in RowType
           /\ proxies'[i].id = i /\ proxies'[i].class = proxies[i].class
           /\ i # row.id => proxies'[i] = proxies[i]
    <3>1. /\ proxies'[row.id] = [proxies[row.id] EXCEPT !.state = to, !.updated = clock]
          /\ \A i \in DOMAIN proxies : i # row.id => proxies'[i] = proxies[i]
      BY <2>1, <2>2
    <3>2. to \in States /\ clock \in 0 .. MaxTime
      BY <1>4 DEF Shape
    <3>3. proxies[row.id] \in RowType /\ proxies[row.id].id = row.id
      BY <2>1, <2>4
    <3>4. /\ proxies'[row.id] \in RowType
          /\ proxies'[row.id].id = row.id
          /\ proxies'[row.id].class = proxies[row.id].class
      BY <3>1, <3>2, <3>3 DEF RowType
    <3> QED
      BY <2>4, <3>1, <3>4
  <2>6. proxies' \in Seq(RowType)
    <3>1. Len(proxies) \in Nat /\ DOMAIN proxies = 1 .. Len(proxies)
      BY DEF Shape
    <3>2. proxies' \in [1 .. Len(proxies) -> RowType]
      BY <2>2, <2>3, <2>5, <3>1
    <3> QED
      BY <3>1, <3>2
  <2>7. Shape' /\ Read' /\ Admitted'
    BY <1>2, <1>4, <2>3, <2>5, <2>6
  <2>8. Guarded'
    BY <2>1, <2>3, <2>5 DEF Guarded, Trusted
  <2> QED
    BY <2>7, <2>8
<1>5. CASE Tick
  BY <1>5, NumbersAssumption DEF Tick, Shape, Read, Admitted, Guarded, Work
<1>6. ASSUME NEW a \in Actors, Insert(a) PROVE IInv'
  <2>1. PICK c \in Classes :
           LET row == [id |-> Len(proxies) + 1, class |-> c,
                       state |-> "short_term_candidate", updated |-> clock,
                       accessed |-> -1, accesses |-> 0]
           IN  proxies' = Append(proxies, row) /\ Take(a, "extract", {row}, {}, 0)
    BY <1>6 DEF Insert
  <2> DEFINE row == [id |-> Len(proxies) + 1, class |-> c,
                     state |-> "short_term_candidate", updated |-> clock,
                     accessed |-> -1, accesses |-> 0]
  <2>2. Len(proxies) \in Nat /\ Len(proxies) < MaxProxies /\ clock' = clock
    BY <1>6 DEF Insert, Shape
  <2>3. row \in RowType
    BY <2>2, NumbersAssumption DEF RowType, Ids, States, Shape
  <2>4. /\ proxies' \in Seq(RowType)
        /\ DOMAIN proxies' = DOMAIN proxies \cup {row.id}
        /\ \A i \in DOMAIN proxies : proxies'[i] = proxies[i]
        /\ proxies'[row.id] = row /\ row.id \notin DOMAIN proxies
    BY <2>1, <2>2, <2>3 DEF Shape
  <2> DEFINE j == [kind |-> "extract", rows |-> {row}, current |-> {}, cutoff |-> 0]
  <2>5. j \in JobType /\ job' = [job EXCEPT ![a] = j]
    BY <2>1, <2>3, NumbersAssumption DEF Take, JobType, Kinds
  <2>6. job' \in [Actors -> JobType]
    BY <2>5 DEF Shape
  <2>7. Work(a)' = {row} /\ job'[a].kind = "extract"
    BY <2>5 DEF Work, Shape
  <2>8. \A b \in Actors \ {a} : Work(b)' = Work(b) /\ job'[b] = job[b]
    BY <2>5 DEF Work, Shape
  <2>9. Shape'
    BY <2>2, <2>4, <2>6 DEF Shape
  <2>10. Read'
    BY <2>4, <2>7, <2>8 DEF Read
  <2>11. Admitted'
    BY <2>7, <2>8 DEF Admitted
  <2>12. Guarded'
    BY <2>4 DEF Guarded, Trusted
  <2> QED
    BY <2>9, <2>10, <2>11, <2>12
<1>7. ASSUME NEW a \in Actors, InsertEvent(a) PROVE IInv'
  <2>1. PICK row \in job[a].rows : Rest(a, row)
    BY <1>7 DEF InsertEvent
  <2>2. UNCHANGED <<proxies, clock>>
    BY <1>7 DEF InsertEvent
  <2>3. Shape' /\ Read' /\ Admitted'
    BY <1>2, <1>3, <2>1, <2>2 DEF Shape
  <2> QED
    BY <2>2, <2>3 DEF Guarded
<1>8. ASSUME NEW a \in Actors, BeginPromote(a) PROVE IInv'
  <2>1. PICK rows \in SUBSET Rows :
           Take(a, "promote", rows, {}, 0) /\ \A r \in rows : Trusted(r)
    BY <1>8 DEF BeginPromote, ShortTerm, Eligible, Trusted
  <2> QED
    BY <1>1, <1>8, <2>1, NumbersAssumption DEF BeginPromote, Kinds
<1>9. ASSUME NEW a \in Actors, Reread(a) PROVE IInv'
  <2>1. PICK next \in job[a].rows :
           LET row == proxies[next.id]
           IN  job' = [job EXCEPT ![a] =
                         IF row.state = "short_term_candidate"
                         THEN [job[a] EXCEPT !.current = {row}] ELSE Idle]
    BY <1>9 DEF Reread, NextNewest
  <2> DEFINE row == proxies[next.id]
  <2>2. /\ next.id \in DOMAIN proxies /\ row.class = next.class /\ row.id = next.id
        /\ row \in RowType
    BY DEF Read, Work, Shape
  <2>3. Trusted(next)
    BY <1>9 DEF Reread, Admitted, Work
  <2>4. job[a] \in JobType /\ job[a].kind = "promote"
    BY <1>9 DEF Shape, Reread
  <2>5. CASE row.state = "short_term_candidate"
    <3> DEFINE j == [job[a] EXCEPT !.current = {row}]
    <3>1. /\ j \in JobType /\ j.kind = job[a].kind
          /\ j.rows = job[a].rows /\ j.current = {row}
      BY <2>2, <2>4 DEF JobType
    <3>2. job' = [job EXCEPT ![a] = j]
      BY <2>1, <2>5
    <3>3. job' \in [Actors -> JobType]
      BY <3>1, <3>2 DEF Shape
    <3>4. Work(a)' = job[a].rows \cup {row}
      BY <3>1, <3>2 DEF Work, Shape
    <3>5. \A b \in Actors \ {a} : Work(b)' = Work(b) /\ job'[b] = job[b]
      BY <3>2 DEF Work, Shape
    <3>6. UNCHANGED <<proxies, clock>>
      BY <1>9 DEF Reread
    <3>7. Read'
      BY <2>2, <3>4, <3>5, <3>6 DEF Read, Work
    <3>8. Admitted'
      <4>1. \A r \in Work(a)' : Trusted(r)
        BY <2>2, <2>3, <2>4, <3>4 DEF Admitted, Work, Trusted
      <4> QED
        BY <4>1, <3>5 DEF Admitted
    <3> QED
      BY <3>3, <3>6, <3>7, <3>8 DEF Shape, Guarded
  <2>6. CASE row.state # "short_term_candidate"
    <3>1. Idle \in JobType /\ Idle.rows \cup Idle.current = {}
      BY NumbersAssumption DEF Idle, JobType, Kinds
    <3>2. job' = [job EXCEPT ![a] = Idle] /\ UNCHANGED <<proxies, clock>>
      BY <1>9, <2>1, <2>6 DEF Reread
    <3>3. Shape' /\ Read' /\ Admitted'
      BY <1>2, <3>1, <3>2 DEF Shape
    <3> QED
      BY <3>2, <3>3 DEF Guarded
  <2> QED
    BY <2>5, <2>6
<1>10. ASSUME NEW a \in Actors, Promote(a) PROVE IInv'
  <2>1. PICK row \in job[a].current, next \in job[a].rows :
           Transition(row, "long_term_memory") /\ Rest(a, next)
    BY <1>10 DEF Promote, NextNewest
  <2>2. row \in Work(a) /\ Trusted(row) /\ clock' = clock
    BY <1>10 DEF Promote, Admitted, Work
  <2>3. PICK j \in JobType :
           /\ job' = [job EXCEPT ![a] = j]
           /\ j.rows \cup j.current \subseteq Work(a)
           /\ j.kind = job[a].kind \/ j.rows \cup j.current = {}
    BY <1>3, <2>1
  <2> QED
    BY <1>4, <2>1, <2>2, <2>3 DEF States
<1>11. ASSUME NEW a \in Actors, BeginSemantic(a) PROVE IInv'
  <2>1. PICK r \in Rows : MayBeFact(r) /\ Take(a, "semantic", {}, {r}, 0)
    BY <1>11 DEF BeginSemantic
  <2>2. Trusted(r)
    BY <2>1 DEF MayBeFact, Guarded, Rows
  <2> QED
    BY <1>1, <1>11, <2>1, <2>2, NumbersAssumption DEF BeginSemantic, Kinds
<1>12. ASSUME NEW a \in Actors, Semantic(a) PROVE IInv'
  <2>1. PICK row \in job[a].current : Transition(row, "semantic_fact")
    BY <1>12 DEF Semantic
  <2>2. row \in Work(a) /\ Trusted(row)
    BY <1>12 DEF Semantic, Admitted, Work
  <2>3. Idle \in JobType /\ Idle.rows \cup Idle.current = {}
    BY NumbersAssumption DEF Idle, JobType, Kinds
  <2>4. job' = [job EXCEPT ![a] = Idle] /\ clock' = clock
    BY <1>12 DEF Semantic
  <2> QED
    BY <1>4, <2>1, <2>2, <2>3, <2>4 DEF States
<1>13. ASSUME NEW a \in Actors, BeginDecay(a) PROVE IInv'
  <2>1. PICK cutoff \in 1 .. clock : Take(a, "decay", LongestUnused(cutoff), {}, cutoff)
    BY <1>13 DEF BeginDecay
  <2>2. LongestUnused(cutoff) \subseteq Rows
    BY DEF LongestUnused
  <2>3. \A r \in LongestUnused(cutoff) : Trusted(r)
    BY DEF LongestUnused, Inactive, Guarded, Rows
  <2>4. cutoff \in 0 .. MaxTime
    BY NumbersAssumption DEF Shape
  <2> QED
    BY <1>1, <1>13, <2>1, <2>2, <2>3, <2>4 DEF BeginDecay, Kinds
<1>14. ASSUME NEW a \in Actors, Decay(a) PROVE IInv'
  <2>1. PICK row \in job[a].rows : Transition(row, "decayed") /\ Rest(a, row)
    BY <1>14 DEF Decay
  <2>2. row \in Work(a) /\ Trusted(row) /\ clock' = clock
    BY <1>14 DEF Decay, Admitted, Work
  <2>3. PICK j \in JobType :
           /\ job' = [job EXCEPT ![a] = j]
           /\ j.rows \cup j.current \subseteq Work(a)
           /\ j.kind = job[a].kind \/ j.rows \cup j.current = {}
    BY <1>3, <2>1
  <2> QED
    BY <1>4, <2>1, <2>2, <2>3 DEF States
<1>15. ASSUME NEW a \in Actors, BeginProject(a) PROVE IInv'
  <2>1. PICK rows \in SUBSET Rows : Take(a, "project", rows, {}, 0)
    BY <1>15 DEF BeginProject
  <2> QED
    BY <1>1, <1>15, <2>1, NumbersAssumption DEF BeginProject, Kinds
<1>16. ASSUME NEW a \in Actors, Touch(a) PROVE IInv'
  <2>1. PICK row \in job[a].rows :
           /\ IF proxies[row.id].state = "long_term_memory"
              THEN /\ proxies[row.id].accesses < MaxTouches
                   /\ proxies' = [proxies EXCEPT ![row.id].accesses = @ + 1,
                                                 ![row.id].accessed = clock]
              ELSE UNCHANGED proxies
           /\ Rest(a, row)
    BY <1>16 DEF Touch
  <2>2. PICK j \in JobType :
           /\ job' = [job EXCEPT ![a] = j]
           /\ j.rows \cup j.current \subseteq Work(a)
           /\ j.kind = job[a].kind \/ j.rows \cup j.current = {}
    BY <1>3, <2>1
  <2>3. clock' = clock /\ row.id \in DOMAIN proxies
    BY <1>16 DEF Touch, Read, Work
  <2>4. \A i \in DOMAIN proxies : proxies[i] \in RowType /\ proxies[i].id = i
    BY DEF Shape
  <2>5. DOMAIN proxies' = DOMAIN proxies
    BY <2>1
  <2>6. \A i \in DOMAIN proxies :
           /\ proxies'[i] \in RowType /\ proxies'[i].id = i
           /\ proxies'[i].class = proxies[i].class /\ proxies'[i].state = proxies[i].state
    <3>1. CASE proxies[row.id].state # "long_term_memory"
      BY <2>1, <2>4, <3>1
    <3>2. CASE proxies[row.id].state = "long_term_memory"
      <4>1. /\ proxies'[row.id] = [proxies[row.id] EXCEPT !.accesses = @ + 1,
                                                          !.accessed = clock]
            /\ \A i \in DOMAIN proxies : i # row.id => proxies'[i] = proxies[i]
        BY <2>1, <2>3, <3>2
      <4>2. /\ proxies[row.id] \in RowType /\ proxies[row.id].accesses < MaxTouches
            /\ clock \in 0 .. MaxTime
        BY <2>1, <2>3, <2>4, <3>2 DEF Shape
      <4>3. proxies[row.id].accesses + 1 \in 0 .. MaxTouches
        BY <4>2, NumbersAssumption DEF RowType
      <4>4. /\ proxies'[row.id] \in RowType
            /\ proxies'[row.id].id = proxies[row.id].id
            /\ proxies'[row.id].class = proxies[row.id].class
            /\ proxies'[row.id].state = proxies[row.id].state
        BY <4>1, <4>2, <4>3 DEF RowType
      <4> QED
        BY <2>4, <4>1, <4>4
    <3> QED
      BY <3>1, <3>2
  <2>7. proxies' \in Seq(RowType)
    BY <2>5, <2>6, <2>1 DEF Shape
  <2>8. Shape' /\ Read' /\ Admitted'
    BY <1>2, <2>2, <2>3, <2>5, <2>6, <2>7
  <2> QED
    BY <2>5, <2>6, <2>8 DEF Guarded, Trusted
<1>17. ASSUME NEW a \in Actors, Kill(a) PROVE IInv'
  <2>1. Idle \in JobType /\ Idle.rows \cup Idle.current = {}
    BY NumbersAssumption DEF Idle, JobType, Kinds
  <2>2. job' = [job EXCEPT ![a] = Idle] /\ UNCHANGED <<proxies, clock>>
    BY <1>17 DEF Kill
  <2>3. Shape' /\ Read' /\ Admitted'
    BY <1>2, <2>1, <2>2 DEF Shape
  <2> QED
    BY <2>2, <2>3 DEF Guarded
<1>18. CASE UNCHANGED vars
  BY <1>18 DEF vars, Shape, Read, Admitted, Guarded, Work
<1> QED
  BY <1>5, <1>6, <1>7, <1>8, <1>9, <1>10, <1>11, <1>12, <1>13, <1>14, <1>15, <1>16,
     <1>17, <1>18 DEF Next, Act

\* TrustBoundary for every instance: however the passes of any number of
\* processes interleave, race and are killed, a cloud draft or a proxy with an
\* unsafe privacy label never leaves the short term.
THEOREM TrustHolds == Spec => []TrustBoundary
<1>1. IInv => TrustBoundary
  BY DEF IInv, Guarded, TrustBoundary, Trusted, Rows
<1> QED
  BY <1>1, InitInv, StepInv, PTL DEF Spec

-----------------------------------------------------------------------------
(* Jobs: what a process holds is the rows of distinct proxies, in a state    *)
(* that its pass may change; the row that promotion read again is that of    *)
(* the next proxy.                                                           *)

Worked == {"promote", "semantic", "decay"}

Chosen(kind, rows, current, cutoff) ==
    /\ kind \in {"promote", "semantic", "decay", "project"}
    /\ kind = "semantic" => rows = {}
    /\ kind # "semantic" => current = {}
    /\ \A r, s \in current : r = s
    /\ kind = "promote" => \A r \in rows : r.state = "short_term_candidate"
    /\ kind = "semantic" => \A r \in current : r.state = "long_term_memory"
    /\ kind = "decay" => \A r \in rows : Inactive(r, cutoff)

Aimed(a) ==
    /\ \A r, s \in job[a].rows : r.id = s.id => r = s
    /\ \A r, s \in job[a].current : r = s
    /\ job[a].kind = "idle" => Work(a) = {}
    /\ job[a].kind = "extract" => \A r, s \in job[a].rows : r = s
    /\ job[a].kind = "semantic" => job[a].rows = {}
    /\ job[a].kind \notin {"promote", "semantic"} => job[a].current = {}
    /\ job[a].kind = "promote" => \A r \in Work(a) : r.state = "short_term_candidate"
    /\ job[a].kind = "promote" =>
         \A r \in job[a].current : \E next \in NextNewest(a) : next.id = r.id
    /\ job[a].kind = "semantic" => \A r \in job[a].current : r.state = "long_term_memory"
    /\ job[a].kind = "decay" => \A r \in job[a].rows : Inactive(r, job[a].cutoff)

Aim == \A a \in Actors : Aimed(a)

\* A pass begins on rows of the table.
Begin(a) ==
    \E kind \in Kinds, rows \in SUBSET Rows, current \in SUBSET Rows, cutoff \in 0 .. MaxTime :
      /\ Chosen(kind, rows, current, cutoff)
      /\ Take(a, kind, rows, current, cutoff)
      /\ UNCHANGED <<proxies, log, clock, touched, cut>>

\* What is left of a job after one of its rows.
Left(a, row, j) ==
    /\ j \in JobType
    /\ j.rows \subseteq job[a].rows /\ j.current = {}
    /\ \A r \in j.rows : r.id # row.id
    /\ j = Idle \/ (j.kind = job[a].kind /\ j.cutoff = job[a].cutoff)

\* A pass moves one of its rows along one of the transitions.
Write(a) ==
    \E row \in Work(a), to \in States, j \in JobType :
      /\ job[a].kind \in Worked
      /\ <<row.state, to>> \in Pairs
      /\ to = "decayed" => job[a].kind = "decay" /\ row \in job[a].rows
      /\ to = "semantic_fact" => job[a].kind = "semantic" /\ row \in job[a].current
      /\ Transition(row, to)
      /\ job' = [job EXCEPT ![a] = j] /\ Left(a, row, j)
      /\ UNCHANGED <<clock, started, contended, touched, cut>>

\* What Rest leaves, of a job whose rows are of distinct proxies.
LEMMA RestLeft ==
    ASSUME IInv, Aim, NEW a \in Actors, NEW row \in job[a].rows, Rest(a, row)
    PROVE  \E j \in JobType : job' = [job EXCEPT ![a] = j] /\ Left(a, row, j)
<1>1. job[a] \in JobType
  BY DEF IInv, Shape
<1>2. Idle \in JobType /\ Idle.rows = {} /\ Idle.current = {}
  BY NumbersAssumption DEF Idle, JobType, Kinds
<1> DEFINE k == [job[a] EXCEPT !.rows = job[a].rows \ {row}, !.current = {}]
<1>3. /\ k \in JobType /\ k.kind = job[a].kind /\ k.cutoff = job[a].cutoff
      /\ k.rows = job[a].rows \ {row} /\ k.current = {}
  BY <1>1 DEF JobType
<1>4. \A r \in job[a].rows \ {row} : r.id # row.id
  BY DEF Aim, Aimed
<1>5. job' = [job EXCEPT ![a] = Idle] \/ job' = [job EXCEPT ![a] = k]
  BY DEF Rest
<1>6. Left(a, row, Idle) /\ Left(a, row, k)
  BY <1>2, <1>3, <1>4 DEF Left
<1> QED
  BY <1>2, <1>3, <1>5, <1>6

\* Promotion has read again the proxy it comes to next.
LEMMA NextIsCurrent ==
    ASSUME IInv, Aim, NEW a \in Actors, job[a].kind = "promote",
           NEW row \in job[a].current, NEW next \in NextNewest(a)
    PROVE  next.id = row.id
<1>1. PICK first \in NextNewest(a) : first.id = row.id
  BY DEF Aim, Aimed
<1>2. /\ first \in job[a].rows /\ next \in job[a].rows
      /\ first.updated \in Nat /\ next.updated \in Nat
      /\ first.id \in Nat /\ next.id \in Nat
  BY NumbersAssumption DEF NextNewest, IInv, Shape, JobType, RowType, Ids
<1>3. first = next \/ (Newer(first, next) /\ Newer(next, first))
  BY DEF NextNewest
<1> QED
  BY <1>1, <1>2, <1>3 DEF Newer

\* Whatever a process does is one of seven things.
LEMMA Steps ==
    ASSUME IInv, Aim, NEW a \in Actors, Act(a)
    PROVE  \/ Begin(a) \/ Write(a)
           \/ Insert(a) \/ InsertEvent(a) \/ Reread(a) \/ Touch(a) \/ Kill(a)
<1> USE NumbersAssumption
<1>1. CASE BeginPromote(a)
  <2>1. PICK rows \in SUBSET Rows :
           /\ Take(a, "promote", rows, {}, 0)
           /\ \A r \in rows : r.state = "short_term_candidate"
    BY <1>1 DEF BeginPromote, ShortTerm
  <2>2. Chosen("promote", rows, {}, 0)
    BY <2>1 DEF Chosen
  <2> QED
    BY <1>1, <2>1, <2>2 DEF Begin, BeginPromote, Kinds
<1>2. CASE BeginSemantic(a)
  <2>1. PICK r \in Rows : MayBeFact(r) /\ Take(a, "semantic", {}, {r}, 0)
    BY <1>2 DEF BeginSemantic
  <2>2. Chosen("semantic", {}, {r}, 0)
    BY <2>1 DEF Chosen, MayBeFact
  <2> QED
    BY <1>2, <2>1, <2>2 DEF Begin, BeginSemantic, Kinds
<1>3. CASE BeginDecay(a)
  <2>1. PICK cutoff \in 1 .. clock : Take(a, "decay", LongestUnused(cutoff), {}, cutoff)
    BY <1>3 DEF BeginDecay
  <2>2. LongestUnused(cutoff) \subseteq Rows /\ Chosen("decay", LongestUnused(cutoff), {}, cutoff)
    BY DEF LongestUnused, Chosen
  <2>3. cutoff \in 0 .. MaxTime
    BY DEF IInv, Shape
  <2> QED
    BY <1>3, <2>1, <2>2, <2>3 DEF Begin, BeginDecay, Kinds
<1>4. CASE BeginProject(a)
  <2>1. PICK rows \in SUBSET Rows : Take(a, "project", rows, {}, 0)
    BY <1>4 DEF BeginProject
  <2>2. Chosen("project", rows, {}, 0)
    BY DEF Chosen
  <2> QED
    BY <1>4, <2>1, <2>2 DEF Begin, BeginProject, Kinds
<1>5. CASE Promote(a)
  <2>1. PICK row \in job[a].current, next \in NextNewest(a) :
           Transition(row, "long_term_memory") /\ Rest(a, next)
    BY <1>5 DEF Promote
  <2>2. job[a].kind = "promote" /\ next \in job[a].rows /\ next.id = row.id
    BY <1>5, NextIsCurrent DEF Promote, NextNewest
  <2>3. PICK j \in JobType : job' = [job EXCEPT ![a] = j] /\ Left(a, row, j)
    BY <2>1, <2>2, RestLeft DEF Left
  <2>4. row \in Work(a) /\ row.state = "short_term_candidate"
    BY <2>2 DEF Work, Aim, Aimed
  <2> QED
    BY <1>5, <2>1, <2>2, <2>3, <2>4 DEF Write, Promote, Pairs, States, Worked
<1>6. CASE Semantic(a)
  <2>1. PICK row \in job[a].current : Transition(row, "semantic_fact")
    BY <1>6 DEF Semantic
  <2>2. job[a].kind = "semantic" /\ row \in Work(a) /\ row.state = "long_term_memory"
    BY <1>6 DEF Semantic, Work, Aim, Aimed
  <2>3. Idle \in JobType /\ Left(a, row, Idle)
    BY DEF Idle, JobType, Kinds, Left
  <2> QED
    BY <1>6, <2>1, <2>2, <2>3 DEF Write, Semantic, Pairs, States, Worked
<1>7. CASE Decay(a)
  <2>1. PICK row \in job[a].rows : Transition(row, "decayed") /\ Rest(a, row)
    BY <1>7 DEF Decay
  <2>2. job[a].kind = "decay" /\ row \in Work(a) /\ row.state = "long_term_memory"
    BY <1>7 DEF Decay, Work, Aim, Aimed, Inactive
  <2>3. PICK j \in JobType : job' = [job EXCEPT ![a] = j] /\ Left(a, row, j)
    BY <2>1, RestLeft
  <2> QED
    BY <1>7, <2>1, <2>2, <2>3 DEF Write, Decay, Pairs, States, Worked
<1> QED
  BY <1>1, <1>2, <1>3, <1>4, <1>5, <1>6, <1>7 DEF Act

\* Reading a row again: the job now holds it, or ends.
LEMMA Rereads ==
    ASSUME IInv, Aim, NEW a \in Actors, Reread(a)
    PROVE  \E next \in NextNewest(a), j \in JobType :
             /\ job[a].kind = "promote" /\ job' = [job EXCEPT ![a] = j]
             /\ \/ j = Idle
                \/ /\ j.kind = "promote" /\ j.rows = job[a].rows
                   /\ j.current = {proxies[next.id]} /\ j.cutoff = job[a].cutoff
                   /\ proxies[next.id].id = next.id
                   /\ proxies[next.id].state = "short_term_candidate"
<1>1. PICK next \in NextNewest(a) :
         job' = [job EXCEPT ![a] =
                   IF proxies[next.id].state = "short_term_candidate"
                   THEN [job[a] EXCEPT !.current = {proxies[next.id]}] ELSE Idle]
  BY DEF Reread
<1>2. proxies[next.id] \in RowType /\ proxies[next.id].id = next.id
  BY DEF NextNewest, IInv, Shape, Read, Work
<1>3. job[a] \in JobType /\ job[a].kind = "promote"
  BY DEF Reread, IInv, Shape
<1>4. Idle \in JobType
  BY NumbersAssumption DEF Idle, JobType, Kinds
<1> DEFINE k == [job[a] EXCEPT !.current = {proxies[next.id]}]
<1>5. /\ k \in JobType /\ k.kind = "promote" /\ k.rows = job[a].rows
      /\ k.current = {proxies[next.id]} /\ k.cutoff = job[a].cutoff
  BY <1>2, <1>3 DEF JobType
<1> QED
  BY <1>1, <1>2, <1>3, <1>4, <1>5

LEMMA AimStep == IInv /\ Aim /\ [Next]_vars => Aim'
<1> SUFFICES ASSUME IInv, Aim, [Next]_vars PROVE Aim'
  OBVIOUS
<1>1. job \in [Actors -> JobType]
  BY DEF IInv, Shape
\* Only one job changes at a time.
<1>2. ASSUME NEW a \in Actors, NEW j, job' = [job EXCEPT ![a] = j], Aimed(a)'
      PROVE  Aim'
  <2>1. \A b \in Actors \ {a} : job'[b] = job[b]
    BY <1>1, <1>2
  <2>2. \A b \in Actors \ {a} : Aimed(b)'
    BY <2>1 DEF Aim, Aimed, Work, NextNewest
  <2> QED
    BY <1>2, <2>2 DEF Aim
<1>3. ASSUME NEW a \in Actors, job' = [job EXCEPT ![a] = Idle]
      PROVE  Aim'
  <2>1. job'[a] = Idle
    BY <1>1, <1>3
  <2>2. Aimed(a)'
    BY <2>1 DEF Aimed, Idle, Work
  <2> QED
    BY <1>2, <1>3, <2>2
<1>4. ASSUME NEW a \in Actors, NEW row \in Work(a), NEW j \in JobType,
             job' = [job EXCEPT ![a] = j], Left(a, row, j)
      PROVE  Aim'
  <2>1. job'[a] = j
    BY <1>1, <1>4
  <2>2. CASE j = Idle
    BY <1>3, <1>4, <2>2
  <2>3. CASE j.kind = job[a].kind /\ j.cutoff = job[a].cutoff
    <3>1. Aimed(a)'
      BY <1>4, <2>1, <2>3 DEF Aim, Aimed, Left, Work
    <3> QED
      BY <1>2, <1>4, <3>1
  <2> QED
    BY <1>4, <2>2, <2>3 DEF Left
<1>5. ASSUME NEW a \in Actors, Act(a) PROVE Aim'
  <2>1. CASE Begin(a)
    <3>1. PICK kind \in Kinds, rows \in SUBSET Rows, current \in SUBSET Rows,
               cutoff \in 0 .. MaxTime :
             Chosen(kind, rows, current, cutoff) /\ Take(a, kind, rows, current, cutoff)
      BY <2>1 DEF Begin
    <3> DEFINE j == [kind |-> kind, rows |-> rows, current |-> current, cutoff |-> cutoff]
    <3>2. job' = [job EXCEPT ![a] = j] /\ job'[a] = j
      BY <1>1, <3>1 DEF Take
    <3>3. \A r, s \in rows : r.id = s.id => r = s
      BY DEF Rows, IInv, Shape
    <3>4. Aimed(a)'
      BY <3>1, <3>2, <3>3 DEF Aimed, Chosen, Work
    <3> QED
      BY <1>2, <3>2, <3>4
  <2>2. CASE Write(a)
    BY <1>4, <2>2 DEF Write
  <2>3. CASE Insert(a)
    <3>1. PICK row : Take(a, "extract", {row}, {}, 0)
      BY <2>3 DEF Insert
    <3> DEFINE j == [kind |-> "extract", rows |-> {row}, current |-> {}, cutoff |-> 0]
    <3>2. job' = [job EXCEPT ![a] = j] /\ job'[a] = j
      BY <1>1, <3>1 DEF Take
    <3>3. Aimed(a)'
      BY <3>2 DEF Aimed, Work
    <3> QED
      BY <1>2, <3>2, <3>3
  <2>4. CASE InsertEvent(a)
    <3>1. PICK row \in job[a].rows : Rest(a, row)
      BY <2>4 DEF InsertEvent
    <3> QED
      BY <1>4, <3>1, RestLeft DEF Work
  <2>5. CASE Reread(a)
    <3>1. PICK next \in NextNewest(a), j \in JobType :
             /\ job[a].kind = "promote" /\ job' = [job EXCEPT ![a] = j]
             /\ \/ j = Idle
                \/ /\ j.kind = "promote" /\ j.rows = job[a].rows
                   /\ j.current = {proxies[next.id]} /\ j.cutoff = job[a].cutoff
                   /\ proxies[next.id].id = next.id
                   /\ proxies[next.id].state = "short_term_candidate"
      BY <2>5, Rereads
    <3>2. CASE j = Idle
      BY <1>3, <3>1, <3>2
    <3>3. CASE j # Idle
      <4>1. job'[a] = j
        BY <1>1, <3>1
      <4>2. Work(a)' = job[a].rows \cup {proxies[next.id]}
        BY <3>1, <3>3, <4>1 DEF Work
      <4>3. NextNewest(a)' = NextNewest(a)
        BY <3>1, <3>3, <4>1 DEF NextNewest
      <4>4. \A r \in job[a].rows : r.state = "short_term_candidate"
        BY <3>1 DEF Aim, Aimed, Work
      <4>5. \A r, s \in job[a].rows : r.id = s.id => r = s
        BY DEF Aim, Aimed
      <4>6. Aimed(a)'
        BY <3>1, <3>3, <4>1, <4>2, <4>3, <4>4, <4>5 DEF Aimed
      <4> QED
        BY <1>2, <3>1, <4>6
    <3> QED
      BY <3>2, <3>3
  <2>6. CASE Touch(a)
    <3>1. PICK row \in job[a].rows : Rest(a, row)
      BY <2>6 DEF Touch
    <3> QED
      BY <1>4, <3>1, RestLeft DEF Work
  <2>7. CASE Kill(a)
    BY <1>3, <2>7 DEF Kill
  <2> QED
    BY <1>5, <2>1, <2>2, <2>3, <2>4, <2>5, <2>6, <2>7, Steps
<1>6. CASE Tick \/ UNCHANGED vars
  BY <1>6 DEF Tick, vars, Aim, Aimed, Work, NextNewest
<1> QED
  BY <1>5, <1>6 DEF Next

LEMMA AimInit == Init => Aim
  BY DEF Init, Aim, Aimed, Idle, Work

-----------------------------------------------------------------------------
(* The log and the books that are kept beside it.                           *)

Event == [from: States \cup {"none"}, to: States]

Books ==
    /\ Len(proxies) <= MaxProxies
    /\ log \in [Ids -> Seq(Event)]
    /\ started \in 0 .. MaxJobs
    /\ contended \subseteq Ids /\ touched \subseteq Ids /\ cut \subseteq Ids

LEMMA RowIds == IInv => DOMAIN proxies \subseteq Ids
<1> SUFFICES ASSUME IInv PROVE \A i \in DOMAIN proxies : i \in Ids
  OBVIOUS
<1>1. \A i \in DOMAIN proxies : proxies[i] \in RowType /\ proxies[i].id = i
  BY DEF IInv, Shape
<1> QED
  BY <1>1 DEF RowType

\* The ids a process holds are those of proxies.
LEMMA HeldIds ==
    ASSUME IInv, NEW a \in Actors
    PROVE  Held(a) \subseteq DOMAIN proxies /\ DOMAIN proxies \subseteq Ids
  BY RowIds DEF Held, IInv, Read, Work

\* What a transition changes: the state and time of one row, the log by one event.
LEMMA Transits ==
    ASSUME IInv, Books, NEW row, row.id \in DOMAIN proxies, NEW to, Transition(row, to)
    PROVE  /\ DOMAIN proxies' = DOMAIN proxies /\ Len(proxies') = Len(proxies)
           /\ \A i \in DOMAIN proxies : i # row.id => proxies'[i] = proxies[i]
           /\ proxies'[row.id].state = to
           /\ row.id \in Ids /\ DOMAIN log' = Ids
           /\ \A i \in Ids : i # row.id => log'[i] = log[i]
           /\ log'[row.id] = Append(log[row.id], [from |-> row.state, to |-> to])
<1>0. proxies[row.id] \in RowType /\ proxies[row.id].id = row.id
  BY DEF IInv, Shape
<1>1. row.id \in Ids
  BY <1>0 DEF RowType
<1>2. proxies' = [proxies EXCEPT ![row.id].state = to, ![row.id].updated = clock]
  BY DEF Transition
<1>3. log' = [log EXCEPT ![row.id] = Append(@, [from |-> row.state, to |-> to])]
  BY DEF Transition, Logged
<1>4. DOMAIN proxies' = DOMAIN proxies /\ Len(proxies') = Len(proxies)
  BY <1>2 DEF IInv, Shape
<1>5. \A i \in DOMAIN proxies : i # row.id => proxies'[i] = proxies[i]
  BY <1>2
<1>6. proxies'[row.id].state = to
  BY <1>0, <1>2 DEF RowType
<1> QED
  BY <1>1, <1>3, <1>4, <1>5, <1>6 DEF Books

\* A row that extraction inserts, and where it comes in.
LEMMA Inserts ==
    ASSUME IInv, NEW a \in Actors, Insert(a)
    PROVE  \E row \in RowType :
             /\ row.id = Len(proxies) + 1 /\ row.id \notin DOMAIN proxies /\ row.id \in Ids
             /\ row.state = "short_term_candidate"
             /\ Len(proxies') = Len(proxies) + 1
             /\ DOMAIN proxies' = DOMAIN proxies \cup {row.id}
             /\ \A i \in DOMAIN proxies : proxies'[i] = proxies[i]
             /\ proxies'[row.id] = row
             /\ Take(a, "extract", {row}, {}, 0)
<1>1. PICK c \in Classes :
         LET row == [id |-> Len(proxies) + 1, class |-> c,
                     state |-> "short_term_candidate", updated |-> clock,
                     accessed |-> -1, accesses |-> 0]
         IN  proxies' = Append(proxies, row) /\ Take(a, "extract", {row}, {}, 0)
  BY DEF Insert
<1> DEFINE row == [id |-> Len(proxies) + 1, class |-> c,
                   state |-> "short_term_candidate", updated |-> clock,
                   accessed |-> -1, accesses |-> 0]
<1>2. Len(proxies) \in Nat /\ Len(proxies) < MaxProxies
  BY DEF Insert, IInv, Shape
<1>3. row \in RowType /\ row.id \in Ids
  BY <1>2, NumbersAssumption DEF RowType, Ids, States, IInv, Shape
<1>4. /\ Len(proxies') = Len(proxies) + 1
      /\ DOMAIN proxies' = DOMAIN proxies \cup {row.id}
      /\ \A i \in DOMAIN proxies : proxies'[i] = proxies[i]
      /\ proxies'[row.id] = row /\ row.id \notin DOMAIN proxies
  BY <1>1, <1>2, <1>3 DEF IInv, Shape
<1> QED
  BY <1>1, <1>3, <1>4

LEMMA BooksStep == IInv /\ Aim /\ Books /\ [Next]_vars => Books'
<1> SUFFICES ASSUME IInv, Aim, Books, [Next]_vars PROVE Books'
  OBVIOUS
<1>1. ASSUME NEW a \in Actors, NEW kind, NEW rows, NEW current, NEW cutoff,
             Take(a, kind, rows, current, cutoff)
      PROVE  started' \in 0 .. MaxJobs /\ contended' \subseteq Ids
  <2>1. started' \in 0 .. MaxJobs
    BY <1>1, NumbersAssumption DEF Take, Books
  <2>2. \A b \in Writers : Held(b) \subseteq Ids
    BY HeldIds DEF Writers
  <2> QED
    BY <1>1, <2>1, <2>2 DEF Take, Contended, Books
<1>2. ASSUME NEW a \in Actors, Act(a) PROVE Books'
  <2>1. CASE Begin(a)
    BY <1>1, <2>1 DEF Begin, Books
  <2>2. CASE Write(a)
    <3>1. PICK row \in Work(a), to \in States :
             <<row.state, to>> \in Pairs /\ Transition(row, to)
      BY <2>2 DEF Write
    <3>2. row.id \in DOMAIN proxies
      BY DEF IInv, Read
    <3>3. [from |-> row.state, to |-> to] \in Event
      BY <3>1 DEF Pairs, Event, States
    <3>4. Append(log[row.id], [from |-> row.state, to |-> to]) \in Seq(Event)
      BY <3>1, <3>2, <3>3, Transits DEF Books
    <3>5. \A i \in Ids : log'[i] \in Seq(Event)
      <4>1. /\ \A i \in Ids : i # row.id => log'[i] = log[i]
            /\ log'[row.id] = Append(log[row.id], [from |-> row.state, to |-> to])
        BY <3>1, <3>2, Transits
      <4>2. \A i \in Ids : log[i] \in Seq(Event)
        BY DEF Books
      <4> QED
        BY <3>4, <4>1, <4>2
    <3>6. log' = [i \in Ids |-> log'[i]]
      BY <3>1 DEF Transition, Logged, Books
    <3>7. log' \in [Ids -> Seq(Event)]
      BY <3>5, <3>6
    <3>8. Len(proxies') <= MaxProxies
      BY <3>1, <3>2, Transits DEF Books
    <3> QED
      BY <2>2, <3>7, <3>8 DEF Write, Books
  <2>3. CASE Insert(a)
    <3>1. PICK row \in RowType : /\ row.id \in Ids /\ row.id = Len(proxies) + 1
                                 /\ Len(proxies') = Len(proxies) + 1
                                 /\ Take(a, "extract", {row}, {}, 0)
      BY <2>3, Inserts
    <3>2. started' \in 0 .. MaxJobs /\ contended' \subseteq Ids
      BY <1>1, <3>1
    <3>3. Len(proxies') <= MaxProxies
      BY <3>1, NumbersAssumption DEF Ids
    <3> QED
      BY <2>3, <3>2, <3>3 DEF Insert, Books
  <2>4. CASE InsertEvent(a)
    <3>1. PICK row \in job[a].rows : log' = Logged(row.id, "none", "short_term_candidate")
      BY <2>4 DEF InsertEvent
    <3>2. [from |-> "none", to |-> "short_term_candidate"] \in Event
      BY DEF Event, States
    <3>3. log' \in [Ids -> Seq(Event)]
      <4> DEFINE e == [from |-> "none", to |-> "short_term_candidate"]
      <4>1. \A i \in Ids : log[i] \in Seq(Event) /\ Append(log[i], e) \in Seq(Event)
        BY <3>2 DEF Books
      <4>2. log' = [log EXCEPT ![row.id] = Append(log[row.id], e)]
        BY <3>1 DEF Logged
      <4> HIDE DEF e
      <4> QED
        BY <4>1, <4>2 DEF Books
    <3> QED
      BY <2>4, <3>3 DEF InsertEvent, Books
  <2>5. CASE Reread(a)
    BY <2>5 DEF Reread, Books
  <2>6. CASE Touch(a)
    <3>1. PICK row \in job[a].rows :
             /\ \/ proxies' = [proxies EXCEPT ![row.id].accesses = @ + 1,
                                              ![row.id].accessed = clock]
                \/ proxies' = proxies
             /\ touched' \subseteq touched \cup {row.id}
      BY <2>6 DEF Touch
    <3>2. row.id \in Ids
      BY HeldIds DEF Held
    <3>3. Len(proxies') = Len(proxies)
      BY <3>1 DEF IInv, Shape
    <3> QED
      BY <2>6, <3>1, <3>2, <3>3 DEF Touch, Books
  <2>7. CASE Kill(a)
    <3>1. cut' \subseteq Ids
      BY <2>7, HeldIds DEF Kill, Books
    <3> QED
      BY <2>7, <3>1 DEF Kill, Books
  <2> QED
    BY <1>2, <2>1, <2>2, <2>3, <2>4, <2>5, <2>6, <2>7, Steps
<1>3. CASE Tick \/ UNCHANGED vars
  BY <1>3 DEF Tick, vars, Books
<1> QED
  BY <1>2, <1>3 DEF Next

LEMMA BooksInit == Init => Books
  BY NumbersAssumption DEF Init, Books

\* TypeOK for every instance.
THEOREM TypeCorrect == Spec => []TypeOK
<1>1. IInv /\ Books => TypeOK
  BY DEF IInv, Shape, JobType, Books, Event, TypeOK
<1> QED
  BY <1>1, InitInv, StepInv, AimInit, AimStep, BooksInit, BooksStep, PTL DEF Spec

-----------------------------------------------------------------------------
(* Facts were long-term memory: the evidence is in the log, which only       *)
(* grows, so a promotion that acts on an old row still has it.               *)

Legal(e) == <<e.from, e.to>> \in Pairs

HasLong(i) == \E m \in DOMAIN log[i] : log[i][m].to = "long_term_memory"

HasFact(i) ==
    \E m, n \in DOMAIN log[i] :
      m < n /\ log[i][m].to = "long_term_memory" /\ log[i][n].to = "semantic_fact"

Evidence ==
    /\ \A i \in Ids : \A n \in DOMAIN log[i] : Legal(log[i][n])
    /\ \A i \in DOMAIN proxies : proxies[i].state = "long_term_memory" => HasLong(i)
    /\ \A i \in DOMAIN proxies : proxies[i].state = "semantic_fact" => HasFact(i)
    /\ \A a \in Actors : job[a].kind = "semantic" => \A r \in job[a].current : HasLong(r.id)

\* What an appended event keeps and adds.
LEMMA Appended ==
    ASSUME Books, NEW i \in Ids, NEW e, log'[i] = Append(log[i], e)
    PROVE  /\ Len(log[i]) \in Nat /\ Len(log'[i]) = Len(log[i]) + 1
           /\ DOMAIN log[i] = 1 .. Len(log[i]) /\ DOMAIN log'[i] = 1 .. (Len(log[i]) + 1)
           /\ \A n \in DOMAIN log[i] : log'[i][n] = log[i][n]
           /\ log'[i][Len(log[i]) + 1] = e
<1>1. log[i] \in Seq(Event)
  BY DEF Books
<1> QED
  BY <1>1

\* The log of a proxy only grows, by legal events.
LEMMA LogGrows ==
    ASSUME IInv, Aim, Books, [Next]_vars, NEW i \in Ids
    PROVE  log'[i] = log[i] \/ \E e : Legal(e) /\ log'[i] = Append(log[i], e)
<1>1. ASSUME NEW a \in Actors, Act(a)
      PROVE  log'[i] = log[i] \/ \E e : Legal(e) /\ log'[i] = Append(log[i], e)
  <2>1. CASE Write(a)
    <3>1. PICK row \in Work(a), to \in States :
             <<row.state, to>> \in Pairs /\ Transition(row, to)
      BY <2>1 DEF Write
    <3>2. row.id \in DOMAIN proxies
      BY DEF IInv, Read
    <3>3. Legal([from |-> row.state, to |-> to])
      BY <3>1 DEF Legal
    <3> QED
      BY <3>1, <3>2, <3>3, Transits
  <2>2. CASE InsertEvent(a)
    <3> DEFINE e == [from |-> "none", to |-> "short_term_candidate"]
    <3>1. PICK row \in job[a].rows : log' = [log EXCEPT ![row.id] = Append(@, e)]
      BY <2>2 DEF InsertEvent, Logged
    <3>2. log'[i] = log[i] \/ log'[i] = Append(log[i], e)
      BY <3>1 DEF Books
    <3>3. Legal(e)
      BY DEF Legal, Pairs
    <3> QED
      BY <3>2, <3>3
  <2>3. CASE log' = log
    BY <2>3
  <2>4. Begin(a) \/ Insert(a) \/ Reread(a) \/ Touch(a) \/ Kill(a) => log' = log
    BY DEF Begin, Insert, Reread, Touch, Kill
  <2> QED
    BY <1>1, <2>1, <2>2, <2>3, <2>4, Steps
<1>2. Tick \/ UNCHANGED vars => log' = log
  BY DEF Tick, vars
<1> QED
  BY <1>1, <1>2 DEF Next

\* So evidence is never lost.
LEMMA EvidenceStays ==
    ASSUME IInv, Aim, Books, [Next]_vars, NEW i \in Ids
    PROVE  (HasLong(i) => HasLong(i)') /\ (HasFact(i) => HasFact(i)')
<1>1. CASE log'[i] = log[i]
  BY <1>1 DEF HasLong, HasFact
<1>2. ASSUME NEW e, log'[i] = Append(log[i], e)
      PROVE  (HasLong(i) => HasLong(i)') /\ (HasFact(i) => HasFact(i)')
  BY <1>2, Appended DEF HasLong, HasFact
<1> QED
  BY <1>1, <1>2, LogGrows

\* What a touch changes of the table.
LEMMA Touches ==
    ASSUME IInv, NEW a \in Actors, Touch(a)
    PROVE  \E row \in job[a].rows :
             /\ Rest(a, row)
             /\ DOMAIN proxies' = DOMAIN proxies /\ Len(proxies') = Len(proxies)
             /\ \A i \in DOMAIN proxies : proxies'[i].state = proxies[i].state
             /\ \A i \in DOMAIN proxies : i # row.id => proxies'[i] = proxies[i]
             /\ \/ proxies' = proxies /\ touched' = touched
                \/ touched' = touched \cup
                     {i \in {row.id} : \E b \in Actors : job[b].kind = "decay" /\ i \in Held(b)}
<1>1. PICK row \in job[a].rows :
         /\ Rest(a, row)
         /\ \/ /\ proxies' = [proxies EXCEPT ![row.id].accesses = @ + 1,
                                             ![row.id].accessed = clock]
               /\ touched' = touched \cup
                    {i \in {row.id} : \E b \in Actors : job[b].kind = "decay" /\ i \in Held(b)}
            \/ UNCHANGED <<proxies, touched>>
  BY DEF Touch
<1>2. \A i \in DOMAIN proxies : proxies[i] \in RowType
  BY DEF IInv, Shape
<1>3. DOMAIN proxies' = DOMAIN proxies /\ Len(proxies') = Len(proxies)
  BY <1>1 DEF IInv, Shape
<1>4. \A i \in DOMAIN proxies : i # row.id => proxies'[i] = proxies[i]
  BY <1>1
<1>5. row.id \in DOMAIN proxies => proxies'[row.id].state = proxies[row.id].state
  BY <1>1, <1>2 DEF RowType
<1>6. \A i \in DOMAIN proxies : proxies'[i].state = proxies[i].state
  BY <1>4, <1>5
<1> QED
  BY <1>1, <1>3, <1>4, <1>6

LEMMA EvidenceStep == IInv /\ Aim /\ Books /\ Evidence /\ [Next]_vars => Evidence'
<1> SUFFICES ASSUME IInv, Aim, Books, Evidence, [Next]_vars PROVE Evidence'
  OBVIOUS
<1>1. job \in [Actors -> JobType]
  BY DEF IInv, Shape
<1>2. \A i \in Ids : \A n \in DOMAIN log'[i] : Legal(log'[i][n])
  <2> SUFFICES ASSUME NEW i \in Ids PROVE \A n \in DOMAIN log'[i] : Legal(log'[i][n])
    OBVIOUS
  <2>1. \A n \in DOMAIN log[i] : Legal(log[i][n])
    BY DEF Evidence
  <2>2. CASE log'[i] = log[i]
    BY <2>1, <2>2
  <2>3. ASSUME NEW e, Legal(e), log'[i] = Append(log[i], e)
        PROVE  \A n \in DOMAIN log'[i] : Legal(log'[i][n])
    BY <2>1, <2>3, Appended
  <2> QED
    BY <2>2, <2>3, LogGrows
<1>3. \A i \in Ids : (HasLong(i) => HasLong(i)') /\ (HasFact(i) => HasFact(i)')
  BY EvidenceStays
\* The rest of a step that changes neither the state of a row nor takes up a
\* promotion to semantic memory.
<1>4. ASSUME DOMAIN proxies \subseteq DOMAIN proxies',
             \A i \in DOMAIN proxies : proxies'[i].state = proxies[i].state,
             \A i \in DOMAIN proxies' \ DOMAIN proxies :
                proxies'[i].state = "short_term_candidate",
             \A b \in Actors : job'[b].kind = "semantic" =>
                job[b].kind = "semantic" /\ job'[b].current \subseteq job[b].current
      PROVE  Evidence'
  <2>1. \A i \in DOMAIN proxies : i \in Ids
    BY RowIds
  <2>2. \A b \in Actors : \A r \in job[b].current : r.id \in Ids
    BY <2>1 DEF IInv, Read, Work
  <2>3. \A i \in DOMAIN proxies' : proxies'[i].state = "long_term_memory" => HasLong(i)'
    BY <1>3, <1>4, <2>1 DEF Evidence
  <2>4. \A i \in DOMAIN proxies' : proxies'[i].state = "semantic_fact" => HasFact(i)'
    BY <1>3, <1>4, <2>1 DEF Evidence
  <2>5. \A b \in Actors : job'[b].kind = "semantic" => \A r \in job'[b].current : HasLong(r.id)'
    BY <1>3, <1>4, <2>2 DEF Evidence
  <2> QED
    BY <1>2, <2>3, <2>4, <2>5 DEF Evidence
<1>5. ASSUME NEW a \in Actors, Act(a) PROVE Evidence'
  <2>1. CASE Begin(a)
    <3>1. PICK kind \in Kinds, rows \in SUBSET Rows, current \in SUBSET Rows,
               cutoff \in 0 .. MaxTime :
             Chosen(kind, rows, current, cutoff) /\ Take(a, kind, rows, current, cutoff)
      BY <2>1 DEF Begin
    <3> DEFINE j == [kind |-> kind, rows |-> rows, current |-> current, cutoff |-> cutoff]
    <3>2. /\ job'[a] = j
          /\ \A b \in Actors \ {a} : job'[b] = job[b]
      BY <1>1, <3>1 DEF Take
    <3>3. proxies' = proxies /\ log' = log
      BY <2>1 DEF Begin
    <3>4. \A r \in current : r \in Rows /\ (kind = "semantic" => r.state = "long_term_memory")
      BY <3>1 DEF Chosen
    <3>5. kind = "semantic" => \A r \in current : HasLong(r.id)
      BY <3>4 DEF Rows, Evidence, IInv, Shape
    <3> QED
      BY <1>2, <3>2, <3>3, <3>5 DEF Evidence, HasLong, HasFact
  <2>2. CASE Write(a)
    <3>1. PICK row \in Work(a), to \in States, j \in JobType :
             /\ <<row.state, to>> \in Pairs
             /\ to = "semantic_fact" => job[a].kind = "semantic" /\ row \in job[a].current
             /\ Transition(row, to)
             /\ job' = [job EXCEPT ![a] = j] /\ Left(a, row, j)
      BY <2>2 DEF Write
    <3>2. row.id \in DOMAIN proxies /\ DOMAIN proxies \subseteq Ids
      BY HeldIds DEF IInv, Read
    <3>3. /\ DOMAIN proxies' = DOMAIN proxies
          /\ \A i \in DOMAIN proxies : i # row.id => proxies'[i] = proxies[i]
          /\ proxies'[row.id].state = to
          /\ log'[row.id] = Append(log[row.id], [from |-> row.state, to |-> to])
      BY <3>1, <3>2, Transits
    <3>4. /\ log'[row.id][Len(log[row.id]) + 1].to = to
          /\ Len(log[row.id]) + 1 \in DOMAIN log'[row.id]
          /\ DOMAIN log[row.id] = 1 .. Len(log[row.id]) /\ Len(log[row.id]) \in Nat
          /\ DOMAIN log[row.id] \subseteq DOMAIN log'[row.id]
          /\ \A n \in DOMAIN log[row.id] : log'[row.id][n] = log[row.id][n]
      BY <3>2, <3>3, Appended
    <3>5. to = "long_term_memory" => HasLong(row.id)'
      BY <3>4 DEF HasLong
    <3>6. to = "semantic_fact" => HasFact(row.id)'
      <4> SUFFICES ASSUME to = "semantic_fact" PROVE HasFact(row.id)'
        OBVIOUS
      <4>1. PICK m \in DOMAIN log[row.id] : log[row.id][m].to = "long_term_memory"
        BY <3>1 DEF Evidence, HasLong
      <4>2. m < Len(log[row.id]) + 1
        BY <3>4, <4>1
      <4> QED
        BY <3>4, <4>1, <4>2 DEF HasFact
    <3>7. \A i \in DOMAIN proxies' :
             /\ proxies'[i].state = "long_term_memory" => HasLong(i)'
             /\ proxies'[i].state = "semantic_fact" => HasFact(i)'
      BY <1>3, <3>2, <3>3, <3>5, <3>6 DEF Evidence
    <3>8. \A b \in Actors : job'[b].kind = "semantic" =>
             job[b].kind = "semantic" /\ job'[b].current \subseteq job[b].current
      BY <1>1, <3>1 DEF Left, Idle
    <3>9. \A b \in Actors : \A r \in job[b].current : r.id \in Ids
      BY <3>2 DEF IInv, Read, Work
    <3>10. \A b \in Actors : job'[b].kind = "semantic" =>
              \A r \in job'[b].current : HasLong(r.id)'
      BY <1>3, <3>8, <3>9 DEF Evidence
    <3> QED
      BY <1>2, <3>7, <3>10 DEF Evidence
  <2>3. CASE Insert(a)
    <3>1. PICK row \in RowType :
             /\ row.state = "short_term_candidate"
             /\ DOMAIN proxies' = DOMAIN proxies \cup {row.id}
             /\ \A i \in DOMAIN proxies : proxies'[i] = proxies[i]
             /\ proxies'[row.id] = row
             /\ Take(a, "extract", {row}, {}, 0)
      BY <2>3, Inserts
    <3>2. \A b \in Actors : job'[b] = job[b] \/ job'[b].kind = "extract"
      BY <1>1, <3>1 DEF Take
    <3> QED
      BY <1>4, <3>1, <3>2
  <2>4. CASE InsertEvent(a) \/ Touch(a)
    <3>1. PICK row \in job[a].rows : Rest(a, row)
      BY <2>4 DEF InsertEvent, Touch
    <3>2. PICK j \in JobType : job' = [job EXCEPT ![a] = j] /\ Left(a, row, j)
      BY <3>1, RestLeft
    <3>3. \A b \in Actors : job'[b].kind = "semantic" =>
             job[b].kind = "semantic" /\ job'[b].current \subseteq job[b].current
      BY <1>1, <3>2 DEF Left, Idle
    <3>4. /\ DOMAIN proxies' = DOMAIN proxies
          /\ \A i \in DOMAIN proxies : proxies'[i].state = proxies[i].state
      BY <2>4, Touches DEF InsertEvent
    <3> QED
      BY <1>4, <3>3, <3>4
  <2>5. CASE Reread(a)
    <3>1. PICK j : /\ job[a].kind = "promote" /\ job' = [job EXCEPT ![a] = j]
                   /\ j = Idle \/ j.kind = "promote"
      BY <2>5, Rereads
    <3>2. \A b \in Actors : job'[b] = job[b] \/ job'[b].kind # "semantic"
      BY <1>1, <3>1 DEF Idle
    <3> QED
      BY <1>4, <2>5, <3>2 DEF Reread
  <2>6. CASE Kill(a)
    <3>1. \A b \in Actors : job'[b] = job[b] \/ job'[b].kind # "semantic"
      BY <1>1, <2>6 DEF Kill, Idle
    <3> QED
      BY <1>4, <2>6, <3>1 DEF Kill
  <2> QED
    BY <1>5, <2>1, <2>2, <2>3, <2>4, <2>5, <2>6, Steps
<1>6. CASE Tick \/ UNCHANGED vars
  BY <1>4, <1>6 DEF Tick, vars
<1> QED
  BY <1>5, <1>6 DEF Next

\* FactsWereLongTerm for every instance: however many passes race, a fact was
\* long-term memory first, and the log knows four transitions.
THEOREM FactsHold == Spec => []FactsWereLongTerm
<1>1. Init => Evidence
  BY DEF Init, Evidence, Idle
<1>2. IInv /\ Evidence => FactsWereLongTerm
  BY RowIds DEF Evidence, Legal, HasFact, FactsWereLongTerm
<1> QED
  BY <1>1, <1>2, InitInv, StepInv, AimInit, AimStep, BooksInit, BooksStep, EvidenceStep,
     PTL DEF Spec

-----------------------------------------------------------------------------
(* The history: a row nobody contends for has one writer at a time, which    *)
(* knows its state, so every event starts where the last one ended.          *)

Sole == \A a, b \in Writers : a # b => Held(a) \cap Held(b) \subseteq contended

Fresh ==
    \A a \in Actors : \A r \in Work(a) : r.id \notin contended =>
      /\ job[a].kind \in Worked => r.state = proxies[r.id].state
      /\ job[a].kind = "decay" /\ r.id \notin touched => r = proxies[r.id]

Newborn ==
    \A a \in Actors : job[a].kind = "extract" => \A i \in Held(a) \ contended :
        log[i] = <<>> /\ proxies[i].state = "short_term_candidate"

Blank == \A i \in Ids \ DOMAIN proxies : log[i] = <<>>

Born(i) == \A a \in Actors : job[a].kind = "extract" => i \notin Held(a)

Told(i) ==
    \/ log[i] = <<>> /\ i \in cut /\ proxies[i].state = "short_term_candidate"
    \/ /\ log[i] # <<>>
       /\ Chained(log[i])
       /\ log[i][1].from = "none" \/ i \in cut
       /\ log[i][Len(log[i])].to = proxies[i].state

Known == Sole /\ Fresh /\ Newborn /\ Blank

\* A process goes on with what it holds, or stops.
Narrows ==
    \A b \in Actors :
      /\ Held(b)' \subseteq Held(b)
      /\ job'[b] = Idle \/ (job'[b].kind = job[b].kind /\ job'[b].cutoff = job[b].cutoff)

LEMMA Shrinking ==
    ASSUME IInv, Aim, NEW a \in Actors, Write(a) \/ InsertEvent(a) \/ Touch(a) \/ Kill(a)
    PROVE  /\ Narrows /\ contended' = contended
           /\ \A b \in Actors \ {a} : job'[b] = job[b]
           /\ \A b \in Actors : Work(b)' \subseteq Work(b)
<1>1. job \in [Actors -> JobType] /\ job[a] \in JobType
  BY DEF IInv, Shape
<1>2. ASSUME NEW j, job' = [job EXCEPT ![a] = j], j.rows \cup j.current \subseteq Work(a),
             j = Idle \/ (j.kind = job[a].kind /\ j.cutoff = job[a].cutoff)
      PROVE  /\ Narrows
             /\ \A b \in Actors \ {a} : job'[b] = job[b]
             /\ \A b \in Actors : Work(b)' \subseteq Work(b)
  <2>1. job'[a] = j /\ \A b \in Actors \ {a} : job'[b] = job[b]
    BY <1>1, <1>2
  <2> QED
    BY <1>2, <2>1 DEF Narrows, Held, Work
<1>3. CASE Write(a)
  <2>1. PICK row, j : job' = [job EXCEPT ![a] = j] /\ Left(a, row, j)
    BY <1>3 DEF Write
  <2> QED
    BY <1>2, <1>3, <2>1 DEF Left, Work, Write
<1>4. CASE InsertEvent(a) \/ Touch(a)
  <2>1. PICK row \in job[a].rows : Rest(a, row)
    BY <1>4 DEF InsertEvent, Touch
  <2>2. PICK j \in JobType : job' = [job EXCEPT ![a] = j] /\ Left(a, row, j)
    BY <2>1, RestLeft
  <2> QED
    BY <1>2, <1>4, <2>2 DEF Left, Work, InsertEvent, Touch
<1>5. CASE Kill(a)
  <2>1. job' = [job EXCEPT ![a] = Idle] /\ Idle.rows \cup Idle.current = {}
    BY <1>5 DEF Kill, Idle
  <2> QED
    BY <1>2, <1>5, <2>1 DEF Kill
<1> QED
  BY <1>3, <1>4, <1>5

LEMMA Narrowing ==
    ASSUME IInv, Aim, NEW a \in Actors,
           Write(a) \/ InsertEvent(a) \/ Reread(a) \/ Touch(a) \/ Kill(a)
    PROVE  /\ Narrows /\ contended' = contended
           /\ \A b \in Actors \ {a} : job'[b] = job[b]
<1>1. CASE Reread(a)
  <2>1. PICK next \in NextNewest(a), j \in JobType :
           /\ job[a].kind = "promote" /\ job' = [job EXCEPT ![a] = j]
           /\ \/ j = Idle
              \/ /\ j.kind = "promote" /\ j.rows = job[a].rows
                 /\ j.current = {proxies[next.id]} /\ j.cutoff = job[a].cutoff
                 /\ proxies[next.id].id = next.id
    BY <1>1, Rereads
  <2>2. next \in job[a].rows
    BY DEF NextNewest
  <2>3. job'[a] = j /\ \A b \in Actors \ {a} : job'[b] = job[b]
    BY <2>1 DEF IInv, Shape
  <2>4. Held(a)' \subseteq Held(a)
    BY <2>1, <2>2, <2>3 DEF Held, Idle
  <2>5. Narrows
    BY <2>1, <2>3, <2>4 DEF Narrows, Held
  <2> QED
    BY <1>1, <2>3, <2>5 DEF Reread
<1> QED
  BY <1>1, Shrinking

IdsOf(rows) == {r.id : r \in rows}

\* What a process holds when it takes up a job.
LEMMA Taken ==
    ASSUME IInv, NEW a \in Actors, NEW j, job' = [job EXCEPT ![a] = j]
    PROVE  /\ job'[a] = j
           /\ Work(a)' = j.rows \cup j.current
           /\ Held(a)' = IdsOf(j.rows \cup j.current)
           /\ \A b \in Actors \ {a} : job'[b] = job[b] /\ Work(b)' = Work(b) /\ Held(b)' = Held(b)
<1>1. job'[a] = j /\ \A b \in Actors \ {a} : job'[b] = job[b]
  BY DEF IInv, Shape
<1> QED
  BY <1>1 DEF Work, Held, IdsOf

LEMMA SoleStep == IInv /\ Aim /\ Sole /\ [Next]_vars => Sole'
<1> SUFFICES ASSUME IInv, Aim, Sole, [Next]_vars PROVE Sole'
  OBVIOUS
<1>1. ASSUME Narrows, contended' = contended PROVE Sole'
  <2>1. \A b \in Actors : b \in Writers' => b \in Writers
    BY <1>1 DEF Narrows, Writers, Idle
  <2> QED
    BY <1>1, <2>1 DEF Sole, Narrows, Writers
<1>2. ASSUME NEW a \in Actors, NEW kind, NEW rows, NEW current, NEW cutoff,
             Take(a, kind, rows, current, cutoff)
      PROVE  Sole'
  <2>1. /\ \A b \in Actors \ {a} : job'[b] = job[b] /\ Held(b)' = Held(b)
        /\ job'[a].kind = kind
        /\ Held(a)' = IdsOf(rows \cup current) /\ contended \subseteq contended'
    <3> DEFINE j == [kind |-> kind, rows |-> rows, current |-> current, cutoff |-> cutoff]
    <3>1. job' = [job EXCEPT ![a] = j] /\ contended \subseteq contended'
      BY <1>2 DEF Take
    <3>2. j.kind = kind /\ j.rows = rows /\ j.current = current
      OBVIOUS
    <3> HIDE DEF j
    <3> QED
      BY <3>1, <3>2, Taken
  <2>2. \A b \in Actors \ {a} : b \in Writers' => b \in Writers
    BY <2>1 DEF Writers
  <2>3. ASSUME NEW b \in Writers \ {a}, kind # "project"
        PROVE  Held(a)' \cap Held(b) \subseteq contended'
    BY <1>2, <2>1, <2>3 DEF Take, Contended, IdsOf
  <2>4. a \in Writers' => kind # "project"
    BY <2>1 DEF Writers
  <2>5. \A b \in Writers' \ {a} : Held(a)' \cap Held(b)' \subseteq contended' \/ a \notin Writers'
    BY <2>1, <2>2, <2>3, <2>4 DEF Writers
  <2>6. \A b, c \in Writers' \ {a} : b # c => Held(b)' \cap Held(c)' \subseteq contended'
    BY <2>1, <2>2 DEF Sole, Writers
  <2> QED
    BY <2>5, <2>6 DEF Sole, Writers
<1>3. ASSUME NEW a \in Actors, Act(a) PROVE Sole'
  <2>1. CASE Begin(a) \/ Insert(a)
    BY <1>2, <2>1 DEF Begin, Insert
  <2>2. CASE Write(a) \/ InsertEvent(a) \/ Reread(a) \/ Touch(a) \/ Kill(a)
    BY <1>1, <2>2, Narrowing
  <2> QED
    BY <1>3, <2>1, <2>2, Steps
<1>4. CASE Tick \/ UNCHANGED vars
  BY <1>4 DEF Tick, vars, Sole, Writers, Held
<1> QED
  BY <1>3, <1>4 DEF Next

LEMMA FreshStep == IInv /\ Aim /\ Books /\ Sole /\ Fresh /\ [Next]_vars => Fresh'
<1> SUFFICES ASSUME IInv, Aim, Books, Sole, Fresh, [Next]_vars PROVE Fresh'
  OBVIOUS
<1>1. \A b \in Actors : \A r \in Work(b) : r.id \in DOMAIN proxies
  BY DEF IInv, Read
<1>2. ASSUME NEW a \in Actors, NEW kind, NEW rows, NEW current, NEW cutoff,
             Take(a, kind, rows, current, cutoff),
             \A i \in DOMAIN proxies : proxies'[i] = proxies[i],
             touched' = touched,
             \A r \in rows \cup current : r = proxies'[r.id]
      PROVE  Fresh'
  <2>1. /\ job'[a].kind = kind /\ Work(a)' = rows \cup current
        /\ \A b \in Actors \ {a} : job'[b] = job[b] /\ Work(b)' = Work(b)
        /\ contended \subseteq contended'
    <3> DEFINE j == [kind |-> kind, rows |-> rows, current |-> current, cutoff |-> cutoff]
    <3>1. job' = [job EXCEPT ![a] = j] /\ contended \subseteq contended'
      BY <1>2 DEF Take
    <3>2. j.kind = kind /\ j.rows = rows /\ j.current = current
      OBVIOUS
    <3> HIDE DEF j
    <3> QED
      BY <3>1, <3>2, Taken
  <2>2. ASSUME NEW b \in Actors \ {a}, NEW r \in Work(b)', r.id \notin contended'
        PROVE  /\ job'[b].kind \in Worked => r.state = proxies'[r.id].state
               /\ job'[b].kind = "decay" /\ r.id \notin touched' => r = proxies'[r.id]
    BY <1>1, <1>2, <2>1, <2>2 DEF Fresh
  <2> QED
    BY <1>2, <2>1, <2>2 DEF Fresh
<1>3. ASSUME NEW a \in Actors, Act(a) PROVE Fresh'
  <2>1. CASE Begin(a)
    <3>1. \A r \in Rows : r = proxies[r.id]
      BY DEF Rows, IInv, Shape
    <3> QED
      BY <1>2, <2>1, <3>1 DEF Begin
  <2>2. CASE Insert(a)
    <3>1. PICK row \in RowType :
             /\ \A i \in DOMAIN proxies : proxies'[i] = proxies[i]
             /\ proxies'[row.id] = row
             /\ Take(a, "extract", {row}, {}, 0)
      BY <2>2, Inserts
    <3> QED
      BY <1>2, <2>2, <3>1 DEF Insert
  <2>3. CASE Write(a)
    <3>1. PICK row \in Work(a), to \in States, j \in JobType :
             /\ job[a].kind \in Worked /\ Transition(row, to)
             /\ job' = [job EXCEPT ![a] = j] /\ Left(a, row, j)
      BY <2>3 DEF Write
    <3>2. \A i \in DOMAIN proxies : i # row.id => proxies'[i] = proxies[i]
      BY <1>1, <3>1, Transits
    <3>3. job'[a] = j
      BY <3>1 DEF IInv, Shape
    <3>4. \A r \in Work(a)' : r.id # row.id
      BY <3>1, <3>3 DEF Work, Left
    <3>5. \A b \in Actors \ {a} : \A r \in Work(b) :
             job[b].kind \in Worked /\ r.id = row.id => r.id \in contended
      <4> SUFFICES ASSUME NEW b \in Actors \ {a}, NEW r \in Work(b),
                          job[b].kind \in Worked, r.id = row.id
                   PROVE  r.id \in contended
        OBVIOUS
      <4>1. a \in Writers /\ b \in Writers
        BY <3>1 DEF Writers, Worked
      <4>2. r.id \in Held(a) /\ r.id \in Held(b)
        BY DEF Held, Work
      <4> QED
        BY <4>1, <4>2 DEF Sole
    <3>6. /\ Narrows /\ contended' = contended /\ touched' = touched
          /\ \A b \in Actors \ {a} : job'[b] = job[b]
          /\ \A b \in Actors : Work(b)' \subseteq Work(b)
      BY <2>3, Shrinking DEF Write
    <3>7. \A b \in Actors : job'[b].kind \in Worked => job'[b].kind = job[b].kind
      BY <3>6 DEF Narrows, Idle, Worked
    <3>8. ASSUME NEW b \in Actors, NEW r \in Work(b)', r.id \notin contended',
                 job'[b].kind \in Worked
          PROVE  /\ r.state = proxies'[r.id].state
                 /\ job'[b].kind = "decay" /\ r.id \notin touched' => r = proxies'[r.id]
      <4>1. r \in Work(b) /\ r.id \in DOMAIN proxies /\ job'[b].kind = job[b].kind
        BY <1>1, <3>6, <3>7, <3>8
      <4>2. r.id # row.id
        BY <3>4, <3>5, <3>6, <3>8, <4>1
      <4>3. proxies'[r.id] = proxies[r.id]
        BY <3>2, <4>1, <4>2
      <4> QED
        BY <3>6, <3>8, <4>1, <4>3 DEF Fresh
    <3> QED
      BY <3>8 DEF Fresh, Worked
  <2>4. CASE InsertEvent(a) \/ Kill(a)
    <3>1. /\ Narrows /\ contended' = contended
          /\ \A b \in Actors : Work(b)' \subseteq Work(b)
      BY <2>4, Shrinking
    <3>2. proxies' = proxies /\ touched' = touched
      BY <2>4 DEF InsertEvent, Kill
    <3>3. \A b \in Actors : job'[b].kind \in Worked => job'[b].kind = job[b].kind
      BY <3>1 DEF Narrows, Idle, Worked
    <3> QED
      BY <3>1, <3>2, <3>3 DEF Fresh, Worked
  <2>5. CASE Reread(a)
    <3>1. PICK next \in NextNewest(a), j \in JobType :
             /\ job' = [job EXCEPT ![a] = j]
             /\ \/ j = Idle
                \/ /\ j.kind = "promote" /\ j.rows = job[a].rows
                   /\ j.current = {proxies[next.id]} /\ job[a].kind = "promote"
                   /\ proxies[next.id].id = next.id
      BY <2>5, Rereads
    <3>2. job'[a] = j /\ \A b \in Actors \ {a} : job'[b] = job[b]
      BY <3>1 DEF IInv, Shape
    <3>3. UNCHANGED <<proxies, contended, touched>>
      BY <2>5 DEF Reread
    <3> QED
      BY <3>1, <3>2, <3>3 DEF Fresh, Work, Worked, Idle
  <2>6. CASE Touch(a)
    <3>1. PICK row \in job[a].rows :
             /\ \A i \in DOMAIN proxies : proxies'[i].state = proxies[i].state
             /\ \A i \in DOMAIN proxies : i # row.id => proxies'[i] = proxies[i]
             /\ \/ proxies' = proxies /\ touched' = touched
                \/ touched' = touched \cup
                     {i \in {row.id} : \E b \in Actors : job[b].kind = "decay" /\ i \in Held(b)}
      BY <2>6, Touches
    <3>2. /\ Narrows /\ contended' = contended
          /\ \A b \in Actors : Work(b)' \subseteq Work(b)
      BY <2>6, Shrinking
    <3>3. \A b \in Actors : job'[b].kind \in Worked => job'[b].kind = job[b].kind
      BY <3>2 DEF Narrows, Idle, Worked
    <3>4. ASSUME NEW b \in Actors, NEW r \in Work(b)', r.id \notin contended',
                 job'[b].kind \in Worked
          PROVE  /\ r.state = proxies'[r.id].state
                 /\ job'[b].kind = "decay" /\ r.id \notin touched' => r = proxies'[r.id]
      <4>1. r \in Work(b) /\ r.id \in DOMAIN proxies /\ job'[b].kind = job[b].kind
        BY <1>1, <3>2, <3>3, <3>4
      <4>2. r.state = proxies'[r.id].state
        BY <3>1, <3>2, <3>4, <4>1 DEF Fresh
      <4>3. ASSUME job[b].kind = "decay", r.id \notin touched'
            PROVE  r = proxies'[r.id]
        <5>1. r.id \in Held(b)
          BY <4>1 DEF Held, Work
        <5>2. r.id \notin touched /\ proxies'[r.id] = proxies[r.id]
          BY <3>1, <4>1, <4>3, <5>1
        <5> QED
          BY <3>2, <3>4, <4>1, <4>3, <5>2 DEF Fresh
      <4> QED
        BY <4>1, <4>2, <4>3
    <3> QED
      BY <3>4 DEF Fresh, Worked
  <2> QED
    BY <1>3, <2>1, <2>2, <2>3, <2>4, <2>5, <2>6, Steps
<1>4. CASE Tick \/ UNCHANGED vars
  BY <1>4 DEF Tick, vars, Fresh, Work
<1> QED
  BY <1>3, <1>4 DEF Next

\* What a pass that moves a row changes.
LEMMA Moves ==
    ASSUME IInv, Aim, Books, NEW a \in Actors, Write(a)
    PROVE  \E row \in Work(a), to \in States :
             /\ job[a].kind \in Worked
             /\ to = "decayed" => job[a].kind = "decay" /\ row \in job[a].rows
             /\ row.id \in DOMAIN proxies /\ row.id \in Ids
             /\ row.state \in States
             /\ log'[row.id] = Append(log[row.id], [from |-> row.state, to |-> to])
             /\ \A i \in Ids : i # row.id => log'[i] = log[i]
             /\ DOMAIN proxies' = DOMAIN proxies /\ proxies'[row.id].state = to
             /\ \A i \in DOMAIN proxies : i # row.id => proxies'[i] = proxies[i]
<1>1. PICK row \in Work(a), to \in States :
         /\ job[a].kind \in Worked /\ Transition(row, to)
         /\ to = "decayed" => job[a].kind = "decay" /\ row \in job[a].rows
  BY DEF Write
<1>2. row.id \in DOMAIN proxies /\ row.id \in Ids
  BY RowIds DEF IInv, Read
<1>3. row.state \in States
  BY DEF IInv, Shape, JobType, RowType, Work
<1>4. \A i \in DOMAIN proxies : proxies[i] \in RowType
  BY DEF IInv, Shape
<1>5. DOMAIN proxies' = DOMAIN proxies /\ proxies'[row.id].state = to
  BY <1>1, <1>2, <1>4 DEF Transition, IInv, Shape, RowType
<1>6. \A i \in DOMAIN proxies : i # row.id => proxies'[i] = proxies[i]
  BY <1>1 DEF Transition, IInv, Shape
<1>7. /\ log'[row.id] = Append(log[row.id], [from |-> row.state, to |-> to])
      /\ \A i \in Ids : i # row.id => log'[i] = log[i]
  BY <1>1, <1>2 DEF Transition, Logged, Books
<1> QED
  BY <1>1, <1>2, <1>3, <1>5, <1>6, <1>7

\* What the first event of a proxy changes.
LEMMA Extracts ==
    ASSUME IInv, Aim, Books, NEW a \in Actors, InsertEvent(a)
    PROVE  \E row \in job[a].rows :
             /\ job[a].kind = "extract" /\ proxies' = proxies /\ cut' = cut
             /\ row.id \in Ids /\ Held(a) = {row.id} /\ Held(a)' = {}
             /\ log'[row.id] = Append(log[row.id], [from |-> "none", to |-> "short_term_candidate"])
             /\ \A i \in Ids : i # row.id => log'[i] = log[i]
<1>1. PICK row \in job[a].rows :
         log' = Logged(row.id, "none", "short_term_candidate") /\ Rest(a, row)
  BY DEF InsertEvent
<1>2. row.id \in Ids
  BY RowIds DEF IInv, Read, Work
<1>3. /\ log'[row.id] = Append(log[row.id], [from |-> "none", to |-> "short_term_candidate"])
      /\ \A i \in Ids : i # row.id => log'[i] = log[i]
  BY <1>1, <1>2 DEF Logged, Books
<1>4. Held(a) = {row.id}
  BY DEF InsertEvent, Aim, Aimed, Held
<1>5. PICK j \in JobType : job' = [job EXCEPT ![a] = j] /\ Left(a, row, j)
  BY <1>1, RestLeft
<1>6. job'[a] = j
  BY <1>5, Taken
<1>7. Held(a)' = {}
  BY <1>5, <1>6 DEF Left, Held, InsertEvent, Aim, Aimed
<1> QED
  BY <1>2, <1>3, <1>4, <1>7 DEF InsertEvent

LEMMA BlankStep == IInv /\ Aim /\ Books /\ Blank /\ [Next]_vars => Blank'
<1> SUFFICES ASSUME IInv, Aim, Books, Blank, [Next]_vars PROVE Blank'
  OBVIOUS
<1>1. ASSUME NEW a \in Actors, Act(a) PROVE Blank'
  <2>1. CASE Write(a)
    BY <2>1, Moves DEF Blank
  <2>2. CASE InsertEvent(a)
    <3>1. \A row \in job[a].rows : row.id \in DOMAIN proxies
      BY DEF IInv, Read, Work
    <3> QED
      BY <2>2, <3>1, Extracts DEF Blank
  <2>3. CASE Insert(a)
    <3>1. DOMAIN proxies \subseteq DOMAIN proxies' /\ log' = log
      BY <2>3, Inserts DEF Insert
    <3> QED
      BY <3>1 DEF Blank
  <2>4. CASE Begin(a) \/ Reread(a) \/ Kill(a)
    BY <2>4 DEF Begin, Reread, Kill, Blank
  <2>5. CASE Touch(a)
    <3>1. DOMAIN proxies' = DOMAIN proxies /\ log' = log
      BY <2>5, Touches DEF Touch
    <3> QED
      BY <3>1 DEF Blank
  <2> QED
    BY <1>1, <2>1, <2>2, <2>3, <2>4, <2>5, Steps
<1>2. CASE Tick \/ UNCHANGED vars
  BY <1>2 DEF Tick, vars, Blank
<1> QED
  BY <1>1, <1>2 DEF Next

LEMMA NewbornStep ==
    IInv /\ Aim /\ Books /\ Blank /\ Sole /\ Newborn /\ [Next]_vars => Newborn'
<1> SUFFICES ASSUME IInv, Aim, Books, Blank, Sole, Newborn, [Next]_vars PROVE Newborn'
  OBVIOUS
<1>1. \A b \in Actors : \A i \in Held(b) : i \in DOMAIN proxies /\ i \in Ids
  BY RowIds DEF Held, IInv, Read, Work
<1>2. ASSUME Narrows, contended \subseteq contended',
             NEW out,
             \A i \in DOMAIN proxies \ {out} : log'[i] = log[i] /\ proxies'[i].state = proxies[i].state,
             \A b \in Actors : job'[b].kind = "extract" /\ out \in Held(b)' => out \in contended'
      PROVE  Newborn'
  <2>1. ASSUME NEW b \in Actors, job'[b].kind = "extract", NEW i \in Held(b)', i \notin contended'
        PROVE  log'[i] = <<>> /\ proxies'[i].state = "short_term_candidate"
    <3>1. job[b].kind = "extract" /\ i \in Held(b) /\ i \notin contended /\ i # out
      BY <1>2, <2>1 DEF Narrows, Idle
    <3> QED
      BY <1>1, <1>2, <3>1 DEF Newborn
  <2> QED
    BY <2>1 DEF Newborn
<1>3. ASSUME NEW a \in Actors, Act(a) PROVE Newborn'
  <2>1. CASE Begin(a)
    <3>1. PICK kind, rows, current, cutoff :
             /\ Chosen(kind, rows, current, cutoff) /\ Take(a, kind, rows, current, cutoff)
             /\ UNCHANGED <<proxies, log>>
      BY <2>1 DEF Begin
    <3> DEFINE j == [kind |-> kind, rows |-> rows, current |-> current, cutoff |-> cutoff]
    <3>2. job' = [job EXCEPT ![a] = j] /\ contended \subseteq contended'
      BY <3>1 DEF Take
    <3>3. j.kind # "extract"
      BY <3>1 DEF Chosen
    <3> HIDE DEF j
    <3>4. job'[a] = j /\ \A b \in Actors \ {a} : job'[b] = job[b] /\ Held(b)' = Held(b)
      BY <3>2, Taken
    <3> QED
      BY <3>1, <3>2, <3>3, <3>4 DEF Newborn
  <2>2. CASE Insert(a)
    <3>1. PICK row \in RowType :
             /\ row.id \notin DOMAIN proxies /\ row.id \in Ids
             /\ row.state = "short_term_candidate"
             /\ \A i \in DOMAIN proxies : proxies'[i] = proxies[i]
             /\ proxies'[row.id] = row
             /\ Take(a, "extract", {row}, {}, 0)
      BY <2>2, Inserts
    <3> DEFINE j == [kind |-> "extract", rows |-> {row}, current |-> {}, cutoff |-> 0]
    <3>2. job' = [job EXCEPT ![a] = j] /\ contended \subseteq contended'
      BY <3>1 DEF Take
    <3>3. IdsOf(j.rows \cup j.current) = {row.id}
      BY DEF IdsOf
    <3> HIDE DEF j
    <3>4. /\ Held(a)' = {row.id}
          /\ \A b \in Actors \ {a} : job'[b] = job[b] /\ Held(b)' = Held(b)
      BY <3>2, <3>3, Taken
    <3>5. log' = log /\ log[row.id] = <<>>
      BY <2>2, <3>1 DEF Insert, Blank
    <3>6. ASSUME NEW b \in Actors, job'[b].kind = "extract", NEW i \in Held(b)', i \notin contended'
          PROVE  log'[i] = <<>> /\ proxies'[i].state = "short_term_candidate"
      BY <1>1, <3>1, <3>2, <3>4, <3>5, <3>6 DEF Newborn
    <3> QED
      BY <3>6 DEF Newborn
  <2>3. CASE Write(a)
    <3>1. PICK row \in Work(a) :
             /\ job[a].kind \in Worked
             /\ \A i \in Ids : i # row.id => log'[i] = log[i]
             /\ \A i \in DOMAIN proxies : i # row.id => proxies'[i] = proxies[i]
      BY <2>3, Moves
    <3>2. Narrows /\ contended' = contended
      BY <2>3, Shrinking
    <3>3. \A i \in DOMAIN proxies : i \in Ids
      BY RowIds
    <3>4. ASSUME NEW b \in Actors, job'[b].kind = "extract", row.id \in Held(b)'
          PROVE  row.id \in contended'
      <4>1. job[b].kind = "extract" /\ row.id \in Held(b) /\ row.id \in Held(a)
        BY <3>2, <3>4 DEF Narrows, Idle, Held, Work
      <4>2. a \in Writers /\ b \in Writers /\ a # b
        BY <3>1, <4>1 DEF Writers, Worked
      <4> QED
        BY <3>2, <4>1, <4>2 DEF Sole
    <3> HIDE DEF Worked
    <3> QED
      BY <1>2, <3>1, <3>2, <3>3, <3>4
  <2>4. CASE InsertEvent(a)
    <3>1. PICK row \in job[a].rows :
             /\ job[a].kind = "extract" /\ proxies' = proxies
             /\ Held(a) = {row.id} /\ Held(a)' = {}
             /\ \A i \in Ids : i # row.id => log'[i] = log[i]
      BY <2>4, Extracts
    <3>2. Narrows /\ contended' = contended
      BY <2>4, Shrinking
    <3>3. \A i \in DOMAIN proxies : i \in Ids
      BY RowIds
    <3>4. ASSUME NEW b \in Actors, job'[b].kind = "extract", row.id \in Held(b)'
          PROVE  row.id \in contended'
      <4>1. job[b].kind = "extract" /\ row.id \in Held(b) /\ a # b
        BY <3>1, <3>2, <3>4 DEF Narrows, Idle
      <4>2. a \in Writers /\ b \in Writers
        BY <3>1, <4>1 DEF Writers
      <4> QED
        BY <3>1, <3>2, <4>1, <4>2 DEF Sole
    <3> QED
      BY <1>2, <3>1, <3>2, <3>3, <3>4
  <2>5. CASE Reread(a) \/ Kill(a) \/ Touch(a)
    <3>1. Narrows /\ contended' = contended
      BY <2>5, Narrowing
    <3>2. log' = log /\ \A i \in DOMAIN proxies : proxies'[i].state = proxies[i].state
      BY <2>5, Touches DEF Reread, Kill, Touch
    <3>3. \A b \in Actors : 0 \notin Held(b)'
      BY <1>1, <3>1 DEF Narrows, Ids
    <3> QED
      BY <1>2, <3>1, <3>2, <3>3
  <2> QED
    BY <1>3, <2>1, <2>2, <2>3, <2>4, <2>5, Steps
<1>4. CASE Tick \/ UNCHANGED vars
  BY <1>4 DEF Tick, vars, Newborn, Held
<1> QED
  BY <1>3, <1>4 DEF Next

LEMMA KnownStep == IInv /\ Aim /\ Books /\ Known /\ [Next]_vars => Known'
  BY SoleStep, FreshStep, NewbornStep, BlankStep DEF Known

LEMMA KnownInit == Init => Known
<1> SUFFICES ASSUME Init PROVE Known
  OBVIOUS
<1>1. \A a \in Actors : Work(a) = {} /\ job[a].kind = "idle" /\ Held(a) = {}
  BY DEF Init, Work, Held, Idle
<1>2. Blank
  BY DEF Init, Blank
<1>3. \A a \in Actors : job[a].kind # "extract" /\ job[a].kind \notin Worked
  BY <1>1 DEF Worked
<1>4. Sole
  BY <1>1 DEF Sole, Writers
<1>5. Fresh
  BY <1>1 DEF Fresh
<1>6. Newborn
  BY <1>3 DEF Newborn
<1> QED
  BY <1>2, <1>4, <1>5, <1>6 DEF Known

\* An event that starts where the last one ended continues the history.
LEMMA ChainGrows ==
    ASSUME NEW s \in Seq(Event), NEW e \in Event, Chained(s),
           s # <<>> => e.from = s[Len(s)].to
    PROVE  /\ Append(s, e) # <<>> /\ Chained(Append(s, e))
           /\ Append(s, e)[Len(Append(s, e))] = e
           /\ s = <<>> => Append(s, e)[1] = e
           /\ s # <<>> => Append(s, e)[1] = s[1]
<1>1. /\ Len(s) \in Nat /\ Len(Append(s, e)) = Len(s) + 1
      /\ \A n \in 1 .. Len(s) : Append(s, e)[n] = s[n]
      /\ Append(s, e)[Len(s) + 1] = e
  OBVIOUS
<1>2. s = <<>> => Len(s) = 0
  OBVIOUS
<1>3. s # <<>> => Len(s) >= 1
  OBVIOUS
<1>4. Chained(Append(s, e))
  <2> SUFFICES ASSUME NEW n \in 2 .. Len(Append(s, e))
               PROVE  Append(s, e)[n].from = Append(s, e)[n - 1].to
    BY DEF Chained
  <2>1. CASE n \in 2 .. Len(s)
    <3>1. s[n].from = s[n - 1].to
      BY <2>1 DEF Chained
    <3> QED
      BY <1>1, <2>1, <3>1
  <2>2. CASE n = Len(s) + 1
    BY <1>1, <1>2, <2>2
  <2> QED
    BY <1>1, <2>1, <2>2
<1>5. Append(s, e) # <<>>
  OBVIOUS
<1> QED
  BY <1>1, <1>2, <1>3, <1>4, <1>5

History == \A i \in DOMAIN proxies \ contended : Born(i) => Told(i)

\* The history survives every step: a transition is the next event of a row
\* whose state the writer knows, a killed extraction is remembered.
LEMMA HistoryStep == IInv /\ Aim /\ Books /\ Known /\ History /\ [Next]_vars => History'
<1> SUFFICES ASSUME IInv, Aim, Books, Known, History, [Next]_vars PROVE History'
  OBVIOUS
<1>1. \A b \in Actors : \A i \in Held(b) : i \in DOMAIN proxies
  BY DEF Held, IInv, Read, Work
<1>2. \A i \in DOMAIN proxies : i \in Ids
  BY RowIds
<1>3. ASSUME NEW i \in DOMAIN proxies, Told(i), cut \subseteq cut',
             log'[i] = log[i], proxies'[i].state = proxies[i].state
      PROVE  Told(i)'
  BY <1>3 DEF Told, Chained
<1>4. ASSUME NEW i \in DOMAIN proxies, NEW e \in Event, cut \subseteq cut',
             log'[i] = Append(log[i], e), proxies'[i].state = e.to,
             \/ Told(i) /\ e.from = proxies[i].state
             \/ log[i] = <<>> /\ e.from = "none"
      PROVE  Told(i)'
  <2>1. log[i] \in Seq(Event)
    BY <1>2 DEF Books
  <2>2. Chained(log[i])
    BY <1>4 DEF Told, Chained
  <2>3. log[i] # <<>> => e.from = log[i][Len(log[i])].to
    BY <1>4 DEF Told
  <2>4. /\ log'[i] # <<>> /\ Chained(log'[i]) /\ log'[i][Len(log'[i])] = e
        /\ log[i] = <<>> => log'[i][1] = e
        /\ log[i] # <<>> => log'[i][1] = log[i][1]
    BY <1>4, <2>1, <2>2, <2>3, ChainGrows
  <2>5. log'[i][1].from = "none" \/ i \in cut'
    BY <1>4, <2>4 DEF Told
  <2> QED
    BY <1>4, <2>4, <2>5 DEF Told
<1>5. ASSUME NEW a \in Actors, Act(a),
             NEW i \in DOMAIN proxies', i \notin contended', Born(i)'
      PROVE  Told(i)'
  <2>1. CASE Begin(a)
    <3>1. PICK kind, rows, current, cutoff :
             Take(a, kind, rows, current, cutoff) /\ UNCHANGED <<proxies, log, cut>>
      BY <2>1 DEF Begin
    <3> DEFINE j == [kind |-> kind, rows |-> rows, current |-> current, cutoff |-> cutoff]
    <3>2. job' = [job EXCEPT ![a] = j] /\ contended \subseteq contended' /\ job[a] = Idle
      BY <3>1 DEF Take
    <3> HIDE DEF j
    <3>3. \A b \in Actors \ {a} : job'[b] = job[b] /\ Held(b)' = Held(b)
      BY <3>2, Taken
    <3>4. Born(i)
      BY <1>5, <3>2, <3>3 DEF Born, Idle
    <3> QED
      BY <1>3, <1>5, <3>1, <3>2, <3>4 DEF History
  <2>2. CASE Insert(a)
    <3>1. PICK row \in RowType :
             /\ DOMAIN proxies' = DOMAIN proxies \cup {row.id}
             /\ \A k \in DOMAIN proxies : proxies'[k] = proxies[k]
             /\ Take(a, "extract", {row}, {}, 0)
      BY <2>2, Inserts
    <3> DEFINE j == [kind |-> "extract", rows |-> {row}, current |-> {}, cutoff |-> 0]
    <3>2. job' = [job EXCEPT ![a] = j] /\ contended \subseteq contended' /\ job[a] = Idle
      BY <3>1 DEF Take
    <3>3. IdsOf(j.rows \cup j.current) = {row.id} /\ j.kind = "extract"
      BY DEF IdsOf
    <3> HIDE DEF j
    <3>4. /\ Held(a)' = {row.id} /\ job'[a].kind = "extract"
          /\ \A b \in Actors \ {a} : job'[b] = job[b] /\ Held(b)' = Held(b)
      BY <3>2, <3>3, Taken
    <3>5. i # row.id
      BY <1>5, <3>4 DEF Born
    <3>6. Born(i)
      BY <1>5, <3>2, <3>4 DEF Born, Idle
    <3>7. i \in DOMAIN proxies /\ proxies'[i] = proxies[i] /\ log' = log /\ cut' = cut
      BY <2>2, <3>1, <3>5 DEF Insert
    <3> QED
      BY <1>3, <1>5, <3>2, <3>6, <3>7 DEF History
  <2>3. CASE Write(a)
    <3>1. PICK row \in Work(a), to \in States :
             /\ job[a].kind \in Worked /\ row.state \in States /\ row.id \in DOMAIN proxies
             /\ log'[row.id] = Append(log[row.id], [from |-> row.state, to |-> to])
             /\ \A k \in Ids : k # row.id => log'[k] = log[k]
             /\ DOMAIN proxies' = DOMAIN proxies /\ proxies'[row.id].state = to
             /\ \A k \in DOMAIN proxies : k # row.id => proxies'[k] = proxies[k]
      BY <2>3, Moves
    <3>2. /\ contended' = contended /\ cut' = cut
          /\ \A b \in Actors \ {a} : job'[b] = job[b] /\ Held(b)' = Held(b)
      BY <2>3, Shrinking DEF Write, Held
    <3>3. Born(i)
      BY <1>5, <3>1, <3>2 DEF Born, Worked
    <3>4. i \in DOMAIN proxies /\ Told(i)
      BY <1>5, <3>1, <3>2, <3>3 DEF History
    <3>5. CASE i = row.id
      <4>1. row.state = proxies[i].state
        BY <1>5, <3>1, <3>2, <3>5 DEF Known, Fresh
      <4> DEFINE e == [from |-> row.state, to |-> to]
      <4>2. e \in Event /\ e.from = row.state /\ e.to = to
        BY <3>1 DEF Event
      <4>3. log'[i] = Append(log[i], e)
        BY <3>1, <3>5
      <4> HIDE DEF e
      <4> QED
        BY <1>4, <3>1, <3>2, <3>4, <3>5, <4>1, <4>2, <4>3
    <3>6. CASE i # row.id
      BY <1>2, <1>3, <3>1, <3>2, <3>4, <3>6
    <3> QED
      BY <3>5, <3>6
  <2>4. CASE InsertEvent(a)
    <3>1. PICK row \in job[a].rows :
             /\ job[a].kind = "extract" /\ proxies' = proxies /\ cut' = cut
             /\ Held(a) = {row.id}
             /\ log'[row.id] = Append(log[row.id], [from |-> "none", to |-> "short_term_candidate"])
             /\ \A k \in Ids : k # row.id => log'[k] = log[k]
      BY <2>4, Extracts
    <3>2. /\ contended' = contended
          /\ \A b \in Actors \ {a} : job'[b] = job[b] /\ Held(b)' = Held(b)
      BY <2>4, Shrinking DEF Held
    <3>3. CASE i = row.id
      <4>1. log[i] = <<>> /\ proxies[i].state = "short_term_candidate"
        BY <1>5, <3>1, <3>2, <3>3 DEF Known, Newborn
      <4> DEFINE e == [from |-> "none", to |-> "short_term_candidate"]
      <4>2. e \in Event /\ e.from = "none" /\ e.to = "short_term_candidate"
        BY DEF Event, States
      <4>3. log'[i] = Append(log[i], e)
        BY <3>1, <3>3
      <4> HIDE DEF e
      <4> QED
        BY <1>4, <1>5, <3>1, <4>1, <4>2, <4>3
    <3>4. CASE i # row.id
      <4>1. Born(i)
        BY <1>5, <3>1, <3>2, <3>4 DEF Born
      <4> QED
        BY <1>2, <1>3, <1>5, <3>1, <3>2, <3>4, <4>1 DEF History
    <3> QED
      BY <3>3, <3>4
  <2>5. CASE Reread(a) \/ Touch(a)
    <3>1. /\ contended' = contended /\ job[a].kind # "extract"
          /\ \A b \in Actors \ {a} : job'[b] = job[b] /\ Held(b)' = Held(b)
      BY <2>5, Narrowing DEF Held, Reread, Touch
    <3>2. /\ log' = log /\ cut' = cut /\ DOMAIN proxies' = DOMAIN proxies
          /\ \A k \in DOMAIN proxies : proxies'[k].state = proxies[k].state
      BY <2>5, Touches DEF Reread, Touch
    <3>3. Born(i)
      BY <1>5, <3>1 DEF Born
    <3> QED
      BY <1>3, <1>5, <3>1, <3>2, <3>3 DEF History
  <2>6. CASE Kill(a)
    <3>1. /\ contended' = contended
          /\ \A b \in Actors \ {a} : job'[b] = job[b] /\ Held(b)' = Held(b)
      BY <2>6, Shrinking DEF Held
    <3>2. /\ log' = log /\ proxies' = proxies /\ cut \subseteq cut'
          /\ job[a].kind = "extract" => Held(a) \subseteq cut'
      BY <2>6 DEF Kill
    <3>3. CASE job[a].kind = "extract" /\ i \in Held(a)
      BY <1>5, <3>1, <3>2, <3>3 DEF Known, Newborn, Told
    <3>4. CASE ~(job[a].kind = "extract" /\ i \in Held(a))
      <4>1. Born(i)
        BY <1>5, <3>1, <3>4 DEF Born
      <4> QED
        BY <1>3, <1>5, <3>1, <3>2, <4>1 DEF History
    <3> QED
      BY <3>3, <3>4
  <2> QED
    BY <1>5, <2>1, <2>2, <2>3, <2>4, <2>5, <2>6, Steps
<1>6. CASE Tick \/ UNCHANGED vars
  BY <1>6 DEF Tick, vars, History, Born, Told, Held
<1> QED
  BY <1>5, <1>6 DEF Next, History

\* LogIsTheHistory for every instance: of a proxy that nobody contended for the
\* log is a chain from its extraction to the state the row is in.
THEOREM HistoryHolds == Spec => []LogIsTheHistory
<1>1. Init => History
  BY DEF Init, History
<1>2. History => LogIsTheHistory
  BY DEF History, Born, Told, LogIsTheHistory
<1> QED
  BY <1>1, <1>2, InitInv, StepInv, AimInit, AimStep, BooksInit, BooksStep,
     KnownInit, KnownStep, HistoryStep, PTL DEF Spec

\* Only a decay pass makes a proxy decayed, and it knows the row.
LEMMA DecayStep ==
    ASSUME IInv, Aim, Books, Known, [Next]_vars,
           NEW i \in DOMAIN proxies \ (contended \cup touched),
           proxies'[i].state = "decayed", proxies[i].state # "decayed"
    PROVE  \E a \in Actors : job[a].kind = "decay" /\
             proxies[i].state = "long_term_memory" /\ LastUse(proxies[i]) < job[a].cutoff
             /\ proxies[i].accesses <= MaxAccess
<1>1. PICK a \in Actors : Act(a)
  BY DEF Next, Tick, vars
<1>2. Write(a)
  <2>1. CASE Insert(a)
    BY <2>1, Inserts
  <2>2. CASE Touch(a)
    BY <2>2, Touches
  <2>3. CASE Begin(a) \/ InsertEvent(a) \/ Reread(a) \/ Kill(a)
    BY <2>3 DEF Begin, InsertEvent, Reread, Kill
  <2> QED
    BY <1>1, <2>1, <2>2, <2>3, Steps
<1>3. PICK row \in Work(a), to \in States :
         /\ to = "decayed" => job[a].kind = "decay" /\ row \in job[a].rows
         /\ row.id \in DOMAIN proxies /\ proxies'[row.id].state = to
         /\ \A k \in DOMAIN proxies : k # row.id => proxies'[k] = proxies[k]
  BY <1>2, Moves
<1>4. i = row.id /\ job[a].kind = "decay" /\ row \in job[a].rows
  BY <1>3
<1>5. row = proxies[i]
  BY <1>4 DEF Known, Fresh
<1>6. Inactive(row, job[a].cutoff)
  BY <1>4 DEF Aim, Aimed
<1> QED
  BY <1>4, <1>5, <1>6 DEF Inactive

\* DecaysOnlyStale for every instance: what decays is long-term memory that was
\* not used since the cutoff, at the moment it decays.
THEOREM DecayHolds == Spec => DecaysOnlyStale
<1>1. IInv /\ Aim /\ Books /\ Known /\ [Next]_vars =>
        [\A i \in DOMAIN proxies \ (contended \cup touched) :
           proxies'[i].state = "decayed" /\ proxies[i].state # "decayed" =>
             \E a \in Actors : job[a].kind = "decay" /\
               proxies[i].state = "long_term_memory" /\ LastUse(proxies[i]) < job[a].cutoff
               /\ proxies[i].accesses <= MaxAccess]_vars
  BY DecayStep
<1> QED
  BY <1>1, InitInv, StepInv, AimInit, AimStep, BooksInit, BooksStep,
     KnownInit, KnownStep, PTL DEF Spec, DecaysOnlyStale
=============================================================================
