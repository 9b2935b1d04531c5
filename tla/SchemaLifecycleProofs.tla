----------------------- MODULE SchemaLifecycleProofs -----------------------
(***************************************************************************)
(* Proofs about SchemaLifecycle, for any number of programs, migrations    *)
(* and launches.                                                           *)
(***************************************************************************)
EXTENDS SchemaLifecycle, TLAPS

Stages == Ended \union UpStages \union ResetStages \union {"open", "opened", "serving"}
Planned == {"up.apply", "reset.down"}

\* An up has one migration in hand, and nobody is in the middle of one but an
\* up or a reset of mysql.
HandInv ==
  /\ \A m \in Migration : tables[m] \subseteq Part(m)
  /\ \A p \in Program :
       part[p] # 0 => engine = "mysql" /\ pc[p] \in Planned /\ todo[p] # {}
  /\ \A p \in Program : pc[p] = "up.apply" => \E m \in Migration : todo[p] = {m}

\* Without a clash no up runs beside a reset.
ClashInv ==
  ~clash => \A p, q \in Program : ~(pc[p] \in UpStages /\ pc[q] \in ResetStages)

\* An up has the migrations before its next one behind it, whoever applied
\* them; a reset has all that are recorded before it.
PlanInv ==
  ~clash => \A p \in Program :
    /\ pc[p] = "up.apply" => \A m \in todo[p] : 1 .. (m - 1) \subseteq Recorded
    /\ pc[p] = "reset.down" => Recorded \subseteq todo[p]

\* What an up has executed of its migration is there, and so is all of a
\* recorded migration, unless a reset is in the middle of it.
BackedInv ==
  ~clash =>
    /\ \A p \in Program : \A m \in todo[p] \ interrupted :
         pc[p] = "up.apply" => 1 .. part[p] \subseteq tables[m]
    /\ \A m \in Recorded \ interrupted :
         \/ tables[m] = Part(m)
         \/ \E p \in Program : pc[p] = "reset.down" /\ part[p] # 0 /\ IsLast(m, todo[p])

\* What is there of a migration without an entry was made by an up that is in
\* the middle of it; what a reset has dropped of its migration is gone.
NothingLeft ==
  ~clash =>
    /\ \A m \in Migration \ interrupted : \A k \in tables[m] :
         \/ m \in Recorded
         \/ \E p \in Program : pc[p] = "up.apply" /\ m \in todo[p] /\ k <= part[p]
    /\ \A p \in Program : \A m \in todo[p] \ interrupted : \A k \in 1 .. part[p] :
         pc[p] = "reset.down" /\ IsLast(m, todo[p]) => tables[m] \intersect Drops(m, k) = {}

SchemaInv ==
  /\ SchemaTypeOK /\ HandInv /\ VersionsTellTables
  /\ ClashInv /\ NoGaps /\ PlanInv
  /\ BackedInv /\ NothingLeft

\* An empty database, no program.
LEMMA SchemaInitOK == SchemaInit => SchemaInv
<1> SUFFICES ASSUME SchemaInit PROVE SchemaInv
  OBVIOUS
<1>1. /\ Recorded = {} /\ tables = [m \in Migration |-> {}]
      /\ \A p \in Program : pc[p] = "off" /\ part[p] = 0 /\ todo[p] = {}
  BY DEF SchemaInit, Recorded
<1>2. SchemaTypeOK
  <2>1. tables \in [Migration -> SUBSET (1 .. 3)]
    BY <1>1
  <2>2. pc \in [Program -> Ended] /\ cmd \in [Program -> Command]
    BY DEF SchemaInit, Ended, Command
  <2>3. todo \in [Program -> SUBSET Migration] /\ part \in [Program -> 0 .. 3]
    BY DEF SchemaInit
  <2> QED
    BY <2>1, <2>2, <2>3 DEF SchemaInit, SchemaTypeOK
<1>3. HandInv /\ VersionsTellTables
  BY <1>1 DEF HandInv, VersionsTellTables
<1>4. ClashInv /\ NoGaps /\ PlanInv
  BY <1>1 DEF ClashInv, NoGaps, PlanInv, UpStages
<1>5. BackedInv /\ NothingLeft
  BY <1>1 DEF BackedInv, NothingLeft
<1> QED
  BY <1>2, <1>3, <1>4, <1>5 DEF SchemaInv

\* A clash is remembered.
LEMMA GotoRemembers ==
  ASSUME SchemaTypeOK, NEW p \in Program, NEW stage \in Stages, Goto(p, stage)
  PROVE  /\ pc' \in [Program -> Stages]
         /\ pc'[p] = stage
         /\ \A q \in Program : q # p => pc'[q] = pc[q]
         /\ clash' \in BOOLEAN
         /\ ~clash' => ~clash
         /\ ClashInv'
BY DEF Goto, SchemaTypeOK, Stages, ClashInv

\* How many statements a migration has, and that its drops take all of it.
LEMMA StatementFacts ==
  ASSUME NEW m \in Migration
  PROVE  /\ Ups(m) \in 1 .. 3 /\ Downs(m) \in 1 .. 3
         /\ Part(m) = 1 .. Ups(m) /\ Part(m) \subseteq 1 .. 3
         /\ \A x \in Part(m) : \E k \in 1 .. Downs(m) : x \in Drops(m, k)
BY DEF Ups, Downs, Part, Drops

\* One migration or none is the last of a list.
LEMMA OneIsLast ==
  ASSUME NEW S \in SUBSET Migration, NEW m \in S, NEW n \in S, IsLast(m, S), IsLast(n, S)
  PROVE  m = n
<1>1. m \in Nat /\ n \in Nat
  BY SchemaAssumption DEF Migration
<1> QED
  BY <1>1 DEF IsLast

\* A step that leaves tables and entries alone and after which the program has
\* no migration in hand.  If it was in the middle of one, then either this
\* counts as an interruption or all it did has been done by another as well.
LEMMA QuietStep ==
  ASSUME SchemaInv, NEW p \in Program, NEW stage \in Stages \ Planned, Goto(p, stage),
         UNCHANGED <<engine, schema>>,
         exists' \in BOOLEAN, tracked' \in BOOLEAN, cmd' \in [Program -> Command], launches' \in Nat,
         todo' = todo \/ todo' = [todo EXCEPT ![p] = {}],
         part' \in [Program -> 0 .. 3], part'[p] = 0, \A q \in Program : q # p => part'[q] = part[q],
         interrupted \subseteq interrupted', interrupted' \subseteq Migration,
         \A m \in todo[p] \ interrupted' :
           part[p] # 0 /\ IsLast(m, todo[p]) /\ ~clash =>
             /\ pc[p] = "up.apply"
             /\ \/ m \in Recorded
                \/ \E q \in Program : /\ q # p /\ pc[q] = "up.apply" /\ m \in todo[q]
                                      /\ part[p] <= part[q]
  PROVE  SchemaInv'
<1>1. /\ pc' \in [Program -> Stages]
      /\ pc'[p] = stage
      /\ \A q \in Program : q # p => pc'[q] = pc[q]
      /\ clash' \in BOOLEAN
      /\ ~clash' => ~clash
      /\ ClashInv'
  BY GotoRemembers DEF SchemaInv
<1>2. Recorded' = Recorded /\ tables' = tables
  BY DEF Recorded, schema
<1>3. todo' \in [Program -> SUBSET Migration] /\ \A q \in Program : q # p => todo'[q] = todo[q]
  BY DEF SchemaInv, SchemaTypeOK
<1>4. SchemaTypeOK'
  BY <1>1, <1>3 DEF SchemaInv, SchemaTypeOK, schema, Stages
<1>5. HandInv' /\ VersionsTellTables'
  BY <1>1, <1>2, <1>3 DEF SchemaInv, HandInv, VersionsTellTables, Planned
<1>6. NoGaps'
  BY <1>1, <1>2 DEF SchemaInv, NoGaps
<1>7. PlanInv'
  BY <1>1, <1>2, <1>3 DEF SchemaInv, PlanInv, Planned
<1>8. BackedInv'
  <2> SUFFICES ASSUME ~clash' PROVE BackedInv!2'
    BY DEF BackedInv
  <2>1. ASSUME NEW q \in Program, NEW m \in todo'[q] \ interrupted', pc'[q] = "up.apply"
        PROVE  1 .. part'[q] \subseteq tables'[m]
    BY <1>1, <1>2, <1>3, <2>1 DEF SchemaInv, BackedInv, Planned
  <2>2. ASSUME NEW m \in Recorded' \ interrupted', tables'[m] # Part(m)
        PROVE  \E q \in Program : pc'[q] = "reset.down" /\ part'[q] # 0 /\ IsLast(m, todo'[q])
    <3>1. PICK q \in Program : pc[q] = "reset.down" /\ part[q] # 0 /\ IsLast(m, todo[q])
      BY <1>1, <1>2, <2>2 DEF SchemaInv, BackedInv
    <3>2. q # p
      BY <1>1, <2>2, <3>1 DEF IsLast
    <3> QED
      BY <1>1, <1>3, <3>1, <3>2
  <2> QED
    BY <2>1, <2>2
<1>9. NothingLeft'
  <2> SUFFICES ASSUME ~clash' PROVE NothingLeft!2'
    BY DEF NothingLeft
  <2>1. ASSUME NEW m \in Migration \ interrupted', NEW k \in tables'[m], m \notin Recorded'
        PROVE  \E q \in Program : pc'[q] = "up.apply" /\ m \in todo'[q] /\ k <= part'[q]
    <3>1. k \in 1 .. 3 /\ part \in [Program -> 0 .. 3]
      BY <1>2 DEF SchemaInv, SchemaTypeOK
    <3>2. PICK q \in Program : pc[q] = "up.apply" /\ m \in todo[q] /\ k <= part[q]
      BY <1>1, <1>2, <2>1 DEF SchemaInv, NothingLeft
    <3>3. CASE q = p
      <4>1. part[p] # 0 /\ todo[p] = {m} /\ m \in Nat
        BY <3>1, <3>2, <3>3, SchemaAssumption DEF SchemaInv, HandInv, Migration
      <4>2. IsLast(m, todo[p])
        BY <4>1 DEF IsLast
      <4>3. PICK r \in Program : /\ r # p /\ pc[r] = "up.apply" /\ m \in todo[r]
                                 /\ part[p] <= part[r]
        BY <1>1, <1>2, <2>1, <4>1, <4>2
      <4>4. k <= part[r]
        BY <3>1, <3>2, <3>3, <4>3
      <4> QED
        BY <1>1, <1>3, <4>3, <4>4
    <3>4. CASE q # p
      BY <1>1, <1>3, <3>2, <3>4
    <3> QED
      BY <3>3, <3>4
  <2>2. ASSUME NEW q \in Program, NEW m \in todo'[q] \ interrupted', NEW k \in 1 .. part'[q],
               pc'[q] = "reset.down", IsLast(m, todo'[q])
        PROVE  tables'[m] \intersect Drops(m, k) = {}
    BY <1>1, <1>2, <1>3, <2>2 DEF SchemaInv, NothingLeft, Planned
  <2> QED
    BY <2>1, <2>2
<1> QED
  BY <1>1, <1>4, <1>5, <1>6, <1>7, <1>8, <1>9 DEF SchemaInv

\* The same for a program that was not in the middle of a migration.
LEMMA IdleStep ==
  ASSUME SchemaInv, NEW p \in Program, NEW stage \in Stages \ Planned, Goto(p, stage),
         pc[p] \notin Planned \/ part[p] = 0, UNCHANGED <<engine, schema, part, interrupted>>,
         exists' \in BOOLEAN, tracked' \in BOOLEAN, cmd' \in [Program -> Command], launches' \in Nat,
         todo' = todo \/ todo' = [todo EXCEPT ![p] = {}]
  PROVE  SchemaInv'
<1>1. part[p] = 0
  BY DEF SchemaInv, HandInv
<1>2. part' \in [Program -> 0 .. 3] /\ interrupted' \subseteq Migration
  BY DEF SchemaInv, SchemaTypeOK
<1> QED
  BY <1>1, <1>2, QuietStep

\* UpNext: the successor of the latest entry has all before it, for the
\* entries have no gap.
LEMMA UpNextOK == ASSUME SchemaInv, NEW p \in Program, UpNext(p) PROVE SchemaInv'
<1>1. PICK v \in 0 .. N :
        /\ CurrentVersion(v)
        /\ IF v = N
           THEN /\ Goto(p, IF cmd[p] = "up" THEN "ok" ELSE "opened")
                /\ UNCHANGED todo
           ELSE /\ todo' = [todo EXCEPT ![p] = {v + 1}]
                /\ Goto(p, "up.apply")
  BY DEF UpNext
<1>2. /\ pc[p] = "up.next"
      /\ UNCHANGED <<engine, schema, exists, tracked, cmd, part, launches, interrupted>>
  BY DEF UpNext, database
<1>3. CASE v = N
  <2> DEFINE stage == IF cmd[p] = "up" THEN "ok" ELSE "opened"
  <2>1. stage \in Stages \ Planned /\ Goto(p, stage)
    BY <1>1, <1>3 DEF Stages, Planned, Ended
  <2> HIDE DEF stage
  <2> QED
    BY <1>1, <1>2, <1>3, <2>1, IdleStep DEF SchemaInv, SchemaTypeOK, Planned
<1>4. CASE v # N
  <2>1. /\ v \in Nat /\ v + 1 \in Migration
        /\ todo' = [todo EXCEPT ![p] = {v + 1}]
        /\ Goto(p, "up.apply")
    BY <1>1, <1>4, SchemaAssumption DEF Migration
  <2>2. /\ pc' \in [Program -> Stages]
        /\ pc'[p] = "up.apply"
        /\ \A q \in Program : q # p => pc'[q] = pc[q]
        /\ clash' \in BOOLEAN
        /\ ~clash' => ~clash
        /\ ClashInv'
    BY <2>1, GotoRemembers DEF SchemaInv, Stages, UpStages
  <2>3. Recorded' = Recorded /\ tables' = tables /\ part[p] = 0
    BY <1>2 DEF Recorded, schema, SchemaInv, HandInv, Planned
  <2>4. /\ todo' \in [Program -> SUBSET Migration]
        /\ todo'[p] = {v + 1}
        /\ \A q \in Program : q # p => todo'[q] = todo[q]
    BY <2>1 DEF SchemaInv, SchemaTypeOK
  <2>5. SchemaTypeOK'
    BY <1>2, <2>2, <2>4 DEF SchemaInv, SchemaTypeOK, schema, Stages
  <2>6. HandInv' /\ VersionsTellTables'
    BY <1>2, <2>1, <2>2, <2>3, <2>4 DEF SchemaInv, HandInv, VersionsTellTables
  <2>7. NoGaps'
    BY <2>2, <2>3 DEF SchemaInv, NoGaps
  <2>8. PlanInv'
    <3> SUFFICES ASSUME ~clash' PROVE PlanInv!2'
      BY DEF PlanInv
    <3>1. 1 .. v \subseteq Recorded
      <4>1. v = 0 \/ v \in Recorded
        BY <1>1 DEF CurrentVersion, Recorded
      <4> QED
        BY <2>1, <2>2, <4>1 DEF SchemaInv, NoGaps
    <3>2. 1 .. ((v + 1) - 1) \subseteq Recorded
      BY <2>1, <3>1
    <3> QED
      BY <2>2, <2>3, <2>4, <3>2 DEF SchemaInv, PlanInv
  <2>9. BackedInv'
    <3> SUFFICES ASSUME ~clash' PROVE BackedInv!2'
      BY DEF BackedInv
    <3>1. \A q \in Program : \A m \in todo'[q] \ interrupted' :
            pc'[q] = "up.apply" => 1 .. part'[q] \subseteq tables'[m]
      BY <1>2, <2>2, <2>3, <2>4 DEF SchemaInv, BackedInv
    <3>2. \A m \in Recorded' \ interrupted' :
            \/ tables'[m] = Part(m)
            \/ \E q \in Program : pc'[q] = "reset.down" /\ part'[q] # 0 /\ IsLast(m, todo'[q])
      BY <1>2, <2>2, <2>3, <2>4 DEF SchemaInv, BackedInv
    <3> QED
      BY <3>1, <3>2
  <2>10. NothingLeft'
    <3> SUFFICES ASSUME ~clash' PROVE NothingLeft!2'
      BY DEF NothingLeft
    <3>1. ASSUME NEW m \in Migration \ interrupted', NEW k \in tables'[m], m \notin Recorded'
          PROVE  \E q \in Program : pc'[q] = "up.apply" /\ m \in todo'[q] /\ k <= part'[q]
      <4>1. PICK q \in Program : pc[q] = "up.apply" /\ m \in todo[q] /\ k <= part[q]
        BY <1>2, <2>2, <2>3, <3>1 DEF SchemaInv, NothingLeft
      <4> QED
        BY <1>2, <2>2, <2>4, <4>1
    <3>2. \A q \in Program : \A m \in todo'[q] \ interrupted' : \A k \in 1 .. part'[q] :
            pc'[q] = "reset.down" /\ IsLast(m, todo'[q]) => tables'[m] \intersect Drops(m, k) = {}
      BY <1>2, <2>2, <2>3, <2>4 DEF SchemaInv, NothingLeft
    <3> QED
      BY <3>1, <3>2
  <2> QED
    BY <2>2, <2>5, <2>6, <2>7, <2>8, <2>9, <2>10 DEF SchemaInv
<1> QED
  BY <1>3, <1>4

\* What goose's entry changes.
LEMMA RecordAdds ==
  ASSUME SchemaTypeOK, NEW m \in Migration, Record(m)
  PROVE  /\ Recorded' = Recorded \union {m}
         /\ versions' \subseteq [id : Nat, version : Migration]
         /\ lastId' \in Nat
<1>1. lastId' \in Nat /\ versions' = versions \union {[id |-> lastId', version |-> m]}
  BY DEF Record, SchemaTypeOK
<1>2. Recorded' = Recorded \union {m}
  <2> DEFINE row == [id |-> lastId', version |-> m]
  <2>1. row.version = m
    OBVIOUS
  <2> HIDE DEF row
  <2>2. versions' = versions \union {row}
    BY <1>1 DEF row
  <2> QED
    BY <2>1, <2>2, Zenon DEF Recorded
<1> QED
  BY <1>1, <1>2 DEF SchemaTypeOK

LEMMA UnrecordRemoves ==
  ASSUME SchemaTypeOK, NEW m, Unrecord(m)
  PROVE  /\ Recorded' = Recorded \ {m}
         /\ versions' \subseteq [id : Nat, version : Migration]
         /\ lastId' \in Nat
BY DEF Unrecord, Recorded, SchemaTypeOK

\* An up's migration joins the entries when all of it is there: those before it
\* are entered, so no gap opens, and no reset is under way unless there is a
\* clash.
LEMMA RecordingKeeps ==
  ASSUME SchemaInv, NEW p \in Program, NEW m \in todo[p], Record(m), Goto(p, "up.next"),
         pc[p] = "up.apply",
         UNCHANGED <<engine, exists, tracked, cmd, todo, launches, interrupted>>,
         \/ engine = "sqlite" /\ tables' = [tables EXCEPT ![m] = Part(m)] /\ UNCHANGED part
         \/ /\ engine = "mysql" /\ UNCHANGED tables
            /\ part[p] = Ups(m) /\ part' = [part EXCEPT ![p] = 0]
  PROVE  SchemaInv'
<1>1. /\ pc' \in [Program -> Stages]
      /\ pc'[p] = "up.next"
      /\ \A q \in Program : q # p => pc'[q] = pc[q]
      /\ clash' \in BOOLEAN
      /\ ~clash' => ~clash
      /\ ClashInv'
  BY GotoRemembers DEF SchemaInv, Stages, UpStages
<1>2. m \in Migration /\ m \in Nat /\ todo[p] = {m}
  BY SchemaAssumption DEF SchemaInv, SchemaTypeOK, HandInv, Migration
<1>3. /\ Recorded' = Recorded \union {m}
      /\ versions' \subseteq [id : Nat, version : Migration]
      /\ lastId' \in Nat
  BY <1>2, RecordAdds DEF SchemaInv
<1>4. /\ part' \in [Program -> 0 .. 3] /\ part'[p] = 0
      /\ \A q \in Program : q # p => part'[q] = part[q]
  BY DEF SchemaInv, SchemaTypeOK, HandInv
<1>5. /\ tables' \in [Migration -> SUBSET (1 .. 3)]
      /\ \A n \in Migration : tables[n] \subseteq tables'[n] /\ tables'[n] \subseteq Part(n)
      /\ \A n \in Migration : n # m => tables'[n] = tables[n]
  <2>1. CASE tables' = [tables EXCEPT ![m] = Part(m)]
    <3>1. Part(m) \subseteq 1 .. 3 /\ tables[m] \subseteq Part(m)
      BY <1>2, StatementFacts DEF SchemaInv, HandInv
    <3> QED
      BY <1>2, <2>1, <3>1 DEF SchemaInv, SchemaTypeOK, HandInv
  <2>2. CASE UNCHANGED tables
    BY <2>2 DEF SchemaInv, SchemaTypeOK, HandInv
  <2> QED
    BY <2>1, <2>2
<1>6. SchemaTypeOK'
  BY <1>1, <1>3, <1>4, <1>5 DEF SchemaInv, SchemaTypeOK, Stages
<1>7. HandInv'
  BY <1>1, <1>4, <1>5 DEF SchemaInv, HandInv
<1>8. VersionsTellTables'
  <2> SUFFICES ASSUME engine = "sqlite", NEW n \in Migration
               PROVE  tables'[n] = IF n \in Recorded' THEN Part(n) ELSE {}
    BY DEF VersionsTellTables
  <2>1. tables' = [tables EXCEPT ![m] = Part(m)]
    OBVIOUS
  <2> QED
    BY <1>2, <1>3, <2>1 DEF SchemaInv, SchemaTypeOK, VersionsTellTables
<1>9. ASSUME ~clash'
      PROVE  /\ 1 .. (m - 1) \subseteq Recorded
             /\ \A q \in Program : pc[q] \notin ResetStages /\ pc'[q] \notin ResetStages
  BY <1>1, <1>9 DEF SchemaInv, PlanInv, ClashInv, UpStages, ResetStages
<1>10. NoGaps'
  <2> SUFFICES ASSUME ~clash', NEW n \in Recorded' PROVE 1 .. n \subseteq Recorded'
    BY DEF NoGaps
  <2>1. CASE n = m
    <3>1. 1 .. m = (1 .. (m - 1)) \union {m}
      BY <1>2 DEF Migration
    <3> QED
      BY <1>3, <1>9, <2>1, <3>1
  <2>2. CASE n \in Recorded
    BY <1>1, <1>3, <2>2 DEF SchemaInv, NoGaps
  <2> QED
    BY <1>3, <2>1, <2>2
<1>11. PlanInv'
  <2> SUFFICES ASSUME ~clash' PROVE PlanInv!2'
    BY DEF PlanInv
  <2> QED
    BY <1>1, <1>3, <1>9 DEF SchemaInv, PlanInv, ResetStages
<1>12. BackedInv'
  <2> SUFFICES ASSUME ~clash' PROVE BackedInv!2'
    BY DEF BackedInv
  <2>1. ASSUME NEW q \in Program, NEW n \in todo'[q] \ interrupted', pc'[q] = "up.apply"
        PROVE  1 .. part'[q] \subseteq tables'[n]
    <3>1. q # p /\ n \in Migration
      BY <1>1, <2>1 DEF SchemaInv, SchemaTypeOK
    <3> QED
      BY <1>1, <1>4, <1>5, <2>1, <3>1 DEF SchemaInv, BackedInv
  <2>2. ASSUME NEW n \in Recorded' \ interrupted' PROVE tables'[n] = Part(n)
    <3>1. CASE n = m
      <4>1. CASE engine = "sqlite"
        BY <1>2, <3>1, <4>1 DEF SchemaInv, SchemaTypeOK
      <4>2. CASE engine # "sqlite"
        <5>1. 1 .. part[p] \subseteq tables[m] /\ part[p] = Ups(m) /\ tables' = tables
          BY <1>1, <2>2, <3>1, <4>2 DEF SchemaInv, BackedInv
        <5> QED
          BY <1>2, <1>5, <3>1, <5>1 DEF Part
      <4> QED
        BY <4>1, <4>2
    <3>2. CASE n # m
      <4>1. n \in Recorded \ interrupted /\ n \in Migration
        BY <1>3, <2>2, <3>2 DEF SchemaInv, SchemaTypeOK, Recorded
      <4>2. tables[n] = Part(n)
        BY <1>1, <1>9, <4>1 DEF SchemaInv, BackedInv, ResetStages
      <4> QED
        BY <1>5, <3>2, <4>1, <4>2
    <3> QED
      BY <3>1, <3>2
  <2> QED
    BY <2>1, <2>2
<1>13. NothingLeft'
  <2> SUFFICES ASSUME ~clash' PROVE NothingLeft!2'
    BY DEF NothingLeft
  <2>1. ASSUME NEW n \in Migration \ interrupted', NEW k \in tables'[n], n \notin Recorded'
        PROVE  \E q \in Program : pc'[q] = "up.apply" /\ n \in todo'[q] /\ k <= part'[q]
    <3>1. n # m /\ n \notin Recorded /\ k \in tables[n]
      BY <1>3, <1>5, <2>1
    <3>2. PICK q \in Program : pc[q] = "up.apply" /\ n \in todo[q] /\ k <= part[q]
      BY <1>1, <2>1, <3>1 DEF SchemaInv, NothingLeft
    <3>3. q # p
      BY <1>2, <3>1, <3>2
    <3> QED
      BY <1>1, <1>4, <3>2, <3>3
  <2>2. \A q \in Program : pc'[q] # "reset.down"
    BY <1>9 DEF ResetStages
  <2> QED
    BY <2>1, <2>2
<1> QED
  BY <1>1, <1>6, <1>7, <1>8, <1>10, <1>11, <1>12, <1>13 DEF SchemaInv

\* One more statement of an up on mysql.
LEMMA CreateKeeps ==
  ASSUME SchemaInv, NEW p \in Program, NEW m \in todo[p], Create(p, m), pc[p] = "up.apply",
         engine = "mysql", UNCHANGED <<engine, exists, tracked, cmd, todo, launches, interrupted>>
  PROVE  SchemaInv'
<1>1. /\ part[p] < Ups(m)
      /\ tables' = [tables EXCEPT ![m] = @ \union {part[p] + 1}]
      /\ part' = [part EXCEPT ![p] = @ + 1]
      /\ Goto(p, "up.apply")
      /\ UNCHANGED <<versions, lastId>>
  BY DEF Create
<1>2. /\ pc' \in [Program -> Stages]
      /\ pc'[p] = "up.apply"
      /\ \A q \in Program : q # p => pc'[q] = pc[q]
      /\ clash' \in BOOLEAN
      /\ ~clash' => ~clash
      /\ ClashInv'
  BY <1>1, GotoRemembers DEF SchemaInv, Stages, UpStages
<1>3. m \in Migration /\ todo[p] = {m}
  BY DEF SchemaInv, SchemaTypeOK, HandInv
<1>4. /\ part[p] \in 0 .. 2 /\ Ups(m) \in 1 .. 3 /\ part[p] + 1 \in Part(m)
      /\ Part(m) \subseteq 1 .. 3
  BY <1>1, <1>3, StatementFacts DEF SchemaInv, SchemaTypeOK
<1>5. /\ part' \in [Program -> 0 .. 3] /\ part'[p] = part[p] + 1
      /\ \A q \in Program : q # p => part'[q] = part[q]
  BY <1>1, <1>4 DEF SchemaInv, SchemaTypeOK
<1>6. /\ tables' \in [Migration -> SUBSET (1 .. 3)]
      /\ tables'[m] = tables[m] \union {part[p] + 1}
      /\ \A n \in Migration : tables[n] \subseteq tables'[n] /\ tables'[n] \subseteq Part(n)
      /\ \A n \in Migration : n # m => tables'[n] = tables[n]
  BY <1>1, <1>3, <1>4 DEF SchemaInv, SchemaTypeOK, HandInv
<1>7. Recorded' = Recorded
  BY <1>1 DEF Recorded
<1>8. SchemaTypeOK'
  BY <1>1, <1>2, <1>5, <1>6 DEF SchemaInv, SchemaTypeOK, Stages
<1>9. HandInv' /\ VersionsTellTables'
  BY <1>2, <1>3, <1>5, <1>6 DEF SchemaInv, HandInv, VersionsTellTables, Planned
<1>10. NoGaps' /\ PlanInv'
  BY <1>2, <1>7 DEF SchemaInv, NoGaps, PlanInv
<1>11. BackedInv'
  <2> SUFFICES ASSUME ~clash' PROVE BackedInv!2'
    BY DEF BackedInv
  <2>1. ASSUME NEW q \in Program, NEW n \in todo'[q] \ interrupted', pc'[q] = "up.apply"
        PROVE  1 .. part'[q] \subseteq tables'[n]
    <3>1. n \in Migration /\ n \in todo[q] \ interrupted
      BY DEF SchemaInv, SchemaTypeOK
    <3>2. 1 .. part[q] \subseteq tables[n]
      BY <1>2, <2>1, <3>1 DEF SchemaInv, BackedInv
    <3>3. CASE q # p
      BY <1>5, <1>6, <3>1, <3>2, <3>3
    <3>4. CASE q = p
      <4>1. n = m
        BY <1>3, <3>1, <3>4
      <4>2. 1 .. (part[p] + 1) \subseteq (1 .. part[p]) \union {part[p] + 1}
        BY <1>4
      <4> QED
        BY <1>5, <1>6, <3>2, <3>4, <4>1, <4>2
    <3> QED
      BY <3>3, <3>4
  <2>2. \A q \in Program : pc[q] # "reset.down"
    BY <1>2 DEF SchemaInv, ClashInv, UpStages, ResetStages
  <2>3. ASSUME NEW n \in Recorded' \ interrupted' PROVE tables'[n] = Part(n)
    <3>1. n \in Migration /\ n \in Recorded \ interrupted
      BY <1>7 DEF SchemaInv, SchemaTypeOK, Recorded
    <3>2. tables[n] = Part(n)
      BY <1>2, <2>2, <3>1 DEF SchemaInv, BackedInv
    <3> QED
      BY <1>6, <3>1, <3>2
  <2> QED
    BY <2>1, <2>3
<1>12. NothingLeft'
  <2> SUFFICES ASSUME ~clash' PROVE NothingLeft!2'
    BY DEF NothingLeft
  <2>1. ASSUME NEW n \in Migration \ interrupted', NEW k \in tables'[n], n \notin Recorded'
        PROVE  \E q \in Program : pc'[q] = "up.apply" /\ n \in todo'[q] /\ k <= part'[q]
    <3>1. CASE k \in tables[n]
      <4>1. PICK q \in Program : pc[q] = "up.apply" /\ n \in todo[q] /\ k <= part[q]
        BY <1>2, <1>7, <2>1, <3>1 DEF SchemaInv, NothingLeft
      <4>2. k \in 1 .. 3 /\ part \in [Program -> 0 .. 3]
        BY <3>1 DEF SchemaInv, SchemaTypeOK
      <4>3. k <= part'[q]
        BY <1>5, <4>1, <4>2
      <4> QED
        BY <1>2, <4>1, <4>3
    <3>2. CASE k \notin tables[n]
      <4>1. n = m /\ k = part[p] + 1
        BY <1>6, <2>1, <3>2
      <4> QED
        BY <1>2, <1>3, <1>4, <1>5, <4>1
    <3> QED
      BY <3>1, <3>2
  <2>2. \A q \in Program : pc'[q] # "reset.down"
    BY <1>2 DEF ClashInv, UpStages, ResetStages
  <2> QED
    BY <2>1, <2>2
<1> QED
  BY <1>2, <1>8, <1>9, <1>10, <1>11, <1>12 DEF SchemaInv

\* A migration that cannot be applied: its index is there already.  Whoever
\* created that index has been through the statements before it as well.
LEMMA BlockedKeeps ==
  ASSUME SchemaInv, NEW p \in Program, NEW m \in todo[p], pc[p] = "up.apply",
         part[p] < Ups(m), ~Creatable(m, part[p] + 1),
         part' = [part EXCEPT ![p] = 0], Goto(p, "failed"),
         UNCHANGED <<schema, engine, exists, tracked, cmd, todo, launches, interrupted>>
  PROVE  SchemaInv'
<1>1. /\ m \in Migration /\ todo[p] = {m} /\ part \in [Program -> 0 .. 3]
      /\ exists \in BOOLEAN /\ tracked \in BOOLEAN /\ cmd \in [Program -> Command]
      /\ launches \in Nat /\ interrupted \subseteq Migration
  BY DEF SchemaInv, SchemaTypeOK, HandInv
<1>2. /\ m = 1 /\ part[p] = 2
      /\ 1 \notin tables[m] \/ 3 \in tables[m]
  BY <1>1 DEF Creatable
<1>3. ASSUME m \notin interrupted, ~clash
      PROVE  \/ m \in Recorded
             \/ \E q \in Program : /\ q # p /\ pc[q] = "up.apply" /\ m \in todo[q]
                                   /\ part[p] <= part[q]
  <2>1. 1 \in tables[m]
    <3>1. 1 .. part[p] \subseteq tables[m]
      BY <1>3 DEF SchemaInv, BackedInv
    <3> QED
      BY <1>2, <3>1
  <2>2. 3 \in tables[m]
    BY <1>2, <2>1
  <2>3. CASE m \in Recorded
    BY <2>3
  <2>4. CASE m \notin Recorded
    <3>1. PICK q \in Program : pc[q] = "up.apply" /\ m \in todo[q] /\ 3 <= part[q]
      BY <1>1, <1>3, <2>2, <2>4 DEF SchemaInv, NothingLeft
    <3>2. q # p /\ part[p] <= part[q]
      BY <1>1, <1>2, <3>1
    <3> QED
      BY <3>1, <3>2
  <2> QED
    BY <2>3, <2>4
<1>4. \A n \in todo[p] \ interrupted' :
        part[p] # 0 /\ IsLast(n, todo[p]) /\ ~clash =>
          /\ pc[p] = "up.apply"
          /\ \/ n \in Recorded
             \/ \E q \in Program : /\ q # p /\ pc[q] = "up.apply" /\ n \in todo[q]
                                   /\ part[p] <= part[q]
  BY <1>1, <1>3
<1>5. "failed" \in Stages \ Planned
  BY DEF Stages, Planned, Ended
<1>6. /\ part' \in [Program -> 0 .. 3] /\ part'[p] = 0
      /\ \A q \in Program : q # p => part'[q] = part[q]
  BY <1>1
<1> QED
  BY <1>1, <1>4, <1>5, <1>6, QuietStep

\* The SQL of a migration; on sqlite its entry comes with it.
LEMMA UpApplyOK == ASSUME SchemaInv, NEW p \in Program, UpApply(p) PROVE SchemaInv'
<1>1. /\ pc[p] = "up.apply"
      /\ UNCHANGED <<engine, exists, tracked, cmd, todo, launches, interrupted>>
  BY DEF UpApply
<1>2. PICK m \in todo[p] :
        \/ /\ engine = "sqlite"
           /\ tables' = [tables EXCEPT ![m] = Part(m)]
           /\ Record(m)
           /\ Goto(p, "up.next")
           /\ UNCHANGED part
        \/ engine = "mysql" /\ Create(p, m)
        \/ /\ engine = "mysql"
           /\ part[p] < Ups(m) /\ ~Creatable(m, part[p] + 1)
           /\ part' = [part EXCEPT ![p] = 0]
           /\ Goto(p, "failed")
           /\ UNCHANGED schema
  BY DEF UpApply
<1>3. CASE engine = "sqlite" /\ tables' = [tables EXCEPT ![m] = Part(m)]
  BY <1>1, <1>2, <1>3, RecordingKeeps
<1>4. CASE engine = "mysql" /\ Create(p, m)
  BY <1>1, <1>4, CreateKeeps
<1>5. CASE part[p] < Ups(m) /\ ~Creatable(m, part[p] + 1) /\ UNCHANGED schema /\ Goto(p, "failed")
           /\ part' = [part EXCEPT ![p] = 0]
  BY <1>1, <1>5, BlockedKeeps
<1> QED
  BY <1>2, <1>3, <1>4, <1>5

\* The entry that follows on mysql.
LEMMA UpRecordOK == ASSUME SchemaInv, NEW p \in Program, UpRecord(p) PROVE SchemaInv'
<1>1. PICK m \in todo[p] : part[p] = Ups(m) /\ Record(m)
  BY DEF UpRecord
<1> QED
  BY <1>1, RecordingKeeps DEF UpRecord

\* A reset reads what is recorded: nothing is added while it runs.
LEMMA ResetReadOK == ASSUME SchemaInv, NEW p \in Program, ResetRead(p) PROVE SchemaInv'
<1>1. /\ pc[p] = "reset.read"
      /\ exists' \in BOOLEAN /\ tracked' \in BOOLEAN
      /\ UNCHANGED <<engine, schema, cmd, part, launches, interrupted>>
  BY DEF ResetRead, SchemaInv, SchemaTypeOK
<1>2. CASE ~tracked
  <2>1. UNCHANGED todo /\ Goto(p, "failed")
    BY <1>2 DEF ResetRead
  <2>2. "failed" \in Stages \ Planned /\ pc[p] \notin Planned
    BY <1>1 DEF Stages, Planned, Ended
  <2> QED
    BY <1>1, <2>1, <2>2, IdleStep DEF SchemaInv, SchemaTypeOK
<1>3. CASE tracked
  <2>1. todo' = [todo EXCEPT ![p] = Recorded] /\ Goto(p, "reset.down")
    BY <1>3 DEF ResetRead
  <2>2. /\ pc' \in [Program -> Stages]
        /\ pc'[p] = "reset.down"
        /\ \A q \in Program : q # p => pc'[q] = pc[q]
        /\ clash' \in BOOLEAN
        /\ ~clash' => ~clash
        /\ ClashInv'
    BY <2>1, GotoRemembers DEF SchemaInv, Stages, ResetStages
  <2>3. Recorded' = Recorded /\ tables' = tables /\ part[p] = 0
    BY <1>1 DEF Recorded, schema, SchemaInv, HandInv, Planned
  <2>4. Recorded \subseteq Migration
    BY DEF SchemaInv, SchemaTypeOK, Recorded
  <2>5. /\ todo' \in [Program -> SUBSET Migration]
        /\ todo'[p] = Recorded
        /\ \A q \in Program : q # p => todo'[q] = todo[q]
    BY <2>1, <2>4 DEF SchemaInv, SchemaTypeOK
  <2>6. SchemaTypeOK'
    BY <1>1, <2>2, <2>5 DEF SchemaInv, SchemaTypeOK, schema, Stages
  <2>7. HandInv' /\ VersionsTellTables' /\ NoGaps'
    BY <1>1, <2>2, <2>3, <2>5 DEF SchemaInv, HandInv, VersionsTellTables, NoGaps
  <2>8. PlanInv'
    BY <2>2, <2>3, <2>5 DEF SchemaInv, PlanInv
  <2>9. \A q \in Program : pc[q] = "reset.down" /\ part[q] # 0 => q # p
    BY <1>1
  <2>10. BackedInv'
    BY <1>1, <2>2, <2>3, <2>5, <2>9 DEF SchemaInv, BackedInv
  <2>11. NothingLeft'
    <3> SUFFICES ASSUME ~clash' PROVE NothingLeft!2'
      BY DEF NothingLeft
    <3>1. ASSUME NEW m \in Migration \ interrupted', NEW k \in tables'[m], m \notin Recorded'
          PROVE  \E q \in Program : pc'[q] = "up.apply" /\ m \in todo'[q] /\ k <= part'[q]
      <4>1. PICK q \in Program : pc[q] = "up.apply" /\ m \in todo[q] /\ k <= part[q]
        BY <1>1, <2>2, <2>3, <3>1 DEF SchemaInv, NothingLeft
      <4> QED
        BY <1>1, <2>2, <2>5, <4>1
    <3>2. ASSUME NEW q \in Program, NEW m \in todo'[q] \ interrupted', NEW k \in 1 .. part'[q],
                 pc'[q] = "reset.down", IsLast(m, todo'[q])
          PROVE  tables'[m] \intersect Drops(m, k) = {}
      <4>1. CASE q = p
        BY <1>1, <2>3, <3>2, <4>1
      <4>2. CASE q # p
        BY <1>1, <2>2, <2>3, <2>5, <3>2, <4>2 DEF SchemaInv, NothingLeft
      <4> QED
        BY <4>1, <4>2
    <3> QED
      BY <3>1, <3>2
  <2> QED
    BY <2>2, <2>6, <2>7, <2>8, <2>10, <2>11 DEF SchemaInv
<1> QED
  BY <1>2, <1>3

\* The last of a reset's migrations leaves the entries: no later one is there,
\* and all of it has been dropped.
LEMMA UnrecordKeeps ==
  ASSUME SchemaInv, NEW p \in Program, NEW m \in todo[p], IsLast(m, todo[p]),
         Unrecord(m), todo' = [todo EXCEPT ![p] = @ \ {m}], Goto(p, "reset.down"),
         pc[p] = "reset.down", UNCHANGED <<engine, exists, tracked, cmd, launches, interrupted>>,
         \/ engine = "sqlite" /\ tables' = [tables EXCEPT ![m] = {}] /\ UNCHANGED part
         \/ /\ engine = "mysql" /\ UNCHANGED tables
            /\ part[p] = Downs(m) /\ part' = [part EXCEPT ![p] = 0]
  PROVE  SchemaInv'
<1>1. /\ pc' \in [Program -> Stages]
      /\ pc'[p] = "reset.down"
      /\ \A q \in Program : q # p => pc'[q] = pc[q]
      /\ clash' \in BOOLEAN
      /\ ~clash' => ~clash
      /\ ClashInv'
  BY GotoRemembers DEF SchemaInv, Stages, ResetStages
<1>2. todo[p] \subseteq Migration /\ m \in Migration /\ m \in Nat /\ Recorded \subseteq Migration
  BY SchemaAssumption DEF SchemaInv, SchemaTypeOK, Migration, Recorded
<1>3. /\ Recorded' = Recorded \ {m}
      /\ versions' \subseteq [id : Nat, version : Migration]
      /\ lastId' \in Nat
  BY UnrecordRemoves DEF SchemaInv
<1>4. /\ todo' \in [Program -> SUBSET Migration]
      /\ todo'[p] = todo[p] \ {m}
      /\ \A q \in Program : q # p => todo'[q] = todo[q]
  BY DEF SchemaInv, SchemaTypeOK
<1>5. /\ part' \in [Program -> 0 .. 3] /\ part'[p] = 0
      /\ \A q \in Program : q # p => part'[q] = part[q]
  BY DEF SchemaInv, SchemaTypeOK, HandInv
<1>6. /\ tables' \in [Migration -> SUBSET (1 .. 3)]
      /\ \A n \in Migration : tables'[n] \subseteq tables[n]
      /\ \A n \in Migration : n # m => tables'[n] = tables[n]
  BY <1>2 DEF SchemaInv, SchemaTypeOK
<1>7. SchemaTypeOK'
  BY <1>1, <1>3, <1>4, <1>5, <1>6 DEF SchemaInv, SchemaTypeOK, Stages
<1>8. HandInv'
  BY <1>1, <1>4, <1>5, <1>6 DEF SchemaInv, HandInv
<1>9. VersionsTellTables'
  <2> SUFFICES ASSUME engine = "sqlite", NEW n \in Migration
               PROVE  tables'[n] = IF n \in Recorded' THEN Part(n) ELSE {}
    BY DEF VersionsTellTables
  <2>1. tables' = [tables EXCEPT ![m] = {}]
    OBVIOUS
  <2> QED
    BY <1>2, <1>3, <2>1 DEF SchemaInv, SchemaTypeOK, VersionsTellTables
<1>10. ASSUME ~clash'
      PROVE  /\ Recorded \subseteq todo[p]
             /\ \A q \in Program : pc'[q] \notin UpStages /\ pc[q] \notin UpStages
  <2>1. \A q \in Program : pc'[q] \notin UpStages
    BY <1>1, <1>10 DEF ClashInv, ResetStages
  <2>2. \A q \in Program : pc[q] \notin UpStages
    BY <1>1, <1>10 DEF SchemaInv, ClashInv, ResetStages
  <2> QED
    BY <1>1, <1>10, <2>1, <2>2 DEF SchemaInv, PlanInv
<1>11. NoGaps'
  <2> SUFFICES ASSUME ~clash', NEW n \in Recorded', NEW k \in 1 .. n PROVE k \in Recorded'
    BY DEF NoGaps
  <2>1. n \in Recorded /\ n # m /\ n \in todo[p] /\ k \in Recorded
    BY <1>1, <1>3, <1>10 DEF SchemaInv, NoGaps
  <2>2. n <= m /\ n \in Nat
    BY <1>2, <2>1 DEF IsLast, Migration
  <2> QED
    BY <1>2, <1>3, <2>1, <2>2
<1>12. PlanInv'
  <2> SUFFICES ASSUME ~clash' PROVE PlanInv!2'
    BY DEF PlanInv
  <2>1. \A q \in Program : pc'[q] = "reset.down" => Recorded' \subseteq todo'[q]
    BY <1>1, <1>3, <1>4, <1>10 DEF SchemaInv, PlanInv
  <2> QED
    BY <1>10, <2>1 DEF UpStages
<1>13. BackedInv'
  <2> SUFFICES ASSUME ~clash' PROVE BackedInv!2'
    BY DEF BackedInv
  <2>1. \A q \in Program : pc'[q] # "up.apply"
    BY <1>10 DEF UpStages
  <2>2. ASSUME NEW n \in Recorded' \ interrupted', tables'[n] # Part(n)
        PROVE  \E q \in Program : pc'[q] = "reset.down" /\ part'[q] # 0 /\ IsLast(n, todo'[q])
    <3>1. n # m /\ n \in Recorded \ interrupted /\ n \in Migration /\ tables[n] # Part(n)
      BY <1>2, <1>3, <1>6, <2>2
    <3>2. PICK q \in Program : pc[q] = "reset.down" /\ part[q] # 0 /\ IsLast(n, todo[q])
      BY <1>1, <3>1 DEF SchemaInv, BackedInv
    <3>3. q # p
      BY <1>2, <3>1, <3>2, OneIsLast DEF IsLast
    <3> QED
      BY <1>1, <1>4, <1>5, <3>2, <3>3
  <2> QED
    BY <2>1, <2>2
<1>14. NothingLeft'
  <2> SUFFICES ASSUME ~clash' PROVE NothingLeft!2'
    BY DEF NothingLeft
  <2>1. \A q \in Program : pc[q] # "up.apply"
    BY <1>10 DEF UpStages
  <2>2. ASSUME NEW n \in Migration \ interrupted', NEW k \in tables'[n] PROVE n \in Recorded'
    <3>1. k \in tables[n] /\ n \notin interrupted
      BY <1>6, <2>2
    <3>2. n \in Recorded
      BY <1>1, <2>1, <3>1 DEF SchemaInv, NothingLeft
    <3>3. n # m
      <4> SUFFICES ASSUME n = m PROVE FALSE
        OBVIOUS
      <4>1. CASE engine = "sqlite"
        BY <1>2, <2>2, <4>1 DEF SchemaInv, SchemaTypeOK
      <4>2. CASE engine # "sqlite"
        <5>1. PICK x \in 1 .. Downs(m) : k \in Drops(m, x)
          BY <1>2, <3>1, StatementFacts DEF SchemaInv, HandInv
        <5>2. tables[m] \intersect Drops(m, x) = {}
          BY <1>1, <3>1, <4>2, <5>1 DEF SchemaInv, NothingLeft
        <5> QED
          BY <3>1, <5>1, <5>2
      <4> QED
        BY <4>1, <4>2
    <3> QED
      BY <1>3, <3>2, <3>3
  <2>3. ASSUME NEW q \in Program, NEW n \in todo'[q] \ interrupted', NEW k \in 1 .. part'[q],
               pc'[q] = "reset.down", IsLast(n, todo'[q])
        PROVE  tables'[n] \intersect Drops(n, k) = {}
    <3>1. q # p
      BY <1>5, <2>3
    <3>2. n \in Migration /\ n \in todo[q] \ interrupted /\ k \in 1 .. part[q]
          /\ pc[q] = "reset.down" /\ IsLast(n, todo[q])
      BY <1>1, <1>4, <1>5, <2>3, <3>1
    <3>3. tables[n] \intersect Drops(n, k) = {}
      BY <1>1, <3>2 DEF SchemaInv, NothingLeft
    <3> QED
      BY <1>6, <3>2, <3>3
  <2> QED
    BY <2>2, <2>3
<1> QED
  BY <1>1, <1>7, <1>8, <1>9, <1>11, <1>12, <1>13, <1>14 DEF SchemaInv

\* One more statement of a reset on mysql.
LEMMA DropKeeps ==
  ASSUME SchemaInv, NEW p \in Program, NEW m \in todo[p], IsLast(m, todo[p]),
         pc[p] = "reset.down", Goto(p, "reset.down"), engine = "mysql", part[p] < Downs(m),
         tables' = [tables EXCEPT ![m] = @ \ Drops(m, part[p] + 1)],
         part' = [part EXCEPT ![p] = @ + 1],
         UNCHANGED <<versions, lastId, todo, engine, exists, tracked, cmd, launches, interrupted>>
  PROVE  SchemaInv'
<1>1. /\ pc' \in [Program -> Stages]
      /\ pc'[p] = "reset.down"
      /\ \A q \in Program : q # p => pc'[q] = pc[q]
      /\ clash' \in BOOLEAN
      /\ ~clash' => ~clash
      /\ ClashInv'
  BY GotoRemembers DEF SchemaInv, Stages, ResetStages
<1>2. m \in Migration /\ todo[p] \subseteq Migration
  BY DEF SchemaInv, SchemaTypeOK
<1>3. part[p] \in 0 .. 2
  BY <1>2, StatementFacts DEF SchemaInv, SchemaTypeOK
<1>4. /\ part' \in [Program -> 0 .. 3] /\ part'[p] = part[p] + 1
      /\ \A q \in Program : q # p => part'[q] = part[q]
  BY <1>3 DEF SchemaInv, SchemaTypeOK
<1>5. /\ tables' \in [Migration -> SUBSET (1 .. 3)]
      /\ tables'[m] = tables[m] \ Drops(m, part[p] + 1)
      /\ \A n \in Migration : tables'[n] \subseteq tables[n]
      /\ \A n \in Migration : n # m => tables'[n] = tables[n]
  BY <1>2 DEF SchemaInv, SchemaTypeOK
<1>6. Recorded' = Recorded
  BY DEF Recorded
<1>7. SchemaTypeOK'
  BY <1>1, <1>4, <1>5 DEF SchemaInv, SchemaTypeOK, Stages
<1>8. HandInv' /\ VersionsTellTables'
  BY <1>1, <1>4, <1>5 DEF SchemaInv, HandInv, VersionsTellTables, Planned
<1>9. NoGaps' /\ PlanInv'
  BY <1>1, <1>6 DEF SchemaInv, NoGaps, PlanInv
<1>10. ASSUME ~clash' PROVE \A q \in Program : pc[q] # "up.apply" /\ pc'[q] # "up.apply"
  BY <1>1, <1>10 DEF SchemaInv, ClashInv, UpStages, ResetStages
<1>11. BackedInv'
  <2> SUFFICES ASSUME ~clash' PROVE BackedInv!2'
    BY DEF BackedInv
  <2>1. ASSUME NEW n \in Recorded' \ interrupted', tables'[n] # Part(n)
        PROVE  \E q \in Program : pc'[q] = "reset.down" /\ part'[q] # 0 /\ IsLast(n, todo'[q])
    <3>1. CASE n = m
      BY <1>1, <1>3, <1>4, <3>1
    <3>2. CASE n # m
      <4>1. n \in Recorded \ interrupted /\ n \in Migration /\ tables[n] # Part(n)
        BY <1>5, <1>6, <2>1, <3>2 DEF SchemaInv, SchemaTypeOK, Recorded
      <4>2. PICK q \in Program : pc[q] = "reset.down" /\ part[q] # 0 /\ IsLast(n, todo[q])
        BY <1>1, <4>1 DEF SchemaInv, BackedInv
      <4>3. part'[q] # 0
        BY <1>3, <1>4, <4>2
      <4> QED
        BY <1>1, <4>2, <4>3
    <3> QED
      BY <3>1, <3>2
  <2> QED
    BY <1>10, <2>1
<1>12. NothingLeft'
  <2> SUFFICES ASSUME ~clash' PROVE NothingLeft!2'
    BY DEF NothingLeft
  <2>1. ASSUME NEW n \in Migration \ interrupted', NEW k \in tables'[n] PROVE n \in Recorded'
    BY <1>1, <1>5, <1>6, <1>10, <2>1 DEF SchemaInv, NothingLeft
  <2>2. ASSUME NEW q \in Program, NEW n \in todo'[q] \ interrupted', NEW k \in 1 .. part'[q],
               pc'[q] = "reset.down", IsLast(n, todo'[q])
        PROVE  tables'[n] \intersect Drops(n, k) = {}
    <3>1. n \in todo[q] \ interrupted /\ n \in Migration /\ IsLast(n, todo[q])
      BY <2>2 DEF SchemaInv, SchemaTypeOK
    <3>2. CASE k \in 1 .. part[q]
      <4>1. tables[n] \intersect Drops(n, k) = {}
        BY <1>1, <2>2, <3>1, <3>2 DEF SchemaInv, NothingLeft
      <4> QED
        BY <1>5, <3>1, <4>1
    <3>3. CASE k \notin 1 .. part[q]
      <4>1. q = p
        BY <1>4, <2>2, <3>3
      <4>2. k = part[p] + 1
        BY <1>3, <1>4, <2>2, <3>3, <4>1
      <4>3. n = m
        BY <1>2, <3>1, <4>1, OneIsLast
      <4> QED
        BY <1>5, <4>2, <4>3
    <3> QED
      BY <3>2, <3>3
  <2> QED
    BY <2>1, <2>2
<1> QED
  BY <1>1, <1>7, <1>8, <1>9, <1>11, <1>12 DEF SchemaInv

\* A migration is taken back; on mysql its entry stays for one more step.
LEMMA ResetDownOK == ASSUME SchemaInv, NEW p \in Program, ResetDown(p) PROVE SchemaInv'
<1>1. /\ pc[p] = "reset.down" /\ Goto(p, "reset.down")
      /\ UNCHANGED <<engine, exists, tracked, cmd, launches, interrupted>>
  BY DEF ResetDown
<1>2. PICK m \in todo[p] :
        /\ IsLast(m, todo[p])
        /\ \/ /\ engine = "sqlite"
              /\ tables' = [tables EXCEPT ![m] = {}]
              /\ Unrecord(m)
              /\ todo' = [todo EXCEPT ![p] = @ \ {m}]
              /\ UNCHANGED part
           \/ /\ engine = "mysql" /\ part[p] < Downs(m)
              /\ tables' = [tables EXCEPT ![m] = @ \ Drops(m, part[p] + 1)]
              /\ part' = [part EXCEPT ![p] = @ + 1]
              /\ UNCHANGED <<versions, lastId, todo>>
  BY DEF ResetDown
<1>3. CASE engine = "sqlite"
  BY <1>1, <1>2, <1>3, UnrecordKeeps
<1>4. CASE engine # "sqlite"
  BY <1>1, <1>2, <1>4, DropKeeps
<1> QED
  BY <1>3, <1>4

LEMMA ResetRecordOK == ASSUME SchemaInv, NEW p \in Program, ResetRecord(p) PROVE SchemaInv'
<1>1. PICK m \in todo[p] :
        /\ IsLast(m, todo[p]) /\ part[p] = Downs(m)
        /\ Unrecord(m)
        /\ todo' = [todo EXCEPT ![p] = @ \ {m}]
  BY DEF ResetRecord
<1> QED
  BY <1>1, UnrecordKeeps DEF ResetRecord

-----------------------------------------------------------------------------
\* The steps that touch neither tables nor entries.
LEMMA StopOK == ASSUME SchemaInv, NEW p \in Program, Stop(p) PROVE SchemaInv'
<1>1. /\ exists \in BOOLEAN /\ tracked \in BOOLEAN /\ cmd \in [Program -> Command]
      /\ launches \in Nat /\ interrupted \subseteq Migration
      /\ part \in [Program -> 0 .. 3] /\ todo \in [Program -> SUBSET Migration]
  BY DEF SchemaInv, SchemaTypeOK
<1>2. /\ interrupted' = interrupted \union {m \in todo[p] : part[p] > 0 /\ IsLast(m, todo[p])}
      /\ part' = [part EXCEPT ![p] = 0]
      /\ Goto(p, "failed")
      /\ UNCHANGED <<engine, database, cmd, todo, launches>>
  BY DEF Stop
<1>3. part[p] # 0 => part[p] > 0
  BY <1>1
<1>4. \A m \in todo[p] : part[p] # 0 /\ IsLast(m, todo[p]) => m \in interrupted'
  BY <1>2, <1>3
<1>5. interrupted \subseteq interrupted' /\ interrupted' \subseteq Migration
  BY <1>1, <1>2
<1>6. /\ part' \in [Program -> 0 .. 3] /\ part'[p] = 0
      /\ \A q \in Program : q # p => part'[q] = part[q]
  BY <1>1, <1>2
<1>7. "failed" \in Stages \ Planned
  BY DEF Stages, Planned, Ended
<1> QED
  BY <1>1, <1>2, <1>4, <1>5, <1>6, <1>7, QuietStep DEF database

LEMMA QuietOK ==
  ASSUME SchemaInv, NEW p \in Program,
         \/ \E c \in Command : Launch(p, c)
         \/ Open(p) \/ Serve(p) \/ Maintain(p) \/ PingOrStatus(p) \/ StartUp(p) \/ StartReset(p)
         \/ UpEnsure(p) \/ ResetEnds(p)
  PROVE  SchemaInv'
<1> USE DEF database
<1>1. /\ exists \in BOOLEAN /\ tracked \in BOOLEAN /\ cmd \in [Program -> Command]
      /\ launches \in Nat /\ part[p] \in Nat
  BY DEF SchemaInv, SchemaTypeOK
<1>2. {"open", "opened", "serving", "ok", "failed", "up.ensure", "up.next", "reset.read"} \subseteq Stages \ Planned
  BY DEF Stages, Planned, Ended, UpStages, ResetStages
<1>3. ASSUME NEW c \in Command, Launch(p, c) PROVE SchemaInv'
  <2>1. pc[p] \notin Planned
    BY <1>3 DEF Launch, Ended, Planned
  <2>2. cmd' \in [Program -> Command] /\ launches' \in Nat
    BY <1>1, <1>3 DEF Launch
  <2> QED
    BY <1>1, <1>2, <1>3, <2>1, <2>2, IdleStep DEF Launch
<1>4. CASE Open(p)
  <2> DEFINE stage == IF engine = "sqlite" /\ ~exists /\ cmd[p] \notin MigrationCommand
                      THEN "up.ensure" ELSE "opened"
  <2>1. stage \in Stages \ Planned /\ Goto(p, stage)
    BY <1>2, <1>4 DEF Open
  <2>2. pc[p] \notin Planned
    BY <1>4 DEF Open, Planned
  <2> HIDE DEF stage
  <2> QED
    BY <1>1, <1>4, <2>1, <2>2, IdleStep DEF Open
<1>5. CASE Serve(p)
  BY <1>1, <1>2, <1>5, IdleStep DEF Serve, Planned
<1>6. CASE Maintain(p)
  <2>1. exists' \in BOOLEAN /\ pc[p] \notin Planned
    BY <1>1, <1>6 DEF Maintain, Planned
  <2> DEFINE stage == IF engine = "sqlite" /\ 1 \in tables[1] THEN "ok" ELSE "failed"
  <2>2. stage \in Stages \ Planned /\ Goto(p, stage)
    BY <1>2, <1>6 DEF Maintain
  <2> HIDE DEF stage
  <2> QED
    BY <1>1, <1>6, <2>1, <2>2, IdleStep DEF Maintain
<1>7. CASE PingOrStatus(p)
  <2>1. exists' \in BOOLEAN /\ tracked' \in BOOLEAN /\ pc[p] \notin Planned
    BY <1>1, <1>7 DEF PingOrStatus, Planned
  <2> DEFINE stage == IF exists' THEN "ok" ELSE "failed"
  <2>2. stage \in Stages \ Planned /\ Goto(p, stage)
    BY <1>2, <1>7 DEF PingOrStatus
  <2> HIDE DEF stage
  <2> QED
    BY <1>1, <1>7, <2>1, <2>2, IdleStep DEF PingOrStatus
<1>8. CASE StartUp(p)
  <2>1. exists' \in BOOLEAN /\ pc[p] \notin Planned
    BY <1>1, <1>8 DEF StartUp, Planned
  <2> QED
    BY <1>1, <1>2, <1>8, <2>1, IdleStep DEF StartUp
<1>9. CASE StartReset(p)
  BY <1>1, <1>2, <1>9, IdleStep DEF StartReset, Planned
<1>10. CASE UpEnsure(p)
  BY <1>1, <1>2, <1>10, IdleStep DEF UpEnsure, Planned
<1>11. CASE ResetEnds(p)
  <2>1. part[p] = 0
    BY <1>11 DEF ResetEnds, SchemaInv, HandInv
  <2> QED
    BY <1>1, <1>2, <1>11, <2>1, IdleStep DEF ResetEnds
<1> QED
  BY <1>3, <1>4, <1>5, <1>6, <1>7, <1>8, <1>9, <1>10, <1>11

LEMMA SchemaNextOK == SchemaInv /\ [SchemaNext]_schemaVars => SchemaInv'
<1> SUFFICES ASSUME SchemaInv, [SchemaNext]_schemaVars PROVE SchemaInv'
  OBVIOUS
<1>1. ASSUME NEW p \in Program,
             (\E c \in Command : Launch(p, c)) \/ Step(p) \/ Stop(p)
      PROVE  SchemaInv'
  BY <1>1, StopOK, QuietOK, UpNextOK, UpApplyOK, UpRecordOK, ResetReadOK, ResetDownOK, ResetRecordOK
     DEF Step
<1>2. CASE UNCHANGED schemaVars
  BY <1>2 DEF schemaVars, database, schema, history, SchemaInv, SchemaTypeOK, HandInv,
              VersionsTellTables, ClashInv, NoGaps, PlanInv, BackedInv, NothingLeft, Recorded
<1> QED
  BY <1>1, <1>2 DEF SchemaNext

LEMMA SchemaAlways == SchemaSpec => []SchemaInv
BY SchemaInitOK, SchemaNextOK, PTL DEF SchemaSpec

\* Every variable of the schema's life keeps its type.
THEOREM SchemaTypeCorrect == SchemaSpec => []SchemaTypeOK
<1>1. SchemaInv => SchemaTypeOK
  BY DEF SchemaInv
<1> QED
  BY <1>1, SchemaAlways, PTL

\* On sqlite goose's version table names exactly the migrations whose tables
\* are there, whichever programs migrate at once, fail or are killed.
THEOREM SqliteVersionsTellTables == SchemaSpec => []VersionsTellTables
<1>1. SchemaInv => VersionsTellTables
  BY DEF SchemaInv
<1> QED
  BY <1>1, SchemaAlways, PTL

\* The entries have no gap, so that the latest tells how far the schema is,
\* unless an up and a reset got into each other's way.
THEOREM EntriesHaveNoGaps == SchemaSpec => []NoGaps
<1>1. SchemaInv => NoGaps
  BY DEF SchemaInv
<1> QED
  BY <1>1, SchemaAlways, PTL

\* An up that reports success, or lets a program go on, leaves all of every
\* migration that no program was stopped in the middle of.
THEOREM UpIsComplete == SchemaSpec => UpMeansCurrent
<1> DEFINE Complete ==
      \A p \in Program :
        pc[p] = "up.next" /\ pc'[p] \in {"ok", "opened"} /\ ~clash =>
          \A m \in Migration \ interrupted : tables[m] = Part(m)
<1>1. SchemaInv /\ [SchemaNext]_schemaVars => [Complete]_schemaVars
  <2> SUFFICES ASSUME SchemaInv, SchemaNext, NEW p \in Program,
                      pc[p] = "up.next", pc'[p] \in {"ok", "opened"}, ~clash,
                      NEW m \in Migration \ interrupted
               PROVE  tables[m] = Part(m)
    OBVIOUS
  <2>1. UpNext(p)
    <3>1. PICK q \in Program : (\E c \in Command : Launch(q, c)) \/ Step(q) \/ Stop(q)
      BY DEF SchemaNext
    <3>2. \E stage : Goto(q, stage)
      BY <3>1 DEF Step, Launch, Open, Serve, Maintain, PingOrStatus, StartUp, StartReset, UpEnsure,
                  UpNext, UpApply, Create, UpRecord, ResetRead, ResetDown, ResetRecord, ResetEnds, Stop
    <3>3. q = p
      BY <3>2 DEF Goto, SchemaInv, SchemaTypeOK
    <3>4. pc'[p] \notin {"open", "failed"}
      OBVIOUS
    <3> QED
      BY <3>1, <3>3, <3>4
         DEF Step, Launch, Open, Serve, Maintain, PingOrStatus, StartUp, StartReset, UpEnsure,
             UpApply, Create, UpRecord, ResetRead, ResetDown, ResetRecord, ResetEnds, Stop, Ended, Goto,
             SchemaInv, SchemaTypeOK
  <2>2. PICK v \in 0 .. N :
          /\ CurrentVersion(v)
          /\ v # N => Goto(p, "up.apply")
    BY <2>1 DEF UpNext
  <2>3. v = N
    BY <2>2 DEF Goto, SchemaInv, SchemaTypeOK
  <2>4. N \in Recorded
    BY <2>2, <2>3, SchemaAssumption DEF CurrentVersion, Recorded
  <2>5. Migration \subseteq Recorded
    BY <2>4 DEF SchemaInv, NoGaps, Migration
  <2>6. \A q \in Program : pc[q] # "reset.down"
    BY DEF SchemaInv, ClashInv, UpStages, ResetStages
  <2> QED
    BY <2>5, <2>6 DEF SchemaInv, BackedInv
<1> QED
  BY <1>1, SchemaAlways, PTL DEF SchemaSpec, UpMeansCurrent

-----------------------------------------------------------------------------
(***************************************************************************)
(* The version table seen from outside: SchemaLifecycle implements         *)
(* SchemaVersions.                                                         *)
(***************************************************************************)
\* Only goose's insert and delete change the entries.
LEMMA EntriesMove ==
  ASSUME SchemaInv, SchemaNext
  PROVE  \/ Recorded' = Recorded
         \/ \E p \in Program : \E m \in todo[p] :
              pc[p] = "up.apply" /\ Record(m)
         \/ \E p \in Program : \E m \in todo[p] :
              pc[p] = "reset.down" /\ IsLast(m, todo[p]) /\ Unrecord(m)
<1>1. versions' = versions => Recorded' = Recorded
  BY DEF Recorded
<1>2. PICK p \in Program : (\E c \in Command : Launch(p, c)) \/ Step(p) \/ Stop(p)
  BY DEF SchemaNext
<1>3. CASE UpApply(p) \/ UpRecord(p)
  BY <1>1, <1>3 DEF UpApply, UpRecord, Create, schema
<1>4. CASE ResetDown(p) \/ ResetRecord(p)
  BY <1>1, <1>4 DEF ResetDown, ResetRecord
<1> QED
  BY <1>1, <1>2, <1>3, <1>4
     DEF Step, Launch, Open, Serve, Maintain, PingOrStatus, StartUp, StartReset, UpEnsure,
         UpNext, ResetRead, ResetEnds, Stop, database, schema

\* Entries without a gap that have all before m, but not m, end right before it.
LEMMA PrefixOf ==
  ASSUME NEW S \in SUBSET Migration, \A n \in S : 1 .. n \subseteq S, NEW m \in Migration,
         1 .. (m - 1) \subseteq S, m \notin S
  PROVE  S = 1 .. (m - 1) /\ S \union {m} = 1 .. m
<1>1. m \in Nat /\ \A n \in S : n \in Nat /\ n >= 1
  BY SchemaAssumption DEF Migration
<1>2. \A n \in S : n <= m - 1
  <2> SUFFICES ASSUME NEW n \in S, n > m - 1 PROVE FALSE
    BY <1>1
  <2>1. m \in 1 .. n
    BY <1>1 DEF Migration
  <2> QED
    BY <2>1
<1>3. S = 1 .. (m - 1)
  <2>1. \A n \in S : n \in 1 .. (m - 1)
    BY <1>1, <1>2
  <2> QED
    BY <2>1
<1>4. 1 .. m = (1 .. (m - 1)) \union {m}
  BY <1>1 DEF Migration
<1> QED
  BY <1>3, <1>4

\* An insert adds the next entry, or one more row for an entry that another
\* program made first.
LEMMA InsertIsUp ==
  ASSUME SchemaInv, ~clash, NEW p \in Program, NEW m \in todo[p],
         pc[p] = "up.apply", Record(m)
  PROVE  Recorded' = Recorded \/ Versions!Up
<1>1. m \in Migration /\ Recorded \subseteq Migration
  BY DEF SchemaInv, SchemaTypeOK, Recorded
<1>2. Recorded' = Recorded \union {m}
  BY <1>1, RecordAdds DEF SchemaInv
<1>3. CASE m \notin Recorded
  <2>1. 1 .. (m - 1) \subseteq Recorded /\ \A n \in Recorded : 1 .. n \subseteq Recorded
    BY DEF SchemaInv, PlanInv, NoGaps
  <2>2. Recorded = 1 .. (m - 1) /\ Recorded \union {m} = 1 .. m
    BY <1>1, <1>3, <2>1, PrefixOf
  <2> QED
    BY <1>1, <1>2, <2>2 DEF Versions!Up, Migration
<1> QED
  BY <1>2, <1>3

\* A delete takes away the last entry, or one that another program took first.
LEMMA DeleteIsDown ==
  ASSUME SchemaInv, ~clash, NEW p \in Program, NEW m \in todo[p],
         pc[p] = "reset.down", IsLast(m, todo[p]), Unrecord(m)
  PROVE  Recorded' = Recorded \/ Versions!Down
<1>1. m \in Migration /\ Recorded \subseteq Migration
  BY DEF SchemaInv, SchemaTypeOK, Recorded
<1>2. Recorded' = Recorded \ {m}
  BY UnrecordRemoves DEF SchemaInv
<1>3. CASE m \in Recorded
  <2>1. Recorded \subseteq todo[p] /\ 1 .. m \subseteq Recorded
    BY <1>3 DEF SchemaInv, PlanInv, NoGaps
  <2>2. m \in Nat /\ \A n \in Recorded : n \in Nat /\ 1 <= n /\ n <= m
    BY <1>1, <2>1, SchemaAssumption DEF IsLast, Migration
  <2>3. Recorded = 1 .. m
    <3>1. \A n \in Recorded : n \in 1 .. m
      BY <2>2
    <3> QED
      BY <2>1, <3>1
  <2>4. (1 .. m) \ {m} = 1 .. (m - 1)
    BY <2>2
  <2> QED
    BY <1>1, <1>2, <2>3, <2>4 DEF Versions!Down, Migration
<1> QED
  BY <1>2, <1>3

\* Whatever programs apply and take back the same migrations at once, the
\* version table moves along SchemaVersions: the entries are always the first
\* few migrations and change by one at a time, until an up meets a reset.
THEOREM VersionsAreKept == SchemaSpec => VersionsPromise
<1>1. SchemaInit => Versions!VersionsInit
  BY DEF SchemaInit, Versions!VersionsInit, Recorded
<1>2. SchemaInv /\ SchemaInv' /\ [SchemaNext]_schemaVars
      => [Versions!VersionsNext]_Versions!versionVars
  <2> SUFFICES ASSUME SchemaInv, SchemaInv', [SchemaNext]_schemaVars
               PROVE  [Versions!VersionsNext]_Versions!versionVars
    OBVIOUS
  <2>1. CASE UNCHANGED schemaVars
    BY <2>1 DEF schemaVars, database, schema, history, Recorded, Versions!versionVars
  <2>2. CASE clash'
    <3>1. Recorded' \subseteq 1 .. N
      BY DEF SchemaInv, SchemaTypeOK, Recorded, Migration
    <3>2. clash' = TRUE
      BY <2>2 DEF SchemaInv, SchemaTypeOK
    <3> QED
      BY <3>1, <3>2 DEF Versions!VersionsNext
  <2>3. CASE SchemaNext /\ ~clash'
    <3>1. ~clash /\ clash' = clash
      <4>1. \E p \in Program : \E stage : Goto(p, stage)
        BY <2>3 DEF SchemaNext, Step, Launch, Open, Serve, Maintain, PingOrStatus, StartUp,
                    StartReset, UpEnsure, UpNext, UpApply, Create, UpRecord, ResetRead, ResetDown,
                    ResetRecord, ResetEnds, Stop
      <4> QED
        BY <2>3, <4>1 DEF Goto, SchemaInv, SchemaTypeOK
    <3>2. Recorded' = Recorded \/ Versions!Up \/ Versions!Down
      BY <2>3, <3>1, EntriesMove, InsertIsUp, DeleteIsDown
    <3> QED
      BY <3>1, <3>2 DEF Versions!VersionsNext, Versions!versionVars
  <2> QED
    BY <2>1, <2>2, <2>3
<1> QED
  BY <1>1, <1>2, SchemaAlways, PTL DEF SchemaSpec, VersionsPromise, Versions!VersionsSpec

-----------------------------------------------------------------------------
\* A reset that reports success leaves no entry, however many rows racing ups
\* have made for a migration, and nothing of any migration that no program was
\* stopped in the middle of.
THEOREM ResetIsComplete == SchemaSpec => ResetMeansEmpty
<1> DEFINE Complete ==
      \A p \in Program :
        pc[p] = "reset.down" /\ pc'[p] = "ok" /\ ~clash =>
          /\ Recorded = {}
          /\ \A m \in Migration \ interrupted : tables[m] = {}
<1>1. SchemaInv /\ [SchemaNext]_schemaVars => [Complete]_schemaVars
  <2> SUFFICES ASSUME SchemaInv, SchemaNext, NEW p \in Program,
                      pc[p] = "reset.down", pc'[p] = "ok", ~clash
               PROVE  /\ Recorded = {}
                      /\ \A m \in Migration \ interrupted : tables[m] = {}
    OBVIOUS
  <2>1. ResetEnds(p)
    <3>1. PICK q \in Program : (\E c \in Command : Launch(q, c)) \/ Step(q) \/ Stop(q)
      BY DEF SchemaNext
    <3>2. \E stage : Goto(q, stage)
      BY <3>1 DEF Step, Launch, Open, Serve, Maintain, PingOrStatus, StartUp, StartReset, UpEnsure,
                  UpNext, UpApply, Create, UpRecord, ResetRead, ResetDown, ResetRecord, ResetEnds, Stop
    <3>3. q = p
      BY <3>2 DEF Goto, SchemaInv, SchemaTypeOK
    <3> QED
      BY <3>1, <3>3
         DEF Step, Launch, Open, Serve, Maintain, PingOrStatus, StartUp, StartReset, UpEnsure,
             UpNext, UpApply, Create, UpRecord, ResetRead, ResetDown, ResetRecord, Stop, Ended, Goto,
             SchemaInv, SchemaTypeOK
  <2>2. Recorded = {}
    BY <2>1 DEF ResetEnds, SchemaInv, PlanInv
  <2>3. \A q \in Program : pc[q] # "up.apply"
    BY DEF SchemaInv, ClashInv, UpStages, ResetStages
  <2>4. ASSUME NEW m \in Migration \ interrupted PROVE tables[m] = {}
    BY <2>2, <2>3 DEF SchemaInv, NothingLeft
  <2> QED
    BY <2>2, <2>4
<1> QED
  BY <1>1, SchemaAlways, PTL DEF SchemaSpec, ResetMeansEmpty
=============================================================================
