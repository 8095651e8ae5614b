--------------------------- MODULE DatabaseProofs ---------------------------
(***************************************************************************)
(* Any number of sessions, tables, indexes and rows.  Where one session at *)
(* most creates indexes, the maps of the catalog by oid and by name stay   *)
(* one and the same, whatever the others scan, change and drop.  And       *)
(* whatever the others do, a scan finds what matched all along, nothing    *)
(* that never matched, and nothing twice.  A statement that the others     *)
(* leave alone does what SQL says.                                         *)
(***************************************************************************)
EXTENDS Database, FiniteSetTheorems, NaturalsInduction, TLAPS

-----------------------------------------------------------------------------
(* The inductive invariant.                                                *)

\* Every table is found under its own name.
TablesAgree ==
  /\ \E S : tables \in Seq(S)
  /\ \A o \in 1 .. Len(tables) :
       "name" \in DOMAIN tables[o] /\ tables[o].name \in DOMAIN tableNames
  /\ \A t \in DOMAIN tableNames :
       tableNames[t] \in 1 .. Len(tables) /\ tables[tableNames[t]].name = t

\* Every index is found under its own name and table, and nothing else is.
IndexesAgree ==
  /\ nextIndexOid \in Nat
  /\ \A o \in DOMAIN indexes :
       /\ o \in Nat /\ o < nextIndexOid
       /\ \A i, t : i = indexes[o].name /\ t = indexes[o].table =>
            HasIndex(i, t) /\ GetIndex(i, t) = o
  /\ \A i, t : HasIndex(i, t) =>
       /\ t \in DOMAIN tableNames
       /\ GetIndex(i, t) \in DOMAIN indexes
       /\ indexes[GetIndex(i, t)].name = i
       /\ indexes[GetIndex(i, t)].table = t
  /\ \A t \in DOMAIN indexNames : \E i : HasIndex(i, t)

\* A CREATE INDEX that was planned, and one that fills its index: nothing has
\* taken its name or its oid.
PlannedOK(c, s) ==
  /\ "kind" \in DOMAIN c
  /\ c.kind = "create" =>
       /\ "create" \in MayRun[s]
       /\ {"name", "table", "map"} \subseteq DOMAIN c.stmt
       /\ c.stmt.table \in DOMAIN tableNames

BuildOK(c, s) ==
  /\ {"info", "oid"} \subseteq DOMAIN c
  /\ "create" \in MayRun[s]
  /\ {"name", "table", "map"} \subseteq DOMAIN c.info
  /\ c.info.table \in DOMAIN tableNames
  /\ ~HasIndex(c.info.name, c.info.table)
  /\ c.oid \in Nat /\ c.oid < nextIndexOid /\ c.oid \notin DOMAIN indexes

SessionOK(c, s) ==
  /\ "stage" \in DOMAIN c
  /\ c.stage = "planned" => PlannedOK(c, s)
  /\ c.stage = "build" => BuildOK(c, s)

SessionsOK ==
  /\ DOMAIN session = Sessions
  /\ session = [s \in Sessions |-> session[s]]
  /\ \A s \in Sessions : SessionOK(session[s], s)

DInv == TablesAgree /\ IndexesAgree /\ SessionsOK

LEMMA Agreement == DInv => CatalogAgrees
  <1> SUFFICES ASSUME DInv PROVE CatalogAgrees
    OBVIOUS
  <1>1. GetAllTables = DOMAIN tableNames
    BY DEF DInv, TablesAgree, GetAllTables
  <1>2. \A t \in DOMAIN tableNames : tables[GetTable(t)].name = t
    BY DEF DInv, TablesAgree, GetTable
  <1>3. \A o \in GetAllIndexes :
          /\ o < nextIndexOid
          /\ HasIndex(indexes[o].name, indexes[o].table)
          /\ GetIndex(indexes[o].name, indexes[o].table) = o
    BY DEF DInv, IndexesAgree, GetAllIndexes
  <1>4. ASSUME NEW t \in DOMAIN indexNames
        PROVE  /\ t \in GetAllTables
               /\ GetTableIndexes(t) # {}
               /\ GetTableIndexes(t) \subseteq GetAllIndexes
               /\ \A i \in DOMAIN indexNames[t] : indexes[GetIndex(i, t)].name = i
    <2>1. PICK j : HasIndex(j, t)
      BY DEF DInv, IndexesAgree
    <2>2. \A i \in DOMAIN indexNames[t] : HasIndex(i, t)
      BY DEF HasIndex
    <2>3. \A i \in DOMAIN indexNames[t] :
            /\ indexNames[t][i] \in DOMAIN indexes
            /\ indexes[GetIndex(i, t)].name = i
      BY <2>2 DEF DInv, IndexesAgree, GetIndex
    <2>4. t \in GetAllTables
      BY <2>1, <1>1 DEF DInv, IndexesAgree
    <2>5. GetTableIndexes(t) = {indexNames[t][i] : i \in DOMAIN indexNames[t]}
      BY DEF GetTableIndexes, Range
    <2>6. j \in DOMAIN indexNames[t]
      BY <2>1 DEF HasIndex
    <2>7. QED
      BY <2>3, <2>4, <2>5, <2>6 DEF GetAllIndexes
  <1>5. QED
    BY <1>1, <1>2, <1>3, <1>4 DEF CatalogAgrees

-----------------------------------------------------------------------------
(* Steps of one session that leave the catalog alone.                      *)

\* A session that is neither about to create an index nor creating one.
Quiet(c) == "stage" \in DOMAIN c /\ c.stage \notin {"planned", "build"}

LEMMA QuietOK ==
  ASSUME NEW c, NEW s, Quiet(c)
  PROVE  SessionOK(c, s)
  BY DEF Quiet, SessionOK

LEMMA SessionStep ==
  ASSUME DInv, UNCHANGED catalogVars, NEW s \in Sessions, NEW d, SessionOK(d, s),
         session' = [session EXCEPT ![s] = d]
  PROVE  DInv'
  <1>1. /\ tables' = tables /\ tableNames' = tableNames /\ indexes' = indexes
        /\ indexNames' = indexNames /\ nextIndexOid' = nextIndexOid
    BY DEF catalogVars
  <1>2. TablesAgree'
    BY <1>1 DEF DInv, TablesAgree
  <1>3. IndexesAgree'
    BY <1>1 DEF DInv, IndexesAgree, HasIndex, GetIndex
  <1>4. DOMAIN session = Sessions
    BY DEF DInv, SessionsOK
  <1>5. \A u \in Sessions : session'[u] = IF u = s THEN d ELSE session[u]
    BY <1>4
  <1>6. DOMAIN session' = Sessions /\ session' = [u \in Sessions |-> session'[u]]
    BY <1>4
  <1>7. \A u \in Sessions : SessionOK(session'[u], u)
    BY <1>5 DEF DInv, SessionsOK
  <1>8. SessionsOK'
    BY <1>1, <1>6, <1>7 DEF SessionsOK, SessionOK, PlannedOK, BuildOK, HasIndex
  <1>9. QED
    BY <1>2, <1>3, <1>8 DEF DInv

LEMMA QuietStep ==
  ASSUME DInv, UNCHANGED catalogVars, NEW s \in Sessions, NEW d, Quiet(d),
         session' = [session EXCEPT ![s] = d]
  PROVE  DInv'
  BY QuietOK, SessionStep

LEMMA IdleIsQuiet == Quiet(Idle)
  BY DEF Quiet, Idle

LEMMA HasStage ==
  ASSUME DInv, NEW s \in Sessions
  PROVE  "stage" \in DOMAIN session[s] /\ DOMAIN session = Sessions
  BY DEF DInv, SessionsOK, SessionOK

\* The statements that end.
LEMMA EndingStatements ==
  ASSUME DInv, NEW s \in Sessions,
         \/ PullThrows(s) \/ Finish(s) \/ CreateIndexFails(s)
         \/ DropIndexThrows(s) \/ DropIndexDone(s)
  PROVE  DInv'
  <1>1. session' = [session EXCEPT ![s] = Idle] /\ UNCHANGED catalogVars
    BY DEF PullThrows, Finish, CreateIndexFails, DropIndexThrows, DropIndexDone, Fault, Unseen
  <1>2. QED
    BY <1>1, IdleIsQuiet, QuietStep

LEMMA StageSet ==
  ASSUME NEW c, "stage" \in DOMAIN c, NEW x, x \notin {"planned", "build"}
  PROVE  Quiet([c EXCEPT !.stage = x])
  BY DEF Quiet

LEMMA CrashingStatements ==
  ASSUME DInv, NEW s \in Sessions,
         PullDeleted(s) \/ PullEnd(s) \/ CreateIndexRowDeleted(s)
  PROVE  DInv'
  <1>1. PICK x \in {"crashed", "done"} :
               /\ session' = [session EXCEPT ![s].stage = x]
               /\ UNCHANGED catalogVars
    BY DEF PullDeleted, PullEnd, CreateIndexRowDeleted, Unseen
  <1> DEFINE d == [session[s] EXCEPT !.stage = x]
  <1>2. session' = [session EXCEPT ![s] = d]
    BY <1>1
  <1>3. Quiet(d)
    BY HasStage, StageSet
  <1> HIDE DEF d
  <1>4. QED
    BY <1>1, <1>2, <1>3, QuietStep

LEMMA StartedScan ==
  ASSUME DInv, NEW s \in Sessions, StartScan(s)
  PROVE  DInv'
  <1> DEFINE c == session[s]
             matching == Matching(tables, c.source, c.pred)
             pos == IF c.via = SeqScan THEN FirstRow(tables[c.source].rows, 1) ELSE 0
             rids == IF c.via \in DOMAIN indexes
                     THEN LookupInteger(indexes[c.via], CHOOSE k \in c.pred : TRUE)
                     ELSE <<>>
             held == IF c.kind \in {"insert", "delete"}
                     THEN GetTableIndexes(tables[c.table].name) ELSE {}
             exact == c.via = SeqScan \/ (c.via \in DOMAIN indexes /\ Exact(indexes[c.via]))
             d == [stage |-> "scan", kind |-> c.kind, table |-> c.table, source |-> c.source,
                   pred |-> c.pred, set |-> c.set, via |-> c.via,
                   pos |-> pos, rids |-> rids, held |-> held,
                   out |-> <<>>, row |-> NoRow, count |-> 0,
                   before |-> tables, calm |-> TRUE, must |-> matching, may |-> matching,
                   exact |-> exact]
  <1>1. session' = [session EXCEPT ![s] = d] /\ UNCHANGED catalogVars
    BY DEF StartScan, Unseen
  <1>2. Quiet(d)
    <2> HIDE DEF pos, rids, held, exact, matching
    <2>1. "stage" \in DOMAIN d /\ d.stage = "scan"
      OBVIOUS
    <2>2. QED
      BY <2>1 DEF Quiet
  <1> HIDE DEF d
  <1>3. QED
    BY <1>1, <1>2, QuietStep

LEMMA PulledRow ==
  ASSUME DInv, NEW s \in Sessions, Pull(s)
  PROVE  DInv'
  <1> DEFINE c == session[s]
             rid == Current(c)
             rows == tables[c.source].rows
             next == [c EXCEPT !.pos = IF c.via = SeqScan THEN FirstRow(rows, rid + 1) ELSE 0,
                               !.rids = IF c.via = SeqScan THEN <<>> ELSE Tail(@)]
             take == [next EXCEPT !.out = Append(@, rid),
                         !.row = IF c.kind = "select" THEN NoRow ELSE rows[rid],
                         !.stage = IF c.kind = "select" THEN "scan" ELSE "apply"]
             d == IF rows[rid] \notin c.pred THEN next ELSE take
  <1>1. /\ session' = [session EXCEPT ![s] = d]
        /\ UNCHANGED catalogVars /\ c.stage = "scan"
    BY DEF Pull, Ready, Unseen
  <1>2. "stage" \in DOMAIN c
    BY HasStage
  <1>3. Quiet(next)
    <2>1. DOMAIN next = DOMAIN c /\ next.stage = c.stage
      BY <1>2
    <2>2. QED
      BY <1>1, <1>2, <2>1 DEF Quiet
  <1>4. Quiet(take)
    <2> HIDE DEF next
    <2>1. "stage" \in DOMAIN next
      BY <1>3 DEF Quiet
    <2>2. "stage" \in DOMAIN take /\ take.stage \in {"scan", "apply"}
      BY <2>1
    <2>3. QED
      BY <2>2 DEF Quiet
  <1> HIDE DEF next, take
  <1>5. Quiet(d)
    BY <1>3, <1>4
  <1> HIDE DEF d
  <1>6. QED
    BY <1>1, <1>5, QuietStep

LEMMA FailedApply ==
  ASSUME DInv, NEW s \in Sessions, ApplyFails(s)
  PROVE  DInv'
  <1> DEFINE c == session[s]
             b == Disturbed(c)
             d == [b EXCEPT
                     !.stage = IF c.kind = "delete" /\ ~(c.held \subseteq DOMAIN indexes)
                               THEN "crashed" ELSE "scan",
                     !.row = NoRow,
                     !.count = IF c.kind = "insert" THEN @ ELSE @ + 1]
  <1>1. session' = [session EXCEPT ![s] = d] /\ UNCHANGED catalogVars
    BY DEF ApplyFails, Fault, Unseen
  <1>2. "stage" \in DOMAIN b
    BY HasStage DEF Disturbed
  <1> HIDE DEF b
  <1>3. "stage" \in DOMAIN d /\ d.stage \in {"crashed", "scan"}
    BY <1>2
  <1> HIDE DEF d
  <1>4. Quiet(d)
    BY <1>3 DEF Quiet
  <1>5. QED
    BY <1>1, <1>4, QuietStep

\* Plans.  Only CREATE INDEX has a plan that matters here.
LEMMA PlannedScan ==
  ASSUME DInv, NEW s \in Sessions, NEW kind, NEW t, NEW source, NEW P, NEW set,
         kind # "create", PlanScan(s, kind, t, source, P, set)
  PROVE  DInv'
  <1>1. PICK via : session' = [session EXCEPT ![s] =
         [stage |-> "planned", kind |-> kind, table |-> GetTable(t),
          source |-> GetTable(source), pred |-> P, set |-> set, via |-> via]]
    BY DEF PlanScan
  <1>2. UNCHANGED catalogVars
    BY DEF PlanScan, Unseen
  <1> DEFINE d == [stage |-> "planned", kind |-> kind, table |-> GetTable(t),
                   source |-> GetTable(source), pred |-> P, set |-> set, via |-> via]
  <1>3. "stage" \in DOMAIN d /\ "kind" \in DOMAIN d /\ d.stage = "planned" /\ d.kind = kind
    OBVIOUS
  <1>4. session' = [session EXCEPT ![s] = d]
    BY <1>1
  <1> HIDE DEF d
  <1>5. SessionOK(d, s)
    BY <1>3 DEF SessionOK, PlannedOK
  <1>6. QED
    BY <1>2, <1>4, <1>5, SessionStep

LEMMA PlannedDrop ==
  ASSUME DInv, NEW s \in Sessions, NEW names, NEW ok, PlanDropIndex(s, names, ok)
  PROVE  DInv'
  <1> DEFINE d == [stage |-> "planned", kind |-> "drop",
                   stmt |-> [names |-> names, missing_ok |-> ok]]
  <1>1. session' = [session EXCEPT ![s] = d] /\ UNCHANGED catalogVars
    BY DEF PlanDropIndex, PlanUtility, Unseen
  <1>2. "stage" \in DOMAIN d /\ "kind" \in DOMAIN d /\ d.stage = "planned" /\ d.kind = "drop"
    OBVIOUS
  <1> HIDE DEF d
  <1>3. SessionOK(d, s)
    BY <1>2 DEF SessionOK, PlannedOK
  <1>4. QED
    BY <1>1, <1>3, SessionStep

LEMMA PlannedCreate ==
  ASSUME DInv, NEW s \in Sessions, NEW i, NEW t, NEW point, PlanCreateIndex(s, i, t, point)
  PROVE  DInv'
  <1> DEFINE info == [name |-> i, table |-> t, point |-> point, map |-> <<>>]
             d == [stage |-> "planned", kind |-> "create", stmt |-> info]
  <1>1. /\ session' = [session EXCEPT ![s] = d] /\ UNCHANGED catalogVars
        /\ "create" \in MayRun[s] /\ t \in DOMAIN tableNames
    BY DEF PlanCreateIndex, PlanUtility, NewIndexInfo, Unseen
  <1>2. {"name", "table", "map"} \subseteq DOMAIN info /\ info.table = t
    OBVIOUS
  <1> HIDE DEF info
  <1>3. /\ "stage" \in DOMAIN d /\ "kind" \in DOMAIN d /\ d.stage = "planned"
        /\ d.stmt = info
    OBVIOUS
  <1> HIDE DEF d
  <1>4. SessionOK(d, s)
    BY <1>1, <1>2, <1>3 DEF SessionOK, PlannedOK
  <1>5. QED
    BY <1>1, <1>4, SessionStep

LEMMA MissingDrop ==
  ASSUME DInv, NEW s \in Sessions, DropIndexMissing(s)
  PROVE  DInv'
  <1> DEFINE c == session[s]
             d == [c EXCEPT !.stmt.names = Tail(c.stmt.names)]
  <1>1. /\ session' = [session EXCEPT ![s] = d] /\ UNCHANGED catalogVars
        /\ c.stage = "planned" /\ c.kind = "drop"
    BY DEF DropIndexMissing, Ready, Unseen
  <1>2. "stage" \in DOMAIN c /\ "kind" \in DOMAIN c
    BY <1>1 DEF DInv, SessionsOK, SessionOK, PlannedOK
  <1> HIDE DEF c
  <1>3. "stage" \in DOMAIN d /\ "kind" \in DOMAIN d /\ d.stage = "planned" /\ d.kind = "drop"
    BY <1>1, <1>2
  <1> HIDE DEF d
  <1>4. SessionOK(d, s)
    BY <1>3 DEF SessionOK, PlannedOK
  <1>5. QED
    BY <1>1, <1>4, SessionStep DEF c

\* A session that fills an index keeps its name and its oid.
LEMMA StillBuilding ==
  ASSUME NEW c, NEW s, SessionOK(c, s), NEW d, c.stage # "planned",
         "stage" \in DOMAIN d, d.stage = c.stage,
         c.stage = "build" =>
           /\ {"info", "oid"} \subseteq DOMAIN d /\ d.oid = c.oid
           /\ {"name", "table", "map"} \subseteq DOMAIN d.info
           /\ d.info.name = c.info.name /\ d.info.table = c.info.table
  PROVE  SessionOK(d, s)
  <1>1. d.stage # "planned"
    OBVIOUS
  <1>2. ASSUME c.stage = "build" PROVE BuildOK(d, s)
    BY <1>2 DEF SessionOK, BuildOK
  <1>3. QED
    BY <1>1, <1>2 DEF SessionOK

LEMMA CutScan ==
  ASSUME DInv, NEW s \in Sessions, ScanCut(s)
  PROVE  DInv'
  <1> DEFINE c == session[s]
             b == [c EXCEPT !.calm = FALSE, !.before = <<>>]
             d == [b EXCEPT !.pos = 0, !.must = {}]
  <1>1. /\ session' = [session EXCEPT ![s] = d] /\ UNCHANGED catalogVars
        /\ c.stage \in {"scan", "build"}
    BY DEF ScanCut, Fault, Unseen, Disturbed
  <1>2. SessionOK(c, s)
    BY DEF DInv, SessionsOK
  <1> HIDE DEF c
  <1>3. "stage" \in DOMAIN c
    BY <1>2 DEF SessionOK
  <1>4. c.stage = "build" => "info" \in DOMAIN c /\ "oid" \in DOMAIN c
                             /\ {"name", "table", "map"} \subseteq DOMAIN c.info
    BY <1>2 DEF SessionOK, BuildOK
  <1>5. DOMAIN d = DOMAIN c /\ d.stage = c.stage
    BY <1>3
  <1>6. c.stage = "build" => d.info = c.info /\ d.oid = c.oid
    BY <1>4
  <1> HIDE DEF d
  <1>7. SessionOK(d, s)
    BY <1>1, <1>2, <1>3, <1>4, <1>5, <1>6, StillBuilding
  <1>8. QED
    BY <1>1, <1>7, SessionStep DEF c

LEMMA FilledRow ==
  ASSUME DInv, NEW s \in Sessions, CreateIndexRow(s)
  PROVE  DInv'
  <1> DEFINE c == session[s]
  <1>0. DOMAIN session = Sessions
    BY HasStage
  <1>1. PICK p, m :
               /\ session' = [session EXCEPT ![s] = [c EXCEPT !.pos = p,
                                                     !.info = [c.info EXCEPT !.map = m]]]
               /\ UNCHANGED catalogVars /\ c.stage = "build"
    BY <1>0 DEF CreateIndexRow, InsertEntry, Ready, Unseen
  <1>2. SessionOK(c, s)
    BY DEF DInv, SessionsOK
  <1> DEFINE info == [c.info EXCEPT !.map = m]
             d == [c EXCEPT !.pos = p, !.info = info]
  <1>3. session' = [session EXCEPT ![s] = d]
    BY <1>1
  <1> HIDE DEF c
  <1>4. /\ "stage" \in DOMAIN c /\ "info" \in DOMAIN c /\ "oid" \in DOMAIN c
        /\ {"name", "table", "map"} \subseteq DOMAIN c.info
    BY <1>1, <1>2 DEF SessionOK, BuildOK
  <1>5. /\ {"name", "table", "map"} \subseteq DOMAIN info
        /\ info.name = c.info.name /\ info.table = c.info.table
    BY <1>4
  <1> HIDE DEF info
  <1>6. /\ DOMAIN d = DOMAIN c /\ d.stage = c.stage /\ d.oid = c.oid /\ d.info = info
    BY <1>4
  <1> HIDE DEF d
  <1>7. SessionOK(d, s)
    BY <1>1, <1>2, <1>4, <1>5, <1>6, StillBuilding
  <1>8. QED
    BY <1>1, <1>3, <1>7, SessionStep

-----------------------------------------------------------------------------
(* Steps that change the tables.                                           *)

\* The others see a change of the tables without losing their place.
LEMMA SeenOK ==
  ASSUME NEW s, NEW tabs, NEW u \in Sessions, SessionOK(session[u], u)
  PROVE  /\ SessionOK(Seen(s, tabs)[u], u)
         /\ "stage" \in DOMAIN Seen(s, tabs)[u]
         /\ Seen(s, tabs)[u].stage = session[u].stage
  <1> DEFINE c == session[u]
             now == Matching(tabs, c.source, c.pred)
             mine == [c EXCEPT !.may = @ \cup now]
             b == [c EXCEPT !.calm = FALSE, !.before = <<>>]
             other == [b EXCEPT !.must = @ \cap now, !.may = @ \cup now]
             d == Seen(s, tabs)[u]
  <1>1. "stage" \in DOMAIN c
    BY DEF SessionOK
  <1>2. CASE c.stage \in {"idle", "planned"}
    <2>1. d = c
      BY <1>2 DEF Seen
    <2>2. QED
      BY <1>1, <2>1
  <1>3. CASE c.stage \notin {"idle", "planned"}
    <2>1. d = IF u = s THEN mine ELSE other
      BY <1>3 DEF Seen, Disturbed
    <2> HIDE DEF d, now, c
    <2>2. c.stage = "build" => /\ "info" \in DOMAIN c /\ "oid" \in DOMAIN c
                               /\ {"name", "table", "map"} \subseteq DOMAIN c.info
      BY DEF SessionOK, BuildOK, c
    <2>3. DOMAIN mine = DOMAIN c /\ DOMAIN other = DOMAIN c
      OBVIOUS
    <2>4. mine.stage = c.stage /\ other.stage = c.stage
      BY <1>1
    <2>5. c.stage = "build" => /\ mine.info = c.info /\ mine.oid = c.oid
                               /\ other.info = c.info /\ other.oid = c.oid
      BY <2>2
    <2> HIDE DEF mine, other
    <2>6. /\ DOMAIN d = DOMAIN c /\ d.stage = c.stage
          /\ c.stage = "build" => d.info = c.info /\ d.oid = c.oid
      BY <2>1, <2>3, <2>4, <2>5
    <2>7. SessionOK(c, u) /\ c.stage # "planned"
      BY <1>3 DEF c
    <2>8. SessionOK(d, u)
      BY <1>1, <2>2, <2>6, <2>7, StillBuilding
    <2>9. QED
      BY <1>1, <2>6, <2>8 DEF c, d
  <1>4. QED
    BY <1>2, <1>3

LEMMA RowsStep ==
  ASSUME TablesAgree, NEW o, NEW rows, tables' = [tables EXCEPT ![o].rows = rows],
         tableNames' = tableNames
  PROVE  TablesAgree'
  <1> DEFINE e == [tables[o] EXCEPT !.rows = rows]
  <1>1. PICK S : tables \in Seq(S)
    BY DEF TablesAgree
  <1> DEFINE T == S \cup {e}
  <1>2. tables' = [tables EXCEPT ![o] = e]
    OBVIOUS
  <1>3. DOMAIN e = DOMAIN tables[o] /\ ("name" \in DOMAIN tables[o] => e.name = tables[o].name)
    OBVIOUS
  <1> HIDE DEF e
  <1>4. tables \in Seq(T) /\ e \in T
    BY <1>1
  <1> HIDE DEF T
  <1>5. /\ tables' \in Seq(T) /\ Len(tables') = Len(tables)
        /\ \A i \in 1 .. Len(tables) : tables'[i] = IF i = o THEN e ELSE tables[i]
    <2>1. CASE o \in 1 .. Len(tables)
      BY <1>2, <1>4, <2>1
    <2>2. CASE o \notin 1 .. Len(tables)
      <3>1. DOMAIN tables = 1 .. Len(tables) /\ tables = [i \in 1 .. Len(tables) |-> tables[i]]
        BY <1>4
      <3>2. tables' = tables
        BY <1>2, <2>2, <3>1
      <3>3. QED
        BY <1>4, <2>2, <3>2
    <2>3. QED
      BY <2>1, <2>2
  <1>6. \A i \in 1 .. Len(tables) :
          "name" \in DOMAIN tables'[i] /\ tables'[i].name = tables[i].name
    BY <1>3, <1>5 DEF TablesAgree
  <1>7. \E U : tables' \in Seq(U)
    BY <1>5
  <1>8. QED
    BY <1>5, <1>6, <1>7 DEF TablesAgree

LEMMA ChangedRows ==
  ASSUME DInv, NEW s \in Sessions, NEW o, NEW rows, NEW count,
         NEW stage \in {"scan", "crashed"}, ChangeRows(s, o, rows, count, stage)
  PROVE  DInv'
  <1> DEFINE tabs == [tables EXCEPT ![o].rows = rows]
             seen == Seen(s, tabs)
  <1>1. /\ tables' = tabs /\ tableNames' = tableNames /\ indexes' = indexes
        /\ indexNames' = indexNames /\ nextIndexOid' = nextIndexOid
        /\ session' = [seen EXCEPT ![s].stage = stage, ![s].row = NoRow,
                                     ![s].count = @ + count]
    BY DEF ChangeRows
  <1>2. TablesAgree'
    BY <1>1, RowsStep DEF DInv
  <1>3. IndexesAgree'
    BY <1>1 DEF DInv, IndexesAgree, HasIndex, GetIndex
  <1>4. DOMAIN seen = Sessions
    BY DEF Seen
  <1>5. \A u \in Sessions : SessionOK(seen[u], u) /\ "stage" \in DOMAIN seen[u]
    BY SeenOK DEF DInv, SessionsOK
  <1> HIDE DEF seen
  <1>6. "stage" \in DOMAIN session'[s] /\ session'[s].stage = stage
    BY <1>1, <1>4, <1>5
  <1>7. SessionOK(session'[s], s)
    BY <1>6, QuietOK DEF Quiet
  <1>8. \A u \in Sessions : u # s => session'[u] = seen[u]
    BY <1>1, <1>4
  <1>9. DOMAIN session' = Sessions /\ session' = [u \in Sessions |-> session'[u]]
    BY <1>1, <1>4
  <1>10. \A u \in Sessions : SessionOK(session'[u], u)
    BY <1>5, <1>7, <1>8
  <1>11. SessionsOK'
    <2>1. /\ tableNames' = tableNames /\ indexes' = indexes /\ indexNames' = indexNames
          /\ nextIndexOid' = nextIndexOid
      BY <1>1
    <2>2. QED
      BY <1>9, <1>10, <2>1 DEF SessionsOK, SessionOK, PlannedOK, BuildOK, HasIndex
  <1>12. QED
    BY <1>2, <1>3, <1>11 DEF DInv

LEMMA AppliedRow ==
  ASSUME DInv, NEW s \in Sessions, ApplyInsert(s) \/ ApplyUpdate(s) \/ ApplyDelete(s)
  PROVE  DInv'
  <1> DEFINE c == session[s]
             stage == IF c.held \subseteq DOMAIN indexes THEN "scan" ELSE "crashed"
  <1>1. stage \in {"scan", "crashed"}
    OBVIOUS
  <1>2. CASE ApplyInsert(s)
    <2>1. ChangeRows(s, c.table, Append(tables[c.table].rows, c.row), 1, stage)
      BY <1>2 DEF ApplyInsert
    <2> HIDE DEF stage
    <2>2. QED
      BY <1>1, <2>1, ChangedRows
  <1>3. CASE ApplyUpdate(s)
    <2> DEFINE rows == [tables[c.table].rows EXCEPT ![c.out[Len(c.out)]] = c.set[c.row]]
    <2>1. ChangeRows(s, c.table, rows, 1, "scan")
      BY <1>3 DEF ApplyUpdate
    <2> HIDE DEF rows
    <2>2. QED
      BY <2>1, ChangedRows
  <1>4. CASE ApplyDelete(s)
    <2> DEFINE rows == [tables[c.table].rows EXCEPT ![c.out[Len(c.out)]] = NoRow]
    <2>1. ChangeRows(s, c.table, rows, 1, stage)
      BY <1>4 DEF ApplyDelete
    <2> HIDE DEF stage, rows
    <2>2. QED
      BY <1>1, <2>1, ChangedRows
  <1>5. QED
    BY <1>2, <1>3, <1>4

LEMMA LoadedRow ==
  ASSUME DInv, NEW t, NEW k, LoadRow(t, k)
  PROVE  DInv'
  <1>1. PICK rows : tables' = [tables EXCEPT ![GetTable(t)].rows = rows]
    BY DEF LoadRow
  <1>2. /\ tableNames' = tableNames /\ indexes' = indexes /\ indexNames' = indexNames
        /\ nextIndexOid' = nextIndexOid /\ session' = session
    BY DEF LoadRow
  <1>3. TablesAgree'
    BY <1>1, <1>2, RowsStep DEF DInv
  <1>4. IndexesAgree'
    BY <1>2 DEF DInv, IndexesAgree, HasIndex, GetIndex
  <1>5. SessionsOK'
    BY <1>2 DEF DInv, SessionsOK, SessionOK, PlannedOK, BuildOK, HasIndex
  <1>6. QED
    BY <1>3, <1>4, <1>5 DEF DInv

\* A new table is found under its own name.
LEMMA NewTable ==
  ASSUME TablesAgree, NEW t, CreateTable(t)
  PROVE  TablesAgree'
  <1> DEFINE e == [name |-> t, rows |-> <<>>]
             n == Len(tables) + 1
  <1>1. /\ tables' = Append(tables, e)
        /\ tableNames' = Put(tableNames, t, n)
    BY DEF CreateTable
  <1>2. PICK S : tables \in Seq(S)
    BY DEF TablesAgree
  <1> DEFINE T == S \cup {e}
  <1>3. "name" \in DOMAIN e /\ e.name = t
    OBVIOUS
  <1> HIDE DEF e
  <1>4. tables \in Seq(T) /\ e \in T /\ Len(tables) \in Nat
    BY <1>2
  <1> HIDE DEF T
  <1>5. /\ tables' \in Seq(T) /\ Len(tables') = n /\ tables'[n] = e
        /\ \A i \in 1 .. Len(tables) : tables'[i] = tables[i]
    BY <1>1, <1>4
  <1>6. \A i \in 1 .. Len(tables') : i \in 1 .. Len(tables) \/ i = n
    BY <1>4, <1>5
  <1>7. /\ n \in 1 .. Len(tables')
        /\ \A i \in 1 .. Len(tables) : i \in 1 .. Len(tables')
    BY <1>4, <1>5
  <1> HIDE DEF n
  <1>8. /\ DOMAIN tableNames' = DOMAIN tableNames \cup {t}
        /\ tableNames'[t] = n
        /\ \A x \in DOMAIN tableNames : x # t => tableNames'[x] = tableNames[x]
    BY <1>1 DEF Put
  <1>9. \E U : tables' \in Seq(U)
    BY <1>5
  <1>10. \A i \in 1 .. Len(tables') :
           "name" \in DOMAIN tables'[i] /\ tables'[i].name \in DOMAIN tableNames'
    BY <1>3, <1>5, <1>6, <1>8 DEF TablesAgree
  <1>11. \A x \in DOMAIN tableNames' :
           tableNames'[x] \in 1 .. Len(tables') /\ tables'[tableNames'[x]].name = x
    BY <1>3, <1>5, <1>7, <1>8 DEF TablesAgree
  <1>12. QED
    BY <1>9, <1>10, <1>11 DEF TablesAgree

LEMMA LoadedTable ==
  ASSUME DInv, NEW t, LoadTable(t)
  PROVE  DInv'
  <1>1. /\ CreateTable(t) /\ session' = session
        /\ indexes' = indexes /\ indexNames' = indexNames /\ nextIndexOid' = nextIndexOid
    BY DEF LoadTable, CreateTable
  <1>2. TablesAgree'
    BY <1>1, NewTable DEF DInv
  <1>3. DOMAIN tableNames \subseteq DOMAIN tableNames'
    BY <1>1 DEF CreateTable, Put
  <1>4. IndexesAgree'
    BY <1>1, <1>3 DEF DInv, IndexesAgree, HasIndex, GetIndex
  <1>5. SessionsOK'
    BY <1>1, <1>3 DEF DInv, SessionsOK, SessionOK, PlannedOK, BuildOK, HasIndex
  <1>6. QED
    BY <1>2, <1>4, <1>5 DEF DInv

-----------------------------------------------------------------------------
(* Steps that change the indexes.                                          *)

\* SessionOK after a step, of a record that may itself be that of a session
\* before it.
LaterOK(c, u) ==
  /\ "stage" \in DOMAIN c
  /\ c.stage = "planned" =>
       /\ "kind" \in DOMAIN c
       /\ c.kind = "create" =>
            /\ "create" \in MayRun[u]
            /\ {"name", "table", "map"} \subseteq DOMAIN c.stmt
            /\ c.stmt.table \in DOMAIN tableNames'
  /\ c.stage = "build" =>
       /\ {"info", "oid"} \subseteq DOMAIN c
       /\ "create" \in MayRun[u]
       /\ {"name", "table", "map"} \subseteq DOMAIN c.info
       /\ c.info.table \in DOMAIN tableNames'
       /\ ~(c.info.table \in DOMAIN indexNames' /\ c.info.name \in DOMAIN indexNames'[c.info.table])
       /\ c.oid \in Nat /\ c.oid < nextIndexOid' /\ c.oid \notin DOMAIN indexes'

LEMMA SessionsLater ==
  ASSUME DOMAIN session' = Sessions, session' = [u \in Sessions |-> session'[u]],
         \A u \in Sessions : LaterOK(session'[u], u)
  PROVE  SessionsOK'
  BY DEF SessionsOK, SessionOK, PlannedOK, BuildOK, HasIndex, LaterOK

LEMMA BegunIndex ==
  ASSUME DInv, NEW s \in Sessions, CreateIndexBegin(s)
  PROVE  DInv'
  <1> DEFINE c == session[s]
             info == c.stmt
             o == GetTable(info.table)
             n == nextIndexOid
             pos == IF info.point THEN FirstRow(tables[o].rows, 1) ELSE 0
             d == [stage |-> "build", kind |-> "create", info |-> info, oid |-> n,
                   source |-> o, pred |-> {}, must |-> {}, may |-> {}, exact |-> TRUE,
                   pos |-> pos, before |-> tables, calm |-> TRUE]
  <1>1. /\ c.stage = "planned" /\ c.kind = "create" /\ ~HasIndex(info.name, info.table)
        /\ nextIndexOid' = n + 1 /\ session' = [session EXCEPT ![s] = d]
        /\ tables' = tables /\ tableNames' = tableNames /\ indexes' = indexes
        /\ indexNames' = indexNames
    BY DEF CreateIndexBegin, Ready
  <1>2. SessionOK(c, s)
    BY DEF DInv, SessionsOK
  <1>3. /\ "create" \in MayRun[s] /\ {"name", "table", "map"} \subseteq DOMAIN info
        /\ info.table \in DOMAIN tableNames
    BY <1>1, <1>2 DEF SessionOK, PlannedOK
  <1>4. n \in Nat /\ \A x \in DOMAIN indexes : x \in Nat /\ x < n
    BY DEF DInv, IndexesAgree
  <1>5. DOMAIN session = Sessions
    BY HasStage
  <1> HIDE DEF pos, info, c, n, o
  <1>6. /\ "stage" \in DOMAIN d /\ d.stage = "build" /\ {"info", "oid"} \subseteq DOMAIN d
        /\ d.info = info /\ d.oid = n
    OBVIOUS
  <1> HIDE DEF d
  <1>7. /\ n \notin DOMAIN indexes /\ n < n + 1 /\ n + 1 \in Nat
        /\ \A x \in Nat : x < n => x < n + 1
    BY <1>4
  <1>8. \A u \in Sessions : session'[u] = IF u = s THEN d ELSE session[u]
    BY <1>1, <1>5
  <1>9. DOMAIN session' = Sessions /\ session' = [u \in Sessions |-> session'[u]]
    BY <1>1, <1>5
  <1>10. TablesAgree'
    BY <1>1 DEF DInv, TablesAgree
  <1>11. IndexesAgree'
    BY <1>1, <1>4, <1>7 DEF DInv, IndexesAgree, HasIndex, GetIndex, n
  <1>12. LaterOK(d, s)
    BY <1>1, <1>3, <1>4, <1>6, <1>7 DEF LaterOK, HasIndex
  <1>13. \A u \in Sessions : u # s => LaterOK(session[u], u)
    BY <1>1, <1>7 DEF DInv, SessionsOK, SessionOK, PlannedOK, BuildOK, LaterOK, HasIndex, n
  <1>14. SessionsOK'
    BY <1>8, <1>9, <1>12, <1>13, SessionsLater
  <1>15. QED
    BY <1>10, <1>11, <1>14 DEF DInv

\* What RegisterIndex and DropIndex do to the names.
LEMMA RegisterNames ==
  ASSUME NEW oid, NEW info, RegisterIndex(oid, info)
  PROVE  /\ DOMAIN indexes' = DOMAIN indexes \cup {oid}
         /\ indexes'[oid] = info
         /\ \A x \in DOMAIN indexes : x # oid => indexes'[x] = indexes[x]
         /\ \A t : t \in DOMAIN indexNames' <=> t \in DOMAIN indexNames \/ t = info.table
         /\ \A i, t : HasIndex(i, t)' <=>
              HasIndex(i, t) \/ (i = info.name /\ t = info.table)
         /\ \A i, t : i = info.name /\ t = info.table => GetIndex(i, t)' = oid
         /\ \A i, t : HasIndex(i, t) /\ ~(i = info.name /\ t = info.table) =>
              GetIndex(i, t)' = GetIndex(i, t)
  <1> DEFINE names == IF info.table \in DOMAIN indexNames THEN indexNames[info.table] ELSE <<>>
             new == Put(names, info.name, oid)
  <1>1. /\ indexes' = Put(indexes, oid, info)
        /\ indexNames' = Put(indexNames, info.table, new)
    BY DEF RegisterIndex
  <1>2. /\ DOMAIN indexes' = DOMAIN indexes \cup {oid} /\ indexes'[oid] = info
        /\ \A x \in DOMAIN indexes : x # oid => indexes'[x] = indexes[x]
    BY <1>1 DEF Put
  <1>3. /\ DOMAIN new = DOMAIN names \cup {info.name} /\ new[info.name] = oid
        /\ \A i \in DOMAIN names : i # info.name => new[i] = names[i]
    <2> HIDE DEF names
    <2>1. QED
      BY DEF Put
  <1> HIDE DEF new
  <1>4. /\ DOMAIN indexNames' = DOMAIN indexNames \cup {info.table}
        /\ indexNames'[info.table] = new
        /\ \A t \in DOMAIN indexNames : t # info.table => indexNames'[t] = indexNames[t]
    BY <1>1 DEF Put
  <1>5. DOMAIN << >> = {}
    OBVIOUS
  <1>6. \A i : i \in DOMAIN names <=> HasIndex(i, info.table)
    BY <1>5 DEF HasIndex
  <1>7. \A i : HasIndex(i, info.table) => names[i] = GetIndex(i, info.table)
    BY DEF HasIndex, GetIndex
  <1> HIDE DEF names
  <1>8. \A i : HasIndex(i, info.table)' <=> HasIndex(i, info.table) \/ i = info.name
    <2>1. \A i : HasIndex(i, info.table)' <=> i \in DOMAIN new
      BY <1>4 DEF HasIndex
    <2>2. QED
      BY <2>1, <1>3, <1>6
  <1>9. \A i, t : t # info.table => (HasIndex(i, t)' <=> HasIndex(i, t))
    BY <1>4 DEF HasIndex
  <1>10. \A i : HasIndex(i, info.table) /\ i # info.name =>
           GetIndex(i, info.table)' = GetIndex(i, info.table)
    BY <1>3, <1>4, <1>6, <1>7 DEF GetIndex
  <1>11. \A i, t : HasIndex(i, t) /\ t # info.table => GetIndex(i, t)' = GetIndex(i, t)
    BY <1>4 DEF HasIndex, GetIndex
  <1>12. GetIndex(info.name, info.table)' = oid
    BY <1>3, <1>4 DEF GetIndex
  <1>13. QED
    BY <1>2, <1>4, <1>8, <1>9, <1>10, <1>11, <1>12

LEMMA DropNames ==
  ASSUME NEW index, NEW table, HasIndex(index, table), DropIndex(index, table)
  PROVE  /\ DOMAIN indexes' = DOMAIN indexes \ {GetIndex(index, table)}
         /\ \A x \in DOMAIN indexes' : indexes'[x] = indexes[x]
         /\ \A i, t : HasIndex(i, t)' <=> HasIndex(i, t) /\ ~(i = index /\ t = table)
         /\ \A i, t : HasIndex(i, t)' => GetIndex(i, t)' = GetIndex(i, t)
         /\ \A t \in DOMAIN indexNames' :
              t \in DOMAIN indexNames /\ (t = table => \E i : HasIndex(i, t)')
  <1> DEFINE names == Restrict(indexNames[table], DOMAIN indexNames[table] \ {index})
  <1>1. /\ indexes' = Restrict(indexes, DOMAIN indexes \ {GetIndex(index, table)})
        /\ indexNames' = IF DOMAIN names = {}
                         THEN Restrict(indexNames, DOMAIN indexNames \ {table})
                         ELSE [indexNames EXCEPT ![table] = names]
    BY DEF DropIndex
  <1>2. /\ DOMAIN indexes' = DOMAIN indexes \ {GetIndex(index, table)}
        /\ \A x \in DOMAIN indexes' : indexes'[x] = indexes[x]
    BY <1>1 DEF Restrict
  <1>3. /\ DOMAIN names = DOMAIN indexNames[table] \ {index}
        /\ \A i \in DOMAIN names : names[i] = indexNames[table][i]
    BY DEF Restrict
  <1>4. table \in DOMAIN indexNames
    BY DEF HasIndex
  <1> HIDE DEF names
  <1>5. CASE DOMAIN names = {}
    <2>1. /\ DOMAIN indexNames' = DOMAIN indexNames \ {table}
          /\ \A t \in DOMAIN indexNames' : indexNames'[t] = indexNames[t]
      BY <1>1, <1>5 DEF Restrict
    <2>2. \A i : i \in DOMAIN indexNames[table] => i = index
      BY <1>3, <1>5
    <2>3. \A i, t : HasIndex(i, t)' <=> HasIndex(i, t) /\ ~(i = index /\ t = table)
      BY <2>1, <2>2 DEF HasIndex
    <2>4. \A i, t : HasIndex(i, t)' => GetIndex(i, t)' = GetIndex(i, t)
      BY <2>1 DEF HasIndex, GetIndex
    <2>5. QED
      BY <1>2, <2>1, <2>3, <2>4
  <1>6. CASE DOMAIN names # {}
    <2>1. /\ DOMAIN indexNames' = DOMAIN indexNames
          /\ indexNames'[table] = names
          /\ \A t \in DOMAIN indexNames : t # table => indexNames'[t] = indexNames[t]
      BY <1>1, <1>4, <1>6
    <2>2. \A i, t : HasIndex(i, t)' <=> HasIndex(i, t) /\ ~(i = index /\ t = table)
      BY <1>3, <1>4, <2>1 DEF HasIndex
    <2>3. \A i, t : HasIndex(i, t)' => GetIndex(i, t)' = GetIndex(i, t)
      BY <1>3, <2>1 DEF HasIndex, GetIndex
    <2>4. PICK j : j \in DOMAIN names
      BY <1>6
    <2>5. HasIndex(j, table)'
      BY <1>4, <2>1, <2>4 DEF HasIndex
    <2>6. QED
      BY <1>2, <2>1, <2>2, <2>3, <2>5
  <1>7. QED
    BY <1>5, <1>6

LEMMA RegisteredIndex ==
  ASSUME DInv, NEW s \in Sessions, CreateIndexRegister(s),
         \A x, y \in Sessions : "create" \in MayRun[x] /\ "create" \in MayRun[y] => x = y
  PROVE  DInv'
  <1> DEFINE c == session[s]
             seen == Seen(s, tables)
  <1> PICK info, oid : info = c.info /\ oid = c.oid
    OBVIOUS
  <1>1. /\ c.stage = "build" /\ RegisterIndex(oid, info)
        /\ session' = [seen EXCEPT ![s].stage = "done"]
    BY DEF CreateIndexRegister, Ready
  <1>2. tables' = tables /\ tableNames' = tableNames /\ nextIndexOid' = nextIndexOid
    BY <1>1 DEF RegisterIndex
  <1>3. BuildOK(c, s)
    BY <1>1 DEF DInv, SessionsOK, SessionOK
  <1>4. /\ "create" \in MayRun[s] /\ info.table \in DOMAIN tableNames
        /\ ~HasIndex(info.name, info.table)
        /\ oid \in Nat /\ oid < nextIndexOid /\ oid \notin DOMAIN indexes
    BY <1>3 DEF BuildOK
  <1>5. DOMAIN seen = Sessions
    BY DEF Seen
  <1>6. \A u \in Sessions : /\ SessionOK(seen[u], u) /\ "stage" \in DOMAIN seen[u]
                            /\ seen[u].stage = session[u].stage
    BY SeenOK DEF DInv, SessionsOK
  <1> HIDE DEF seen
  <1>7. /\ DOMAIN indexes' = DOMAIN indexes \cup {oid}
        /\ indexes'[oid] = info
        /\ \A x \in DOMAIN indexes : x # oid => indexes'[x] = indexes[x]
        /\ \A t : t \in DOMAIN indexNames' <=> t \in DOMAIN indexNames \/ t = info.table
        /\ \A i, t : HasIndex(i, t)' <=> HasIndex(i, t) \/ (i = info.name /\ t = info.table)
        /\ \A i, t : i = info.name /\ t = info.table => GetIndex(i, t)' = oid
        /\ \A i, t : HasIndex(i, t) /\ ~(i = info.name /\ t = info.table) =>
             GetIndex(i, t)' = GetIndex(i, t)
    <2>1. RegisterIndex(oid, info)
      BY <1>1
    <2>2. QED
      BY <2>1, RegisterNames
  <1>8. TablesAgree'
    BY <1>2 DEF DInv, TablesAgree
  <1>9. IndexesAgree'
    <2>1. /\ nextIndexOid \in Nat
          /\ \A o \in DOMAIN indexes :
               /\ o \in Nat /\ o < nextIndexOid
               /\ \A i, t : i = indexes[o].name /\ t = indexes[o].table =>
                    HasIndex(i, t) /\ GetIndex(i, t) = o
          /\ \A i, t : HasIndex(i, t) =>
               /\ t \in DOMAIN tableNames
               /\ GetIndex(i, t) \in DOMAIN indexes
               /\ indexes[GetIndex(i, t)].name = i
               /\ indexes[GetIndex(i, t)].table = t
          /\ \A t \in DOMAIN indexNames : \E i : HasIndex(i, t)
      BY DEF DInv, IndexesAgree
    <2>2. ASSUME NEW o \in DOMAIN indexes'
          PROVE  /\ o \in Nat /\ o < nextIndexOid'
                 /\ \A i, t : i = indexes'[o].name /\ t = indexes'[o].table =>
                      HasIndex(i, t)' /\ GetIndex(i, t)' = o
      <3>1. CASE o = oid
        BY <3>1, <1>2, <1>4, <1>7
      <3>2. CASE o # oid
        <4>1. o \in DOMAIN indexes /\ indexes'[o] = indexes[o]
          BY <3>2, <1>7
        <4>2. o \in Nat /\ o < nextIndexOid
          BY <4>1, <2>1
        <4>3. ASSUME NEW i, NEW t, i = indexes'[o].name, t = indexes'[o].table
              PROVE  HasIndex(i, t)' /\ GetIndex(i, t)' = o
          <5>1. HasIndex(i, t) /\ GetIndex(i, t) = o
            BY <4>1, <4>3, <2>1
          <5>2. ~(i = info.name /\ t = info.table)
            BY <5>1, <1>4
          <5>3. QED
            BY <5>1, <5>2, <1>7
        <4>4. QED
          BY <4>1, <4>2, <4>3, <1>2
      <3>3. QED
        BY <3>1, <3>2
    <2>3. ASSUME NEW i, NEW t, HasIndex(i, t)'
          PROVE  /\ t \in DOMAIN tableNames'
                 /\ GetIndex(i, t)' \in DOMAIN indexes'
                 /\ indexes'[GetIndex(i, t)'].name = i
                 /\ indexes'[GetIndex(i, t)'].table = t
      <3>1. CASE i = info.name /\ t = info.table
        BY <3>1, <1>2, <1>4, <1>7
      <3>2. CASE ~(i = info.name /\ t = info.table)
        <4>1. HasIndex(i, t) /\ GetIndex(i, t)' = GetIndex(i, t)
          BY <2>3, <3>2, <1>7
        <4>2. /\ GetIndex(i, t) \in DOMAIN indexes /\ t \in DOMAIN tableNames
              /\ indexes[GetIndex(i, t)].name = i /\ indexes[GetIndex(i, t)].table = t
          BY <4>1, <2>1
        <4>3. GetIndex(i, t) # oid
          BY <4>2, <1>4
        <4>4. QED
          BY <4>1, <4>2, <4>3, <1>2, <1>7
      <3>3. QED
        BY <3>1, <3>2
    <2>4. \A t \in DOMAIN indexNames' : \E i : HasIndex(i, t)'
      BY <2>1, <1>7
    <2>5. QED
      BY <2>1, <2>2, <2>3, <2>4, <1>2 DEF IndexesAgree
  <1>10. /\ DOMAIN session' = Sessions /\ session' = [u \in Sessions |-> session'[u]]
         /\ \A u \in Sessions : u # s => session'[u] = seen[u]
    BY <1>1, <1>5
  <1>11. "stage" \in DOMAIN session'[s] /\ session'[s].stage = "done"
    BY <1>1, <1>5, <1>6
  <1>12. LaterOK(session'[s], s)
    BY <1>11 DEF LaterOK
  <1>13. ASSUME NEW u \in Sessions, u # s
         PROVE  LaterOK(session'[u], u)
    <2>1. SessionOK(seen[u], u) /\ session'[u] = seen[u]
      BY <1>6, <1>10, <1>13
    <2>2. seen[u].stage # "build"
      <3>1. SUFFICES ASSUME seen[u].stage = "build" PROVE FALSE
        OBVIOUS
      <3>2. "create" \in MayRun[u]
        BY <2>1, <3>1 DEF SessionOK, BuildOK
      <3>3. QED
        BY <1>4, <1>13, <3>2
    <2>3. QED
      BY <1>2, <2>1, <2>2 DEF SessionOK, PlannedOK, LaterOK
  <1>14. SessionsOK'
    BY <1>10, <1>12, <1>13, SessionsLater
  <1>15. QED
    BY <1>8, <1>9, <1>14 DEF DInv

LEMMA DroppedIndex ==
  ASSUME DInv, NEW s \in Sessions, DropIndexStep(s)
  PROVE  DInv'
  <1> DEFINE c == session[s]
             seen == Seen(s, tables)
  <1>1. PICK index, table : HasIndex(index, table) /\ DropIndex(index, table)
    BY DEF DropIndexStep, Matched
  <1>2. PICK rest : session' = [seen EXCEPT ![s].stmt.names = rest]
    BY DEF DropIndexStep
  <1>3. c.stage = "planned" /\ c.kind = "drop"
    BY DEF DropIndexStep, Ready
  <1>4. tables' = tables /\ tableNames' = tableNames /\ nextIndexOid' = nextIndexOid
    BY <1>1 DEF DropIndex
  <1>5. /\ DOMAIN seen = Sessions /\ seen[s] = c
    BY <1>3 DEF Seen
  <1>6. \A u \in Sessions : SessionOK(seen[u], u)
    BY SeenOK DEF DInv, SessionsOK
  <1>7. "stage" \in DOMAIN c /\ "kind" \in DOMAIN c
    BY <1>3 DEF DInv, SessionsOK, SessionOK, PlannedOK
  <1> HIDE DEF seen, c
  <1>8. /\ DOMAIN indexes' = DOMAIN indexes \ {GetIndex(index, table)}
        /\ \A x \in DOMAIN indexes' : indexes'[x] = indexes[x]
        /\ \A i, t : HasIndex(i, t)' <=> HasIndex(i, t) /\ ~(i = index /\ t = table)
        /\ \A i, t : HasIndex(i, t)' => GetIndex(i, t)' = GetIndex(i, t)
        /\ \A t \in DOMAIN indexNames' :
             t \in DOMAIN indexNames /\ (t = table => \E i : HasIndex(i, t)')
    BY <1>1, DropNames
  <1>9. TablesAgree'
    BY <1>4 DEF DInv, TablesAgree
  <1>10. IndexesAgree'
    <2>1. /\ nextIndexOid \in Nat
          /\ \A o \in DOMAIN indexes :
               /\ o \in Nat /\ o < nextIndexOid
               /\ \A i, t : i = indexes[o].name /\ t = indexes[o].table =>
                    HasIndex(i, t) /\ GetIndex(i, t) = o
          /\ \A i, t : HasIndex(i, t) =>
               /\ t \in DOMAIN tableNames
               /\ GetIndex(i, t) \in DOMAIN indexes
               /\ indexes[GetIndex(i, t)].name = i
               /\ indexes[GetIndex(i, t)].table = t
          /\ \A t \in DOMAIN indexNames : \E i : HasIndex(i, t)
      BY DEF DInv, IndexesAgree
    <2>2. ASSUME NEW o \in DOMAIN indexes'
          PROVE  /\ o \in Nat /\ o < nextIndexOid'
                 /\ \A i, t : i = indexes'[o].name /\ t = indexes'[o].table =>
                      HasIndex(i, t)' /\ GetIndex(i, t)' = o
      <3>1. o \in DOMAIN indexes /\ indexes'[o] = indexes[o] /\ o # GetIndex(index, table)
        BY <1>8
      <3>2. o \in Nat /\ o < nextIndexOid
        BY <3>1, <2>1
      <3>3. ASSUME NEW i, NEW t, i = indexes'[o].name, t = indexes'[o].table
            PROVE  HasIndex(i, t)' /\ GetIndex(i, t)' = o
        <4>1. HasIndex(i, t) /\ GetIndex(i, t) = o
          BY <3>1, <3>3, <2>1
        <4>2. ~(i = index /\ t = table)
          BY <3>1, <4>1
        <4>3. QED
          BY <4>1, <4>2, <1>8
      <3>4. QED
        BY <3>2, <3>3, <1>4
    <2>3. ASSUME NEW i, NEW t, HasIndex(i, t)'
          PROVE  /\ t \in DOMAIN tableNames'
                 /\ GetIndex(i, t)' \in DOMAIN indexes'
                 /\ indexes'[GetIndex(i, t)'].name = i
                 /\ indexes'[GetIndex(i, t)'].table = t
      <3>1. /\ HasIndex(i, t) /\ ~(i = index /\ t = table)
            /\ GetIndex(i, t)' = GetIndex(i, t)
        BY <2>3, <1>8
      <3>2. /\ GetIndex(i, t) \in DOMAIN indexes /\ t \in DOMAIN tableNames
            /\ indexes[GetIndex(i, t)].name = i /\ indexes[GetIndex(i, t)].table = t
        BY <3>1, <2>1
      <3>3. /\ indexes[GetIndex(index, table)].name = index
            /\ indexes[GetIndex(index, table)].table = table
        BY <1>1, <2>1
      <3>4. GetIndex(i, t) # GetIndex(index, table)
        BY <3>1, <3>2, <3>3
      <3>5. QED
        BY <3>1, <3>2, <3>4, <1>4, <1>8
    <2>4. \A t \in DOMAIN indexNames' : \E i : HasIndex(i, t)'
      BY <2>1, <1>8
    <2>5. QED
      BY <2>1, <2>2, <2>3, <2>4, <1>4 DEF IndexesAgree
  <1>11. /\ DOMAIN session' = Sessions /\ session' = [u \in Sessions |-> session'[u]]
         /\ \A u \in Sessions : u # s => session'[u] = seen[u]
    BY <1>2, <1>5
  <1>12. /\ "stage" \in DOMAIN session'[s] /\ session'[s].stage = "planned"
         /\ "kind" \in DOMAIN session'[s] /\ session'[s].kind = "drop"
    BY <1>2, <1>3, <1>5, <1>7
  <1>13. LaterOK(session'[s], s)
    BY <1>12 DEF LaterOK
  <1>14. ASSUME NEW u \in Sessions, u # s
         PROVE  LaterOK(session'[u], u)
    <2>1. SessionOK(seen[u], u) /\ session'[u] = seen[u]
      BY <1>6, <1>11, <1>14
    <2>2. \A i, t : ~HasIndex(i, t) => ~HasIndex(i, t)'
      BY <1>8
    <2>3. \A i, t : ~HasIndex(i, t) =>
            ~(t \in DOMAIN indexNames' /\ i \in DOMAIN indexNames'[t])
      BY <2>2 DEF HasIndex
    <2>4. \A o : o \notin DOMAIN indexes => o \notin DOMAIN indexes'
      BY <1>8
    <2>5. QED
      BY <1>4, <2>1, <2>3, <2>4 DEF SessionOK, PlannedOK, BuildOK, LaterOK
  <1>15. SessionsOK'
    BY <1>11, <1>13, <1>14, SessionsLater
  <1>16. QED
    BY <1>9, <1>10, <1>15 DEF DInv

-----------------------------------------------------------------------------
(* The theorem about the catalog.                                          *)

LEMMA DInit == Init => DInv
  <1> SUFFICES ASSUME Init PROVE DInv
    OBVIOUS
  <1>1. /\ tables = <<>> /\ tableNames = <<>> /\ indexes = <<>> /\ indexNames = <<>>
        /\ nextIndexOid = 1 /\ session = [s \in Sessions |-> Idle]
    BY DEF Init, CatalogInit
  <1>2. DOMAIN << >> = {} /\ Len(<<>>) = 0 /\ << >> \in Seq({})
    OBVIOUS
  <1>3. TablesAgree
    BY <1>1, <1>2 DEF TablesAgree
  <1>4. IndexesAgree
    BY <1>1, <1>2 DEF IndexesAgree, HasIndex
  <1>5. SessionsOK
    BY <1>1, IdleIsQuiet, QuietOK DEF SessionsOK
  <1>6. QED
    BY <1>3, <1>4, <1>5 DEF DInv

LEMMA DStep ==
  ASSUME DInv, [Next]_vars,
         \A x, y \in Sessions : "create" \in MayRun[x] /\ "create" \in MayRun[y] => x = y
  PROVE  DInv'
  <1>1. CASE UNCHANGED vars
    BY <1>1 DEF vars, catalogVars, DInv, TablesAgree, IndexesAgree, HasIndex, GetIndex,
                SessionsOK, SessionOK, PlannedOK, BuildOK
  <1>2. ASSUME NEW t, LoadTable(t) \/ \E k : LoadRow(t, k)
        PROVE  DInv'
    BY <1>2, LoadedTable, LoadedRow
  <1>3. ASSUME NEW s \in Sessions, NEW t, NEW P,
               \/ PlanSelect(s, t, P) \/ PlanDelete(s, t, P)
               \/ \E e : PlanUpdate(s, t, P, e)
               \/ \E source : PlanInsert(s, t, source, P)
        PROVE  DInv'
    <2>1. PICK kind, source, set : /\ kind \in {"select", "delete", "update", "insert"}
                                   /\ PlanScan(s, kind, t, source, P, set)
      BY <1>3 DEF PlanSelect, PlanDelete, PlanUpdate, PlanInsert
    <2>2. QED
      BY <2>1, PlannedScan
  <1>4. ASSUME NEW s \in Sessions,
               \/ \E i, t, point : PlanCreateIndex(s, i, t, point)
               \/ \E names, missingOk : PlanDropIndex(s, names, missingOk)
        PROVE  DInv'
    BY <1>4, PlannedCreate, PlannedDrop
  <1>5. ASSUME NEW s \in Sessions,
               \/ StartScan(s) \/ Pull(s) \/ PullDeleted(s) \/ PullEnd(s)
               \/ ApplyInsert(s) \/ ApplyUpdate(s) \/ ApplyDelete(s) \/ ApplyFails(s)
               \/ ScanCut(s) \/ PullThrows(s) \/ Finish(s)
        PROVE  DInv'
    BY <1>5, StartedScan, PulledRow, CrashingStatements, AppliedRow, FailedApply,
       CutScan, EndingStatements
  <1>6. ASSUME NEW s \in Sessions,
               \/ CreateIndexFails(s) \/ CreateIndexBegin(s) \/ CreateIndexRow(s)
               \/ CreateIndexRowDeleted(s) \/ CreateIndexRegister(s)
               \/ DropIndexStep(s) \/ DropIndexMissing(s) \/ DropIndexThrows(s)
               \/ DropIndexDone(s)
        PROVE  DInv'
    BY <1>6, EndingStatements, BegunIndex, FilledRow, CrashingStatements,
       RegisteredIndex, DroppedIndex, MissingDrop
  <1>7. QED
    BY <1>1, <1>2, <1>3, <1>4, <1>5, <1>6 DEF Next

\* For any sessions, tables, indexes and rows, with one session at most that
\* sends CREATE INDEX: whatever the statements of the others change, scan and
\* drop while Catalog::CreateIndex fills its index, every table and index is
\* found under its own name, table and oid, and nothing else is.  Two
\* sessions that create the same name pass the check of the name before
\* either has registered, and the index entered first keeps an oid that no
\* name leads to.
THEOREM CatalogStaysOne ==
  ASSUME \A x, y \in Sessions : "create" \in MayRun[x] /\ "create" \in MayRun[y] => x = y
  PROVE  Spec => []CatalogAgrees
  <1>1. DInv /\ [Next]_vars => DInv'
    BY DStep
  <1>2. Spec => []DInv
    BY <1>1, DInit, PTL DEF Spec
  <1>3. QED
    BY <1>2, Agreement, PTL

-----------------------------------------------------------------------------
(* What a statement finds of a table that others change meanwhile.  Here   *)
(* any number of sessions may create indexes.                              *)

ScanKinds == {"select", "insert", "update", "delete"}

Slots == Keys \cup {NoRow}

Rids == Nat \ {0}

\* What a scan has not come to yet: from pos on, or the rids that are left.
Ahead(i, via, pos, rids) ==
  IF via = SeqScan THEN pos # 0 /\ pos <= i ELSE \E n \in 1 .. Len(rids) : rids[n] = i

Has(seq, i) == \E n \in 1 .. Len(seq) : seq[n] = i

Once(seq) == \A m, n \in 1 .. Len(seq) : seq[m] = seq[n] => m = n

\* A scan for the keys in P that has returned out: none of it is ahead, all of
\* it matched at some time, and what is owed was returned, or matches and is
\* ahead.
Course(rows, P, via, pos, rids, out, must, may) ==
  /\ via = SeqScan => pos <= Len(rows)
  /\ via # SeqScan => Once(rids) /\ \A n \in 1 .. Len(rids) : rids[n] \in 1 .. Len(rows)
  /\ Once(out)
  /\ \A n \in 1 .. Len(out) : out[n] \in may /\ ~Ahead(out[n], via, pos, rids)
  /\ \A i \in must : \/ Has(out, i)
                     \/ Ahead(i, via, pos, rids) /\ i \in 1 .. Len(rows) /\ rows[i] \in P
  /\ \A i \in 1 .. Len(rows) : rows[i] \in P => i \in may

\* A scan that has ended.
Complete(out, must, may) ==
  /\ Once(out)
  /\ \A i \in must : Has(out, i)
  /\ \A n \in 1 .. Len(out) : out[n] \in may

ScanFields ==
  {"stage", "kind", "table", "source", "pred", "set", "via", "pos", "rids", "out", "row",
   "must", "may", "exact"}

ScanOK(c, tabs) ==
  /\ ScanFields \subseteq DOMAIN c
  /\ c.kind \in ScanKinds /\ c.source \in 1 .. Len(tabs) /\ c.table \in 1 .. Len(tabs)
  /\ c.kind # "insert" => c.table = c.source
  /\ c.kind = "update" => c.set \in [Keys -> Keys]
  /\ c.pred \subseteq Keys
  /\ c.pos \in Nat /\ c.rids \in Seq(Rids) /\ c.out \in Seq(Rids)
  /\ c.stage = "apply" => c.row \in Keys /\ c.out # <<>>
  /\ c.exact => Course(tabs[c.source].rows, c.pred, c.via, c.pos, c.rids, c.out, c.must, c.may)

EndOK(c) ==
  /\ "kind" \in DOMAIN c
  /\ c.kind # "create" =>
       /\ ScanFields \subseteq DOMAIN c
       /\ c.out \in Seq(Rids)
       /\ c.exact => Complete(c.out, c.must, c.may)

MapOK(info) == "map" \in DOMAIN info /\ \A k \in DOMAIN info.map : info.map[k] \in Seq(Rids)

\* A plan names an index of the table that it scans, for as long as there is one.
PlanOK(c, tabs, names, idx, next) ==
  /\ "kind" \in DOMAIN c
  /\ c.kind = "create" => MapOK(c.stmt) /\ c.stmt.table \in DOMAIN names
  /\ c.kind \in ScanKinds =>
       /\ c.source \in 1 .. Len(tabs) /\ c.table \in 1 .. Len(tabs)
       /\ c.kind # "insert" => c.table = c.source
       /\ c.kind = "update" => c.set \in [Keys -> Keys]
       /\ c.pred \subseteq Keys
       /\ c.via # SeqScan =>
            /\ \E k \in Keys : c.pred = {k}
            /\ c.via \in Nat /\ c.via < next
            /\ c.via \in DOMAIN idx => names[idx[c.via].table] = c.source

FillOK(c, tabs, idx, next) ==
  /\ {"kind", "info", "oid", "pos", "source"} \subseteq DOMAIN c
  /\ c.source \in 1 .. Len(tabs)
  /\ c.kind = "create" /\ MapOK(c.info) /\ c.pos \in Nat
  /\ c.oid \in Nat /\ c.oid < next /\ c.oid \notin DOMAIN idx

StatementOK(c, tabs, names, idx, next) ==
  /\ "stage" \in DOMAIN c
  /\ c.stage = "planned" => PlanOK(c, tabs, names, idx, next)
  /\ c.stage = "build" => FillOK(c, tabs, idx, next)
  /\ c.stage \in {"scan", "apply"} => ScanOK(c, tabs)
  /\ c.stage = "done" => EndOK(c)

\* The oid a statement will enter or use.
Refers(c) ==
  IF c.stage = "build" THEN {c.oid}
  ELSE IF c.stage = "planned" THEN
    IF c.kind \in ScanKinds THEN {c.via} \ {SeqScan} ELSE {}
  ELSE {}

TablesTyped ==
  \A o \in 1 .. Len(tables) :
    "rows" \in DOMAIN tables[o] /\ tables[o].rows \in Seq(Slots)

IndexesTyped ==
  /\ nextIndexOid \in Nat
  /\ \A o \in DOMAIN indexes : o \in Nat /\ o < nextIndexOid /\ MapOK(indexes[o])
  /\ \A i, t : HasIndex(i, t) => /\ GetIndex(i, t) \in DOMAIN indexes
                                 /\ indexes[GetIndex(i, t)].name = i
                                 /\ indexes[GetIndex(i, t)].table = t

\* An oid under construction is not in use, and nothing runs at first.
Running ==
  /\ DOMAIN session = Sessions /\ session = [s \in Sessions |-> session[s]]
  /\ \A s \in Sessions :
       StatementOK(session[s], tables, tableNames, indexes, nextIndexOid)
  /\ \A s, u \in Sessions :
       s # u /\ session[s].stage = "build" => session[s].oid \notin Refers(session[u])
  /\ sent \in Nat
  /\ sent = 0 => \A s \in Sessions : session[s].stage = "idle"

VInv == TablesAgree /\ TablesTyped /\ IndexesTyped /\ Running

-----------------------------------------------------------------------------
(* Scans as values.                                                        *)

LEMMA LeastOf ==
  ASSUME NEW T \in SUBSET Nat, T # {}
  PROVE  \E m \in T : \A n \in T : m <= n
  <1>1. PICK m \in T : \A n \in T : ~(<<n, m>> \in OpToRel(<, Nat))
    BY NatLessThanWellFounded, WFMin
  <1>2. m \in Nat /\ \A n \in T : n \in Nat
    OBVIOUS
  <1>3. \A n \in T : ~(n < m)
    BY <1>1, <1>2 DEF OpToRel
  <1>4. QED
    BY <1>2, <1>3

\* FirstRow skips only deleted rows.
LEMMA FirstRowFacts ==
  ASSUME NEW rows \in Seq(Slots), NEW i \in Rids
  PROVE  /\ FirstRow(rows, i) \in Nat
         /\ FirstRow(rows, i) <= Len(rows)
         /\ FirstRow(rows, i) # 0 => i <= FirstRow(rows, i)
         /\ \A j \in Nat : i <= j /\ j <= Len(rows) /\ rows[j] # NoRow
              => FirstRow(rows, i) # 0 /\ FirstRow(rows, i) <= j
  <1> DEFINE live == {j \in i .. Len(rows) : rows[j] # NoRow}
  <1>1. Len(rows) \in Nat
    OBVIOUS
  <1>2. live \in SUBSET Nat /\ \A j \in live : i <= j /\ j <= Len(rows) /\ j # 0
    BY <1>1 DEF Rids
  <1>3. CASE live = {}
    <2>1. FirstRow(rows, i) = 0
      BY <1>3 DEF FirstRow
    <2>2. \A j \in Nat : ~(i <= j /\ j <= Len(rows) /\ rows[j] # NoRow)
      BY <1>1, <1>3 DEF Rids
    <2>3. QED
      BY <1>1, <2>1, <2>2
  <1>4. CASE live # {}
    <2>1. FirstRow(rows, i) = CHOOSE j \in live : \A l \in live : j <= l
      BY <1>4 DEF FirstRow
    <2>2. \E j \in live : \A l \in live : j <= l
      BY <1>2, <1>4, LeastOf
    <2>3. FirstRow(rows, i) \in live /\ \A l \in live : FirstRow(rows, i) <= l
      <3> HIDE DEF live
      <3>1. QED
        BY <2>1, <2>2
    <2>4. \A j \in Nat : i <= j /\ j <= Len(rows) /\ rows[j] # NoRow => j \in live
      BY <1>1 DEF Rids
    <2> HIDE DEF live
    <2>5. QED
      BY <1>2, <2>3, <2>4
  <1>5. QED
    BY <1>3, <1>4

LEMMA AppendFacts ==
  ASSUME NEW out \in Seq(Rids), NEW rid \in Rids
  PROVE  /\ Append(out, rid) \in Seq(Rids) /\ Append(out, rid) # <<>>
         /\ Len(Append(out, rid)) = Len(out) + 1
         /\ Append(out, rid)[Len(out) + 1] = rid
         /\ \A n \in 1 .. Len(out) : Append(out, rid)[n] = out[n]
         /\ \A i : Has(Append(out, rid), i) <=> Has(out, i) \/ i = rid
         /\ Once(out) /\ ~Has(out, rid) => Once(Append(out, rid))
  <1> DEFINE a == Append(out, rid)
  <1>1. /\ a \in Seq(Rids) /\ a # <<>> /\ Len(a) = Len(out) + 1 /\ Len(out) \in Nat
        /\ a[Len(out) + 1] = rid /\ \A n \in 1 .. Len(out) : a[n] = out[n]
    OBVIOUS
  <1> HIDE DEF a
  <1>2. \A n : n \in 1 .. Len(a) <=> n \in 1 .. Len(out) \/ n = Len(out) + 1
    BY <1>1
  <1>3. \A i : Has(a, i) <=> Has(out, i) \/ i = rid
    BY <1>1, <1>2 DEF Has
  <1>4. ASSUME Once(out), ~Has(out, rid) PROVE Once(a)
    BY <1>1, <1>2, <1>4 DEF Once, Has
  <1>5. QED
    BY <1>1, <1>3, <1>4 DEF a

LEMMA TailFacts ==
  ASSUME NEW rids \in Seq(Rids), rids # <<>>
  PROVE  /\ Tail(rids) \in Seq(Rids) /\ Head(rids) \in Rids
         /\ \A i : Has(rids, i) <=> Has(Tail(rids), i) \/ i = Head(rids)
         /\ Once(rids) => Once(Tail(rids)) /\ ~Has(Tail(rids), Head(rids))
  <1> DEFINE t == Tail(rids)
  <1>1. /\ t \in Seq(Rids) /\ Len(t) = Len(rids) - 1 /\ Len(rids) \in Nat /\ Len(rids) >= 1
        /\ Head(rids) = rids[1] /\ \A n \in 1 .. Len(t) : t[n] = rids[n + 1]
    OBVIOUS
  <1>2. Head(rids) \in Rids
    OBVIOUS
  <1> HIDE DEF t
  <1>3. \A n \in 1 .. Len(rids) : n = 1 \/ (n - 1 \in 1 .. Len(t) /\ rids[n] = t[n - 1])
    BY <1>1
  <1>4. \A n \in 1 .. Len(t) : n + 1 \in 1 .. Len(rids) /\ t[n] = rids[n + 1] /\ n + 1 # 1
    BY <1>1
  <1>5. 1 \in 1 .. Len(rids)
    BY <1>1
  <1>6. \A i : Has(rids, i) <=> Has(t, i) \/ i = Head(rids)
    BY <1>1, <1>3, <1>4, <1>5 DEF Has
  <1>7. ASSUME Once(rids) PROVE Once(t) /\ ~Has(t, Head(rids))
    <2>1. ASSUME NEW m \in 1 .. Len(t), NEW n \in 1 .. Len(t), t[m] = t[n] PROVE m = n
      <3>1. m + 1 = n + 1
        BY <1>4, <1>7, <2>1 DEF Once
      <3>2. QED
        BY <3>1
    <2>2. ~Has(t, Head(rids))
      BY <1>1, <1>4, <1>5, <1>7 DEF Once, Has
    <2>3. QED
      BY <2>1, <2>2 DEF Once
  <1>8. QED
    BY <1>1, <1>2, <1>6, <1>7 DEF t

LEMMA AheadLeft ==
  ASSUME NEW i, NEW via, NEW pos, NEW rids, via # SeqScan
  PROVE  Ahead(i, via, pos, rids) <=> Has(rids, i)
  BY DEF Ahead, Has

\* The rows change under a scan.  What is owed no longer counts where it
\* stopped matching ahead of the scan.
LEMMA ChangedCourse ==
  ASSUME NEW rows \in Seq(Slots), NEW P, NEW via, NEW pos \in Nat, NEW rids \in Seq(Rids),
         NEW out \in Seq(Rids), NEW must, NEW may,
         Course(rows, P, via, pos, rids, out, must, may),
         NEW new \in Seq(Slots), Len(rows) <= Len(new), NEW owed \in SUBSET must, NEW seen,
         \A i \in owed : Ahead(i, via, pos, rids) /\ i \in 1 .. Len(rows) /\ rows[i] \in P
                           => new[i] \in P,
         may \subseteq seen, \A i \in 1 .. Len(new) : new[i] \in P => i \in seen
  PROVE  Course(new, P, via, pos, rids, out, owed, seen)
  <1>1. Len(rows) \in Nat /\ Len(new) \in Nat
    OBVIOUS
  <1>2. \A i : i \in 1 .. Len(rows) => i \in 1 .. Len(new)
    BY <1>1
  <1>3. via = SeqScan => pos <= Len(new)
    BY <1>1 DEF Course
  <1>4. via # SeqScan => Once(rids) /\ \A n \in 1 .. Len(rids) : rids[n] \in 1 .. Len(new)
    BY <1>2 DEF Course
  <1>5. QED
    BY <1>2, <1>3, <1>4 DEF Course

\* A row is read, taken or passed over.
LEMMA PulledCourse ==
  ASSUME NEW rows, NEW P, NEW via, NEW pos, NEW rids, NEW out, NEW must, NEW may,
         NEW rid, NEW nextPos, NEW nextRids, NEW nextOut,
         /\ rows \in Seq(Slots) /\ P \in SUBSET Keys
         /\ pos \in Nat /\ rids \in Seq(Rids) /\ out \in Seq(Rids) /\ rid \in Rids
         /\ via = SeqScan => rid = pos /\ nextPos = FirstRow(rows, rid + 1)
         /\ via # SeqScan => rids # <<>> /\ rid = Head(rids) /\ nextRids = Tail(rids)
         /\ rows[rid] \notin P => nextOut = out
         /\ rows[rid] \in P => nextOut = Append(out, rid),
         Course(rows, P, via, pos, rids, out, must, may)
  PROVE  Course(rows, P, via, nextPos, nextRids, nextOut, must, may)
  <1>0. Len(rows) \in Nat
    OBVIOUS
  <1>1. rid # 0
    BY DEF Rids
  <1>2. rid + 1 \in Rids /\ (via = SeqScan => nextPos \in Nat)
    <2>1. rid + 1 \in Rids
      BY DEF Rids
    <2>2. QED
      BY <2>1, FirstRowFacts
  \* Nothing but rid is left behind.
  <1>3. /\ Ahead(rid, via, pos, rids) /\ ~Ahead(rid, via, nextPos, nextRids)
        /\ \A i : Ahead(i, via, nextPos, nextRids) /\ i \in Nat => Ahead(i, via, pos, rids)
        /\ \A i \in 1 .. Len(rows) :
             Ahead(i, via, pos, rids) /\ rows[i] \in P /\ i # rid
               => Ahead(i, via, nextPos, nextRids)
    <2>1. CASE via = SeqScan
      <3>1. rid = pos /\ pos # 0
        BY <1>1, <2>1
      <3>2. /\ nextPos # 0 => pos + 1 <= nextPos
            /\ \A j \in Nat : pos + 1 <= j /\ j <= Len(rows) /\ rows[j] # NoRow
                 => nextPos # 0 /\ nextPos <= j
        BY <1>2, <2>1, <3>1, FirstRowFacts
      <3>3. \A i : Ahead(i, via, pos, rids) <=> pos <= i
        BY <2>1, <3>1 DEF Ahead
      <3>4. \A i : Ahead(i, via, nextPos, nextRids) <=> nextPos # 0 /\ nextPos <= i
        BY <2>1 DEF Ahead
      <3>5. \A i \in 1 .. Len(rows) : rows[i] \in P =>
              rows[i] # NoRow /\ i \in Nat /\ i <= Len(rows)
        BY <1>0, CatalogAssumption DEF CatalogAssumption
      <3>6. pos <= pos /\ ~(nextPos # 0 /\ nextPos <= pos)
        BY <1>2, <2>1, <3>2
      <3>7. \A i \in Nat : nextPos # 0 /\ nextPos <= i => pos <= i
        BY <1>2, <2>1, <3>2
      <3>8. ASSUME NEW i \in 1 .. Len(rows), pos <= i, rows[i] \in P, i # pos
            PROVE  nextPos # 0 /\ nextPos <= i
        <4>1. i \in Nat /\ i <= Len(rows) /\ rows[i] # NoRow
          BY <3>5, <3>8
        <4>2. pos + 1 <= i
          BY <3>8, <4>1
        <4>3. QED
          BY <3>2, <4>1, <4>2
      <3>9. QED
        BY <3>1, <3>3, <3>4, <3>6, <3>7, <3>8
    <2>2. CASE via # SeqScan
      <3>1. rids # <<>> /\ rid = Head(rids) /\ nextRids = Tail(rids)
        BY <2>2
      <3>2. Once(rids)
        BY <2>2 DEF Course
      <3>3. (\A i : Has(rids, i) <=> Has(nextRids, i) \/ i = rid) /\ ~Has(nextRids, rid)
        BY <3>1, <3>2, TailFacts
      <3>4. QED
        BY <2>2, <3>3, AheadLeft
    <2>3. QED
      BY <2>1, <2>2
  <1>4. via = SeqScan => nextPos <= Len(rows)
    BY <1>2, FirstRowFacts
  <1>5. via # SeqScan =>
          Once(nextRids) /\ \A n \in 1 .. Len(nextRids) : nextRids[n] \in 1 .. Len(rows)
    <2>1. CASE via # SeqScan
      <3>1. rids # <<>> /\ nextRids = Tail(rids) /\ Once(rids)
        BY <2>1 DEF Course
      <3>2. Once(nextRids) /\ \A i : Has(nextRids, i) => Has(rids, i)
        BY <3>1, TailFacts
      <3>3. \A i : Has(rids, i) => i \in 1 .. Len(rows)
        BY <2>1 DEF Course, Has
      <3>4. QED
        BY <3>2, <3>3 DEF Has
    <2>2. QED
      BY <2>1
  <1>6. /\ Once(out)
        /\ \A n \in 1 .. Len(out) : out[n] \in may /\ ~Ahead(out[n], via, pos, rids)
        /\ \A i \in must : \/ Has(out, i)
                           \/ Ahead(i, via, pos, rids) /\ i \in 1 .. Len(rows) /\ rows[i] \in P
        /\ \A i \in 1 .. Len(rows) : rows[i] \in P => i \in may
    BY DEF Course
  <1>7. \A n \in 1 .. Len(out) : out[n] \in Nat /\ out[n] # rid
    <2>1. \A n \in 1 .. Len(out) : out[n] \in Nat
      BY DEF Rids
    <2>2. QED
      BY <1>3, <1>6, <2>1
  <1>8. rid \in 1 .. Len(rows)
    <2>1. CASE via = SeqScan
      <3>1. rid = pos /\ pos <= Len(rows)
        BY <2>1 DEF Course
      <3>2. QED
        BY <1>0, <1>1, <3>1 DEF Rids
    <2>2. CASE via # SeqScan
      <3>1. rids # <<>> /\ rid = Head(rids)
        BY <2>2
      <3>2. Has(rids, rid)
        BY <3>1, TailFacts
      <3>3. QED
        BY <2>2, <3>2 DEF Course, Has
    <2>3. QED
      BY <2>1, <2>2
  <1>9. CASE rows[rid] \notin P
    <2>1. nextOut = out
      BY <1>9
    <2>2. QED
      BY <1>3, <1>4, <1>5, <1>6, <1>7, <1>9, <2>1 DEF Course
  <1>10. CASE rows[rid] \in P
    <2>1. /\ nextOut = Append(out, rid) /\ Len(out) \in Nat
      BY <1>10
    <2>2. ~Has(out, rid)
      BY <1>7 DEF Has
    <2>3. /\ Len(nextOut) = Len(out) + 1 /\ nextOut[Len(out) + 1] = rid
          /\ \A n \in 1 .. Len(out) : nextOut[n] = out[n]
          /\ \A i : Has(nextOut, i) <=> Has(out, i) \/ i = rid
          /\ Once(nextOut)
      BY <1>1, <1>6, <2>1, <2>2, AppendFacts
    <2>4. \A n \in 1 .. Len(nextOut) : n \in 1 .. Len(out) \/ n = Len(out) + 1
      BY <2>1, <2>3
    <2>5. \A n \in 1 .. Len(nextOut) :
            nextOut[n] \in may /\ ~Ahead(nextOut[n], via, nextPos, nextRids)
      BY <1>3, <1>6, <1>7, <1>10, <1>8, <2>3, <2>4
    <2>6. QED
      BY <1>3, <1>4, <1>5, <1>6, <2>3, <2>5 DEF Course
  <1>11. QED
    BY <1>9, <1>10

\* Over a table.
LEMMA StartedTableCourse ==
  ASSUME NEW rows \in Seq(Slots), NEW P \in SUBSET Keys, NEW rids, NEW must,
         must = {i \in 1 .. Len(rows) : rows[i] \in P}
  PROVE  Course(rows, P, SeqScan, FirstRow(rows, 1), rids, <<>>, must, must)
  <1> DEFINE pos == FirstRow(rows, 1)
  <1>1. 1 \in Rids
    BY DEF Rids
  <1>2. /\ pos \in Nat /\ pos <= Len(rows)
        /\ \A j \in Nat : 1 <= j /\ j <= Len(rows) /\ rows[j] # NoRow => pos # 0 /\ pos <= j
    BY <1>1, FirstRowFacts
  <1>3. \A i \in must : i \in Nat /\ 1 <= i /\ i <= Len(rows) /\ rows[i] # NoRow
    BY CatalogAssumption DEF CatalogAssumption
  <1> HIDE DEF pos
  <1>4. \A i \in must : Ahead(i, SeqScan, pos, rids)
    BY <1>2, <1>3 DEF Ahead
  <1>5. Len(<<>>) = 0 /\ \A n : n \notin 1 .. 0
    OBVIOUS
  <1>6. Once(<<>>)
    BY <1>5 DEF Once
  <1>7. QED
    BY <1>2, <1>4, <1>5, <1>6 DEF Course, pos

\* A sequence has as many elements as places if and only if they differ.
LEMMA CountOnce ==
  ASSUME NEW seq \in Seq(Rids)
  PROVE  Len(seq) = Cardinality(Range(seq)) <=> Once(seq)
  <1>1. Len(seq) \in Nat /\ DOMAIN seq = 1 .. Len(seq)
    OBVIOUS
  <1>2. seq \in [1 .. Len(seq) -> Range(seq)]
    BY <1>1 DEF Range
  <1>3. seq \in Surjection(1 .. Len(seq), Range(seq))
    BY <1>1, <1>2 DEF Surjection, Range
  <1>4. IsFiniteSet(1 .. Len(seq)) /\ Cardinality(1 .. Len(seq)) = Len(seq)
    BY <1>1, FS_Interval, SMTT(60)
  <1>5. Cardinality(Range(seq)) = Len(seq) <=> seq \in Injection(1 .. Len(seq), Range(seq))
    BY <1>3, <1>4, FS_Surjection
  <1>6. seq \in Injection(1 .. Len(seq), Range(seq)) <=> Once(seq)
    BY <1>1, <1>2 DEF Injection, IsInjective, Once
  <1>7. QED
    BY <1>5, <1>6

LEMMA RangeHas ==
  ASSUME NEW seq \in Seq(Rids)
  PROVE  \A i : i \in Range(seq) <=> Has(seq, i)
  BY DEF Range, Has

\* Through an index that describes the table.
LEMMA StartedIndexCourse ==
  ASSUME NEW rows \in Seq(Slots), NEW P \in SUBSET Keys, NEW rids \in Seq(Rids), NEW must,
         NEW via, via # SeqScan,
         must = {i \in 1 .. Len(rows) : rows[i] \in P},
         Range(rids) = must, Len(rids) = Cardinality(Range(rids))
  PROVE  Course(rows, P, via, 0, rids, <<>>, must, must)
  <1>1. Once(rids)
    BY CountOnce
  <1>2. \A i : i \in must <=> Has(rids, i)
    BY RangeHas
  <1>3. Len(<<>>) = 0 /\ \A n : n \notin 1 .. 0
    OBVIOUS
  <1>4. Once(<<>>)
    BY <1>3 DEF Once
  <1>5. \A i \in must : Ahead(i, via, 0, rids)
    BY <1>2, AheadLeft
  <1>6. \A n \in 1 .. Len(rids) : rids[n] \in 1 .. Len(rows)
    BY <1>2 DEF Has
  <1>7. QED
    BY <1>1, <1>3, <1>4, <1>5, <1>6 DEF Course

\* At the end nothing is ahead.
LEMMA EndedCourse ==
  ASSUME NEW rows, NEW P, NEW via, NEW pos, NEW rids \in Seq(Rids), NEW out, NEW must, NEW may,
         Course(rows, P, via, pos, rids, out, must, may),
         IF via = SeqScan THEN pos = 0 ELSE rids = <<>>
  PROVE  Complete(out, must, may)
  <1>1. \A i : ~Ahead(i, via, pos, rids)
    <2>1. CASE via = SeqScan
      BY <2>1 DEF Ahead
    <2>2. CASE via # SeqScan
      <3>1. Len(rids) = 0 /\ \A n : n \notin 1 .. 0
        BY <2>2
      <3>2. QED
        BY <2>2, <3>1 DEF Ahead
    <2>3. QED
      BY <2>1, <2>2
  <1>2. QED
    BY <1>1 DEF Course, Complete

\* A scan that is cut short owes nothing any more.
LEMMA CutCourse ==
  ASSUME NEW rows \in Seq(Slots), NEW P, NEW via, NEW pos, NEW rids, NEW out, NEW must, NEW may,
         Course(rows, P, via, pos, rids, out, must, may)
  PROVE  Course(rows, P, via, 0, rids, out, {}, may)
  <1>1. 0 <= Len(rows)
    OBVIOUS
  <1>2. \A i : Ahead(i, via, 0, rids) => Ahead(i, via, pos, rids)
    BY DEF Ahead
  <1>3. QED
    BY <1>1, <1>2 DEF Course

LEMMA CompleteIsRight ==
  ASSUME NEW out \in Seq(Rids), NEW must, NEW may, Complete(out, must, may)
  PROVE  /\ must \subseteq Range(out) /\ Range(out) \subseteq may
         /\ Len(out) = Cardinality(Range(out))
  <1>1. Len(out) = Cardinality(Range(out))
    BY CountOnce DEF Complete
  <1>2. QED
    BY <1>1, RangeHas DEF Complete, Has

LEMMA SeesRight == VInv => SeesStableRows
  <1> SUFFICES ASSUME VInv, NEW s \in Sessions, session[s].stage = "done", session[s].exact,
                      session[s].kind # "create"
               PROVE  /\ session[s].must \subseteq Range(session[s].out)
                      /\ Range(session[s].out) \subseteq session[s].may
                      /\ Len(session[s].out) = Cardinality(Range(session[s].out))
    BY DEF SeesStableRows
  <1> DEFINE c == session[s]
  <1>1. EndOK(c)
    BY DEF VInv, Running, StatementOK
  <1>2. c.out \in Seq(Rids) /\ Complete(c.out, c.must, c.may)
    BY <1>1 DEF EndOK
  <1> HIDE DEF c
  <1>3. QED
    BY <1>2, CompleteIsRight DEF c

-----------------------------------------------------------------------------
(* Steps of one session that leave the catalog alone.                      *)

\* What the invariant says of one session.
LEMMA OneStatement ==
  ASSUME VInv, NEW s \in Sessions
  PROVE  /\ StatementOK(session[s], tables, tableNames, indexes, nextIndexOid)
         /\ "stage" \in DOMAIN session[s] /\ DOMAIN session = Sessions
         /\ sent \in Nat /\ (session[s].stage # "idle" => sent # 0)
  BY DEF VInv, Running, StatementOK

LEMMA StatementStep ==
  ASSUME VInv, UNCHANGED catalogVars, NEW s \in Sessions, NEW d,
         StatementOK(d, tables, tableNames, indexes, nextIndexOid),
         session' = [session EXCEPT ![s] = d], sent' \in Nat \ {0},
         d.stage = "build" => session[s].stage = "build" /\ d.oid = session[s].oid,
         \A u \in Sessions : u # s /\ session[u].stage = "build" =>
           session[u].oid \notin Refers(d)
  PROVE  VInv'
  <1>1. /\ tables' = tables /\ tableNames' = tableNames /\ indexes' = indexes
        /\ indexNames' = indexNames /\ nextIndexOid' = nextIndexOid
    BY DEF catalogVars
  <1>2. TablesAgree' /\ TablesTyped'
    BY <1>1 DEF VInv, TablesAgree, TablesTyped
  <1>3. IndexesTyped'
    BY <1>1 DEF VInv, IndexesTyped, HasIndex, GetIndex
  <1>4. DOMAIN session = Sessions
    BY DEF VInv, Running
  <1>5. \A u \in Sessions : session'[u] = IF u = s THEN d ELSE session[u]
    BY <1>4
  <1>6. DOMAIN session' = Sessions /\ session' = [u \in Sessions |-> session'[u]]
    BY <1>4
  <1>7. \A u \in Sessions :
          StatementOK(session'[u], tables, tableNames, indexes, nextIndexOid)
    BY <1>5 DEF VInv, Running
  <1>8. ASSUME NEW u \in Sessions, NEW v \in Sessions, u # v, session'[u].stage = "build"
        PROVE  session'[u].oid \notin Refers(session'[v])
    <2>1. session[u].stage = "build" /\ session'[u].oid = session[u].oid
      BY <1>5, <1>8
    <2>2. CASE v = s
      BY <1>5, <1>8, <2>1, <2>2
    <2>3. CASE v # s
      BY <1>5, <1>8, <2>1, <2>3 DEF VInv, Running
    <2>4. QED
      BY <2>2, <2>3
  <1>9. Running'
    BY <1>1, <1>6, <1>7, <1>8 DEF Running
  <1>10. QED
    BY <1>2, <1>3, <1>9 DEF VInv

\* A statement that neither waits for its execution nor fills an index.
LEMMA PlainStep ==
  ASSUME VInv, UNCHANGED catalogVars, NEW s \in Sessions, NEW d,
         StatementOK(d, tables, tableNames, indexes, nextIndexOid),
         d.stage \notin {"planned", "build"},
         session' = [session EXCEPT ![s] = d], sent' \in Nat \ {0}
  PROVE  VInv'
  <1>1. Refers(d) = {}
    BY DEF Refers
  <1>2. QED
    BY <1>1, StatementStep

\* The statements that end, that fail, and that bring down the server.
LEMMA StatementEnds ==
  ASSUME VInv, NEW s \in Sessions,
         \/ PullThrows(s) \/ Finish(s) \/ CreateIndexFails(s)
         \/ DropIndexThrows(s) \/ DropIndexDone(s)
  PROVE  VInv'
  <1>1. session' = [session EXCEPT ![s] = Idle] /\ UNCHANGED catalogVars
    BY DEF PullThrows, Finish, CreateIndexFails, DropIndexThrows, DropIndexDone, Fault, Unseen
  <1>2. session[s].stage # "idle" /\ (sent' = sent \/ sent' = sent + 1)
    BY DEF PullThrows, Finish, CreateIndexFails, DropIndexThrows, DropIndexDone, Fault, Ready
  <1>3. sent' \in Nat \ {0}
    BY <1>2, OneStatement
  <1>4. "stage" \in DOMAIN Idle /\ Idle.stage = "idle"
    BY DEF Idle
  <1>5. StatementOK(Idle, tables, tableNames, indexes, nextIndexOid)
    BY <1>4 DEF StatementOK
  <1>6. QED
    BY <1>1, <1>3, <1>4, <1>5, PlainStep

LEMMA ServerCrashes ==
  ASSUME VInv, NEW s \in Sessions, PullDeleted(s) \/ CreateIndexRowDeleted(s)
  PROVE  VInv'
  <1> DEFINE c == session[s]
             d == [c EXCEPT !.stage = "crashed"]
  <1>1. /\ session' = [session EXCEPT ![s] = d] /\ UNCHANGED catalogVars
        /\ c.stage # "idle" /\ sent' = sent
    BY DEF PullDeleted, CreateIndexRowDeleted, Unseen, Ready
  <1>2. sent' \in Nat \ {0}
    BY <1>1, OneStatement
  <1>3. "stage" \in DOMAIN d /\ d.stage = "crashed"
    BY OneStatement
  <1> HIDE DEF d
  <1>4. StatementOK(d, tables, tableNames, indexes, nextIndexOid)
    BY <1>3 DEF StatementOK
  <1>5. QED
    BY <1>1, <1>2, <1>3, <1>4, PlainStep

LEMMA ScanEnds ==
  ASSUME VInv, NEW s \in Sessions, PullEnd(s)
  PROVE  VInv'
  <1> DEFINE c == session[s]
             d == [c EXCEPT !.stage = "done"]
  <1>1. /\ session' = [session EXCEPT ![s] = d] /\ UNCHANGED catalogVars
        /\ c.stage = "scan" /\ sent' = sent /\ Current(c) = 0
    BY DEF PullEnd, Unseen, Ready
  <1>2. sent' \in Nat \ {0}
    BY <1>1, OneStatement
  <1>3. ScanOK(c, tables)
    BY <1>1, OneStatement DEF StatementOK
  <1> HIDE DEF c
  <1>4. ScanFields \subseteq DOMAIN c /\ "stage" \in ScanFields /\ "kind" \in ScanFields
    BY <1>3 DEF ScanOK, ScanFields
  <1>5. DOMAIN d = DOMAIN c /\ d.stage = "done"
    BY <1>4
  <1>6. d.kind = c.kind /\ d.out = c.out /\ d.exact = c.exact /\ d.must = c.must /\ d.may = c.may
    BY <1>4 DEF ScanFields
  <1> HIDE DEF d
  <1>7. c.out \in Seq(Rids) /\ c.rids \in Seq(Rids)
    BY <1>3 DEF ScanOK
  <1>8. IF c.via = SeqScan THEN c.pos = 0 ELSE c.rids = <<>>
    <2>1. CASE c.via = SeqScan
      BY <1>1, <2>1 DEF Current
    <2>2. CASE c.via # SeqScan
      <3>1. SUFFICES ASSUME c.rids # <<>> PROVE FALSE
        BY <2>2
      <3>2. Head(c.rids) = 0
        BY <1>1, <2>2, <3>1 DEF Current
      <3>3. Head(c.rids) \in Rids
        BY <1>7, <3>1, TailFacts
      <3>4. QED
        BY <3>2, <3>3 DEF Rids
    <2>3. QED
      BY <2>1, <2>2
  <1>9. c.exact => Complete(c.out, c.must, c.may)
    BY <1>3, <1>7, <1>8, EndedCourse DEF ScanOK
  <1>10. EndOK(d)
    BY <1>4, <1>5, <1>6, <1>7, <1>9 DEF EndOK
  <1>11. StatementOK(d, tables, tableNames, indexes, nextIndexOid)
    BY <1>4, <1>5, <1>10 DEF StatementOK
  <1>12. QED
    BY <1>1, <1>2, <1>5, <1>11, PlainStep DEF c

\* A scan with another position, rows taken and stage.
LEMMA ScanGoesOn ==
  ASSUME NEW c, NEW d, NEW tabs, ScanOK(c, tabs),
         DOMAIN d = DOMAIN c, d.kind = c.kind, d.table = c.table, d.source = c.source,
         d.pred = c.pred, d.set = c.set, d.via = c.via, d.exact = c.exact, d.may = c.may,
         d.pos \in Nat, d.rids \in Seq(Rids), d.out \in Seq(Rids),
         d.stage = "apply" => d.row \in Keys /\ d.out # <<>>,
         c.exact => Course(tabs[c.source].rows, c.pred, c.via, d.pos, d.rids, d.out, d.must, c.may)
  PROVE  ScanOK(d, tabs)
  BY DEF ScanOK

LEMMA ScanIsFine ==
  ASSUME NEW d, NEW tabs, ScanOK(d, tabs), d.stage \in {"scan", "apply"},
         NEW names, NEW idx, NEW next
  PROVE  StatementOK(d, tabs, names, idx, next) /\ d.stage \notin {"planned", "build"}
  BY DEF ScanOK, ScanFields, StatementOK

LEMMA RowPulled ==
  ASSUME VInv, NEW s \in Sessions, Pull(s)
  PROVE  VInv'
  <1> DEFINE c == session[s]
             rid == Current(c)
             rows == tables[c.source].rows
             pos == IF c.via = SeqScan THEN FirstRow(rows, rid + 1) ELSE 0
             rids == IF c.via = SeqScan THEN <<>> ELSE Tail(c.rids)
             next == [c EXCEPT !.pos = pos, !.rids = rids]
             out == IF rows[rid] \notin c.pred THEN c.out ELSE Append(c.out, rid)
             take == [next EXCEPT !.out = Append(@, rid),
                         !.row = IF c.kind = "select" THEN NoRow ELSE rows[rid],
                         !.stage = IF c.kind = "select" THEN "scan" ELSE "apply"]
             d == IF rows[rid] \notin c.pred THEN next ELSE take
  <1>1. /\ session' = [session EXCEPT ![s] = d] /\ UNCHANGED catalogVars
        /\ c.stage = "scan" /\ sent' = sent /\ rid # 0
    BY DEF Pull, Ready, Unseen
  <1>2. sent' \in Nat \ {0}
    BY <1>1, OneStatement
  <1>3. ScanOK(c, tables)
    BY <1>1, OneStatement DEF StatementOK
  <1>4. rows \in Seq(Slots)
    BY <1>3 DEF ScanOK, VInv, TablesTyped
  <1> HIDE DEF rows, c
  <1>5. /\ c.pred \subseteq Keys /\ c.pos \in Nat /\ c.rids \in Seq(Rids) /\ c.out \in Seq(Rids)
        /\ ScanFields \subseteq DOMAIN c
    BY <1>3 DEF ScanOK
  <1>6. rid = IF c.via = SeqScan THEN c.pos ELSE IF c.rids = <<>> THEN 0 ELSE Head(c.rids)
    BY DEF Current
  <1> HIDE DEF rid
  <1>7. rid \in Rids /\ rid + 1 \in Rids
    <2>1. CASE c.via = SeqScan
      BY <1>1, <1>5, <1>6, <2>1 DEF Rids
    <2>2. CASE c.via # SeqScan
      <3>1. c.rids # <<>> /\ rid = Head(c.rids)
        BY <1>1, <1>6, <2>2
      <3>2. rid \in Rids
        BY <1>5, <3>1, TailFacts
      <3>3. QED
        BY <3>2 DEF Rids
    <2>3. QED
      BY <2>1, <2>2
  <1>8. pos \in Nat
    BY <1>4, <1>7, FirstRowFacts
  <1>9. rids \in Seq(Rids)
    <2>1. CASE c.via = SeqScan
      BY <2>1
    <2>2. CASE c.via # SeqScan
      BY <1>1, <1>5, <1>6, <2>2, TailFacts
    <2>3. QED
      BY <2>1, <2>2
  <1>10. out \in Seq(Rids) /\ (rows[rid] \in c.pred => out # <<>>)
    BY <1>5, <1>7, AppendFacts
  <1>11. c.exact => Course(rows, c.pred, c.via, pos, rids, out, c.must, c.may)
    <2>1. SUFFICES ASSUME c.exact
                   PROVE  Course(rows, c.pred, c.via, pos, rids, out, c.must, c.may)
      OBVIOUS
    <2>2. Course(rows, c.pred, c.via, c.pos, c.rids, c.out, c.must, c.may)
      BY <1>3, <2>1 DEF ScanOK, rows
    <2>3. /\ pos = IF c.via = SeqScan THEN FirstRow(rows, rid + 1) ELSE 0
          /\ rids = IF c.via = SeqScan THEN <<>> ELSE Tail(c.rids)
          /\ out = IF rows[rid] \notin c.pred THEN c.out ELSE Append(c.out, rid)
          /\ c.pred \in SUBSET Keys /\ rid # 0
      BY <1>1, <1>5
    <2>4. /\ c.via = SeqScan => rid = c.pos /\ pos = FirstRow(rows, rid + 1)
          /\ c.via # SeqScan => c.rids # <<>> /\ rid = Head(c.rids) /\ rids = Tail(c.rids)
          /\ rows[rid] \notin c.pred => out = c.out
          /\ rows[rid] \in c.pred => out = Append(c.out, rid)
      BY <1>6, <2>3
    <2> HIDE DEF pos, rids, out
    <2>5. /\ rows \in Seq(Slots) /\ c.pred \in SUBSET Keys
          /\ c.pos \in Nat /\ c.rids \in Seq(Rids) /\ c.out \in Seq(Rids) /\ rid \in Rids
          /\ c.via = SeqScan => rid = c.pos /\ pos = FirstRow(rows, rid + 1)
          /\ c.via # SeqScan => c.rids # <<>> /\ rid = Head(c.rids) /\ rids = Tail(c.rids)
          /\ rows[rid] \notin c.pred => out = c.out
          /\ rows[rid] \in c.pred => out = Append(c.out, rid)
      BY <1>4, <1>5, <1>7, <2>3, <2>4
    <2>6. QED
      BY <2>2, <2>5, PulledCourse
  <1> HIDE DEF pos, rids, out
  <1>12. /\ DOMAIN next = DOMAIN c /\ next.stage = "scan" /\ next.pos = pos /\ next.rids = rids
         /\ next.kind = c.kind /\ next.table = c.table /\ next.source = c.source
         /\ next.pred = c.pred /\ next.set = c.set /\ next.via = c.via
         /\ next.exact = c.exact /\ next.may = c.may /\ next.must = c.must
         /\ next.out = c.out
    BY <1>1, <1>5 DEF ScanFields
  <1> HIDE DEF next
  <1>13. CASE rows[rid] \notin c.pred
    <2>1. d = next /\ out = c.out
      BY <1>13 DEF out
    <2> HIDE DEF d
    <2>2. ScanOK(d, tables)
      BY <1>1, <1>3, <1>5, <1>8, <1>9, <1>10, <1>11, <1>12, <2>1, ScanGoesOn DEF rows
    <2>3. StatementOK(d, tables, tableNames, indexes, nextIndexOid)
          /\ d.stage \notin {"planned", "build"}
      BY <1>12, <2>1, <2>2, ScanIsFine
    <2>4. QED
      BY <1>1, <1>2, <2>3, PlainStep DEF c
  <1>14. CASE rows[rid] \in c.pred
    <2>1. d = take /\ out = Append(next.out, rid)
      BY <1>12, <1>14 DEF out
    <2>2. /\ DOMAIN take = DOMAIN c /\ take.stage \in {"scan", "apply"}
          /\ take.pos = pos /\ take.rids = rids /\ take.out = out
          /\ take.kind = c.kind /\ take.table = c.table /\ take.source = c.source
          /\ take.pred = c.pred /\ take.set = c.set /\ take.via = c.via
          /\ take.exact = c.exact /\ take.may = c.may /\ take.must = c.must
          /\ take.stage = "apply" => take.row = rows[rid]
      BY <1>5, <1>12, <2>1 DEF ScanFields
    <2> HIDE DEF take, d
    <2>3. ScanOK(take, tables)
      BY <1>3, <1>5, <1>8, <1>9, <1>10, <1>11, <1>14, <2>2, ScanGoesOn DEF rows
    <2>4. StatementOK(d, tables, tableNames, indexes, nextIndexOid)
          /\ d.stage \notin {"planned", "build"}
      BY <2>1, <2>2, <2>3, ScanIsFine
    <2>5. QED
      BY <1>1, <1>2, <2>4, PlainStep DEF c
  <1>15. QED
    BY <1>13, <1>14

LEMMA ApplyFailed ==
  ASSUME VInv, NEW s \in Sessions, ApplyFails(s)
  PROVE  VInv'
  <1> DEFINE c == session[s]
             b == [c EXCEPT !.calm = FALSE, !.before = <<>>]
             d == [b EXCEPT
                     !.stage = IF c.kind = "delete" /\ ~(c.held \subseteq DOMAIN indexes)
                               THEN "crashed" ELSE "scan",
                     !.row = NoRow,
                     !.count = IF c.kind = "insert" THEN @ ELSE @ + 1]
  <1>1. /\ session' = [session EXCEPT ![s] = d] /\ UNCHANGED catalogVars
        /\ c.stage = "apply" /\ (sent' = sent \/ sent' = sent + 1)
    BY DEF ApplyFails, Fault, Unseen, Ready, Disturbed
  <1>2. sent' \in Nat \ {0}
    BY <1>1, OneStatement
  <1>3. ScanOK(c, tables)
    BY <1>1, OneStatement DEF StatementOK
  <1> HIDE DEF c
  <1>4. ScanFields \subseteq DOMAIN c
    BY <1>3 DEF ScanOK
  <1>5. /\ DOMAIN b = DOMAIN c /\ b.kind = c.kind /\ b.table = c.table /\ b.source = c.source
        /\ b.pred = c.pred /\ b.set = c.set /\ b.via = c.via /\ b.pos = c.pos
        /\ b.rids = c.rids /\ b.out = c.out /\ b.must = c.must /\ b.may = c.may
        /\ b.exact = c.exact
    BY <1>4 DEF ScanFields
  <1> HIDE DEF b
  <1>6. /\ DOMAIN d = DOMAIN c /\ d.kind = c.kind /\ d.table = c.table /\ d.source = c.source
        /\ d.pred = c.pred /\ d.set = c.set /\ d.via = c.via /\ d.pos = c.pos
        /\ d.rids = c.rids /\ d.out = c.out /\ d.must = c.must /\ d.may = c.may
        /\ d.exact = c.exact /\ d.stage \in {"crashed", "scan"}
    BY <1>4, <1>5 DEF ScanFields
  <1> HIDE DEF d
  <1>7. ScanOK(d, tables) /\ "stage" \in DOMAIN d
    BY <1>3, <1>4, <1>6 DEF ScanOK, ScanFields
  <1>8. StatementOK(d, tables, tableNames, indexes, nextIndexOid)
    BY <1>6, <1>7 DEF StatementOK
  <1>9. QED
    BY <1>1, <1>2, <1>6, <1>8, PlainStep DEF c

LEMMA ScanIsCut ==
  ASSUME VInv, NEW s \in Sessions, ScanCut(s)
  PROVE  VInv'
  <1> DEFINE c == session[s]
             b == [c EXCEPT !.calm = FALSE, !.before = <<>>]
             d == [b EXCEPT !.pos = 0, !.must = {}]
  <1>1. /\ session' = [session EXCEPT ![s] = d] /\ UNCHANGED catalogVars
        /\ c.stage \in {"scan", "build"} /\ sent' = sent + 1
    BY DEF ScanCut, Fault, Unseen, Disturbed
  <1>2. sent' \in Nat \ {0}
    BY <1>1, OneStatement
  <1>3. /\ StatementOK(c, tables, tableNames, indexes, nextIndexOid) /\ "stage" \in DOMAIN c
    BY OneStatement
  <1>4. \A u \in Sessions : u # s /\ session[u].stage = "build" =>
          session[u].oid \notin Refers(c)
    BY DEF VInv, Running
  <1> HIDE DEF c
  <1>5. DOMAIN d = DOMAIN c /\ d.stage = c.stage
    BY <1>3
  <1>6. CASE c.stage = "scan"
    <2>1. ScanOK(c, tables)
      BY <1>3, <1>6 DEF StatementOK
    <2>2. ScanFields \subseteq DOMAIN c
      BY <2>1 DEF ScanOK
    <2>3. /\ b.kind = c.kind /\ b.table = c.table /\ b.source = c.source
          /\ b.pred = c.pred /\ b.set = c.set /\ b.via = c.via
          /\ b.rids = c.rids /\ b.out = c.out /\ b.may = c.may
          /\ b.exact = c.exact /\ DOMAIN b = DOMAIN c
      BY <2>2 DEF ScanFields
    <2> HIDE DEF b
    <2>4. /\ d.kind = c.kind /\ d.table = c.table /\ d.source = c.source
          /\ d.pred = c.pred /\ d.set = c.set /\ d.via = c.via /\ d.pos = 0
          /\ d.rids = c.rids /\ d.out = c.out /\ d.must = {} /\ d.may = c.may
          /\ d.exact = c.exact
      BY <2>2, <2>3 DEF ScanFields
    <2> HIDE DEF d
    <2>5. tables[c.source].rows \in Seq(Slots)
      BY <2>1 DEF ScanOK, VInv, TablesTyped
    <2>6. c.exact => Course(tables[c.source].rows, c.pred, c.via, 0, c.rids, c.out, {}, c.may)
      BY <2>1, <2>5, CutCourse DEF ScanOK
    <2>7. ScanOK(d, tables)
      BY <1>5, <1>6, <2>1, <2>4, <2>6 DEF ScanOK
    <2>8. StatementOK(d, tables, tableNames, indexes, nextIndexOid)
          /\ d.stage \notin {"planned", "build"}
      BY <1>5, <1>6, <2>7, ScanIsFine
    <2>9. QED
      BY <1>1, <1>2, <2>8, PlainStep DEF c
  <1>7. CASE c.stage = "build"
    <2>1. FillOK(c, tables, indexes, nextIndexOid)
      BY <1>3, <1>7 DEF StatementOK
    <2>2. {"kind", "info", "oid", "pos", "source"} \subseteq DOMAIN c
      BY <2>1 DEF FillOK
    <2>3. /\ b.kind = c.kind /\ b.info = c.info /\ b.oid = c.oid
          /\ b.source = c.source /\ DOMAIN b = DOMAIN c
      BY <2>2
    <2> HIDE DEF b
    <2>4. d.kind = c.kind /\ d.info = c.info /\ d.oid = c.oid /\ d.pos = 0 /\ d.source = c.source
      BY <2>2, <2>3
    <2> HIDE DEF d
    <2>5. FillOK(d, tables, indexes, nextIndexOid)
      BY <1>5, <2>1, <2>4 DEF FillOK
    <2>6. StatementOK(d, tables, tableNames, indexes, nextIndexOid)
      BY <1>3, <1>5, <1>7, <2>5 DEF StatementOK
    <2>7. Refers(d) = Refers(c)
      BY <1>5, <1>7, <2>4 DEF Refers
    <2>8. d.stage = "build" => session[s].stage = "build" /\ d.oid = session[s].oid
      BY <1>7, <2>4 DEF c
    <2>9. \A u \in Sessions : u # s /\ session[u].stage = "build" =>
            session[u].oid \notin Refers(d)
      BY <1>4, <2>7
    <2>10. QED
      BY <1>1, <1>2, <2>6, <2>8, <2>9, StatementStep, ZenonT(60)
  <1>8. QED
    BY <1>1, <1>6, <1>7

LEMMA EntryInserted ==
  ASSUME NEW info, MapOK(info), NEW k, NEW rid \in Rids
  PROVE  MapOK(InsertEntry(info, k, rid))
  <1> DEFINE m == Put(info.map, k, Append(LookupInteger(info, k), rid))
  <1>1. LookupInteger(info, k) \in Seq(Rids)
    BY DEF MapOK, LookupInteger
  <1>2. Append(LookupInteger(info, k), rid) \in Seq(Rids)
    BY <1>1
  <1>3. \A x \in DOMAIN m : m[x] \in Seq(Rids)
    BY <1>2 DEF MapOK, Put
  <1> HIDE DEF m
  <1>4. "map" \in DOMAIN [info EXCEPT !.map = m] /\ [info EXCEPT !.map = m].map = m
    BY DEF MapOK
  <1>5. QED
    BY <1>3, <1>4 DEF MapOK, InsertEntry, m

LEMMA IndexFilled ==
  ASSUME VInv, NEW s \in Sessions, CreateIndexRow(s)
  PROVE  VInv'
  <1> DEFINE c == session[s]
             rows == tables[c.source].rows
             pos == FirstRow(rows, c.pos + 1)
             info == InsertEntry(c.info, rows[c.pos], c.pos)
             d == [c EXCEPT !.pos = pos, !.info = info]
  <1>1. DOMAIN session = Sessions
    BY OneStatement
  <1>2. session' = [session EXCEPT ![s] = d]
    BY <1>1 DEF CreateIndexRow
  <1>3. UNCHANGED catalogVars /\ c.stage = "build" /\ sent' = sent /\ c.pos # 0
    BY DEF CreateIndexRow, Unseen, Ready
  <1>4. sent' \in Nat \ {0}
    BY <1>3, OneStatement
  <1>5. StatementOK(c, tables, tableNames, indexes, nextIndexOid) /\ "stage" \in DOMAIN c
    BY OneStatement
  <1>6. \A u \in Sessions : u # s /\ session[u].stage = "build" =>
          session[u].oid \notin Refers(c)
    BY DEF VInv, Running
  <1> HIDE DEF c
  <1>7. FillOK(c, tables, indexes, nextIndexOid)
    BY <1>3, <1>5 DEF StatementOK
  <1>8. /\ {"kind", "info", "oid", "pos", "source"} \subseteq DOMAIN c
        /\ c.pos \in Rids /\ MapOK(c.info)
    BY <1>3, <1>7 DEF FillOK, Rids
  <1>9. MapOK(info)
    <2>1. PICK info0, k, p : info0 = c.info /\ k = rows[c.pos] /\ p = c.pos
      OBVIOUS
    <2>2. MapOK(InsertEntry(info0, k, p))
      BY <1>8, <2>1, EntryInserted
    <2>3. QED
      BY <2>1, <2>2
  <1>10. pos \in Nat
    <2>1. rows \in Seq(Slots)
      BY <1>7 DEF FillOK, VInv, TablesTyped
    <2>2. c.pos + 1 \in Rids
      BY <1>8 DEF Rids
    <2> HIDE DEF rows
    <2>3. QED
      BY <2>1, <2>2, FirstRowFacts
  <1> HIDE DEF info, pos
  <1>11. /\ DOMAIN d = DOMAIN c /\ d.stage = c.stage /\ d.kind = c.kind /\ d.oid = c.oid
         /\ d.source = c.source /\ d.info = info /\ d.pos = pos
    BY <1>5, <1>8
  <1> HIDE DEF d
  <1>12. FillOK(d, tables, indexes, nextIndexOid)
    BY <1>7, <1>9, <1>10, <1>11 DEF FillOK
  <1>13. StatementOK(d, tables, tableNames, indexes, nextIndexOid)
    BY <1>3, <1>5, <1>11, <1>12 DEF StatementOK
  <1>14. Refers(d) = Refers(c)
    BY <1>3, <1>11 DEF Refers
  <1>15. QED
    BY <1>2, <1>3, <1>4, <1>6, <1>11, <1>13, <1>14, StatementStep DEF c

LEMMA ScanStarts ==
  ASSUME VInv, NEW s \in Sessions, StartScan(s)
  PROVE  VInv'
  <1> DEFINE c == session[s]
             rows == tables[c.source].rows
             matching == Matching(tables, c.source, c.pred)
             pos == IF c.via = SeqScan THEN FirstRow(rows, 1) ELSE 0
             rids == IF c.via \in DOMAIN indexes
                     THEN LookupInteger(indexes[c.via], CHOOSE k \in c.pred : TRUE)
                     ELSE <<>>
             held == IF c.kind \in {"insert", "delete"}
                     THEN GetTableIndexes(tables[c.table].name) ELSE {}
             exact == c.via = SeqScan \/ (c.via \in DOMAIN indexes /\ Exact(indexes[c.via]))
             d == [stage |-> "scan", kind |-> c.kind, table |-> c.table, source |-> c.source,
                   pred |-> c.pred, set |-> c.set, via |-> c.via,
                   pos |-> pos, rids |-> rids, held |-> held,
                   out |-> <<>>, row |-> NoRow, count |-> 0,
                   before |-> tables, calm |-> TRUE, must |-> matching, may |-> matching,
                   exact |-> exact]
  <1>1. /\ session' = [session EXCEPT ![s] = d] /\ UNCHANGED catalogVars
        /\ c.stage = "planned" /\ c.kind \in ScanKinds /\ sent' = sent
    BY DEF StartScan, Unseen, Ready, ScanKinds
  <1>2. sent' \in Nat \ {0}
    BY <1>1, OneStatement
  <1>3. PlanOK(c, tables, tableNames, indexes, nextIndexOid)
    BY <1>1, OneStatement DEF StatementOK
  <1>4. /\ c.source \in 1 .. Len(tables) /\ c.table \in 1 .. Len(tables)
        /\ c.kind # "insert" => c.table = c.source
        /\ c.kind = "update" => c.set \in [Keys -> Keys]
        /\ c.pred \subseteq Keys
        /\ c.via # SeqScan =>
             /\ \E k \in Keys : c.pred = {k}
             /\ c.via \in DOMAIN indexes => tableNames[indexes[c.via].table] = c.source
    BY <1>1, <1>3 DEF PlanOK
  <1> HIDE DEF c
  <1>5. rows \in Seq(Slots)
    BY <1>4 DEF VInv, TablesTyped
  <1>6. matching = {i \in 1 .. Len(rows) : rows[i] \in c.pred}
    BY DEF Matching
  <1>7. pos \in Nat
    <2>1. 1 \in Rids
      BY DEF Rids
    <2> HIDE DEF rows
    <2>2. QED
      BY <1>5, <2>1, FirstRowFacts
  <1>8. rids \in Seq(Rids)
    <2>1. CASE c.via \in DOMAIN indexes
      <3>1. MapOK(indexes[c.via])
        BY <2>1 DEF VInv, IndexesTyped
      <3>2. QED
        BY <2>1, <3>1 DEF LookupInteger, MapOK
    <2>2. CASE c.via \notin DOMAIN indexes
      BY <2>2
    <2>3. QED
      BY <2>1, <2>2
  <1>9. exact => Course(rows, c.pred, c.via, pos, rids, <<>>, matching, matching)
    <2>1. CASE c.via = SeqScan
      <3>1. pos = FirstRow(rows, 1)
        BY <2>1
      <3> HIDE DEF rows, matching, pos, rids
      <3>2. QED
        BY <1>4, <1>5, <1>6, <2>1, <3>1, StartedTableCourse
    <2>2. CASE c.via # SeqScan
      <3>1. SUFFICES ASSUME c.via \in DOMAIN indexes, Exact(indexes[c.via])
                     PROVE  Course(rows, c.pred, c.via, pos, rids, <<>>, matching, matching)
        BY <2>2
      <3>2. PICK k \in Keys : c.pred = {k}
        BY <1>4, <2>2
      <3>3. (CHOOSE x \in c.pred : TRUE) = k
        BY <3>2
      <3>4. rids = LookupInteger(indexes[c.via], k)
        BY <3>1, <3>3
      <3>5. GetTable(indexes[c.via].table) = c.source
        BY <1>4, <2>2, <3>1 DEF GetTable
      <3>6. Range(rids) = matching /\ Len(rids) = Cardinality(Range(rids))
        BY <3>1, <3>2, <3>4, <3>5 DEF Exact
      <3>7. pos = 0
        BY <2>2
      <3> HIDE DEF rows, matching, pos, rids
      <3>8. QED
        BY <1>4, <1>5, <1>6, <1>8, <2>2, <3>6, <3>7, StartedIndexCourse
    <2>3. QED
      BY <2>1, <2>2
  <1> HIDE DEF matching, pos, rids, held, exact
  <1>10. ScanFields \subseteq DOMAIN d
    BY DEF ScanFields
  <1>11. /\ d.stage = "scan" /\ d.kind = c.kind /\ d.table = c.table /\ d.source = c.source
         /\ d.pred = c.pred /\ d.set = c.set /\ d.via = c.via /\ d.pos = pos /\ d.rids = rids
         /\ d.out = <<>> /\ d.must = matching /\ d.may = matching /\ d.exact = exact
    OBVIOUS
  <1>12. session' = [session EXCEPT ![s] = d]
    BY <1>1
  <1> HIDE DEF d
  <1>13. ScanOK(d, tables)
    BY <1>1, <1>4, <1>7, <1>8, <1>9, <1>10, <1>11 DEF ScanOK
  <1>14. StatementOK(d, tables, tableNames, indexes, nextIndexOid)
         /\ d.stage \notin {"planned", "build"}
    BY <1>11, <1>13, ScanIsFine
  <1>15. QED
    BY <1>1, <1>2, <1>12, <1>14, PlainStep

-----------------------------------------------------------------------------
(* Plans.                                                                  *)

LEMMA ScanPlanned ==
  ASSUME VInv, NEW s \in Sessions, NEW kind \in ScanKinds, NEW t, NEW source,
         NEW P \in Predicates, NEW set, kind = "update" => set \in [Keys -> Keys],
         PlanScan(s, kind, t, source, P, set)
  PROVE  VInv'
  <1>1. PICK via \in OptimizeSeqScanToIndexScan(GetTable(source), P) :
          session' = [session EXCEPT ![s] =
            [stage |-> "planned", kind |-> kind, table |-> GetTable(t),
             source |-> GetTable(source), pred |-> P, set |-> set, via |-> via]]
    BY DEF PlanScan
  <1>2. /\ UNCHANGED catalogVars /\ t \in DOMAIN tableNames /\ source \in DOMAIN tableNames
        /\ (kind # "insert" => t = source) /\ sent' = sent + 1
    BY DEF PlanScan, Unseen
  <1>3. sent' \in Nat \ {0}
    BY <1>2, OneStatement
  <1> DEFINE o == GetTable(source)
             d == [stage |-> "planned", kind |-> kind, table |-> GetTable(t),
                   source |-> o, pred |-> P, set |-> set, via |-> via]
  <1>4. /\ "stage" \in DOMAIN d /\ "kind" \in DOMAIN d /\ d.stage = "planned" /\ d.kind = kind
        /\ d.table = GetTable(t) /\ d.source = o /\ d.pred = P /\ d.set = set /\ d.via = via
    OBVIOUS
  <1>5. session' = [session EXCEPT ![s] = d]
    BY <1>1
  <1>6. /\ o \in 1 .. Len(tables) /\ GetTable(t) \in 1 .. Len(tables)
        /\ tables[o].name = source /\ tableNames[source] = o
    BY <1>2 DEF VInv, TablesAgree, GetTable
  <1>7. via # SeqScan =>
          /\ IsEquality(P) /\ via \in DOMAIN indexes
          /\ indexes[via].table = source
    <2>1. SUFFICES ASSUME via # SeqScan
                   PROVE  IsEquality(P) /\ via \in DOMAIN indexes /\ indexes[via].table = source
      OBVIOUS
    <2>2. IsEquality(P) /\ via \in GetTableIndexes(source)
      BY <1>1, <1>6, <2>1 DEF OptimizeSeqScanToIndexScan
    <2>3. PICK i : i \in DOMAIN indexNames[source] /\ via = indexNames[source][i]
                   /\ source \in DOMAIN indexNames
      BY <2>2 DEF GetTableIndexes, Range
    <2>4. HasIndex(i, source) /\ via = GetIndex(i, source)
      BY <2>3 DEF HasIndex, GetIndex
    <2>5. QED
      BY <2>2, <2>4 DEF VInv, IndexesTyped
  <1>8. P \subseteq Keys /\ (via # SeqScan => \E k \in Keys : P = {k})
    BY <1>7 DEF Predicates, IsEquality
  <1>9. via # SeqScan => via \in Nat /\ via < nextIndexOid
    BY <1>7 DEF VInv, IndexesTyped
  <1> HIDE DEF d, o
  <1>10. PlanOK(d, tables, tableNames, indexes, nextIndexOid)
    BY <1>2, <1>4, <1>6, <1>7, <1>8, <1>9 DEF PlanOK, ScanKinds, o
  <1>11. StatementOK(d, tables, tableNames, indexes, nextIndexOid)
    BY <1>4, <1>10 DEF StatementOK
  <1>12. Refers(d) = {via} \ {SeqScan}
    BY <1>4 DEF Refers
  <1>13. ASSUME NEW u \in Sessions, u # s, session[u].stage = "build"
         PROVE  session[u].oid \notin Refers(d)
    <2>1. session[u].oid \notin DOMAIN indexes
      BY <1>13, OneStatement DEF StatementOK, FillOK
    <2>2. QED
      BY <1>7, <1>12, <2>1
  <1>14. QED
    BY <1>2, <1>3, <1>4, <1>5, <1>11, <1>13, StatementStep

LEMMA UtilityPlanned ==
  ASSUME VInv, NEW s \in Sessions, NEW kind \in {"create", "drop"}, NEW stmt,
         kind = "create" => MapOK(stmt) /\ stmt.table \in DOMAIN tableNames,
         PlanUtility(s, kind, stmt)
  PROVE  VInv'
  <1> DEFINE d == [stage |-> "planned", kind |-> kind, stmt |-> stmt]
  <1>1. session' = [session EXCEPT ![s] = d] /\ UNCHANGED catalogVars /\ sent' = sent + 1
    BY DEF PlanUtility, Unseen
  <1>2. sent' \in Nat \ {0}
    BY <1>1, OneStatement
  <1>3. /\ "stage" \in DOMAIN d /\ "kind" \in DOMAIN d /\ d.stage = "planned" /\ d.kind = kind
        /\ d.stmt = stmt
    OBVIOUS
  <1> HIDE DEF d
  <1>4. PlanOK(d, tables, tableNames, indexes, nextIndexOid)
    BY <1>3 DEF PlanOK, ScanKinds
  <1>5. StatementOK(d, tables, tableNames, indexes, nextIndexOid)
    BY <1>3, <1>4 DEF StatementOK
  <1>6. Refers(d) = {}
    BY <1>3 DEF Refers, ScanKinds
  <1>7. QED
    BY <1>1, <1>2, <1>3, <1>5, <1>6, StatementStep

LEMMA CreatePlanned ==
  ASSUME VInv, NEW s \in Sessions, NEW i, NEW t, NEW point, PlanCreateIndex(s, i, t, point)
  PROVE  VInv'
  <1> DEFINE info == NewIndexInfo(i, t, point)
  <1>1. MapOK(info) /\ info.table = t
    BY DEF NewIndexInfo, MapOK
  <1>2. t \in DOMAIN tableNames /\ PlanUtility(s, "create", info)
    BY DEF PlanCreateIndex
  <1> HIDE DEF info
  <1>3. QED
    BY <1>1, <1>2, UtilityPlanned

LEMMA DropPlanned ==
  ASSUME VInv, NEW s \in Sessions, NEW names, NEW ok, PlanDropIndex(s, names, ok)
  PROVE  VInv'
  <1> DEFINE stmt == [names |-> names, missing_ok |-> ok]
  <1>1. PlanUtility(s, "drop", stmt)
    BY DEF PlanDropIndex
  <1> HIDE DEF stmt
  <1>2. QED
    BY <1>1, UtilityPlanned

LEMMA NothingDropped ==
  ASSUME VInv, NEW s \in Sessions, DropIndexMissing(s)
  PROVE  VInv'
  <1> DEFINE c == session[s]
             d == [c EXCEPT !.stmt.names = Tail(c.stmt.names)]
  <1>1. /\ session' = [session EXCEPT ![s] = d] /\ UNCHANGED catalogVars
        /\ c.stage = "planned" /\ c.kind = "drop" /\ sent' = sent
    BY DEF DropIndexMissing, Ready, Unseen
  <1>2. sent' \in Nat \ {0}
    BY <1>1, OneStatement
  <1>3. "stage" \in DOMAIN c /\ "kind" \in DOMAIN c
    BY <1>1, OneStatement DEF StatementOK, PlanOK
  <1> HIDE DEF c
  <1>4. "stage" \in DOMAIN d /\ "kind" \in DOMAIN d /\ d.stage = "planned" /\ d.kind = "drop"
    BY <1>1, <1>3
  <1> HIDE DEF d
  <1>5. StatementOK(d, tables, tableNames, indexes, nextIndexOid)
    BY <1>4 DEF StatementOK, PlanOK, ScanKinds
  <1>6. Refers(d) = {}
    BY <1>4 DEF Refers, ScanKinds
  <1>7. QED
    BY <1>1, <1>2, <1>4, <1>5, <1>6, StatementStep DEF c

-----------------------------------------------------------------------------
(* Steps that change the tables.                                           *)

\* What a statement c keeps when it is seen as e.
SeenAs(c, e, now, mine) ==
  /\ DOMAIN e = DOMAIN c /\ e.stage = c.stage
  /\ "kind" \in DOMAIN c => e.kind = c.kind
  /\ {"info", "oid", "pos", "source"} \subseteq DOMAIN c =>
       e.info = c.info /\ e.oid = c.oid /\ e.pos = c.pos /\ e.source = c.source
  /\ ScanFields \subseteq DOMAIN c =>
       /\ e.table = c.table /\ e.source = c.source /\ e.pred = c.pred /\ e.set = c.set
       /\ e.via = c.via /\ e.pos = c.pos /\ e.rids = c.rids /\ e.out = c.out
       /\ e.row = c.row /\ e.exact = c.exact /\ e.may = c.may \cup now
       /\ e.must = IF mine THEN c.must ELSE c.must \cap now

LEMMA SeenFields ==
  ASSUME NEW s, NEW tabs, NEW u \in Sessions, "stage" \in DOMAIN session[u],
         session[u].stage \notin {"idle", "planned"}
  PROVE  SeenAs(session[u], Seen(s, tabs)[u],
                Matching(tabs, session[u].source, session[u].pred), u = s)
  <1> DEFINE c == session[u]
             e == Seen(s, tabs)[u]
             now == Matching(tabs, c.source, c.pred)
             mine == [c EXCEPT !.may = @ \cup now]
             b == [c EXCEPT !.calm = FALSE, !.before = <<>>]
             other == [b EXCEPT !.must = @ \cap now, !.may = @ \cup now]
  <1>1. e = IF u = s THEN mine ELSE other
    BY DEF Seen, Disturbed
  <1>0. "stage" \in DOMAIN c
    OBVIOUS
  <1> HIDE DEF c, e, now
  <1>2. ASSUME u = s PROVE SeenAs(c, e, now, u = s)
    <2>1. e = mine
      BY <1>1, <1>2
    <2>2. DOMAIN mine = DOMAIN c /\ mine.stage = c.stage
      BY <1>0
    <2>3. "kind" \in DOMAIN c => mine.kind = c.kind
      OBVIOUS
    <2>4. {"info", "oid", "pos", "source"} \subseteq DOMAIN c =>
            mine.info = c.info /\ mine.oid = c.oid /\ mine.pos = c.pos /\ mine.source = c.source
      OBVIOUS
    <2>5. ScanFields \subseteq DOMAIN c =>
            /\ mine.table = c.table /\ mine.source = c.source /\ mine.pred = c.pred
            /\ mine.set = c.set /\ mine.via = c.via /\ mine.pos = c.pos /\ mine.rids = c.rids
            /\ mine.out = c.out /\ mine.row = c.row /\ mine.exact = c.exact
            /\ mine.may = c.may \cup now /\ mine.must = c.must
      BY DEF ScanFields
    <2> HIDE DEF mine
    <2>6. QED
      BY <1>2, <2>1, <2>2, <2>3, <2>4, <2>5 DEF SeenAs
  <1>3. ASSUME u # s PROVE SeenAs(c, e, now, u = s)
    <2>1. e = other
      BY <1>1, <1>3
    <2>2. DOMAIN b = DOMAIN c /\ b.stage = c.stage
      BY <1>0
    <2>3. "kind" \in DOMAIN c => b.kind = c.kind
      OBVIOUS
    <2>4. {"info", "oid", "pos", "source"} \subseteq DOMAIN c =>
            b.info = c.info /\ b.oid = c.oid /\ b.pos = c.pos /\ b.source = c.source
      OBVIOUS
    <2>5. ScanFields \subseteq DOMAIN c =>
            /\ b.table = c.table /\ b.source = c.source /\ b.pred = c.pred
            /\ b.set = c.set /\ b.via = c.via /\ b.pos = c.pos /\ b.rids = c.rids
            /\ b.out = c.out /\ b.row = c.row /\ b.exact = c.exact
            /\ b.may = c.may /\ b.must = c.must
      BY DEF ScanFields
    <2> HIDE DEF b
    <2>6. DOMAIN other = DOMAIN c /\ other.stage = c.stage
      BY <1>0, <2>2
    <2>7. "kind" \in DOMAIN c => other.kind = c.kind
      BY <2>2, <2>3
    <2>8. {"info", "oid", "pos", "source"} \subseteq DOMAIN c =>
            other.info = c.info /\ other.oid = c.oid /\ other.pos = c.pos /\ other.source = c.source
      BY <2>2, <2>4
    <2>9. ScanFields \subseteq DOMAIN c =>
            /\ other.table = c.table /\ other.source = c.source /\ other.pred = c.pred
            /\ other.set = c.set /\ other.via = c.via /\ other.pos = c.pos /\ other.rids = c.rids
            /\ other.out = c.out /\ other.row = c.row /\ other.exact = c.exact
            /\ other.may = c.may \cup now /\ other.must = c.must \cap now
      BY <2>2, <2>5 DEF ScanFields
    <2> HIDE DEF other
    <2>10. QED
      BY <1>3, <2>1, <2>6, <2>7, <2>8, <2>9 DEF SeenAs
  <1>4. SeenAs(c, e, now, u = s)
    BY <1>2, <1>3
  <1>5. QED
    BY <1>4 DEF c, e, now

\* Tables that have lost no slot.
Grown(tabs) ==
  /\ Len(tabs) = Len(tables)
  /\ \A o \in 1 .. Len(tables) :
       tabs[o].rows \in Seq(Slots) /\ Len(tables[o].rows) <= Len(tabs[o].rows)

\* A session's own step changes nothing that lies ahead of its scan.
KeepsAhead(c, tabs) ==
  c.exact =>
    \A i \in 1 .. Len(tables[c.source].rows) :
      Ahead(i, c.via, c.pos, c.rids) => tabs[c.source].rows[i] = tables[c.source].rows[i]

LEMMA SeenScan ==
  ASSUME VInv, NEW s \in Sessions, NEW tabs, Grown(tabs), NEW u \in Sessions,
         session[u].stage \in {"scan", "apply"}, u = s => KeepsAhead(session[u], tabs)
  PROVE  ScanOK(Seen(s, tabs)[u], tabs)
  <1> DEFINE c == session[u]
             e == Seen(s, tabs)[u]
             now == Matching(tabs, c.source, c.pred)
             old == tables[c.source].rows
             new == tabs[c.source].rows
  <1>1. ScanOK(c, tables) /\ "stage" \in DOMAIN c
    BY OneStatement DEF StatementOK
  <1>2. ScanFields \subseteq DOMAIN c /\ "kind" \in DOMAIN c
    BY <1>1 DEF ScanOK, ScanFields
  <1>3. /\ DOMAIN e = DOMAIN c /\ e.stage = c.stage /\ e.kind = c.kind
        /\ e.table = c.table /\ e.source = c.source /\ e.pred = c.pred /\ e.set = c.set
        /\ e.via = c.via /\ e.pos = c.pos /\ e.rids = c.rids /\ e.out = c.out
        /\ e.row = c.row /\ e.exact = c.exact /\ e.may = c.may \cup now
        /\ e.must = IF u = s THEN c.must ELSE c.must \cap now
    <2>1. SeenAs(c, e, now, u = s)
      BY <1>1, SeenFields
    <2> HIDE DEF c, now, e
    <2>2. QED
      BY <1>2, <2>1 DEF SeenAs
  <1>4. /\ c.source \in 1 .. Len(tables) /\ c.pos \in Nat /\ c.rids \in Seq(Rids)
        /\ c.out \in Seq(Rids)
    BY <1>1 DEF ScanOK
  <1>5. old \in Seq(Slots) /\ new \in Seq(Slots) /\ Len(old) <= Len(new)
    BY <1>4 DEF Grown, VInv, TablesTyped
  <1>6. now = {i \in 1 .. Len(new) : new[i] \in c.pred}
    BY DEF Matching
  <1>7. u = s /\ c.exact => \A i \in 1 .. Len(old) :
          Ahead(i, c.via, c.pos, c.rids) => new[i] = old[i]
    BY DEF KeepsAhead
  <1>8. c.exact => Course(old, c.pred, c.via, c.pos, c.rids, c.out, c.must, c.may)
    BY <1>1 DEF ScanOK
  <1>9. ScanOK(c, tables) /\ Len(tabs) = Len(tables)
    BY <1>1 DEF Grown
  <1> HIDE DEF c, e, now, old, new
  <1>10. c.exact => Course(new, c.pred, c.via, c.pos, c.rids, c.out, e.must, e.may)
    <2>1. SUFFICES ASSUME c.exact
                   PROVE  Course(new, c.pred, c.via, c.pos, c.rids, c.out, e.must, e.may)
      OBVIOUS
    <2>2. e.must \in SUBSET c.must /\ c.may \subseteq e.may
      BY <1>3
    <2>3. \A i \in e.must :
            Ahead(i, c.via, c.pos, c.rids) /\ i \in 1 .. Len(old) /\ old[i] \in c.pred
              => new[i] \in c.pred
      BY <1>3, <1>6, <1>7, <2>1
    <2>4. \A i \in 1 .. Len(new) : new[i] \in c.pred => i \in e.may
      BY <1>3, <1>6
    <2>5. QED
      BY <1>4, <1>5, <1>8, <2>1, <2>2, <2>3, <2>4, ChangedCourse
  <1>11. ScanOK(e, tabs)
    BY <1>2, <1>3, <1>9, <1>10 DEF ScanOK, new
  <1>12. QED
    BY <1>11 DEF e

LEMMA SeenStatement ==
  ASSUME VInv, NEW s \in Sessions, NEW tabs, Grown(tabs), NEW u \in Sessions,
         u = s /\ session[u].stage \in {"scan", "apply"} => KeepsAhead(session[u], tabs),
         NEW e, e = Seen(s, tabs)[u]
  PROVE  /\ StatementOK(e, tabs, tableNames, indexes, nextIndexOid)
         /\ e.stage = session[u].stage /\ Refers(e) = Refers(session[u])
         /\ session[u].stage = "build" => e.oid = session[u].oid
         /\ session[u].stage \in {"scan", "apply"} => ScanOK(e, tabs)
         /\ session[u].stage = "build" => "kind" \in DOMAIN e /\ e.kind = "create"
  <1> DEFINE c == session[u]
             now == Matching(tabs, c.source, c.pred)
  <1>1. StatementOK(c, tables, tableNames, indexes, nextIndexOid) /\ "stage" \in DOMAIN c
    BY OneStatement
  <1>2. Len(tabs) = Len(tables)
    BY DEF Grown
  <1>3. CASE c.stage \in {"idle", "planned"}
    <2>1. e = c
      BY <1>3 DEF Seen
    <2> HIDE DEF c
    <2>2. PlanOK(c, tables, tableNames, indexes, nextIndexOid) =>
            PlanOK(c, tabs, tableNames, indexes, nextIndexOid)
      BY <1>2 DEF PlanOK
    <2>3. StatementOK(c, tabs, tableNames, indexes, nextIndexOid)
      BY <1>1, <1>3, <2>2 DEF StatementOK
    <2>4. QED
      BY <1>3, <2>1, <2>3 DEF c
  <1>4. CASE c.stage \notin {"idle", "planned"}
    <2>1. SeenAs(c, e, now, u = s)
      BY <1>1, <1>4, SeenFields
    <2>2. c.stage \in {"scan", "apply"} => ScanOK(e, tabs)
      BY SeenScan
    <2> HIDE DEF c, now
    <2>3. /\ DOMAIN e = DOMAIN c /\ e.stage = c.stage
          /\ "kind" \in DOMAIN c => e.kind = c.kind
          /\ {"info", "oid", "pos", "source"} \subseteq DOMAIN c =>
               e.info = c.info /\ e.oid = c.oid /\ e.pos = c.pos /\ e.source = c.source
          /\ ScanFields \subseteq DOMAIN c =>
               /\ e.out = c.out /\ e.exact = c.exact /\ e.may = c.may \cup now
               /\ e.must = IF u = s THEN c.must ELSE c.must \cap now
      BY <2>1 DEF SeenAs
    <2>4. c.stage = "build" => /\ FillOK(e, tabs, indexes, nextIndexOid) /\ e.oid = c.oid
                               /\ "kind" \in DOMAIN e /\ e.kind = "create"
      <3>1. SUFFICES ASSUME c.stage = "build"
                     PROVE  /\ FillOK(e, tabs, indexes, nextIndexOid) /\ e.oid = c.oid
                            /\ "kind" \in DOMAIN e /\ e.kind = "create"
        OBVIOUS
      <3>2. FillOK(c, tables, indexes, nextIndexOid)
        BY <1>1, <3>1 DEF StatementOK
      <3>3. /\ {"info", "oid", "pos", "source"} \subseteq DOMAIN c /\ "kind" \in DOMAIN c
            /\ c.kind = "create"
        BY <3>2 DEF FillOK
      <3>4. /\ e.kind = c.kind /\ e.info = c.info /\ e.oid = c.oid
            /\ e.pos = c.pos /\ e.source = c.source
        BY <2>3, <3>3
      <3>5. QED
        BY <1>2, <2>3, <3>2, <3>3, <3>4 DEF FillOK
    <2>5. c.stage = "done" => EndOK(e)
      <3>1. SUFFICES ASSUME c.stage = "done" PROVE EndOK(e)
        OBVIOUS
      <3>2. EndOK(c)
        BY <1>1, <3>1 DEF StatementOK
      <3>3. "kind" \in DOMAIN e /\ e.kind = c.kind
        BY <2>3, <3>2 DEF EndOK
      <3>4. CASE c.kind = "create"
        BY <3>3, <3>4 DEF EndOK
      <3>5. CASE c.kind # "create"
        <4>1. /\ ScanFields \subseteq DOMAIN c /\ c.out \in Seq(Rids)
              /\ c.exact => Complete(c.out, c.must, c.may)
          BY <3>2, <3>5 DEF EndOK
        <4>2. /\ e.out = c.out /\ e.exact = c.exact /\ c.may \subseteq e.may
              /\ e.must \subseteq c.must
          BY <2>3, <4>1
        <4>3. c.exact => Complete(e.out, e.must, e.may)
          BY <4>1, <4>2 DEF Complete
        <4>4. QED
          BY <2>3, <3>3, <4>1, <4>2, <4>3 DEF EndOK
      <3>6. QED
        BY <3>4, <3>5
    <2>6. StatementOK(e, tabs, tableNames, indexes, nextIndexOid)
      BY <1>1, <1>4, <2>2, <2>3, <2>4, <2>5 DEF StatementOK
    <2>7. Refers(e) = Refers(c)
      BY <1>4, <2>3, <2>4 DEF Refers
    <2>8. QED
      BY <1>4, <2>2, <2>3, <2>4, <2>6, <2>7 DEF c
  <1>5. QED
    BY <1>3, <1>4

\* The oids under construction stay apart when one session is left without any.
LEMMA OidsApart ==
  ASSUME VInv, NEW s \in Sessions, session'[s].stage # "build", Refers(session'[s]) = {},
         \A u \in Sessions : u # s =>
           /\ session'[u].stage = session[u].stage /\ Refers(session'[u]) = Refers(session[u])
           /\ session[u].stage = "build" => session'[u].oid = session[u].oid
  PROVE  \A u, v \in Sessions :
           u # v /\ session'[u].stage = "build" => session'[u].oid \notin Refers(session'[v])
  <1>1. ASSUME NEW u \in Sessions, NEW v \in Sessions, u # v, session'[u].stage = "build"
        PROVE  session'[u].oid \notin Refers(session'[v])
    <2>1. u # s
      BY <1>1
    <2>2. session[u].stage = "build" /\ session'[u].oid = session[u].oid
      BY <1>1, <2>1
    <2>3. CASE v = s
      BY <2>3
    <2>4. CASE v # s
      BY <1>1, <2>2, <2>4 DEF VInv, Running
    <2>5. QED
      BY <2>3, <2>4
  <1>2. QED
    BY <1>1

LEMMA RunningLater ==
  ASSUME DOMAIN session' = Sessions, session' = [u \in Sessions |-> session'[u]],
         \A u \in Sessions :
           StatementOK(session'[u], tables', tableNames', indexes', nextIndexOid'),
         \A u, v \in Sessions :
           u # v /\ session'[u].stage = "build" => session'[u].oid \notin Refers(session'[v]),
         sent' \in Nat \ {0}
  PROVE  Running'
  BY DEF Running

LEMMA RowsChanged ==
  ASSUME VInv, NEW s \in Sessions, session[s].stage = "apply",
         NEW o \in 1 .. Len(tables), NEW rows \in Seq(Slots),
         Len(tables[o].rows) <= Len(rows),
         o = session[s].source /\ session[s].exact =>
           \A i \in 1 .. Len(tables[o].rows) :
             Ahead(i, session[s].via, session[s].pos, session[s].rids) =>
               rows[i] = tables[o].rows[i],
         NEW count, NEW stage \in {"scan", "crashed"}, ChangeRows(s, o, rows, count, stage)
  PROVE  VInv'
  <1> DEFINE tabs == [tables EXCEPT ![o].rows = rows]
             seen == Seen(s, tabs)
             c == seen[s]
  <1>1. /\ tables' = tabs /\ tableNames' = tableNames /\ indexes' = indexes
        /\ indexNames' = indexNames /\ nextIndexOid' = nextIndexOid /\ sent' = sent
        /\ session' = [seen EXCEPT ![s].stage = stage, ![s].row = NoRow,
                                     ![s].count = @ + count]
    BY DEF ChangeRows
  <1>2. sent' \in Nat \ {0}
    BY <1>1, OneStatement
  <1>3. TablesAgree'
    BY <1>1, RowsStep DEF VInv
  <1>4. IndexesTyped'
    BY <1>1 DEF VInv, IndexesTyped, HasIndex, GetIndex
  <1>5. /\ Len(tabs) = Len(tables)
        /\ \A i \in 1 .. Len(tables) :
             "rows" \in DOMAIN tabs[i] /\ tabs[i].rows = IF i = o THEN rows ELSE tables[i].rows
    <2> DEFINE w == [tables[o] EXCEPT !.rows = rows]
    <2>1. PICK S : tables \in Seq(S)
      BY DEF VInv, TablesAgree
    <2>2. tabs = [tables EXCEPT ![o] = w]
      OBVIOUS
    <2>3. "rows" \in DOMAIN w /\ w.rows = rows
      BY DEF VInv, TablesTyped
    <2> HIDE DEF w, tabs
    <2>4. /\ Len(tabs) = Len(tables)
          /\ \A i \in 1 .. Len(tables) : tabs[i] = IF i = o THEN w ELSE tables[i]
      BY <2>1, <2>2
    <2>5. QED
      BY <2>3, <2>4 DEF VInv, TablesTyped
  <1> HIDE DEF tabs
  <1>6. TablesTyped'
    BY <1>1, <1>5 DEF VInv, TablesTyped
  <1>7. Grown(tabs)
    <2>1. \A i \in 1 .. Len(tables) : Len(tables[i].rows) \in Nat
      BY DEF VInv, TablesTyped
    <2>2. \A n \in Nat : n <= n
      OBVIOUS
    <2>3. QED
      BY <1>5, <2>1, <2>2 DEF Grown, VInv, TablesTyped
  <1>8. KeepsAhead(session[s], tabs)
    <2>1. ScanOK(session[s], tables)
      BY OneStatement DEF StatementOK
    <2>2. session[s].source \in 1 .. Len(tables)
      BY <2>1 DEF ScanOK
    <2>3. QED
      BY <1>5, <2>2 DEF KeepsAhead
  <1>9. ASSUME NEW u \in Sessions
        PROVE  /\ StatementOK(seen[u], tabs, tableNames, indexes, nextIndexOid)
               /\ seen[u].stage = session[u].stage /\ Refers(seen[u]) = Refers(session[u])
               /\ session[u].stage = "build" => seen[u].oid = session[u].oid
    BY <1>7, <1>8, SeenStatement
  <1>10. ScanOK(c, tabs)
    BY <1>7, <1>8, SeenStatement
  <1>11. DOMAIN seen = Sessions
    BY DEF Seen
  <1> HIDE DEF seen, c
  <1>12. ScanFields \subseteq DOMAIN c
    BY <1>10 DEF ScanOK
  <1> PICK d : d = session'[s]
    OBVIOUS
  <1>13. /\ DOMAIN d = DOMAIN c /\ d.stage = stage
         /\ d.kind = c.kind /\ d.table = c.table /\ d.source = c.source
         /\ d.pred = c.pred /\ d.set = c.set /\ d.via = c.via /\ d.pos = c.pos
         /\ d.rids = c.rids /\ d.out = c.out /\ d.must = c.must /\ d.may = c.may
         /\ d.exact = c.exact
    BY <1>1, <1>11, <1>12 DEF ScanFields, c
  <1>14. ScanOK(d, tabs) /\ "stage" \in DOMAIN d
    BY <1>10, <1>12, <1>13 DEF ScanOK, ScanFields
  <1>15. StatementOK(d, tabs, tableNames, indexes, nextIndexOid)
    BY <1>13, <1>14 DEF StatementOK
  <1>16. Refers(d) = {}
    BY <1>13 DEF Refers
  <1>17. \A u \in Sessions : session'[u] = IF u = s THEN d ELSE seen[u]
    BY <1>1, <1>11
  <1>18. DOMAIN session' = Sessions /\ session' = [u \in Sessions |-> session'[u]]
    BY <1>1, <1>11
  <1>19. \A u \in Sessions :
           StatementOK(session'[u], tables', tableNames', indexes', nextIndexOid')
    <2>1. \A u \in Sessions :
            StatementOK(session'[u], tabs, tableNames, indexes, nextIndexOid)
      BY <1>9, <1>15, <1>17
    <2>2. QED
      BY <1>1, <2>1
  <1>20. \A u, v \in Sessions :
           u # v /\ session'[u].stage = "build" => session'[u].oid \notin Refers(session'[v])
    BY <1>9, <1>13, <1>16, <1>17, OidsApart
  <1>21. Running'
    BY <1>2, <1>18, <1>19, <1>20, RunningLater
  <1>22. QED
    BY <1>3, <1>4, <1>6, <1>21 DEF VInv

LEMMA RowApplied ==
  ASSUME VInv, NEW s \in Sessions, ApplyInsert(s) \/ ApplyUpdate(s) \/ ApplyDelete(s)
  PROVE  VInv'
  <1> DEFINE c == session[s]
             o == c.table
             old == tables[o].rows
             n == c.out[Len(c.out)]
             stage == IF c.held \subseteq DOMAIN indexes THEN "scan" ELSE "crashed"
  <1>1. c.stage = "apply"
    BY DEF ApplyInsert, ApplyUpdate, ApplyDelete, Ready
  <1>2. ScanOK(c, tables)
    BY <1>1, OneStatement DEF StatementOK
  <1>3. /\ o \in 1 .. Len(tables) /\ c.row \in Keys /\ c.out # <<>> /\ c.out \in Seq(Rids)
        /\ c.kind # "insert" => o = c.source
        /\ c.kind = "update" => c.set \in [Keys -> Keys]
    BY <1>1, <1>2 DEF ScanOK
  <1>4. old \in Seq(Slots)
    BY <1>3 DEF VInv, TablesTyped
  <1>5. stage \in {"scan", "crashed"}
    OBVIOUS
  <1>6. Len(old) \in Nat /\ Len(old) <= Len(old)
    BY <1>4
  <1>7. ASSUME ApplyInsert(s) PROVE VInv'
    <2> DEFINE rows == Append(old, c.row)
    <2>1. ChangeRows(s, o, rows, 1, stage)
      BY <1>7 DEF ApplyInsert
    <2>2. c.row \in Slots
      BY <1>3 DEF Slots
    <2>3. /\ rows \in Seq(Slots) /\ Len(old) <= Len(rows)
          /\ \A i \in 1 .. Len(old) : rows[i] = old[i]
      <3> HIDE DEF old, c
      <3>1. QED
        BY <1>4, <2>2
    <2> HIDE DEF rows, stage
    <2>4. QED
      BY <1>1, <1>3, <1>5, <2>1, <2>3, RowsChanged
  <1>8. ASSUME NEW v \in Slots, NEW x \in {"scan", "crashed"}, c.kind # "insert",
               ChangeRows(s, o, [old EXCEPT ![n] = v], 1, x)
        PROVE  VInv'
    <2> DEFINE rows == [old EXCEPT ![n] = v]
    <2>1. ChangeRows(s, o, rows, 1, x)
      BY <1>8
    <2>2. /\ rows \in Seq(Slots) /\ Len(old) <= Len(rows)
          /\ \A i \in 1 .. Len(old) : i # n => rows[i] = old[i]
      <3>1. rows = [old EXCEPT ![n] = v]
        OBVIOUS
      <3> HIDE DEF old, n, rows
      <3>2. rows \in Seq(Slots) /\ Len(rows) = Len(old)
            /\ \A i \in 1 .. Len(old) : i # n => rows[i] = old[i]
        <4>1. CASE n \in 1 .. Len(old)
          BY <1>4, <3>1, <4>1
        <4>2. CASE n \notin 1 .. Len(old)
          <5>1. DOMAIN old = 1 .. Len(old) /\ old = [i \in 1 .. Len(old) |-> old[i]]
            BY <1>4
          <5>2. rows = old
            BY <3>1, <4>2, <5>1
          <5>3. QED
            BY <1>4, <5>2
        <4>3. QED
          BY <4>1, <4>2
      <3>3. QED
        BY <1>6, <3>2
    <2>3. Len(c.out) \in 1 .. Len(c.out)
      BY <1>3
    <2>4. c.exact => ~Ahead(n, c.via, c.pos, c.rids)
      BY <1>2, <2>3 DEF ScanOK, Course
    <2>5. c.exact => \A i \in 1 .. Len(old) :
            Ahead(i, c.via, c.pos, c.rids) => rows[i] = old[i]
      BY <2>2, <2>4
    <2> HIDE DEF rows
    <2>6. QED
      BY <1>1, <1>3, <1>8, <2>1, <2>2, <2>5, RowsChanged
  <1>9. ASSUME ApplyUpdate(s) PROVE VInv'
    <2>1. c.kind = "update" /\ ChangeRows(s, o, [old EXCEPT ![n] = c.set[c.row]], 1, "scan")
      BY <1>9 DEF ApplyUpdate
    <2>2. c.set[c.row] \in Slots
      BY <1>3, <2>1 DEF Slots
    <2>3. PICK v \in Slots : v = c.set[c.row]
      BY <2>2
    <2>4. ChangeRows(s, o, [old EXCEPT ![n] = v], 1, "scan") /\ c.kind # "insert"
      BY <2>1, <2>3
    <2> HIDE DEF c, o, old, n
    <2>5. QED
      BY <1>8, <2>4
  <1>10. ASSUME ApplyDelete(s) PROVE VInv'
    <2>1. c.kind = "delete" /\ ChangeRows(s, o, [old EXCEPT ![n] = NoRow], 1, stage)
      BY <1>10 DEF ApplyDelete
    <2>2. PICK v \in Slots : v = NoRow
      BY DEF Slots
    <2>3. ChangeRows(s, o, [old EXCEPT ![n] = v], 1, stage) /\ c.kind # "insert"
      BY <2>1, <2>2
    <2> HIDE DEF c, o, old, n, stage
    <2>4. QED
      BY <1>5, <1>8, <2>3
  <1>11. QED
    BY <1>7, <1>9, <1>10

\* Tables are filled while no statement runs.
LEMMA StillIdle ==
  ASSUME VInv, sent = 0, session' = session, sent' = sent
  PROVE  Running'
  <1>1. /\ DOMAIN session = Sessions /\ session = [s \in Sessions |-> session[s]]
        /\ \A s \in Sessions : session[s].stage = "idle" /\ "stage" \in DOMAIN session[s]
    BY DEF VInv, Running, StatementOK
  <1>2. \A s \in Sessions : StatementOK(session[s], tables', tableNames', indexes', nextIndexOid')
    BY <1>1 DEF StatementOK
  <1>3. sent' = 0 /\ sent' \in Nat
    OBVIOUS
  <1>4. QED
    BY <1>1, <1>2, <1>3 DEF Running

LEMMA TableAdded ==
  ASSUME VInv, NEW t, LoadTable(t)
  PROVE  VInv'
  <1> DEFINE e == [name |-> t, rows |-> <<>>]
  <1>1. /\ CreateTable(t) /\ tables' = Append(tables, e) /\ sent = 0
        /\ indexes' = indexes /\ indexNames' = indexNames
        /\ nextIndexOid' = nextIndexOid /\ session' = session /\ sent' = sent
    BY DEF LoadTable, CreateTable
  <1>2. TablesAgree'
    BY <1>1, NewTable DEF VInv
  <1>3. "rows" \in DOMAIN e /\ e.rows \in Seq(Slots)
    OBVIOUS
  <1> HIDE DEF e
  <1>4. PICK S : tables \in Seq(S)
    BY DEF VInv, TablesAgree
  <1>5. \A o \in 1 .. Len(tables') :
          (o \in 1 .. Len(tables) /\ tables'[o] = tables[o]) \/ tables'[o] = e
    <2> DEFINE T == S \cup {e}
    <2>1. tables \in Seq(T) /\ e \in T
      BY <1>4
    <2> HIDE DEF T
    <2>2. QED
      BY <1>1, <2>1
  <1>6. TablesTyped'
    BY <1>3, <1>5 DEF VInv, TablesTyped
  <1>7. IndexesTyped'
    BY <1>1 DEF VInv, IndexesTyped, HasIndex, GetIndex
  <1>8. Running'
    BY <1>1, StillIdle
  <1>9. QED
    BY <1>2, <1>6, <1>7, <1>8 DEF VInv

LEMMA RowAdded ==
  ASSUME VInv, NEW t, NEW k \in Keys, LoadRow(t, k)
  PROVE  VInv'
  <1> DEFINE o == GetTable(t)
             rows == Append(tables[o].rows, k)
             w == [tables[o] EXCEPT !.rows = rows]
  <1>1. /\ tables' = [tables EXCEPT ![o].rows = rows] /\ sent = 0 /\ t \in DOMAIN tableNames
        /\ tableNames' = tableNames /\ indexes' = indexes /\ indexNames' = indexNames
        /\ nextIndexOid' = nextIndexOid /\ session' = session /\ sent' = sent
    BY DEF LoadRow
  <1>2. TablesAgree'
    BY <1>1, RowsStep DEF VInv
  <1>3. o \in 1 .. Len(tables)
    BY <1>1 DEF VInv, TablesAgree, GetTable
  <1>4. rows \in Seq(Slots)
    <2>1. k \in Slots /\ tables[o].rows \in Seq(Slots)
      BY <1>3 DEF Slots, VInv, TablesTyped
    <2>2. QED
      BY <2>1
  <1>5. tables' = [tables EXCEPT ![o] = w]
    BY <1>1
  <1> HIDE DEF rows
  <1>6. "rows" \in DOMAIN w /\ w.rows = rows
    BY <1>3 DEF VInv, TablesTyped
  <1> HIDE DEF w, o
  <1>7. PICK S : tables \in Seq(S)
    BY DEF VInv, TablesAgree
  <1>8. /\ Len(tables') = Len(tables)
        /\ \A i \in 1 .. Len(tables) : tables'[i] = tables[i] \/ tables'[i] = w
    BY <1>3, <1>5, <1>7
  <1>9. TablesTyped'
    BY <1>4, <1>6, <1>8 DEF VInv, TablesTyped
  <1>10. IndexesTyped'
    BY <1>1 DEF VInv, IndexesTyped, HasIndex, GetIndex
  <1>11. Running'
    BY <1>1, StillIdle
  <1>12. QED
    BY <1>2, <1>9, <1>10, <1>11 DEF VInv

-----------------------------------------------------------------------------
(* Steps that change the indexes.                                          *)

\* A statement is not touched by a change of indexes that it does not refer to.
LEMMA IndexesChange ==
  ASSUME NEW c, NEW tabs, NEW names, NEW idx, NEW next \in Nat,
         StatementOK(c, tabs, names, idx, next), NEW idx2, NEW next2 \in Nat, next <= next2,
         \A o \in Refers(c) : o \in DOMAIN idx2 => o \in DOMAIN idx /\ idx2[o] = idx[o]
  PROVE  StatementOK(c, tabs, names, idx2, next2)
  <1>1. \A x \in Nat : x < next => x < next2
    OBVIOUS
  <1>2. ASSUME c.stage = "planned" PROVE PlanOK(c, tabs, names, idx2, next2)
    <2>1. PlanOK(c, tabs, names, idx, next)
      BY <1>2 DEF StatementOK
    <2>2. c.kind \in ScanKinds => Refers(c) = {c.via} \ {SeqScan}
      BY <1>2 DEF Refers
    <2>3. c.kind \in ScanKinds /\ c.via # SeqScan /\ c.via \in DOMAIN idx2 =>
            c.via \in DOMAIN idx /\ idx2[c.via] = idx[c.via]
      BY <2>2
    <2>4. QED
      BY <1>1, <2>1, <2>3 DEF PlanOK
  <1>3. ASSUME c.stage = "build" PROVE FillOK(c, tabs, idx2, next2)
    <2>1. FillOK(c, tabs, idx, next)
      BY <1>3 DEF StatementOK
    <2>2. c.oid \in Refers(c)
      BY <1>3 DEF Refers
    <2>3. QED
      BY <1>1, <2>1, <2>2 DEF FillOK
  <1>4. QED
    BY <1>2, <1>3 DEF StatementOK

LEMMA RefersBelow ==
  ASSUME NEW c, NEW tabs, NEW names, NEW idx, NEW next, StatementOK(c, tabs, names, idx, next)
  PROVE  \A o \in Refers(c) : o \in Nat /\ o < next
  <1>1. CASE c.stage = "build"
    <2>1. FillOK(c, tabs, idx, next)
      BY <1>1 DEF StatementOK
    <2>2. QED
      BY <1>1, <2>1 DEF FillOK, Refers
  <1>2. CASE c.stage = "planned"
    <2>1. PlanOK(c, tabs, names, idx, next)
      BY <1>2 DEF StatementOK
    <2>2. QED
      BY <1>2, <2>1 DEF PlanOK, Refers
  <1>3. CASE c.stage \notin {"build", "planned"}
    BY <1>3 DEF Refers
  <1>4. QED
    BY <1>1, <1>2, <1>3

LEMMA IndexBegun ==
  ASSUME VInv, NEW s \in Sessions, CreateIndexBegin(s)
  PROVE  VInv'
  <1> DEFINE c == session[s]
             info == c.stmt
             o == GetTable(info.table)
             n == nextIndexOid
             pos == IF info.point THEN FirstRow(tables[o].rows, 1) ELSE 0
             d == [stage |-> "build", kind |-> "create", info |-> info, oid |-> n,
                   source |-> o, pred |-> {}, must |-> {}, may |-> {}, exact |-> TRUE,
                   pos |-> pos, before |-> tables, calm |-> TRUE]
  <1>1. /\ c.stage = "planned" /\ c.kind = "create"
        /\ nextIndexOid' = n + 1 /\ session' = [session EXCEPT ![s] = d]
        /\ tables' = tables /\ tableNames' = tableNames /\ indexes' = indexes
        /\ indexNames' = indexNames /\ sent' = sent
    BY DEF CreateIndexBegin, Ready
  <1>2. sent' \in Nat \ {0} /\ DOMAIN session = Sessions
    BY <1>1, OneStatement
  <1>3. PlanOK(c, tables, tableNames, indexes, nextIndexOid)
    BY <1>1, OneStatement DEF StatementOK
  <1>4. MapOK(info) /\ info.table \in DOMAIN tableNames
    BY <1>1, <1>3 DEF PlanOK
  <1>5. o \in 1 .. Len(tables)
    BY <1>4 DEF VInv, TablesAgree, GetTable
  <1>6. pos \in Nat
    <2>1. tables[o].rows \in Seq(Slots)
      BY <1>5 DEF VInv, TablesTyped
    <2>2. 1 \in Rids
      BY DEF Rids
    <2> HIDE DEF o, info
    <2>3. QED
      BY <2>1, <2>2, FirstRowFacts
  <1>7. n \in Nat /\ \A x \in DOMAIN indexes : x \in Nat /\ x < n
    BY DEF VInv, IndexesTyped
  <1>8. TablesAgree' /\ TablesTyped'
    BY <1>1 DEF VInv, TablesAgree, TablesTyped
  <1>9. \A u \in Sessions : StatementOK(session[u], tables, tableNames, indexes, n)
    BY OneStatement
  <1>10. \A u \in Sessions : \A x \in Refers(session[u]) : x \in Nat /\ x < n
    BY <1>9, RefersBelow
  <1>11. \A u, v \in Sessions : u # v /\ session[u].stage = "build" =>
           session[u].oid \notin Refers(session[v])
    BY DEF VInv, Running
  <1>12. /\ nextIndexOid \in Nat
         /\ \A x \in DOMAIN indexes : MapOK(indexes[x])
         /\ \A i, t : HasIndex(i, t) => /\ GetIndex(i, t) \in DOMAIN indexes
                                        /\ indexes[GetIndex(i, t)].name = i
                                        /\ indexes[GetIndex(i, t)].table = t
    BY DEF VInv, IndexesTyped
  <1> HIDE DEF pos, info, c, n, o
  <1>13. /\ "stage" \in DOMAIN d /\ d.stage = "build"
         /\ {"kind", "info", "oid", "pos", "source"} \subseteq DOMAIN d /\ d.kind = "create"
         /\ d.info = info /\ d.oid = n /\ d.pos = pos /\ d.source = o
    OBVIOUS
  <1> HIDE DEF d
  <1>14. /\ n \notin DOMAIN indexes /\ n < n + 1 /\ n + 1 \in Nat /\ n <= n + 1
         /\ \A x \in Nat : x < n => x < n + 1 /\ x # n
    BY <1>7
  <1>15. IndexesTyped'
    BY <1>1, <1>7, <1>12, <1>14 DEF IndexesTyped, HasIndex, GetIndex
  <1>16. FillOK(d, tables, indexes, n + 1)
    BY <1>4, <1>5, <1>6, <1>7, <1>13, <1>14 DEF FillOK
  <1>17. StatementOK(d, tables, tableNames, indexes, n + 1)
    BY <1>13, <1>16 DEF StatementOK
  <1>18. \A u \in Sessions : StatementOK(session[u], tables, tableNames, indexes, n + 1)
    BY <1>7, <1>9, <1>14, IndexesChange
  <1>19. \A u \in Sessions : session'[u] = IF u = s THEN d ELSE session[u]
    BY <1>1, <1>2
  <1>20. DOMAIN session' = Sessions /\ session' = [u \in Sessions |-> session'[u]]
    BY <1>1, <1>2
  <1>21. \A u \in Sessions :
           StatementOK(session'[u], tables', tableNames', indexes', nextIndexOid')
    BY <1>1, <1>17, <1>18, <1>19
  <1>22. Refers(d) = {n}
    BY <1>13 DEF Refers
  <1>23. ASSUME NEW u \in Sessions, NEW v \in Sessions, u # v, session'[u].stage = "build"
         PROVE  session'[u].oid \notin Refers(session'[v])
    <2>1. CASE u = s
      <3>1. session'[u].oid = n /\ session'[v] = session[v]
        BY <1>13, <1>19, <1>23, <2>1
      <3>2. QED
        BY <1>10, <1>14, <3>1
    <2>2. CASE v = s
      <3>1. session'[u] = session[u] /\ session'[v] = d
        BY <1>19, <1>23, <2>2
      <3>2. session[u].oid \in Refers(session[u])
        BY <1>23, <3>1 DEF Refers
      <3>3. QED
        BY <1>10, <1>14, <1>22, <3>1, <3>2
    <2>3. CASE u # s /\ v # s
      BY <1>11, <1>19, <1>23, <2>3
    <2>4. QED
      BY <2>1, <2>2, <2>3
  <1>24. Running'
    BY <1>2, <1>20, <1>21, <1>23, RunningLater
  <1>25. QED
    BY <1>8, <1>15, <1>24 DEF VInv

LEMMA SameTables == VInv => Grown(tables)
  <1> SUFFICES ASSUME VInv PROVE Grown(tables)
    OBVIOUS
  <1>1. \A o \in 1 .. Len(tables) :
          tables[o].rows \in Seq(Slots) /\ Len(tables[o].rows) \in Nat
    BY DEF VInv, TablesTyped
  <1>2. \A n \in Nat : n <= n
    OBVIOUS
  <1>3. QED
    BY <1>1, <1>2 DEF Grown

LEMMA IndexEntered ==
  ASSUME VInv, NEW s \in Sessions, CreateIndexRegister(s)
  PROVE  VInv'
  <1> DEFINE seen == Seen(s, tables)
  <1>0. PICK info, oid : info = session[s].info /\ oid = session[s].oid
    OBVIOUS
  <1>1. /\ session[s].stage = "build" /\ RegisterIndex(oid, info) /\ sent' = sent
        /\ session' = [seen EXCEPT ![s].stage = "done"]
    BY <1>0 DEF CreateIndexRegister, Ready
  <1>2. tables' = tables /\ tableNames' = tableNames /\ nextIndexOid' = nextIndexOid
    BY <1>1 DEF RegisterIndex
  <1>3. sent' \in Nat \ {0}
    BY <1>1, OneStatement
  <1>4. FillOK(session[s], tables, indexes, nextIndexOid)
    BY <1>1, OneStatement DEF StatementOK
  <1>5. MapOK(info) /\ oid \in Nat /\ oid < nextIndexOid /\ oid \notin DOMAIN indexes
    BY <1>0, <1>4 DEF FillOK
  <1>6. /\ DOMAIN indexes' = DOMAIN indexes \cup {oid}
        /\ indexes'[oid] = info
        /\ \A x \in DOMAIN indexes : x # oid => indexes'[x] = indexes[x]
        /\ \A t : t \in DOMAIN indexNames' <=> t \in DOMAIN indexNames \/ t = info.table
        /\ \A i, t : HasIndex(i, t)' <=> HasIndex(i, t) \/ (i = info.name /\ t = info.table)
        /\ \A i, t : i = info.name /\ t = info.table => GetIndex(i, t)' = oid
        /\ \A i, t : HasIndex(i, t) /\ ~(i = info.name /\ t = info.table) =>
             GetIndex(i, t)' = GetIndex(i, t)
    <2>1. RegisterIndex(oid, info)
      BY <1>1
    <2>2. QED
      BY <2>1, RegisterNames
  <1>7. TablesAgree' /\ TablesTyped'
    BY <1>2 DEF VInv, TablesAgree, TablesTyped
  <1>8. /\ nextIndexOid \in Nat
        /\ \A x \in DOMAIN indexes : x \in Nat /\ x < nextIndexOid /\ MapOK(indexes[x])
        /\ \A i, t : HasIndex(i, t) => /\ GetIndex(i, t) \in DOMAIN indexes
                                       /\ indexes[GetIndex(i, t)].name = i
                                       /\ indexes[GetIndex(i, t)].table = t
    BY DEF VInv, IndexesTyped
  <1>9. IndexesTyped'
    <2>1. \A x \in DOMAIN indexes' : x \in Nat /\ x < nextIndexOid /\ MapOK(indexes'[x])
      BY <1>5, <1>6, <1>8
    <2>2. ASSUME NEW i, NEW t, HasIndex(i, t)'
          PROVE  /\ GetIndex(i, t)' \in DOMAIN indexes'
                 /\ indexes'[GetIndex(i, t)'].name = i
                 /\ indexes'[GetIndex(i, t)'].table = t
      <3>1. CASE i = info.name /\ t = info.table
        BY <3>1, <1>6
      <3>2. CASE ~(i = info.name /\ t = info.table)
        <4>1. HasIndex(i, t) /\ GetIndex(i, t)' = GetIndex(i, t)
          BY <2>2, <3>2, <1>6
        <4>2. /\ GetIndex(i, t) \in DOMAIN indexes /\ GetIndex(i, t) # oid
              /\ indexes[GetIndex(i, t)].name = i /\ indexes[GetIndex(i, t)].table = t
          BY <4>1, <1>5, <1>8
        <4>3. QED
          BY <4>1, <4>2, <1>6
      <3>3. QED
        BY <3>1, <3>2
    <2>3. QED
      BY <1>2, <1>8, <2>1, <2>2 DEF IndexesTyped
  <1>10. ASSUME NEW u \in Sessions
         PROVE  /\ StatementOK(seen[u], tables, tableNames, indexes, nextIndexOid)
                /\ seen[u].stage = session[u].stage /\ Refers(seen[u]) = Refers(session[u])
                /\ session[u].stage = "build" => seen[u].oid = session[u].oid
                /\ session[u].stage = "build" =>
                     "kind" \in DOMAIN seen[u] /\ seen[u].kind = "create"
    BY <1>1, SameTables, SeenStatement
  <1>11. DOMAIN seen = Sessions
    BY DEF Seen
  <1> HIDE DEF seen
  <1>12. "stage" \in DOMAIN seen[s] /\ "kind" \in DOMAIN seen[s] /\ seen[s].kind = "create"
    BY <1>1, <1>10 DEF StatementOK
  <1>13. /\ "stage" \in DOMAIN session'[s] /\ "kind" \in DOMAIN session'[s]
         /\ session'[s].stage = "done" /\ session'[s].kind = "create"
    BY <1>1, <1>11, <1>12
  <1>14. /\ DOMAIN session' = Sessions /\ session' = [u \in Sessions |-> session'[u]]
         /\ \A u \in Sessions : u # s => session'[u] = seen[u]
    BY <1>1, <1>11
  <1>15. StatementOK(session'[s], tables', tableNames', indexes', nextIndexOid')
    BY <1>13 DEF StatementOK, EndOK
  <1>16. ASSUME NEW u \in Sessions, u # s
         PROVE  StatementOK(session'[u], tables', tableNames', indexes', nextIndexOid')
    <2>1. oid \notin Refers(session[u])
      BY <1>0, <1>1, <1>16 DEF VInv, Running
    <2>2. \A x \in Refers(seen[u]) : x \in DOMAIN indexes' =>
            x \in DOMAIN indexes /\ indexes'[x] = indexes[x]
      BY <1>6, <1>10, <2>1
    <2>3. nextIndexOid <= nextIndexOid
      BY <1>8
    <2>4. PICK e, idx : e = seen[u] /\ idx = indexes'
      OBVIOUS
    <2>5. /\ StatementOK(e, tables, tableNames, indexes, nextIndexOid)
          /\ nextIndexOid \in Nat /\ nextIndexOid <= nextIndexOid
          /\ \A x \in Refers(e) : x \in DOMAIN idx => x \in DOMAIN indexes /\ idx[x] = indexes[x]
      BY <1>8, <1>10, <2>2, <2>3, <2>4
    <2>6. StatementOK(e, tables, tableNames, idx, nextIndexOid)
      BY <2>5, IndexesChange
    <2>7. QED
      BY <1>2, <1>14, <1>16, <2>4, <2>6
  <1>17. Refers(session'[s]) = {} /\ session'[s].stage # "build"
    BY <1>13 DEF Refers
  <1>18. \A u, v \in Sessions :
           u # v /\ session'[u].stage = "build" => session'[u].oid \notin Refers(session'[v])
    BY <1>10, <1>14, <1>17, OidsApart
  <1>19. Running'
    BY <1>3, <1>14, <1>15, <1>16, <1>18, RunningLater
  <1>20. QED
    BY <1>7, <1>9, <1>19 DEF VInv

LEMMA IndexDropped ==
  ASSUME VInv, NEW s \in Sessions, DropIndexStep(s)
  PROVE  VInv'
  <1> DEFINE c == session[s]
             seen == Seen(s, tables)
  <1>1. PICK index, table : HasIndex(index, table) /\ DropIndex(index, table)
    BY DEF DropIndexStep, Matched
  <1>2. PICK rest : session' = [seen EXCEPT ![s].stmt.names = rest]
    BY DEF DropIndexStep
  <1>3. c.stage = "planned" /\ c.kind = "drop" /\ sent' = sent
    BY DEF DropIndexStep, Ready
  <1>4. tables' = tables /\ tableNames' = tableNames /\ nextIndexOid' = nextIndexOid
    BY <1>1 DEF DropIndex
  <1>5. sent' \in Nat \ {0}
    BY <1>3, OneStatement
  <1>6. /\ DOMAIN indexes' = DOMAIN indexes \ {GetIndex(index, table)}
        /\ \A x \in DOMAIN indexes' : indexes'[x] = indexes[x]
        /\ \A i, t : HasIndex(i, t)' <=> HasIndex(i, t) /\ ~(i = index /\ t = table)
        /\ \A i, t : HasIndex(i, t)' => GetIndex(i, t)' = GetIndex(i, t)
    BY <1>1, DropNames
  <1>7. TablesAgree' /\ TablesTyped'
    BY <1>4 DEF VInv, TablesAgree, TablesTyped
  <1>8. /\ nextIndexOid \in Nat
        /\ \A x \in DOMAIN indexes : x \in Nat /\ x < nextIndexOid /\ MapOK(indexes[x])
        /\ \A i, t : HasIndex(i, t) => /\ GetIndex(i, t) \in DOMAIN indexes
                                       /\ indexes[GetIndex(i, t)].name = i
                                       /\ indexes[GetIndex(i, t)].table = t
    BY DEF VInv, IndexesTyped
  <1>9. IndexesTyped'
    <2>1. \A x \in DOMAIN indexes' : x \in Nat /\ x < nextIndexOid /\ MapOK(indexes'[x])
      BY <1>6, <1>8
    <2>2. ASSUME NEW i, NEW t, HasIndex(i, t)'
          PROVE  /\ GetIndex(i, t)' \in DOMAIN indexes'
                 /\ indexes'[GetIndex(i, t)'].name = i
                 /\ indexes'[GetIndex(i, t)'].table = t
      <3>1. /\ HasIndex(i, t) /\ ~(i = index /\ t = table)
            /\ GetIndex(i, t)' = GetIndex(i, t)
        BY <2>2, <1>6
      <3>2. /\ GetIndex(i, t) \in DOMAIN indexes
            /\ indexes[GetIndex(i, t)].name = i /\ indexes[GetIndex(i, t)].table = t
        BY <3>1, <1>8
      <3>3. /\ indexes[GetIndex(index, table)].name = index
            /\ indexes[GetIndex(index, table)].table = table
        BY <1>1, <1>8
      <3>4. GetIndex(i, t) # GetIndex(index, table)
        BY <3>1, <3>2, <3>3
      <3>5. QED
        BY <3>1, <3>2, <3>4, <1>6
    <2>3. QED
      BY <1>4, <1>8, <2>1, <2>2 DEF IndexesTyped
  <1>10. ASSUME NEW u \in Sessions
         PROVE  /\ StatementOK(seen[u], tables, tableNames, indexes, nextIndexOid)
                /\ seen[u].stage = session[u].stage /\ Refers(seen[u]) = Refers(session[u])
                /\ session[u].stage = "build" => seen[u].oid = session[u].oid
    BY <1>3, SameTables, SeenStatement
  <1>11. DOMAIN seen = Sessions /\ seen[s] = c
    BY <1>3 DEF Seen
  <1>12. "stage" \in DOMAIN c /\ "kind" \in DOMAIN c
    BY <1>3, OneStatement DEF StatementOK, PlanOK
  <1> HIDE DEF seen, c
  <1>13. /\ "stage" \in DOMAIN session'[s] /\ "kind" \in DOMAIN session'[s]
         /\ session'[s].stage = "planned" /\ session'[s].kind = "drop"
    BY <1>2, <1>3, <1>11, <1>12
  <1>14. /\ DOMAIN session' = Sessions /\ session' = [u \in Sessions |-> session'[u]]
         /\ \A u \in Sessions : u # s => session'[u] = seen[u]
    BY <1>2, <1>11
  <1>15. StatementOK(session'[s], tables', tableNames', indexes', nextIndexOid')
    BY <1>13 DEF StatementOK, PlanOK, ScanKinds
  <1>16. ASSUME NEW u \in Sessions, u # s
         PROVE  StatementOK(session'[u], tables', tableNames', indexes', nextIndexOid')
    <2>1. PICK e, idx : e = seen[u] /\ idx = indexes'
      OBVIOUS
    <2>2. nextIndexOid <= nextIndexOid
      BY <1>8
    <2>3. /\ StatementOK(e, tables, tableNames, indexes, nextIndexOid)
          /\ nextIndexOid \in Nat /\ nextIndexOid <= nextIndexOid
          /\ \A x \in Refers(e) : x \in DOMAIN idx => x \in DOMAIN indexes /\ idx[x] = indexes[x]
      BY <1>6, <1>8, <1>10, <2>1, <2>2
    <2>4. StatementOK(e, tables, tableNames, idx, nextIndexOid)
      BY <2>3, IndexesChange
    <2>5. QED
      BY <1>4, <1>14, <1>16, <2>1, <2>4
  <1>17. Refers(session'[s]) = {} /\ session'[s].stage # "build"
    BY <1>13 DEF Refers, ScanKinds
  <1>18. \A u, v \in Sessions :
           u # v /\ session'[u].stage = "build" => session'[u].oid \notin Refers(session'[v])
    BY <1>10, <1>14, <1>17, OidsApart
  <1>19. Running'
    BY <1>5, <1>14, <1>15, <1>16, <1>18, RunningLater
  <1>20. QED
    BY <1>7, <1>9, <1>19 DEF VInv

-----------------------------------------------------------------------------
(* The theorem about scans.                                                *)

LEMMA VInit == Init => VInv
  <1> SUFFICES ASSUME Init PROVE VInv
    OBVIOUS
  <1>1. /\ tables = <<>> /\ tableNames = <<>> /\ indexes = <<>> /\ indexNames = <<>>
        /\ nextIndexOid = 1 /\ session = [s \in Sessions |-> Idle] /\ sent = 0
    BY DEF Init, CatalogInit
  <1>2. DOMAIN << >> = {} /\ Len(<<>>) = 0 /\ << >> \in Seq({}) /\ 1 .. 0 = {}
    OBVIOUS
  <1>3. TablesAgree /\ TablesTyped
    BY <1>1, <1>2 DEF TablesAgree, TablesTyped
  <1>4. IndexesTyped
    BY <1>1, <1>2 DEF IndexesTyped, HasIndex
  <1>5. "stage" \in DOMAIN Idle /\ Idle.stage = "idle"
    BY DEF Idle
  <1>6. StatementOK(Idle, tables, tableNames, indexes, nextIndexOid)
    BY <1>5 DEF StatementOK
  <1>7. \A s \in Sessions : session[s] = Idle
    BY <1>1
  <1>8. DOMAIN session = Sessions /\ session = [s \in Sessions |-> session[s]]
    BY <1>1
  <1>9. Running
    BY <1>1, <1>5, <1>6, <1>7, <1>8 DEF Running
  <1>10. QED
    BY <1>3, <1>4, <1>9 DEF VInv

LEMMA VStep ==
  ASSUME VInv, [Next]_vars
  PROVE  VInv'
  <1>1. CASE UNCHANGED vars
    BY <1>1 DEF vars, catalogVars, VInv, TablesAgree, TablesTyped, IndexesTyped, HasIndex,
                GetIndex, Running
  <1>2. ASSUME NEW t, LoadTable(t) \/ \E k \in Keys : LoadRow(t, k)
        PROVE  VInv'
    BY <1>2, TableAdded, RowAdded
  <1>3. ASSUME NEW s \in Sessions, NEW t, NEW P \in Predicates,
               \/ PlanSelect(s, t, P) \/ PlanDelete(s, t, P)
               \/ \E e \in Exprs : PlanUpdate(s, t, P, e)
               \/ \E source : PlanInsert(s, t, source, P)
        PROVE  VInv'
    <2>1. PICK kind, source, set : /\ kind \in ScanKinds
                                   /\ kind = "update" => set \in Exprs
                                   /\ PlanScan(s, kind, t, source, P, set)
      BY <1>3 DEF PlanSelect, PlanDelete, PlanUpdate, PlanInsert, ScanKinds
    <2>2. kind = "update" => set \in [Keys -> Keys]
      BY <2>1, DatabaseAssumption
    <2>3. QED
      BY <2>1, <2>2, ScanPlanned
  <1>4. ASSUME NEW s \in Sessions,
               \/ \E i, t, point : PlanCreateIndex(s, i, t, point)
               \/ \E names, missingOk : PlanDropIndex(s, names, missingOk)
        PROVE  VInv'
    BY <1>4, CreatePlanned, DropPlanned
  <1>5. ASSUME NEW s \in Sessions,
               \/ StartScan(s) \/ Pull(s) \/ PullDeleted(s) \/ PullEnd(s)
               \/ ApplyInsert(s) \/ ApplyUpdate(s) \/ ApplyDelete(s) \/ ApplyFails(s)
               \/ ScanCut(s) \/ PullThrows(s) \/ Finish(s)
        PROVE  VInv'
    BY <1>5, ScanStarts, RowPulled, ServerCrashes, ScanEnds, RowApplied, ApplyFailed,
       ScanIsCut, StatementEnds
  <1>6. ASSUME NEW s \in Sessions,
               \/ CreateIndexFails(s) \/ CreateIndexBegin(s) \/ CreateIndexRow(s)
               \/ CreateIndexRowDeleted(s) \/ CreateIndexRegister(s)
               \/ DropIndexStep(s) \/ DropIndexMissing(s) \/ DropIndexThrows(s)
               \/ DropIndexDone(s)
        PROVE  VInv'
    BY <1>6, StatementEnds, IndexBegun, IndexFilled, ServerCrashes, IndexEntered,
       IndexDropped, NothingDropped
  <1>7. QED
    BY <1>1, <1>2, <1>3, <1>4, <1>5, <1>6 DEF Next

\* For any sessions, all of which may send any kind of statement, any tables,
\* rows and indexes: whatever the other sessions insert, update, delete and
\* drop between two calls of SeqScanExecutor::Next or IndexScanExecutor::Next,
\* a statement that ends has treated every row that matched from the time its
\* scan began, no row that matched at no time, and none twice, its own
\* changes included; where it scanned an index, provided that the index
\* described the table when IndexScanExecutor::Init copied the rids.
THEOREM StatementsSeeStableRows == Spec => []SeesStableRows
  <1>1. VInv /\ [Next]_vars => VInv'
    BY VStep
  <1>2. Spec => []VInv
    BY <1>1, VInit, PTL DEF Spec
  <1>3. QED
    BY <1>2, SeesRight, PTL

-----------------------------------------------------------------------------
(* What a statement does that nobody disturbs.                             *)

Rising(seq) == \A m, n \in 1 .. Len(seq) : m < n => seq[m] < seq[n]

RisingMap(info) == \A k \in DOMAIN info.map : Rising(info.map[k])

\* A statement whose effect AloneMatchesReference judges.
Judged(c) == c.calm /\ c.exact /\ ~FeedsItself(c)

\* How many of the rows in out the statement has dealt with.
Treated(c) == IF c.stage = "apply" THEN Len(c.out) - 1 ELSE Len(c.out)

Hit(out, n, i) == \E m \in 1 .. n : out[m] = i

\* What the first n rows of out, which lie in src, make of a table's rows.
Changed(kind, set, base, src, out, n, now) ==
  /\ kind = "insert" =>
       /\ Len(now) = Len(base) + n
       /\ \A i \in 1 .. Len(base) : now[i] = base[i]
       /\ \A m \in 1 .. n : now[Len(base) + m] = src[out[m]]
  /\ kind = "update" =>
       /\ Len(now) = Len(base)
       /\ \A i \in 1 .. Len(base) :
            now[i] = IF Hit(out, n, i) THEN set[base[i]] ELSE base[i]
  /\ kind = "delete" =>
       /\ Len(now) = Len(base)
       /\ \A i \in 1 .. Len(base) : now[i] = IF Hit(out, n, i) THEN NoRow ELSE base[i]

\* The tables as they were when the statement began.
BeforeOK(c, tabs) ==
  /\ (\E S : c.before \in Seq(S)) /\ Len(c.before) = Len(tabs)
  /\ \A o \in 1 .. Len(tabs) :
       "rows" \in DOMAIN c.before[o] /\ c.before[o].rows \in Seq(Slots)
  /\ c.kind \in ScanKinds /\ c.source \in 1 .. Len(tabs) /\ c.table \in 1 .. Len(tabs)
  /\ c.kind # "insert" => c.table = c.source
  /\ c.pred \subseteq Keys

\* The rows taken so far match, in order, and are what made the tables what
\* they are.
Effect(c, tabs) ==
  /\ BeforeOK(c, tabs)
  /\ tabs = [c.before EXCEPT ![c.table].rows = tabs[c.table].rows]
  /\ c.must = Matching(c.before, c.source, c.pred)
  /\ Rising(c.out) /\ \A n \in 1 .. Len(c.out) : c.out[n] \in c.must
  /\ c.kind = "select" => tabs = c.before
  /\ c.kind # "select" => c.count = Treated(c)
  /\ Changed(c.kind, c.set, c.before[c.table].rows, c.before[c.source].rows, c.out,
             Treated(c), tabs[c.table].rows)

\* What lies ahead of a scan comes after what it took, and was there at first.
Onward(src, P, via, pos, rids, out) ==
  /\ via = SeqScan /\ pos # 0 => pos <= Len(src) /\ src[pos] # NoRow
  /\ via # SeqScan =>
       /\ Rising(rids)
       /\ \A n \in 1 .. Len(rids) : rids[n] \in 1 .. Len(src) /\ src[rids[n]] \in P
  /\ \A i \in Rids : Ahead(i, via, pos, rids) => \A n \in 1 .. Len(out) : out[n] < i

InStep(c, idx) ==
  /\ Onward(c.before[c.source].rows, c.pred, c.via, c.pos, c.rids, c.out)
  /\ c.stage = "apply" => c.row = c.before[c.source].rows[c.out[Len(c.out)]]
  /\ c.held \subseteq DOMAIN idx

\* An index that has the rows before pos, all of them at the end.
Filled(info, rows, pos) ==
  \A k \in Keys : \A i : Has(LookupInteger(info, k), i) <=>
    i \in 1 .. Len(rows) /\ rows[i] = k /\ (pos = 0 \/ i < pos)

RisingTo(info, pos) ==
  /\ RisingMap(info)
  /\ pos # 0 => \A k \in DOMAIN info.map :
       \A n \in 1 .. Len(info.map[k]) : info.map[k][n] < pos

Filling(c, tabs, names) ==
  /\ {"table", "point"} \subseteq DOMAIN c.info /\ RisingTo(c.info, c.pos)
  /\ c.source = names[c.info.table]
  /\ c.calm =>
       /\ c.pos # 0 => c.pos <= Len(tabs[c.source].rows) /\ tabs[c.source].rows[c.pos] # NoRow
       /\ c.info.point => Filled(c.info, tabs[c.source].rows, c.pos)

ExactIn(info, tabs, names) ==
  \A k \in Keys :
    /\ Range(LookupInteger(info, k)) = Matching(tabs, names[info.table], {k})
    /\ Len(LookupInteger(info, k)) = Cardinality(Range(LookupInteger(info, k)))

AloneOK(c, tabs, names, idx) ==
  /\ c.stage = "planned" =>
       (c.kind = "create" => {"table", "point"} \subseteq DOMAIN c.stmt /\ c.stmt.map = <<>>)
  /\ c.stage \notin {"idle", "planned"} => {"calm", "before"} \subseteq DOMAIN c
  /\ c.stage \in {"scan", "apply"} =>
       /\ {"count", "held"} \subseteq DOMAIN c
       /\ Judged(c) => Effect(c, tabs) /\ InStep(c, idx)
  /\ c.stage = "build" => Filling(c, tabs, names)
  /\ c.stage = "done" =>
       /\ c.kind = "create" =>
            (c.calm /\ c.info.point => ExactIn(idx[c.oid], tabs, names))
       /\ c.kind # "create" => (Judged(c) => Effect(c, tabs))
  /\ c.stage = "crashed" => ~Judged(c)

\* A table is its name and its rows.
Whole(tabs) ==
  \A o \in 1 .. Len(tabs) : tabs[o] = [name |-> tabs[o].name, rows |-> tabs[o].rows]

AInv ==
  /\ VInv /\ Whole(tables)
  /\ \A o \in DOMAIN indexes : RisingMap(indexes[o])
  /\ \A s \in Sessions : AloneOK(session[s], tables, tableNames, indexes)

\* FirstRow stops at a row.
LEMMA FirstRowIsRow ==
  ASSUME NEW rows \in Seq(Slots), NEW i \in Rids, FirstRow(rows, i) # 0
  PROVE  rows[FirstRow(rows, i)] # NoRow
  <1> DEFINE live == {j \in i .. Len(rows) : rows[j] # NoRow}
  <1>1. live \in SUBSET Nat
    BY DEF Rids
  <1>2. live # {}
    BY DEF FirstRow
  <1>3. FirstRow(rows, i) = CHOOSE j \in live : \A l \in live : j <= l
    BY <1>2 DEF FirstRow
  <1>4. \E j \in live : \A l \in live : j <= l
    BY <1>1, <1>2, LeastOf
  <1>5. FirstRow(rows, i) \in live
    <2> HIDE DEF live
    <2>1. QED
      BY <1>3, <1>4
  <1>6. QED
    BY <1>5

LEMMA RisingAppend ==
  ASSUME NEW out \in Seq(Rids), NEW rid \in Rids, Rising(out),
         \A n \in 1 .. Len(out) : out[n] < rid
  PROVE  Rising(Append(out, rid))
  <1> DEFINE a == Append(out, rid)
  <1>1. /\ Len(a) = Len(out) + 1 /\ a[Len(out) + 1] = rid /\ Len(out) \in Nat
        /\ \A n \in 1 .. Len(out) : a[n] = out[n]
    BY AppendFacts
  <1> HIDE DEF a
  <1>2. \A m, n \in 1 .. Len(a) : m < n =>
          m \in 1 .. Len(out) /\ (n \in 1 .. Len(out) \/ n = Len(out) + 1)
    BY <1>1
  <1>3. Rising(a)
    BY <1>1, <1>2 DEF Rising
  <1>4. QED
    BY <1>3 DEF a

LEMMA RisingTail ==
  ASSUME NEW rids \in Seq(Rids), rids # <<>>, Rising(rids)
  PROVE  /\ Rising(Tail(rids))
         /\ \A i : Has(Tail(rids), i) => Head(rids) < i
  <1> DEFINE t == Tail(rids)
  <1>1. /\ Len(t) = Len(rids) - 1 /\ Len(rids) \in Nat /\ Len(rids) >= 1
        /\ Head(rids) = rids[1] /\ \A n \in 1 .. Len(t) : t[n] = rids[n + 1]
    OBVIOUS
  <1> HIDE DEF t
  <1>2. \A n \in 1 .. Len(t) : n + 1 \in 1 .. Len(rids) /\ 1 < n + 1 /\ 1 \in 1 .. Len(rids)
    BY <1>1
  <1>3. \A m, n \in 1 .. Len(t) : m < n => m + 1 < n + 1
    BY <1>1
  <1>4. Rising(t)
    BY <1>1, <1>2, <1>3 DEF Rising
  <1>5. \A i : Has(t, i) => Head(rids) < i
    BY <1>1, <1>2 DEF Rising, Has
  <1>6. QED
    BY <1>4, <1>5 DEF t

LEMMA RisingOnce ==
  ASSUME NEW out \in Seq(Rids), Rising(out)
  PROVE  Once(out)
  <1>1. SUFFICES ASSUME NEW m \in 1 .. Len(out), NEW n \in 1 .. Len(out), out[m] = out[n], m # n
                 PROVE  FALSE
    BY DEF Once
  <1>2. m < n \/ n < m
    BY <1>1
  <1>3. out[m] < out[n] \/ out[n] < out[m]
    BY <1>2 DEF Rising
  <1>4. out[m] \in Nat /\ out[n] \in Nat
    BY DEF Rids
  <1>5. QED
    BY <1>1, <1>3, <1>4

\* A scan steps on over rows that have not changed ahead of it.
StepsOn(rows, src, P, via, pos, rids, out, rid, nextPos, nextRids, nextOut) ==
  /\ rows \in Seq(Slots) /\ src \in Seq(Slots) /\ P \in SUBSET Keys
  /\ pos \in Nat /\ rids \in Seq(Rids) /\ out \in Seq(Rids) /\ rid \in Rids
  /\ via = SeqScan => rid = pos /\ nextPos = FirstRow(rows, rid + 1)
  /\ via # SeqScan => rids # <<>> /\ rid = Head(rids) /\ nextRids = Tail(rids)
  /\ rows[rid] \notin P => nextOut = out
  /\ rows[rid] \in P => nextOut = Append(out, rid)
  /\ Len(rows) = Len(src)
  /\ \A i \in 1 .. Len(src) : Ahead(i, via, pos, rids) => rows[i] = src[i]

LEMMA PulledOnward ==
  ASSUME NEW rows, NEW src, NEW P, NEW via, NEW pos, NEW rids, NEW out,
         NEW rid, NEW nextPos, NEW nextRids, NEW nextOut,
         StepsOn(rows, src, P, via, pos, rids, out, rid, nextPos, nextRids, nextOut),
         Onward(src, P, via, pos, rids, out)
  PROVE  Onward(src, P, via, nextPos, nextRids, nextOut)
  <1> USE DEF StepsOn
  <1>0. Len(rows) \in Nat /\ Len(src) \in Nat /\ Len(out) \in Nat
    OBVIOUS
  <1>1. /\ rid \in Nat /\ rid # 0 /\ rid + 1 \in Rids
        /\ \A i \in Rids : i \in Nat
    BY DEF Rids
  <1>2. Ahead(rid, via, pos, rids)
    <2>1. CASE via = SeqScan
      BY <1>1, <2>1 DEF Ahead
    <2>2. CASE via # SeqScan
      BY <2>2, TailFacts, AheadLeft
    <2>3. QED
      BY <2>1, <2>2
  <1>3. \A n \in 1 .. Len(out) : out[n] < rid
    BY <1>2 DEF Onward
  <1>4. ASSUME via = SeqScan
        PROVE  /\ nextPos \in Nat /\ nextPos <= Len(src)
               /\ nextPos # 0 => pos < nextPos /\ src[nextPos] # NoRow
    <2>1. nextPos = FirstRow(rows, rid + 1) /\ rid = pos
      BY <1>4
    <2>2. /\ nextPos \in Nat /\ nextPos <= Len(rows)
          /\ nextPos # 0 => rid + 1 <= nextPos
      BY <1>1, <2>1, FirstRowFacts
    <2>3. nextPos # 0 => rows[nextPos] # NoRow
      BY <1>1, <2>1, FirstRowIsRow
    <2>4. nextPos # 0 => pos < nextPos /\ nextPos \in 1 .. Len(src) /\ pos <= nextPos
      BY <1>0, <1>1, <2>1, <2>2
    <2>5. nextPos # 0 => Ahead(nextPos, via, pos, rids)
      BY <1>1, <1>4, <2>1, <2>4 DEF Ahead
    <2>6. QED
      BY <2>2, <2>3, <2>4, <2>5
  <1>5. ASSUME NEW i \in Rids, Ahead(i, via, nextPos, nextRids)
        PROVE  rid < i /\ Ahead(i, via, pos, rids)
    <2>1. CASE via = SeqScan
      <3>1. nextPos \in Nat /\ nextPos # 0 /\ nextPos <= i /\ pos < nextPos /\ rid = pos
        BY <1>4, <1>5, <2>1 DEF Ahead
      <3>2. pos # 0 /\ pos <= i /\ rid < i
        BY <1>1, <3>1
      <3>3. QED
        BY <2>1, <3>2 DEF Ahead
    <2>2. CASE via # SeqScan
      <3>1. rids # <<>> /\ rid = Head(rids) /\ nextRids = Tail(rids) /\ Rising(rids)
        BY <2>2 DEF Onward
      <3>2. Has(nextRids, i)
        BY <1>5, <2>2, AheadLeft
      <3>3. rid < i /\ Has(rids, i)
        BY <3>1, <3>2, RisingTail, TailFacts
      <3>4. QED
        BY <2>2, <3>3, AheadLeft
    <2>3. QED
      BY <2>1, <2>2
  <1>6. ASSUME via # SeqScan
        PROVE  /\ Rising(nextRids)
               /\ \A n \in 1 .. Len(nextRids) :
                    nextRids[n] \in 1 .. Len(src) /\ src[nextRids[n]] \in P
    <2>1. rids # <<>> /\ nextRids = Tail(rids) /\ Rising(rids)
      BY <1>6 DEF Onward
    <2>2. \A i : Has(rids, i) => i \in 1 .. Len(src) /\ src[i] \in P
      BY <1>6 DEF Onward, Has
    <2>3. \A i : Has(nextRids, i) => Has(rids, i)
      BY <2>1, TailFacts
    <2>4. Rising(nextRids)
      BY <2>1, RisingTail
    <2>5. QED
      BY <2>2, <2>3, <2>4 DEF Has
  <1>7. \A i \in Rids : Ahead(i, via, nextPos, nextRids) =>
          \A n \in 1 .. Len(nextOut) : nextOut[n] < i
    <2>1. SUFFICES ASSUME NEW i \in Rids, Ahead(i, via, nextPos, nextRids),
                          NEW n \in 1 .. Len(nextOut)
                   PROVE  nextOut[n] < i
      OBVIOUS
    <2>2. rid < i /\ \A m \in 1 .. Len(out) : out[m] < i
      BY <1>5, <2>1 DEF Onward
    <2>3. CASE rows[rid] \notin P
      BY <2>2, <2>3
    <2>4. CASE rows[rid] \in P
      <3>1. nextOut = Append(out, rid)
        BY <2>4
      <3>2. /\ Len(nextOut) = Len(out) + 1 /\ nextOut[Len(out) + 1] = rid
            /\ \A m \in 1 .. Len(out) : nextOut[m] = out[m]
        BY <3>1, AppendFacts
      <3>3. n \in 1 .. Len(out) \/ n = Len(out) + 1
        BY <1>0, <3>2
      <3>4. QED
        BY <2>2, <3>2, <3>3
    <2>5. QED
      BY <2>3, <2>4
  <1>8. QED
    BY <1>4, <1>6, <1>7 DEF Onward

LEMMA OtherTables ==
  ASSUME NEW before, NEW S, before \in Seq(S), NEW t \in 1 .. Len(before), NEW r,
         "rows" \in DOMAIN before[t]
  PROVE  /\ Len([before EXCEPT ![t].rows = r]) = Len(before)
         /\ [before EXCEPT ![t].rows = r][t].rows = r
         /\ \A o \in 1 .. Len(before) : o # t => [before EXCEPT ![t].rows = r][o] = before[o]
  <1> DEFINE w == [before[t] EXCEPT !.rows = r]
             tabs == [before EXCEPT ![t].rows = r]
  <1>1. tabs = [before EXCEPT ![t] = w]
    OBVIOUS
  <1>2. w.rows = r
    OBVIOUS
  <1> HIDE DEF w, tabs
  <1>3. /\ Len(tabs) = Len(before) /\ tabs[t] = w
        /\ \A o \in 1 .. Len(before) : o # t => tabs[o] = before[o]
    BY <1>1
  <1>4. QED
    BY <1>2, <1>3 DEF tabs

WithRows(tabs, t, rows) == [tabs EXCEPT ![t].rows = rows]

LEMMA ChangedTwice ==
  ASSUME NEW before, NEW S, before \in Seq(S), NEW t \in 1 .. Len(before), NEW r, NEW q,
         "rows" \in DOMAIN before[t]
  PROVE  WithRows(WithRows(before, t, r), t, q) = WithRows(before, t, q)
  <1> DEFINE w == [before[t] EXCEPT !.rows = r]
             v == [w EXCEPT !.rows = q]
             x == [before[t] EXCEPT !.rows = q]
             tabs == [before EXCEPT ![t] = w]
  <1>1. /\ [before EXCEPT ![t].rows = r] = tabs
        /\ [before EXCEPT ![t].rows = q] = [before EXCEPT ![t] = x]
    OBVIOUS
  <1>2. v = x
    OBVIOUS
  <1>3. tabs[t] = w
    OBVIOUS
  <1>4. [tabs EXCEPT ![t].rows = q] = [tabs EXCEPT ![t] = v]
    BY <1>3
  <1> HIDE DEF w, v, x
  <1>5. [tabs EXCEPT ![t] = v] = [before EXCEPT ![t] = v]
    OBVIOUS
  <1> HIDE DEF tabs
  <1>6. QED
    BY <1>1, <1>2, <1>4, <1>5 DEF WithRows

\* The tables of a statement that is judged, one by one.
LEMMA TablesNow ==
  ASSUME NEW c, NEW tabs, Effect(c, tabs)
  PROVE  \A o \in 1 .. Len(tabs) : o # c.table => tabs[o] = c.before[o]
  <1>1. PICK S : c.before \in Seq(S)
    BY DEF Effect, BeforeOK
  <1>2. /\ Len(c.before) = Len(tabs) /\ c.table \in 1 .. Len(c.before)
        /\ "rows" \in DOMAIN c.before[c.table]
    BY DEF Effect, BeforeOK
  <1>3. PICK before, t, r : before = c.before /\ t = c.table /\ r = tabs[c.table].rows
    OBVIOUS
  <1>4. tabs = [before EXCEPT ![t].rows = r]
    BY <1>3 DEF Effect
  <1>5. \A o \in 1 .. Len(before) : o # t => [before EXCEPT ![t].rows = r][o] = before[o]
    BY <1>1, <1>2, <1>3, OtherTables
  <1>6. QED
    BY <1>2, <1>3, <1>4, <1>5

\* Ahead of its scan the statement has changed nothing.
LEMMA Untouched ==
  ASSUME NEW c, NEW tabs, NEW idx, Effect(c, tabs), InStep(c, idx), ~FeedsItself(c),
         c.out \in Seq(Rids)
  PROVE  /\ Len(tabs[c.source].rows) = Len(c.before[c.source].rows)
         /\ \A i \in 1 .. Len(c.before[c.source].rows) :
              Ahead(i, c.via, c.pos, c.rids) =>
                tabs[c.source].rows[i] = c.before[c.source].rows[i]
  <1>1. BeforeOK(c, tabs)
    BY DEF Effect
  <1>2. CASE c.table # c.source
    BY <1>1, <1>2, TablesNow DEF BeforeOK
  <1>3. CASE c.table = c.source /\ c.kind = "select"
    BY <1>3 DEF Effect
  <1>4. CASE c.table = c.source /\ c.kind # "select"
    <2>1. c.kind \in {"update", "delete"}
      BY <1>1, <1>4 DEF BeforeOK, ScanKinds, FeedsItself
    <2> DEFINE src == c.before[c.source].rows
               now == tabs[c.source].rows
               n == Treated(c)
    <2>2. Changed(c.kind, c.set, src, src, c.out, n, now)
      BY <1>4 DEF Effect
    <2>3. \A m \in 1 .. n : m \in 1 .. Len(c.out)
      BY DEF Treated
    <2>4. src \in Seq(Slots)
      BY <1>1 DEF BeforeOK
    <2> HIDE DEF src, now, n
    <2>5. ASSUME NEW i \in 1 .. Len(src), Ahead(i, c.via, c.pos, c.rids)
          PROVE  ~Hit(c.out, n, i)
      <3>1. i \in Rids
        BY <2>4 DEF Rids
      <3>2. \A m \in 1 .. Len(c.out) : c.out[m] < i
        BY <2>5, <3>1 DEF InStep, Onward, src
      <3>3. \A m \in 1 .. Len(c.out) : c.out[m] # i
        <4>1. i \in Nat /\ \A m \in 1 .. Len(c.out) : c.out[m] \in Nat
          BY <3>1 DEF Rids
        <4>2. QED
          BY <3>2, <4>1
      <3>4. QED
        BY <2>3, <3>3 DEF Hit
    <2>6. Len(now) = Len(src) /\ \A i \in 1 .. Len(src) : ~Hit(c.out, n, i) => now[i] = src[i]
      BY <2>1, <2>2 DEF Changed
    <2>7. QED
      BY <2>5, <2>6 DEF src, now
  <1>5. QED
    BY <1>2, <1>3, <1>4

\* What the invariant says of one session and of the step it takes.
LEMMA AloneOne ==
  ASSUME AInv, NEW s \in Sessions
  PROVE  /\ AloneOK(session[s], tables, tableNames, indexes) /\ VInv
         /\ StatementOK(session[s], tables, tableNames, indexes, nextIndexOid)
         /\ "stage" \in DOMAIN session[s] /\ DOMAIN session = Sessions
  BY OneStatement DEF AInv

LEMMA AloneStep ==
  ASSUME AInv, VInv', UNCHANGED catalogVars, NEW s \in Sessions, NEW d,
         session' = [session EXCEPT ![s] = d],
         AloneOK(d, tables, tableNames, indexes)
  PROVE  AInv'
  <1>1. tables' = tables /\ tableNames' = tableNames /\ indexes' = indexes
    BY DEF catalogVars
  <1>2. DOMAIN session = Sessions
    BY AloneOne
  <1>3. \A u \in Sessions : session'[u] = IF u = s THEN d ELSE session[u]
    BY <1>2
  <1>4. \A u \in Sessions : AloneOK(session'[u], tables, tableNames, indexes)
    BY <1>3 DEF AInv
  <1>5. QED
    BY <1>1, <1>4 DEF AInv

LEMMA AloneEnds ==
  ASSUME AInv, VInv', NEW s \in Sessions,
         \/ PullThrows(s) \/ Finish(s) \/ CreateIndexFails(s)
         \/ DropIndexThrows(s) \/ DropIndexDone(s)
  PROVE  AInv'
  <1>1. session' = [session EXCEPT ![s] = Idle] /\ UNCHANGED catalogVars
    BY DEF PullThrows, Finish, CreateIndexFails, DropIndexThrows, DropIndexDone, Fault, Unseen
  <1>2. Idle.stage = "idle"
    BY DEF Idle
  <1>3. AloneOK(Idle, tables, tableNames, indexes)
    BY <1>2 DEF AloneOK
  <1>4. QED
    BY <1>1, <1>3, AloneStep

\* The slot a scan is at.
LEMMA AtRow ==
  ASSUME NEW c, NEW rid, rid = Current(c), rid # 0, c.pos \in Nat, c.rids \in Seq(Rids)
  PROVE  /\ rid \in Rids /\ Ahead(rid, c.via, c.pos, c.rids)
         /\ c.via = SeqScan => rid = c.pos
         /\ c.via # SeqScan => c.rids # <<>> /\ rid = Head(c.rids) /\ Has(c.rids, rid)
  <1>1. CASE c.via = SeqScan
    <2>1. rid = c.pos /\ rid \in Nat
      BY <1>1 DEF Current
    <2>2. c.pos # 0 /\ c.pos <= rid /\ rid \in Rids
      BY <2>1 DEF Rids
    <2>3. QED
      BY <1>1, <2>1, <2>2 DEF Ahead
  <1>2. CASE c.via # SeqScan
    <2>1. c.rids # <<>> /\ rid = Head(c.rids)
      BY <1>2 DEF Current
    <2>2. rid \in Rids /\ Has(c.rids, rid)
      BY <2>1, TailFacts
    <2>3. QED
      BY <1>2, <2>1, <2>2, AheadLeft
  <1>3. QED
    BY <1>1, <1>2

\* An undisturbed scan meets no deleted row.
LEMMA MeetsRows ==
  ASSUME NEW c, NEW tabs, NEW idx, NEW rid, Effect(c, tabs), InStep(c, idx), ~FeedsItself(c),
         ScanOK(c, tabs), rid = Current(c), rid # 0
  PROVE  /\ rid \in 1 .. Len(c.before[c.source].rows)
         /\ tabs[c.source].rows[rid] = c.before[c.source].rows[rid]
         /\ c.before[c.source].rows[rid] # NoRow
  <1>1. c.pos \in Nat /\ c.rids \in Seq(Rids) /\ c.out \in Seq(Rids)
    BY DEF ScanOK
  <1>2. /\ rid \in Rids /\ Ahead(rid, c.via, c.pos, c.rids)
        /\ c.via = SeqScan => rid = c.pos
        /\ c.via # SeqScan => c.rids # <<>> /\ rid = Head(c.rids) /\ Has(c.rids, rid)
    BY <1>1, AtRow
  <1> DEFINE src == c.before[c.source].rows
  <1>3. src \in Seq(Slots) /\ c.pred \subseteq Keys
    BY DEF Effect, BeforeOK
  <1>4. Onward(src, c.pred, c.via, c.pos, c.rids, c.out)
    BY DEF InStep
  <1>5. rid \in 1 .. Len(src) /\ src[rid] # NoRow
    <2> HIDE DEF src
    <2>1. CASE c.via = SeqScan
      <3>1. rid <= Len(src) /\ src[rid] # NoRow
        BY <1>2, <1>4, <2>1 DEF Onward
      <3>2. rid \in Nat /\ rid # 0 /\ Len(src) \in Nat
        BY <1>2, <1>3 DEF Rids
      <3>3. QED
        BY <3>1, <3>2
    <2>2. CASE c.via # SeqScan
      <3>1. rid \in 1 .. Len(src) /\ src[rid] \in c.pred
        BY <1>2, <1>4, <2>2 DEF Onward, Has
      <3>2. QED
        BY <1>3, <3>1, CatalogAssumption DEF CatalogAssumption
    <2>3. QED
      BY <2>1, <2>2
  <1>6. QED
    BY <1>1, <1>2, <1>5, Untouched

LEMMA AloneCrashes ==
  ASSUME AInv, VInv', NEW s \in Sessions, PullDeleted(s) \/ CreateIndexRowDeleted(s)
  PROVE  AInv'
  <1> DEFINE c == session[s]
             d == [c EXCEPT !.stage = "crashed"]
  <1>1. session' = [session EXCEPT ![s] = d] /\ UNCHANGED catalogVars
    BY DEF PullDeleted, CreateIndexRowDeleted, Unseen
  <1>2. /\ AloneOK(c, tables, tableNames, indexes)
        /\ StatementOK(c, tables, tableNames, indexes, nextIndexOid)
        /\ "stage" \in DOMAIN c
    BY AloneOne
  <1>3. c.stage \in {"scan", "build"}
    BY DEF PullDeleted, CreateIndexRowDeleted, Ready
  <1>4. {"calm", "before"} \subseteq DOMAIN c
    BY <1>2, <1>3 DEF AloneOK
  <1>5. CASE PullDeleted(s)
    <2>1. /\ c.stage = "scan" /\ Current(c) # 0
          /\ tables[c.source].rows[Current(c)] = NoRow
      BY <1>5 DEF PullDeleted, Ready
    <2>2. ScanOK(c, tables) /\ (Judged(c) => Effect(c, tables) /\ InStep(c, indexes))
      BY <1>2, <2>1 DEF AloneOK, StatementOK
    <2> HIDE DEF c
    <2>3. ~Judged(c)
      <3>1. SUFFICES ASSUME Judged(c) PROVE FALSE
        OBVIOUS
      <3>2. PICK rid : rid = Current(c)
        OBVIOUS
      <3>3. tables[c.source].rows[rid] # NoRow
        BY <2>1, <2>2, <3>1, <3>2, MeetsRows DEF Judged
      <3>4. QED
        BY <2>1, <3>2, <3>3
    <2>4. ScanFields \subseteq DOMAIN c
      BY <2>2 DEF ScanOK
    <2>5. /\ DOMAIN d = DOMAIN c /\ d.stage = "crashed" /\ d.calm = c.calm /\ d.exact = c.exact
          /\ d.kind = c.kind /\ d.table = c.table /\ d.source = c.source
      BY <1>4, <2>4 DEF ScanFields
    <2> HIDE DEF d
    <2>6. AloneOK(d, tables, tableNames, indexes)
      BY <1>4, <2>3, <2>5 DEF AloneOK, Judged, FeedsItself
    <2>7. QED
      BY <1>1, <2>6, AloneStep DEF c
  <1>6. CASE CreateIndexRowDeleted(s)
    <2>1. c.stage = "build" /\ c.pos # 0 /\ tables[c.source].rows[c.pos] = NoRow
      BY <1>6 DEF CreateIndexRowDeleted, Ready
    <2>2. Filling(c, tables, tableNames)
      BY <1>2, <2>1 DEF AloneOK
    <2> HIDE DEF c
    <2>3. ~c.calm
      BY <2>1, <2>2 DEF Filling
    <2>4. DOMAIN d = DOMAIN c /\ d.stage = "crashed" /\ d.calm = c.calm
      BY <1>2, <1>4
    <2> HIDE DEF d
    <2>5. AloneOK(d, tables, tableNames, indexes)
      BY <1>4, <2>3, <2>4 DEF AloneOK, Judged
    <2>6. QED
      BY <1>1, <2>5, AloneStep DEF c
  <1>7. QED
    BY <1>5, <1>6

\* What Effect and InStep look at.
SameStatement(c, d) ==
  /\ d.kind = c.kind /\ d.table = c.table /\ d.source = c.source /\ d.pred = c.pred
  /\ d.set = c.set /\ d.via = c.via /\ d.must = c.must /\ d.exact = c.exact
  /\ d.calm = c.calm /\ d.before = c.before /\ d.held = c.held

LEMMA SameEffect ==
  ASSUME NEW c, NEW d, NEW tabs, Effect(c, tabs), SameStatement(c, d), d.out = c.out,
         d.count = c.count, Treated(d) = Treated(c)
  PROVE  Effect(d, tabs)
  <1>1. BeforeOK(d, tabs)
    BY DEF Effect, BeforeOK, SameStatement
  <1>2. QED
    BY <1>1 DEF Effect, SameStatement

LEMMA AloneScanEnds ==
  ASSUME AInv, VInv', NEW s \in Sessions, PullEnd(s)
  PROVE  AInv'
  <1> DEFINE c == session[s]
             d == [c EXCEPT !.stage = "done"]
  <1>1. /\ session' = [session EXCEPT ![s] = d] /\ UNCHANGED catalogVars /\ c.stage = "scan"
    BY DEF PullEnd, Unseen, Ready
  <1>2. /\ ScanOK(c, tables) /\ AloneOK(c, tables, tableNames, indexes)
    BY <1>1, AloneOne DEF StatementOK
  <1> HIDE DEF c
  <1>3. ScanFields \subseteq DOMAIN c /\ {"calm", "before", "count", "held"} \subseteq DOMAIN c
        /\ c.kind # "create"
    BY <1>1, <1>2 DEF ScanOK, AloneOK, ScanKinds
  <1>4. /\ DOMAIN d = DOMAIN c /\ d.stage = "done" /\ d.kind = c.kind /\ d.table = c.table
        /\ d.source = c.source /\ d.pred = c.pred /\ d.set = c.set /\ d.via = c.via
        /\ d.must = c.must /\ d.exact = c.exact /\ d.calm = c.calm /\ d.before = c.before
        /\ d.held = c.held /\ d.out = c.out /\ d.count = c.count
    BY <1>3 DEF ScanFields
  <1> HIDE DEF d
  <1>5. SameStatement(c, d) /\ Treated(d) = Treated(c)
    BY <1>1, <1>4 DEF SameStatement, Treated
  <1>6. Judged(d) => Effect(c, tables)
    BY <1>1, <1>2, <1>4 DEF AloneOK, Judged, FeedsItself
  <1>7. Judged(d) => Effect(d, tables)
    BY <1>4, <1>5, <1>6, SameEffect
  <1>8. AloneOK(d, tables, tableNames, indexes)
    BY <1>3, <1>4, <1>7 DEF AloneOK
  <1>9. QED
    BY <1>1, <1>8, AloneStep DEF c

LEMMA ChangedPrefix ==
  ASSUME NEW kind, NEW set, NEW base, NEW src, NEW out, NEW n, NEW now, NEW more,
         Changed(kind, set, base, src, out, n, now), \A m \in 1 .. n : more[m] = out[m]
  PROVE  Changed(kind, set, base, src, more, n, now)
  <1>1. \A i : Hit(more, n, i) <=> Hit(out, n, i)
    BY DEF Hit
  <1>2. QED
    BY <1>1 DEF Changed

\* A row is taken.
LEMMA TakenEffect ==
  ASSUME NEW c, NEW d, NEW tabs, NEW rid, Effect(c, tabs), SameStatement(c, d),
         d.count = c.count, d.out = Append(c.out, rid), c.out \in Seq(Rids), rid \in Rids,
         rid \in c.must, \A n \in 1 .. Len(c.out) : c.out[n] < rid,
         c.stage = "scan", d.stage = IF c.kind = "select" THEN "scan" ELSE "apply"
  PROVE  Effect(d, tabs)
  <1>1. BeforeOK(d, tabs)
    BY DEF Effect, BeforeOK, SameStatement
  <1>2. /\ Len(d.out) = Len(c.out) + 1 /\ Len(c.out) \in Nat /\ d.out[Len(c.out) + 1] = rid
        /\ \A n \in 1 .. Len(c.out) : d.out[n] = c.out[n]
    BY AppendFacts
  <1>3. Rising(d.out)
    BY RisingAppend DEF Effect
  <1>4. \A n \in 1 .. Len(d.out) : d.out[n] \in d.must
    <2>1. \A n \in 1 .. Len(d.out) : n \in 1 .. Len(c.out) \/ n = Len(c.out) + 1
      BY <1>2
    <2>2. QED
      BY <1>2, <2>1 DEF Effect, SameStatement
  <1>5. Treated(c) = Len(c.out) /\ (c.kind # "select" => Treated(d) = Len(c.out))
    BY <1>2 DEF Treated
  <1>6. Changed(d.kind, d.set, d.before[d.table].rows, d.before[d.source].rows, d.out,
                Treated(d), tabs[d.table].rows)
    <2>1. CASE c.kind = "select"
      BY <2>1 DEF Changed, SameStatement
    <2>2. CASE c.kind # "select"
      <3> DEFINE base == c.before[c.table].rows
                 src == c.before[c.source].rows
                 now == tabs[c.table].rows
                 n == Len(c.out)
      <3>1. Changed(c.kind, c.set, base, src, c.out, n, now)
        BY <1>5 DEF Effect
      <3>2. \A m \in 1 .. n : d.out[m] = c.out[m]
        BY <1>2
      <3> HIDE DEF base, src, now, n
      <3>3. Changed(c.kind, c.set, base, src, d.out, n, now)
        BY <3>1, <3>2, ChangedPrefix
      <3>4. QED
        BY <1>5, <2>2, <3>3 DEF SameStatement, base, src, now, n
    <2>3. QED
      BY <2>1, <2>2
  <1>7. QED
    BY <1>1, <1>3, <1>4, <1>5, <1>6 DEF Effect, SameStatement

LEMMA AlonePulls ==
  ASSUME AInv, VInv', NEW s \in Sessions, Pull(s)
  PROVE  AInv'
  <1> DEFINE c == session[s]
             rid == Current(c)
             rows == tables[c.source].rows
             pos == IF c.via = SeqScan THEN FirstRow(rows, rid + 1) ELSE 0
             rids == IF c.via = SeqScan THEN <<>> ELSE Tail(c.rids)
             next == [c EXCEPT !.pos = pos, !.rids = rids]
             out == IF rows[rid] \notin c.pred THEN c.out ELSE Append(c.out, rid)
             take == [next EXCEPT !.out = Append(@, rid),
                         !.row = IF c.kind = "select" THEN NoRow ELSE rows[rid],
                         !.stage = IF c.kind = "select" THEN "scan" ELSE "apply"]
             d == IF rows[rid] \notin c.pred THEN next ELSE take
             src == c.before[c.source].rows
  <1>1. /\ session' = [session EXCEPT ![s] = d] /\ UNCHANGED catalogVars
        /\ c.stage = "scan" /\ rid # 0
    BY DEF Pull, Ready, Unseen
  <1>2. /\ ScanOK(c, tables) /\ AloneOK(c, tables, tableNames, indexes)
    BY <1>1, AloneOne DEF StatementOK
  <1>3. rows \in Seq(Slots)
    BY <1>2 DEF ScanOK, AInv, VInv, TablesTyped
  <1>4. Judged(c) => /\ rid \in 1 .. Len(src) /\ rows[rid] = src[rid]
                     /\ Effect(c, tables) /\ InStep(c, indexes)
    <2>1. SUFFICES ASSUME Judged(c)
                   PROVE  /\ rid \in 1 .. Len(src) /\ rows[rid] = src[rid]
                          /\ Effect(c, tables) /\ InStep(c, indexes)
      OBVIOUS
    <2>2. Effect(c, tables) /\ InStep(c, indexes)
      BY <1>1, <1>2, <2>1 DEF AloneOK
    <2>3. PICK r : r = rid
      OBVIOUS
    <2> HIDE DEF c
    <2>4. r \in 1 .. Len(src) /\ rows[r] = src[r]
      <3>1. ~FeedsItself(c) /\ ScanOK(c, tables) /\ r = Current(c) /\ r # 0
        BY <1>1, <1>2, <2>1, <2>3 DEF Judged
      <3>2. QED
        BY <2>2, <3>1, MeetsRows, SMTT(60)
    <2>5. QED
      BY <2>2, <2>3, <2>4
  <1> HIDE DEF c
  <1>5. /\ c.pred \subseteq Keys /\ c.pos \in Nat /\ c.rids \in Seq(Rids) /\ c.out \in Seq(Rids)
        /\ ScanFields \subseteq DOMAIN c /\ {"calm", "before", "count", "held"} \subseteq DOMAIN c
        /\ c.kind # "create"
    BY <1>1, <1>2 DEF ScanOK, AloneOK, ScanKinds
  <1>6. /\ rid \in Rids /\ Ahead(rid, c.via, c.pos, c.rids)
        /\ c.via = SeqScan => rid = c.pos
        /\ c.via # SeqScan => c.rids # <<>> /\ rid = Head(c.rids)
    <2>1. PICK r : r = rid
      OBVIOUS
    <2>2. /\ r \in Rids /\ Ahead(r, c.via, c.pos, c.rids)
          /\ c.via = SeqScan => r = c.pos
          /\ c.via # SeqScan => c.rids # <<>> /\ r = Head(c.rids)
      BY <1>1, <1>5, <2>1, AtRow
    <2>3. QED
      BY <2>1, <2>2
  <1> HIDE DEF rid
  <1>7. Judged(c) => Onward(src, c.pred, c.via, pos, rids, out)
    <2>1. SUFFICES ASSUME Judged(c) PROVE Onward(src, c.pred, c.via, pos, rids, out)
      OBVIOUS
    <2>2. /\ src \in Seq(Slots) /\ c.pred \in SUBSET Keys
          /\ Onward(src, c.pred, c.via, c.pos, c.rids, c.out)
      BY <1>4, <2>1 DEF Effect, BeforeOK, InStep
    <2>3. /\ Len(rows) = Len(src)
          /\ \A i \in 1 .. Len(src) : Ahead(i, c.via, c.pos, c.rids) => rows[i] = src[i]
      BY <1>4, <1>5, <2>1, Untouched DEF Judged
    <2>4. /\ c.via = SeqScan => rid = c.pos /\ pos = FirstRow(rows, rid + 1)
          /\ c.via # SeqScan => c.rids # <<>> /\ rid = Head(c.rids) /\ rids = Tail(c.rids)
          /\ rows[rid] \notin c.pred => out = c.out
          /\ rows[rid] \in c.pred => out = Append(c.out, rid)
      BY <1>6
    <2> HIDE DEF pos, rids, out, rows, src
    <2>5. StepsOn(rows, src, c.pred, c.via, c.pos, c.rids, c.out, rid, pos, rids, out)
      BY <1>3, <1>5, <1>6, <2>2, <2>3, <2>4 DEF StepsOn
    <2>6. QED
      BY <2>2, <2>5, PulledOnward
  <1> HIDE DEF pos, rids, out, rows
  <1>8. /\ DOMAIN next = DOMAIN c /\ next.stage = "scan" /\ next.pos = pos /\ next.rids = rids
        /\ next.kind = c.kind /\ next.table = c.table /\ next.source = c.source
        /\ next.pred = c.pred /\ next.set = c.set /\ next.via = c.via /\ next.must = c.must
        /\ next.exact = c.exact /\ next.calm = c.calm /\ next.before = c.before
        /\ next.held = c.held /\ next.count = c.count /\ next.out = c.out
    BY <1>1, <1>5 DEF ScanFields
  <1> HIDE DEF next
  <1>9. CASE rows[rid] \notin c.pred
    <2>1. d = next /\ out = c.out
      BY <1>9 DEF out
    <2> HIDE DEF d
    <2>2. SameStatement(c, d) /\ Treated(d) = Treated(c) /\ (Judged(d) <=> Judged(c))
      BY <1>1, <1>8, <2>1 DEF SameStatement, Treated, Judged, FeedsItself
    <2>3. Judged(c) => Effect(d, tables)
      BY <1>4, <1>8, <2>1, <2>2, SameEffect
    <2>4. Judged(c) => InStep(d, indexes)
      BY <1>4, <1>7, <1>8, <2>1 DEF InStep
    <2>5. AloneOK(d, tables, tableNames, indexes)
      BY <1>5, <1>8, <2>1, <2>2, <2>3, <2>4 DEF AloneOK
    <2>6. QED
      BY <1>1, <2>5, AloneStep DEF c
  <1>10. CASE rows[rid] \in c.pred
    <2>1. d = take /\ out = Append(c.out, rid)
      BY <1>10 DEF out
    <2>2. /\ DOMAIN take = DOMAIN c /\ take.pos = pos /\ take.rids = rids /\ take.out = out
          /\ take.stage = IF c.kind = "select" THEN "scan" ELSE "apply"
          /\ take.kind = c.kind /\ take.table = c.table /\ take.source = c.source
          /\ take.pred = c.pred /\ take.set = c.set /\ take.via = c.via /\ take.must = c.must
          /\ take.exact = c.exact /\ take.calm = c.calm /\ take.before = c.before
          /\ take.held = c.held /\ take.count = c.count
          /\ take.stage = "apply" => take.row = rows[rid]
      BY <1>5, <1>8, <2>1 DEF ScanFields
    <2> HIDE DEF take, d
    <2>3. SameStatement(c, d) /\ (Judged(d) <=> Judged(c))
      BY <2>1, <2>2 DEF SameStatement, Judged, FeedsItself
    <2>4. ASSUME Judged(c) PROVE Effect(d, tables) /\ InStep(d, indexes)
      <3>1. /\ rid \in 1 .. Len(src) /\ rows[rid] = src[rid]
            /\ Effect(c, tables) /\ InStep(c, indexes)
        BY <1>4, <2>4
      <3>2. rid \in c.must
        BY <1>10, <3>1 DEF Effect, Matching
      <3>3. \A n \in 1 .. Len(c.out) : c.out[n] < rid
        BY <1>6, <3>1 DEF InStep, Onward
      <3>4. Effect(d, tables)
        BY <1>1, <1>5, <1>6, <2>1, <2>2, <2>3, <3>1, <3>2, <3>3, TakenEffect
      <3>5. Len(d.out) = Len(c.out) + 1 /\ d.out[Len(c.out) + 1] = rid
        BY <1>5, <1>6, <2>1, <2>2, AppendFacts
      <3>6. InStep(d, indexes)
        BY <1>7, <2>1, <2>2, <2>4, <3>1, <3>5 DEF InStep
      <3>7. QED
        BY <3>4, <3>6
    <2>5. AloneOK(d, tables, tableNames, indexes)
      BY <1>5, <2>1, <2>2, <2>3, <2>4 DEF AloneOK
    <2>6. QED
      BY <1>1, <2>5, AloneStep DEF c
  <1>11. QED
    BY <1>9, <1>10

LEMMA AloneApplyFails ==
  ASSUME AInv, VInv', NEW s \in Sessions, ApplyFails(s)
  PROVE  AInv'
  <1> DEFINE c == session[s]
             b == [c EXCEPT !.calm = FALSE, !.before = <<>>]
             d == [b EXCEPT
                     !.stage = IF c.kind = "delete" /\ ~(c.held \subseteq DOMAIN indexes)
                               THEN "crashed" ELSE "scan",
                     !.row = NoRow,
                     !.count = IF c.kind = "insert" THEN @ ELSE @ + 1]
  <1>1. session' = [session EXCEPT ![s] = d] /\ UNCHANGED catalogVars /\ c.stage = "apply"
    BY DEF ApplyFails, Fault, Unseen, Ready, Disturbed
  <1>2. AloneOK(c, tables, tableNames, indexes) /\ "stage" \in DOMAIN c
    BY AloneOne
  <1> HIDE DEF c
  <1>3. {"calm", "before", "count", "held"} \subseteq DOMAIN c
    BY <1>1, <1>2 DEF AloneOK
  <1>4. DOMAIN b = DOMAIN c /\ b.calm = FALSE
    BY <1>3
  <1> HIDE DEF b
  <1>5. DOMAIN d = DOMAIN c /\ d.calm = FALSE /\ d.stage \in {"crashed", "scan"}
    BY <1>2, <1>3, <1>4
  <1> HIDE DEF d
  <1>6. AloneOK(d, tables, tableNames, indexes)
    BY <1>3, <1>5 DEF AloneOK, Judged
  <1>7. QED
    BY <1>1, <1>6, AloneStep DEF c

LEMMA AloneScanCut ==
  ASSUME AInv, VInv', NEW s \in Sessions, ScanCut(s)
  PROVE  AInv'
  <1> DEFINE c == session[s]
             b == [c EXCEPT !.calm = FALSE, !.before = <<>>]
             d == [b EXCEPT !.pos = 0, !.must = {}]
  <1>1. /\ session' = [session EXCEPT ![s] = d] /\ UNCHANGED catalogVars
        /\ c.stage \in {"scan", "build"}
    BY DEF ScanCut, Fault, Unseen, Disturbed
  <1>2. /\ AloneOK(c, tables, tableNames, indexes) /\ "stage" \in DOMAIN c
        /\ StatementOK(c, tables, tableNames, indexes, nextIndexOid)
    BY AloneOne
  <1> HIDE DEF c
  <1>3. {"calm", "before"} \subseteq DOMAIN c
    BY <1>1, <1>2 DEF AloneOK
  <1>4. DOMAIN b = DOMAIN c /\ b.calm = FALSE /\ b.stage = c.stage
    BY <1>2, <1>3
  <1>5. c.stage = "build" => /\ {"info", "pos", "source"} \subseteq DOMAIN c
                             /\ b.info = c.info /\ b.source = c.source
    <2>1. c.stage = "build" => {"info", "pos", "source"} \subseteq DOMAIN c
      BY <1>2 DEF StatementOK, FillOK
    <2>2. QED
      BY <2>1
  <1> HIDE DEF b
  <1>6. DOMAIN d = DOMAIN c /\ d.calm = FALSE /\ d.stage = c.stage
    BY <1>2, <1>3, <1>4
  <1>7. c.stage = "build" => d.info = c.info /\ d.source = c.source /\ d.pos = 0
    BY <1>4, <1>5
  <1> HIDE DEF d
  <1>8. c.stage = "build" => Filling(d, tables, tableNames)
    BY <1>2, <1>6, <1>7 DEF AloneOK, Filling, RisingTo
  <1>9. AloneOK(d, tables, tableNames, indexes)
    BY <1>1, <1>2, <1>3, <1>6, <1>8 DEF AloneOK, Judged
  <1>10. QED
    BY <1>1, <1>9, AloneStep DEF c

\* The rids of a key after one more was entered.
LEMMA EntryFacts ==
  ASSUME NEW info, MapOK(info), NEW k, NEW rid
  PROVE  /\ "map" \in DOMAIN InsertEntry(info, k, rid)
         /\ InsertEntry(info, k, rid).map = Put(info.map, k, Append(LookupInteger(info, k), rid))
         /\ \A x : LookupInteger(InsertEntry(info, k, rid), x) =
                     IF x = k THEN Append(LookupInteger(info, k), rid)
                     ELSE LookupInteger(info, x)
  <1> DEFINE a == Append(LookupInteger(info, k), rid)
             m == Put(info.map, k, a)
  <1>1. InsertEntry(info, k, rid) = [info EXCEPT !.map = m]
    BY DEF InsertEntry
  <1>2. /\ DOMAIN m = DOMAIN info.map \cup {k}
        /\ \A x \in DOMAIN m : m[x] = IF x = k THEN a ELSE info.map[x]
    BY DEF Put
  <1>3. "map" \in DOMAIN info
    BY DEF MapOK
  <1> HIDE DEF a, m
  <1>4. "map" \in DOMAIN [info EXCEPT !.map = m] /\ [info EXCEPT !.map = m].map = m
    BY <1>3
  <1> DEFINE i == InsertEntry(info, k, rid)
  <1>5. "map" \in DOMAIN i /\ i.map = m
    BY <1>1, <1>4
  <1> HIDE DEF i
  <1>6. \A x : LookupInteger(i, x) = IF x = k THEN a ELSE LookupInteger(info, x)
    BY <1>2, <1>5 DEF LookupInteger
  <1>7. QED
    BY <1>5, <1>6 DEF a, m, i

\* One more row at pos keeps the rids in order.
LEMMA RisesFurther ==
  ASSUME NEW info, MapOK(info), NEW k, NEW pos \in Rids, NEW next \in Nat,
         next # 0 => pos < next, RisingTo(info, pos)
  PROVE  RisingTo(InsertEntry(info, k, pos), next)
  <1> DEFINE a == Append(LookupInteger(info, k), pos)
             i == InsertEntry(info, k, pos)
  <1>0. pos \in Nat /\ pos # 0
    BY DEF Rids
  <1>1. /\ LookupInteger(info, k) \in Seq(Rids) /\ Rising(LookupInteger(info, k))
        /\ \A n \in 1 .. Len(LookupInteger(info, k)) : LookupInteger(info, k)[n] < pos
    <2>1. CASE k \in DOMAIN info.map
      BY <1>0, <2>1 DEF LookupInteger, MapOK, RisingTo, RisingMap
    <2>2. CASE k \notin DOMAIN info.map
      <3>1. LookupInteger(info, k) = <<>> /\ Len(<<>>) = 0 /\ \A n : n \notin 1 .. 0
        BY <2>2 DEF LookupInteger
      <3>2. QED
        BY <3>1 DEF Rising
    <2>3. QED
      BY <2>1, <2>2
  <1>2. Rising(a)
    BY <1>1, RisingAppend
  <1>3. next # 0 => \A n \in 1 .. Len(a) : a[n] < next
    <2>1. SUFFICES ASSUME next # 0, NEW n \in 1 .. Len(a) PROVE a[n] < next
      OBVIOUS
    <2>2. PICK q : q = LookupInteger(info, k)
      OBVIOUS
    <2>3. /\ Len(a) = Len(q) + 1 /\ a[Len(q) + 1] = pos /\ Len(q) \in Nat
          /\ \A m \in 1 .. Len(q) : a[m] = q[m] /\ q[m] \in Nat
      BY <1>1, <2>2, AppendFacts DEF Rids
    <2>4. n \in 1 .. Len(q) \/ n = Len(q) + 1
      BY <2>3
    <2>5. a[n] \in Nat /\ (a[n] < pos \/ a[n] = pos)
      BY <1>0, <1>1, <2>2, <2>3, <2>4
    <2>6. QED
      BY <1>0, <2>1, <2>5
  <1>4. /\ i.map = Put(info.map, k, a)
    BY EntryFacts
  <1> HIDE DEF a, i
  <1>5. \A x \in DOMAIN i.map : i.map[x] = a \/ (x \in DOMAIN info.map /\ i.map[x] = info.map[x])
    BY <1>4 DEF Put
  <1>6. \A x \in DOMAIN info.map : Rising(info.map[x])
    BY DEF RisingTo, RisingMap
  <1>7. next # 0 => \A x \in DOMAIN info.map : \A n \in 1 .. Len(info.map[x]) :
                      info.map[x][n] < next
    <2>1. SUFFICES ASSUME next # 0, NEW x \in DOMAIN info.map, NEW n \in 1 .. Len(info.map[x])
                   PROVE  info.map[x][n] < next
      OBVIOUS
    <2>2. info.map[x][n] < pos
      BY <1>0, <2>1 DEF RisingTo
    <2>3. info.map[x][n] \in Nat
      BY <2>1 DEF MapOK, Rids
    <2>4. QED
      BY <1>0, <2>1, <2>2, <2>3
  <1>8. RisingTo(i, next)
    BY <1>2, <1>3, <1>5, <1>6, <1>7 DEF RisingTo, RisingMap
  <1>9. QED
    BY <1>8 DEF i

\* And the index then has the rows before the next one.
LEMMA FillsFurther ==
  ASSUME NEW info, MapOK(info), NEW rows \in Seq(Slots), NEW pos \in Rids,
         pos <= Len(rows), rows[pos] # NoRow, Filled(info, rows, pos)
  PROVE  Filled(InsertEntry(info, rows[pos], pos), rows, FirstRow(rows, pos + 1))
  <1> DEFINE next == FirstRow(rows, pos + 1)
             i == InsertEntry(info, rows[pos], pos)
  <1>1. pos \in Nat /\ pos # 0 /\ pos + 1 \in Rids /\ Len(rows) \in Nat /\ pos \in 1 .. Len(rows)
    BY DEF Rids
  <1>2. /\ next \in Nat /\ (next # 0 => pos + 1 <= next)
        /\ \A j \in Nat : pos + 1 <= j /\ j <= Len(rows) /\ rows[j] # NoRow
             => next # 0 /\ next <= j
    BY <1>1, FirstRowFacts
  <1>3. PICK k : k = rows[pos]
    OBVIOUS
  <1>4. \A x : LookupInteger(i, x) = IF x = k THEN Append(LookupInteger(info, k), pos)
                                     ELSE LookupInteger(info, x)
    <2>1. \A x : LookupInteger(InsertEntry(info, k, pos), x) =
                   IF x = k THEN Append(LookupInteger(info, k), pos) ELSE LookupInteger(info, x)
      BY EntryFacts
    <2>2. i = InsertEntry(info, k, pos)
      BY <1>3
    <2> HIDE DEF i
    <2>3. QED
      BY <2>1, <2>2
  <1>5. \A x : LookupInteger(info, x) \in Seq(Rids)
    BY DEF LookupInteger, MapOK
  <1> HIDE DEF next, i
  <1>6. ASSUME NEW x, NEW j
        PROVE  Has(LookupInteger(i, x), j) <=>
                 Has(LookupInteger(info, x), j) \/ (x = k /\ j = pos)
    <2>1. CASE x = k
      <3>1. PICK q : q = LookupInteger(info, k)
        OBVIOUS
      <3>2. LookupInteger(i, x) = Append(q, pos) /\ q \in Seq(Rids)
        BY <1>4, <1>5, <2>1, <3>1
      <3>3. Has(Append(q, pos), j) <=> Has(q, j) \/ j = pos
        BY <3>2, AppendFacts
      <3>4. QED
        BY <2>1, <3>1, <3>2, <3>3
    <2>2. CASE x # k
      BY <1>4, <2>2
    <2>3. QED
      BY <2>1, <2>2
  <1>7. ASSUME NEW x \in Keys, NEW j \in 1 .. Len(rows), rows[j] = x
        PROVE  (next = 0 \/ j < next) <=> (j < pos \/ j = pos)
    <2>1. x # NoRow /\ j \in Nat /\ j <= Len(rows)
      BY <1>1, CatalogAssumption DEF CatalogAssumption
    <2>2. pos + 1 <= j => next # 0 /\ next <= j
      BY <1>2, <1>7, <2>1
    <2>3. QED
      BY <1>1, <1>2, <2>1, <2>2
  <1>8. ASSUME NEW x \in Keys, NEW j
        PROVE  Has(LookupInteger(i, x), j) <=>
                 j \in 1 .. Len(rows) /\ rows[j] = x /\ (next = 0 \/ j < next)
    <2>1. Has(LookupInteger(info, x), j) <=>
            j \in 1 .. Len(rows) /\ rows[j] = x /\ j < pos
      BY <1>1 DEF Filled
    <2>2. QED
      BY <1>1, <1>3, <1>6, <1>7, <2>1
  <1>9. Filled(i, rows, next)
    BY <1>8 DEF Filled
  <1>10. QED
    BY <1>9 DEF i, next

LEMMA AloneIndexRow ==
  ASSUME AInv, VInv', NEW s \in Sessions, CreateIndexRow(s)
  PROVE  AInv'
  <1> DEFINE c == session[s]
             rows == tables[c.source].rows
             pos == FirstRow(rows, c.pos + 1)
             info == InsertEntry(c.info, rows[c.pos], c.pos)
             d == [c EXCEPT !.pos = pos, !.info = info]
  <1>1. DOMAIN session = Sessions /\ "stage" \in DOMAIN c
    BY AloneOne
  <1>2. session' = [session EXCEPT ![s] = d]
    BY <1>1 DEF CreateIndexRow
  <1>3. /\ UNCHANGED catalogVars /\ c.stage = "build" /\ c.pos # 0 /\ rows[c.pos] # NoRow
    BY DEF CreateIndexRow, Unseen, Ready
  <1>4. /\ FillOK(c, tables, indexes, nextIndexOid) /\ {"calm", "before"} \subseteq DOMAIN c
        /\ Filling(c, tables, tableNames)
    BY <1>3, AloneOne DEF StatementOK, AloneOK
  <1> HIDE DEF c
  <1>5. /\ {"kind", "info", "oid", "pos", "source"} \subseteq DOMAIN c
        /\ c.pos \in Rids /\ c.pos \in Nat /\ MapOK(c.info) /\ c.source \in 1 .. Len(tables)
    BY <1>3, <1>4 DEF FillOK, Rids
  <1>6. rows \in Seq(Slots)
    BY <1>5 DEF AInv, VInv, TablesTyped
  <1>7. c.pos + 1 \in Rids
    BY <1>5 DEF Rids
  <1> HIDE DEF rows
  <1>8. /\ pos \in Nat /\ pos <= Len(rows)
        /\ pos # 0 => c.pos < pos /\ rows[pos] # NoRow
    <2>1. pos \in Nat /\ pos <= Len(rows) /\ (pos # 0 => c.pos + 1 <= pos)
      BY <1>6, <1>7, FirstRowFacts
    <2>2. pos # 0 => rows[pos] # NoRow
      BY <1>6, <1>7, FirstRowIsRow
    <2> HIDE DEF pos
    <2>3. QED
      BY <1>5, <2>1, <2>2
  <1>9. RisingTo(info, pos)
    <2>1. PICK i, k, p, q : i = c.info /\ k = rows[c.pos] /\ p = c.pos /\ q = pos
      OBVIOUS
    <2> HIDE DEF pos
    <2>2. MapOK(i) /\ p \in Rids /\ q \in Nat /\ (q # 0 => p < q) /\ RisingTo(i, p)
      BY <1>4, <1>5, <1>8, <2>1 DEF Filling
    <2>3. RisingTo(InsertEntry(i, k, p), q)
      BY <2>2, RisesFurther
    <2>4. QED
      BY <2>1, <2>3
  <1>10. c.calm /\ c.info.point => Filled(info, rows, pos)
    <2>1. SUFFICES ASSUME c.calm, c.info.point PROVE Filled(info, rows, pos)
      OBVIOUS
    <2>2. PICK i, p : i = c.info /\ p = c.pos
      OBVIOUS
    <2>3. /\ MapOK(i) /\ p \in Rids /\ p <= Len(rows) /\ rows[p] # NoRow /\ Filled(i, rows, p)
      BY <1>3, <1>4, <1>5, <2>1, <2>2 DEF Filling, rows
    <2>4. Filled(InsertEntry(i, rows[p], p), rows, FirstRow(rows, p + 1))
      BY <1>6, <2>3, FillsFurther
    <2>5. QED
      BY <2>2, <2>4
  <1>11. /\ info.table = c.info.table /\ info.point = c.info.point
         /\ {"table", "point"} \subseteq DOMAIN info
    <2>1. PICK i, k, p : i = c.info /\ k = rows[c.pos] /\ p = c.pos
      OBVIOUS
    <2>2. /\ DOMAIN InsertEntry(i, k, p) = DOMAIN i
          /\ \A f \in DOMAIN i : f # "map" => InsertEntry(i, k, p)[f] = i[f]
      BY DEF InsertEntry
    <2>3. {"table", "point"} \subseteq DOMAIN i
      BY <1>4, <2>1 DEF Filling
    <2>4. QED
      BY <2>1, <2>2, <2>3
  <1> HIDE DEF info, pos
  <1>12. /\ DOMAIN d = DOMAIN c /\ d.stage = "build" /\ d.calm = c.calm
         /\ d.source = c.source /\ d.info = info /\ d.pos = pos
    BY <1>1, <1>3, <1>4, <1>5 DEF c
  <1> HIDE DEF d
  <1>13. Filling(d, tables, tableNames)
    BY <1>4, <1>8, <1>9, <1>10, <1>11, <1>12 DEF Filling, rows
  <1>14. AloneOK(d, tables, tableNames, indexes)
    BY <1>4, <1>12, <1>13 DEF AloneOK
  <1>15. QED
    BY <1>2, <1>3, <1>14, AloneStep DEF c

LEMMA ScanBegins ==
  ASSUME NEW rows \in Seq(Slots), NEW P, NEW rids
  PROVE  Onward(rows, P, SeqScan, FirstRow(rows, 1), rids, <<>>)
  <1>1. 1 \in Rids
    BY DEF Rids
  <1>2. FirstRow(rows, 1) <= Len(rows)
    BY <1>1, FirstRowFacts
  <1>3. FirstRow(rows, 1) # 0 => rows[FirstRow(rows, 1)] # NoRow
    BY <1>1, FirstRowIsRow
  <1>4. Len(<<>>) = 0 /\ \A n : n \notin 1 .. 0
    OBVIOUS
  <1>5. QED
    BY <1>2, <1>3, <1>4 DEF Onward

LEMMA IndexScanBegins ==
  ASSUME NEW rows \in Seq(Slots), NEW P, NEW rids \in Seq(Rids), NEW via, via # SeqScan,
         NEW pos, Rising(rids), Range(rids) = {i \in 1 .. Len(rows) : rows[i] \in P}
  PROVE  Onward(rows, P, via, pos, rids, <<>>)
  <1>1. \A n \in 1 .. Len(rids) : rids[n] \in 1 .. Len(rows) /\ rows[rids[n]] \in P
    <2>1. \A n \in 1 .. Len(rids) : rids[n] \in Range(rids)
      BY DEF Range
    <2>2. QED
      BY <2>1
  <1>2. Len(<<>>) = 0 /\ \A n : n \notin 1 .. 0
    OBVIOUS
  <1>3. QED
    BY <1>1, <1>2 DEF Onward

LEMMA NothingTaken ==
  ASSUME NEW d, NEW tabs, BeforeOK(d, tabs), d.before = tabs, d.out = <<>>, d.count = 0,
         d.stage = "scan", d.must = Matching(tabs, d.source, d.pred),
         tabs = [tabs EXCEPT ![d.table].rows = tabs[d.table].rows]
  PROVE  Effect(d, tabs)
  <1>1. Len(<<>>) = 0 /\ \A n : n \notin 1 .. 0
    OBVIOUS
  <1>2. Treated(d) = 0
    BY <1>1 DEF Treated
  <1>3. Rising(d.out) /\ \A n \in 1 .. Len(d.out) : d.out[n] \in d.must
    BY <1>1 DEF Rising
  <1> DEFINE base == tabs[d.table].rows
  <1>4. Len(base) = Len(base) + 0
    <2>1. base \in Seq(Slots)
      BY DEF BeforeOK
    <2>2. QED
      BY <2>1
  <1>5. \A i : ~Hit(d.out, 0, i)
    BY <1>1 DEF Hit
  <1>6. Changed(d.kind, d.set, base, tabs[d.source].rows, d.out, 0, base)
    <2> HIDE DEF base
    <2>1. QED
      BY <1>1, <1>4, <1>5 DEF Changed
  <1>7. QED
    BY <1>2, <1>3, <1>6 DEF Effect

LEMMA AloneScanStarts ==
  ASSUME AInv, VInv', NEW s \in Sessions, StartScan(s)
  PROVE  AInv'
  <1> DEFINE c == session[s]
             rows == tables[c.source].rows
             matching == Matching(tables, c.source, c.pred)
             pos == IF c.via = SeqScan THEN FirstRow(rows, 1) ELSE 0
             rids == IF c.via \in DOMAIN indexes
                     THEN LookupInteger(indexes[c.via], CHOOSE k \in c.pred : TRUE)
                     ELSE <<>>
             held == IF c.kind \in {"insert", "delete"}
                     THEN GetTableIndexes(tables[c.table].name) ELSE {}
             exact == c.via = SeqScan \/ (c.via \in DOMAIN indexes /\ Exact(indexes[c.via]))
             d == [stage |-> "scan", kind |-> c.kind, table |-> c.table, source |-> c.source,
                   pred |-> c.pred, set |-> c.set, via |-> c.via,
                   pos |-> pos, rids |-> rids, held |-> held,
                   out |-> <<>>, row |-> NoRow, count |-> 0,
                   before |-> tables, calm |-> TRUE, must |-> matching, may |-> matching,
                   exact |-> exact]
  <1>1. /\ session' = [session EXCEPT ![s] = d] /\ UNCHANGED catalogVars
        /\ c.stage = "planned" /\ c.kind \in ScanKinds
    BY DEF StartScan, Unseen, Ready, ScanKinds
  <1>2. PlanOK(c, tables, tableNames, indexes, nextIndexOid)
    BY <1>1, AloneOne DEF StatementOK
  <1>3. /\ c.source \in 1 .. Len(tables) /\ c.table \in 1 .. Len(tables)
        /\ c.kind # "insert" => c.table = c.source
        /\ c.pred \subseteq Keys
        /\ c.via # SeqScan =>
             /\ \E k \in Keys : c.pred = {k}
             /\ c.via \in DOMAIN indexes => tableNames[indexes[c.via].table] = c.source
    BY <1>1, <1>2 DEF PlanOK
  <1> HIDE DEF c
  <1>4. rows \in Seq(Slots)
    BY <1>3 DEF AInv, VInv, TablesTyped
  <1>5. matching = {i \in 1 .. Len(rows) : rows[i] \in c.pred}
    BY DEF Matching
  <1>6. exact => Onward(rows, c.pred, c.via, pos, rids, <<>>)
    <2>1. CASE c.via = SeqScan
      <3>1. pos = FirstRow(rows, 1)
        BY <2>1
      <3> HIDE DEF rows, pos, rids
      <3>2. QED
        BY <1>4, <2>1, <3>1, ScanBegins
    <2>2. CASE c.via # SeqScan
      <3>1. SUFFICES ASSUME c.via \in DOMAIN indexes, Exact(indexes[c.via])
                     PROVE  Onward(rows, c.pred, c.via, pos, rids, <<>>)
        BY <2>2
      <3>2. PICK k \in Keys : c.pred = {k}
        BY <1>3, <2>2
      <3>3. (CHOOSE x \in c.pred : TRUE) = k
        BY <3>2
      <3>4. rids = LookupInteger(indexes[c.via], k)
        BY <3>1, <3>3
      <3>5. GetTable(indexes[c.via].table) = c.source
        BY <1>3, <2>2, <3>1 DEF GetTable
      <3>6. Range(rids) = matching
        BY <3>1, <3>2, <3>4, <3>5 DEF Exact
      <3>7. MapOK(indexes[c.via]) /\ RisingMap(indexes[c.via])
        BY <3>1 DEF AInv, VInv, IndexesTyped
      <3>8. rids \in Seq(Rids) /\ Rising(rids)
        <4>1. CASE k \in DOMAIN indexes[c.via].map
          BY <3>4, <3>7, <4>1 DEF LookupInteger, MapOK, RisingMap
        <4>2. CASE k \notin DOMAIN indexes[c.via].map
          <5>1. rids = <<>> /\ Len(<<>>) = 0 /\ \A n : n \notin 1 .. 0
            BY <3>4, <4>2 DEF LookupInteger
          <5>2. <<>> \in Seq(Rids) /\ Rising(<<>>)
            BY <5>1 DEF Rising
          <5> HIDE DEF rids
          <5>3. QED
            BY <5>1, <5>2
        <4>3. QED
          BY <4>1, <4>2
      <3> HIDE DEF rows, matching, pos, rids
      <3>9. QED
        BY <1>4, <1>5, <2>2, <3>6, <3>8, IndexScanBegins
    <2>3. QED
      BY <2>1, <2>2
  <1>7. held \subseteq DOMAIN indexes
    <2>1. SUFFICES ASSUME NEW t, NEW x \in GetTableIndexes(t) PROVE x \in DOMAIN indexes
      OBVIOUS
    <2>2. PICK i : i \in DOMAIN indexNames[t] /\ x = indexNames[t][i] /\ t \in DOMAIN indexNames
      BY DEF GetTableIndexes, Range
    <2>3. HasIndex(i, t) /\ x = GetIndex(i, t)
      BY <2>2 DEF HasIndex, GetIndex
    <2>4. QED
      BY <2>3 DEF AInv, VInv, IndexesTyped
  <1>8. tables = [tables EXCEPT ![c.table].rows = tables[c.table].rows]
    <2> DEFINE w == [tables[c.table] EXCEPT !.rows = tables[c.table].rows]
    <2>1. PICK S : tables \in Seq(S)
      BY DEF AInv, VInv, TablesAgree
    <2>2. PICK n, r : tables[c.table] = [name |-> n, rows |-> r]
      BY <1>3 DEF AInv, Whole
    <2>3. w = tables[c.table]
      BY <2>2
    <2>4. [tables EXCEPT ![c.table].rows = tables[c.table].rows] = [tables EXCEPT ![c.table] = w]
      OBVIOUS
    <2> HIDE DEF w
    <2>5. QED
      BY <2>1, <2>3, <2>4
  <1> HIDE DEF matching, pos, rids, held, exact
  <1>9. /\ d.stage = "scan" /\ d.kind = c.kind /\ d.table = c.table /\ d.source = c.source
        /\ d.pred = c.pred /\ d.via = c.via /\ d.pos = pos /\ d.rids = rids /\ d.held = held
        /\ d.out = <<>> /\ d.count = 0 /\ d.before = tables /\ d.must = matching
        /\ d.exact = exact /\ {"calm", "before", "count", "held"} \subseteq DOMAIN d
    OBVIOUS
  <1>10. session' = [session EXCEPT ![s] = d]
    BY <1>1
  <1> HIDE DEF d
  <1>11. BeforeOK(d, tables)
    BY <1>1, <1>3, <1>9 DEF BeforeOK, AInv, VInv, TablesAgree, TablesTyped
  <1>12. Effect(d, tables)
    BY <1>8, <1>9, <1>11, NothingTaken DEF matching
  <1>13. Judged(d) => InStep(d, indexes)
    BY <1>6, <1>7, <1>9 DEF InStep, Judged
  <1>14. AloneOK(d, tables, tableNames, indexes)
    BY <1>9, <1>12, <1>13 DEF AloneOK
  <1>15. QED
    BY <1>1, <1>10, <1>14, AloneStep

\* A plan.
LEMMA AlonePlanned ==
  ASSUME AInv, VInv', UNCHANGED catalogVars, NEW s \in Sessions, NEW d,
         session' = [session EXCEPT ![s] = d], d.stage = "planned",
         d.kind = "create" => {"table", "point"} \subseteq DOMAIN d.stmt /\ d.stmt.map = <<>>
  PROVE  AInv'
  <1>1. AloneOK(d, tables, tableNames, indexes)
    BY DEF AloneOK
  <1>2. QED
    BY <1>1, AloneStep

LEMMA AlonePlansScan ==
  ASSUME AInv, VInv', NEW s \in Sessions, NEW kind \in ScanKinds, NEW t, NEW source,
         NEW P, NEW set, PlanScan(s, kind, t, source, P, set)
  PROVE  AInv'
  <1>1. PICK via : session' = [session EXCEPT ![s] =
          [stage |-> "planned", kind |-> kind, table |-> GetTable(t),
           source |-> GetTable(source), pred |-> P, set |-> set, via |-> via]]
    BY DEF PlanScan
  <1> DEFINE d == [stage |-> "planned", kind |-> kind, table |-> GetTable(t),
                   source |-> GetTable(source), pred |-> P, set |-> set, via |-> via]
  <1>2. session' = [session EXCEPT ![s] = d] /\ UNCHANGED catalogVars
    BY <1>1 DEF PlanScan, Unseen
  <1>3. d.stage = "planned" /\ d.kind # "create"
    BY DEF ScanKinds
  <1> HIDE DEF d
  <1>4. QED
    BY <1>2, <1>3, AlonePlanned

LEMMA AlonePlansUtility ==
  ASSUME AInv, VInv', NEW s \in Sessions,
         \/ \E i, t, point : PlanCreateIndex(s, i, t, point)
         \/ \E names, ok : PlanDropIndex(s, names, ok)
  PROVE  AInv'
  <1>1. ASSUME NEW kind, NEW stmt, PlanUtility(s, kind, stmt),
               kind = "create" => {"table", "point"} \subseteq DOMAIN stmt /\ stmt.map = <<>>
        PROVE  AInv'
    <2> DEFINE d == [stage |-> "planned", kind |-> kind, stmt |-> stmt]
    <2>1. session' = [session EXCEPT ![s] = d] /\ UNCHANGED catalogVars
      BY <1>1 DEF PlanUtility, Unseen
    <2>2. d.stage = "planned" /\ d.kind = kind /\ d.stmt = stmt
      OBVIOUS
    <2> HIDE DEF d
    <2>3. QED
      BY <1>1, <2>1, <2>2, AlonePlanned
  <1>2. ASSUME NEW i, NEW t, NEW point, PlanCreateIndex(s, i, t, point) PROVE AInv'
    <2> DEFINE info == NewIndexInfo(i, t, point)
    <2>1. {"table", "point"} \subseteq DOMAIN info /\ info.map = <<>>
      BY DEF NewIndexInfo
    <2>2. PlanUtility(s, "create", info)
      BY <1>2 DEF PlanCreateIndex
    <2> HIDE DEF info
    <2>3. QED
      BY <1>1, <2>1, <2>2
  <1>3. ASSUME NEW names, NEW ok, PlanDropIndex(s, names, ok) PROVE AInv'
    <2> DEFINE stmt == [names |-> names, missing_ok |-> ok]
    <2>1. PlanUtility(s, "drop", stmt)
      BY <1>3 DEF PlanDropIndex
    <2> HIDE DEF stmt
    <2>2. QED
      BY <1>1, <2>1
  <1>4. QED
    BY <1>2, <1>3

LEMMA AloneDropsNothing ==
  ASSUME AInv, VInv', NEW s \in Sessions, DropIndexMissing(s)
  PROVE  AInv'
  <1> DEFINE c == session[s]
             d == [c EXCEPT !.stmt.names = Tail(c.stmt.names)]
  <1>1. /\ session' = [session EXCEPT ![s] = d] /\ UNCHANGED catalogVars
        /\ c.stage = "planned" /\ c.kind = "drop"
    BY DEF DropIndexMissing, Ready, Unseen
  <1>2. "stage" \in DOMAIN c /\ "kind" \in DOMAIN c
    BY <1>1, AloneOne DEF StatementOK, PlanOK
  <1> HIDE DEF c
  <1>3. d.stage = "planned" /\ d.kind = "drop"
    BY <1>1, <1>2
  <1> HIDE DEF d
  <1>4. QED
    BY <1>1, <1>3, AlonePlanned

LEMMA AloneIndexBegins ==
  ASSUME AInv, VInv', NEW s \in Sessions, CreateIndexBegin(s)
  PROVE  AInv'
  <1> DEFINE c == session[s]
             info == c.stmt
             o == GetTable(info.table)
             rows == tables[o].rows
             pos == IF info.point THEN FirstRow(rows, 1) ELSE 0
             d == [stage |-> "build", kind |-> "create", info |-> info, oid |-> nextIndexOid,
                   source |-> o, pred |-> {}, must |-> {}, may |-> {}, exact |-> TRUE,
                   pos |-> pos, before |-> tables, calm |-> TRUE]
  <1>1. /\ c.stage = "planned" /\ c.kind = "create"
        /\ session' = [session EXCEPT ![s] = d]
        /\ tables' = tables /\ tableNames' = tableNames /\ indexes' = indexes
    BY DEF CreateIndexBegin, Ready
  <1>2. DOMAIN session = Sessions
    BY AloneOne
  <1>3. PlanOK(c, tables, tableNames, indexes, nextIndexOid)
    BY <1>1, AloneOne DEF StatementOK
  <1>4. /\ info.table \in DOMAIN tableNames /\ {"table", "point"} \subseteq DOMAIN info
        /\ info.map = <<>>
    BY <1>1, <1>3, AloneOne DEF PlanOK, AloneOK
  <1>5. o \in 1 .. Len(tables)
    BY <1>4 DEF AInv, VInv, TablesAgree, GetTable
  <1>6. rows \in Seq(Slots)
    BY <1>5 DEF AInv, VInv, TablesTyped
  <1>7. 1 \in Rids
    BY DEF Rids
  <1>8. o = tableNames[info.table]
    BY DEF GetTable
  <1> HIDE DEF info, c, o, rows
  <1>9. /\ FirstRow(rows, 1) \in Nat /\ FirstRow(rows, 1) <= Len(rows)
        /\ FirstRow(rows, 1) # 0 => rows[FirstRow(rows, 1)] # NoRow
        /\ \A j \in Nat : 1 <= j /\ j <= Len(rows) /\ rows[j] # NoRow =>
             FirstRow(rows, 1) # 0 /\ FirstRow(rows, 1) <= j
    BY <1>6, <1>7, FirstRowFacts, FirstRowIsRow
  <1>10. pos \in Nat /\ (pos # 0 => pos <= Len(rows) /\ rows[pos] # NoRow)
    BY <1>9
  <1>11. DOMAIN info.map = {}
    BY <1>4
  <1>12. RisingTo(info, pos)
    BY <1>11 DEF RisingTo, RisingMap
  <1>13. info.point => Filled(info, rows, pos)
    <2>1. SUFFICES ASSUME info.point, NEW k \in Keys, NEW i
                   PROVE  Has(LookupInteger(info, k), i) <=>
                            i \in 1 .. Len(rows) /\ rows[i] = k /\ (pos = 0 \/ i < pos)
      BY DEF Filled
    <2>2. LookupInteger(info, k) = <<>> /\ Len(<<>>) = 0 /\ \A n : n \notin 1 .. 0
      BY <1>11 DEF LookupInteger
    <2>3. ~Has(LookupInteger(info, k), i)
      BY <2>2 DEF Has
    <2>4. ASSUME i \in 1 .. Len(rows), rows[i] = k PROVE ~(pos = 0 \/ i < pos)
      <3>1. i \in Nat /\ 1 <= i /\ i <= Len(rows) /\ rows[i] # NoRow
        BY <1>6, <2>4, CatalogAssumption DEF CatalogAssumption
      <3>2. pos = FirstRow(rows, 1)
        BY <2>1
      <3>3. pos # 0 /\ pos <= i
        BY <1>9, <3>1, <3>2
      <3> HIDE DEF pos
      <3>4. QED
        BY <1>10, <3>1, <3>3
    <2>5. QED
      BY <2>3, <2>4
  <1> HIDE DEF pos
  <1>14. /\ d.stage = "build" /\ d.info = info /\ d.source = o /\ d.pos = pos
         /\ {"calm", "before"} \subseteq DOMAIN d
    OBVIOUS
  <1> HIDE DEF d
  <1>15. Filling(d, tables, tableNames)
    BY <1>4, <1>8, <1>10, <1>12, <1>13, <1>14 DEF Filling, rows
  <1>16. AloneOK(d, tables, tableNames, indexes)
    BY <1>14, <1>15 DEF AloneOK
  <1>17. \A u \in Sessions : session'[u] = IF u = s THEN d ELSE session[u]
    BY <1>1, <1>2
  <1>18. \A u \in Sessions : AloneOK(session'[u], tables, tableNames, indexes)
    BY <1>16, <1>17 DEF AInv
  <1>19. QED
    BY <1>1, <1>18 DEF AInv

\* A statement that others disturb is not judged.
LEMMA SeenUnjudged ==
  ASSUME NEW s, NEW tabs, NEW u \in Sessions, u # s, "stage" \in DOMAIN session[u],
         session[u].stage \notin {"idle", "planned"},
         {"calm", "before"} \subseteq DOMAIN session[u]
  PROVE  /\ DOMAIN Seen(s, tabs)[u] = DOMAIN session[u]
         /\ Seen(s, tabs)[u].calm = FALSE /\ Seen(s, tabs)[u].stage = session[u].stage
  <1> DEFINE c == session[u]
             now == Matching(tabs, c.source, c.pred)
             b == [c EXCEPT !.calm = FALSE, !.before = <<>>]
             other == [b EXCEPT !.must = @ \cap now, !.may = @ \cup now]
  <1>1. Seen(s, tabs)[u] = other
    BY DEF Seen, Disturbed
  <1>2. "stage" \in DOMAIN c /\ {"calm", "before"} \subseteq DOMAIN c
    OBVIOUS
  <1> HIDE DEF c, now
  <1>3. DOMAIN b = DOMAIN c /\ b.calm = FALSE /\ b.stage = c.stage
    BY <1>2
  <1> HIDE DEF b
  <1>4. DOMAIN other = DOMAIN c /\ other.calm = FALSE /\ other.stage = c.stage
    BY <1>2, <1>3
  <1> HIDE DEF other
  <1>5. QED
    BY <1>1, <1>4 DEF c

LEMMA OthersAlone ==
  ASSUME AInv, NEW s, NEW tabs, NEW idx, NEW u \in Sessions, u # s
  PROVE  AloneOK(Seen(s, tabs)[u], tabs, tableNames, idx)
  <1> DEFINE c == session[u]
             e == Seen(s, tabs)[u]
             now == Matching(tabs, c.source, c.pred)
  <1>1. /\ AloneOK(c, tables, tableNames, indexes) /\ "stage" \in DOMAIN c
        /\ StatementOK(c, tables, tableNames, indexes, nextIndexOid)
    BY AloneOne
  <1>2. CASE c.stage \in {"idle", "planned"}
    <2>1. e = c
      BY <1>2 DEF Seen
    <2> HIDE DEF c, e
    <2>2. AloneOK(e, tabs, tableNames, idx)
      BY <1>1, <1>2, <2>1 DEF AloneOK
    <2>3. QED
      BY <2>2 DEF e
  <1>3. CASE c.stage \notin {"idle", "planned"}
    <2>1. {"calm", "before"} \subseteq DOMAIN c
      BY <1>1, <1>3 DEF AloneOK
    <2>2. DOMAIN e = DOMAIN c /\ e.calm = FALSE /\ e.stage = c.stage
      BY <1>1, <1>3, <2>1, SeenUnjudged, ZenonT(60)
    <2>3. SeenAs(c, e, now, u = s)
      BY <1>1, <1>3, SeenFields
    <2> HIDE DEF c, e, now
    <2>4. ASSUME c.stage = "build" PROVE Filling(e, tabs, tableNames)
      <3>1. {"info", "oid", "pos", "source"} \subseteq DOMAIN c /\ Filling(c, tables, tableNames)
        BY <1>1, <2>4 DEF StatementOK, FillOK, AloneOK
      <3>2. e.info = c.info /\ e.pos = c.pos /\ e.source = c.source
        BY <2>3, <3>1 DEF SeenAs
      <3>3. QED
        BY <2>2, <3>1, <3>2 DEF Filling
    <2>5. AloneOK(e, tabs, tableNames, idx)
      BY <1>1, <1>3, <2>1, <2>2, <2>4 DEF AloneOK, Judged
    <2>6. QED
      BY <2>5 DEF e
  <1>4. QED
    BY <1>2, <1>3

\* A statement's own step leaves it judged.
LEMMA SeenMine ==
  ASSUME NEW s \in Sessions, NEW tabs, session[s].stage \notin {"idle", "planned"}
  PROVE  \A f \in DOMAIN session[s] : f # "may" => Seen(s, tabs)[s][f] = session[s][f]
  <1> DEFINE c == session[s]
             now == Matching(tabs, c.source, c.pred)
             mine == [c EXCEPT !.may = @ \cup now]
  <1>1. Seen(s, tabs)[s] = mine
    BY DEF Seen
  <1> HIDE DEF c, now
  <1>2. \A f \in DOMAIN c : f # "may" => mine[f] = c[f]
    OBVIOUS
  <1> HIDE DEF mine
  <1>3. QED
    BY <1>1, <1>2 DEF c

LEMMA FilledIsExact ==
  ASSUME NEW info, NEW tabs, NEW names, MapOK(info), RisingMap(info),
         Filled(info, tabs[names[info.table]].rows, 0)
  PROVE  ExactIn(info, tabs, names)
  <1> SUFFICES ASSUME NEW k \in Keys
               PROVE  /\ Range(LookupInteger(info, k)) = Matching(tabs, names[info.table], {k})
                      /\ Len(LookupInteger(info, k)) = Cardinality(Range(LookupInteger(info, k)))
    BY DEF ExactIn
  <1>1. PICK q : q = LookupInteger(info, k)
    OBVIOUS
  <1>2. q \in Seq(Rids) /\ Rising(q)
    <2>1. CASE k \in DOMAIN info.map
      BY <1>1, <2>1 DEF LookupInteger, MapOK, RisingMap
    <2>2. CASE k \notin DOMAIN info.map
      <3>1. q = <<>> /\ Len(<<>>) = 0 /\ \A n : n \notin 1 .. 0
        BY <1>1, <2>2 DEF LookupInteger
      <3>2. QED
        BY <3>1 DEF Rising
    <2>3. QED
      BY <2>1, <2>2
  <1>3. Len(q) = Cardinality(Range(q))
    BY <1>2, RisingOnce, CountOnce
  <1>4. \A i : Has(q, i) <=>
          i \in 1 .. Len(tabs[names[info.table]].rows) /\ tabs[names[info.table]].rows[i] = k
    BY <1>1 DEF Filled
  <1>5. \A i : i \in Range(q) <=> i \in Matching(tabs, names[info.table], {k})
    BY <1>2, <1>4, RangeHas DEF Matching
  <1>6. QED
    BY <1>1, <1>3, <1>5

LEMMA AloneIndexEnters ==
  ASSUME AInv, VInv', NEW s \in Sessions, CreateIndexRegister(s)
  PROVE  AInv'
  <1> DEFINE seen == Seen(s, tables)
  <1>0. PICK c, info, oid : c = session[s] /\ info = c.info /\ oid = c.oid
    OBVIOUS
  <1>1. /\ c.stage = "build" /\ c.pos = 0 /\ RegisterIndex(oid, info)
        /\ session' = [seen EXCEPT ![s].stage = "done"]
    BY <1>0 DEF CreateIndexRegister, Ready
  <1>2. tables' = tables /\ tableNames' = tableNames
    BY <1>1 DEF RegisterIndex
  <1>3. /\ FillOK(c, tables, indexes, nextIndexOid) /\ Filling(c, tables, tableNames)
        /\ {"calm", "before", "stage"} \subseteq DOMAIN c
    BY <1>0, <1>1, AloneOne DEF StatementOK, AloneOK
  <1>4. /\ MapOK(info) /\ oid \notin DOMAIN indexes /\ RisingMap(info)
        /\ {"kind", "info", "oid"} \subseteq DOMAIN c /\ c.kind = "create"
    BY <1>0, <1>3 DEF FillOK, Filling, RisingTo
  <1>5. indexes' = Put(indexes, oid, info)
    BY <1>1 DEF RegisterIndex
  <1>6. indexes'[oid] = info /\ \A o \in DOMAIN indexes' : RisingMap(indexes'[o])
    BY <1>4, <1>5 DEF Put, AInv
  <1>7. c.calm /\ info.point => ExactIn(info, tables, tableNames)
    <2>1. c.calm /\ info.point => Filled(info, tables[tableNames[info.table]].rows, 0)
      BY <1>0, <1>1, <1>3 DEF Filling
    <2>2. QED
      BY <1>4, <2>1, FilledIsExact
  <1>8. /\ DOMAIN seen = Sessions
        /\ \A f \in DOMAIN c : f # "may" => seen[s][f] = c[f]
    BY <1>0, <1>1, SeenMine DEF Seen
  <1>9. \A u \in Sessions : u # s => AloneOK(seen[u], tables, tableNames, indexes')
    BY OthersAlone
  <1>10. DOMAIN seen[s] = DOMAIN c
    <2>1. "stage" \in DOMAIN session[s] /\ session[s].stage \notin {"idle", "planned"}
      BY <1>0, <1>1, <1>3
    <2>2. SeenAs(session[s], seen[s],
                 Matching(tables, session[s].source, session[s].pred), s = s)
      BY <2>1, SeenFields, ZenonT(60)
    <2> HIDE DEF seen
    <2>3. QED
      BY <1>0, <2>2 DEF SeenAs
  <1> HIDE DEF seen
  <1> PICK d : d = session'[s]
    OBVIOUS
  <1>11. /\ d.stage = "done" /\ d.kind = "create" /\ d.calm = c.calm /\ d.info = info
         /\ d.oid = oid /\ {"calm", "before"} \subseteq DOMAIN d
    BY <1>0, <1>1, <1>3, <1>4, <1>8, <1>10
  <1>12. AloneOK(d, tables, tableNames, indexes')
    BY <1>6, <1>7, <1>11 DEF AloneOK
  <1>13. \A u \in Sessions : session'[u] = IF u = s THEN d ELSE seen[u]
    BY <1>1, <1>8
  <1>14. \A u \in Sessions : AloneOK(session'[u], tables', tableNames', indexes')
    BY <1>2, <1>9, <1>12, <1>13
  <1>15. QED
    BY <1>2, <1>6, <1>14 DEF AInv

LEMMA AloneIndexDrops ==
  ASSUME AInv, VInv', NEW s \in Sessions, DropIndexStep(s)
  PROVE  AInv'
  <1> DEFINE seen == Seen(s, tables)
             c == session[s]
  <1>1. PICK index, table : DropIndex(index, table)
    BY DEF DropIndexStep, Matched
  <1>2. PICK rest : session' = [seen EXCEPT ![s].stmt.names = rest]
    BY DEF DropIndexStep
  <1>3. c.stage = "planned" /\ c.kind = "drop"
    BY DEF DropIndexStep, Ready
  <1>4. /\ tables' = tables /\ tableNames' = tableNames
        /\ indexes' = Restrict(indexes, DOMAIN indexes \ {GetIndex(index, table)})
    BY <1>1 DEF DropIndex
  <1>5. \A o \in DOMAIN indexes' : RisingMap(indexes'[o])
    BY <1>4 DEF Restrict, AInv
  <1>6. \A u \in Sessions : u # s => AloneOK(seen[u], tables, tableNames, indexes')
    BY OthersAlone
  <1>7. DOMAIN seen = Sessions /\ seen[s] = c
    BY <1>3 DEF Seen
  <1>8. "stage" \in DOMAIN c /\ "kind" \in DOMAIN c
    BY <1>3, AloneOne DEF StatementOK, PlanOK
  <1> HIDE DEF seen, c
  <1> PICK d : d = session'[s]
    OBVIOUS
  <1>9. d.stage = "planned" /\ d.kind = "drop"
    BY <1>2, <1>3, <1>7, <1>8
  <1>10. AloneOK(d, tables, tableNames, indexes')
    BY <1>9 DEF AloneOK
  <1>11. \A u \in Sessions : session'[u] = IF u = s THEN d ELSE seen[u]
    BY <1>2, <1>7
  <1>12. \A u \in Sessions : AloneOK(session'[u], tables', tableNames', indexes')
    BY <1>4, <1>6, <1>10, <1>11
  <1>13. QED
    BY <1>4, <1>5, <1>12 DEF AInv

LEMMA AloneLoads ==
  ASSUME AInv, VInv', Whole(tables'), sent = 0, session' = session, indexes' = indexes
  PROVE  AInv'
  <1>1. \A s \in Sessions : session[s].stage = "idle"
    BY DEF AInv, VInv, Running
  <1>2. \A s \in Sessions : AloneOK(session'[s], tables', tableNames', indexes')
    BY <1>1 DEF AloneOK
  <1>3. QED
    BY <1>2 DEF AInv

LEMMA WholeRows ==
  ASSUME NEW tabs, NEW S, tabs \in Seq(S), Whole(tabs), NEW t \in 1 .. Len(tabs), NEW r
  PROVE  Whole([tabs EXCEPT ![t].rows = r])
  <1> DEFINE w == [tabs[t] EXCEPT !.rows = r]
             next == [tabs EXCEPT ![t].rows = r]
  <1>1. PICK n, q : tabs[t] = [name |-> n, rows |-> q]
    BY DEF Whole
  <1>2. w = [name |-> n, rows |-> r]
    BY <1>1
  <1>3. next = [tabs EXCEPT ![t] = w]
    OBVIOUS
  <1> HIDE DEF w, next
  <1>4. Len(next) = Len(tabs) /\ \A o \in 1 .. Len(tabs) : next[o] = IF o = t THEN w ELSE tabs[o]
    BY <1>3
  <1>5. w = [name |-> w.name, rows |-> w.rows]
    BY <1>2
  <1>6. Whole(next)
    BY <1>4, <1>5 DEF Whole
  <1>7. QED
    BY <1>6 DEF next

LEMMA AloneTable ==
  ASSUME AInv, VInv', NEW t, LoadTable(t)
  PROVE  AInv'
  <1> DEFINE e == [name |-> t, rows |-> <<>>]
  <1>1. /\ tables' = Append(tables, e) /\ sent = 0 /\ indexes' = indexes /\ session' = session
    BY DEF LoadTable, CreateTable
  <1>2. e = [name |-> e.name, rows |-> e.rows]
    OBVIOUS
  <1> HIDE DEF e
  <1>3. PICK S : tables \in Seq(S)
    BY DEF AInv, VInv, TablesAgree
  <1>4. \A o \in 1 .. Len(tables') :
          (o \in 1 .. Len(tables) /\ tables'[o] = tables[o]) \/ tables'[o] = e
    <2> DEFINE T == S \cup {e}
    <2>1. tables \in Seq(T) /\ e \in T
      BY <1>3
    <2> HIDE DEF T
    <2>2. QED
      BY <1>1, <2>1
  <1>5. Whole(tables')
    BY <1>2, <1>4 DEF Whole, AInv
  <1>6. QED
    BY <1>1, <1>5, AloneLoads

LEMMA AloneRow ==
  ASSUME AInv, VInv', NEW t, NEW k \in Keys, LoadRow(t, k)
  PROVE  AInv'
  <1>1. PICK o, r : o = GetTable(t) /\ r = Append(tables[o].rows, k)
    OBVIOUS
  <1>2. /\ tables' = [tables EXCEPT ![o].rows = r] /\ sent = 0 /\ t \in DOMAIN tableNames
        /\ indexes' = indexes /\ session' = session
    BY <1>1 DEF LoadRow
  <1>3. o \in 1 .. Len(tables)
    BY <1>1, <1>2 DEF AInv, VInv, TablesAgree, GetTable
  <1>4. PICK S : tables \in Seq(S)
    BY DEF AInv, VInv, TablesAgree
  <1>5. Whole([tables EXCEPT ![o].rows = r])
    BY <1>3, <1>4, WholeRows DEF AInv
  <1>6. QED
    BY <1>2, <1>5, AloneLoads

\* One more row is dealt with.
LEMMA InsertedRow ==
  ASSUME NEW set, NEW base \in Seq(Slots), NEW src, NEW out \in Seq(Rids), out # <<>>,
         NEW now \in Seq(Slots), NEW row \in Slots, row = src[out[Len(out)]],
         Changed("insert", set, base, src, out, Len(out) - 1, now)
  PROVE  Changed("insert", set, base, src, out, Len(out), Append(now, row))
  <1> DEFINE a == Append(now, row)
             n == Len(out)
  <1>1. /\ n \in Nat /\ n >= 1 /\ Len(base) \in Nat /\ Len(now) \in Nat
    OBVIOUS
  <1>2. /\ Len(now) = Len(base) + (n - 1)
        /\ \A i \in 1 .. Len(base) : now[i] = base[i]
        /\ \A m \in 1 .. (n - 1) : now[Len(base) + m] = src[out[m]]
    BY DEF Changed
  <1>3. Len(a) = Len(now) + 1 /\ a[Len(now) + 1] = row /\ \A i \in 1 .. Len(now) : a[i] = now[i]
    OBVIOUS
  <1>4. row = src[out[n]]
    OBVIOUS
  <1> HIDE DEF a, n
  <1>5. Len(a) = Len(base) + n /\ Len(now) + 1 = Len(base) + n
    BY <1>1, <1>2, <1>3
  <1>6. \A i \in 1 .. Len(base) : i \in 1 .. Len(now)
    BY <1>1, <1>2
  <1>7. ASSUME NEW m \in 1 .. n PROVE a[Len(base) + m] = src[out[m]]
    <2>1. CASE m = n
      BY <1>3, <1>4, <1>5, <2>1
    <2>2. CASE m # n
      <3>1. m \in 1 .. (n - 1) /\ Len(base) + m \in 1 .. Len(now)
        BY <1>1, <1>2, <2>2
      <3>2. QED
        BY <1>2, <1>3, <3>1
    <2>3. QED
      BY <2>1, <2>2
  <1>8. Changed("insert", set, base, src, out, n, a)
    BY <1>2, <1>3, <1>5, <1>6, <1>7 DEF Changed
  <1>9. QED
    BY <1>8 DEF a, n

LEMMA HitsOneMore ==
  ASSUME NEW out \in Seq(Rids), out # <<>>, NEW i
  PROVE  Hit(out, Len(out), i) <=> Hit(out, Len(out) - 1, i) \/ i = out[Len(out)]
  <1>1. Len(out) \in Nat /\ Len(out) >= 1
    OBVIOUS
  <1>2. \A m : m \in 1 .. Len(out) <=> m \in 1 .. (Len(out) - 1) \/ m = Len(out)
    BY <1>1
  <1>3. QED
    BY <1>2 DEF Hit

LEMMA ChangedRow ==
  ASSUME NEW kind \in {"update", "delete"}, NEW set, NEW base \in Seq(Slots),
         NEW out \in Seq(Rids), out # <<>>, Once(out), NEW now \in Seq(Slots), NEW v,
         out[Len(out)] \in 1 .. Len(base),
         v = IF kind = "update" THEN set[base[out[Len(out)]]] ELSE NoRow,
         Changed(kind, set, base, base, out, Len(out) - 1, now)
  PROVE  Changed(kind, set, base, base, out, Len(out), [now EXCEPT ![out[Len(out)]] = v])
  <1> DEFINE n == Len(out)
             x == out[n]
             e == [now EXCEPT ![x] = v]
  <1>1. Len(now) = Len(base) /\ x \in 1 .. Len(now)
    BY DEF Changed
  <1>2. Len(e) = Len(now) /\ \A i \in 1 .. Len(now) : e[i] = IF i = x THEN v ELSE now[i]
    <2> HIDE DEF x
    <2>1. DOMAIN e = DOMAIN now /\ DOMAIN now = 1 .. Len(now) /\ Len(now) \in Nat
      OBVIOUS
    <2>2. e \in [1 .. Len(now) -> Slots \cup {v}]
      BY <1>1, <2>1
    <2>3. e \in Seq(Slots \cup {v})
      BY <2>1, <2>2
    <2>4. Len(e) = Len(now)
      BY <1>1
    <2>5. QED
      BY <1>1, <2>1, <2>4
  <1>3. \A i : Hit(out, n, i) <=> Hit(out, n - 1, i) \/ i = x
    BY HitsOneMore
  <1>4. v = IF kind = "update" THEN set[base[x]] ELSE NoRow
    OBVIOUS
  <1>5. /\ kind = "update" => \A i \in 1 .. Len(base) :
             now[i] = IF Hit(out, n - 1, i) THEN set[base[i]] ELSE base[i]
        /\ kind = "delete" => \A i \in 1 .. Len(base) :
             now[i] = IF Hit(out, n - 1, i) THEN NoRow ELSE base[i]
    BY DEF Changed
  <1> HIDE DEF n, x, e
  <1>6. Changed(kind, set, base, base, out, n, e)
    BY <1>1, <1>2, <1>3, <1>4, <1>5 DEF Changed
  <1>7. QED
    BY <1>6 DEF n, x, e

LEMMA AloneChanges ==
  ASSUME AInv, VInv', NEW s \in Sessions, session[s].stage = "apply",
         session[s].kind # "select", NEW rows, NEW stage \in {"scan", "crashed"},
         ChangeRows(s, session[s].table, rows, 1, stage),
         Judged(session[s]) =>
           /\ stage = "scan"
           /\ Changed(session[s].kind, session[s].set,
                      session[s].before[session[s].table].rows,
                      session[s].before[session[s].source].rows,
                      session[s].out, Len(session[s].out), rows)
  PROVE  AInv'
  <1>1. PICK c, t : c = session[s] /\ t = c.table
    OBVIOUS
  <1>2. /\ c.stage = "apply" /\ c.kind # "select" /\ ChangeRows(s, t, rows, 1, stage)
        /\ Judged(c) =>
             /\ stage = "scan"
             /\ Changed(c.kind, c.set, c.before[t].rows, c.before[c.source].rows, c.out,
                        Len(c.out), rows)
    BY <1>1
  <1> DEFINE tabs == [tables EXCEPT ![t].rows = rows]
             seen == Seen(s, tabs)
  <1>3. /\ tables' = tabs /\ tableNames' = tableNames /\ indexes' = indexes
        /\ session' = [seen EXCEPT ![s].stage = stage, ![s].row = NoRow,
                                     ![s].count = @ + 1]
    BY <1>2 DEF ChangeRows
  <1>4. /\ ScanOK(c, tables) /\ AloneOK(c, tables, tableNames, indexes) /\ "stage" \in DOMAIN c
    BY <1>1, <1>2, AloneOne DEF StatementOK
  <1>5. /\ ScanFields \subseteq DOMAIN c /\ {"calm", "before", "count", "held"} \subseteq DOMAIN c
        /\ t \in 1 .. Len(tables) /\ c.out \in Seq(Rids) /\ c.out # <<>>
    BY <1>1, <1>2, <1>4 DEF ScanOK, AloneOK
  <1>6. PICK S : tables \in Seq(S)
    BY DEF AInv, VInv, TablesAgree
  <1>7. Whole(tabs)
    BY <1>5, <1>6, WholeRows DEF AInv
  <1>8. \A u \in Sessions : u # s => AloneOK(seen[u], tabs, tableNames, indexes)
    BY OthersAlone
  <1>9. /\ DOMAIN seen = Sessions /\ DOMAIN seen[s] = DOMAIN c
        /\ \A f \in DOMAIN c : f # "may" => seen[s][f] = c[f]
    <2>1. \A f \in DOMAIN c : f # "may" => seen[s][f] = c[f]
      BY <1>1, <1>2, SeenMine
    <2>2. DOMAIN seen[s] = DOMAIN c
      <3>1. "stage" \in DOMAIN session[s] /\ session[s].stage \notin {"idle", "planned"}
        BY <1>1, <1>2, <1>4
      <3>2. SeenAs(session[s], seen[s],
                   Matching(tabs, session[s].source, session[s].pred), s = s)
        BY <3>1, SeenFields, ZenonT(60)
      <3> HIDE DEF seen
      <3>3. QED
        BY <1>1, <3>2 DEF SeenAs
    <2>3. DOMAIN seen = Sessions
      BY DEF Seen
    <2>4. QED
      BY <2>1, <2>2, <2>3
  <1>10. Judged(c) => tabs = [c.before EXCEPT ![t].rows = rows] /\ tabs[t].rows = rows
                      /\ Len(tabs) = Len(tables)
    <2>1. SUFFICES ASSUME Judged(c)
                   PROVE  /\ tabs = [c.before EXCEPT ![t].rows = rows] /\ tabs[t].rows = rows
                          /\ Len(tabs) = Len(tables)
      OBVIOUS
    <2>2. Effect(c, tables)
      BY <1>2, <1>4, <2>1 DEF AloneOK
    <2>3. PICK B, before, r : before \in Seq(B) /\ before = c.before /\ r = tables[t].rows
      BY <2>2 DEF Effect, BeforeOK
    <2>4. /\ t \in 1 .. Len(before) /\ "rows" \in DOMAIN before[t] /\ Len(before) = Len(tables)
          /\ tables = [before EXCEPT ![t].rows = r]
      BY <1>1, <2>2, <2>3 DEF Effect, BeforeOK
    <2>5. [[before EXCEPT ![t].rows = r] EXCEPT ![t].rows = rows]
            = [before EXCEPT ![t].rows = rows]
      <3>1. before \in Seq(B)
        BY <2>3
      <3>2. t \in 1 .. Len(before) /\ "rows" \in DOMAIN before[t]
        BY <2>4
      <3>3. WithRows(WithRows(before, t, r), t, rows) = WithRows(before, t, rows)
        BY <3>1, <3>2, ChangedTwice
      <3>4. QED
        BY <3>3 DEF WithRows
    <2>6. tabs = [before EXCEPT ![t].rows = rows]
      BY <2>4, <2>5
    <2>7. /\ [before EXCEPT ![t].rows = rows][t].rows = rows
          /\ Len([before EXCEPT ![t].rows = rows]) = Len(before)
      BY <2>3, <2>4, OtherTables
    <2> HIDE DEF tabs
    <2>8. QED
      BY <2>3, <2>4, <2>6, <2>7
  <1> HIDE DEF tabs, seen
  <1> PICK d : d = session'[s]
    OBVIOUS
  <1>11. /\ DOMAIN d = DOMAIN c /\ d.stage = stage /\ d.kind = c.kind /\ d.table = c.table
         /\ d.source = c.source /\ d.pred = c.pred /\ d.set = c.set /\ d.via = c.via
         /\ d.must = c.must /\ d.exact = c.exact /\ d.calm = c.calm /\ d.before = c.before
         /\ d.held = c.held /\ d.out = c.out /\ d.pos = c.pos /\ d.rids = c.rids
         /\ d.count = c.count + 1
    <2> DEFINE e == seen[s]
    <2>1. /\ e.kind = c.kind /\ e.table = c.table /\ e.source = c.source /\ e.pred = c.pred
          /\ e.set = c.set /\ e.via = c.via /\ e.must = c.must /\ e.exact = c.exact
          /\ e.calm = c.calm /\ e.before = c.before /\ e.held = c.held /\ e.out = c.out
          /\ e.pos = c.pos /\ e.rids = c.rids /\ e.count = c.count
      BY <1>5, <1>9 DEF ScanFields
    <2>2. DOMAIN seen = Sessions
      BY <1>9
    <2>3. /\ DOMAIN e = DOMAIN c
          /\ ScanFields \cup {"calm", "before", "count", "held"} \subseteq DOMAIN e
      BY <1>5, <1>9
    <2> HIDE DEF e
    <2>4. /\ DOMAIN d = DOMAIN e /\ d.stage = stage
          /\ d.kind = e.kind /\ d.table = e.table /\ d.source = e.source
          /\ d.pred = e.pred /\ d.set = e.set /\ d.via = e.via /\ d.pos = e.pos
          /\ d.rids = e.rids /\ d.out = e.out /\ d.must = e.must /\ d.exact = e.exact
      BY <1>3, <2>2, <2>3 DEF ScanFields, e
    <2>5. d.calm = e.calm /\ d.before = e.before /\ d.held = e.held
      BY <1>3, <2>2, <2>3 DEF e
    <2>6. d.count = e.count + 1
      BY <1>3, <2>2, <2>3 DEF e
    <2>7. QED
      BY <2>1, <2>3, <2>4, <2>5, <2>6
  <1>12. SameStatement(c, d) /\ (Judged(d) <=> Judged(c))
    BY <1>11 DEF SameStatement, Judged, FeedsItself
  <1>13. ASSUME Judged(c) PROVE stage = "scan" /\ Effect(d, tabs) /\ InStep(d, indexes)
    <2>1. Effect(c, tables) /\ InStep(c, indexes) /\ stage = "scan"
      BY <1>2, <1>4, <1>13 DEF AloneOK
    <2>2. BeforeOK(d, tabs)
      BY <1>10, <1>12, <1>13, <2>1 DEF Effect, BeforeOK, SameStatement
    <2>3. Treated(c) = Len(c.out) - 1 /\ Treated(d) = Len(c.out)
      BY <1>2, <1>11, <2>1 DEF Treated
    <2>4. d.count = Treated(d)
      <3>1. c.count = Len(c.out) - 1 /\ Len(c.out) \in Nat
        BY <1>2, <1>5, <2>1, <2>3 DEF Effect
      <3>2. QED
        BY <1>11, <2>3, <3>1
    <2>5. Changed(d.kind, d.set, d.before[d.table].rows, d.before[d.source].rows, d.out,
                  Treated(d), tabs[d.table].rows)
      <3>1. /\ Changed(c.kind, c.set, c.before[t].rows, c.before[c.source].rows, c.out,
                       Len(c.out), rows)
            /\ tabs[t].rows = rows
        BY <1>2, <1>10, <1>13
      <3>2. /\ d.kind = c.kind /\ d.set = c.set /\ d.before = c.before /\ d.table = t
            /\ d.source = c.source /\ d.out = c.out
        BY <1>1, <1>11
      <3>3. QED
        BY <2>3, <3>1, <3>2
    <2>6. tabs = [d.before EXCEPT ![d.table].rows = tabs[d.table].rows]
      <3>1. tabs = [c.before EXCEPT ![t].rows = rows] /\ tabs[t].rows = rows
        BY <1>10, <1>13
      <3>2. d.before = c.before /\ d.table = t
        BY <1>1, <1>11
      <3>3. QED
        BY <3>1, <3>2
    <2>7. /\ d.must = Matching(d.before, d.source, d.pred)
          /\ Rising(d.out) /\ \A n \in 1 .. Len(d.out) : d.out[n] \in d.must
      BY <1>11, <2>1 DEF Effect
    <2>8. Effect(d, tabs)
      BY <1>2, <1>11, <2>2, <2>4, <2>5, <2>6, <2>7 DEF Effect
    <2>9. InStep(d, indexes)
      BY <1>11, <2>1 DEF InStep
    <2>10. QED
      BY <2>1, <2>8, <2>9
  <1>14. AloneOK(d, tabs, tableNames, indexes)
    BY <1>5, <1>11, <1>12, <1>13 DEF AloneOK
  <1>15. \A u \in Sessions : session'[u] = IF u = s THEN d ELSE seen[u]
    BY <1>3, <1>9
  <1>16. \A u \in Sessions : AloneOK(session'[u], tabs, tableNames, indexes)
    BY <1>8, <1>14, <1>15
  <1>17. QED
    BY <1>3, <1>7, <1>16 DEF AInv

LEMMA AloneApplies ==
  ASSUME AInv, VInv', NEW s \in Sessions, ApplyInsert(s) \/ ApplyUpdate(s) \/ ApplyDelete(s)
  PROVE  AInv'
  <1> DEFINE c == session[s]
             o == c.table
             now == tables[o].rows
             base == c.before[o].rows
             src == c.before[c.source].rows
             x == c.out[Len(c.out)]
             stage == IF c.held \subseteq DOMAIN indexes THEN "scan" ELSE "crashed"
  <1>1. c.stage = "apply"
    BY DEF ApplyInsert, ApplyUpdate, ApplyDelete, Ready
  <1>2. ScanOK(c, tables) /\ AloneOK(c, tables, tableNames, indexes)
    BY <1>1, AloneOne DEF StatementOK
  <1>3. /\ o \in 1 .. Len(tables) /\ c.row \in Keys /\ c.out # <<>> /\ c.out \in Seq(Rids)
        /\ c.kind # "insert" => o = c.source
    BY <1>1, <1>2 DEF ScanOK
  <1>4. now \in Seq(Slots)
    BY <1>3 DEF AInv, VInv, TablesTyped
  <1>5. stage \in {"scan", "crashed"} /\ "scan" \in {"scan", "crashed"}
    OBVIOUS
  <1>6. ASSUME Judged(c)
        PROVE  /\ Changed(c.kind, c.set, base, src, c.out, Len(c.out) - 1, now)
               /\ stage = "scan" /\ c.row = src[x] /\ base \in Seq(Slots)
               /\ x \in 1 .. Len(src) /\ Once(c.out)
    <2>1. Effect(c, tables) /\ InStep(c, indexes)
      BY <1>1, <1>2, <1>6 DEF AloneOK
    <2> HIDE DEF c
    <2>2. Treated(c) = Len(c.out) - 1
      BY <1>1 DEF Treated
    <2>3. Len(c.out) \in 1 .. Len(c.out)
      BY <1>3
    <2>4. x \in 1 .. Len(src)
      BY <2>1, <2>3 DEF Effect, Matching
    <2>5. Once(c.out)
      BY <1>3, <2>1, RisingOnce DEF Effect
    <2>6. base \in Seq(Slots)
      BY <2>1 DEF Effect, BeforeOK
    <2>7. Changed(c.kind, c.set, base, src, c.out, Len(c.out) - 1, now)
      BY <2>1, <2>2 DEF Effect
    <2>8. stage = "scan" /\ c.row = src[x]
      BY <1>1, <2>1 DEF InStep
    <2>9. QED
      BY <2>4, <2>5, <2>6, <2>7, <2>8
  <1>7. ASSUME ApplyInsert(s) PROVE AInv'
    <2> DEFINE rows == Append(now, c.row)
    <2>1. ChangeRows(s, c.table, rows, 1, stage) /\ c.kind = "insert"
      BY <1>7 DEF ApplyInsert
    <2>2. Judged(c) => stage = "scan" /\ Changed(c.kind, c.set, base, src, c.out, Len(c.out), rows)
      <3>1. SUFFICES ASSUME Judged(c)
                     PROVE  /\ stage = "scan"
                            /\ Changed(c.kind, c.set, base, src, c.out, Len(c.out), rows)
        OBVIOUS
      <3>2. c.row \in Slots
        BY <1>3 DEF Slots
      <3>3. /\ Changed("insert", c.set, base, src, c.out, Len(c.out) - 1, now)
            /\ stage = "scan" /\ c.row = src[c.out[Len(c.out)]] /\ base \in Seq(Slots)
        BY <1>6, <2>1, <3>1
      <3> HIDE DEF c, now, base, src, stage, x, o
      <3>4. Changed("insert", c.set, base, src, c.out, Len(c.out), Append(now, c.row))
        BY <1>3, <1>4, <3>2, <3>3, InsertedRow
      <3>5. QED
        BY <2>1, <3>3, <3>4
    <2>3. c.kind # "select"
      BY <2>1
    <2> HIDE DEF rows, stage
    <2>4. QED
      BY <1>1, <1>5, <2>1, <2>2, <2>3, AloneChanges
  <1>8. ASSUME NEW v, NEW y \in {"scan", "crashed"}, c.kind \in {"update", "delete"},
               ChangeRows(s, c.table, [now EXCEPT ![x] = v], 1, y),
               Judged(c) => y = "scan",
               v = IF c.kind = "update" THEN c.set[c.row] ELSE NoRow
        PROVE  AInv'
    <2> DEFINE rows == [now EXCEPT ![x] = v]
    <2>1. Judged(c) => y = "scan" /\ Changed(c.kind, c.set, base, src, c.out, Len(c.out), rows)
      <3>1. SUFFICES ASSUME Judged(c)
                     PROVE  y = "scan" /\ Changed(c.kind, c.set, base, src, c.out, Len(c.out), rows)
        OBVIOUS
      <3>2. base = src
        BY <1>3, <1>8
      <3>3. /\ Changed(c.kind, c.set, base, base, c.out, Len(c.out) - 1, now)
            /\ base \in Seq(Slots) /\ Once(c.out)
            /\ c.out[Len(c.out)] \in 1 .. Len(base)
            /\ v = IF c.kind = "update" THEN c.set[base[c.out[Len(c.out)]]] ELSE NoRow
        BY <1>6, <1>8, <3>1, <3>2
      <3>4. y = "scan" /\ c.kind \in {"update", "delete"}
        BY <1>8, <3>1
      <3> HIDE DEF c, now, base, src, stage, o
      <3>5. Changed(c.kind, c.set, base, base, c.out, Len(c.out),
                    [now EXCEPT ![c.out[Len(c.out)]] = v])
        BY <1>3, <1>4, <3>3, <3>4, ChangedRow
      <3>6. QED
        BY <3>2, <3>4, <3>5
    <2>2. ChangeRows(s, c.table, rows, 1, y) /\ c.kind # "select"
      BY <1>8
    <2> HIDE DEF rows
    <2>3. QED
      BY <1>1, <1>8, <2>1, <2>2, AloneChanges
  <1>9. ASSUME ApplyUpdate(s) PROVE AInv'
    <2>1. PICK v : v = c.set[c.row]
      OBVIOUS
    <2>2. c.kind = "update" /\ ChangeRows(s, c.table, [now EXCEPT ![x] = v], 1, "scan")
      BY <1>9, <2>1 DEF ApplyUpdate
    <2>3. /\ c.kind \in {"update", "delete"} /\ (Judged(c) => "scan" = "scan")
          /\ v = IF c.kind = "update" THEN c.set[c.row] ELSE NoRow
      BY <2>1, <2>2
    <2> HIDE DEF c, o, now, x
    <2>4. QED
      BY <1>5, <1>8, <2>2, <2>3
  <1>10. ASSUME ApplyDelete(s) PROVE AInv'
    <2>1. c.kind = "delete" /\ ChangeRows(s, c.table, [now EXCEPT ![x] = NoRow], 1, stage)
      BY <1>10 DEF ApplyDelete
    <2>2. PICK v : v = NoRow
      OBVIOUS
    <2>3. /\ c.kind \in {"update", "delete"} /\ (Judged(c) => stage = "scan")
          /\ v = IF c.kind = "update" THEN c.set[c.row] ELSE NoRow
          /\ ChangeRows(s, c.table, [now EXCEPT ![x] = v], 1, stage)
      BY <1>6, <2>1, <2>2
    <2> HIDE DEF c, o, now, x, stage
    <2>4. QED
      BY <1>5, <1>8, <2>3
  <1>11. QED
    BY <1>7, <1>9, <1>10

LEMMA AInit == Init => AInv
  <1> SUFFICES ASSUME Init PROVE AInv
    OBVIOUS
  <1>1. tables = <<>> /\ indexes = <<>> /\ session = [s \in Sessions |-> Idle]
    BY DEF Init, CatalogInit
  <1>2. DOMAIN << >> = {} /\ Len(<<>>) = 0 /\ 1 .. 0 = {}
    OBVIOUS
  <1>3. AloneOK(Idle, tables, tableNames, indexes)
    BY DEF Idle, AloneOK
  <1>4. \A s \in Sessions : session[s] = Idle
    BY <1>1
  <1>5. Whole(tables) /\ \A o \in DOMAIN indexes : RisingMap(indexes[o])
    BY <1>1, <1>2 DEF Whole
  <1>6. QED
    BY <1>3, <1>4, <1>5, VInit DEF AInv

LEMMA AStep ==
  ASSUME AInv, [Next]_vars
  PROVE  AInv'
  <1>0. VInv'
    BY VStep DEF AInv
  <1>1. CASE UNCHANGED vars
    BY <1>0, <1>1 DEF vars, catalogVars, AInv
  <1>2. ASSUME NEW t, LoadTable(t) \/ \E k \in Keys : LoadRow(t, k)
        PROVE  AInv'
    BY <1>0, <1>2, AloneTable, AloneRow
  <1>3. ASSUME NEW s \in Sessions, NEW t, NEW P,
               \/ PlanSelect(s, t, P) \/ PlanDelete(s, t, P)
               \/ \E e \in Exprs : PlanUpdate(s, t, P, e)
               \/ \E source : PlanInsert(s, t, source, P)
        PROVE  AInv'
    <2>1. PICK kind, source, set : kind \in ScanKinds /\ PlanScan(s, kind, t, source, P, set)
      BY <1>3 DEF PlanSelect, PlanDelete, PlanUpdate, PlanInsert, ScanKinds
    <2>2. QED
      BY <1>0, <2>1, AlonePlansScan
  <1>4. ASSUME NEW s \in Sessions,
               \/ \E i, t, point : PlanCreateIndex(s, i, t, point)
               \/ \E names, missingOk : PlanDropIndex(s, names, missingOk)
        PROVE  AInv'
    BY <1>0, <1>4, AlonePlansUtility
  <1>5. ASSUME NEW s \in Sessions,
               \/ StartScan(s) \/ Pull(s) \/ PullDeleted(s) \/ PullEnd(s)
               \/ ApplyInsert(s) \/ ApplyUpdate(s) \/ ApplyDelete(s) \/ ApplyFails(s)
               \/ ScanCut(s) \/ PullThrows(s) \/ Finish(s)
        PROVE  AInv'
    BY <1>0, <1>5, AloneScanStarts, AlonePulls, AloneCrashes, AloneScanEnds, AloneApplies,
       AloneApplyFails, AloneScanCut, AloneEnds
  <1>6. ASSUME NEW s \in Sessions,
               \/ CreateIndexFails(s) \/ CreateIndexBegin(s) \/ CreateIndexRow(s)
               \/ CreateIndexRowDeleted(s) \/ CreateIndexRegister(s)
               \/ DropIndexStep(s) \/ DropIndexMissing(s) \/ DropIndexThrows(s)
               \/ DropIndexDone(s)
        PROVE  AInv'
    BY <1>0, <1>6, AloneEnds, AloneIndexBegins, AloneIndexRow, AloneCrashes, AloneIndexEnters,
       AloneIndexDrops, AloneDropsNothing
  <1>7. QED
    BY <1>1, <1>2, <1>3, <1>4, <1>5, <1>6 DEF Next

\* The rows that a statement leaves which has dealt with all of M.
AllChanged(kind, set, base, src, out, M, now) ==
  /\ kind = "insert" => now = base \o [n \in 1 .. Len(out) |-> src[out[n]]]
  /\ kind = "update" =>
       now = [i \in 1 .. Len(base) |-> IF i \in M THEN set[base[i]] ELSE base[i]]
  /\ kind = "delete" =>
       now = [i \in 1 .. Len(base) |-> IF i \in M THEN NoRow ELSE base[i]]

LEMMA WholeEffect ==
  ASSUME NEW kind, NEW set, NEW base \in Seq(Slots), NEW src, NEW out \in Seq(Rids),
         NEW now \in Seq(Slots), NEW M, Range(out) = M,
         Changed(kind, set, base, src, out, Len(out), now)
  PROVE  AllChanged(kind, set, base, src, out, M, now)
  <1>1. Len(out) \in Nat /\ Len(base) \in Nat /\ Len(now) \in Nat
    OBVIOUS
  <1>2. \A i : Hit(out, Len(out), i) <=> i \in M
    BY RangeHas DEF Hit, Has
  <1>3. ASSUME kind = "insert"
        PROVE  now = base \o [n \in 1 .. Len(out) |-> src[out[n]]]
    <2> DEFINE m == Len(out)
               g == [n \in 1 .. m |-> src[out[n]]]
               f == base \o g
    <2>1. /\ Len(now) = Len(base) + m
          /\ \A i \in 1 .. Len(base) : now[i] = base[i]
          /\ \A n \in 1 .. m : now[Len(base) + n] = src[out[n]]
      BY <1>3 DEF Changed
    <2> HIDE DEF m
    <2>2. m \in Nat
      BY <1>1 DEF m
    <2>3. g \in Seq(Range(g)) /\ Len(g) = m /\ \A n \in 1 .. m : g[n] = src[out[n]]
      <3>1. g = [n \in 1 .. m |-> g[n]] /\ \A n \in 1 .. m : g[n] = src[out[n]]
        OBVIOUS
      <3> HIDE DEF g
      <3>2. \A n \in 1 .. m : g[n] \in Range(g)
        BY <3>1 DEF Range
      <3>3. g \in Seq(Range(g)) /\ Len(g) = m
        <4>1. g \in [1 .. m -> Range(g)]
          BY <3>1, <3>2
        <4>2. PICK R : R = Range(g)
          OBVIOUS
        <4>3. g \in Seq(R) /\ Len(g) = m
          BY <2>2, <4>1, <4>2
        <4>4. QED
          BY <4>2, <4>3
      <3>4. QED
        BY <3>1, <3>3
    <2> HIDE DEF g
    <2>4. f = [i \in 1 .. (Len(base) + m) |->
                 IF i <= Len(base) THEN base[i] ELSE g[i - Len(base)]]
      <3> DEFINE U == Slots \cup Range(g)
      <3>1. base \in Seq(U) /\ g \in Seq(U)
        BY <2>3
      <3> HIDE DEF U
      <3>2. /\ f \in Seq(U) /\ Len(f) = Len(base) + m
            /\ \A i \in 1 .. Len(f) :
                 f[i] = IF i <= Len(base) THEN base[i] ELSE g[i - Len(base)]
        <4>1. f \in Seq(U) /\ Len(f) = Len(base) + Len(g)
          BY <3>1
        <4>2. \A i \in 1 .. (Len(base) + Len(g)) :
                f[i] = IF i <= Len(base) THEN base[i] ELSE g[i - Len(base)]
          BY <3>1
        <4>3. QED
          BY <2>3, <4>1, <4>2
      <3> HIDE DEF f
      <3>3. f = [i \in 1 .. Len(f) |-> f[i]]
        BY <3>2
      <3>4. QED
        BY <3>2, <3>3
    <2>5. ASSUME NEW i \in 1 .. (Len(base) + m)
          PROVE  now[i] = IF i <= Len(base) THEN base[i] ELSE g[i - Len(base)]
      <3>1. CASE i <= Len(base)
        BY <1>1, <2>1, <2>2, <3>1
      <3>2. CASE ~(i <= Len(base))
        <4>1. PICK n : n = i - Len(base)
          OBVIOUS
        <4>2. n \in 1 .. m /\ i = Len(base) + n
          BY <1>1, <2>2, <3>2, <4>1
        <4>3. now[i] = src[out[n]] /\ g[n] = src[out[n]]
          BY <2>1, <2>3, <4>2
        <4>4. QED
          BY <3>2, <4>1, <4>3
      <3>3. QED
        BY <3>1, <3>2
    <2>6. now = [i \in 1 .. (Len(base) + m) |-> now[i]]
      BY <2>1
    <2>7. now = f
      BY <2>4, <2>5, <2>6
    <2>8. QED
      BY <2>7 DEF m, g
  <1>4. now = [i \in 1 .. Len(now) |-> now[i]]
    OBVIOUS
  <1>5. ASSUME kind = "update"
        PROVE  now = [i \in 1 .. Len(base) |-> IF i \in M THEN set[base[i]] ELSE base[i]]
    BY <1>2, <1>4, <1>5 DEF Changed
  <1>6. ASSUME kind = "delete"
        PROVE  now = [i \in 1 .. Len(base) |-> IF i \in M THEN NoRow ELSE base[i]]
    BY <1>2, <1>4, <1>6 DEF Changed
  <1>7. QED
    BY <1>3, <1>5, <1>6 DEF AllChanged

LEMMA RisingInOrder ==
  ASSUME NEW out \in Seq(Rids), NEW M, Range(out) = M, Rising(out), Len(out) = Cardinality(M)
  PROVE  out \in InOrder(M)
  <1>1. out = [n \in 1 .. Len(out) |-> out[n]] /\ \A n \in 1 .. Len(out) : out[n] \in Range(out)
    BY DEF Range
  <1>2. out \in [1 .. Len(out) -> M]
    BY <1>1
  <1>3. QED
    BY <1>2 DEF InOrder, Rising

LEMMA AloneRight == AInv => AloneMatchesReference
  <1> SUFFICES ASSUME AInv, NEW s \in Sessions, Ended(s), session[s].calm, session[s].exact,
                      ~FeedsItself(session[s])
               PROVE  session[s].stage = "done" /\ Reference(session[s])
    BY DEF AloneMatchesReference
  <1> PICK c : c = session[s]
    OBVIOUS
  <1>1. Judged(c) /\ c.stage \in {"done", "crashed"} /\ c.calm
    BY DEF Judged, Ended
  <1>2. /\ AloneOK(c, tables, tableNames, indexes)
        /\ StatementOK(c, tables, tableNames, indexes, nextIndexOid)
    BY AloneOne
  <1>3. c.stage = "done"
    BY <1>1, <1>2 DEF AloneOK
  <1>4. EndOK(c)
    BY <1>2, <1>3 DEF StatementOK
  <1>5. ASSUME c.kind = "create" PROVE Reference(c)
    <2>1. c.info.point => ExactIn(indexes[c.oid], tables, tableNames)
      BY <1>1, <1>2, <1>3, <1>5 DEF AloneOK
    <2>2. c.info.point => Exact(indexes[c.oid])
      BY <2>1 DEF ExactIn, Exact, GetTable
    <2>3. QED
      BY <1>5, <2>2 DEF Reference
  <1>6. ASSUME c.kind # "create" PROVE Reference(c)
    <2>1. Effect(c, tables)
      BY <1>1, <1>2, <1>3, <1>6 DEF AloneOK
    <2> DEFINE out == c.out
               M == Matching(c.before, c.source, c.pred)
               rows == c.before[c.table].rows
               src == c.before[c.source].rows
               now == tables[c.table].rows
    <2>2. c.must = M /\ Rising(out) /\ \A n \in 1 .. Len(out) : out[n] \in c.must
      BY <2>1 DEF Effect
    <2>3. out \in Seq(Rids) /\ Complete(out, c.must, c.may)
      BY <1>1, <1>4, <1>6 DEF EndOK, Judged
    <2>4. Treated(c) = Len(out)
      BY <1>3 DEF Treated
    <2>5. Changed(c.kind, c.set, rows, src, out, Len(out), now)
      BY <2>1, <2>4 DEF Effect
    <2>6. tables = [c.before EXCEPT ![c.table].rows = now]
      BY <2>1 DEF Effect
    <2>7. c.kind # "select" => c.count = Len(out)
      BY <2>1, <2>4 DEF Effect
    <2>10. c.kind \in ScanKinds /\ rows \in Seq(Slots) /\ c.table \in 1 .. Len(tables)
      BY <2>1 DEF Effect, BeforeOK
    <2>11. now \in Seq(Slots)
      BY <2>10 DEF AInv, VInv, TablesTyped
    <2> HIDE DEF out, M, rows, src, now
    <2>12. M \subseteq Range(out) /\ Len(out) = Cardinality(Range(out))
      BY <2>2, <2>3, CompleteIsRight
    <2>13. Range(out) = M
      BY <2>2, <2>12 DEF Range
    <2>14. Len(out) = Cardinality(M) /\ AllChanged(c.kind, c.set, rows, src, out, M, now)
      BY <2>3, <2>5, <2>10, <2>11, <2>12, <2>13, WholeEffect
    <2>15. ASSUME c.kind = "select" PROVE Reference(c)
      <3>1. tables = c.before
        BY <2>1, <2>15 DEF Effect
      <3>2. QED
        BY <2>13, <2>14, <2>15, <3>1 DEF Reference, out, M
    <2>16. ASSUME c.kind = "insert" PROVE Reference(c)
      <3>1. out \in InOrder(M)
        BY <2>2, <2>3, <2>13, <2>14, RisingInOrder
      <3>2. now = rows \o [n \in 1 .. Len(out) |-> src[out[n]]]
        BY <2>14, <2>16 DEF AllChanged
      <3>3. [n \in 1 .. Len(out) |-> src[out[n]]] = [n \in 1 .. Cardinality(M) |-> src[out[n]]]
        BY <2>14
      <3>4. tables = [c.before EXCEPT ![c.table].rows =
                        rows \o [n \in 1 .. Cardinality(M) |-> src[out[n]]]]
        BY <2>6, <3>2, <3>3
      <3>5. \E f \in InOrder(M) :
              tables = [c.before EXCEPT ![c.table].rows =
                          rows \o [n \in 1 .. Cardinality(M) |-> src[f[n]]]]
        BY <3>1, <3>4
      <3>6. c.count = Cardinality(M)
        BY <2>7, <2>14, <2>16
      <3>7. QED
        BY <2>16, <3>5, <3>6 DEF Reference, M, rows, src
    <2>17. ASSUME c.kind = "update" PROVE Reference(c)
      <3>1. tables = [c.before EXCEPT ![c.table].rows =
                        [i \in 1 .. Len(rows) |-> IF i \in M THEN c.set[rows[i]] ELSE rows[i]]]
        BY <2>6, <2>14, <2>17 DEF AllChanged
      <3>2. c.count = Cardinality(M)
        BY <2>7, <2>14, <2>17
      <3>3. QED
        BY <2>17, <3>1, <3>2 DEF Reference, M, rows
    <2>18. ASSUME c.kind = "delete" PROVE Reference(c)
      <3>1. tables = [c.before EXCEPT ![c.table].rows =
                        [i \in 1 .. Len(rows) |-> IF i \in M THEN NoRow ELSE rows[i]]]
        BY <2>6, <2>14, <2>18 DEF AllChanged
      <3>2. c.count = Cardinality(M)
        BY <2>7, <2>14, <2>18
      <3>3. QED
        BY <2>18, <3>1, <3>2 DEF Reference, M, rows
    <2>19. QED
      BY <2>10, <2>15, <2>16, <2>17, <2>18 DEF ScanKinds
  <1>7. QED
    BY <1>3, <1>5, <1>6

\* For any sessions, tables, rows and indexes: a statement from whose Init to
\* whose end no other session changed the tables or the indexes and no heap
\* call failed, and which scanned the table or an index that described it,
\* does not crash the server and does what SQL says.  SELECT returns the
\* matching rows, UpdateExecutor, DeleteExecutor and InsertExecutor change, or
\* copy in slot order, just these, once each, and count them, and CREATE INDEX
\* enters an index that finds for every key just the rows that have it.
THEOREM AloneStatementsAreRight == Spec => []AloneMatchesReference
  <1>1. AInv /\ [Next]_vars => AInv'
    BY AStep
  <1>2. Spec => []AInv
    BY <1>1, AInit, PTL DEF Spec
  <1>3. QED
    BY <1>2, AloneRight, PTL
=============================================================================
