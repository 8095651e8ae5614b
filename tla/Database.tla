------------------------------ MODULE Database ------------------------------
(***************************************************************************)
(* A statement on its way through the instance: Binder and Optimizer make  *)
(* a plan of it, ExecutionEngine::Execute initialises the executors and    *)
(* pulls rows until there are none (server_main.cpp:HandleQuery).  Every   *)
(* client has a thread of its own and nothing orders the statements of two *)
(* clients: a step here is one call into the catalog or the table heap,    *)
(* and calls of different sessions interleave.                             *)
(*                                                                         *)
(* A row that was deleted since its rid was found reads as an empty tuple, *)
(* and taking a column of it dereferences a null pointer; so does touching *)
(* an IndexInfo that was dropped.  The server is gone then.                *)
(***************************************************************************)
EXTENDS Catalog

CONSTANTS
  Sessions,      \* the connected clients
  MayRun,        \* MayRun[s]: the kinds of statements that s sends
  Exprs,         \* what UPDATE may set the column to, as functions of its value
  MaxLoaded,     \* bounds the rows the tables are filled with
  MaxStatements  \* bounds the statements and the failures of the pool together

ASSUME DatabaseAssumption ==
  /\ MayRun \in [Sessions -> SUBSET {"select", "insert", "update", "delete",
                                     "create", "drop"}]
  /\ Exprs \subseteq [Keys -> Keys]
  /\ {MaxLoaded, MaxStatements} \subseteq Nat

VARIABLES
  session,    \* session[s]: the statement of s and how far it has come
  sent        \* the statements sent, and the pages the heap could not get, so
              \* far; tables are filled before the first

vars == <<catalogVars, session, sent>>

Idle == [stage |-> "idle"]

SeqScan == 0    \* a plan's index oid when it scans the table

\* WHERE, as the keys it accepts: none, or column = constant.
Predicates == {Keys} \cup {{k} : k \in Keys}
IsEquality(P) == \E k \in Keys : P = {k}

Up == \A s \in Sessions : session[s].stage # "crashed"

Ready(s, stage) == Up /\ session[s].stage = stage

Init ==
  /\ CatalogInit
  /\ session = [s \in Sessions |-> Idle]
  /\ sent = 0

\* Tables and their first rows do not come from SQL: INSERT takes its rows
\* from a SELECT, and there is no CREATE TABLE.  The program around the
\* instance makes them with CreateTable and TableHeap::InsertTuple.
LoadTable(t) ==
  /\ sent = 0
  /\ CreateTable(t)
  /\ UNCHANGED <<session, sent>>

LoadRow(t, k) ==
  /\ sent = 0 /\ t \in DOMAIN tableNames
  /\ Len(tables[GetTable(t)].rows) < MaxSlots
  /\ SumFunction([o \in DOMAIN tables |-> Len(tables[o].rows)]) < MaxLoaded
  /\ tables' = [tables EXCEPT ![GetTable(t)].rows = Append(@, k)]
  /\ UNCHANGED <<tableNames, indexes, indexNames, nextIndexOid, session, sent>>

\* A statement whose effect is no longer judged as if it were alone.
Disturbed(c) == [c EXCEPT !.calm = FALSE, !.before = <<>>]

\* What session s does to the tables, seen by the others: their statements
\* are no longer alone, a row that stops matching need not be found, a row
\* that starts to match may be.
Seen(s, tabs) ==
  [u \in Sessions |->
     IF session[u].stage \in {"idle", "planned"} THEN session[u]
     ELSE LET now == Matching(tabs, session[u].source, session[u].pred) IN
          IF u = s THEN [session[u] EXCEPT !.may = @ \cup now]
          ELSE [Disturbed(session[u]) EXCEPT !.must = @ \cap now, !.may = @ \cup now]]

Unseen == UNCHANGED catalogVars

\* FetchPage returns nullptr.
Fault == sent < MaxStatements /\ sent' = sent + 1 /\ Unseen

-----------------------------------------------------------------------------
(* Binder::BindQuery and Optimizer::Optimize.                              *)

\* OptimizeSeqScanToIndexScan: for an equality, the first index on the column
\* that the catalog's unordered_map iterates over.
OptimizeSeqScanToIndexScan(o, P) ==
  LET usable == {i \in GetTableIndexes(tables[o].name) : indexes[i].point} IN
  IF IsEquality(P) /\ usable # {} THEN usable ELSE {SeqScan}

PlanScan(s, kind, table, source, P, set) ==
  /\ Ready(s, "idle") /\ sent < MaxStatements /\ kind \in MayRun[s]
  /\ {table, source} \subseteq DOMAIN tableNames
  /\ kind # "insert" => table = source
  /\ \E via \in OptimizeSeqScanToIndexScan(GetTable(source), P) :
       session' = [session EXCEPT ![s] =
         [stage |-> "planned", kind |-> kind, table |-> GetTable(table),
          source |-> GetTable(source), pred |-> P, set |-> set, via |-> via]]
  /\ sent' = sent + 1
  /\ Unseen

PlanSelect(s, t, P) == PlanScan(s, "select", t, t, P, <<>>)
PlanDelete(s, t, P) == PlanScan(s, "delete", t, t, P, <<>>)
PlanUpdate(s, t, P, set) == PlanScan(s, "update", t, t, P, set)
PlanInsert(s, t, source, P) == PlanScan(s, "insert", t, source, P, <<>>)

PlanUtility(s, kind, stmt) ==
  /\ Ready(s, "idle") /\ sent < MaxStatements /\ kind \in MayRun[s]
  /\ session' = [session EXCEPT ![s] = [stage |-> "planned", kind |-> kind, stmt |-> stmt]]
  /\ sent' = sent + 1
  /\ Unseen

PlanCreateIndex(s, index, t, point) ==
  /\ t \in DOMAIN tableNames
  /\ PlanUtility(s, "create", NewIndexInfo(index, t, point))

PlanDropIndex(s, names, missingOk) ==
  PlanUtility(s, "drop", [names |-> names, missing_ok |-> missingOk])

-----------------------------------------------------------------------------
(* The scans under every other executor.                                   *)

\* TableHeap::Begin and operator++: the first row at or after slot i, 0 at End().
FirstRow(rows, i) ==
  LET live == {j \in i .. Len(rows) : rows[j] # NoRow} IN
  IF live = {} THEN 0 ELSE CHOOSE j \in live : \A l \in live : j <= l

\* IndexScanExecutor::Init copies the rids, none if the index is gone.
\* InsertExecutor and DeleteExecutor keep pointers to the table's indexes,
\* which they collect when the first row is asked for, right after Init.
StartScan(s) ==
  LET c == session[s]
      rows == tables[c.source].rows
      matching == Matching(tables, c.source, c.pred)
  IN
  /\ Ready(s, "planned") /\ c.kind \in {"select", "insert", "update", "delete"}
  /\ session' = [session EXCEPT ![s] =
       [stage |-> "scan", kind |-> c.kind, table |-> c.table, source |-> c.source,
        pred |-> c.pred, set |-> c.set, via |-> c.via,
        pos |-> IF c.via = SeqScan THEN FirstRow(rows, 1) ELSE 0,
        rids |-> IF c.via \in DOMAIN indexes
                 THEN LookupInteger(indexes[c.via], CHOOSE k \in c.pred : TRUE)
                 ELSE <<>>,
        held |-> IF c.kind \in {"insert", "delete"}
                 THEN GetTableIndexes(tables[c.table].name) ELSE {},
        out |-> <<>>, row |-> NoRow, count |-> 0,
        before |-> tables, calm |-> TRUE, must |-> matching, may |-> matching,
        exact |-> c.via = SeqScan \/ (c.via \in DOMAIN indexes /\ Exact(indexes[c.via]))]]
  /\ UNCHANGED sent
  /\ Unseen

\* The rid the scan is at, 0 when there is none left.
Current(c) == IF c.via = SeqScan THEN c.pos
              ELSE IF c.rids = <<>> THEN 0 ELSE Head(c.rids)

\* Mutant: the predicate is not looked at.
PullAnyRow(s) ==
  LET c == session[s]
      rid == Current(c)
      rows == tables[c.source].rows
  IN
  /\ Ready(s, "scan") /\ rid # 0 /\ rows[rid] # NoRow
  /\ session' = [session EXCEPT ![s] =
       [c EXCEPT !.pos = IF c.via = SeqScan THEN FirstRow(rows, rid + 1) ELSE 0,
                 !.rids = IF c.via = SeqScan THEN <<>> ELSE Tail(@),
                 !.out = Append(@, rid),
                 !.row = IF c.kind = "select" THEN NoRow ELSE rows[rid],
                 !.stage = IF c.kind = "select" THEN "scan" ELSE "apply"]]
  /\ UNCHANGED sent
  /\ Unseen

\* Read the row, step on, try the predicate: Next of SeqScanExecutor and
\* IndexScanExecutor.  A matching row is output, or handed to the executor
\* above, which changes the table before it asks for the next one.
Pull(s) ==
  LET c == session[s]
      rid == Current(c)
      rows == tables[c.source].rows
      next == [c EXCEPT !.pos = IF c.via = SeqScan THEN FirstRow(rows, rid + 1) ELSE 0,
                        !.rids = IF c.via = SeqScan THEN <<>> ELSE Tail(@)]
  IN
  /\ Ready(s, "scan") /\ rid # 0 /\ rows[rid] # NoRow
  /\ session' = [session EXCEPT ![s] =
       IF rows[rid] \notin c.pred THEN next
       ELSE [next EXCEPT !.out = Append(@, rid),
                         !.row = IF c.kind = "select" THEN NoRow ELSE rows[rid],
                         !.stage = IF c.kind = "select" THEN "scan" ELSE "apply"]]
  /\ UNCHANGED sent
  /\ Unseen

PullDeleted(s) ==
  LET c == session[s] IN
  /\ Ready(s, "scan") /\ Current(c) # 0 /\ tables[c.source].rows[Current(c)] = NoRow
  /\ session' = [session EXCEPT ![s].stage = "crashed"]
  /\ UNCHANGED sent
  /\ Unseen

PullEnd(s) ==
  /\ Ready(s, "scan") /\ Current(session[s]) = 0
  /\ session' = [session EXCEPT ![s].stage = "done"]
  /\ UNCHANGED sent
  /\ Unseen

-----------------------------------------------------------------------------
(* The modifying executors, one row at a time.                             *)

ChangeRows(s, o, rows, count, stage) ==
  LET tabs == [tables EXCEPT ![o].rows = rows] IN
  /\ tables' = tabs
  /\ session' = [Seen(s, tabs) EXCEPT ![s].stage = stage, ![s].row = NoRow,
                                      ![s].count = @ + count]
  /\ UNCHANGED <<tableNames, indexes, indexNames, nextIndexOid, sent>>

\* The executor builds a key for every index it holds, and drops it.
ApplyInsert(s) ==
  LET c == session[s] IN
  /\ Ready(s, "apply") /\ c.kind = "insert"
  /\ Len(tables[c.table].rows) < MaxSlots
  /\ ChangeRows(s, c.table, Append(tables[c.table].rows, c.row), 1,
                IF c.held \subseteq DOMAIN indexes THEN "scan" ELSE "crashed")

\* Mutant: the updated row goes to a new slot.
ApplyUpdateMoves(s) ==
  LET c == session[s]
      rows == [tables[c.table].rows EXCEPT ![c.out[Len(c.out)]] = NoRow]
  IN
  /\ Ready(s, "apply") /\ c.kind = "update"
  /\ Len(rows) < MaxSlots
  /\ ChangeRows(s, c.table, Append(rows, c.set[c.row]), 1, "scan")

\* UpdateTuple writes the slot whether or not its row is still there.
ApplyUpdate(s) ==
  LET c == session[s] IN
  /\ Ready(s, "apply") /\ c.kind = "update"
  /\ ChangeRows(s, c.table,
                [tables[c.table].rows EXCEPT ![c.out[Len(c.out)]] = c.set[c.row]],
                1, "scan")

ApplyDelete(s) ==
  LET c == session[s] IN
  /\ Ready(s, "apply") /\ c.kind = "delete"
  /\ ChangeRows(s, c.table,
                [tables[c.table].rows EXCEPT ![c.out[Len(c.out)]] = NoRow],
                1, IF c.held \subseteq DOMAIN indexes THEN "scan" ELSE "crashed")

\* The heap cannot get the page it needs, or has no room for the row.  Only
\* an insert does not count the row all the same.
ApplyFails(s) ==
  LET c == session[s] IN
  /\ Ready(s, "apply")
  /\ IF c.kind = "insert" /\ Len(tables[c.table].rows) = MaxSlots
     THEN Unseen /\ UNCHANGED sent ELSE Fault
  /\ session' = [session EXCEPT ![s] =
       [Disturbed(c) EXCEPT
                 !.stage = IF c.kind = "delete" /\ ~(c.held \subseteq DOMAIN indexes)
                           THEN "crashed" ELSE "scan",
                 !.row = NoRow,
                 !.count = IF c.kind = "insert" THEN @ ELSE @ + 1]]

\* A page that operator++ cannot fetch ends the scan of a table, of CREATE
\* INDEX too, as if the table ended there.
ScanCut(s) ==
  /\ Up /\ Fault
  /\ session[s].stage \in {"scan", "build"} /\ session[s].pos # 0
  /\ session' = [session EXCEPT ![s] =
       [Disturbed(session[s]) EXCEPT !.pos = 0, !.must = {}]]

\* A page that GetTuple cannot fetch fails the statement, which keeps what it
\* has changed so far.
PullThrows(s) ==
  /\ Up /\ Fault
  /\ \/ session[s].stage = "scan" /\ Current(session[s]) # 0
     \/ session[s].stage = "build" /\ session[s].pos # 0
  /\ session' = [session EXCEPT ![s] = Idle]

\* The answer is sent, and the session waits for the next statement.
Finish(s) ==
  /\ Ready(s, "done")
  /\ session' = [session EXCEPT ![s] = Idle]
  /\ UNCHANGED sent
  /\ Unseen

-----------------------------------------------------------------------------
(* UtilityExecutor::Init.  Catalog::CreateIndex checks the name, scans the *)
(* table row by row, and only then enters the index in the catalog.        *)

CreateIndexFails(s) ==
  LET info == session[s].stmt IN
  /\ Ready(s, "planned") /\ session[s].kind = "create"
  /\ HasIndex(info.name, info.table)
  /\ session' = [session EXCEPT ![s] = Idle]
  /\ UNCHANGED sent
  /\ Unseen

CreateIndexBegin(s) ==
  LET info == session[s].stmt
      o == GetTable(info.table)
  IN
  /\ Ready(s, "planned") /\ session[s].kind = "create"
  /\ ~HasIndex(info.name, info.table)
  /\ nextIndexOid <= MaxIndexes
  /\ nextIndexOid' = nextIndexOid + 1
  /\ session' = [session EXCEPT ![s] =
       [stage |-> "build", kind |-> "create", info |-> info, oid |-> nextIndexOid,
        source |-> o, pred |-> {}, must |-> {}, may |-> {}, exact |-> TRUE,
        pos |-> IF info.point THEN FirstRow(tables[o].rows, 1) ELSE 0,
        before |-> tables, calm |-> TRUE]]
  /\ UNCHANGED <<tables, tableNames, indexes, indexNames, sent>>

CreateIndexRow(s) ==
  LET c == session[s]
      rows == tables[c.source].rows
  IN
  /\ Ready(s, "build") /\ c.pos # 0 /\ rows[c.pos] # NoRow
  /\ session' = [session EXCEPT ![s].pos = FirstRow(rows, c.pos + 1),
                                ![s].info = InsertEntry(c.info, rows[c.pos], c.pos)]
  /\ UNCHANGED sent
  /\ Unseen

CreateIndexRowDeleted(s) ==
  LET c == session[s] IN
  /\ Ready(s, "build") /\ c.pos # 0 /\ tables[c.source].rows[c.pos] = NoRow
  /\ session' = [session EXCEPT ![s].stage = "crashed"]
  /\ UNCHANGED sent
  /\ Unseen

\* The other statements are disturbed by a change of the catalog too.
CreateIndexRegister(s) ==
  LET c == session[s] IN
  /\ Ready(s, "build") /\ c.pos = 0
  /\ RegisterIndex(c.oid, c.info)
  /\ session' = [Seen(s, tables) EXCEPT ![s].stage = "done"]
  /\ UNCHANGED sent

\* The tables with an index of that name.  DROP INDEX takes the names one by
\* one, and an error leaves those before it dropped.
Matched(index) == {t \in GetAllTables : HasIndex(index, t)}

DropIndexStep(s) ==
  LET names == session[s].stmt.names IN
  /\ Ready(s, "planned") /\ session[s].kind = "drop"
  /\ names # <<>>
  /\ \E t \in Matched(Head(names)) :
       /\ Matched(Head(names)) = {t}
       /\ DropIndex(Head(names), t)
  /\ session' = [Seen(s, tables) EXCEPT ![s].stmt.names = Tail(names)]
  /\ UNCHANGED sent

DropIndexMissing(s) ==
  LET stmt == session[s].stmt IN
  /\ Ready(s, "planned") /\ session[s].kind = "drop"
  /\ stmt.names # <<>> /\ Matched(Head(stmt.names)) = {} /\ stmt.missing_ok
  /\ session' = [session EXCEPT ![s].stmt.names = Tail(stmt.names)]
  /\ UNCHANGED sent
  /\ Unseen

\* Not found, or ambiguous.
DropIndexThrows(s) ==
  LET stmt == session[s].stmt IN
  /\ Ready(s, "planned") /\ session[s].kind = "drop"
  /\ stmt.names # <<>>
  /\ IF Matched(Head(stmt.names)) = {} THEN ~stmt.missing_ok
     ELSE Cardinality(Matched(Head(stmt.names))) > 1
  /\ session' = [session EXCEPT ![s] = Idle]
  /\ UNCHANGED sent
  /\ Unseen

DropIndexDone(s) ==
  /\ Ready(s, "planned") /\ session[s].kind = "drop"
  /\ session[s].stmt.names = <<>>
  /\ session' = [session EXCEPT ![s] = Idle]
  /\ UNCHANGED sent
  /\ Unseen

-----------------------------------------------------------------------------
Next ==
  \/ \E t \in Tables : LoadTable(t) \/ \E k \in Keys : LoadRow(t, k)
  \/ \E s \in Sessions :
       \/ \E t \in Tables, P \in Predicates :
            \/ PlanSelect(s, t, P)
            \/ PlanDelete(s, t, P)
            \/ \E e \in Exprs : PlanUpdate(s, t, P, e)
            \/ \E source \in Tables : PlanInsert(s, t, source, P)
       \/ \E i \in IndexNames, t \in Tables, point \in BOOLEAN :
            PlanCreateIndex(s, i, t, point)
       \/ \E i, j \in IndexNames, missingOk \in BOOLEAN :
            PlanDropIndex(s, IF i = j THEN <<i>> ELSE <<i, j>>, missingOk)
       \/ StartScan(s) \/ Pull(s) \/ PullDeleted(s) \/ PullEnd(s)
       \/ ApplyInsert(s) \/ ApplyUpdate(s) \/ ApplyDelete(s) \/ ApplyFails(s)
       \/ ScanCut(s) \/ PullThrows(s)
       \/ Finish(s)
       \/ CreateIndexFails(s) \/ CreateIndexBegin(s) \/ CreateIndexRow(s)
       \/ CreateIndexRowDeleted(s) \/ CreateIndexRegister(s)
       \/ DropIndexStep(s) \/ DropIndexMissing(s) \/ DropIndexThrows(s)
       \/ DropIndexDone(s)

Spec == Init /\ [][Next]_vars

-----------------------------------------------------------------------------
\* The slots in M, in the order in which a table has them.
InOrder(M) ==
  {f \in [1 .. Cardinality(M) -> M] :
     \A m, n \in 1 .. Cardinality(M) : m < n => f[m] < f[n]}

\* What the statement of s should have done, judged from the tables as they
\* were when its execution began.
Reference(c) ==
  LET rows == c.before[c.table].rows
      M == Matching(c.before, c.source, c.pred)
      becomes(f) == tables = [c.before EXCEPT ![c.table].rows = f]
  IN CASE c.kind = "select" -> /\ Range(c.out) = M /\ Len(c.out) = Cardinality(M)
                               /\ tables = c.before
       [] c.kind = "insert" -> /\ \E f \in InOrder(M) :
                                    becomes(rows \o [n \in 1 .. Cardinality(M) |->
                                                       c.before[c.source].rows[f[n]]])
                               /\ c.count = Cardinality(M)
       [] c.kind = "update" -> /\ becomes([i \in 1 .. Len(rows) |->
                                             IF i \in M THEN c.set[rows[i]] ELSE rows[i]])
                               /\ c.count = Cardinality(M)
       [] c.kind = "delete" -> /\ becomes([i \in 1 .. Len(rows) |->
                                             IF i \in M THEN NoRow ELSE rows[i]])
                               /\ c.count = Cardinality(M)
       [] c.kind = "create" -> c.info.point => Exact(indexes[c.oid])

Ended(s) == session[s].stage \in {"done", "crashed"}

\* An INSERT that reads the table it writes, whose scan meets its own rows.
FeedsItself(c) == c.kind = "insert" /\ c.table = c.source

\* A statement that nobody disturbs, whose heap calls succeed, and whose
\* index, if the optimizer chose one, described the table when it began,
\* does exactly what SQL says, whether it scanned the table or the index: it
\* returns, updates, deletes or copies the matching rows, each once, counts
\* them, and does not bring down the server.
AloneMatchesReference ==
  \A s \in Sessions :
    Ended(s) /\ session[s].calm /\ session[s].exact =>
      FeedsItself(session[s]) \/ (session[s].stage = "done" /\ Reference(session[s]))

\* Whatever the other sessions do meanwhile, a statement treats every row
\* that matched all along, no row that matched at no time, and none twice.
SeesStableRows ==
  \A s \in Sessions :
    session[s].stage = "done" /\ session[s].exact /\ session[s].kind # "create" =>
      LET out == session[s].out IN
      /\ session[s].must \subseteq Range(out)
      /\ Range(out) \subseteq session[s].may
      /\ Len(out) = Cardinality(Range(out))

\* docs/lab3_query_execution_en.md:232: every index that lookups may use
\* describes its table whenever no statement is running.
IndexesFollowTables ==
  (\A s \in Sessions : session[s] = Idle) =>
    \A o \in GetAllIndexes : indexes[o].point => Exact(indexes[o])
=============================================================================
