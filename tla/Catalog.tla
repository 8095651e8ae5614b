------------------------------ MODULE Catalog ------------------------------
(***************************************************************************)
(* catalog/catalog.cpp: the tables and indexes of an instance, by oid and  *)
(* by name, without a latch.  A row is its value in the one INTEGER column *)
(* that is indexed; a table heap is the sequence of its slots, NoRow where *)
(* the row was deleted, as TableHeap shows it to be.  Tables are never     *)
(* dropped, so their oids are 1, 2, ...                                    *)
(***************************************************************************)
EXTENDS Integers, Sequences, FiniteSets, Functions

CONSTANTS
  Tables,       \* table names
  IndexNames,
  Keys,         \* the values of the indexed column
  NoRow,
  MaxSlots,     \* bounds the rows of a table
  MaxIndexes    \* bounds the indexes ever created

ASSUME CatalogAssumption ==
  /\ NoRow \notin Keys
  /\ MaxSlots \in Nat /\ MaxIndexes \in Nat

VARIABLES
  tables,        \* tables_[oid]: name_ and table_
  tableNames,    \* table_names_
  indexes,       \* indexes_[oid]: name_, table_name_, point lookup, int_rid_map_
  indexNames,    \* index_names_[table][name]
  nextIndexOid   \* next_index_oid_

catalogVars == <<tables, tableNames, indexes, indexNames, nextIndexOid>>

Put(f, x, v) == [y \in DOMAIN f \cup {x} |-> IF y = x THEN v ELSE f[y]]

CatalogInit ==
  /\ tables = <<>> /\ tableNames = <<>>
  /\ indexes = <<>> /\ indexNames = <<>> /\ nextIndexOid = 1

-----------------------------------------------------------------------------
(* Tables.                                                                 *)

CreateTable(table) ==
  /\ table \notin DOMAIN tableNames
  /\ tables' = Append(tables, [name |-> table, rows |-> <<>>])
  /\ tableNames' = Put(tableNames, table, Len(tables) + 1)
  /\ UNCHANGED <<indexes, indexNames, nextIndexOid>>

GetTable(table) == tableNames[table]

GetAllTables == {tables[o].name : o \in 1 .. Len(tables)}

-----------------------------------------------------------------------------
(* Indexes.                                                                *)

NewIndexInfo(index, table, point) ==
  [name |-> index, table |-> table, point |-> point, map |-> <<>>]

\* A key without an entry has no rids.
LookupInteger(info, k) == IF k \in DOMAIN info.map THEN info.map[k] ELSE <<>>

InsertEntry(info, k, rid) ==
  [info EXCEPT !.map = Put(info.map, k, Append(LookupInteger(info, k), rid))]

HasIndex(index, table) ==
  table \in DOMAIN indexNames /\ index \in DOMAIN indexNames[table]

\* GetIndex by name; HasIndex(index, table) says that it is not nullptr.
GetIndex(index, table) == indexNames[table][index]

GetTableIndexes(table) ==
  IF table \in DOMAIN indexNames THEN Range(indexNames[table]) ELSE {}

GetAllIndexes == DOMAIN indexes

\* The end of CreateIndex: the index, filled by now, is entered in the maps.
RegisterIndex(oid, info) ==
  LET names == IF info.table \in DOMAIN indexNames
               THEN indexNames[info.table] ELSE <<>>
  IN /\ indexes' = Put(indexes, oid, info)
     /\ indexNames' = Put(indexNames, info.table, Put(names, info.name, oid))
     /\ UNCHANGED <<tables, tableNames, nextIndexOid>>

\* Mutant: the entry in indexes_ is left behind.
DropIndexLeavesEntry(index, table) ==
  LET names == Restrict(indexNames[table], DOMAIN indexNames[table] \ {index}) IN
  /\ indexNames' = IF DOMAIN names = {}
                   THEN Restrict(indexNames, DOMAIN indexNames \ {table})
                   ELSE [indexNames EXCEPT ![table] = names]
  /\ UNCHANGED <<tables, tableNames, indexes, nextIndexOid>>

DropIndex(index, table) ==
  LET names == Restrict(indexNames[table], DOMAIN indexNames[table] \ {index}) IN
  /\ indexes' = Restrict(indexes, DOMAIN indexes \ {GetIndex(index, table)})
  /\ indexNames' = IF DOMAIN names = {}
                   THEN Restrict(indexNames, DOMAIN indexNames \ {table})
                   ELSE [indexNames EXCEPT ![table] = names]
  /\ UNCHANGED <<tables, tableNames, nextIndexOid>>

-----------------------------------------------------------------------------
\* The slots of a table, given by its oid, that hold a row with a key in P.
Matching(tabs, o, P) ==
  {i \in 1 .. Len(tabs[o].rows) : tabs[o].rows[i] \in P}

\* The index gives for every key the rids of the rows that have it now.
Exact(info) ==
  \A k \in Keys :
    LET rids == LookupInteger(info, k) IN
    /\ Range(rids) = Matching(tables, GetTable(info.table), {k})
    /\ Len(rids) = Cardinality(Range(rids))

\* What the maps say by name, by table and by oid is one and the same:
\* SHOW INDEXES lists exactly the indexes that can be looked up and dropped,
\* each under its own name, on a table that exists.
CatalogAgrees ==
  /\ GetAllTables = DOMAIN tableNames
  /\ \A t \in DOMAIN tableNames : tables[GetTable(t)].name = t
  /\ \A o \in GetAllIndexes :
       /\ o < nextIndexOid
       /\ HasIndex(indexes[o].name, indexes[o].table)
       /\ GetIndex(indexes[o].name, indexes[o].table) = o
  /\ \A t \in DOMAIN indexNames :
       /\ t \in GetAllTables
       /\ GetTableIndexes(t) # {}
       /\ GetTableIndexes(t) \subseteq GetAllIndexes
       /\ \A i \in DOMAIN indexNames[t] : indexes[GetIndex(i, t)].name = i
=============================================================================
