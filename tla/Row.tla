-------------------------------- MODULE Row --------------------------------
(***************************************************************************)
(* type/value.cpp, catalog/schema.h, catalog/column.h and                  *)
(* storage/table/tuple.cpp: values, and rows as bytes.  A value is a type  *)
(* and a number; a byte is tagged with the value it belongs to and its     *)
(* place in it, so bytes that are not one value's do not read as one.      *)
(***************************************************************************)
EXTENDS Integers, Sequences, Functions

LOCAL Seqs == INSTANCE SequencesExt

Integer(n) == [type |-> "INTEGER", v |-> n]
Float(n) == [type |-> "FLOAT", v |-> n]
Varchar(n) == [type |-> "VARCHAR", v |-> n]       \* a string of n characters
Boolean(b) == [type |-> "BOOLEAN", v |-> IF b THEN 1 ELSE 0]

\* An ONEBASE_ASSERT throws: the statement fails.
Thrown == [type |-> "thrown", v |-> 0]

\* What bytes that are no value of the type read as.
Garbage(type) == [type |-> type, v |-> -1]

-----------------------------------------------------------------------------
(* Comparison, arithmetic and logic want operands of one type, that has    *)
(* the operation.  The numbers of the model are never negative.            *)

Compare(op, x, y) ==
  IF \/ x.type # y.type \/ Thrown \in {x, y}
     \/ x.type = "BOOLEAN" /\ op \notin {"=", "<>"}
  THEN Thrown
  ELSE Boolean(CASE op = "=" -> x.v = y.v
                 [] op = "<>" -> x.v # y.v
                 [] op = "<" -> x.v < y.v
                 [] op = "<=" -> x.v <= y.v
                 [] op = ">" -> x.v > y.v
                 [] op = ">=" -> x.v >= y.v)

Compute(op, x, y) ==
  IF \/ x.type # y.type \/ x.type \notin {"INTEGER", "FLOAT"}
     \/ op \in {"/", "%"} /\ y.v = 0
     \/ op = "%" /\ x.type # "INTEGER"
  THEN Thrown
  ELSE [x EXCEPT !.v = CASE op = "+" -> x.v + y.v
                         [] op = "-" -> x.v - y.v
                         [] op = "*" -> x.v * y.v
                         [] op = "/" -> x.v \div y.v
                         [] op = "%" -> x.v % y.v]

Logic(op, x, y) ==
  IF {x.type, y.type} # {"BOOLEAN"} THEN Thrown
  ELSE Boolean(IF op = "and" THEN x.v = 1 /\ y.v = 1 ELSE x.v = 1 \/ y.v = 1)

\* ToString, as something to tell strings apart by: the floats of the model
\* agree in their first two decimals, and a string may look like a number.
ToString(x) == IF x.type = "FLOAT" THEN 0 ELSE x.v

-----------------------------------------------------------------------------
(* Rows as bytes.                                                          *)

GetSerializedSize(x) ==
  CASE x.type = "BOOLEAN" -> 1
    [] x.type \in {"INTEGER", "FLOAT"} -> 4
    [] x.type = "VARCHAR" -> 4 + x.v

\* Tuple::Tuple: the values one behind the other.
Serialize(values) ==
  Seqs!FlattenSeq([i \in 1 .. Len(values) |->
    [k \in 1 .. GetSerializedSize(values[i]) |-> <<values[i], k>>]])

\* Column::GetFixedLengthFor, and what Schema advances by for a VARCHAR.
GetFixedLength(type) ==
  CASE type = "BOOLEAN" -> 1 [] type = "INTEGER" -> 4 [] type = "FLOAT" -> 8
    [] type = "VARCHAR" -> 4

\* Schema::Schema: the offset of column i, from 0.
GetOffset(schema, i) ==
  FoldFunctionOnSet(LAMBDA a, b : a + b, 0,
                    [j \in 1 .. Len(schema) |-> GetFixedLength(schema[j])], 1 .. i - 1)

\* Value::DeserializeFrom at offset off.
DeserializeFrom(data, off, type) ==
  IF /\ off < Len(data)
     /\ LET x == data[off + 1][1]  n == GetSerializedSize(x) IN
        /\ x.type = type /\ off + n <= Len(data)
        /\ \A k \in 1 .. n : data[off + k] = <<x, k>>
  THEN data[off + 1][1] ELSE Garbage(type)

\* A row that was stored, as Tuple::GetValue reads its columns.
ReadBack(schema, row) ==
  [i \in 1 .. Len(schema) |->
     DeserializeFrom(Serialize(row), GetOffset(schema, i), schema[i])]
=============================================================================
