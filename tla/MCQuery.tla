------------------------------ MODULE MCQuery ------------------------------
(***************************************************************************)
(* Query on a table L of two columns, of several types, and a table R of   *)
(* one column, for the products of a few choices of each clause.           *)
(***************************************************************************)
EXTENDS Query

I == "INTEGER"
F == "FLOAT"
V == "VARCHAR"

MCSchemas == [L |-> {<<I, I>>, <<I, F>>, <<F, I>>, <<I, V>>}, R |-> {<<I>>, <<F>>}]
MCNames == [L |-> <<"a", "b">>, R |-> <<"c">>]
MCValues == [INTEGER |-> {Integer(1), Integer(2)}, FLOAT |-> {Float(1), Float(2)},
             VARCHAR |-> {Varchar(1), Varchar(2)}]

Ref(t, n) == [k |-> "ref", table |-> t, name |-> n]
A == Ref("", "a")
B == Ref("L", "b")
C == Ref("", "c")
Const(x) == [k |-> "constant", value |-> x]
Cmp(op, x, y) == [k |-> "compare", op |-> op, left |-> x, right |-> y]
Calc(op, x, y) == [k |-> "compute", op |-> op, left |-> x, right |-> y]
Or(x, y) == [k |-> "logic", op |-> "or", left |-> x, right |-> y]
Two == Const(Integer(2))

Froms == {[from |-> "L", on |-> None], [from |-> "list", on |-> None],
          [from |-> "join", on |-> None], [from |-> "join", on |-> Cmp("=", A, C)],
          [from |-> "join", on |-> Cmp("=", C, B)]}
Wheres == {None, Or(Cmp("=", Calc("%", A, Two), Calc("-", A, A)), Cmp(">", A, Two))}
Agg(type, e) == [type |-> type, arg |-> e]
Targets == {[star |-> TRUE, columns |-> <<>>, group |-> <<>>, aggs |-> <<>>],
            [star |-> FALSE, columns |-> <<B>>, group |-> <<>>, aggs |-> <<>>],
            [star |-> FALSE, columns |-> <<C>>, group |-> <<>>, aggs |-> <<>>],
            [star |-> FALSE, columns |-> <<>>, group |-> <<>>,
             aggs |-> <<Agg("sum", A), Agg("sum", B)>>],
            [star |-> FALSE, columns |-> <<Calc("/", A, Two)>>, group |-> <<Calc("/", A, Two)>>,
             aggs |-> <<Agg("min", B), Agg("sum", B), Agg("count_star", None)>>],
            [star |-> FALSE, columns |-> <<B>>, group |-> <<B>>,
             aggs |-> <<Agg("max", A), Agg("count", B)>>]}
Orders == {None, [k |-> "order", column |-> B, ascending |-> FALSE]}
Limits == {None, [k |-> "limit", n |-> 1]}

MCQueries ==
  {[from |-> f.from, on |-> f.on, where |-> w, star |-> t.star, columns |-> t.columns,
    group |-> t.group, aggs |-> t.aggs, order |-> o, limit |-> l] :
     f \in Froms, w \in Wheres, t \in Targets, o \in Orders, l \in Limits}
=============================================================================
