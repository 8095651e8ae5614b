------------------------------- MODULE KeyMap -------------------------------
(***************************************************************************)
(* What the index promises its callers: a map from keys to values in which *)
(* Insert adds a key that is not there, and says so, Remove takes one out, *)
(* and nothing else ever changes.  A call that cannot get the pages it     *)
(* needs may give up and leave the map as it was.                          *)
(***************************************************************************)
CONSTANTS Keys, Values,
          MayFail     \* whether a call may give up

VARIABLES map,        \* the pairs the index holds
          answer      \* what the latest Insert returned

vars == <<map, answer>>

Init == map = <<>> /\ answer = FALSE

Insert(k, v) ==
    \/ /\ k \notin DOMAIN map
       /\ map' = [x \in DOMAIN map \union {k} |-> IF x = k THEN v ELSE map[x]]
       /\ answer' = TRUE
    \/ /\ k \in DOMAIN map \/ MayFail
       /\ answer' = FALSE
       /\ UNCHANGED map

Remove(k) ==
    /\ map' = [x \in DOMAIN map \ {k} |-> map[x]]
    /\ UNCHANGED answer

Next == \E k \in Keys : Remove(k) \/ \E v \in Values : Insert(k, v)

Spec == Init /\ [][Next]_vars
=============================================================================
