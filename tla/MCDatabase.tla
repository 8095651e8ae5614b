----------------------------- MODULE MCDatabase -----------------------------
(***************************************************************************)
(* Database with two sessions.  UPDATE exchanges the two keys, so a row    *)
(* that is updated twice shows.                                            *)
(***************************************************************************)
EXTENDS Database, TLC

CONSTANTS tab1, tab2, idx1, k1, k2, s1, s2

MCTables == {tab1, tab2}
MCIndexNames == {idx1}
MCKeys == {k1, k2}
MCSessions == {s1, s2}
MCOne == {s1}
MCExprs == {[k \in Keys |-> IF k = k1 THEN k2 ELSE k1]}
AllKinds == {"select", "insert", "update", "delete", "create", "drop"}
MCMayRun == [s \in Sessions |-> IF s = s1 THEN AllKinds \ {"select"}
                                ELSE {"select", "delete"}]
MCMayRunAll == [s \in Sessions |-> AllKinds]
Symmetric == Permutations(MCTables) \cup Permutations(MCKeys)
=============================================================================
