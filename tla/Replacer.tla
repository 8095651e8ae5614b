------------------------------ MODULE Replacer ------------------------------
(***************************************************************************)
(* What the buffer pool relies on in its replacer, whatever the eviction   *)
(* policy: which frames it tracks, which of those may be evicted, and that *)
(* an eviction takes some evictable frame, and fails only when there is    *)
(* none.  LRUKReplacer implements this specification.                      *)
(***************************************************************************)
CONSTANT Frames
VARIABLE replacer

Replacers == [tracked : SUBSET Frames, evictable : SUBSET Frames]

Empty == [tracked |-> {}, evictable |-> {}]

\* The frame has an entry from now on, its evictable flag as it was.
RecordAccess(r, f) == [r EXCEPT !.tracked = r.tracked \cup {f}]

\* A frame without an entry is ignored.
SetEvictable(r, f, set) ==
  IF f \notin r.tracked THEN r
  ELSE [r EXCEPT !.evictable = IF set THEN r.evictable \cup {f}
                                      ELSE r.evictable \ {f}]

\* The entry is erased: the end of Evict and of Remove.
Erase(r, f) ==
  [tracked |-> r.tracked \ {f}, evictable |-> r.evictable \ {f}]

Init == replacer = Empty

Record(f) == replacer' = RecordAccess(replacer, f)

Mark(f, set) == replacer' = SetEvictable(replacer, f, set)

Evict(f) == f \in replacer.evictable /\ replacer' = Erase(replacer, f)

Remove(f) == f \in replacer.evictable /\ replacer' = Erase(replacer, f)

Next == \E f \in Frames :
          \/ Record(f)
          \/ \E set \in BOOLEAN : Mark(f, set)
          \/ Evict(f)
          \/ Remove(f)

Spec == Init /\ [][Next]_replacer
=============================================================================
