---------------------------- MODULE LRUKReplacer ----------------------------
(***************************************************************************)
(* buffer/lru_k_replacer.cpp.  Every operation takes latch_, so each is    *)
(* one action, and callers may interleave them as they like.  A frame has  *)
(* an entry in entries_ exactly when its history is not empty: an entry is *)
(* created by RecordAccess, which appends to the history, and K >= 1.      *)
(***************************************************************************)
EXTENDS Integers, Sequences, FiniteSets

CONSTANTS
  Frames,     \* the frames of the pool
  K,          \* k_
  MaxTime     \* bound on current_timestamp_

ASSUME LRUKAssumption ==
  /\ IsFiniteSet(Frames)
  /\ K \in Nat \ {0}
  /\ MaxTime \in Nat

VARIABLES
  history,     \* history[f]: entries_[f].history_, <<>> without an entry
  evictable,   \* the frames whose entry has is_evictable_
  currSize,    \* curr_size_
  now,         \* current_timestamp_
  accesses     \* auxiliary: every access since the entry was created

vars == <<history, evictable, currSize, now, accesses>>

TypeOK ==
  /\ history \in [Frames -> Seq(Nat)]
  /\ evictable \in SUBSET Frames
  /\ currSize \in Nat
  /\ now \in Nat
  /\ accesses \in [Frames -> Seq(Nat)]

Init ==
  /\ history = [f \in Frames |-> <<>>]
  /\ evictable = {}
  /\ currSize = 0
  /\ now = 0
  /\ accesses = [f \in Frames |-> <<>>]

Tracked == {f \in Frames : history[f] # <<>>}

-----------------------------------------------------------------------------
\* Mutant: the newest timestamp is dropped instead of the oldest.
RecentKeepsOldest(h) == IF Len(h) > K THEN SubSeq(h, 1, K) ELSE h

\* push_back then pop_front: at most K timestamps are kept.
Recent(h) == IF Len(h) > K THEN Tail(h) ELSE h

\* Mutant: the clock stands still.
RecordAccessFrozenClock(f) ==
  /\ now < MaxTime
  /\ history' = [history EXCEPT ![f] = Recent(Append(history[f], now))]
  /\ accesses' = [accesses EXCEPT ![f] = Append(accesses[f], now)]
  /\ UNCHANGED <<now, evictable, currSize>>

RecordAccess(f) ==
  /\ now < MaxTime
  /\ history' = [history EXCEPT ![f] = Recent(Append(history[f], now))]
  /\ accesses' = [accesses EXCEPT ![f] = Append(accesses[f], now)]
  /\ now' = now + 1
  /\ UNCHANGED <<evictable, currSize>>

\* Mutant: curr_size_ is counted up even if the flag was set already.
SetEvictableCountsTwice(f, set) ==
  IF f \notin Tracked THEN UNCHANGED vars
  ELSE /\ currSize' = IF f \in evictable /\ ~set THEN currSize - 1
                      ELSE IF set THEN currSize + 1 ELSE currSize
       /\ evictable' = IF set THEN evictable \cup {f} ELSE evictable \ {f}
       /\ UNCHANGED <<history, now, accesses>>

\* Mutant: a frame without an entry gets one, evictable, with no history.
SetEvictableUnguarded(f, set) ==
  /\ currSize' = IF f \in evictable /\ ~set THEN currSize - 1
                 ELSE IF f \notin evictable /\ set THEN currSize + 1
                 ELSE currSize
  /\ evictable' = IF set THEN evictable \cup {f} ELSE evictable \ {f}
  /\ UNCHANGED <<history, now, accesses>>

SetEvictable(f, set) ==
  IF f \notin Tracked THEN UNCHANGED vars
  ELSE /\ currSize' = IF f \in evictable /\ ~set THEN currSize - 1
                      ELSE IF f \notin evictable /\ set THEN currSize + 1
                      ELSE currSize
       /\ evictable' = IF set THEN evictable \cup {f} ELSE evictable \ {f}
       /\ UNCHANGED <<history, now, accesses>>

\* Evictable frames with fewer than K accesses: their k-distance is infinite.
InfiniteFrames == {f \in evictable : Len(history[f]) < K}

KDistance(f) == now - history[f][1]

\* The frames the loop over entries_ may end with as victim_frame: ties, if
\* there were any, go by the iteration order of the hash table.
Victims ==
  IF InfiniteFrames # {}
  THEN {f \in InfiniteFrames :
          \A g \in InfiniteFrames : history[f][1] <= history[g][1]}
  ELSE {f \in evictable :
          KDistance(f) > 0 /\ \A g \in evictable : KDistance(f) >= KDistance(g)}

\* entries_.erase, at the end of Evict and of Remove.
Erase(f) ==
  /\ history' = [history EXCEPT ![f] = <<>>]
  /\ accesses' = [accesses EXCEPT ![f] = <<>>]
  /\ evictable' = evictable \ {f}
  /\ currSize' = currSize - 1
  /\ UNCHANGED now

Evict(f) == currSize # 0 /\ f \in Victims /\ Erase(f)

\* Evict returns false.
EvictFails == (currSize = 0 \/ Victims = {}) /\ UNCHANGED vars

Remove(f) == f \in evictable /\ Erase(f)

\* Remove returns at once, or throws for a frame that is not evictable.
RemoveRefused(f) == f \notin evictable /\ UNCHANGED vars

Next ==
  \/ \E f \in Frames :
       \/ RecordAccess(f)
       \/ \E set \in BOOLEAN : SetEvictable(f, set)
       \/ Evict(f)
       \/ Remove(f)
       \/ RemoveRefused(f)
  \/ EvictFails

Spec == Init /\ [][Next]_vars

-----------------------------------------------------------------------------
\* curr_size_, kept by increments and decrements in four operations, is the
\* number of evictable entries: it never wraps below zero, and Size() is right.
SizeCountsEvictable == currSize = Cardinality(evictable) /\ evictable \subseteq Tracked

\* When something is evictable Evict finds a victim: its k-distance is
\* positive, so the loop cannot end with victim_frame = -1.
EvictFindsVictim == evictable # {} => Victims # {}

\* The timestamps of the last K accesses of f, by the full access log.
KthLast(f) == accesses[f][Len(accesses[f]) - K + 1]

\* The eviction priority of the lab text, over the full log of accesses: a
\* frame with fewer than K accesses goes first, the earliest first access
\* among them; otherwise the frame whose K-th last access is oldest.
Precedes(f, g) ==
  IF Len(accesses[f]) < K
  THEN Len(accesses[g]) < K => accesses[f][1] <= accesses[g][1]
  ELSE Len(accesses[g]) >= K /\ KthLast(f) <= KthLast(g)

\* Every frame Evict may choose has priority over every other evictable one,
\* although the replacer remembers only the last K accesses.
VictimHasLargestKDistance ==
  \A f \in Victims : \A g \in evictable : Precedes(f, g)

-----------------------------------------------------------------------------
Abstract == INSTANCE Replacer
              WITH replacer <- [tracked |-> Tracked, evictable |-> evictable]

\* The replacer the buffer pool was specified with is implemented: entries
\* come and go, and the flags change, exactly as the contract says.
ImplementsReplacer == Abstract!Spec
=============================================================================
