--------------------------- MODULE BPlusTreePage ---------------------------
(***************************************************************************)
(* The node layouts of the index, b_plus_tree_page, _internal_page and     *)
(* _leaf_page in storage/page, and the operations local to one or two of   *)
(* them.                                                                   *)
(*                                                                         *)
(* A node keeps its header and its array_ as a sequence of items; index i  *)
(* of the code is items[i + 1] here.  The key of an internal node's first  *)
(* item is not a separator: the code leaves there whatever the memory held *)
(* before, zero on a fresh page, and sometimes reads it, so it is kept.    *)
(***************************************************************************)
EXTENDS Integers, Sequences, FiniteSetsExt
Seqs == INSTANCE SequencesExt

CONSTANT NoPage    \* INVALID_PAGE_ID

Item(k, v) == [key |-> k, val |-> v]

\* Init of both page classes: next_page_id_ exists in leaves only, an internal
\* node keeps it at NoPage here.
LeafPage(items) ==
    [leaf |-> TRUE, parent |-> NoPage, next |-> NoPage, items |-> items]
InternalPage(items) ==
    [leaf |-> FALSE, parent |-> NoPage, next |-> NoPage, items |-> items]

IsRootPage(page) == page.parent = NoPage
Size(page) == Len(page.items)

-----------------------------------------------------------------------------
(* Leaf nodes *)

\* KeyIndex: the binary search for the first index whose key is not smaller.
KeyIndex(items, key) ==
    LET Search[range \in (0 .. Len(items)) \X (0 .. Len(items))] ==
            LET low == range[1]
                high == range[2]
                mid == low + (high - low) \div 2
            IN  IF low >= high THEN low
                ELSE IF items[mid + 1].key < key THEN Search[<<mid + 1, high>>]
                ELSE Search[<<low, mid>>]
    IN  Search[<<0, Len(items)>>]

\* The test shared by Lookup, Insert and RemoveAndDeleteRecord.
HasKey(items, key) ==
    LET idx == KeyIndex(items, key)
    IN  idx < Len(items) /\ items[idx + 1].key = key

\* Lookup of a leaf, NoPage standing for "not found".
LeafLookup(items, key) ==
    IF HasKey(items, key) THEN items[KeyIndex(items, key) + 1].val ELSE NoPage

LeafInsert(items, key, value) ==
    IF HasKey(items, key) THEN items
    ELSE Seqs!InsertAt(items, KeyIndex(items, key) + 1, Item(key, value))

RemoveAndDeleteRecord(items, key) ==
    IF HasKey(items, key) THEN Seqs!RemoveAt(items, KeyIndex(items, key) + 1) ELSE items

-----------------------------------------------------------------------------
(* Internal nodes *)

\* ValueIndex: the index of a child, -1 when it is not there.
ValueIndex(items, child) ==
    LET at == {i \in DOMAIN items : items[i].val = child}
    IN  IF at = {} THEN -1 ELSE Min(at) - 1

\* Lookup of an internal node: the child before the first larger separator.
ChildFor(items, key) ==
    LET larger == {i \in 2 .. Len(items) : key < items[i].key}
    IN  items[IF larger = {} THEN Len(items) ELSE Min(larger) - 1].val

PopulateNewRoot(old, key, new) == <<Item(0, old), Item(key, new)>>

InsertNodeAfter(items, old, key, new) ==
    Seqs!InsertAt(items, ValueIndex(items, old) + 2, Item(key, new))

SetKeyAt(items, index, key) == [items EXCEPT ![index + 1].key = key]

RemoveIndex(items, index) == Seqs!RemoveAt(items, index + 1)

-----------------------------------------------------------------------------
(* Moving items between siblings.  Each returns what is left in the donor  *)
(* (from) and what the recipient (to) then holds.                          *)

SplitIndex(items) == Len(items) \div 2

MoveHalfTo(items) ==
    [from |-> SubSeq(items, 1, SplitIndex(items)),
     to   |-> SubSeq(items, SplitIndex(items) + 1, Len(items))]

\* The recipient is a fresh page: its first key stays zero.
InternalMoveHalfTo(items) ==
    LET moved == MoveHalfTo(items).to
    IN  [from |-> MoveHalfTo(items).from,
         to   |-> <<Item(0, moved[1].val)>> \o Tail(moved)]

MoveAllTo(items, recipient) == [from |-> <<>>, to |-> recipient \o items]

\* Mutant: the separator from the parent is not brought down.
InternalMoveAllToKeepsDummy(items, recipient, middle) == MoveAllTo(items, recipient)

InternalMoveAllTo(items, recipient, middle) ==
    MoveAllTo(SetKeyAt(items, 0, middle), recipient)

MoveFirstToEndOf(items, recipient) ==
    [from |-> Tail(items), to |-> Append(recipient, Head(items))]

InternalMoveFirstToEndOf(items, recipient, middle) ==
    [from |-> Tail(items), to |-> Append(recipient, Item(middle, Head(items).val))]

MoveLastToFrontOf(items, recipient) ==
    [from |-> Seqs!Front(items), to |-> <<Seqs!Last(items)>> \o recipient]

\* The recipient's own first key is shifted to index 1, where middle replaces
\* it, and a copy of it stays at index 0.
InternalMoveLastToFrontOf(items, recipient, middle) ==
    [from |-> Seqs!Front(items),
     to   |-> <<Item(recipient[1].key, Seqs!Last(items).val)>>
              \o SetKeyAt(recipient, 0, middle)]
=============================================================================
