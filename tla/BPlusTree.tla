------------------------------ MODULE BPlusTree ------------------------------
(***************************************************************************)
(* The index of storage/index/b_plus_tree: Insert with split propagation,  *)
(* Remove with redistribution and merging, and point lookup, over nodes    *)
(* kept in pages of a buffer pool that other users share.                  *)
(*                                                                         *)
(* The tree has no latches and is used by one thread at a time.  A public  *)
(* call runs to the first of the private functions it needs; each of those *)
(* is an action of its own, and call says which one runs next and on which *)
(* page, which that call keeps pinned.  FetchPage and NewPage fail exactly *)
(* when every frame of the pool is pinned, so the model counts pins: the   *)
(* tree's own in pins, those of the other users of the pool in others.     *)
(*                                                                         *)
(* Page ids are not reused by the disk manager.  Here a new page takes the *)
(* smallest id that is not live, pinned or mentioned in a live page, which *)
(* is the same up to renaming.                                             *)
(***************************************************************************)
EXTENDS BPlusTreePage

CONSTANTS Keys, Values,
          Removable,         \* the keys Remove is called with
          PageIds,
          LeafMaxSize,       \* constructor arguments, 0 for the default
          InternalMaxSize,
          PageBytes,         \* ONEBASE_PAGE_SIZE
          PoolSize,          \* frames of the pool
          OtherPins          \* how many frames others may keep pinned

\* A leaf of maximum size 1 would have minimum size 0 and could be empty.
ASSUME SizesAssumption ==
    /\ LeafMaxSize \in Nat \ {1}
    /\ InternalMaxSize \in Nat \ {1}
    /\ Removable \subseteq Keys
    /\ OtherPins \subseteq 0 .. PoolSize

VARIABLES pages,     \* the live nodes, by page id
          root,      \* root_page_id_
          call,      \* the private function that runs next
          pins,      \* pin counts held by the tree
          others,    \* frames pinned by other users of the pool
          answer     \* what the latest Insert returned

vars == <<pages, root, call, pins, others, answer>>

-----------------------------------------------------------------------------
(* Sizes *)

LeafHeader == 20        \* sizeof(BPlusTreePage) + sizeof(page_id_t)
InternalHeader == 16    \* sizeof(BPlusTreePage)
LeafItem == 12          \* sizeof(int) + sizeof(RID)
InternalItem == 8       \* sizeof(int) + sizeof(page_id_t)

LeafMax ==
    IF LeafMaxSize = 0 THEN (PageBytes - LeafHeader) \div LeafItem ELSE LeafMaxSize
InternalMax ==
    IF InternalMaxSize = 0 THEN (PageBytes - InternalHeader) \div InternalItem
    ELSE InternalMaxSize

MaxSize(page) == IF page.leaf THEN LeafMax ELSE InternalMax
MinSize(page) == IF page.leaf THEN LeafMax \div 2 ELSE (InternalMax + 1) \div 2

-----------------------------------------------------------------------------
(* The buffer pool as the tree sees it *)

Pinned == {p \in PageIds : pins[p] > 0}

\* Whether the pages ps can be pinned beside those that already are.
CanPin(ps) == Cardinality(Pinned \union ps) + others <= PoolSize

Mentioned ==
    UNION {{pages[p].parent, pages[p].next}
           \union {pages[p].items[i].val : i \in DOMAIN pages[p].items} : p \in DOMAIN pages}

FreshIds == PageIds \ (DOMAIN pages \union Pinned \union Mentioned)

\* The ids of the first and the second NewPage of a step.
NewPageId == Min(FreshIds)
SecondPageId == Min(FreshIds \ {NewPageId})

AddPage(pgs, p, page) ==
    [q \in DOMAIN pgs \union {p} |-> IF q = p THEN page ELSE pgs[q]]

DeletePage(pgs, p) == [q \in DOMAIN pgs \ {p} |-> pgs[q]]

Unpin(p) == [pins EXCEPT ![p] = @ - 1]

\* Mutant: children keep their old parent.
AdoptNobody(pgs, p, children, held) == pgs

\* The loop over children whose parent_page_id_ is set to p, skipping the ones
\* that cannot be fetched while held is pinned.
Adopt(pgs, p, children, held) ==
    [q \in DOMAIN pgs |->
        IF q \in children /\ CanPin(held \union {q}) THEN [pgs[q] EXCEPT !.parent = p]
        ELSE pgs[q]]

Idle == [op |-> "idle"]

\* A private function returns, and the public call with it.
Return(pgs, rt) == pages' = pgs /\ root' = rt /\ call' = Idle

-----------------------------------------------------------------------------
(* Lookup *)

\* The descent of GetValue, Insert, FindLeafPage and Begin(key): one page is
\* pinned at a time; NoPage when a page cannot be fetched.
FindLeafPage(key) ==
    LET Walk[p \in DOMAIN pages] ==
            IF ~CanPin({p}) THEN NoPage
            ELSE IF pages[p].leaf THEN p
            ELSE Walk[ChildFor(pages[p].items, key)]
    IN  IF root = NoPage THEN NoPage ELSE Walk[root]

GetValue(key) ==
    LET p == FindLeafPage(key)
    IN  IF p = NoPage THEN NoPage ELSE LeafLookup(pages[p].items, key)

-----------------------------------------------------------------------------
(* Insertion *)

InsertFirst(key, value) ==
    /\ call = Idle
    /\ root = NoPage
    /\ CanPin({NewPageId})
    /\ pages' = AddPage(pages, NewPageId, LeafPage(<<Item(key, value)>>))
    /\ root' = NewPageId
    /\ answer' = TRUE
    /\ UNCHANGED <<call, pins, others>>

InsertIntoLeaf(key, value) ==
    LET p == FindLeafPage(key)
        items == LeafInsert(pages[p].items, key, value)
    IN  /\ call = Idle
        /\ root # NoPage
        /\ p # NoPage
        /\ answer' = (Len(items) # Size(pages[p]))
        /\ pages' = [pages EXCEPT ![p].items = items]
        /\ IF Len(items) # Size(pages[p]) /\ Len(items) > LeafMax
           THEN /\ call' = [op |-> "split", page |-> p]
                /\ pins' = [pins EXCEPT ![p] = @ + 1]
           ELSE UNCHANGED <<call, pins>>
        /\ UNCHANGED <<root, others>>

\* Mutant: a call that did nothing reports success.
InsertFailsSaysTrue(key) ==
    /\ call = Idle
    /\ IF root = NoPage THEN ~CanPin({NewPageId}) ELSE FindLeafPage(key) = NoPage
    /\ answer' = TRUE
    /\ UNCHANGED <<pages, root, call, pins, others>>

\* No frame for the first page, or for one on the way to the leaf.
InsertFails(key) ==
    /\ call = Idle
    /\ IF root = NoPage THEN ~CanPin({NewPageId}) ELSE FindLeafPage(key) = NoPage
    /\ answer' = FALSE
    /\ UNCHANGED <<pages, root, call, pins, others>>

Insert(key, value) ==
    InsertFirst(key, value) \/ InsertIntoLeaf(key, value) \/ InsertFails(key)

\* The ends of Split and SplitInternal when the split node p is the root.
GrowRoot(pgs, p, middle, new) ==
    IF CanPin({new, SecondPageId})
    THEN Return(AddPage([pgs EXCEPT ![p].parent = SecondPageId, ![new].parent = SecondPageId],
                        SecondPageId, InternalPage(PopulateNewRoot(p, middle, new))),
                SecondPageId)
    ELSE Return(pgs, root)

\* The end of Split and SplitInternal: pgs holds the two halves.
LinkHalves(pgs, p, middle, new) ==
    IF IsRootPage(pages[p]) THEN GrowRoot(pgs, p, middle, new)
    ELSE /\ pages' = pgs
         /\ call' = [op |-> "insertIntoParent", parent |-> pages[p].parent,
                     old |-> p, key |-> middle, new |-> new]
         /\ UNCHANGED root

\* Mutant: the error path forgets the unpin.
SplitKeepsPinOnFailure ==
    /\ call.op = "split"
    /\ LET p == call.page
           new == NewPageId
           half == MoveHalfTo(pages[p].items)
           new_leaf == [LeafPage(half.to) EXCEPT !.next = pages[p].next,
                                                 !.parent = pages[p].parent]
           halves == AddPage([pages EXCEPT ![p].items = half.from, ![p].next = new],
                             new, new_leaf)
       IN  /\ IF CanPin({new}) THEN LinkHalves(halves, p, half.to[1].key, new)
              ELSE Return(pages, root)
           /\ pins' = IF CanPin({new}) THEN Unpin(p) ELSE pins
    /\ UNCHANGED <<others, answer>>

Split ==
    /\ call.op = "split"
    /\ LET p == call.page
           new == NewPageId
           half == MoveHalfTo(pages[p].items)
           new_leaf == [LeafPage(half.to) EXCEPT !.next = pages[p].next,
                                                 !.parent = pages[p].parent]
           halves == AddPage([pages EXCEPT ![p].items = half.from, ![p].next = new],
                             new, new_leaf)
       IN  /\ IF CanPin({new}) THEN LinkHalves(halves, p, half.to[1].key, new)
              ELSE Return(pages, root)
           /\ pins' = Unpin(p)
    /\ UNCHANGED <<others, answer>>

InsertIntoParent ==
    /\ call.op = "insertIntoParent"
    /\ LET p == call.parent
           items == InsertNodeAfter(pages[p].items, call.old, call.key, call.new)
       IN  IF ~CanPin({p}) THEN Return(pages, root) /\ UNCHANGED pins
           ELSE /\ pages' = [pages EXCEPT ![p].items = items]
                /\ IF Len(items) > InternalMax
                   THEN /\ call' = [op |-> "splitInternal", page |-> p]
                        /\ pins' = [pins EXCEPT ![p] = @ + 1]
                   ELSE call' = Idle /\ UNCHANGED pins
                /\ UNCHANGED root
    /\ UNCHANGED <<others, answer>>

SplitInternal ==
    /\ call.op = "splitInternal"
    /\ LET p == call.page
           new == NewPageId
           middle == pages[p].items[SplitIndex(pages[p].items) + 1].key
           half == InternalMoveHalfTo(pages[p].items)
           new_internal == [InternalPage(half.to) EXCEPT !.parent = pages[p].parent]
           halves == Adopt(AddPage([pages EXCEPT ![p].items = half.from], new, new_internal),
                           new, {half.to[i].val : i \in DOMAIN half.to}, {new})
       IN  /\ IF CanPin({new}) THEN LinkHalves(halves, p, middle, new)
              ELSE Return(pages, root)
           /\ pins' = Unpin(p)
    /\ UNCHANGED <<others, answer>>

-----------------------------------------------------------------------------
(* Removal *)

Remove(key) ==
    LET p == FindLeafPage(key)
        items == RemoveAndDeleteRecord(pages[p].items, key)
        removed == [pages EXCEPT ![p].items = items]
    IN  /\ call = Idle
        /\ p # NoPage
        /\ IF Len(items) < MinSize(pages[p]) /\ ~IsRootPage(pages[p])
           THEN /\ pages' = removed
                /\ call' = [op |-> "coalesce", page |-> p]
                /\ pins' = [pins EXCEPT ![p] = @ + 1]
                /\ UNCHANGED root
           ELSE /\ IF items = <<>> /\ IsRootPage(pages[p])
                   THEN Return(DeletePage(pages, p), NoPage)
                   ELSE Return(removed, root)
                /\ UNCHANGED pins
        /\ UNCHANGED <<others, answer>>

\* An empty tree, or no frame on the way to the leaf.
RemoveNothing(key) ==
    /\ call = Idle
    /\ FindLeafPage(key) = NoPage
    /\ UNCHANGED vars

\* The sibling both coalescing functions choose: the left one if there is one.
\* sep is the index of the separator between the two.
Sibling(p) ==
    LET items == pages[pages[p].parent].items
        index == ValueIndex(items, p)
    IN  IF index > 0 THEN [id |-> items[index].val, left |-> TRUE, sep |-> index]
        ELSE IF index < Len(items) - 1
             THEN [id |-> items[index + 2].val, left |-> FALSE, sep |-> index + 1]
        ELSE [id |-> NoPage, left |-> FALSE, sep |-> index + 1]

\* Both functions go on only with the parent and a sibling pinned.
CanReachSibling(p) ==
    /\ CanPin({pages[p].parent})
    /\ Sibling(p).id # NoPage
    /\ CanPin({pages[p].parent, Sibling(p).id})

\* Mutant: the sibling gives also at its minimum size.
SiblingCanAlwaysGive(p) == TRUE

SiblingCanGive(p) == LET s == pages[Sibling(p).id] IN Size(s) > MinSize(s)

\* The end of both functions once a merge took an item from the parent.
ParentShrank(pgs, parent, p) ==
    LET items == pgs[parent].items
        isRoot == IsRootPage(pgs[parent])
    IN  IF Len(items) < MinSize(pgs[parent]) /\ ~isRoot
        THEN /\ pages' = pgs
             /\ call' = [op |-> "coalesceInternal", page |-> parent]
             /\ pins' = [Unpin(p) EXCEPT ![parent] = @ + 1]
             /\ UNCHANGED root
        ELSE /\ pins' = Unpin(p)
             /\ IF isRoot /\ Len(items) = 1
                THEN Return(DeletePage(Adopt(pgs, NoPage, {items[1].val}, {parent}), parent),
                            items[1].val)
                ELSE Return(pgs, root)

\* CoalesceOrRedistribute without a sibling: the only child of the root is
\* promoted, every other leaf stays as it is.
CoalesceAlone ==
    /\ call.op = "coalesce"
    /\ ~CanReachSibling(call.page)
    /\ LET p == call.page
           parent == pages[p].parent
       IN  IF /\ CanPin({parent})
              /\ Sibling(p).id = NoPage
              /\ IsRootPage(pages[parent])
              /\ Size(pages[parent]) = 1
           THEN Return(DeletePage([pages EXCEPT ![p].parent = NoPage], parent), p)
           ELSE Return(pages, root)
    /\ pins' = Unpin(call.page)
    /\ UNCHANGED <<others, answer>>

Redistribute ==
    /\ call.op = "coalesce"
    /\ CanReachSibling(call.page)
    /\ SiblingCanGive(call.page)
    /\ LET p == call.page
           sib == Sibling(p)
           moved == IF sib.left
                    THEN MoveLastToFrontOf(pages[sib.id].items, pages[p].items)
                    ELSE MoveFirstToEndOf(pages[sib.id].items, pages[p].items)
           key == IF sib.left THEN moved.to[1].key ELSE moved.from[1].key
       IN  Return([pages EXCEPT ![p].items = moved.to, ![sib.id].items = moved.from,
                                ![pages[p].parent].items = SetKeyAt(@, sib.sep, key)], root)
    /\ pins' = Unpin(call.page)
    /\ UNCHANGED <<others, answer>>

\* Mutant: the leaf list still leads to the deleted leaf.
CoalesceKeepsNext ==
    /\ call.op = "coalesce"
    /\ CanReachSibling(call.page)
    /\ ~SiblingCanGive(call.page)
    /\ LET p == call.page
           parent == pages[p].parent
           sib == Sibling(p)
           keep == IF sib.left THEN sib.id ELSE p
           gone == IF sib.left THEN p ELSE sib.id
           merged == [pages EXCEPT
                        ![keep].items = MoveAllTo(pages[gone].items, @).to,
                        ![parent].items = RemoveIndex(@, sib.sep)]
       IN  ParentShrank(DeletePage(merged, gone), parent, p)
    /\ UNCHANGED <<others, answer>>

Coalesce ==
    /\ call.op = "coalesce"
    /\ CanReachSibling(call.page)
    /\ ~SiblingCanGive(call.page)
    /\ LET p == call.page
           parent == pages[p].parent
           sib == Sibling(p)
           keep == IF sib.left THEN sib.id ELSE p
           gone == IF sib.left THEN p ELSE sib.id
           merged == [pages EXCEPT
                        ![keep].items = MoveAllTo(pages[gone].items, @).to,
                        ![keep].next = pages[gone].next,
                        ![parent].items = RemoveIndex(@, sib.sep)]
       IN  ParentShrank(DeletePage(merged, gone), parent, p)
    /\ UNCHANGED <<others, answer>>

\* On the left the parent's separator becomes the node's key 0, which is no
\* separator; on the right it becomes the sibling's first key, which the shift
\* has just brought to index 0.
RedistributeInternal(p) ==
    LET parent == pages[p].parent
        sib == Sibling(p)
        middle == pages[parent].items[sib.sep + 1].key
        moved == IF sib.left
                 THEN InternalMoveLastToFrontOf(pages[sib.id].items, pages[p].items, middle)
                 ELSE InternalMoveFirstToEndOf(pages[sib.id].items, pages[p].items, middle)
        key == IF sib.left THEN moved.to[1].key ELSE moved.from[1].key
        child == IF sib.left THEN moved.to[1].val ELSE Seqs!Last(moved.to).val
        pgs == [pages EXCEPT ![p].items = moved.to, ![sib.id].items = moved.from,
                             ![parent].items = SetKeyAt(@, sib.sep, key)]
    IN  /\ Return(Adopt(pgs, p, {child}, {parent, sib.id}), root)
        /\ pins' = Unpin(p)

\* The loop that should give the moved children their new parent runs to the
\* donor's size, which MoveAllTo has just set to zero.
CoalesceInternal(p) ==
    LET parent == pages[p].parent
        sib == Sibling(p)
        middle == pages[parent].items[sib.sep + 1].key
        keep == IF sib.left THEN sib.id ELSE p
        gone == IF sib.left THEN p ELSE sib.id
        moved == InternalMoveAllTo(pages[gone].items, pages[keep].items, middle)
        children == {moved.to[Len(moved.to) - Len(moved.from) + i].val :
                        i \in DOMAIN moved.from}
        merged == [pages EXCEPT ![gone].items = moved.from, ![keep].items = moved.to,
                                ![parent].items = RemoveIndex(@, sib.sep)]
    IN  ParentShrank(DeletePage(Adopt(merged, keep, children, {parent, sib.id}), gone),
                     parent, p)

CoalesceOrRedistributeInternal ==
    /\ call.op = "coalesceInternal"
    /\ IF ~CanReachSibling(call.page)
       THEN Return(pages, root) /\ pins' = Unpin(call.page)
       ELSE IF SiblingCanGive(call.page) THEN RedistributeInternal(call.page)
       ELSE CoalesceInternal(call.page)
    /\ UNCHANGED <<others, answer>>

-----------------------------------------------------------------------------

\* Other users of the pool pin and unpin frames between two calls.
OthersPin ==
    /\ call = Idle
    /\ others' \in OtherPins \ {others}
    /\ UNCHANGED <<pages, root, call, pins, answer>>

Init ==
    /\ pages = <<>>
    /\ root = NoPage
    /\ call = Idle
    /\ pins = [p \in PageIds |-> 0]
    /\ others = 0
    /\ answer = FALSE

Next ==
    \/ \E key \in Keys, value \in Values : Insert(key, value)
    \/ Split
    \/ InsertIntoParent
    \/ SplitInternal
    \/ \E key \in Removable : Remove(key) \/ RemoveNothing(key)
    \/ CoalesceAlone
    \/ Redistribute
    \/ Coalesce
    \/ CoalesceOrRedistributeInternal
    \/ OthersPin

Spec == Init /\ [][Next]_vars

-----------------------------------------------------------------------------
(* Properties *)

\* Type correctness of the tree's state.
TypeOK ==
    /\ DOMAIN pages \subseteq PageIds
    /\ \A p \in DOMAIN pages :
          /\ pages[p].leaf \in BOOLEAN
          /\ {pages[p].parent, pages[p].next} \subseteq PageIds \union {NoPage}
          /\ \A i \in DOMAIN pages[p].items :
                /\ pages[p].items[i].key \in Keys \union {0}
                /\ pages[p].items[i].val \in IF pages[p].leaf THEN Values ELSE PageIds
    /\ root \in DOMAIN pages \union {NoPage}
    /\ pins \in [PageIds -> 0 .. 1]
    /\ others \in OtherPins \union {0}
    /\ answer \in BOOLEAN

Leaves == {p \in DOMAIN pages : pages[p].leaf}

\* The pairs in the live leaves, wherever they hang.
Contents ==
    LET held(k) == {p \in Leaves : \E i \in DOMAIN pages[p].items : pages[p].items[i].key = k}
        valueIn(p, k) == LET i == CHOOSE i \in DOMAIN pages[p].items : pages[p].items[i].key = k
                         IN  pages[p].items[i].val
    IN  [k \in {k \in Keys : held(k) # {}} |-> valueIn(CHOOSE p \in held(k) : TRUE, k)]

\* Between calls, with a frame to spare, GetValue finds every pair some leaf
\* holds and no other: no split, merge or redistribution puts a key where the
\* separators above it do not lead.
LookupFinds ==
    call = Idle /\ others = 0 =>
        \A k \in Keys :
            GetValue(k) = IF k \in DOMAIN Contents THEN Contents[k] ELSE NoPage

\* Between calls every child of an internal node names that node as its parent,
\* and only the root has none: split propagation and rebalancing climb along
\* these pointers.
ParentsMatch ==
    call = Idle =>
        /\ root # NoPage => IsRootPage(pages[root])
        /\ \A p \in DOMAIN pages \ Leaves : \A i \in DOMAIN pages[p].items :
              pages[pages[p].items[i].val].parent = p

\* The keys of page p all come before those of page q.
Before(p, q) ==
    \A i \in DOMAIN pages[p].items, j \in DOMAIN pages[q].items :
        pages[p].items[i].key < pages[q].items[j].key

\* Between calls next_page_id_ leads from each leaf to the one with the next
\* larger keys: no third leaf lies between them, only one leaf ends the list and
\* no two lead to the same one, so the list passes every live leaf in key order.
LeafChain ==
    call = Idle =>
        \A p \in Leaves :
            LET next == pages[p].next
            IN  /\ \A i, j \in DOMAIN pages[p].items :
                      i < j => pages[p].items[i].key < pages[p].items[j].key
                /\ next # NoPage => next \in Leaves \ {p} /\ Before(p, next)
                /\ \A q \in Leaves \ {p, next} :
                      /\ pages[q].next # next
                      /\ Before(q, p) \/ (next # NoPage /\ Before(next, q))

\* Between calls every node but the root is between its minimum and its maximum
\* size, an internal root has two children, and all leaves are equally deep.
Balanced ==
    call = Idle =>
        LET Height[p \in DOMAIN pages] ==
                IF pages[p].leaf THEN 0 ELSE Height[pages[p].items[1].val] + 1
        IN  /\ \A p \in DOMAIN pages :
                  /\ Size(pages[p]) <= MaxSize(pages[p])
                  /\ p # root => Size(pages[p]) >= MinSize(pages[p])
                  /\ p = root /\ ~pages[p].leaf => Size(pages[p]) >= 2
            /\ \A p \in DOMAIN pages \ Leaves : \A i \in DOMAIN pages[p].items :
                  Height[pages[p].items[i].val] + 1 = Height[p]

\* Between calls the tree has no page pinned and no page it cannot reach: every
\* path through a call, failures included, unpins what it pinned, and a merge or
\* a shrinking root deletes the page it empties.
NothingLeaks ==
    call = Idle =>
        /\ Pinned = {}
        /\ \A p \in DOMAIN pages :
              \/ p = root
              \/ \E q \in DOMAIN pages \ Leaves : ValueIndex(pages[q].items, p) # -1

\* No node ever grows beyond its page.
FitsInPage ==
    \A p \in DOMAIN pages :
        IF pages[p].leaf THEN LeafHeader + LeafItem * Size(pages[p]) <= PageBytes
        ELSE InternalHeader + InternalItem * Size(pages[p]) <= PageBytes

KM == INSTANCE KeyMap WITH map <- Contents, MayFail <- OtherPins \ {0} # {}

\* The tree is a map: Insert adds exactly an absent key and tells the truth about
\* it, Remove takes out exactly its key, and no other step of the tree, whatever
\* it moves between leaves, changes what the leaves hold together.
ImplementsKeyMap == KM!Spec
=============================================================================
