-------------------------- MODULE BPlusTreeIterator --------------------------
(***************************************************************************)
(* Range scans over the index: Begin, Begin(key) and the iterator of       *)
(* storage/index/b_plus_tree_iterator, used as in                          *)
(*    for (auto it = tree.Begin(); it != tree.End(); ++it) { use it; }     *)
(* by the thread that uses the tree, which does not change the tree while  *)
(* a scan is open.                                                         *)
(***************************************************************************)
EXTENDS BPlusTree

CONSTANT MaxScans      \* bounds the number of scans

VARIABLES scan,        \* the iterator: position, and where the scan began
          seen,        \* the keys the open scan has dereferenced
          scans        \* scans begun

scanVars == <<scan, seen, scans>>
allVars == <<vars, scanVars>>

\* Smaller than every key: where Begin() starts.
FromStart == 0

Closed == [open |-> FALSE, page |-> NoPage, index |-> 0, start |-> FromStart]

\* The Iterator constructor and End().
OpenAt(page, index, start) ==
    /\ scan' = [open |-> TRUE, page |-> page, index |-> index, start |-> start]
    /\ seen' = <<>>
    /\ scans' = scans + 1

MayOpen == call = Idle /\ ~scan.open /\ scans < MaxScans

\* Begin(): down along the first children; End() when a fetch fails.
Begin ==
    LET Walk[p \in DOMAIN pages] ==
            IF ~CanPin({p}) THEN NoPage
            ELSE IF pages[p].leaf THEN p
            ELSE Walk[pages[p].items[1].val]
    IN  /\ MayOpen
        /\ OpenAt(IF root = NoPage THEN NoPage ELSE Walk[root], 0, FromStart)
        /\ UNCHANGED vars

\* Mutant: a key beyond its leaf is taken to be beyond all.
BeginAtStays(key) ==
    LET p == FindLeafPage(key)
        index == KeyIndex(pages[p].items, key)
    IN  /\ MayOpen
        /\ IF p = NoPage \/ index >= Size(pages[p]) THEN OpenAt(NoPage, 0, key)
           ELSE OpenAt(p, index, key)
        /\ UNCHANGED vars

\* Begin(key): the leaf is read once more after its UnpinPage, which nothing can
\* disturb on one thread.
BeginAt(key) ==
    LET p == FindLeafPage(key)
        index == KeyIndex(pages[p].items, key)
    IN  /\ MayOpen
        /\ IF p = NoPage THEN OpenAt(NoPage, 0, key)
           ELSE IF index >= Size(pages[p]) THEN OpenAt(pages[p].next, 0, key)
           ELSE OpenAt(p, index, key)
        /\ UNCHANGED vars

\* UnpinPage of a page that is not pinned returns FALSE and changes nothing.
UnpinIfPinned(counts, p) ==
    IF p # NoPage /\ counts[p] > 0 THEN [counts EXCEPT ![p] = @ - 1] ELSE counts

\* operator*, then operator++: the page is fetched under the old page_id_ and
\* unpinned under the new one.  operator* throws when the page cannot be fetched.
Increment ==
    LET p == scan.page
        last == scan.index + 1 >= Size(pages[p])
        after == IF last THEN [scan EXCEPT !.page = pages[p].next, !.index = 0]
                 ELSE [scan EXCEPT !.index = @ + 1]
    IN  /\ scan.open
        /\ p # NoPage
        /\ IF CanPin({p})
           THEN /\ seen' = Append(seen, pages[p].items[scan.index + 1].key)
                /\ scan' = after
                /\ pins' = UnpinIfPinned([pins EXCEPT ![p] = @ + 1], after.page)
           ELSE scan' = Closed /\ seen' = <<>> /\ UNCHANGED pins
        /\ UNCHANGED <<pages, root, call, others, answer, scans>>

\* it != End() fails, or the caller leaves the loop.
Close ==
    /\ scan.open
    /\ scan' = Closed
    /\ seen' = <<>>
    /\ UNCHANGED <<vars, scans>>

TreeStep == ~scan.open /\ Next /\ UNCHANGED scanVars

ScanInit == Init /\ scan = Closed /\ seen = <<>> /\ scans = 0

ScanNext ==
    \/ TreeStep
    \/ Begin
    \/ \E key \in Keys : BeginAt(key)
    \/ Increment
    \/ Close

ScanSpec == ScanInit /\ [][ScanNext]_allVars

-----------------------------------------------------------------------------
(* Properties *)

\* A scan that has come to its end has dereferenced exactly the keys from its
\* start on, in increasing order and each once, however the leaves came to be
\* linked and wherever the start key lies between them.
ScanSeesAll ==
    scan.open /\ scan.page = NoPage =>
        seen = Seqs!SetToSortSeq({k \in DOMAIN Contents : k >= scan.start}, <)

\* When no call and no scan is under way the index has nothing pinned.
ScanUnpinsAll == call = Idle /\ ~scan.open => Pinned = {}
=============================================================================
