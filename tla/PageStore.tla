----------------------------- MODULE PageStore -----------------------------
(***************************************************************************)
(* What the buffer pool promises to its callers: a store of pages.  A page *)
(* keeps the contents its holders last gave it, however often it is        *)
(* evicted, fetched again and flushed; a restart takes every page back to  *)
(* what had reached the file, and loses the pages that never did.          *)
(***************************************************************************)
EXTENDS Integers

CONSTANTS PageIds, Data, Zero, NoPage

VARIABLES
  content,    \* what a reader of the page finds now, NoPage if there is none
  durable     \* what the file holds for the page, NoPage past its end

vars == <<content, durable>>

Init ==
  /\ content = [p \in PageIds |-> NoPage]
  /\ durable = [p \in PageIds |-> NoPage]

\* Any step may write pages back.  A page that is not written back keeps its
\* durable contents, or becomes a hole when the file grows past it.
Persist ==
  /\ durable' \in [PageIds -> Data \cup {NoPage}]
  /\ \A p \in PageIds :
       \/ durable'[p] = durable[p]
       \/ content[p] # NoPage /\ durable'[p] = content[p]
       \/ durable[p] = NoPage /\ durable'[p] = Zero

Allocate(p) ==
  /\ content[p] = NoPage
  /\ content' = [content EXCEPT ![p] = Zero]
  /\ Persist

Write(p, d) ==
  /\ content[p] # NoPage
  /\ content' = [content EXCEPT ![p] = d]
  /\ UNCHANGED durable

Delete(p) ==
  /\ content' = [content EXCEPT ![p] = NoPage]
  /\ UNCHANGED durable

WriteBack == Persist /\ UNCHANGED content

Restart ==
  /\ content' = [p \in PageIds |->
                   IF content[p] = NoPage THEN NoPage ELSE durable[p]]
  /\ UNCHANGED durable

Next ==
  \/ \E p \in PageIds : Allocate(p) \/ Delete(p) \/ \E d \in Data : Write(p, d)
  \/ WriteBack
  \/ Restart

Spec == Init /\ [][Next]_vars
=============================================================================
