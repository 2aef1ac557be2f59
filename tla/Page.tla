-------------------------------- MODULE Page --------------------------------
(***************************************************************************)
(* The 2 MB pages of one NUMA node (base/page.c, inc/base/page.h,          *)
(* inc/base/kref.h): a table of page structs handed out in order, a list   *)
(* of those that came back, and a reference count per page.  Only the      *)
(* table index and the list are under node->lock; mapping a page, taking   *)
(* and dropping references, and unmapping it are steps outside of it.      *)
(***************************************************************************)
EXTENDS Naturals, Sequences, SequencesExt

CONSTANTS
  Thread,
  Ents,         \* LGPAGE_META_ENTS
  MaxRefs,      \* bound: references taken to one page at the same time
  NULL

Entry == 1 .. Ents

VARIABLES
  idx,          \* node->idx: the entries handed out of the table so far
  pages,        \* node->pages
  in_use,       \* the entries with PAGE_FLAG_IN_USE
  ref,          \* pg->ref
  pc, pg        \* where a thread is, and the page it is busy with

vars == <<idx, pages, in_use, ref, pc, pg>>

Init ==
  /\ idx = 0
  /\ pages = <<>>
  /\ in_use = {}
  /\ ref = [e \in Entry |-> 0]
  /\ pc = [t \in Thread |-> "run"]
  /\ pg = [t \in Thread |-> NULL]

Goto(t, where, e) ==
  /\ pc' = [pc EXCEPT ![t] = where]
  /\ pg' = [pg EXCEPT ![t] = e]

\* Under node->lock: the first of the list, else the next of the table, else
\* the region is used up and the caller gets NULL.
lgpage_alloc_on_node(t) ==
  /\ pc[t] = "run"
  /\ \/ /\ pages # <<>>
        /\ pages' = Tail(pages)
        /\ Goto(t, "create", Head(pages))
        /\ UNCHANGED idx
     \/ /\ pages = <<>>
        /\ idx < Ents
        /\ idx' = idx + 1
        /\ Goto(t, "create", idx + 1)
        /\ UNCHANGED pages
  /\ UNCHANGED <<in_use, ref>>

\* Maps the page.  When that fails the caller gets NULL and the entry is
\* neither in use nor on the list again.
lgpage_create(t) ==
  /\ pc[t] = "create"
  /\ Goto(t, "run", NULL)
  /\ \/ /\ ref' = [ref EXCEPT ![pg[t]] = 1]
        /\ in_use' = in_use \cup {pg[t]}
     \/ UNCHANGED <<ref, in_use>>
  /\ UNCHANGED <<idx, pages>>

\* A holder takes another reference.
page_get(e) ==
  /\ ref[e] \in 1 .. MaxRefs - 1
  /\ ref' = [ref EXCEPT ![e] = @ + 1]
  /\ UNCHANGED <<idx, pages, in_use, pc, pg>>

\* A holder drops its reference; the last one releases the page.
page_put(t, e) ==
  /\ pc[t] = "run"
  /\ ref[e] > 0
  /\ ref' = [ref EXCEPT ![e] = @ - 1]
  /\ IF ref[e] = 1 THEN Goto(t, "destroy", e) ELSE UNCHANGED <<pc, pg>>
  /\ UNCHANGED <<idx, pages, in_use>>

\* page_release: unmap the page and clear its flags ...
lgpage_destroy(t) ==
  /\ pc[t] = "destroy"
  /\ in_use' = in_use \ {pg[t]}
  /\ Goto(t, "free", pg[t])
  /\ UNCHANGED <<idx, pages, ref>>

\* ... and put it on the list, under node->lock.
lgpage_free(t) ==
  /\ pc[t] = "free"
  /\ pages' = <<pg[t]>> \o pages
  /\ Goto(t, "run", NULL)
  /\ UNCHANGED <<idx, in_use, ref>>

Next ==
  \/ \E t \in Thread : \/ lgpage_alloc_on_node(t)
                       \/ lgpage_create(t)
                       \/ \E e \in Entry : page_put(t, e)
                       \/ lgpage_destroy(t)
                       \/ lgpage_free(t)
  \/ \E e \in Entry : page_get(e)

Spec == Init /\ [][Next]_vars

-----------------------------------------------------------------------------
\* The entries a thread has in its hands without owning a reference.
InHand(where) == {pg[t] : t \in {u \in Thread : pc[u] = where}}

\* An entry on its way into, on, or on its way out of the free list is not in
\* use (what lgpage_alloc_on_node asserts) and nobody has a reference to it;
\* it is there once; and a page somebody has a reference to is mapped.
PagesExact ==
  /\ IsInjective(pages)
  /\ Range(pages) \cap (InHand("create") \cup InHand("destroy") \cup InHand("free")) = {}
  /\ \A t, u \in Thread : t # u /\ pg[t] # NULL => pg[t] # pg[u]
  /\ (Range(pages) \cup InHand("create") \cup InHand("free")) \cap in_use = {}
  /\ in_use = {e \in Entry : ref[e] > 0} \cup InHand("destroy")
  /\ Range(pages) \cup in_use \subseteq 1 .. idx
=============================================================================
