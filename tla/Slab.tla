-------------------------------- MODULE Slab --------------------------------
(***************************************************************************)
(* The slab allocator of one NUMA node (base/slab.c, inc/base/slab.h):     *)
(* items are carved from the current page, freed items are chained in      *)
(* their page, and pages move between the current page, the full list and  *)
(* the partial list, or back to the page allocator.  thread_numa_node is 0 *)
(* for every thread (base/thread.c), so that one node is all there is.     *)
(*                                                                         *)
(* n->page_lock is explicit: a cache refills with a batch under one hold,  *)
(* but frees item by item, and page_put comes after the unlock.  A chain   *)
(* and a list are sets, their order only decides which item or page comes  *)
(* next.  n->nr_pages is a statistic and is left out.                      *)
(***************************************************************************)
EXTENDS Naturals, FiniteSets

CONSTANTS
  Thread,
  Page,         \* the pages the page allocator can give
  NrElems,      \* n->nr_elems
  Thresh,       \* SLAB_PARTIAL_THRESH
  Batch,        \* the sizes of allocations: 1, and the magazine of a cache
  NULL

VARIABLES
  spare,        \* the pages the page allocator has
  cur_pg,       \* n->cur_pg
  pg_off,       \* n->pg_off, in items
  full_list, partial_list,
  item_count,   \* pg->item_count
  chain,        \* pg->next: the free items chained in a page
  lock,         \* n->page_lock: its holder
  want,         \* want[t]: the size of the batch thread t is allocating
  items,        \* items[t]: what it has of it, or still has to give back
  pc,           \* "run", "alloc", or "fail" in the error path of a batch
  put,          \* put[t]: the page it unlinked and has to page_put
  held          \* the items the callers have

vars == <<spare, cur_pg, pg_off, full_list, partial_list, item_count, chain,
          lock, want, items, pc, put, held>>

SlabItem == Page \X (1 .. NrElems)

SlabConstants ==
  /\ NrElems \in Nat /\ Thresh \in Nat \ {0}
  /\ NrElems >= 2 * Thresh      \* the size limits of slab_create
  /\ NULL \notin Page \cup Thread

\* A node without pages.
slab_create_node ==
  /\ cur_pg = NULL
  /\ pg_off = 0
  /\ full_list = {} /\ partial_list = {}
  /\ item_count = [p \in Page |-> 0]
  /\ chain = [p \in Page |-> {}]

Init ==
  /\ spare = Page
  /\ slab_create_node
  /\ lock = NULL
  /\ want = [t \in Thread |-> 0]
  /\ items = [t \in Thread |-> {}]
  /\ pc = [t \in Thread |-> "run"]
  /\ put = [t \in Thread |-> NULL]
  /\ held = {}

(***************************************************************************)
(* Allocation.                                                             *)
(***************************************************************************)

slab_tcache_alloc(t) ==
  /\ pc[t] = "run" /\ put[t] = NULL
  /\ lock = NULL
  /\ lock' = t
  /\ pc' = [pc EXCEPT ![t] = "alloc"]
  /\ \E nr \in Batch : want' = [want EXCEPT ![t] = nr]
  /\ UNCHANGED <<spare, cur_pg, pg_off, full_list, partial_list, item_count, chain,
                 items, put, held>>

\* The current page has an item to give.
Stocked == cur_pg # NULL /\ item_count[cur_pg] > 0

\* Sets the current page aside on the full list.
Retire == full_list' = IF cur_pg = NULL THEN full_list ELSE full_list \cup {cur_pg}

\* Gives out item i of the page that is current now; the last item of the
\* batch ends it and unlocks.
Give(t, i) ==
  IF Cardinality(items[t]) + 1 = want[t]
  THEN /\ held' = held \cup items[t] \cup {i}
       /\ items' = [items EXCEPT ![t] = {}]
       /\ pc' = [pc EXCEPT ![t] = "run"]
       /\ want' = [want EXCEPT ![t] = 0]
       /\ lock' = NULL
  ELSE items' = [items EXCEPT ![t] = @ \cup {i}] /\ UNCHANGED <<held, pc, want, lock>>

\* A chained item of page p, else the next one carved from it.
FromPage(t, p) ==
  /\ item_count' = [item_count EXCEPT ![p] = @ - 1]
  /\ IF chain[p] # {}
     THEN \E i \in chain[p] : /\ chain' = [chain EXCEPT ![p] = @ \ {i}]
                              /\ Give(t, <<p, i>>)
                              /\ UNCHANGED pg_off
     ELSE /\ pg_off' = pg_off + 1
          /\ Give(t, <<p, pg_off + 1>>)
          /\ UNCHANGED chain

AllocCurrent(t) ==
  /\ pc[t] = "alloc"
  /\ Stocked
  /\ FromPage(t, cur_pg)
  /\ UNCHANGED <<spare, cur_pg, full_list, partial_list, put>>

\* __slab_node_get_page: a page of the partial list.
AllocPartial(t) ==
  /\ pc[t] = "alloc"
  /\ ~Stocked
  /\ Retire
  /\ \E p \in partial_list : /\ partial_list' = partial_list \ {p}
                             /\ cur_pg' = p
                             /\ FromPage(t, p)
  /\ UNCHANGED <<spare, put>>

\* Mutant: pg_off goes on from the page before.
AllocFreshOver(t) ==
  /\ pc[t] = "alloc"
  /\ ~Stocked
  /\ partial_list = {}
  /\ Retire
  /\ \E p \in spare : /\ spare' = spare \ {p}
                      /\ cur_pg' = p
                      /\ item_count' = [item_count EXCEPT ![p] = NrElems - 1]
                      /\ chain' = [chain EXCEPT ![p] = {}]
                      /\ pg_off' = pg_off + 1
                      /\ Give(t, <<p, pg_off + 1>>)
  /\ UNCHANGED <<partial_list, put>>

\* ... or a fresh one, from which the first item is carved.
AllocFresh(t) ==
  /\ pc[t] = "alloc"
  /\ ~Stocked
  /\ partial_list = {}
  /\ Retire
  /\ \E p \in spare : /\ spare' = spare \ {p}
                      /\ cur_pg' = p
                      /\ item_count' = [item_count EXCEPT ![p] = NrElems - 1]
                      /\ chain' = [chain EXCEPT ![p] = {}]
                      /\ pg_off' = 1
                      /\ Give(t, <<p, 1>>)
  /\ UNCHANGED <<partial_list, put>>

\* ... or there is no memory: there is no current page now, and the batch
\* unlocks and goes to give back what it has.
AllocFails(t) ==
  /\ pc[t] = "alloc"
  /\ ~Stocked
  /\ partial_list = {}
  /\ Retire
  /\ cur_pg' = NULL
  /\ lock' = NULL
  /\ want' = [want EXCEPT ![t] = 0]
  /\ pc' = [pc EXCEPT ![t] = IF items[t] = {} THEN "run" ELSE "fail"]
  /\ UNCHANGED <<spare, pg_off, partial_list, item_count, chain, items, put, held>>

(***************************************************************************)
(* Freeing one item, from a caller or from a batch that failed.            *)
(***************************************************************************)

\* Mutant: a page moves to the partial list one item late and never goes back.
RelinkBelow(t, p, n) ==
  /\ partial_list' = IF p # cur_pg /\ n > Thresh THEN partial_list \cup {p}
                     ELSE partial_list
  /\ full_list' = IF p # cur_pg /\ n > Thresh THEN full_list \ {p} ELSE full_list
  /\ UNCHANGED put

\* What page p is with n free items: current, on a list, or to be given back.
Relink(t, p, n) ==
  IF p = cur_pg THEN UNCHANGED <<full_list, partial_list, put>>
  ELSE IF n = Thresh
  THEN /\ full_list' = full_list \ {p}
       /\ partial_list' = partial_list \cup {p}
       /\ UNCHANGED put
  ELSE IF n = NrElems
  THEN /\ full_list' = full_list \ {p}
       /\ partial_list' = partial_list \ {p}
       /\ put' = [put EXCEPT ![t] = p]
  ELSE UNCHANGED <<full_list, partial_list, put>>

\* Under the lock: chain the item, count it, and relink the page.
Chained(t, p, i) ==
  /\ put[t] = NULL
  /\ lock = NULL
  /\ chain' = [chain EXCEPT ![p] = @ \cup {i}]
  /\ item_count' = [item_count EXCEPT ![p] = @ + 1]
  /\ Relink(t, p, item_count[p] + 1)
  /\ UNCHANGED <<spare, cur_pg, pg_off, lock, want>>

slab_free(t) ==
  /\ pc[t] = "run"
  /\ \E x \in held : Chained(t, x[1], x[2]) /\ held' = held \ {x}
  /\ UNCHANGED <<items, pc>>

FreeFailed(t) ==
  /\ pc[t] = "fail"
  /\ \E x \in items[t] :
       /\ Chained(t, x[1], x[2])
       /\ items' = [items EXCEPT ![t] = @ \ {x}]
       /\ pc' = [pc EXCEPT ![t] = IF items[t] = {x} THEN "run" ELSE "fail"]
  /\ UNCHANGED held

\* After the unlock: the page goes back to the page allocator.
page_put(t) ==
  /\ put[t] # NULL
  /\ spare' = spare \cup {put[t]}
  /\ item_count' = [item_count EXCEPT ![put[t]] = 0]
  /\ chain' = [chain EXCEPT ![put[t]] = {}]
  /\ put' = [put EXCEPT ![t] = NULL]
  /\ UNCHANGED <<cur_pg, pg_off, full_list, partial_list, lock, want, items, pc, held>>

\* Its caller makes sure that nobody has an item or uses the slab any more.
slab_destroy ==
  /\ held = {}
  /\ \A t \in Thread : pc[t] = "run" /\ put[t] = NULL
  /\ spare' = spare \cup full_list \cup partial_list \cup ({cur_pg} \ {NULL})
  /\ cur_pg' = NULL
  /\ pg_off' = 0
  /\ full_list' = {} /\ partial_list' = {}
  /\ item_count' = [p \in Page |-> 0]
  /\ chain' = [p \in Page |-> {}]
  /\ UNCHANGED <<lock, want, items, pc, put, held>>

Next ==
  \/ \E t \in Thread :
       \/ slab_tcache_alloc(t)
       \/ AllocCurrent(t) \/ AllocPartial(t) \/ AllocFresh(t) \/ AllocFails(t)
       \/ slab_free(t) \/ FreeFailed(t)
       \/ page_put(t)
  \/ slab_destroy

Spec == Init /\ [][Next]_vars

-----------------------------------------------------------------------------
\* The items that are out: with a caller, or in a batch.
Out == held \cup UNION {items[t] : t \in Thread}
OutOf(p) == {x[2] : x \in {y \in Out : y[1] = p}}

\* The items not carved yet: pg_off is the node's, and means the current page
\* only while that is a fresh one.
Uncarved(p) == {i \in 1 .. NrElems : i \notin chain[p] \cup OutOf(p)}

\* Every free item is found again exactly once: item_count is what the page
\* has, and everything it has is chained, except behind pg_off of the page
\* that is current.
ItemsExact ==
  \A p \in Page \ spare :
    /\ chain[p] \cap OutOf(p) = {}
    /\ item_count[p] = NrElems - Cardinality(OutOf(p))
    /\ Uncarved(p) # {} => p = cur_pg /\ Uncarved(p) = pg_off + 1 .. NrElems

\* Every page is in one place, the one that goes with its item_count: a page
\* that is not current is on the full list below the threshold, on the partial
\* list from there, and goes back as soon as its last item does; no page with
\* an item outside is ever given back.
PagesPlaced ==
  LET putting == {put[t] : t \in Thread} \ {NULL}
      linked == full_list \cup partial_list
  IN /\ full_list \cap partial_list = {}
     /\ cur_pg \notin linked
     /\ putting \cap (linked \cup {cur_pg}) = {}
     /\ Page = spare \cup linked \cup putting \cup ({cur_pg} \ {NULL})
     /\ spare \cap (linked \cup putting \cup {cur_pg}) = {}
     /\ \A p \in full_list : item_count[p] < Thresh
     /\ \A p \in partial_list : item_count[p] \in Thresh .. NrElems - 1
     /\ \A p \in putting \cup spare : OutOf(p) = {}

\* The items of a page that can still be allocated: all of a spare page, else
\* the chained ones and those behind pg_off of the current page.
FreeOf(p) ==
  IF p \in spare THEN 1 .. NrElems
  ELSE chain[p] \cup (IF p = cur_pg THEN pg_off + 1 .. NrElems ELSE {})

\* The slab implements the abstract pool: an item that slab_alloc returns was
\* in the chain of its page or not carved yet, and nobody had it.
P == INSTANCE Pool WITH Item <- SlabItem, used <- held,
       free <- (UNION {{p} \X FreeOf(p) : p \in Page}) \cup (UNION {items[t] : t \in Thread})
ImplementsPool == P!Spec
=============================================================================
