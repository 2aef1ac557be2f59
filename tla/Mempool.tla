------------------------------ MODULE Mempool -------------------------------
(***************************************************************************)
(* The fixed memory pool (base/mempool.c, inc/base/mempool.h) as the       *)
(* backend of a thread-local cache: an array of free items of which the    *)
(* first `allocated` slots are stale.  mptc->lock makes a batch one step,  *)
(* except that a batch which runs out unlocks before it gives back what it *)
(* already took.                                                           *)
(***************************************************************************)
EXTENDS Naturals, FiniteSets, Functions

CONSTANTS
  Thread,
  NrPages,      \* len / pgsize
  PerPage,      \* pgsize / item_len
  MagSize       \* the batch a cache asks for

VARIABLES
  free_items,   \* m->free_items
  allocated,    \* m->allocated
  undo,         \* undo[t]: what a failed batch of thread t still has to free
  held          \* the items the caches have

vars == <<free_items, allocated, undo, held>>

\* An item is a page of the buffer and a position in that page.
PoolItem == (0 .. NrPages - 1) \X (0 .. PerPage - 1)

capacity == NrPages * PerPage

\* Fills the array page by page.
mempool_populate ==
  [k \in 1 .. capacity |-> <<(k - 1) \div PerPage, (k - 1) % PerPage>>]

Init ==
  /\ free_items = mempool_populate
  /\ allocated = 0
  /\ undo = [t \in Thread |-> {}]
  /\ held = {}

\* The items nr calls of mempool_alloc return from here on.
Taken(nr) == {free_items[k] : k \in allocated + 1 .. allocated + nr}

\* A whole batch.
mempool_tcache_alloc(t) ==
  /\ undo[t] = {}
  /\ allocated + MagSize <= capacity
  /\ held' = held \cup Taken(MagSize)
  /\ allocated' = allocated + MagSize
  /\ UNCHANGED <<free_items, undo>>

\* The batch takes what is left, finds the pool empty, and unlocks.
AllocRunsOut(t) ==
  /\ undo[t] = {}
  /\ allocated + MagSize > capacity
  /\ undo' = [undo EXCEPT ![t] = Taken(capacity - allocated)]
  /\ allocated' = capacity
  /\ UNCHANGED <<free_items, held>>

\* Writes the items of S into the slots below allocated, in some order.
PutBackAt(S, a) ==
  \E f \in Bijection(1 .. Cardinality(S), S) :
    free_items' = [k \in 1 .. capacity |->
      IF k \in a + 1 .. a + Cardinality(S) THEN f[k - a] ELSE free_items[k]]

\* Mutant: moves the index only and leaves what the slots held.
PutBackStale(S) ==
  /\ allocated' = allocated - Cardinality(S)
  /\ UNCHANGED free_items

PutBack(S) ==
  /\ allocated' = allocated - Cardinality(S)
  /\ PutBackAt(S, allocated - Cardinality(S))

\* The cache gives a magazine back.
mempool_tcache_free(t) ==
  /\ undo[t] = {}
  /\ \E S \in SUBSET held :
       /\ Cardinality(S) = MagSize
       /\ PutBack(S)
       /\ held' = held \ S
  /\ UNCHANGED undo

\* The failed batch gives back what it took.
UndoBatch(t) ==
  /\ undo[t] # {}
  /\ PutBack(undo[t])
  /\ undo' = [undo EXCEPT ![t] = {}]
  /\ UNCHANGED held

Next == \E t \in Thread :
  \/ mempool_tcache_alloc(t)
  \/ AllocRunsOut(t)
  \/ mempool_tcache_free(t)
  \/ UndoBatch(t)

Spec == Init /\ [][Next]_vars

-----------------------------------------------------------------------------
\* The slots from allocated on hold every item nobody has, once: no item is
\* lost or offered twice, whatever batches fail half-way at the same time, and
\* the assertion of mempool_free that the index did not wrap holds.
FreeItemsExact ==
  /\ allocated \in 0 .. capacity
  /\ IsInjective(Restrict(free_items, allocated + 1 .. capacity))
  /\ {free_items[k] : k \in allocated + 1 .. capacity} =
       PoolItem \ (held \cup UNION {undo[t] : t \in Thread})
  /\ \A t \in Thread : undo[t] \cap held = {}

\* The pool implements the abstract one: the batch that mempool_tcache_alloc
\* returns was in the array from allocated on, and nobody had it.
P == INSTANCE Pool WITH Item <- PoolItem, used <- held,
       free <- {free_items[k] : k \in allocated + 1 .. capacity}
                 \cup UNION {undo[t] : t \in Thread}
ImplementsPool == P!Spec
=============================================================================
