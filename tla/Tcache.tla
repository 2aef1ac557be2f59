------------------------------- MODULE Tcache -------------------------------
(***************************************************************************)
(* The thread-local item cache (base/tcache.c, inc/base/tcache.h): two     *)
(* magazines per thread, a list of full magazines shared under tc->lock    *)
(* and a backend that hands out and takes back whole magazines.            *)
(*                                                                         *)
(* A magazine is the set of its items: the order in which next_item chains *)
(* them only decides which item an allocation returns.  The handle of a    *)
(* thread is touched by that thread alone; what other threads see between  *)
(* two steps is shared_mags, the backend and mags_allocated.  So the slow  *)
(* path that finds shared_mags empty, asks the backend and counts the      *)
(* magazine is three steps, and tcache_reclaim one step to unhook the list *)
(* and two per magazine.  The backend (tc->ops) is a set of items that     *)
(* gives any MagSize of them or fails.                                     *)
(***************************************************************************)
EXTENDS Integers, FiniteSets

CONSTANTS
  Thread,       \* the threads with a tcache_perthread handle
  Item,         \* the items of the backend
  MagSize       \* tc->mag_size, and the capacity of every handle

ASSUME TcacheAssumption == MagSize \in Nat \ {0} /\ IsFiniteSet(Item)

VARIABLES
  loaded,       \* ltc->loaded: the magazine a thread allocates from
  previous,     \* ltc->previous: a full magazine, or none
  rounds,       \* ltc->rounds
  shared,       \* tc->shared_mags
  reclaiming,   \* the magazines tcache_reclaim has unhooked
  backend,      \* the items the backend has
  mags,         \* tc->mags_allocated
  missing,      \* the threads between CASE 2 and CASE 3 of __tcache_alloc
  counting,     \* those with a new magazine that mags_allocated does not count
  uncounting,   \* whether it still counts a magazine the backend took back
  held          \* the items the callers have

vars == <<loaded, previous, rounds, shared, reclaiming, backend, mags, missing,
          counting, uncounting, held>>

TypeOK ==
  /\ loaded \in [Thread -> SUBSET Item]
  /\ previous \in [Thread -> SUBSET Item]
  /\ rounds \in [Thread -> Nat]
  /\ shared \in SUBSET SUBSET Item
  /\ reclaiming \in SUBSET SUBSET Item
  /\ backend \in SUBSET Item
  /\ mags \in Int
  /\ missing \in SUBSET Thread
  /\ counting \in SUBSET Thread
  /\ uncounting \in BOOLEAN
  /\ held \in SUBSET Item

Init ==
  /\ loaded = [t \in Thread |-> {}]
  /\ previous = [t \in Thread |-> {}]
  /\ rounds = [t \in Thread |-> 0]
  /\ shared = {}
  /\ reclaiming = {}
  /\ backend = Item
  /\ mags = 0
  /\ missing = {}
  /\ counting = {}
  /\ uncounting = FALSE
  /\ held = {}

\* The thread is not in the middle of __tcache_alloc.
Ready(t) == t \notin missing \cup counting

(***************************************************************************)
(* Allocation.                                                             *)
(***************************************************************************)

\* The fast path: the next round of the loaded magazine.
tcache_alloc(t) ==
  /\ Ready(t)
  /\ rounds[t] > 0
  /\ \E i \in loaded[t] :
       /\ loaded' = [loaded EXCEPT ![t] = @ \ {i}]
       /\ held' = held \cup {i}
  /\ rounds' = [rounds EXCEPT ![t] = @ - 1]
  /\ UNCHANGED <<previous, shared, reclaiming, backend, mags, missing, counting,
                 uncounting>>

\* The end of the slow path: load a full magazine and take its first item.
Reload(t, mag) ==
  /\ rounds' = [rounds EXCEPT ![t] = MagSize - 1]
  /\ \E i \in mag :
       /\ loaded' = [loaded EXCEPT ![t] = mag \ {i}]
       /\ held' = held \cup {i}

\* Mutant: the magazine that is loaded stays the previous one, too.
AllocPreviousKept(t) ==
  /\ Ready(t)
  /\ rounds[t] = 0
  /\ previous[t] # {}
  /\ Reload(t, previous[t])
  /\ UNCHANGED <<previous, shared, reclaiming, backend, mags, missing, counting,
                 uncounting>>

\* CASE 1: exchange the empty loaded magazine with the full previous one.
AllocPrevious(t) ==
  /\ Ready(t)
  /\ rounds[t] = 0
  /\ previous[t] # {}
  /\ Reload(t, previous[t])
  /\ previous' = [previous EXCEPT ![t] = {}]
  /\ UNCHANGED <<shared, reclaiming, backend, mags, missing, counting,
                 uncounting>>

\* CASE 2: a magazine of the shared pool, or none there.
AllocShared(t) ==
  /\ Ready(t)
  /\ rounds[t] = 0
  /\ previous[t] = {}
  /\ IF shared = {}
     THEN missing' = missing \cup {t} /\ UNCHANGED <<loaded, rounds, shared, held>>
     ELSE \E mag \in shared : /\ shared' = shared \ {mag}
                              /\ Reload(t, mag)
                              /\ UNCHANGED missing
  /\ UNCHANGED <<previous, reclaiming, backend, mags, counting, uncounting>>

\* CASE 3: the backend gives a new magazine, which is to be loaded.
tcache_alloc_mag(t) ==
  /\ t \in missing
  /\ missing' = missing \ {t}
  /\ counting' = counting \cup {t}
  /\ \E mag \in SUBSET backend :
       /\ Cardinality(mag) = MagSize
       /\ backend' = backend \ mag
       /\ loaded' = [loaded EXCEPT ![t] = mag]
  /\ UNCHANGED <<previous, rounds, shared, reclaiming, mags, uncounting, held>>

\* The magazine is counted, and its first item taken.
CountAlloc(t) ==
  /\ t \in counting
  /\ counting' = counting \ {t}
  /\ mags' = mags + 1
  /\ Reload(t, loaded[t])
  /\ UNCHANGED <<previous, shared, reclaiming, backend, missing, uncounting>>

\* ... or the backend is out of memory, and the allocation returns NULL.
AllocFails(t) ==
  /\ t \in missing
  /\ missing' = missing \ {t}
  /\ UNCHANGED <<loaded, previous, rounds, shared, reclaiming, backend, mags,
                 counting, uncounting, held>>

(***************************************************************************)
(* Freeing.  An item may come back to another thread than it came from.    *)
(***************************************************************************)

FastFree(t, capacity) ==
  /\ Ready(t)
  /\ rounds[t] < capacity
  /\ \E i \in held : /\ held' = held \ {i}
                     /\ loaded' = [loaded EXCEPT ![t] = @ \cup {i}]
  /\ rounds' = [rounds EXCEPT ![t] = @ + 1]
  /\ UNCHANGED <<previous, shared, reclaiming, backend, mags, missing, counting,
                 uncounting>>

\* Mutant: one item more than a magazine has room for.
FreeOneMore(t) == FastFree(t, MagSize + 1)

tcache_free(t) == FastFree(t, MagSize)

\* The end of the slow path: start a new magazine with the item.
Restart(t) ==
  /\ rounds' = [rounds EXCEPT ![t] = 1]
  /\ previous' = [previous EXCEPT ![t] = loaded[t]]
  /\ \E i \in held : /\ held' = held \ {i}
                     /\ loaded' = [loaded EXCEPT ![t] = {i}]

\* CASE 1 keeps the full magazine as previous; CASE 2 first gives the one that
\* is there to the shared pool.
FreeSlow(t) ==
  /\ Ready(t)
  /\ rounds[t] >= MagSize
  /\ shared' = IF previous[t] = {} THEN shared ELSE shared \cup {previous[t]}
  /\ Restart(t)
  /\ UNCHANGED <<reclaiming, backend, mags, missing, counting,
                 uncounting>>

(***************************************************************************)
(* Reclaiming.                                                             *)
(***************************************************************************)

tcache_reclaim ==
  /\ reclaiming = {} /\ ~uncounting
  /\ shared # {}
  /\ reclaiming' = shared
  /\ shared' = {}
  /\ UNCHANGED <<loaded, previous, rounds, backend, mags, missing, counting, uncounting,
                 held>>

tcache_free_mag ==
  /\ ~uncounting /\ uncounting' = TRUE
  /\ \E mag \in reclaiming : /\ reclaiming' = reclaiming \ {mag}
                             /\ backend' = backend \cup mag
  /\ UNCHANGED <<loaded, previous, rounds, shared, mags, missing, counting, held>>

CountFree ==
  /\ uncounting /\ uncounting' = FALSE
  /\ mags' = mags - 1
  /\ UNCHANGED <<loaded, previous, rounds, shared, reclaiming, backend, missing,
                 counting, held>>

ThreadStep(t) ==
  \/ tcache_alloc(t)
  \/ AllocPrevious(t)
  \/ AllocShared(t)
  \/ tcache_alloc_mag(t)
  \/ CountAlloc(t)
  \/ AllocFails(t)
  \/ tcache_free(t)
  \/ FreeSlow(t)

Next ==
  \/ \E t \in Thread : ThreadStep(t)
  \/ tcache_reclaim
  \/ tcache_free_mag
  \/ CountFree

Spec == Init /\ [][Next]_vars

(***************************************************************************)
(* Properties.                                                             *)
(***************************************************************************)

\* The magazines, wherever they are.
Full == shared \cup reclaiming

\* The items a thread has in its handle.
Cached(t) == loaded[t] \cup previous[t]

\* The items that are in the backend or in some magazine.
FreeItems == backend \cup (UNION Full) \cup (UNION {Cached(t) : t \in Thread})

\* No item is in two places: not in two threads' magazines, not in a magazine
\* and in a caller's hands, not in the backend and in a magazine that was
\* unhooked, exchanged or reloaded meanwhile.
OnePlaceEach ==
  /\ \A t \in Thread : loaded[t] \cap previous[t] = {}
  /\ \A t, u \in Thread : t # u => Cached(t) \cap Cached(u) = {}
  /\ \A m, n \in Full : m # n => m \cap n = {}
  /\ shared \cap reclaiming = {}
  /\ \A t \in Thread : \A m \in Full : Cached(t) \cap m = {}
  /\ \A t \in Thread : Cached(t) \cap (held \cup backend) = {}
  /\ \A m \in Full : m \cap (held \cup backend) = {}
  /\ held \cap backend = {}

\* What the assertions of the slow paths and of tcache_free_mag rely on: the
\* rounds of a handle count its loaded magazine, unless that is still to be
\* reloaded, and a new, previous, shared or reclaimed magazine is a full one.
MagazinesFull ==
  /\ \A t \in Thread : /\ rounds[t] = IF t \in counting THEN 0 ELSE Cardinality(loaded[t])
                       /\ t \in counting => Cardinality(loaded[t]) = MagSize
                       /\ rounds[t] <= MagSize
                       /\ previous[t] = {} \/ Cardinality(previous[t]) = MagSize
  /\ \A m \in Full : Cardinality(m) = MagSize

\* mags_allocated counts the magazines' worth of items the backend is short of,
\* but for the magazines that were just handed out or taken back.
CountExact ==
  (mags + Cardinality(counting) - (IF uncounting THEN 1 ELSE 0)) * MagSize
    = Cardinality(Item \ backend)

\* No item is lost, and mags_allocated is exact.
MagsExact == Item = held \cup FreeItems /\ CountExact

\* The cache implements the abstract pool: an item that tcache_alloc returns
\* was free, in one of the magazines or in the backend, and nobody has it.
P == INSTANCE Pool WITH used <- held, free <- FreeItems
ImplementsPool == P!Spec
=============================================================================
