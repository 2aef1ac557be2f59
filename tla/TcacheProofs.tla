---------------------------- MODULE TcacheProofs ----------------------------
(***************************************************************************)
(* The thread-local cache (base/tcache.c) for any number of threads, any   *)
(* finite set of items and any magazine size: every item is in one place,  *)
(* magazines are as full as the code assumes, and the cache implements the *)
(* abstract pool.                                                          *)
(*                                                                         *)
(* The two invariants are inductive together: that a magazine moved to the *)
(* shared pool or out of it is not there twice needs that it is not empty, *)
(* and that the rounds count the loaded magazine needs that an item freed  *)
(* into it was not there.  CountExact joins them, as what the backend is   *)
(* short of changes by whole magazines only because they are full.         *)
(***************************************************************************)
EXTENDS Tcache, TLAPS, FiniteSetTheorems

Inv == TypeOK /\ OnePlaceEach /\ MagazinesFull

\* A thread on its way to the backend still has nothing loaded.
MissingEmpty == \A t \in missing : rounds[t] = 0 /\ t \notin counting

IInv == Inv /\ MissingEmpty /\ CountExact /\ IsFiniteSet(counting)

-----------------------------------------------------------------------------
(***************************************************************************)
(* Facts about magazines.                                                  *)
(***************************************************************************)

\* A magazine is a finite set.
LEMMA MagazineFinite ==
  ASSUME NEW m \in SUBSET Item
  PROVE  IsFiniteSet(m) /\ Cardinality(m) \in Nat
  BY TcacheAssumption, FS_Subset, FS_CardinalityType

\* A full magazine has an item, so that two disjoint ones differ.
LEMMA FullNotEmpty ==
  ASSUME NEW m \in SUBSET Item, Cardinality(m) = MagSize
  PROVE  m # {}
  BY TcacheAssumption, FS_EmptySet

\* Taking an item from a magazine, and putting one there.
LEMMA TakeOne ==
  ASSUME NEW m \in SUBSET Item, NEW i \in m
  PROVE  Cardinality(m \ {i}) = Cardinality(m) - 1
  BY MagazineFinite, FS_RemoveElement

LEMMA PutOne ==
  ASSUME NEW m \in SUBSET Item, NEW i \in Item, i \notin m
  PROVE  Cardinality(m \cup {i}) = Cardinality(m) + 1
  BY MagazineFinite, FS_AddElement

-----------------------------------------------------------------------------
(***************************************************************************)
(* Allocation keeps the invariant.                                         *)
(***************************************************************************)

\* tcache_alloc: an item goes from the loaded magazine to the caller.
LEMMA AllocKeeps ==
  ASSUME Inv, NEW t \in Thread, tcache_alloc(t)
  PROVE  Inv'
  <1>1. PICK i \in loaded[t] : /\ loaded' = [loaded EXCEPT ![t] = @ \ {i}]
                               /\ held' = held \cup {i}
    BY DEF tcache_alloc
  <1> /\ rounds' = [rounds EXCEPT ![t] = @ - 1] /\ rounds[t] > 0
      /\ t \notin counting
      /\ UNCHANGED <<previous, shared, reclaiming, backend, mags, missing, counting, uncounting>>
    BY DEF tcache_alloc, Ready
  <1> TypeOK /\ OnePlaceEach /\ MagazinesFull
    BY DEF Inv
  <1>2. TypeOK'
    BY <1>1 DEF TypeOK
  <1>3. OnePlaceEach'
    BY <1>1 DEF TypeOK, OnePlaceEach, Full, Cached
  <1>4. MagazinesFull'
    <2>1. Cardinality(loaded[t] \ {i}) = Cardinality(loaded[t]) - 1
      BY <1>1, TakeOne DEF TypeOK
    <2> QED
      BY <1>1, <2>1, TcacheAssumption DEF TypeOK, MagazinesFull, Full
  <1> QED
    BY <1>2, <1>3, <1>4 DEF Inv

\* The end of the slow path: a full magazine that no other place has is loaded
\* and its first item given to the caller.
LEMMA ReloadKeeps ==
  ASSUME Inv, NEW t \in Thread, NEW mag \in SUBSET Item, Reload(t, mag),
         Cardinality(mag) = MagSize, rounds[t] = 0,
         previous' \in [Thread -> SUBSET Item],
         shared' \subseteq shared, reclaiming' = reclaiming,
         backend' \subseteq backend, mags' \in Int, missing' \subseteq Thread,
         counting' = counting \ {t}, uncounting' = uncounting,
         \A u \in Thread : previous'[u] \in {{}, previous[u]} /\ previous'[u] \cap mag = {},
         \A u \in Thread : u # t => loaded[u] \cap mag = {},
         \A m \in shared' \cup reclaiming' : m \cap mag = {},
         mag \cap (backend' \cup held) = {}
  PROVE  Inv'
  <1>1. PICK i \in mag : /\ loaded' = [loaded EXCEPT ![t] = mag \ {i}]
                         /\ held' = held \cup {i}
    BY DEF Reload
  <1> rounds' = [rounds EXCEPT ![t] = MagSize - 1]
    BY DEF Reload
  <1> TypeOK /\ OnePlaceEach /\ MagazinesFull
    BY DEF Inv
  <1>2. TypeOK'
    BY <1>1, TcacheAssumption DEF TypeOK
  <1>3. OnePlaceEach'
    BY <1>1 DEF TypeOK, OnePlaceEach, Full, Cached
  <1>4. MagazinesFull'
    <2>1. Cardinality(mag \ {i}) = MagSize - 1
      BY <1>1, TakeOne
    <2> QED
      BY <1>1, <2>1, TcacheAssumption DEF TypeOK, MagazinesFull, Full
  <1> QED
    BY <1>2, <1>3, <1>4 DEF Inv

\* CASE 1 of __tcache_alloc.
LEMMA AllocPreviousKeeps ==
  ASSUME Inv, NEW t \in Thread, AllocPrevious(t)
  PROVE  Inv'
  <1>1. /\ previous[t] \in SUBSET Item /\ previous[t] # {}
        /\ Cardinality(previous[t]) = MagSize
    BY DEF Inv, TypeOK, MagazinesFull, AllocPrevious
  <1>2. \A u \in Thread : previous'[u] \in {{}, previous[u]} /\ previous'[u] \cap previous[t] = {}
    BY DEF Inv, TypeOK, OnePlaceEach, Cached, AllocPrevious
  <1>3. \A u \in Thread : u # t => loaded[u] \cap previous[t] = {}
    BY DEF Inv, OnePlaceEach, Cached
  <1>4. /\ \A m \in shared' \cup reclaiming' : m \cap previous[t] = {}
        /\ previous[t] \cap (backend' \cup held) = {}
    BY DEF Inv, OnePlaceEach, Full, Cached, AllocPrevious
  <1> QED
    BY <1>1, <1>2, <1>3, <1>4, ReloadKeeps DEF Inv, TypeOK, AllocPrevious, Ready

\* CASE 2 of __tcache_alloc.
LEMMA AllocSharedKeeps ==
  ASSUME Inv, NEW t \in Thread, AllocShared(t)
  PROVE  Inv'
  <1>1. CASE shared = {}
    BY <1>1 DEF Inv, TypeOK, OnePlaceEach, MagazinesFull, Full, Cached, AllocShared
  <1>2. CASE shared # {}
    <2>1. PICK mag \in shared : shared' = shared \ {mag} /\ Reload(t, mag) /\ UNCHANGED missing
      BY <1>2 DEF AllocShared
    <2>2. mag \in SUBSET Item /\ Cardinality(mag) = MagSize
      BY <2>1 DEF Inv, TypeOK, MagazinesFull, Full
    <2>3. \A u \in Thread : loaded[u] \cap mag = {} /\ previous[u] \cap mag = {}
      BY <2>1 DEF Inv, OnePlaceEach, Full, Cached
    <2>4. /\ \A m \in shared' \cup reclaiming : m \cap mag = {}
          /\ mag \cap (backend \cup held) = {}
      BY <2>1 DEF Inv, OnePlaceEach, Full
    <2> QED
      BY <1>2, <2>1, <2>2, <2>3, <2>4, ReloadKeeps DEF Inv, TypeOK, AllocShared, Ready
  <1> QED
    BY <1>1, <1>2

\* CASE 3 of __tcache_alloc: between the look at the shared pool and the call
\* of the backend other threads have moved on, this thread's handle has not.
LEMMA AllocMagKeeps ==
  ASSUME Inv, NEW t \in Thread, tcache_alloc_mag(t), rounds[t] = 0, loaded[t] = {}
  PROVE  Inv'
  <1>1. PICK mag \in SUBSET backend : /\ Cardinality(mag) = MagSize
                                      /\ backend' = backend \ mag
                                      /\ loaded' = [loaded EXCEPT ![t] = mag]
    BY DEF tcache_alloc_mag
  <1> /\ counting' = counting \cup {t} /\ missing' = missing \ {t}
      /\ UNCHANGED <<previous, rounds, shared, reclaiming, mags, uncounting, held>>
    BY DEF tcache_alloc_mag
  <1> TypeOK /\ OnePlaceEach /\ MagazinesFull
    BY DEF Inv
  <1>2. TypeOK'
    BY <1>1 DEF TypeOK
  <1>3. OnePlaceEach'
    BY <1>1 DEF TypeOK, OnePlaceEach, Full, Cached
  <1>4. MagazinesFull'
    BY <1>1 DEF TypeOK, MagazinesFull, Full
  <1> QED
    BY <1>2, <1>3, <1>4 DEF Inv

\* ... and the new magazine is loaded like any other.
LEMMA CountAllocKeeps ==
  ASSUME Inv, NEW t \in Thread, CountAlloc(t)
  PROVE  Inv'
  <1>1. loaded[t] \in SUBSET Item /\ Cardinality(loaded[t]) = MagSize /\ rounds[t] = 0
    BY DEF Inv, TypeOK, MagazinesFull, CountAlloc
  <1>2. \A u \in Thread : previous[u] \cap loaded[t] = {} /\ (u # t => loaded[u] \cap loaded[t] = {})
    BY DEF Inv, OnePlaceEach, Cached
  <1>3. /\ \A m \in shared \cup reclaiming : m \cap loaded[t] = {}
        /\ loaded[t] \cap (backend \cup held) = {}
    BY DEF Inv, OnePlaceEach, Full, Cached
  <1> QED
    BY <1>1, <1>2, <1>3, ReloadKeeps DEF Inv, TypeOK, CountAlloc

-----------------------------------------------------------------------------
(***************************************************************************)
(* Freeing and reclaiming keep the invariant.                              *)
(***************************************************************************)

\* tcache_free: the item is not in the magazine yet, so the rounds stay exact.
LEMMA FreeKeeps ==
  ASSUME Inv, NEW t \in Thread, tcache_free(t)
  PROVE  Inv'
  <1>1. PICK i \in held : /\ held' = held \ {i}
                          /\ loaded' = [loaded EXCEPT ![t] = @ \cup {i}]
    BY DEF tcache_free, FastFree
  <1> /\ rounds' = [rounds EXCEPT ![t] = @ + 1] /\ rounds[t] < MagSize
      /\ t \notin counting
      /\ UNCHANGED <<previous, shared, reclaiming, backend, mags, missing, counting, uncounting>>
    BY DEF tcache_free, FastFree, Ready
  <1> TypeOK /\ OnePlaceEach /\ MagazinesFull
    BY DEF Inv
  <1>2. TypeOK'
    BY <1>1 DEF TypeOK
  <1>3. OnePlaceEach'
    BY <1>1 DEF TypeOK, OnePlaceEach, Full, Cached
  <1>4. MagazinesFull'
    <2>1. Cardinality(loaded[t] \cup {i}) = Cardinality(loaded[t]) + 1
      BY <1>1, PutOne DEF TypeOK, OnePlaceEach, Cached
    <2> QED
      BY <1>1, <2>1, TcacheAssumption DEF TypeOK, MagazinesFull, Full
  <1> QED
    BY <1>2, <1>3, <1>4 DEF Inv

\* __tcache_free: the full magazine becomes the previous one, and the one that
\* was there, which is full and therefore nowhere else, a shared one.
LEMMA FreeSlowKeeps ==
  ASSUME Inv, NEW t \in Thread, FreeSlow(t)
  PROVE  Inv'
  <1>1. PICK i \in held : /\ held' = held \ {i}
                          /\ loaded' = [loaded EXCEPT ![t] = {i}]
    BY DEF FreeSlow, Restart
  <1> /\ rounds' = [rounds EXCEPT ![t] = 1] /\ rounds[t] >= MagSize
      /\ previous' = [previous EXCEPT ![t] = loaded[t]]
      /\ shared' = IF previous[t] = {} THEN shared ELSE shared \cup {previous[t]}
      /\ t \notin counting
      /\ UNCHANGED <<reclaiming, backend, mags, missing, counting, uncounting>>
    BY DEF FreeSlow, Restart, Ready
  <1> TypeOK /\ OnePlaceEach /\ MagazinesFull
    BY DEF Inv
  <1>2. TypeOK'
    BY <1>1 DEF TypeOK
  <1>3. OnePlaceEach'
    <2>1. previous[t] # {} => previous[t] \notin Full
      BY DEF OnePlaceEach, Cached
    <2> QED
      BY <1>1, <2>1 DEF TypeOK, OnePlaceEach, Full, Cached
  <1>4. MagazinesFull'
    <2>1. Cardinality({i}) = 1
      BY FS_Singleton
    <2>2. Cardinality(loaded[t]) = MagSize
      BY TcacheAssumption DEF TypeOK, MagazinesFull
    <2> QED
      BY <1>1, <2>1, <2>2, TcacheAssumption DEF TypeOK, MagazinesFull, Full
  <1> QED
    BY <1>2, <1>3, <1>4 DEF Inv

\* tcache_reclaim and tcache_free_mag.
LEMMA ReclaimKeeps ==
  ASSUME Inv, tcache_reclaim
  PROVE  Inv'
  BY DEF Inv, TypeOK, OnePlaceEach, MagazinesFull, Full, Cached, tcache_reclaim

LEMMA FreeMagKeeps ==
  ASSUME Inv, tcache_free_mag
  PROVE  Inv'
  <1>1. PICK mag \in reclaiming : /\ reclaiming' = reclaiming \ {mag}
                                  /\ backend' = backend \cup mag
    BY DEF tcache_free_mag
  <1> /\ uncounting' = TRUE
      /\ UNCHANGED <<loaded, previous, rounds, shared, mags, missing, counting, held>>
    BY DEF tcache_free_mag
  <1> TypeOK /\ OnePlaceEach /\ MagazinesFull
    BY DEF Inv
  <1>2. TypeOK'
    BY <1>1 DEF TypeOK
  <1>3. OnePlaceEach'
    BY <1>1 DEF TypeOK, OnePlaceEach, Full, Cached
  <1>4. MagazinesFull'
    BY <1>1 DEF MagazinesFull, Full
  <1> QED
    BY <1>2, <1>3, <1>4 DEF Inv

-----------------------------------------------------------------------------
(***************************************************************************)
(* mags_allocated.                                                         *)
(***************************************************************************)

\* What the backend is short of grows by one magazine when it gives one.
LEMMA BackendGives ==
  ASSUME NEW S \in SUBSET Item, NEW mag \in SUBSET S
  PROVE  Cardinality(Item \ (S \ mag)) = Cardinality(Item \ S) + Cardinality(mag)
  <1>1. IsFiniteSet(Item \ S) /\ IsFiniteSet(mag)
    BY MagazineFinite
  <1>2. Item \ (S \ mag) = (Item \ S) \cup mag
    OBVIOUS
  <1>3. (Item \ S) \cap mag = {}
    OBVIOUS
  <1>4. Cardinality((Item \ S) \cup mag)
          = Cardinality(Item \ S) + Cardinality(mag) - Cardinality((Item \ S) \cap mag)
    BY <1>1, FS_Union
  <1>5. Cardinality((Item \ S) \cap mag) = 0
    BY <1>3, FS_EmptySet
  <1>6. Cardinality(Item \ S) \in Nat /\ Cardinality(mag) \in Nat
    BY <1>1, FS_CardinalityType
  <1>7. Cardinality(Item \ (S \ mag)) = Cardinality((Item \ S) \cup mag)
    BY <1>2, Zenon
  <1>8. Cardinality((Item \ S) \cup mag) = Cardinality(Item \ S) + Cardinality(mag)
    BY <1>4, <1>5, <1>6
  <1> QED
    BY <1>7, <1>8, Zenon

\* A step that changes neither the backend nor the magazines not counted yet.
LEMMA CountKeeps ==
  ASSUME CountExact, IsFiniteSet(counting), UNCHANGED <<backend, mags, counting, uncounting>>
  PROVE  CountExact' /\ IsFiniteSet(counting')
  BY DEF CountExact

\* Every step keeps the whole invariant.
LEMMA NextKeeps ==
  ASSUME IInv, Next
  PROVE  IInv'
  <1> Inv /\ TypeOK /\ MissingEmpty /\ CountExact /\ IsFiniteSet(counting)
    BY DEF IInv, Inv
  <1> DEFINE n == Cardinality(counting)
             owed == IF uncounting THEN 1 ELSE 0
             short == Cardinality(Item \ backend)
  <1>0. n \in Nat /\ mags \in Int /\ MagSize \in Nat /\ short \in Nat /\ short' \in Nat
    BY FS_CardinalityType, MagazineFinite, TcacheAssumption DEF TypeOK
  <1>1. ASSUME NEW t \in Thread, tcache_alloc(t) PROVE IInv'
    <2>1. MissingEmpty'
      BY <1>1 DEF tcache_alloc, Ready, MissingEmpty, TypeOK
    <2> QED
      BY <1>1, <2>1, AllocKeeps, CountKeeps DEF tcache_alloc, IInv
  <1>2. ASSUME NEW t \in Thread, AllocPrevious(t) PROVE IInv'
    <2>1. MissingEmpty'
      BY <1>2 DEF AllocPrevious, Reload, Ready, MissingEmpty, TypeOK
    <2> QED
      BY <1>2, <2>1, AllocPreviousKeeps, CountKeeps DEF AllocPrevious, IInv
  <1>3. ASSUME NEW t \in Thread, AllocShared(t) PROVE IInv'
    <2>1. MissingEmpty'
      BY <1>3 DEF AllocShared, Reload, Ready, MissingEmpty, TypeOK
    <2> QED
      BY <1>3, <2>1, AllocSharedKeeps, CountKeeps DEF AllocShared, IInv
  <1>4. ASSUME NEW t \in Thread, tcache_alloc_mag(t) PROVE IInv'
    <2>1. PICK mag \in SUBSET backend : /\ Cardinality(mag) = MagSize
                                        /\ backend' = backend \ mag
      BY <1>4 DEF tcache_alloc_mag
    <2>2. short' = short + MagSize
      BY <2>1, BackendGives DEF TypeOK
    <2>3. t \notin counting /\ rounds[t] = 0
      BY <1>4 DEF tcache_alloc_mag, MissingEmpty
    <2>4. n' = n + 1 /\ IsFiniteSet(counting') /\ UNCHANGED <<mags, uncounting>>
      BY <1>4, <2>3, FS_AddElement DEF tcache_alloc_mag
    <2>5. (mags + (n + 1) - owed) * MagSize = (mags + n - owed) * MagSize + MagSize
      BY <1>0
    <2>6. CountExact'
      BY <2>2, <2>4, <2>5 DEF CountExact
    <2>7. MissingEmpty'
      BY <1>4 DEF tcache_alloc_mag, MissingEmpty
    <2>8. loaded[t] = {}
      BY <2>3, MagazineFinite, FS_EmptySet DEF Inv, TypeOK, MagazinesFull
    <2> QED
      BY <1>4, <2>3, <2>4, <2>6, <2>7, <2>8, AllocMagKeeps DEF IInv
  <1>5. ASSUME NEW t \in Thread, CountAlloc(t) PROVE IInv'
    <2>1. n' = n - 1 /\ IsFiniteSet(counting') /\ mags' = mags + 1 /\ UNCHANGED <<backend, uncounting>>
      BY <1>5, FS_RemoveElement DEF CountAlloc
    <2>2. mags + 1 + (n - 1) - owed = mags + n - owed
      BY <1>0
    <2>3. CountExact'
      BY <2>1, <2>2 DEF CountExact
    <2>4. MissingEmpty'
      BY <1>5 DEF CountAlloc, Reload, MissingEmpty, TypeOK
    <2> QED
      BY <1>5, <2>1, <2>3, <2>4, CountAllocKeeps DEF IInv
  <1>6. ASSUME NEW t \in Thread, AllocFails(t) PROVE IInv'
    BY <1>6, CountKeeps
    DEF AllocFails, IInv, Inv, MissingEmpty, TypeOK, OnePlaceEach, MagazinesFull, Full, Cached
  <1>7. ASSUME NEW t \in Thread, tcache_free(t) PROVE IInv'
    <2>1. MissingEmpty'
      BY <1>7 DEF tcache_free, FastFree, Ready, MissingEmpty, TypeOK
    <2> QED
      BY <1>7, <2>1, FreeKeeps, CountKeeps DEF tcache_free, FastFree, IInv
  <1>8. ASSUME NEW t \in Thread, FreeSlow(t) PROVE IInv'
    <2>1. MissingEmpty'
      BY <1>8 DEF FreeSlow, Restart, Ready, MissingEmpty, TypeOK
    <2> QED
      BY <1>8, <2>1, FreeSlowKeeps, CountKeeps DEF FreeSlow, IInv
  <1>9. ASSUME tcache_reclaim PROVE IInv'
    <2>1. MissingEmpty'
      BY <1>9 DEF tcache_reclaim, MissingEmpty
    <2> QED
      BY <1>9, <2>1, ReclaimKeeps, CountKeeps DEF tcache_reclaim, IInv
  <1>10. ASSUME tcache_free_mag PROVE IInv'
    <2>1. PICK mag \in reclaiming : /\ reclaiming' = reclaiming \ {mag}
                                    /\ backend' = backend \cup mag
      BY <1>10 DEF tcache_free_mag
    <2>2. /\ mag \in SUBSET Item /\ backend \in SUBSET Item
          /\ Cardinality(mag) = MagSize /\ mag \cap backend = {}
      BY <2>1 DEF Inv, TypeOK, OnePlaceEach, MagazinesFull, Full
    <2>3. short = short' + MagSize
      <3>1. (backend \cup mag) \ mag = backend
        BY <2>2
      <3> QED
        BY <2>1, <2>2, <3>1, BackendGives
    <2>4. owed = 0 /\ owed' = 1 /\ UNCHANGED <<mags, counting>>
      BY <1>10 DEF tcache_free_mag
    <2>5. (mags + n - 1) * MagSize = (mags + n - 0) * MagSize - MagSize
      BY <1>0
    <2>6. CountExact'
      <3>1. (mags + n - 0) * MagSize = short
        BY <2>4 DEF CountExact
      <3>2. (mags + n - 1) * MagSize = short'
        BY <1>0, <2>3, <2>5, <3>1
      <3> QED
        BY <2>4, <3>2 DEF CountExact
    <2>7. MissingEmpty'
      BY <1>10 DEF tcache_free_mag, MissingEmpty
    <2> QED
      BY <1>10, <2>4, <2>6, <2>7, FreeMagKeeps DEF IInv
  <1>11. ASSUME CountFree PROVE IInv'
    <2>1. owed = 1 /\ owed' = 0 /\ mags' = mags - 1 /\ UNCHANGED <<backend, counting>>
      BY <1>11 DEF CountFree
    <2>2. (mags - 1) + n - 0 = mags + n - 1
      BY <1>0
    <2>3. CountExact'
      BY <2>1, <2>2 DEF CountExact
    <2>4. Inv' /\ MissingEmpty'
      <3>0. mags' \in Int
        BY <1>0, <2>1
      <3>1. TypeOK'
        BY <1>11, <3>0, Zenon DEF CountFree, TypeOK
      <3>2. OnePlaceEach' /\ MagazinesFull' /\ MissingEmpty'
        BY <1>11 DEF CountFree, Inv, MissingEmpty, OnePlaceEach, MagazinesFull, Full, Cached
      <3> QED
        BY <3>1, <3>2 DEF Inv
    <2> QED
      BY <2>1, <2>3, <2>4 DEF IInv
  <1> QED
    BY <1>1, <1>2, <1>3, <1>4, <1>5, <1>6, <1>7, <1>8, <1>9, <1>10, <1>11 DEF Next, ThreadStep

\* The invariant of every behaviour.
THEOREM TcacheInvariant == Spec => []IInv
  <1>1. Init => IInv
    <2>1. Cardinality({}) = 0 /\ IsFiniteSet({}) /\ Item \ Item = {}
      BY FS_EmptySet
    <2>2. ASSUME Init PROVE CountExact
      <3>1. Cardinality(Item \ backend) = 0 /\ Cardinality(counting) = 0
        BY <2>1, <2>2 DEF Init
      <3>2. mags = 0 /\ uncounting = FALSE /\ (0 + 0 - 0) * MagSize = 0
        BY <2>2, TcacheAssumption DEF Init
      <3> QED
        BY <3>1, <3>2 DEF CountExact
    <2>3. ASSUME Init PROVE TypeOK
      <3>1. mags \in Int /\ rounds \in [Thread -> Nat]
        BY <2>3 DEF Init
      <3>2. uncounting \in BOOLEAN
        BY <2>3, Zenon DEF Init
      <3> QED
        BY <2>3, <3>1, <3>2 DEF Init, TypeOK
    <2>4. ASSUME Init PROVE MagazinesFull /\ MissingEmpty /\ OnePlaceEach
      BY <2>1, <2>4, TcacheAssumption DEF Init, MagazinesFull, MissingEmpty, OnePlaceEach, Full, Cached
    <2> QED
      BY <2>1, <2>2, <2>3, <2>4 DEF Init, IInv, Inv
  <1>2. IInv /\ [Next]_vars => IInv'
    <2>1. ASSUME IInv, UNCHANGED vars PROVE IInv'
      BY <2>1
      DEF vars, IInv, Inv, TypeOK, OnePlaceEach, MagazinesFull, MissingEmpty, CountExact, Full,
          Cached
    <2> QED
      BY <2>1, NextKeeps
  <1> QED
    BY <1>1, <1>2, PTL DEF Spec

\* No item is ever in two places, for any number of threads, items and rounds.
THEOREM NoItemTwice == Spec => []OnePlaceEach
  BY TcacheInvariant, PTL DEF IInv, Inv

\* The assertions on full magazines and on rounds hold on every path.
THEOREM MagazinesAreFull == Spec => []MagazinesFull
  BY TcacheInvariant, PTL DEF IInv, Inv

-----------------------------------------------------------------------------
(***************************************************************************)
(* The cache implements the abstract pool.  The items that are free are    *)
(* those in the backend and in the magazines; an allocation moves one of   *)
(* them to the caller, a free one back, everything else only shuffles      *)
(* magazines.                                                              *)
(***************************************************************************)

\* One item leaves: it was in one place, and is in none of them now.
LEMMA GivesOne ==
  ASSUME NEW i \in FreeItems, held' = held \cup {i}, FreeItems' = FreeItems \ {i}
  PROVE  P!Alloc
  BY DEF P!Alloc

\* One item comes back.
LEMMA TakesOne ==
  ASSUME NEW i \in held, held' = held \ {i}, FreeItems' = FreeItems \cup {i}
  PROVE  P!Free
  BY DEF P!Free

\* A step that reloads a magazine gives out one item of it.
LEMMA ReloadGives ==
  ASSUME IInv, NEW t \in Thread, NEW mag, Reload(t, mag), mag \subseteq FreeItems,
         loaded[t] = {}, mag \cap held = {},
         \A u \in Thread : u # t => Cached(u)' = Cached(u),
         \A u \in Thread : u # t => Cached(u) \cap mag = {},
         previous'[t] \subseteq previous[t], previous[t] \subseteq previous'[t] \cup mag,
         previous'[t] \cap mag = {},
         backend' = backend \ mag, UNION Full' = (UNION Full) \ mag
  PROVE  P!Alloc
  <1>1. PICK i \in mag : /\ loaded' = [loaded EXCEPT ![t] = mag \ {i}]
                         /\ held' = held \cup {i}
    BY DEF Reload
  <1>2. Cached(t)' = (mag \ {i}) \cup previous'[t] /\ Cached(t) = previous[t]
    BY <1>1 DEF IInv, Inv, TypeOK, Cached
  <1>3. ASSUME NEW x PROVE x \in FreeItems' <=> x \in FreeItems \ {i}
    <2>1. x \in FreeItems' <=> \/ x \in backend \ mag \/ x \in (UNION Full) \ mag
                               \/ \E u \in Thread : x \in Cached(u)'
      BY DEF FreeItems
    <2>2. x \in FreeItems <=> \/ x \in backend \/ x \in UNION Full
                              \/ \E u \in Thread : x \in Cached(u)
      BY DEF FreeItems
    <2>3. CASE x \in mag
      BY <1>1, <1>2, <2>1, <2>2, <2>3
    <2>4. CASE x \notin mag
      <3>1. (\E u \in Thread : x \in Cached(u)') <=> (\E u \in Thread : x \in Cached(u))
        BY <1>2, <2>4
      <3> QED
        BY <1>1, <2>1, <2>2, <2>4, <3>1
    <2> QED
      BY <2>3, <2>4
  <1>4. FreeItems' = FreeItems \ {i}
    BY <1>3
  <1> QED
    BY <1>1, <1>4, GivesOne

\* No rounds and no new magazine, no items.
LEMMA EmptyLoaded ==
  ASSUME IInv, NEW t \in Thread, rounds[t] = 0, t \notin counting
  PROVE  loaded[t] = {}
  BY MagazineFinite, FS_EmptySet DEF IInv, Inv, TypeOK, MagazinesFull

\* What is free, item by item.
LEMMA FreePointwise ==
  ASSUME NEW x
  PROVE  x \in FreeItems <=> \/ x \in backend
                             \/ \E m \in shared \cup reclaiming : x \in m
                             \/ \E u \in Thread : x \in loaded[u] \/ x \in previous[u]
  BY DEF FreeItems, Full, Cached

\* The same after a step.
LEMMA FreePointwiseNext ==
  ASSUME NEW x
  PROVE  x \in FreeItems' <=> \/ x \in backend'
                              \/ \E m \in shared' \cup reclaiming' : x \in m
                              \/ \E u \in Thread : x \in loaded'[u] \/ x \in previous'[u]
  BY DEF FreeItems, Full, Cached

\* Every step gives out one free item, takes one back, or changes neither.
LEMMA StepImplementsPool ==
  ASSUME IInv, Next
  PROVE  P!Next \/ UNCHANGED <<held, FreeItems>>
  <1> TypeOK /\ OnePlaceEach /\ MagazinesFull
    BY DEF IInv, Inv
  <1>1. ASSUME NEW t \in Thread, tcache_alloc(t) PROVE P!Alloc
    <2>1. PICK i \in loaded[t] : /\ loaded' = [loaded EXCEPT ![t] = @ \ {i}]
                                 /\ held' = held \cup {i}
      BY <1>1 DEF tcache_alloc
    <2>2. UNCHANGED <<previous, shared, reclaiming, backend>>
      BY <1>1 DEF tcache_alloc
    <2>3. ASSUME NEW x PROVE x \in FreeItems' <=> x \in FreeItems \ {i}
      BY <2>1, <2>2, FreePointwise, FreePointwiseNext DEF TypeOK, OnePlaceEach, Full, Cached
    <2>4. i \in FreeItems
      BY <2>1, FreePointwise
    <2> QED
      BY <2>1, <2>3, <2>4, GivesOne
  <1>2. ASSUME NEW t \in Thread, AllocPrevious(t) PROVE P!Alloc
    <2>1. Reload(t, previous[t]) /\ loaded[t] = {}
      BY <1>2, EmptyLoaded DEF AllocPrevious, Ready
    <2>2. /\ previous[t] \subseteq FreeItems /\ previous[t] \cap held = {}
          /\ backend' = backend \ previous[t] /\ UNION Full' = (UNION Full) \ previous[t]
      BY <1>2, FreePointwise DEF AllocPrevious, OnePlaceEach, Full, Cached
    <2>3. /\ \A u \in Thread : u # t => Cached(u)' = Cached(u)
          /\ \A u \in Thread : u # t => Cached(u) \cap previous[t] = {}
          /\ previous'[t] = {}
      BY <1>2, <2>1 DEF AllocPrevious, Reload, TypeOK, OnePlaceEach, Cached
    <2> QED
      BY <2>1, <2>2, <2>3, ReloadGives
  <1>3. ASSUME NEW t \in Thread, AllocShared(t), shared # {} PROVE P!Alloc
    <2>1. PICK mag \in shared : shared' = shared \ {mag} /\ Reload(t, mag)
      BY <1>3 DEF AllocShared
    <2>2. loaded[t] = {} /\ previous[t] = {} /\ previous' = previous
      BY <1>3, EmptyLoaded DEF AllocShared, Ready
    <2>3. mag \subseteq FreeItems /\ mag \cap held = {} /\ backend' = backend \ mag
      BY <1>3, <2>1, FreePointwise DEF AllocShared, OnePlaceEach, Full
    <2>4. UNION Full' = (UNION Full) \ mag
      BY <1>3, <2>1 DEF AllocShared, OnePlaceEach, Full
    <2>5. /\ \A u \in Thread : u # t => Cached(u)' = Cached(u)
          /\ \A u \in Thread : u # t => Cached(u) \cap mag = {}
      BY <2>1, <2>2 DEF Reload, TypeOK, OnePlaceEach, Full, Cached
    <2> QED
      BY <2>1, <2>2, <2>3, <2>4, <2>5, ReloadGives
  <1>4. ASSUME NEW t \in Thread, AllocShared(t), shared = {} PROVE UNCHANGED <<held, FreeItems>>
    BY <1>4 DEF AllocShared, FreeItems, Full, Cached
  <1>5. ASSUME NEW t \in Thread, tcache_alloc_mag(t) PROVE UNCHANGED <<held, FreeItems>>
    <2>1. PICK mag \in SUBSET backend : /\ backend' = backend \ mag
                                        /\ loaded' = [loaded EXCEPT ![t] = mag]
      BY <1>5 DEF tcache_alloc_mag
    <2>2. loaded[t] = {}
      BY <1>5, EmptyLoaded DEF tcache_alloc_mag, IInv, MissingEmpty
    <2>3. UNCHANGED <<previous, shared, reclaiming, held>>
      BY <1>5 DEF tcache_alloc_mag
    <2>4. ASSUME NEW x PROVE x \in FreeItems' <=> x \in FreeItems
      BY <2>1, <2>2, <2>3, FreePointwise, FreePointwiseNext DEF TypeOK
    <2> QED
      BY <2>3, <2>4
  <1>6. ASSUME NEW t \in Thread, AllocFails(t) PROVE UNCHANGED <<held, FreeItems>>
    BY <1>6 DEF AllocFails, FreeItems, Full, Cached
  <1>7. ASSUME NEW t \in Thread, tcache_free(t) PROVE P!Free
    <2>1. PICK i \in held : /\ held' = held \ {i}
                            /\ loaded' = [loaded EXCEPT ![t] = @ \cup {i}]
      BY <1>7 DEF tcache_free, FastFree
    <2>2. UNCHANGED <<previous, shared, reclaiming, backend>>
      BY <1>7 DEF tcache_free, FastFree
    <2>3. ASSUME NEW x PROVE x \in FreeItems' <=> x \in FreeItems \cup {i}
      BY <2>1, <2>2, FreePointwise, FreePointwiseNext DEF TypeOK
    <2> QED
      BY <2>1, <2>3, TakesOne
  <1>8. ASSUME NEW t \in Thread, FreeSlow(t) PROVE P!Free
    <2>1. PICK i \in held : /\ held' = held \ {i}
                            /\ loaded' = [loaded EXCEPT ![t] = {i}]
      BY <1>8 DEF FreeSlow, Restart
    <2>2. /\ previous' = [previous EXCEPT ![t] = loaded[t]]
          /\ shared' = IF previous[t] = {} THEN shared ELSE shared \cup {previous[t]}
          /\ UNCHANGED <<reclaiming, backend>>
      BY <1>8 DEF FreeSlow, Restart
    <2>3. ASSUME NEW x PROVE x \in FreeItems' <=> x \in FreeItems \cup {i}
      BY <2>1, <2>2, FreePointwise, FreePointwiseNext DEF TypeOK
    <2> QED
      BY <2>1, <2>3, TakesOne
  <1>9. ASSUME tcache_reclaim PROVE UNCHANGED <<held, FreeItems>>
    <2>1. Full' = Full
      BY <1>9 DEF tcache_reclaim, Full
    <2> QED
      BY <1>9, <2>1 DEF tcache_reclaim, FreeItems, Cached
  <1>10. ASSUME tcache_free_mag PROVE UNCHANGED <<held, FreeItems>>
    <2>1. PICK mag \in reclaiming : /\ reclaiming' = reclaiming \ {mag}
                                    /\ backend' = backend \cup mag
      BY <1>10 DEF tcache_free_mag
    <2>2. UNCHANGED <<loaded, previous, shared, held>>
      BY <1>10 DEF tcache_free_mag
    <2>3. ASSUME NEW x PROVE x \in FreeItems' <=> x \in FreeItems
      BY <2>1, <2>2, FreePointwise, FreePointwiseNext
    <2> QED
      BY <2>2, <2>3
  <1>11. ASSUME NEW t \in Thread, CountAlloc(t) PROVE P!Alloc
    <2>1. PICK i \in loaded[t] : /\ loaded' = [loaded EXCEPT ![t] = @ \ {i}]
                                 /\ held' = held \cup {i}
      BY <1>11 DEF CountAlloc, Reload
    <2>2. UNCHANGED <<previous, shared, reclaiming, backend>>
      BY <1>11 DEF CountAlloc
    <2>3. ASSUME NEW x PROVE x \in FreeItems' <=> x \in FreeItems \ {i}
      BY <2>1, <2>2, FreePointwise, FreePointwiseNext DEF TypeOK, OnePlaceEach, Full, Cached
    <2>4. i \in FreeItems
      BY <2>1, FreePointwise
    <2> QED
      BY <2>1, <2>3, <2>4, GivesOne
  <1>12. ASSUME CountFree PROVE UNCHANGED <<held, FreeItems>>
    BY <1>12 DEF CountFree, FreeItems, Full, Cached
  <1> QED
    BY <1>1, <1>2, <1>3, <1>4, <1>5, <1>6, <1>7, <1>8, <1>9, <1>10, <1>11, <1>12
    DEF Next, ThreadStep, P!Next

\* Whatever the threads do, callers see a pool: what they get was free, what
\* they give back was theirs, and between the magazines nothing is lost.
THEOREM CacheImplementsPool == Spec => ImplementsPool
  <1>1. Init => P!Init
    <2>1. Init => FreeItems = Item
      BY DEF Init, FreeItems, Full, Cached
    <2> QED
      BY <2>1 DEF Init, P!Init
  <1>2. IInv /\ [Next]_vars => [P!Next]_<<held, FreeItems>>
    <2>1. ASSUME UNCHANGED vars PROVE UNCHANGED <<held, FreeItems>>
      BY <2>1 DEF vars, FreeItems, Full, Cached
    <2> QED
      BY <2>1, StepImplementsPool
  <1> QED
    BY <1>1, <1>2, TcacheInvariant, PTL DEF Spec, P!Spec, ImplementsPool
=============================================================================
