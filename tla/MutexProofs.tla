---------------------------- MODULE MutexProofs ----------------------------
(***************************************************************************)
(* Proofs about Mutex, for any set of threads.                             *)
(***************************************************************************)
EXTENDS Mutex, TLAPS

\* The waiter list: every thread on it is parked, and it holds each thread
\* once; a thread that mutex_unlock popped is still parked, no longer on the
\* list, and popped by one thread only.
WaitersParked ==
  /\ IsInjective(waiters)
  /\ \A i \in 1 .. Len(waiters) : pc[waiters[i]] = "parked"
  /\ \A u \in Thread : waketh[u] # NULL =>
       /\ pc[waketh[u]] = "parked"
       /\ \A i \in 1 .. Len(waiters) : waiters[i] # waketh[u]
       /\ \A v \in Thread : waketh[v] = waketh[u] => u = v

\* At most one thread owns the mutex.
OneOwner == \A t, u \in Thread : Owns(t) /\ Owns(u) => t = u

\* The inductive invariant.
IInv == TypeOK /\ WaitersParked /\ OneOwner /\ HeldMeansOwned

-----------------------------------------------------------------------------
\* The initial state of mutex_init satisfies the invariant.
LEMMA InitIInv == Init => IInv
<1> SUFFICES ASSUME Init PROVE IInv
  OBVIOUS
<1> USE MutexAssumption DEF Init
<1>1. TypeOK
  <2>1. waiters \in Seq(Thread)
    OBVIOUS
  <2>2. \A t \in Thread : waketh[t] = NULL /\ pc[t] = "out"
    OBVIOUS
  <2> QED
    BY <2>1, <2>2 DEF TypeOK, PCs
<1>2. WaitersParked
  BY DEF WaitersParked, IsInjective
<1>3. \A t \in Thread : ~Owns(t)
  BY DEF Owns
<1> QED
  BY <1>1, <1>2, <1>3 DEF IInv, OneOwner, HeldMeansOwned

\* A step that takes a free mutex keeps the invariant.
LEMMA TakeFree ==
  ASSUME IInv, NEW t \in Thread, TryLock(t) \/ LockFree(t)
  PROVE  IInv'
<1> USE MutexAssumption DEF IInv
<1>0. /\ pc[t] = "out" /\ ~held
      /\ held' = TRUE
      /\ pc' = [pc EXCEPT ![t] = "cs"]
      /\ UNCHANGED <<waiters, waketh>>
  BY DEF TryLock, LockFree
<1>1. TypeOK'
  BY <1>0 DEF TypeOK, PCs
<1>2. WaitersParked'
  BY <1>0 DEF TypeOK, WaitersParked, IsInjective
<1>3. \A u \in Thread : ~Owns(u)
  BY <1>0 DEF HeldMeansOwned
<1>4. \A u \in Thread : Owns(u)' <=> u = t
  BY <1>0, <1>3 DEF Owns, TypeOK
<1>5. OneOwner' /\ HeldMeansOwned'
  BY <1>0, <1>4 DEF OneOwner, HeldMeansOwned
<1> QED
  BY <1>1, <1>2, <1>5

\* Getting on the waiter list keeps the invariant.
LEMMA LockWaitIInv ==
  ASSUME IInv, NEW t \in Thread, LockWait(t)
  PROVE  IInv'
<1> USE MutexAssumption DEF IInv, LockWait
<1>1. TypeOK'
  BY DEF TypeOK, PCs
<1>2. WaitersParked'
  <2>1. /\ Len(waiters') = Len(waiters) + 1
        /\ \A i \in 1 .. Len(waiters) : waiters'[i] = waiters[i]
        /\ waiters'[Len(waiters) + 1] = t
    BY DEF TypeOK
  <2>2. \A i \in 1 .. Len(waiters) : waiters[i] # t /\ waiters[i] \in Thread
    BY DEF TypeOK, WaitersParked
  <2>3. \A u \in Thread : waketh[u] # t
    BY DEF TypeOK, WaitersParked
  <2>4. DOMAIN waiters = 1 .. Len(waiters) /\ DOMAIN waiters' = 1 .. Len(waiters')
    BY <1>1 DEF TypeOK
  <2>5. IsInjective(waiters')
    BY <2>1, <2>2, <2>4 DEF WaitersParked, IsInjective, TypeOK
  <2>6. \A i \in 1 .. Len(waiters') : pc'[waiters'[i]] = "parked"
    BY <2>1, <2>2 DEF WaitersParked, TypeOK
  <2> QED
    BY <2>1, <2>2, <2>3, <2>5, <2>6 DEF WaitersParked, TypeOK
<1>3. \A u \in Thread : Owns(u)' <=> Owns(u)
  BY DEF Owns, TypeOK
<1>4. OneOwner' /\ HeldMeansOwned'
  BY <1>3 DEF OneOwner, HeldMeansOwned
<1> QED
  BY <1>1, <1>2, <1>4

\* Freeing the mutex keeps the invariant.
LEMMA UnlockFreeIInv ==
  ASSUME IInv, NEW t \in Thread, UnlockFree(t)
  PROVE  IInv'
<1> USE MutexAssumption DEF IInv, UnlockFree
<1>1. TypeOK'
  BY DEF TypeOK, PCs
<1>2. WaitersParked'
  BY DEF TypeOK, WaitersParked, IsInjective
<1>3. \A u \in Thread : ~Owns(u)'
  <2> SUFFICES ASSUME NEW u \in Thread PROVE ~Owns(u)'
    OBVIOUS
  <2>1. Owns(t) /\ (Owns(u) => u = t)
    BY DEF Owns, OneOwner
  <2>2. \A v \in Thread : waketh[v] # t
    BY DEF WaitersParked, TypeOK
  <2> QED
    BY <2>1, <2>2 DEF Owns, TypeOK
<1>4. OneOwner' /\ HeldMeansOwned'
  BY <1>3 DEF OneOwner, HeldMeansOwned
<1> QED
  BY <1>1, <1>2, <1>4

\* Popping a waiter keeps the invariant: the popped thread becomes the owner.
LEMMA UnlockWakeIInv ==
  ASSUME IInv, NEW t \in Thread, UnlockWake(t)
  PROVE  IInv' /\ \A u \in Thread : Owns(u)' <=> u = Head(waiters)
<1> USE MutexAssumption DEF IInv, UnlockWake
<1> DEFINE w == Head(waiters)
<1>0. /\ w \in Thread /\ w = waiters[1] /\ pc[w] = "parked" /\ w # t
      /\ Len(waiters') = Len(waiters) - 1 /\ Len(waiters) \in Nat \ {0}
      /\ waiters' \in Seq(Thread)
      /\ \A i \in 1 .. Len(waiters') : waiters'[i] = waiters[i + 1]
  BY DEF TypeOK, WaitersParked
<1>1. TypeOK'
  BY <1>0 DEF TypeOK, PCs
<1>2. WaitersParked'
  <2>1. DOMAIN waiters = 1 .. Len(waiters) /\ DOMAIN waiters' = 1 .. Len(waiters')
    BY <1>0 DEF TypeOK
  <2>2. \A i \in 1 .. Len(waiters') : i + 1 \in 1 .. Len(waiters) /\ i + 1 # 1
    BY <1>0
  <2>3. IsInjective(waiters')
    <3> SUFFICES ASSUME NEW i \in 1 .. Len(waiters'), NEW j \in 1 .. Len(waiters'),
                        waiters'[i] = waiters'[j]
                 PROVE  i = j
      BY <2>1 DEF IsInjective
    <3>1. i + 1 = j + 1
      BY <1>0, <2>1, <2>2 DEF WaitersParked, IsInjective
    <3> QED
      BY <3>1
  <2>4. \A i \in 1 .. Len(waiters') : waiters'[i] # w
    <3> SUFFICES ASSUME NEW i \in 1 .. Len(waiters'), waiters[i + 1] = waiters[1]
                 PROVE  FALSE
      BY <1>0
    <3>1. 1 \in DOMAIN waiters /\ i + 1 \in DOMAIN waiters
      BY <1>0, <2>1, <2>2
    <3>2. i + 1 = 1
      BY <3>1 DEF WaitersParked, IsInjective
    <3> QED
      BY <3>2, <2>2
  <2>5. \A i \in 1 .. Len(waiters') : waiters'[i] \in Thread /\ waiters'[i] # t
                                      /\ pc[waiters'[i]] = "parked"
    BY <1>0, <2>2 DEF WaitersParked, TypeOK
  <2>6. \A u \in Thread : waketh[u] = NULL
    BY DEF OneOwner, Owns, WaitersParked, TypeOK
  <2> QED
    BY <1>0, <2>3, <2>4, <2>5, <2>6 DEF WaitersParked, TypeOK
<1>3. \A u \in Thread : Owns(u)' <=> u = w
  <2>1. \A u \in Thread : waketh[u] = NULL
    BY DEF OneOwner, Owns, WaitersParked, TypeOK
  <2>2. \A u \in Thread : pc[u] = "cs" => u = t
    BY DEF OneOwner, Owns
  <2> QED
    BY <1>0, <2>1, <2>2 DEF Owns, TypeOK
<1>4. held
  BY DEF HeldMeansOwned, Owns
<1>5. OneOwner' /\ HeldMeansOwned'
  BY <1>0, <1>3, <1>4 DEF OneOwner, HeldMeansOwned
<1> QED
  BY <1>1, <1>2, <1>3, <1>5

\* thread_ready of the popped waiter keeps the invariant and the owner.
LEMMA ReadyIInv ==
  ASSUME IInv, NEW t \in Thread, Ready(t)
  PROVE  IInv' /\ \A u \in Thread : Owns(u)' <=> Owns(u)
<1> USE MutexAssumption DEF IInv, Ready
<1> PICK w : w = waketh[t]
  OBVIOUS
<1>0. /\ w \in Thread /\ w # NULL /\ w # t
      /\ pc[w] = "parked"
      /\ \A i \in 1 .. Len(waiters) : waiters[i] # w
      /\ \A v \in Thread : waketh[v] = w => v = t
  BY DEF TypeOK, WaitersParked
<1>1. TypeOK'
  BY <1>0 DEF TypeOK, PCs
<1>2. WaitersParked'
  <2>1. \A i \in 1 .. Len(waiters) : waiters[i] \in Thread /\ waiters[i] # t
    BY DEF WaitersParked, TypeOK
  <2> QED
    BY <1>0, <2>1 DEF WaitersParked, TypeOK
<1>3. \A u \in Thread : Owns(u)' <=> Owns(u)
  <2>1. Owns(w)
    BY <1>0 DEF Owns
  <2>2. \A u \in Thread : Owns(u) => u = w
    BY <1>0, <2>1 DEF OneOwner
  <2>3. Owns(w)'
    BY <1>0 DEF Owns, TypeOK
  <2>4. \A u \in Thread : u # w => ~Owns(u)'
    BY <1>0, <2>2 DEF Owns, TypeOK
  <2> QED
    BY <2>1, <2>2, <2>3, <2>4
<1>4. OneOwner' /\ HeldMeansOwned'
  BY <1>3 DEF OneOwner, HeldMeansOwned
<1> QED
  BY <1>1, <1>2, <1>3, <1>4

\* Every step of the mutex keeps the invariant.
LEMMA NextIInv == IInv /\ [Next]_vars => IInv'
<1> SUFFICES ASSUME IInv, [Next]_vars PROVE IInv'
  OBVIOUS
<1>1. ASSUME NEW t \in Thread, TryLock(t) \/ LockFree(t) PROVE IInv'
  BY <1>1, TakeFree
<1>2. ASSUME NEW t \in Thread, LockWait(t) PROVE IInv'
  BY <1>2, LockWaitIInv
<1>3. ASSUME NEW t \in Thread, UnlockFree(t) PROVE IInv'
  BY <1>3, UnlockFreeIInv
<1>4. ASSUME NEW t \in Thread, UnlockWake(t) PROVE IInv'
  BY <1>4, UnlockWakeIInv
<1>5. ASSUME NEW t \in Thread, Ready(t) PROVE IInv'
  BY <1>5, ReadyIInv
<1>6. CASE UNCHANGED vars
  BY <1>6 DEF vars, IInv, TypeOK, WaitersParked, OneOwner, HeldMeansOwned, Owns
<1> QED
  BY <1>1, <1>2, <1>3, <1>4, <1>5, <1>6 DEF Next, Unlock

\* The invariant holds throughout.
LEMMA SpecIInv == Spec => []IInv
  BY InitIInv, NextIInv, PTL DEF Spec

-----------------------------------------------------------------------------
\* mutex_t excludes, for any number of threads: at most one is between a
\* successful mutex_lock or mutex_try_lock and its mutex_unlock.
THEOREM Exclusion == Spec => []MutualExclusion
<1>1. IInv => MutualExclusion
  BY DEF IInv, OneOwner, Owns, MutualExclusion
<1> QED
  BY <1>1, SpecIInv, PTL

\* mutex_t.held is true exactly while some thread owns the mutex, for any
\* number of threads, also while mutex_unlock hands it over.
THEOREM HeldIsOwned == Spec => []HeldMeansOwned
<1>1. IInv => HeldMeansOwned
  BY DEF IInv
<1> QED
  BY <1>1, SpecIInv, PTL

-----------------------------------------------------------------------------
\* What LockSpec sees as the owner is the one thread that owns the mutex.
LEMMA OwnerIs ==
  ASSUME IInv, NEW t \in Thread, Owns(t)
  PROVE  owner = t
<1>1. held
  BY DEF IInv, HeldMeansOwned
<1>2. \A u \in Thread : Owns(u) <=> u = t
  BY DEF IInv, OneOwner
<1> QED
  BY <1>1, <1>2 DEF owner

\* A step that leaves held and the owning threads alone leaves the owner alone.
LEMMA SameOwner ==
  ASSUME IInv, held' = held, \A u \in Thread : Owns(u)' <=> Owns(u)
  PROVE  owner' = owner
<1>1. CASE ~held
  BY <1>1 DEF owner
<1>2. CASE held
  <2>1. PICK v \in Thread : Owns(v)
    BY <1>2 DEF IInv, HeldMeansOwned
  <2>2. owner = v
    BY <2>1, OwnerIs
  <2>3. held' /\ \A u \in Thread : Owns(u)' <=> u = v
    BY <1>2, <2>1 DEF IInv, OneOwner
  <2>4. owner' = v
    BY <2>3 DEF owner
  <2> QED
    BY <2>2, <2>4
<1> QED
  BY <1>1, <1>2 DEF IInv, TypeOK

\* mutex_t implements the fair lock of LockSpec, for any number of threads: a
\* free lock is acquired, a held one is queued for in order, and mutex_unlock
\* hands it to the first waiter, with nobody getting in between.
THEOREM MutexImplementsLock == Spec => ImplementsLock
<1>1. Init => Lock!Init
  BY DEF Init, Lock!Init, owner, inside
<1>2. ASSUME IInv, IInv', [Next]_vars PROVE [Lock!Next]_(Lock!lockvars)
  <2> USE MutexAssumption
  <2>1. ASSUME NEW t \in Thread, TryLock(t) \/ LockFree(t) PROVE Lock!Acquire(t)
    <3>1. owner = NULL /\ waiters' = waiters
      BY <2>1 DEF TryLock, LockFree, owner
    <3>2. Owns(t)'
      BY <1>2, <2>1 DEF IInv, TypeOK, TryLock, LockFree, Owns
    <3>3. owner' = t
      <4>1. held' /\ \A u \in Thread : Owns(u)' <=> u = t
        BY <1>2, <3>2 DEF IInv, OneOwner, HeldMeansOwned
      <4> QED
        BY <4>1 DEF owner
    <3>4. inside' = inside \cup {t}
      BY <1>2, <2>1 DEF IInv, TypeOK, TryLock, LockFree, inside
    <3> QED
      BY <3>1, <3>3, <3>4 DEF Lock!Acquire
  <2>2. ASSUME NEW t \in Thread, LockWait(t) PROVE Lock!Enqueue(t)
    <3>1. \A u \in Thread : Owns(u)' <=> Owns(u)
      BY <1>2, <2>2 DEF IInv, TypeOK, LockWait, Owns
    <3>2. held' = held /\ held
      BY <2>2 DEF LockWait
    <3>3. owner' = owner
      BY <1>2, <3>1, <3>2, SameOwner
    <3>4. owner # NULL
      <4>1. PICK u \in Thread : Owns(u)
        BY <1>2, <3>2 DEF IInv, HeldMeansOwned
      <4> QED
        BY <1>2, <4>1, OwnerIs
    <3>5. inside' = inside /\ t \notin inside
      BY <1>2, <2>2 DEF IInv, TypeOK, LockWait, inside
    <3> QED
      BY <2>2, <3>3, <3>4, <3>5 DEF Lock!Enqueue, LockWait
  <2>3. ASSUME NEW t \in Thread, UnlockFree(t) PROVE Lock!Release(t)
    <3>1. owner = t /\ t \in inside
      BY <1>2, <2>3, OwnerIs DEF UnlockFree, Owns, inside
    <3>2. owner' = NULL
      BY <2>3 DEF UnlockFree, owner
    <3>3. inside' = inside \ {t}
      BY <1>2, <2>3 DEF IInv, TypeOK, UnlockFree, inside
    <3> QED
      BY <2>3, <3>1, <3>2, <3>3 DEF Lock!Release, UnlockFree
  <2>4. ASSUME NEW t \in Thread, UnlockWake(t) PROVE Lock!HandOver(t)
    <3> DEFINE w == Head(waiters)
    <3>1. owner = t /\ held /\ t \in inside
      BY <1>2, <2>4, OwnerIs DEF UnlockWake, Owns, IInv, HeldMeansOwned, inside
    <3>2. w \in Thread /\ w # t
      BY <1>2, <2>4 DEF IInv, TypeOK, WaitersParked, UnlockWake
    <3>3. held' /\ \A u \in Thread : Owns(u)' <=> u = w
      BY <1>2, <2>4, <3>1, UnlockWakeIInv DEF UnlockWake
    <3>4. owner' = w
      BY <3>2, <3>3 DEF owner
    <3>5. inside' = inside \ {t}
      BY <1>2, <2>4 DEF IInv, TypeOK, UnlockWake, inside
    <3> QED
      BY <2>4, <3>1, <3>4, <3>5 DEF Lock!HandOver, UnlockWake
  <2>5. ASSUME NEW t \in Thread, Ready(t) PROVE Lock!Enter(waketh[t])
    <3> DEFINE w == waketh[t]
    <3>1. \A u \in Thread : Owns(u)' <=> Owns(u)
      BY <1>2, <2>5, ReadyIInv
    <3>2. held' = held /\ waiters' = waiters
      BY <2>5 DEF Ready
    <3>3. owner' = owner
      BY <1>2, <3>1, <3>2, SameOwner
    <3>4. w \in Thread /\ w # t /\ Owns(w) /\ pc[w] = "parked"
      BY <1>2, <2>5 DEF IInv, TypeOK, WaitersParked, Ready, Owns
    <3>5. owner = w /\ w \notin inside
      BY <1>2, <3>4, OwnerIs DEF inside
    <3>6. inside' = inside \cup {w}
      BY <1>2, <2>5, <3>4 DEF IInv, TypeOK, Ready, inside
    <3> QED
      BY <3>2, <3>3, <3>5, <3>6 DEF Lock!Enter
  <2>6. ASSUME NEW t \in Thread, Ready(t) PROVE waketh[t] \in Thread
    BY <1>2, <2>6 DEF IInv, TypeOK, Ready
  <2>7. CASE UNCHANGED vars
    BY <2>7 DEF vars, owner, Owns, inside, Lock!lockvars
  <2> QED
    BY <1>2, <2>1, <2>2, <2>3, <2>4, <2>5, <2>6, <2>7 DEF Next, Unlock, Lock!Next
<1> QED
  BY <1>1, <1>2, SpecIInv, PTL DEF Spec, ImplementsLock, Lock!Spec
=============================================================================
