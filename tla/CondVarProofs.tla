--------------------------- MODULE CondVarProofs ---------------------------
(***************************************************************************)
(* Proofs about condvar_t, for any number of threads: the mutex it is used *)
(* with only takes the steps of module Mutex, and no wakeup is lost.       *)
(***************************************************************************)
EXTENDS CondVar, MutexProofs, SeqLemmas

\* Every step of the composition is a step of the mutex or leaves it alone.
LEMMA CvNextIsMutexNext == [CvNext]_allvars => [Next]_vars
<1> SUFFICES ASSUME [CvNext]_allvars PROVE [Next]_vars
  OBVIOUS
<1>1. CASE UNCHANGED allvars
  BY <1>1 DEF allvars
<1>2. CASE CvNext
  <2>1. PICK t \in Thread :
          \/ MutexStep(t) \/ Wait(t) \/ WaitStep(t) \/ Signal(t)
          \/ Broadcast(t) \/ SignalNobody(t) \/ SignalReady(t)
    BY <1>2 DEF CvNext
  <2>2. CASE MutexStep(t)
    BY <2>2 DEF MutexStep, Next
  <2>3. CASE Wait(t)
    BY <2>3 DEF Wait
  <2>4. CASE WaitStep(t)
    BY <2>4 DEF WaitStep, WaitUnlock, WaitPark, Relock, WaitReturn, Next
  <2>5. CASE Signal(t) \/ Broadcast(t)
    BY <2>5 DEF Signal, Broadcast
  <2>6. CASE SignalNobody(t)
    BY <2>6 DEF SignalNobody, allvars
  <2>7. CASE SignalReady(t)
    BY <2>7 DEF SignalReady
  <2> QED
    BY <2>1, <2>2, <2>3, <2>4, <2>5, <2>6, <2>7
<1> QED
  BY <1>1, <1>2

\* condvar_wait and the signals use the mutex only through its operations, so
\* that whatever is proved of mutex_t holds of a mutex used with a condvar_t.
THEOREM CondVarUsesMutex == CvSpec => Spec
<1>1. CvInit => Init
  BY DEF CvInit
<1> QED
  BY <1>1, CvNextIsMutexNext, PTL DEF CvSpec, Spec

\* At most one thread is in the mutex, those that return from condvar_wait
\* included.
THEOREM CvExclusion == CvSpec => []MutualExclusion
  BY CondVarUsesMutex, Exclusion

\* A mutex that condvar_wait or anybody else has to queue for has an owner.
THEOREM CvHeldIsOwned == CvSpec => []HeldMeansOwned
  BY CondVarUsesMutex, HeldIsOwned

-----------------------------------------------------------------------------
\* The part of CvTypeOK that is about the condvar.
CvTypes ==
  /\ cv_lock \in Thread \cup {NULL}
  /\ \A t \in Thread : cv_lock = t <=> cpc[t] = "release"
  /\ cv_waiters \in Seq(Thread)
  /\ cpc \in [Thread -> CPCs]
  /\ tmp \in [Thread -> Seq(Thread)]

\* No thread is twice on the list of waiters or among the popped threads.
CvSlotsDistinct ==
  /\ IsInjective(cv_waiters)
  /\ \A u \in Thread : IsInjective(tmp[u]) /\ Range(tmp[u]) \cap Range(cv_waiters) = {}
  /\ \A u, v \in Thread : u # v => Range(tmp[u]) \cap Range(tmp[v]) = {}

\* t is on the list of waiters or was popped by a signal.
Listed(t) == t \in Range(cv_waiters) \/ \E u \in Thread : t \in Range(tmp[u])

\* Exactly the threads parked in condvar_wait are listed, and exactly the
\* threads inside a signal operation have popped some.
CvPlaces ==
  /\ \A t \in Thread : cpc[t] = "cvparked" <=> Listed(t)
  /\ \A t \in Thread : cpc[t] = "signal" <=> tmp[t] # << >>

\* The inductive invariant.
CvInv == CvTypes /\ CvSlotsDistinct /\ CvPlaces

\* condvar_init leaves the list of waiters empty.
LEMMA InitCvInv == CvInit => CvInv
<1> SUFFICES ASSUME CvInit PROVE CvInv
  OBVIOUS
<1>1. << >> \in Seq(Thread) /\ Range(<< >>) = {} /\ IsInjective(<< >>)
  BY EmptyFacts
<1>2. CvTypes
  BY <1>1, MutexAssumption DEF CvInit, CvTypes, CPCs
<1>3. CvSlotsDistinct
  BY <1>1 DEF CvInit, CvSlotsDistinct
<1>4. CvPlaces
  BY <1>1 DEF CvInit, CvPlaces, Listed
<1> QED
  BY <1>2, <1>3, <1>4 DEF CvInv

\* A step that leaves condvar_t and the popped threads alone.
LEMMA CvUnchanged == CvInv /\ UNCHANGED cvvars => CvInv'
  BY DEF CvInv, cvvars, CvTypes, CvSlotsDistinct, CvPlaces, Listed

\* condvar_wait takes waiter_lock, or returns: no list changes.
LEMMA WaitCvInv ==
  ASSUME CvInv, NEW t \in Thread, Wait(t) \/ WaitReturn(t)
  PROVE  CvInv'
<1>1. CvTypes'
  BY MutexAssumption DEF CvInv, CvTypes, CPCs, Wait, WaitReturn
<1>2. UNCHANGED <<cv_waiters, tmp>>
  BY DEF Wait, WaitReturn
<1>3. CvSlotsDistinct'
  BY <1>2 DEF CvInv, CvSlotsDistinct
<1>4. \A u \in Thread : Listed(u)' <=> Listed(u)
  BY <1>2 DEF Listed
<1>5. CvPlaces'
  BY <1>2, <1>4 DEF CvInv, CvTypes, CvPlaces, Wait, WaitReturn
<1> QED
  BY <1>1, <1>3, <1>5 DEF CvInv

\* condvar_wait gets on the list and parks.
LEMMA WaitParkCvInv ==
  ASSUME CvInv, NEW t \in Thread, WaitPark(t)
  PROVE  CvInv'
<1>1. cv_waiters \in Seq(Thread) /\ cpc[t] = "release" /\ ~Listed(t)
  BY DEF CvInv, CvTypes, CvPlaces, WaitPark
<1>2. /\ cv_waiters' \in Seq(Thread)
      /\ Range(cv_waiters') = Range(cv_waiters) \cup {t}
      /\ IsInjective(cv_waiters) /\ t \notin Range(cv_waiters) => IsInjective(cv_waiters')
  <2>1. cv_waiters' = Append(cv_waiters, t)
    BY DEF WaitPark
  <2> QED
    BY <1>1, <2>1, AppendFacts
<1>3. CvTypes'
  BY <1>2, MutexAssumption DEF CvInv, CvTypes, CPCs, WaitPark
<1>4. tmp' = tmp
  BY DEF WaitPark
<1>5. CvSlotsDistinct'
  BY <1>1, <1>2, <1>4 DEF CvInv, CvSlotsDistinct, Listed
<1>6. \A u \in Thread : Listed(u)' <=> Listed(u) \/ u = t
  BY <1>2, <1>4 DEF Listed
<1>7. CvPlaces'
  BY <1>1, <1>4, <1>6 DEF CvInv, CvTypes, CvPlaces, WaitPark
<1> QED
  BY <1>3, <1>5, <1>7 DEF CvInv

\* A signal operation pops its threads under waiter_lock: some of the listed
\* threads move from cv_waiters to tmp[t], which was empty.
LEMMA PopCvInv ==
  ASSUME CvInv, NEW t \in Thread, Signal(t) \/ Broadcast(t)
  PROVE  CvInv'
<1>1. /\ cv_waiters \in Seq(Thread) /\ cv_waiters # << >> /\ IsInjective(cv_waiters)
      /\ cpc[t] = "none" /\ tmp[t] = << >>
  BY DEF CvInv, CvTypes, CvSlotsDistinct, CvPlaces, Signal, Broadcast,
         MaySignal
<1>2. PICK s \in Seq(Thread) :
        /\ tmp' = [tmp EXCEPT ![t] = s]
        /\ cv_waiters' \in Seq(Thread)
        /\ Range(s) \cup Range(cv_waiters') = Range(cv_waiters)
        /\ Range(s) \cap Range(cv_waiters') = {}
        /\ IsInjective(s) /\ IsInjective(cv_waiters') /\ s # << >>
  <2>1. CASE Broadcast(t)
    <3>1. tmp' = [tmp EXCEPT ![t] = cv_waiters] /\ cv_waiters' = << >>
      BY <2>1 DEF Broadcast
    <3> QED
      BY <1>1, <3>1, EmptyFacts
  <2>2. CASE Signal(t)
    <3>1. tmp' = [tmp EXCEPT ![t] = <<Head(cv_waiters)>>] /\ cv_waiters' = Tail(cv_waiters)
      BY <2>2 DEF Signal
    <3>2. /\ Head(cv_waiters) \in Thread /\ Tail(cv_waiters) \in Seq(Thread)
          /\ Range(cv_waiters) = {Head(cv_waiters)} \cup Range(Tail(cv_waiters))
          /\ IsInjective(Tail(cv_waiters))
          /\ Head(cv_waiters) \notin Range(Tail(cv_waiters))
      BY <1>1, PopFacts
    <3> DEFINE h == <<Head(cv_waiters)>>
    <3>3. /\ h \in Seq(Thread) /\ Range(h) = {Head(cv_waiters)} /\ IsInjective(h)
          /\ h # << >>
      BY <3>2, SingleFacts
    <3>4. tmp' = [tmp EXCEPT ![t] = h]
      BY <3>1
    <3> HIDE DEF h
    <3> QED
      BY <3>1, <3>2, <3>3, <3>4
  <2> QED
    BY <2>1, <2>2
<1>3. /\ cpc' = [cpc EXCEPT ![t] = "signal"] /\ UNCHANGED cv_lock
  BY DEF Signal, Broadcast
<1>4. Head(cv_waiters) \in Thread
  BY <1>1, PopFacts
<1>5. CvTypes'
  BY <1>1, <1>2, <1>3, <1>4 DEF CvInv, CvTypes, CPCs
<1>6. Range(tmp[t]) = {}
  BY <1>1, EmptyFacts
<1>7. \A u \in Thread : tmp'[u] = IF u = t THEN s ELSE tmp[u]
  BY <1>2 DEF CvInv, CvTypes
<1>8. CvSlotsDistinct'
  BY <1>2, <1>7 DEF CvInv, CvSlotsDistinct
<1>9. \A u \in Thread : Listed(u)' <=> Listed(u)
  BY <1>2, <1>6, <1>7 DEF Listed
<1>10. CvPlaces'
  BY <1>1, <1>2, <1>3, <1>7, <1>9 DEF CvInv, CvTypes, CvPlaces
<1> QED
  BY <1>5, <1>8, <1>10 DEF CvInv

\* One thread_ready of a signal operation: the head of tmp[t] leaves the lists
\* and condvar_wait.
LEMMA SignalReadyCvInv ==
  ASSUME CvInv, NEW t \in Thread, SignalReady(t)
  PROVE  CvInv'
<1> DEFINE h == Head(tmp[t])
           r == Tail(tmp[t])
<1>1. tmp[t] \in Seq(Thread) /\ tmp[t] # << >> /\ IsInjective(tmp[t]) /\ cpc[t] = "signal"
  BY DEF CvInv, CvTypes, CvSlotsDistinct, CvPlaces, SignalReady
<1>2. /\ h \in Thread /\ r \in Seq(Thread) /\ Len(r) = Len(tmp[t]) - 1
      /\ Len(tmp[t]) \in Nat \ {0}
      /\ Range(tmp[t]) = {h} \cup Range(r) /\ IsInjective(r) /\ h \notin Range(r)
  BY <1>1, PopFacts
<1>3. Len(tmp[t]) = 1 <=> r = << >>
  <2> DEFINE n == Len(tmp[t])
             m == Len(r)
  <2>1. m = n - 1 /\ n \in Nat \ {0}
    BY <1>2
  <2>2. r = << >> <=> m = 0
    <3>1. r \in Seq(Thread)
      BY <1>2
    <3> HIDE DEF r
    <3> QED
      BY <3>1
  <2>3. n = 1 <=> m = 0
    <3> HIDE DEF n, m
    <3> QED
      BY <2>1
  <2> QED
    BY <2>2, <2>3
<1>4. /\ tmp' = [tmp EXCEPT ![t] = r] /\ UNCHANGED <<cv_lock, cv_waiters>>
      /\ cpc' = [cpc EXCEPT ![h] = "relock",
                            ![t] = IF Len(tmp[t]) = 1 THEN "none" ELSE "signal"]
  BY DEF SignalReady
<1>5. cpc[h] = "cvparked"
  BY <1>1, <1>2 DEF CvInv, CvPlaces, Listed
<1> HIDE DEF h, r
<1>6. \A u \in Thread : tmp'[u] = IF u = t THEN r ELSE tmp[u]
  BY <1>4 DEF CvInv, CvTypes
<1>7. \A u \in Thread : cpc'[u] = IF u = t THEN (IF r = << >> THEN "none" ELSE "signal")
                                   ELSE IF u = h THEN "relock" ELSE cpc[u]
  BY <1>2, <1>3, <1>4 DEF CvInv, CvTypes
<1>8. CvTypes'
  BY <1>1, <1>2, <1>4, <1>5, <1>7 DEF CvInv, CvTypes, CPCs
<1>9. CvSlotsDistinct'
  BY <1>2, <1>4, <1>6 DEF CvInv, CvSlotsDistinct
<1>10. \A u \in Thread : Listed(u)' <=> Listed(u) /\ u # h
  <2>1. h \notin Range(cv_waiters) /\ \A v \in Thread : v # t => h \notin Range(tmp[v])
    BY <1>2 DEF CvInv, CvSlotsDistinct
  <2> QED
    BY <1>2, <1>4, <1>6, <2>1 DEF Listed
<1>11. CvPlaces'
  <2>1. \A u \in Thread : cpc'[u] = "cvparked" <=> cpc[u] = "cvparked" /\ u # h
    BY <1>1, <1>5, <1>7
  <2>2. \A u \in Thread : cpc'[u] = "signal" <=> tmp'[u] # << >>
    BY <1>1, <1>5, <1>6, <1>7 DEF CvInv, CvPlaces
  <2> QED
    BY <1>10, <2>1, <2>2 DEF CvInv, CvPlaces
<1> QED
  BY <1>8, <1>9, <1>11 DEF CvInv

\* Every step of the composition keeps the invariant.
LEMMA NextCvInv == CvInv /\ [CvNext]_allvars => CvInv'
<1> SUFFICES ASSUME CvInv, [CvNext]_allvars PROVE CvInv'
  OBVIOUS
<1>1. CASE UNCHANGED allvars
  BY <1>1, CvUnchanged DEF allvars
<1>2. CASE CvNext
  <2>1. PICK t \in Thread :
          \/ MutexStep(t) \/ Wait(t) \/ WaitStep(t) \/ Signal(t)
          \/ Broadcast(t) \/ SignalNobody(t) \/ SignalReady(t)
    BY <1>2 DEF CvNext
  <2>2. CASE MutexStep(t) \/ SignalNobody(t)
    BY <2>2, CvUnchanged DEF MutexStep, SignalNobody, allvars
  <2>3. CASE WaitUnlock(t) \/ Relock(t)
    BY <2>3, CvUnchanged DEF WaitUnlock, Relock
  <2>4. CASE Wait(t) \/ WaitReturn(t)
    BY <2>4, WaitCvInv
  <2>5. CASE WaitPark(t)
    BY <2>5, WaitParkCvInv
  <2>6. CASE Signal(t) \/ Broadcast(t)
    BY <2>6, PopCvInv
  <2>7. CASE SignalReady(t)
    BY <2>7, SignalReadyCvInv
  <2> QED
    BY <2>1, <2>2, <2>3, <2>4, <2>5, <2>6, <2>7 DEF WaitStep
<1> QED
  BY <1>1, <1>2

\* The invariant finds every waiter: one that still holds waiter_lock keeps
\* signals out, one that is parked and not popped is on the list.
LEMMA CvInvNoLostWakeup == CvInv => NoLostWakeup
<1> SUFFICES ASSUME CvInv, NEW s \in Thread, NEW t \in Thread, MaySignal(s), Waits(t)
             PROVE  cv_waiters # << >>
  BY DEF NoLostWakeup
<1>1. cpc[t] # "release"
  BY MutexAssumption DEF CvInv, CvTypes, MaySignal
<1>2. t \in Range(cv_waiters)
  BY <1>1 DEF CvInv, CvPlaces, Listed, Waits
<1> QED
  BY <1>2, EmptyFacts

\* condvar_wait loses no wakeup: from the moment it has released the mutex, no
\* signal can find the list of waiters empty.
THEOREM NoWakeupIsLost == CvSpec => []NoLostWakeup
  BY InitCvInv, NextCvInv, CvInvNoLostWakeup, PTL DEF CvSpec

\* Every variable of the mutex and the condvar keeps its type, and condvar_wait
\* holds waiter_lock exactly from before its mutex_unlock until its park.
THEOREM CondVarTypes == CvSpec => []CvTypeOK
<1>1. IInv /\ CvInv => CvTypeOK
  BY DEF IInv, CvInv, CvTypes, CvTypeOK
<1> QED
  BY <1>1, InitCvInv, NextCvInv, CondVarUsesMutex, SpecIInv, PTL DEF CvSpec
=============================================================================
