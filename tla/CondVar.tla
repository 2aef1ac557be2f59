------------------------------ MODULE CondVar ------------------------------
(***************************************************************************)
(* condvar_t of runtime/sync.c, used with a mutex of module Mutex.         *)
(*                                                                         *)
(* condvar_wait keeps the condvar's waiter_lock (cv_lock here) from before *)
(* it unlocks the mutex until it has put itself on the waiter list, so     *)
(* that its steps in between, which are steps of mutex_unlock, are visible *)
(* to users of the mutex but not to signals.  Signals pop under cv_lock    *)
(* and make ready (or swap to) the popped threads after releasing it.      *)
(***************************************************************************)
EXTENDS Mutex

VARIABLES
  cv_lock,      \* the holder of condvar_t.waiter_lock
  cv_waiters,   \* condvar_t.waiters
  cpc,          \* where the uthread is in a condvar operation
  tmp           \* the local of the signal operations: threads to make ready

cvvars == <<cv_lock, cv_waiters, cpc, tmp>>
allvars == <<vars, cvvars>>

\* "none": not in a condvar operation.  "release": in condvar_wait, holding
\* cv_lock.  "cvparked": parked in condvar_wait.  "relock": in the mutex_lock
\* that ends condvar_wait.  "signal": cv_lock released, tmp not empty.
CPCs == {"none", "release", "cvparked", "relock", "signal"}

CvInit ==
  /\ Init
  /\ cv_lock = NULL
  /\ cv_waiters = << >>
  /\ cpc = [t \in Thread |-> "none"]
  /\ tmp = [t \in Thread |-> << >>]

\* A mutex operation of a uthread outside condvar_wait.  thread_ready inside
\* mutex_unlock also belongs to condvar_wait.
MutexStep(t) ==
  /\ \/ /\ cpc[t] = "none"
        /\ TryLock(t) \/ LockFree(t) \/ LockWait(t) \/ Unlock(t)
     \/ Ready(t)
  /\ UNCHANGED cvvars

\* condvar_wait: take waiter_lock.
Wait(t) ==
  /\ cpc[t] = "none" /\ pc[t] = "cs"
  /\ cv_lock = NULL
  /\ cv_lock' = t
  /\ cpc' = [cpc EXCEPT ![t] = "release"]
  /\ UNCHANGED <<vars, cv_waiters, tmp>>

\* Mutant: waiter_lock is dropped before the mutex is unlocked.
WaitUnlockUnguarded(t) ==
  /\ cpc[t] = "release" /\ pc[t] = "cs"
  /\ Unlock(t)
  /\ cv_lock' = NULL
  /\ UNCHANGED <<cv_waiters, cpc, tmp>>

\* condvar_wait: mutex_unlock (its thread_ready is a MutexStep).
WaitUnlock(t) ==
  /\ cpc[t] = "release" /\ pc[t] = "cs"
  /\ Unlock(t)
  /\ UNCHANGED cvvars

\* condvar_wait: get on the list and park, which drops waiter_lock.
WaitPark(t) ==
  /\ cpc[t] = "release" /\ pc[t] = "out"
  /\ cv_waiters' = Append(cv_waiters, t)
  /\ cv_lock' = NULL
  /\ cpc' = [cpc EXCEPT ![t] = "cvparked"]
  /\ UNCHANGED <<vars, tmp>>

\* Mutant: condvar_wait returns without taking the mutex again.
RelockNot(t) ==
  /\ cpc[t] = "relock" /\ pc[t] = "out"
  /\ pc' = [pc EXCEPT ![t] = "cs"]
  /\ UNCHANGED <<held, waiters, waketh, cvvars>>

\* condvar_wait: the mutex_lock at its end.
Relock(t) ==
  /\ cpc[t] = "relock" /\ pc[t] = "out"
  /\ LockFree(t) \/ LockWait(t)
  /\ UNCHANGED cvvars

\* condvar_wait returns.
WaitReturn(t) ==
  /\ cpc[t] = "relock" /\ pc[t] = "cs"
  /\ cpc' = [cpc EXCEPT ![t] = "none"]
  /\ UNCHANGED <<vars, cv_lock, cv_waiters, tmp>>

\* A signal may be sent with or without the mutex.
MaySignal(t) == cpc[t] = "none" /\ pc[t] \in {"out", "cs"} /\ cv_lock = NULL

\* condvar_signal and condvar_signal_and_swap, up to the release of
\* waiter_lock.  They differ in how the popped thread gets to run: the scheduler
\* has it, or the signaller swaps to it, and either way it has to lock the mutex.
Signal(t) ==
  /\ MaySignal(t)
  /\ cv_waiters # << >>
  /\ tmp' = [tmp EXCEPT ![t] = <<Head(cv_waiters)>>]
  /\ cv_waiters' = Tail(cv_waiters)
  /\ cpc' = [cpc EXCEPT ![t] = "signal"]
  /\ UNCHANGED <<vars, cv_lock>>

\* condvar_broadcast, up to the release of waiter_lock.
Broadcast(t) ==
  /\ MaySignal(t)
  /\ cv_waiters # << >>
  /\ tmp' = [tmp EXCEPT ![t] = cv_waiters]
  /\ cv_waiters' = << >>
  /\ cpc' = [cpc EXCEPT ![t] = "signal"]
  /\ UNCHANGED <<vars, cv_lock>>

\* Any of the three signal operations on an empty list does nothing.
SignalNobody(t) ==
  /\ MaySignal(t)
  /\ cv_waiters = << >>
  /\ UNCHANGED allvars

\* Mutant: condvar_broadcast makes only the first thread ready.
SignalReadyFirst(t) ==
  /\ cpc[t] = "signal"
  /\ cpc' = [cpc EXCEPT ![Head(tmp[t])] = "relock", ![t] = "none"]
  /\ tmp' = [tmp EXCEPT ![t] = << >>]
  /\ UNCHANGED <<vars, cv_lock, cv_waiters>>

\* One thread_ready of condvar_signal or condvar_broadcast, or the thread_swap
\* of condvar_signal_and_swap: the popped thread goes on in condvar_wait.
SignalReady(t) ==
  /\ cpc[t] = "signal"
  /\ cpc' = [cpc EXCEPT ![Head(tmp[t])] = "relock",
                        ![t] = IF Len(tmp[t]) = 1 THEN "none" ELSE "signal"]
  /\ tmp' = [tmp EXCEPT ![t] = Tail(@)]
  /\ UNCHANGED <<vars, cv_lock, cv_waiters>>

\* The steps of condvar_wait of one thread.
WaitStep(t) == WaitUnlock(t) \/ WaitPark(t) \/ Relock(t) \/ WaitReturn(t)

CvNext ==
  \E t \in Thread :
    \/ MutexStep(t)
    \/ Wait(t)
    \/ WaitStep(t)
    \/ Signal(t) \/ Broadcast(t) \/ SignalNobody(t)
    \/ SignalReady(t)

CvSpec == CvInit /\ [][CvNext]_allvars

\* A thread finishes the operations it began and releases a mutex it holds.
CvFairness ==
  \A t \in Thread :
    /\ WF_allvars(MutexStep(t) /\ Unlock(t))
    /\ WF_allvars(MutexStep(t) /\ Ready(t))
    /\ WF_allvars(WaitStep(t))
    /\ WF_allvars(SignalReady(t))

CvFairSpec == CvSpec /\ CvFairness

-----------------------------------------------------------------------------
\* Every variable has its type, and condvar_wait holds waiter_lock exactly from
\* before its mutex_unlock until its park.
CvTypeOK ==
  /\ TypeOK
  /\ cv_lock \in Thread \cup {NULL}
  /\ \A t \in Thread : cv_lock = t <=> cpc[t] = "release"
  /\ cv_waiters \in Seq(Thread)
  /\ cpc \in [Thread -> CPCs]
  /\ tmp \in [Thread -> Seq(Thread)]

\* t called condvar_wait, gave up the mutex, and nothing has woken it yet.
Waits(t) ==
  \/ cpc[t] = "release" /\ pc[t] # "cs"
  \/ cpc[t] = "cvparked" /\ \A u \in Thread : t \notin Range(tmp[u])

\* No wakeup is lost: from the moment condvar_wait has released the mutex, a
\* signal cannot find the list empty, so whoever acquires the mutex next and
\* changes the condition does wake a waiter.
NoLostWakeup ==
  \A s, t \in Thread : MaySignal(s) /\ Waits(t) => cv_waiters # << >>

\* Whoever was popped by a signal or a broadcast returns from condvar_wait.
SignalledReturns ==
  \A t \in Thread :
    (\E u \in Thread : t \in Range(tmp[u])) ~> (cpc[t] = "none" /\ pc[t] = "cs")
=============================================================================
