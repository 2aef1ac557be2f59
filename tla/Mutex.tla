------------------------------- MODULE Mutex -------------------------------
(***************************************************************************)
(* mutex_t of runtime/sync.c.  Each section under waiter_lock is one step; *)
(* the thread_ready of the popped waiter, which mutex_unlock calls after   *)
(* it has released waiter_lock, is another.  The lock is handed over: held *)
(* stays true across an unlock that wakes a waiter, and the waiter returns *)
(* from mutex_lock without looking at held again.                          *)
(***************************************************************************)
EXTENDS Naturals, Sequences, Functions

CONSTANTS
  Thread,   \* the uthreads that share the mutex
  NULL      \* no thread

ASSUME MutexAssumption == NULL \notin Thread

VARIABLES
  held,      \* mutex_t.held
  waiters,   \* mutex_t.waiters
  pc,        \* where the uthread is
  waketh     \* the local of mutex_unlock: the waiter to make ready

vars == <<held, waiters, pc, waketh>>

\* "out": not using the mutex.  "parked": in mutex_lock, parked.  "cs": the
\* call that acquires the mutex has returned.  "wake": in mutex_unlock,
\* waiter_lock released and thread_ready not called yet.
PCs == {"out", "parked", "cs", "wake"}

\* mutex_init
Init ==
  /\ held = FALSE
  /\ waiters = << >>
  /\ pc = [t \in Thread |-> "out"]
  /\ waketh = [t \in Thread |-> NULL]

\* mutex_try_lock: returns false without any effect when the mutex is held.
TryLock(t) ==
  /\ pc[t] = "out"
  /\ ~held
  /\ held' = TRUE
  /\ pc' = [pc EXCEPT ![t] = "cs"]
  /\ UNCHANGED <<waiters, waketh>>

\* Mutant: a new waiter goes to the front of the list.
LockWaitLifo(t) ==
  /\ pc[t] = "out"
  /\ held
  /\ waiters' = <<t>> \o waiters
  /\ pc' = [pc EXCEPT ![t] = "parked"]
  /\ UNCHANGED <<held, waketh>>

\* mutex_lock of a free mutex.
LockFree(t) ==
  /\ pc[t] = "out"
  /\ ~held
  /\ held' = TRUE
  /\ pc' = [pc EXCEPT ![t] = "cs"]
  /\ UNCHANGED <<waiters, waketh>>

\* mutex_lock of a held mutex, up to the park.
LockWait(t) ==
  /\ pc[t] = "out"
  /\ held
  /\ waiters' = Append(waiters, t)
  /\ pc' = [pc EXCEPT ![t] = "parked"]
  /\ UNCHANGED <<held, waketh>>

\* mutex_unlock without waiters.
UnlockFree(t) ==
  /\ pc[t] = "cs"
  /\ waiters = << >>
  /\ held' = FALSE
  /\ pc' = [pc EXCEPT ![t] = "out"]
  /\ UNCHANGED <<waiters, waketh>>

\* Mutant: the unlock clears held although a waiter takes the mutex over.
UnlockWakeNotHeld(t) ==
  /\ pc[t] = "cs"
  /\ waiters # << >>
  /\ held' = FALSE
  /\ waketh' = [waketh EXCEPT ![t] = Head(waiters)]
  /\ waiters' = Tail(waiters)
  /\ pc' = [pc EXCEPT ![t] = "wake"]

\* mutex_unlock with waiters, up to the release of waiter_lock.
UnlockWake(t) ==
  /\ pc[t] = "cs"
  /\ waiters # << >>
  /\ waketh' = [waketh EXCEPT ![t] = Head(waiters)]
  /\ waiters' = Tail(waiters)
  /\ pc' = [pc EXCEPT ![t] = "wake"]
  /\ UNCHANGED held

\* Mutant: the popped waiter is not made ready.
ReadyLost(t) ==
  /\ pc[t] = "wake"
  /\ pc' = [pc EXCEPT ![t] = "out"]
  /\ waketh' = [waketh EXCEPT ![t] = NULL]
  /\ UNCHANGED <<held, waiters>>

\* mutex_unlock, thread_ready(waketh): the waiter returns from mutex_lock.
Ready(t) ==
  /\ pc[t] = "wake"
  /\ pc' = [pc EXCEPT ![t] = "out", ![waketh[t]] = "cs"]
  /\ waketh' = [waketh EXCEPT ![t] = NULL]
  /\ UNCHANGED <<held, waiters>>

Unlock(t) == UnlockFree(t) \/ UnlockWake(t)

Next ==
  \E t \in Thread : TryLock(t) \/ LockFree(t) \/ LockWait(t) \/ Unlock(t) \/ Ready(t)

Spec == Init /\ [][Next]_vars

-----------------------------------------------------------------------------
\* Every variable has its type, and waketh is set exactly between the pop of a
\* waiter and its thread_ready in mutex_unlock.
TypeOK ==
  /\ held \in BOOLEAN
  /\ waiters \in Seq(Thread)
  /\ pc \in [Thread -> PCs]
  /\ waketh \in [Thread -> Thread \cup {NULL}]
  /\ \A t \in Thread : waketh[t] # NULL <=> pc[t] = "wake"

\* t holds the mutex: it runs its critical section, or mutex_unlock popped it.
Owns(t) == pc[t] = "cs" \/ \E u \in Thread : waketh[u] = t

\* At most one thread runs between a lock and the unlock, whatever way it got
\* there (mutex_lock, mutex_try_lock, or the hand-over of mutex_unlock).
MutualExclusion ==
  \A t, u \in Thread : pc[t] = "cs" /\ pc[u] = "cs" => t = u

\* held says exactly that somebody owns the mutex, also while it is handed
\* over: a held mutex nobody owns would never be released.
HeldMeansOwned == held <=> \E t \in Thread : Owns(t)

\* A thread parked in mutex_lock gets the mutex: the hand-over excludes
\* barging, so neither mutex_try_lock nor mutex_lock can overtake it forever.
WaiterAcquires == \A t \in Thread : pc[t] = "parked" ~> pc[t] = "cs"

\* The owner and the threads inside as LockSpec sees them.
owner == IF held THEN CHOOSE t \in Thread : Owns(t) ELSE NULL
inside == {t \in Thread : pc[t] = "cs"}

Lock == INSTANCE LockSpec WITH queue <- waiters

\* mutex_t is a fair lock without barging: every step of mutex_lock,
\* mutex_try_lock and mutex_unlock is a step of LockSpec, in which the lock
\* goes from its owner to the first of the queue, or changes nothing of it.
ImplementsLock == Lock!Spec
=============================================================================
