------------------------------ MODULE Barrier ------------------------------
(***************************************************************************)
(* barrier_t of runtime/sync.c, used again and again by the same threads.  *)
(***************************************************************************)
EXTENDS Naturals, Sequences, FiniteSets, Functions

CONSTANTS
  Thread,     \* the uthreads that share the barrier; barrier_t.count of them
  MaxRounds   \* bound: calls of barrier_wait per thread

BarrierAssumption ==
  IsFiniteSet(Thread) /\ Thread # {} /\ MaxRounds \in Nat

VARIABLES
  waiting,    \* barrier_t.waiting
  waiters,    \* barrier_t.waiters
  pc,         \* where the uthread is
  tmp,        \* the local of barrier_wait: threads to make ready
  arrived,    \* history: calls of barrier_wait a thread has made
  returned    \* history: calls that returned

vars == <<waiting, waiters, pc, tmp, arrived, returned>>

\* barrier_t.count
count == Cardinality(Thread)

\* pc is "run" or
\* "parked": parked in barrier_wait.  "wake": the releasing thread, lock
\* released, threads of tmp still to make ready.

\* barrier_init
Init ==
  /\ waiting = 0
  /\ waiters = << >>
  /\ pc = [t \in Thread |-> "run"]
  /\ tmp = [t \in Thread |-> << >>]
  /\ arrived = [t \in Thread |-> 0]
  /\ returned = [t \in Thread |-> 0]

Arrive(t) ==
  /\ pc[t] = "run" /\ arrived[t] < MaxRounds
  /\ arrived' = [arrived EXCEPT ![t] = @ + 1]

\* Mutant: the barrier opens one thread too early.
ReleaseEarly(t) ==
  /\ Arrive(t)
  /\ waiting + 2 >= count
  /\ tmp' = [tmp EXCEPT ![t] = waiters]
  /\ waiters' = << >>
  /\ waiting' = 0
  /\ pc' = [pc EXCEPT ![t] = "wake"]
  /\ UNCHANGED returned

\* barrier_wait of the last thread, the section under the lock.
Release(t) ==
  /\ Arrive(t)
  /\ waiting + 1 >= count
  /\ tmp' = [tmp EXCEPT ![t] = waiters]
  /\ waiters' = << >>
  /\ waiting' = 0
  /\ pc' = [pc EXCEPT ![t] = "wake"]
  /\ UNCHANGED returned

\* barrier_wait of any other thread, up to the park.
Park(t) ==
  /\ Arrive(t)
  /\ waiting + 1 < count
  /\ waiting' = waiting + 1
  /\ waiters' = Append(waiters, t)
  /\ pc' = [pc EXCEPT ![t] = "parked"]
  /\ UNCHANGED <<tmp, returned>>

\* barrier_wait of the last thread, one thread_ready: that call returns false.
Ready(t) ==
  /\ pc[t] = "wake" /\ tmp[t] # << >>
  /\ pc' = [pc EXCEPT ![Head(tmp[t])] = "run"]
  /\ returned' = [returned EXCEPT ![Head(tmp[t])] = @ + 1]
  /\ tmp' = [tmp EXCEPT ![t] = Tail(@)]
  /\ UNCHANGED <<waiting, waiters, arrived>>

\* barrier_wait of the last thread returns true.
Return(t) ==
  /\ pc[t] = "wake" /\ tmp[t] = << >>
  /\ pc' = [pc EXCEPT ![t] = "run"]
  /\ returned' = [returned EXCEPT ![t] = @ + 1]
  /\ UNCHANGED <<waiting, waiters, tmp, arrived>>

Finished == (\A t \in Thread : returned[t] = MaxRounds) /\ UNCHANGED vars

\* What a thread is bound to do: keep calling barrier_wait and finish its calls.
Continue(t) == Release(t) \/ Park(t) \/ Ready(t) \/ Return(t)

Next == (\E t \in Thread : Continue(t)) \/ Finished

Spec == Init /\ [][Next]_vars

-----------------------------------------------------------------------------
\* No call returns before every thread has made its call of the same round,
\* although a fast thread may be back in barrier_wait while barrier_wait still
\* wakes the threads of the round before.
Lockstep == \A t, u \in Thread : returned[t] <= arrived[u]

\* Every call returns, in every round.
EveryRoundCompletes == <>(\A t \in Thread : returned[t] = MaxRounds)
=============================================================================
