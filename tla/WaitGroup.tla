----------------------------- MODULE WaitGroup -----------------------------
(***************************************************************************)
(* waitgroup_t of runtime/sync.c, in its intended use: a worker is counted *)
(* with waitgroup_add(wg, 1) before it starts, by another worker that is   *)
(* not finished itself (the first one by whoever makes the wait group), it *)
(* calls waitgroup_add(wg, -1) once when it is finished, and any number of *)
(* threads call waitgroup_wait.                                            *)
(***************************************************************************)
EXTENDS Integers, Sequences, FiniteSets, Functions

CONSTANTS
  Worker,   \* the threads that call waitgroup_add(wg, -1) when they finish
  first,    \* the worker that is counted from the start
  Waiter    \* the threads that will call waitgroup_wait(wg)

WaitGroupAssumption ==
  Worker \cap Waiter = {} /\ IsFiniteSet(Worker) /\ first \in Worker

VARIABLES
  cnt,       \* waitgroup_t.cnt
  waiters,   \* waitgroup_t.waiters
  pc,        \* where the uthread is
  tmp        \* the local of waitgroup_add: threads to make ready

vars == <<cnt, waiters, pc, tmp>>

\* pc is
\* "new": a worker that is not counted yet.  "start": a counted worker, or a
\* waiter before its call.  "parked": parked in waitgroup_wait.  "wake": in
\* waitgroup_add, lock released, tmp not empty.  "done": the call returned.

\* waitgroup_init, waitgroup_add(wg, 1) for the first worker
Init ==
  /\ cnt = 1
  /\ waiters = << >>
  /\ pc = [t \in Worker \cup Waiter |-> IF t \in Worker \ {first} THEN "new" ELSE "start"]
  /\ tmp = [t \in Worker |-> << >>]

\* waitgroup_add(wg, 1) by worker t, for the worker u.  The count is positive
\* then, so nobody is woken.
AddWorker(t, u) ==
  /\ pc[t] = "start" /\ pc[u] = "new"
  /\ cnt' = cnt + 1
  /\ pc' = [pc EXCEPT ![u] = "start"]
  /\ UNCHANGED <<waiters, tmp>>

\* Mutant: every waitgroup_add wakes the waiters.
AddEager(t) ==
  /\ t \in Worker /\ pc[t] = "start"
  /\ cnt' = cnt - 1
  /\ tmp' = [tmp EXCEPT ![t] = waiters] /\ waiters' = << >>
  /\ pc' = [pc EXCEPT ![t] = IF tmp'[t] = << >> THEN "done" ELSE "wake"]

\* waitgroup_add(wg, -1), the section under the lock.
Add(t) ==
  /\ t \in Worker /\ pc[t] = "start"
  /\ cnt' = cnt - 1
  /\ IF cnt' = 0
       THEN tmp' = [tmp EXCEPT ![t] = waiters] /\ waiters' = << >>
       ELSE UNCHANGED <<tmp, waiters>>
  /\ pc' = [pc EXCEPT ![t] = IF tmp'[t] = << >> THEN "done" ELSE "wake"]

\* waitgroup_add, one thread_ready.
Ready(t) ==
  /\ t \in Worker /\ pc[t] = "wake"
  /\ pc' = [pc EXCEPT ![Head(tmp[t])] = "done",
                      ![t] = IF Len(tmp[t]) = 1 THEN "done" ELSE "wake"]
  /\ tmp' = [tmp EXCEPT ![t] = Tail(@)]
  /\ UNCHANGED <<cnt, waiters>>

\* Mutant: waitgroup_wait parks without looking at the count.
WaitAlwaysParks(t) ==
  /\ t \in Waiter /\ pc[t] = "start"
  /\ pc' = [pc EXCEPT ![t] = "parked"] /\ waiters' = Append(waiters, t)
  /\ UNCHANGED <<cnt, tmp>>

\* waitgroup_wait
Wait(t) ==
  /\ t \in Waiter /\ pc[t] = "start"
  /\ IF cnt = 0
       THEN pc' = [pc EXCEPT ![t] = "done"] /\ UNCHANGED waiters
       ELSE pc' = [pc EXCEPT ![t] = "parked"] /\ waiters' = Append(waiters, t)
  /\ UNCHANGED <<cnt, tmp>>

\* Every call has returned.
Finished ==
  /\ \A t \in Worker \cup Waiter : pc[t] = "done" \/ pc[t] = "new"
  /\ UNCHANGED vars

\* What a thread is bound to do: a worker finishes its work, a waiter calls
\* waitgroup_wait, and every call runs to its end.
Continue(t) == Add(t) \/ Ready(t) \/ Wait(t)

Next ==
  \/ \E t, u \in Worker : AddWorker(t, u)
  \/ \E t \in Worker \cup Waiter : Continue(t)
  \/ Finished

Spec == Init /\ [][Next]_vars

-----------------------------------------------------------------------------
\* waitgroup_wait returns only after every worker that was ever counted is
\* finished, also those counted while it waited, and no thread is left on the
\* list of a wait group that reached zero.
WaitsForAll ==
  /\ \A t \in Waiter : pc[t] = "done" => \A w \in Worker : pc[w] # "start"
  /\ cnt = 0 => waiters = << >>

\* Every call of waitgroup_wait returns: one that starts late finds the count at
\* zero, one that starts early is on the list that the last worker empties.
WaitReturns == \A t \in Waiter : <>(pc[t] = "done")
=============================================================================
