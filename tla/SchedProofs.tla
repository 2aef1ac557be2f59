----------------------------- MODULE SchedProofs -----------------------------
(***************************************************************************)
(* Proofs about the scheduler of Sched, for any number of kthreads and     *)
(* threads and any queue sizes: no thread is lost, duplicated or run       *)
(* twice (OnePlace), whether or not the iokernel sends preemption signals. *)
(*                                                                         *)
(* OnePlace is inductive together with the types and with what __self and  *)
(* the stack pointer are at each point of the code.  SchedQueueProofs      *)
(* turns the queue operations into facts about InQueue; here each action   *)
(* has one lemma.                                                          *)
(***************************************************************************)
EXTENDS SchedQueueProofs

\* __self is set from the switch to a thread until schedule() forgets it.
SelfSet ==
  \A k \in Kthread : pc[k] \in {"run", "yield", "enter", "yieldk", "jmp"} => self[k] \in Thread

\* A kthread that runs a thread or has just left it is on that thread's stack.
OnStack ==
  \A k \in Kthread : pc[k] \in {"run", "yield", "enter"} => stack[k] = self[k]

\* kthread k has thread t, or is about to run it.
Holds(k, t) == Runs(k) /\ self[k] = t

\* The second half of OnePlace.
Places ==
  /\ \A t \in Thread : state[t] = "SLEEPING" <=> t \in waiters
  /\ \A t \in Thread : state[t] = "RUNNABLE" <=> InQueue(t)
  /\ \A t \in Thread : state[t] = "RUNNING" <=> \E k \in Kthread : Holds(k, t)
  /\ \A t \in Thread : \A j, k \in Kthread : Holds(j, t) /\ Holds(k, t) => j = k

\* The inductive invariant.
IInv == TypeOK /\ SelfSet /\ OnStack /\ SlotsDistinct /\ Places

\* OnePlace is SlotsDistinct and Places, once __self is known to be set.
LEMMA PlacesOnePlace ==
  ASSUME TypeOK, SelfSet
  PROVE  OnePlace <=> SlotsDistinct /\ Places
<1>1. \A k \in Kthread : Runs(k) => self[k] \in Thread
  BY DEF SelfSet, Runs
<1> QED
  BY <1>1 DEF OnePlace, Places, Holds, InQueue

\* runtime_start leaves the main thread in one queue and every kthread blocked.
LEMMA InitIInv == Init => IInv
<1> SUFFICES ASSUME Init PROVE IInv
  OBVIOUS
<1> USE SchedAssumption
<1>1. PICK k0 \in Kthread : rq = [k \in Kthread |-> IF k = k0 THEN <<main>> ELSE << >>]
  BY DEF Init
<1>2. /\ <<main>> \in Seq(Thread) /\ Len(<<main>>) = 1 /\ Range(<<main>>) = {main}
      /\ IsInjective(<<main>>)
  BY SingleFacts
<1>3. << >> \in Seq(Thread) /\ Len(<< >>) = 0 /\ Range(<< >>) = {} /\ IsInjective(<< >>)
  BY EmptyFacts
<1>4. ThreadsOK
  BY DEF Init, ThreadsOK, ThreadStates
<1>5. QueuesOK
  BY <1>1, <1>2, <1>3 DEF Init, QueuesOK
<1>6. KthreadsOK
  BY DEF Init, KthreadsOK, PCs
<1>7. SelfSet /\ OnStack
  BY DEF Init, SelfSet, OnStack
<1>8. \A k \in Kthread : DistinctIn(k) /\ Queued(k) = IF k = k0 THEN {main} ELSE {}
  BY <1>1, <1>2, <1>3 DEF Init, DistinctIn, Queued
<1>9. SlotsDistinct
  BY <1>8 DEF SlotsDistinct
<1>10. Places
  <2>1. \A t \in Thread : InQueue(t) <=> t = main
    BY <1>8 DEF InQueue
  <2>2. \A k \in Kthread, t \in Thread : ~Holds(k, t)
    BY DEF Init, Holds, Runs
  <2> QED
    BY <2>1, <2>2 DEF Init, Places
<1> QED
  BY <1>4, <1>5, <1>6, <1>7, <1>9, <1>10 DEF IInv, TypeOK

-----------------------------------------------------------------------------
(***************************************************************************)
(* The calls of a running uthread.                                         *)
(***************************************************************************)

\* thread_spawn puts a free thread in one new slot.
LEMMA ThreadSpawnIInv ==
  ASSUME IInv, NEW k \in Kthread, NEW t \in Thread, ThreadSpawn(k, t)
  PROVE  IInv'
<1> USE DEF IInv, TypeOK, ThreadSpawn
<1>1. ~InQueue(t) /\ state[t] = "FREE"
  BY DEF Places, NewThread
<1>2. QueuesOK' /\ SlotsDistinct' /\ \A u \in Thread : InQueue(u)' <=> InQueue(u) \/ u = t
  BY <1>1, PushEffect
<1>3. ThreadsOK'
  BY DEF ThreadsOK, ThreadStates, NewThread
<1>4. KthreadsOK' /\ SelfSet' /\ OnStack'
  BY DEF KthreadsOK, SelfSet, OnStack, kvars, pvars
<1>5. \A j \in Kthread, u \in Thread : Holds(j, u)' <=> Holds(j, u)
  BY DEF Holds, Runs, pvars
<1>6. Places'
  BY <1>1, <1>2, <1>5 DEF Places, NewThread, ThreadsOK
<1> QED
  BY <1>2, <1>3, <1>4, <1>6

\* thread_create hands a free thread to its caller.
LEMMA ThreadCreateIInv ==
  ASSUME IInv, NEW k \in Kthread, NEW t \in Thread, ThreadCreate(k, t)
  PROVE  IInv'
<1> USE DEF IInv, TypeOK, ThreadCreate
<1>1. state[t] = "FREE"
  BY DEF NewThread
<1>2. QueuesOK' /\ SlotsDistinct' /\ \A u \in Thread : InQueue(u)' <=> InQueue(u)
  BY DEF QueuesOK, SlotsDistinct, DistinctIn, Queued, InQueue, qvars
<1>3. ThreadsOK'
  BY DEF ThreadsOK, ThreadStates, NewThread
<1>4. KthreadsOK' /\ SelfSet' /\ OnStack'
  BY DEF KthreadsOK, SelfSet, OnStack, kvars, pvars
<1>5. \A j \in Kthread, u \in Thread : Holds(j, u)' <=> Holds(j, u)
  BY DEF Holds, Runs, pvars
<1>6. Places'
  BY <1>1, <1>2, <1>5 DEF Places, NewThread, ThreadsOK
<1> QED
  BY <1>2, <1>3, <1>4, <1>6

\* thread_throw moves a sleeping thread to one slot of one kthread.
LEMMA ThreadThrowIInv ==
  ASSUME IInv, NEW k \in Kthread, NEW t \in Thread, NEW kidx \in Targets,
         ThreadThrow(k, t, kidx)
  PROVE  IInv'
<1> USE DEF IInv, TypeOK, ThreadThrow
<1>1. ~InQueue(t) /\ state[t] = "SLEEPING"
  BY DEF Places
<1>2. /\ QueuesOK' /\ SlotsDistinct' /\ kthread_wanted' \in [Thread -> Targets]
      /\ \A u \in Thread : InQueue(u)' <=> InQueue(u) \/ u = t
  BY <1>1, ThrowEffect DEF ThreadsOK
<1>3. ThreadsOK'
  BY <1>2 DEF ThreadsOK, ThreadStates
<1>4. KthreadsOK' /\ SelfSet' /\ OnStack'
  BY DEF KthreadsOK, SelfSet, OnStack, kvars, pvars
<1>5. \A j \in Kthread, u \in Thread : Holds(j, u)' <=> Holds(j, u)
  BY DEF Holds, Runs, pvars
<1>6. Places'
  BY <1>1, <1>2, <1>5 DEF Places, ThreadsOK
<1> QED
  BY <1>2, <1>3, <1>4, <1>6

\* A kthread leaves its thread s: nobody holds s any more.
LEMMA Leaves ==
  ASSUME KthreadsOK, Places, NEW k \in Kthread, NEW s \in Thread, Runs(k), s = self[k],
         ~Runs(k)', \A j \in Kthread \ {k} : (Runs(j)' <=> Runs(j)) /\ self'[j] = self[j]
  PROVE  /\ \A j \in Kthread : ~Holds(j, s)'
         /\ \A j \in Kthread : \A u \in Thread \ {s} : Holds(j, u)' <=> Holds(j, u)
<1>1. \A j \in Kthread : Holds(j, s) => j = k
  BY DEF Places, Holds
<1> QED
  BY <1>1 DEF Holds

\* thread_park_and_unlock_np moves the running thread to a wait list.
LEMMA ThreadParkIInv ==
  ASSUME IInv, NEW k \in Kthread, ThreadPark(k)
  PROVE  IInv'
<1> USE DEF IInv, TypeOK, ThreadPark
<1> PICK s : s = self[k]
  OBVIOUS
<1>1. s \in Thread /\ Runs(k)
  BY DEF SelfSet, Running, Runs
<1>2. state[s] = "RUNNING"
  BY <1>1 DEF Places, Holds
<1>3. QueuesOK' /\ SlotsDistinct' /\ \A u \in Thread : InQueue(u)' <=> InQueue(u)
  BY DEF QueuesOK, SlotsDistinct, DistinctIn, Queued, InQueue, qvars
<1>4. ThreadsOK'
  BY <1>1 DEF ThreadsOK, ThreadStates
<1>5. KthreadsOK' /\ SelfSet' /\ OnStack'
  BY <1>1 DEF KthreadsOK, PCs, SelfSet, OnStack, kvars, Running
<1>6. /\ \A j \in Kthread : ~Holds(j, s)'
      /\ \A j \in Kthread : \A u \in Thread \ {s} : Holds(j, u)' <=> Holds(j, u)
  BY <1>1, Leaves DEF Runs, KthreadsOK
<1>7. Places'
  BY <1>1, <1>2, <1>3, <1>6 DEF Places, ThreadsOK
<1> QED
  BY <1>3, <1>4, <1>5, <1>7

\* softirq_run, from thread_yield, moves no thread.
LEMMA ThreadYieldIInv ==
  ASSUME IInv, NEW k \in Kthread, ThreadYield(k)
  PROVE  IInv'
<1> USE DEF IInv, TypeOK, ThreadYield
<1>1. QueuesOK' /\ SlotsDistinct' /\ \A u \in Thread : InQueue(u)' <=> InQueue(u)
  BY DEF QueuesOK, SlotsDistinct, DistinctIn, Queued, InQueue, qvars
<1>2. ThreadsOK'
  BY DEF ThreadsOK, tvars
<1>3. KthreadsOK' /\ SelfSet' /\ OnStack'
  BY DEF KthreadsOK, PCs, SelfSet, OnStack, Running
<1>4. \A j \in Kthread, u \in Thread : Holds(j, u)' <=> Holds(j, u)
  BY DEF Holds, Runs, KthreadsOK, Running
<1>5. Places'
  BY <1>1, <1>4 DEF Places, tvars
<1> QED
  BY <1>1, <1>2, <1>3, <1>5

\* thread_yield moves the running thread to one slot.
LEMMA YieldThrowIInv ==
  ASSUME IInv, NEW k \in Kthread, YieldThrow(k)
  PROVE  IInv'
<1> USE DEF IInv, TypeOK, YieldThrow
<1> PICK s, kidx : s = self[k] /\ kidx = kthread_wanted[s]
  OBVIOUS
<1>1. s \in Thread /\ Runs(k) /\ kidx \in Targets
  BY DEF SelfSet, Runs, ThreadsOK
<1>2. state[s] = "RUNNING" /\ ~InQueue(s)
  BY <1>1 DEF Places, Holds
<1>3. /\ QueuesOK' /\ SlotsDistinct' /\ kthread_wanted' \in [Thread -> Targets]
      /\ \A u \in Thread : InQueue(u)' <=> InQueue(u) \/ u = s
  BY <1>1, <1>2, ThrowEffect DEF ThreadsOK
<1>4. ThreadsOK'
  BY <1>1, <1>3 DEF ThreadsOK, ThreadStates
<1>5. KthreadsOK' /\ SelfSet' /\ OnStack'
  BY <1>1 DEF KthreadsOK, PCs, SelfSet, OnStack, kvars
<1>6. /\ \A j \in Kthread : ~Holds(j, s)'
      /\ \A j \in Kthread : \A u \in Thread \ {s} : Holds(j, u)' <=> Holds(j, u)
  BY <1>1, Leaves DEF Runs, KthreadsOK
<1>7. Places'
  BY <1>1, <1>2, <1>3, <1>6 DEF Places, ThreadsOK
<1> QED
  BY <1>3, <1>4, <1>5, <1>7

\* thread_swap queues the running thread and takes a sleeping one in its place.
LEMMA ThreadSwapIInv ==
  ASSUME IInv, NEW k \in Kthread, NEW t \in Thread, NEW kidx \in Targets,
         ThreadSwap(k, t, kidx)
  PROVE  IInv'
<1> USE DEF IInv, TypeOK, ThreadSwap
<1> PICK s : s = self[k]
  OBVIOUS
<1>1. s \in Thread /\ Runs(k)
  BY DEF SelfSet, Running, Runs
<1>2. state[s] = "RUNNING" /\ ~InQueue(s) /\ state[t] = "SLEEPING" /\ t # s
  BY <1>1 DEF Places, Holds
<1>3. /\ QueuesOK' /\ SlotsDistinct' /\ kthread_wanted' \in [Thread -> Targets]
      /\ \A u \in Thread : InQueue(u)' <=> InQueue(u) \/ u = s
  BY <1>1, <1>2, ThrowEffect DEF ThreadsOK
<1>4. ThreadsOK'
  BY <1>1, <1>3 DEF ThreadsOK, ThreadStates
<1>5. KthreadsOK' /\ SelfSet' /\ OnStack'
  BY DEF KthreadsOK, PCs, SelfSet, OnStack, kvars
<1>6. \A j \in Kthread : ~Holds(j, s)' /\ ~Holds(j, t) /\ (Holds(j, t)' <=> j = k)
  BY <1>1, <1>2 DEF Places, Holds, Runs, KthreadsOK
<1>7. \A j \in Kthread : \A u \in Thread \ {s, t} : Holds(j, u)' <=> Holds(j, u)
  BY <1>1 DEF Holds, Runs, KthreadsOK
<1>8. Places'
  BY <1>1, <1>2, <1>3, <1>6, <1>7 DEF Places, ThreadsOK
<1> QED
  BY <1>3, <1>4, <1>5, <1>8

\* thread_exit takes the running thread out of every place.
LEMMA ThreadExitIInv ==
  ASSUME IInv, NEW k \in Kthread, ThreadExit(k)
  PROVE  IInv'
<1> USE DEF IInv, TypeOK, ThreadExit
<1> PICK s : s = self[k]
  OBVIOUS
<1>1. s \in Thread /\ Runs(k)
  BY DEF SelfSet, Running, Runs
<1>2. state[s] = "RUNNING"
  BY <1>1 DEF Places, Holds
<1>3. QueuesOK' /\ SlotsDistinct' /\ \A u \in Thread : InQueue(u)' <=> InQueue(u)
  BY DEF QueuesOK, SlotsDistinct, DistinctIn, Queued, InQueue, qvars
<1>4. ThreadsOK'
  BY <1>1 DEF ThreadsOK, ThreadStates
<1>5. KthreadsOK' /\ SelfSet' /\ OnStack'
  BY DEF KthreadsOK, PCs, SelfSet, OnStack, kvars
<1>6. /\ \A j \in Kthread : ~Holds(j, s)'
      /\ \A j \in Kthread : \A u \in Thread \ {s} : Holds(j, u)' <=> Holds(j, u)
  BY <1>1, Leaves DEF Runs, KthreadsOK
<1>7. Places'
  BY <1>1, <1>2, <1>3, <1>6 DEF Places, ThreadsOK
<1> QED
  BY <1>3, <1>4, <1>5, <1>7

\* join_kthread moves the threads of the parked kthread, and drops none.
LEMMA JoinKthreadIInv ==
  ASSUME IInv, NEW k \in Kthread, NEW r \in Kthread, JoinKthread(k, r)
  PROVE  IInv'
<1> USE DEF IInv, TypeOK
<1> PICK ts : ts = rq[r] \o rq_overflow[r]
  OBVIOUS
<1>1. /\ rq' = [rq EXCEPT ![r] = << >>, ![k] = DrainQ(@, ts)]
      /\ rq_overflow' = [rq_overflow EXCEPT ![r] = << >>, ![k] = @ \o DrainOv(rq[k], ts)]
      /\ rrq' = rrq /\ r # k
  BY DEF JoinKthread
<1>2. QueuesOK' /\ SlotsDistinct' /\ \A u \in Thread : InQueue(u)' <=> InQueue(u)
  BY <1>1, JoinEffect
<1>3. ThreadsOK'
  BY DEF JoinKthread, ThreadsOK, tvars
<1>4. KthreadsOK' /\ SelfSet' /\ OnStack'
  <2>1. detached' \in [Kthread -> BOOLEAN] /\ softirq' \in [Kthread -> BOOLEAN]
    BY DEF JoinKthread, KthreadDetach, KthreadsOK
  <2> QED
    BY <2>1 DEF JoinKthread, KthreadsOK, SelfSet, OnStack, pvars
<1>5. \A j \in Kthread, u \in Thread : Holds(j, u)' <=> Holds(j, u)
  BY DEF JoinKthread, Holds, Runs, pvars
<1>6. Places'
  BY <1>2, <1>5 DEF JoinKthread, Places, tvars
<1> QED
  BY <1>2, <1>3, <1>4, <1>6

-----------------------------------------------------------------------------
(***************************************************************************)
(* Choosing the next thread.                                               *)
(***************************************************************************)

\* A kthread without a thread claims the queued thread t.
LEMMA ClaimIInv ==
  ASSUME IInv, NEW k \in Kthread, NEW t \in Thread, ~Runs(k), Claim(k, t), InQueue(t),
         QueuesOK', SlotsDistinct', \A u \in Thread : InQueue(u)' <=> InQueue(u) /\ u # t,
         UNCHANGED <<stack_busy, kthread_wanted, waiters, kvars, stack, tried>>
  PROVE  IInv'
<1> USE DEF IInv, TypeOK, Claim
<1>1. state[t] = "RUNNABLE" /\ \A j \in Kthread : ~Holds(j, t)
  BY DEF Places
<1>2. ThreadsOK'
  BY DEF ThreadsOK, ThreadStates
<1>3. KthreadsOK' /\ SelfSet' /\ OnStack'
  BY DEF KthreadsOK, PCs, SelfSet, OnStack, kvars
<1>4. \A j \in Kthread : Holds(j, t)' <=> j = k
  BY <1>1 DEF Holds, Runs, KthreadsOK
<1>5. \A j \in Kthread : \A u \in Thread \ {t} : Holds(j, u)' <=> Holds(j, u)
  BY DEF Holds, Runs, KthreadsOK
<1>6. Places'
  BY <1>1, <1>4, <1>5 DEF Places, ThreadsOK
<1> QED
  BY <1>2, <1>3, <1>6

\* The lock-free path of enter_schedule pops a targeted thread.
LEMMA EnterTargetedIInv ==
  ASSUME IInv, NEW k \in Kthread, EnterTargeted(k)
  PROVE  IInv'
<1> PICK t : t = Head(rrq[k])
  OBVIOUS
<1>1. /\ t \in Thread /\ InQueue(t) /\ QueuesOK' /\ SlotsDistinct'
      /\ \A u \in Thread : InQueue(u)' <=> InQueue(u) /\ u # t
  BY PopTargeted DEF IInv, TypeOK, EnterTargeted
<1> QED
  BY <1>1, ClaimIInv DEF EnterTargeted, Runs

\* The fast path of enter_schedule pops a thread, perhaps the one that yielded.
LEMMA EnterFastIInv ==
  ASSUME IInv, NEW k \in Kthread, EnterFast(k)
  PROVE  IInv'
<1> USE DEF IInv, TypeOK
<1> PICK t : t = Head(rq[k])
  OBVIOUS
<1>1. /\ t \in Thread /\ InQueue(t) /\ QueuesOK' /\ SlotsDistinct'
      /\ \A u \in Thread : InQueue(u)' <=> InQueue(u) /\ u # t
  BY PopRing DEF EnterFast
<1>2. ~Runs(k)
  BY DEF EnterFast, Runs
<1>3. CASE t = stack[k]
  <2>1. self[k] = t
    BY <1>3 DEF OnStack, EnterFast
  <2>2. state[t] = "RUNNABLE" /\ \A j \in Kthread : ~Holds(j, t)
    BY <1>1 DEF Places
  <2>3. /\ state' = [state EXCEPT ![t] = "RUNNING"]
        /\ stack_busy' = [stack_busy EXCEPT ![t] = FALSE]
        /\ pc' = [pc EXCEPT ![k] = "run"] /\ self' = self
        /\ UNCHANGED <<kthread_wanted, waiters, kvars, stack, tried>>
    BY <1>3 DEF EnterFast
  <2>4. ThreadsOK'
    BY <1>1, <2>3 DEF ThreadsOK, ThreadStates
  <2>5. KthreadsOK' /\ SelfSet' /\ OnStack'
    BY <1>1, <1>3, <2>1, <2>3 DEF KthreadsOK, PCs, SelfSet, OnStack, kvars
  <2>6. \A j \in Kthread : Holds(j, t)' <=> j = k
    BY <2>1, <2>2, <2>3 DEF Holds, Runs, KthreadsOK
  <2>7. \A j \in Kthread : \A u \in Thread \ {t} : Holds(j, u)' <=> Holds(j, u)
    BY <1>2, <2>1, <2>3 DEF Holds, Runs, KthreadsOK
  <2>8. Places'
    BY <1>1, <2>2, <2>3, <2>6, <2>7 DEF Places, ThreadsOK
  <2> QED
    BY <1>1, <2>4, <2>5, <2>8
<1>4. CASE t # stack[k]
  <2>1. Claim(k, t) /\ UNCHANGED <<stack_busy, kthread_wanted, waiters, kvars, stack, tried>>
    BY <1>4 DEF EnterFast
  <2> QED
    BY <1>1, <1>2, <2>1, ClaimIInv
<1> QED
  BY <1>3, <1>4

\* Entering schedule() without a thread, whatever else k forgets.
LEMMA ScheduleEntryIInv ==
  ASSUME IInv, NEW k \in Kthread, ~Runs(k), ScheduleEntry(k),
         UNCHANGED <<state, kthread_wanted, waiters, qvars>>,
         parked' \in [Kthread -> BOOLEAN], detached' \in [Kthread -> BOOLEAN],
         softirq' \in [Kthread -> BOOLEAN], preempt' \in [Kthread -> BOOLEAN]
  PROVE  IInv'
<1> USE DEF IInv, TypeOK, ScheduleEntry
<1>1. QueuesOK' /\ SlotsDistinct' /\ \A u \in Thread : InQueue(u)' <=> InQueue(u)
  BY DEF QueuesOK, SlotsDistinct, DistinctIn, Queued, InQueue, qvars
<1>2. ThreadsOK'
  BY DEF ThreadsOK, KthreadsOK
<1>3. KthreadsOK' /\ SelfSet' /\ OnStack'
  BY DEF KthreadsOK, PCs, SelfSet, OnStack
<1>4. \A j \in Kthread, u \in Thread : Holds(j, u)' <=> Holds(j, u)
  BY DEF Holds, Runs, KthreadsOK
<1>5. Places'
  BY <1>1, <1>4 DEF Places
<1> QED
  BY <1>1, <1>2, <1>3, <1>5

\* The slow path of enter_schedule only forgets __self.
LEMMA EnterSlowIInv ==
  ASSUME IInv, NEW k \in Kthread, EnterSlow(k)
  PROVE  IInv'
  BY ScheduleEntryIInv DEF EnterSlow, Runs, kvars, IInv, TypeOK, KthreadsOK

\* schedule() pops a targeted thread and drains the overflow list.
LEMMA SchedTargetedIInv ==
  ASSUME IInv, NEW k \in Kthread, SchedTargeted(k)
  PROVE  IInv'
<1> PICK t : t = Head(rrq[k])
  OBVIOUS
<1>1. /\ t \in Thread /\ InQueue(t) /\ QueuesOK' /\ SlotsDistinct'
      /\ \A u \in Thread : InQueue(u)' <=> InQueue(u) /\ u # t
  BY DrainPopTargeted DEF IInv, TypeOK, SchedTargeted
<1> QED
  BY <1>1, ClaimIInv DEF SchedTargeted, Runs

\* schedule() drains, pops the oldest thread of the ring and drains again.
LEMMA SchedLocalIInv ==
  ASSUME IInv, NEW k \in Kthread, SchedLocal(k)
  PROVE  IInv'
<1> PICK t : t = Head(DrainQ(rq[k], rq_overflow[k]))
  OBVIOUS
<1>1. /\ t \in Thread /\ InQueue(t) /\ QueuesOK' /\ SlotsDistinct'
      /\ \A u \in Thread : InQueue(u)' <=> InQueue(u) /\ u # t
  BY PopLocal DEF IInv, TypeOK
<1> QED
  BY <1>1, ClaimIInv DEF SchedLocal, Runs

\* A kthread without a thread creates one for softirq work and claims it.
LEMMA SoftirqThreadIInv ==
  ASSUME IInv, NEW k \in Kthread, NEW r \in Kthread, NEW t \in Thread,
         ~Runs(k), SoftirqThread(k, r, t),
         QueuesOK', SlotsDistinct', \A u \in Thread : InQueue(u)' <=> InQueue(u)
  PROVE  IInv'
<1> USE DEF IInv, TypeOK, SoftirqThread, NewThread
<1>1. state[t] = "FREE" /\ \A j \in Kthread : ~Holds(j, t)
  BY DEF Places
<1>2. ThreadsOK'
  BY DEF ThreadsOK, ThreadStates
<1>3. KthreadsOK' /\ SelfSet' /\ OnStack'
  BY DEF KthreadsOK, PCs, SelfSet, OnStack
<1>4. \A j \in Kthread : Holds(j, t)' <=> j = k
  BY <1>1 DEF Holds, Runs, KthreadsOK
<1>5. \A j \in Kthread : \A u \in Thread \ {t} : Holds(j, u)' <=> Holds(j, u)
  BY DEF Holds, Runs, KthreadsOK
<1>6. Places'
  BY <1>1, <1>4, <1>5 DEF Places, ThreadsOK
<1> QED
  BY <1>2, <1>3, <1>6

\* schedule() jumps into a new softirq thread.
LEMMA SchedSoftirqIInv ==
  ASSUME IInv, NEW k \in Kthread, NEW t \in Thread, SchedSoftirq(k, t)
  PROVE  IInv'
<1>1. QueuesOK' /\ SlotsDistinct' /\ \A u \in Thread : InQueue(u)' <=> InQueue(u)
  BY DrainOnly DEF IInv, TypeOK, SchedSoftirq
<1> QED
  BY <1>1, SoftirqThreadIInv DEF SchedSoftirq, Runs

\* steal_work moves the older part of a ring and leaves the rest.
LEMMA StealQueueIInv ==
  ASSUME IInv, NEW l \in Kthread, NEW r \in Kthread, StealQueue(l, r)
  PROVE  IInv'
<1> PICK n \in 1 .. (Len(rq[r]) + 1) \div 2 :
       rq' = [rq EXCEPT ![l] = SubSeq(rq[r], 2, n), ![r] = SubSeq(@, n + 1, Len(@))]
  BY DEF StealQueue
<1> PICK t : t = Head(rq[r])
  OBVIOUS
<1>1. /\ t \in Thread /\ InQueue(t) /\ QueuesOK' /\ SlotsDistinct'
      /\ \A u \in Thread : InQueue(u)' <=> InQueue(u) /\ u # t
  <2>1. /\ l # r /\ rrq[l] = << >> /\ rq[l] = << >> /\ rq_overflow[l] = << >> /\ rq[r] # << >>
        /\ UNCHANGED <<rrq, rq_overflow>>
    BY DEF StealQueue, Stealing
  <2> QED
    BY <2>1, StealEffect DEF IInv, TypeOK
<1> QED
  BY <1>1, ClaimIInv DEF StealQueue, Stealing, Runs

\* steal_work takes the oldest thread of an overflow list.
LEMMA StealOverflowIInv ==
  ASSUME IInv, NEW l \in Kthread, NEW r \in Kthread, StealOverflow(l, r)
  PROVE  IInv'
<1> PICK t : t = Head(rq_overflow[r])
  OBVIOUS
<1>1. /\ t \in Thread /\ InQueue(t) /\ QueuesOK' /\ SlotsDistinct'
      /\ \A u \in Thread : InQueue(u)' <=> InQueue(u) /\ u # t
  BY PopOverflow DEF IInv, TypeOK, StealOverflow
<1> QED
  BY <1>1, ClaimIInv DEF StealOverflow, Stealing, Runs

\* steal_work jumps into a new softirq thread of another kthread.
LEMMA StealSoftirqIInv ==
  ASSUME IInv, NEW l \in Kthread, NEW r \in Kthread, NEW t \in Thread, StealSoftirq(l, r, t)
  PROVE  IInv'
<1>1. QueuesOK' /\ SlotsDistinct' /\ \A u \in Thread : InQueue(u)' <=> InQueue(u)
  BY DEF IInv, TypeOK, StealSoftirq, QueuesOK, SlotsDistinct, DistinctIn, Queued, InQueue, qvars
<1> QED
  BY <1>1, SoftirqThreadIInv DEF StealSoftirq, Stealing, Runs

\* A step that changes no thread, no queue, and who has which thread.
LEMMA SamePlaces ==
  ASSUME IInv, UNCHANGED <<state, kthread_wanted, waiters, qvars>>,
         stack_busy' \in [Thread -> BOOLEAN], KthreadsOK', SelfSet', OnStack',
         \A j \in Kthread, u \in Thread : Holds(j, u)' <=> Holds(j, u)
  PROVE  IInv'
<1> USE DEF IInv, TypeOK
<1>1. QueuesOK' /\ SlotsDistinct' /\ \A u \in Thread : InQueue(u)' <=> InQueue(u)
  BY DEF QueuesOK, SlotsDistinct, DistinctIn, Queued, InQueue, qvars
<1>2. ThreadsOK'
  BY DEF ThreadsOK
<1>3. Places'
  BY <1>1 DEF Places
<1> QED
  BY <1>1, <1>2, <1>3

\* steal_work that finds nothing, detaching or not, moves no thread.
LEMMA StealNothingIInv ==
  ASSUME IInv, NEW l \in Kthread, NEW r \in Kthread, StealNothing(l, r)
  PROVE  IInv'
<1> USE DEF IInv, TypeOK, StealNothing
<1>1. detached' \in [Kthread -> BOOLEAN] /\ softirq' \in [Kthread -> BOOLEAN]
  BY DEF KthreadDetach, KthreadsOK
<1>2. KthreadsOK' /\ SelfSet' /\ OnStack'
  BY <1>1 DEF KthreadsOK, SelfSet, OnStack
<1>3. \A j \in Kthread, u \in Thread : Holds(j, u)' <=> Holds(j, u)
  BY DEF Holds, Runs
<1>4. stack_busy' \in [Thread -> BOOLEAN] /\ UNCHANGED <<state, kthread_wanted, waiters, qvars>>
  BY DEF ThreadsOK, tvars
<1> QED
  BY <1>2, <1>3, <1>4, SamePlaces

\* The switch of stacks moves no thread.
LEMMA JumpIInv ==
  ASSUME IInv, NEW k \in Kthread, Jump(k)
  PROVE  IInv'
<1> USE DEF IInv, TypeOK, Jump
<1>1. stack_busy' \in [Thread -> BOOLEAN]
  BY DEF ThreadsOK, KthreadsOK
<1>2. KthreadsOK' /\ SelfSet' /\ OnStack'
  BY DEF KthreadsOK, PCs, SelfSet, OnStack, kvars
<1>3. \A j \in Kthread, u \in Thread : Holds(j, u)' <=> Holds(j, u)
  BY DEF Holds, Runs, KthreadsOK
<1> QED
  BY <1>1, <1>2, <1>3, SamePlaces

\* Parking an idle kthread moves no thread.
LEMMA SchedParkIInv ==
  ASSUME IInv, NEW k \in Kthread, SchedPark(k)
  PROVE  IInv'
<1> USE DEF IInv, TypeOK, SchedPark, KthreadPark
<1>1. stack_busy' \in [Thread -> BOOLEAN] /\ UNCHANGED <<state, kthread_wanted, waiters, qvars>>
  BY DEF ThreadsOK, tvars
<1>2. KthreadsOK' /\ SelfSet' /\ OnStack'
  BY DEF KthreadsOK, PCs, SelfSet, OnStack
<1>3. \A j \in Kthread, u \in Thread : Holds(j, u)' <=> Holds(j, u)
  BY DEF Holds, Runs, KthreadsOK
<1> QED
  BY <1>1, <1>2, <1>3, SamePlaces

\* thread_finish_yield_kthread moves the preempted thread to one slot.
LEMMA YieldKthreadIInv ==
  ASSUME IInv, NEW k \in Kthread, YieldKthread(k)
  PROVE  IInv'
<1> USE DEF IInv, TypeOK, YieldKthread
<1> PICK s : s = self[k]
  OBVIOUS
<1>1. s \in Thread /\ Runs(k)
  BY DEF SelfSet, Runs
<1>2. state[s] = "RUNNING" /\ ~InQueue(s)
  BY <1>1 DEF Places, Holds
<1>3. /\ QueuesOK' /\ SlotsDistinct'
      /\ \A u \in Thread : InQueue(u)' <=> InQueue(u) \/ u = s
  BY <1>1, <1>2, PushEffect
<1>4. ThreadsOK'
  BY <1>1 DEF ThreadsOK, ThreadStates
<1>5. KthreadsOK' /\ SelfSet' /\ OnStack'
  BY <1>1 DEF KthreadsOK, PCs, SelfSet, OnStack, kvars
<1>6. /\ \A j \in Kthread : ~Holds(j, s)'
      /\ \A j \in Kthread : \A u \in Thread \ {s} : Holds(j, u)' <=> Holds(j, u)
  BY <1>1, Leaves DEF Runs, KthreadsOK
<1>7. Places'
  BY <1>1, <1>2, <1>3, <1>6 DEF Places, ThreadsOK
<1> QED
  BY <1>3, <1>4, <1>5, <1>7

\* The park of a preempted kthread, taken or refused, moves no thread.
LEMMA YieldKthreadParkIInv ==
  ASSUME IInv, NEW k \in Kthread, YieldKthreadPark(k)
  PROVE  IInv'
<1> USE DEF YieldKthreadPark
<1>1. CASE KthreadPark(k) /\ UNCHANGED <<stack_busy, self, stack, tried>>
  <2> USE DEF IInv, TypeOK, KthreadPark
  <2>1. stack_busy' \in [Thread -> BOOLEAN]
    BY <1>1 DEF ThreadsOK
  <2>2. KthreadsOK' /\ SelfSet' /\ OnStack'
    BY <1>1 DEF KthreadsOK, PCs, SelfSet, OnStack
  <2>3. \A j \in Kthread, u \in Thread : Holds(j, u)' <=> Holds(j, u)
    BY <1>1 DEF Holds, Runs, KthreadsOK
  <2> QED
    BY <2>1, <2>2, <2>3, SamePlaces
<1>2. CASE preempt' = [preempt EXCEPT ![k] = FALSE] /\ ScheduleEntry(k) /\ UNCHANGED parked
  BY <1>2, ScheduleEntryIInv DEF Runs, IInv, TypeOK, KthreadsOK
<1> QED
  BY <1>1, <1>2

\* A kthread that the iokernel wakes enters schedule() and moves no thread.
LEMMA UnparkIInv ==
  ASSUME IInv, NEW k \in Kthread, Unpark(k)
  PROVE  IInv'
  BY ScheduleEntryIInv DEF Unpark, Runs, IInv, TypeOK, KthreadsOK

\* Softirq work and signals move no thread.
LEMMA ArrivalIInv ==
  ASSUME IInv, NEW k \in Kthread, SoftirqArrives(k) \/ Sigusr1(k)
  PROVE  IInv'
<1> USE DEF IInv, TypeOK, SoftirqArrives, Sigusr1
<1>1. stack_busy' \in [Thread -> BOOLEAN] /\ UNCHANGED <<state, kthread_wanted, waiters, qvars>>
  BY DEF ThreadsOK, tvars
<1>2. KthreadsOK' /\ SelfSet' /\ OnStack'
  BY DEF KthreadsOK, SelfSet, OnStack, pvars
<1>3. \A j \in Kthread, u \in Thread : Holds(j, u)' <=> Holds(j, u)
  BY DEF Holds, Runs, pvars
<1> QED
  BY <1>1, <1>2, <1>3, SamePlaces

-----------------------------------------------------------------------------
\* Every step of the scheduler keeps the invariant.
LEMMA NextIInv == IInv /\ [Next]_vars => IInv'
<1> SUFFICES ASSUME IInv, [Next]_vars PROVE IInv'
  OBVIOUS
<1>1. ASSUME NEW k \in Kthread, Kernel(k) PROVE IInv'
  BY <1>1, EnterTargetedIInv, EnterFastIInv, EnterSlowIInv, YieldThrowIInv,
     SchedTargetedIInv, SchedLocalIInv, SchedSoftirqIInv, StealQueueIInv,
     StealOverflowIInv, StealNothingIInv, StealSoftirqIInv, JumpIInv, SchedParkIInv,
     YieldKthreadIInv, YieldKthreadParkIInv DEF Kernel
<1>2. ASSUME NEW k \in Kthread, User(k) PROVE IInv'
  BY <1>2, ThreadSpawnIInv, ThreadCreateIInv, ThreadThrowIInv, ThreadSwapIInv,
     ThreadParkIInv, ThreadYieldIInv, ThreadExitIInv, JoinKthreadIInv DEF User
<1>3. ASSUME NEW k \in Kthread, Environment(k) PROVE IInv'
  BY <1>3, UnparkIInv, ArrivalIInv DEF Environment
<1>4. CASE UNCHANGED vars
  <2> USE DEF IInv, TypeOK, vars, tvars, kvars, pvars
  <2>1. KthreadsOK' /\ SelfSet' /\ OnStack' /\ stack_busy' \in [Thread -> BOOLEAN]
    BY <1>4 DEF KthreadsOK, SelfSet, OnStack, ThreadsOK
  <2>2. \A j \in Kthread, u \in Thread : Holds(j, u)' <=> Holds(j, u)
    BY <1>4 DEF Holds, Runs
  <2> QED
    BY <1>4, <2>1, <2>2, SamePlaces
<1> QED
  BY <1>1, <1>2, <1>3, <1>4 DEF Next

\* IInv holds in every state of the scheduler.
LEMMA SpecIInv == Spec => []IInv
  BY InitIInv, NextIInv, PTL DEF Spec

\* The types of all variables, and that the rings of every kthread stay within
\* RUNTIME_RQ_SIZE and RUNTIME_RRQ_SIZE, for any number of kthreads and threads
\* and any sizes, with and without preemption.
THEOREM TypesAndRingBounds == Spec => []TypeOK
<1>1. IInv => TypeOK
  BY DEF IInv
<1> QED
  BY <1>1, SpecIInv, PTL

\* No thread is lost, queued twice or run twice by schedule, steal_work,
\* join_kthread, thread_ready, thread_throw, thread_swap and the yields, for any
\* number of kthreads and threads and any queue sizes, with and without preemption.
THEOREM EveryThreadInOnePlace == Spec => []OnePlace
<1>1. IInv => OnePlace
  BY PlacesOnePlace DEF IInv
<1> QED
  BY <1>1, SpecIInv, PTL
=============================================================================
