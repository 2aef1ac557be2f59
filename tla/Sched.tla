------------------------------- MODULE Sched -------------------------------
(***************************************************************************)
(* The user-level thread scheduler, runtime/sched.c, with the parts of     *)
(* runtime/kthread.c and runtime/softirq.c it calls.                       *)
(*                                                                         *)
(* A kthread is a kernel thread that multiplexes uthreads.  It owns three  *)
(* queues: the runqueue rq (a bounded ring that other kthreads steal       *)
(* from), the receive runqueue rrq (a bounded ring of threads other        *)
(* kthreads targeted at it) and the unbounded list rq_overflow.  A uthread *)
(* that gives up its kthread is published (to a wait list or a queue)      *)
(* while the kthread still executes on its stack; stack_busy makes         *)
(* whoever picks it up spin until that stack is released.                  *)
(*                                                                         *)
(* Granularity.  kthread.lock is held by its owner from the entry of       *)
(* schedule() until the switch or the park, so it is the program counter   *)
(* that says whether it is held (see Locked).  Another kthread holds it    *)
(* only inside steal_work, thread_throw and join_kthread, each one step    *)
(* here; that a third kthread may make their spin_try_lock fail is why     *)
(* Throw and StealNothing may fall back at any time.  Everything between   *)
(* publishing a thread and releasing its stack is a separate step.  The    *)
(* model ends where the main thread exits and the process with it.         *)
(***************************************************************************)
EXTENDS Naturals, Sequences, FiniteSets, Functions

CONSTANTS
  Kthread,     \* the kernel threads, allks[0 .. maxks-1]
  Thread,      \* the thread_t structures of the thread slab
  main,        \* the thread of thread_spawn_main
  NULL,        \* no thread; as a kthread index, -1
  RqSize,      \* RUNTIME_RQ_SIZE
  RrqSize,     \* RUNTIME_RRQ_SIZE
  spinks,      \* kthreads that keep spinning rather than park
  Targets,     \* the kthread indices the program asks for
  Softirqs,    \* the kthreads that get RX commands and have timers
  Watchdog,    \* !disable_watchdog
  Preemption   \* whether the iokernel sends SIGUSR1

ASSUME SchedAssumption ==
  /\ RqSize \in Nat \ {0}
  /\ RrqSize \in Nat \ {0}
  /\ spinks \in Nat
  /\ Watchdog \in BOOLEAN
  /\ Preemption \in BOOLEAN
  /\ Targets \subseteq Kthread \cup {NULL}
  /\ Softirqs \subseteq Kthread
  /\ NULL \notin Thread
  /\ NULL \notin Kthread
  /\ main \in Thread
  /\ Kthread # {}
  /\ IsFiniteSet(Kthread)

VARIABLES
  state,           \* thread_t.state; "FREE" while the slab owns it
  stack_busy,      \* thread_t.stack_busy
  kthread_wanted,  \* thread_t.kthread_wanted
  waiters,         \* sleeping threads: on a wait list, a timer, or just created
  rq,              \* kthread.rq
  rrq,             \* kthread.rrq
  rq_overflow,     \* kthread.rq_overflow
  parked,          \* kthread.parked
  detached,        \* kthread.detached
  softirq,         \* rxq non-empty or timer_needed()
  preempt,         \* preempt_needed()
  pc,              \* where the kthread is
  self,            \* __self
  stack,           \* the uthread stack in use, NULL for the runtime stack
  tried            \* kthreads steal_work failed on since schedule() began

tvars == <<state, stack_busy, kthread_wanted, waiters>>
qvars == <<rq, rrq, rq_overflow>>
kvars == <<parked, detached, softirq, preempt>>
pvars == <<pc, self, stack, tried>>
vars == <<tvars, qvars, kvars, pvars>>

ThreadStates == {"FREE", "SLEEPING", "RUNNABLE", "RUNNING"}

(***************************************************************************)
(* "run": on the stack of self.  "yield": in thread_yield, after           *)
(* softirq_run.  "enter": in enter_schedule, still on the stack of self.   *)
(* "yieldk": in thread_finish_yield_kthread, self already in the runqueue. *)
(* "sched": in schedule().  "jmp": in jmp_thread or jmp_thread_direct,     *)
(* spinning on stack_busy of self.  "blocked": reading park_efd.           *)
(***************************************************************************)
PCs == {"run", "yield", "enter", "yieldk", "sched", "jmp", "blocked"}

\* kthread k holds its own kthread.lock.
Locked(k) == pc[k] = "sched"

(***************************************************************************)
(* The queue operations.                                                   *)
(***************************************************************************)

\* Mutant: drain_overflow and thread_ready do not look at the ring's room.
DrainedUnbounded(q, ov) == Len(ov)

\* The number of overflow threads drain_overflow moves behind q.
Drained(q, ov) ==
  IF RqSize - Len(q) < Len(ov) THEN RqSize - Len(q) ELSE Len(ov)

\* drain_overflow: the runqueue and the overflow list after it.
DrainQ(q, ov) == q \o SubSeq(ov, 1, Drained(q, ov))
DrainOv(q, ov) == SubSeq(ov, Drained(q, ov) + 1, Len(ov))

\* thread_ready by kthread k of the threads ts, one after the other: each
\* goes to the ring while there is room and to the overflow list after that.
PushAll(k, ts) ==
  /\ rq' = [rq EXCEPT ![k] = DrainQ(@, ts)]
  /\ rq_overflow' = [rq_overflow EXCEPT ![k] = @ \o DrainOv(rq[k], ts)]

\* thread_ready, the queueing part.
Push(k, t) == PushAll(k, <<t>>) /\ UNCHANGED rrq

\* Mutant: a parked or detached kthread gets the thread, too.
PushRemoteAnyone(r, t) ==
  /\ ~Locked(r)
  /\ IF Len(rrq[r]) < RrqSize
       THEN /\ rrq' = [rrq EXCEPT ![r] = Append(@, t)]
            /\ UNCHANGED <<rq, rq_overflow>>
       ELSE /\ rq_overflow' = [rq_overflow EXCEPT ![r] = Append(@, t)]
            /\ UNCHANGED <<rq, rrq>>

\* thread_throw, the queueing part: a running kthread r gets t in its rrq, or
\* in its overflow list when the rrq is full.
PushRemote(r, t) ==
  /\ ~Locked(r) /\ ~detached[r] /\ ~parked[r]
  /\ IF Len(rrq[r]) < RrqSize
       THEN /\ rrq' = [rrq EXCEPT ![r] = Append(@, t)]
            /\ UNCHANGED <<rq, rq_overflow>>
       ELSE /\ rq_overflow' = [rq_overflow EXCEPT ![r] = Append(@, t)]
            /\ UNCHANGED <<rq, rrq>>

(***************************************************************************)
(* thread_throw by kthread k.  The local queue is the fallback whenever    *)
(* the lock of the wanted kthread cannot be taken, which a thief may cause *)
(* at any time.                                                            *)
(***************************************************************************)
Throw(k, t, kidx) ==
  \/ /\ kidx = NULL
     /\ Push(k, t)
     /\ UNCHANGED kthread_wanted
  \/ /\ kidx # NULL
     /\ kthread_wanted' = [kthread_wanted EXCEPT ![t] = kidx]
     /\ Push(k, t) \/ (kidx # k /\ PushRemote(kidx, t))

\* __thread_create and its callers: every field is initialised but
\* kthread_wanted, which keeps what the slab memory held.
NewThread(t, st) ==
  /\ state[t] = "FREE"
  /\ state' = [state EXCEPT ![t] = st]
  /\ stack_busy' = [stack_busy EXCEPT ![t] = FALSE]
  /\ UNCHANGED kthread_wanted

-----------------------------------------------------------------------------
(***************************************************************************)
(* The calls of a running uthread.  With a preemption pending, leaving the *)
(* preempt-disabled section yields the kthread before anything else.       *)
(***************************************************************************)
Running(k) == pc[k] = "run" /\ ~preempt[k]

\* thread_spawn
ThreadSpawn(k, t) ==
  /\ Running(k)
  /\ NewThread(t, "RUNNABLE")
  /\ Push(k, t)
  /\ UNCHANGED <<waiters, kvars, pvars>>

\* thread_create: the caller holds the sleeping thread, to throw it or to swap
\* with it later.
ThreadCreate(k, t) ==
  /\ Running(k)
  /\ NewThread(t, "SLEEPING")
  /\ waiters' = waiters \cup {t}
  /\ UNCHANGED <<qvars, kvars, pvars>>

\* A waker pops t off a wait list and calls thread_throw (thread_ready when
\* kidx is NULL).
ThreadThrow(k, t, kidx) ==
  /\ Running(k) \/ pc[k] = "yield"
  /\ t \in waiters
  /\ waiters' = waiters \ {t}
  /\ state' = [state EXCEPT ![t] = "RUNNABLE"]
  /\ Throw(k, t, kidx)
  /\ UNCHANGED <<stack_busy, kvars, pvars>>

\* thread_park_and_unlock_np, up to enter_schedule: the thread is on a wait
\* list, any waker can see it.
ThreadPark(k) ==
  /\ Running(k)
  /\ waiters' = waiters \cup {self[k]}
  /\ state' = [state EXCEPT ![self[k]] = "SLEEPING"]
  /\ stack_busy' = [stack_busy EXCEPT ![self[k]] = TRUE]
  /\ pc' = [pc EXCEPT ![k] = "enter"]
  /\ UNCHANGED <<kthread_wanted, qvars, kvars, self, stack, tried>>

\* thread_yield, softirq_run: takes the pending softirq work, whose handlers
\* (ThreadThrow by a timer, JoinKthread) run in this thread.
ThreadYield(k) ==
  /\ Running(k)
  /\ softirq' = [softirq EXCEPT ![k] = FALSE]
  /\ pc' = [pc EXCEPT ![k] = "yield"]
  /\ UNCHANGED <<tvars, qvars, parked, detached, preempt, self, stack, tried>>

\* thread_yield, the rest up to enter_schedule.
YieldThrow(k) ==
  /\ pc[k] = "yield"
  /\ state' = [state EXCEPT ![self[k]] = "RUNNABLE"]
  /\ stack_busy' = [stack_busy EXCEPT ![self[k]] = TRUE]
  /\ Throw(k, self[k], kthread_wanted[self[k]])
  /\ pc' = [pc EXCEPT ![k] = "enter"]
  /\ UNCHANGED <<waiters, kvars, self, stack, tried>>

\* thread_swap of the running thread with the sleeping thread t.
ThreadSwap(k, t, kidx) ==
  /\ Running(k)
  /\ t \in waiters
  /\ waiters' = waiters \ {t}
  /\ state' = [state EXCEPT ![self[k]] = "RUNNABLE", ![t] = "RUNNING"]
  /\ stack_busy' = [stack_busy EXCEPT ![self[k]] = TRUE]
  /\ Throw(k, self[k], kidx)
  /\ self' = [self EXCEPT ![k] = t]
  /\ pc' = [pc EXCEPT ![k] = "jmp"]
  /\ UNCHANGED <<kvars, stack, tried>>

\* thread_exit, thread_finish_exit: the stack and the thread_t go back to
\* their allocators from the runtime stack.
ThreadExit(k) ==
  /\ Running(k)
  /\ self[k] # main
  /\ state' = [state EXCEPT ![self[k]] = "FREE"]
  /\ self' = [self EXCEPT ![k] = NULL]
  /\ stack' = [stack EXCEPT ![k] = NULL]
  /\ pc' = [pc EXCEPT ![k] = "sched"]
  /\ tried' = [tried EXCEPT ![k] = {}]
  /\ UNCHANGED <<stack_busy, kthread_wanted, waiters, qvars, kvars>>

(***************************************************************************)
(* kthread_detach(r): refused while the iokernel has not consumed the park *)
(* command or an RX command is queued; merges the timers of r into those   *)
(* of the caller k.                                                        *)
(***************************************************************************)
KthreadDetach(k, r) ==
  /\ detached' = [detached EXCEPT ![r] = TRUE]
  /\ softirq' = [softirq EXCEPT ![k] = @ \/ softirq[r], ![r] = FALSE]

\* join_kthread(r), called by a softirq handler: the runnable threads of the
\* parked kthread r are re-readied here.
JoinKthread(k, r) ==
  /\ Running(k) \/ pc[k] = "yield"
  /\ r # k /\ ~Locked(r) /\ ~detached[r] /\ parked[r]
  /\ LET ts == rq[r] \o rq_overflow[r] IN
       /\ rq' = [rq EXCEPT ![r] = << >>, ![k] = DrainQ(@, ts)]
       /\ rq_overflow' = [rq_overflow EXCEPT ![r] = << >>,
                                             ![k] = @ \o DrainOv(rq[k], ts)]
  /\ KthreadDetach(k, r) \/ UNCHANGED <<detached, softirq>>
  /\ UNCHANGED <<tvars, rrq, parked, preempt, pvars>>

-----------------------------------------------------------------------------
(***************************************************************************)
(* Choosing the next thread.                                               *)
(***************************************************************************)

\* jmp_thread and jmp_thread_direct up to the spin on stack_busy.
Claim(k, t) ==
  /\ state' = [state EXCEPT ![t] = "RUNNING"]
  /\ self' = [self EXCEPT ![k] = t]
  /\ pc' = [pc EXCEPT ![k] = "jmp"]

\* Mutant: a targeted thread is entered although its stack is still busy.
EnterTargetedBusy(k) ==
  /\ pc[k] = "enter"
  /\ rrq[k] # << >>
  /\ Claim(k, Head(rrq[k]))
  /\ rrq' = [rrq EXCEPT ![k] = Tail(@)]
  /\ UNCHANGED <<stack_busy, kthread_wanted, waiters, rq, rq_overflow, kvars,
                 stack, tried>>

\* enter_schedule, lock-free path: a targeted thread whose stack is released.
EnterTargeted(k) ==
  /\ pc[k] = "enter"
  /\ rrq[k] # << >>
  /\ ~stack_busy[Head(rrq[k])]
  /\ Claim(k, Head(rrq[k]))
  /\ rrq' = [rrq EXCEPT ![k] = Tail(@)]
  /\ UNCHANGED <<stack_busy, kthread_wanted, waiters, rq, rq_overflow, kvars,
                 stack, tried>>

\* Mutant: switching to the same thread leaves its stack marked busy.
EnterFastStaysBusy(k) ==
  /\ pc[k] = "enter"
  /\ rrq[k] = << >> /\ rq[k] # << >>
  /\ rq' = [rq EXCEPT ![k] = Tail(@)]
  /\ LET t == Head(rq[k]) IN
       IF t = stack[k]
         THEN /\ state' = [state EXCEPT ![t] = "RUNNING"]
              /\ pc' = [pc EXCEPT ![k] = "run"]
              /\ UNCHANGED self
         ELSE Claim(k, t)
  /\ UNCHANGED <<stack_busy, kthread_wanted, waiters, rrq, rq_overflow, kvars,
                 stack, tried>>

\* enter_schedule, fast path: the next thread of the runqueue, which may be
\* the one that just yielded.
EnterFast(k) ==
  /\ pc[k] = "enter"
  /\ rrq[k] = << >> /\ rq[k] # << >>
  /\ rq' = [rq EXCEPT ![k] = Tail(@)]
  /\ LET t == Head(rq[k]) IN
       IF t = stack[k]
         THEN /\ state' = [state EXCEPT ![t] = "RUNNING"]
              /\ stack_busy' = [stack_busy EXCEPT ![t] = FALSE]
              /\ pc' = [pc EXCEPT ![k] = "run"]
              /\ UNCHANGED self
         ELSE Claim(k, t) /\ UNCHANGED stack_busy
  /\ UNCHANGED <<kthread_wanted, waiters, rrq, rq_overflow, kvars, stack, tried>>

\* Mutant: schedule() forgets __self without releasing its stack.
ScheduleEntryKeepsBusy(k) ==
  /\ self' = [self EXCEPT ![k] = NULL]
  /\ stack' = [stack EXCEPT ![k] = NULL]
  /\ pc' = [pc EXCEPT ![k] = "sched"]
  /\ tried' = [tried EXCEPT ![k] = {}]
  /\ UNCHANGED stack_busy

\* The entry of schedule(): on the runtime stack, with kthread.lock held, the
\* stack of the last uthread is released.
ScheduleEntry(k) ==
  /\ stack_busy' = IF self[k] = NULL THEN stack_busy
                   ELSE [stack_busy EXCEPT ![self[k]] = FALSE]
  /\ self' = [self EXCEPT ![k] = NULL]
  /\ stack' = [stack EXCEPT ![k] = NULL]
  /\ pc' = [pc EXCEPT ![k] = "sched"]
  /\ tried' = [tried EXCEPT ![k] = {}]

\* enter_schedule, slow path: nothing to run here, a targeted thread whose
\* stack was busy, or the watchdog.
EnterSlow(k) ==
  /\ pc[k] = "enter"
  /\ rq[k] = << >> \/ rrq[k] # << >> \/ Watchdog
  /\ ScheduleEntry(k)
  /\ UNCHANGED <<state, kthread_wanted, waiters, qvars, kvars>>

\* schedule(), first choice: the targeted threads.
SchedTargeted(k) ==
  /\ pc[k] = "sched"
  /\ rrq[k] # << >>
  /\ Claim(k, Head(rrq[k]))
  /\ rrq' = [rrq EXCEPT ![k] = Tail(@)]
  /\ rq' = [rq EXCEPT ![k] = DrainQ(@, rq_overflow[k])]
  /\ rq_overflow' = [rq_overflow EXCEPT ![k] = DrainOv(rq[k], @)]
  /\ UNCHANGED <<stack_busy, kthread_wanted, waiters, kvars, stack, tried>>

\* Mutant: schedule() looks at the ring only.
SchedLocalNoDrain(k) ==
  /\ pc[k] = "sched"
  /\ rrq[k] = << >> /\ rq[k] # << >>
  /\ Claim(k, Head(rq[k]))
  /\ rq' = [rq EXCEPT ![k] = Tail(@)]
  /\ UNCHANGED <<stack_busy, kthread_wanted, waiters, rrq, rq_overflow, kvars,
                 stack, tried>>

\* schedule(), second choice: the local runqueue, overflow threads drained
\* into it before and after the pop.
SchedLocal(k) ==
  /\ pc[k] = "sched"
  /\ rrq[k] = << >>
  /\ LET q == DrainQ(rq[k], rq_overflow[k])
         ov == DrainOv(rq[k], rq_overflow[k])
     IN  /\ q # << >>
         /\ Claim(k, Head(q))
         /\ rq' = [rq EXCEPT ![k] = DrainQ(Tail(q), ov)]
         /\ rq_overflow' = [rq_overflow EXCEPT ![k] = DrainOv(Tail(q), ov)]
  /\ UNCHANGED <<stack_busy, kthread_wanted, waiters, rrq, kvars, stack, tried>>

\* softirq_run_thread(r) run by k, and the jump into the thread it creates.
SoftirqThread(k, r, t) ==
  /\ softirq[r]
  /\ softirq' = [softirq EXCEPT ![r] = FALSE]
  /\ NewThread(t, "RUNNING")
  /\ self' = [self EXCEPT ![k] = t]
  /\ pc' = [pc EXCEPT ![k] = "jmp"]
  /\ UNCHANGED <<waiters, parked, detached, preempt, stack, tried>>

\* schedule(), softirq work of k: when the queues are empty, or before looking
\* at them when the watchdog expired.
SchedSoftirq(k, t) ==
  /\ pc[k] = "sched"
  /\ Watchdog \/ (rrq[k] = << >> /\ rq[k] = << >> /\ rq_overflow[k] = << >>)
  /\ SoftirqThread(k, k, t)
  /\ rq' = [rq EXCEPT ![k] = DrainQ(@, rq_overflow[k])]
  /\ rq_overflow' = [rq_overflow EXCEPT ![k] = DrainOv(rq[k], @)]
  /\ UNCHANGED rrq

\* schedule() has found nothing of its own and got hold of the lock of r.  New
\* softirq work of l may have come since it looked, and without a free thread
\* softirq_run_thread returns NULL, so softirq[l] does not matter.
Stealing(l, r) ==
  /\ pc[l] = "sched" /\ r # l
  /\ rrq[l] = << >> /\ rq[l] = << >> /\ rq_overflow[l] = << >>
  /\ ~Locked(r) /\ ~detached[r]

\* Mutant: the thief takes one thread more than it removes.
StealQueueOffByOne(l, r) ==
  /\ Stealing(l, r)
  /\ rq[r] # << >>
  /\ \E n \in 1 .. (Len(rq[r]) + 1) \div 2 :
       rq' = [rq EXCEPT ![l] = SubSeq(rq[r], 2, n), ![r] = SubSeq(@, n, Len(@))]
  /\ Claim(l, Head(rq[r]))
  /\ UNCHANGED <<stack_busy, kthread_wanted, waiters, rrq, rq_overflow, kvars,
                 stack, tried>>

\* steal_work(l, r): half of the runqueue of r, oldest first; l runs the first.
\* It is half of what was there when l loaded rq_head, and r may have pushed
\* more since (RunQueue).
StealQueue(l, r) ==
  /\ Stealing(l, r)
  /\ rq[r] # << >>
  /\ \E n \in 1 .. (Len(rq[r]) + 1) \div 2 :
       rq' = [rq EXCEPT ![l] = SubSeq(rq[r], 2, n),
                        ![r] = SubSeq(@, n + 1, Len(@))]
  /\ Claim(l, Head(rq[r]))
  /\ UNCHANGED <<stack_busy, kthread_wanted, waiters, rrq, rq_overflow, kvars,
                 stack, tried>>

\* steal_work(l, r): one thread of the overflow list of r.
StealOverflow(l, r) ==
  /\ Stealing(l, r)
  /\ rq[r] = << >> /\ rq_overflow[r] # << >>
  /\ rq_overflow' = [rq_overflow EXCEPT ![r] = Tail(@)]
  /\ Claim(l, Head(rq_overflow[r]))
  /\ UNCHANGED <<stack_busy, kthread_wanted, waiters, rq, rrq, kvars, stack,
                 tried>>

\* steal_work(l, r): the softirq work of r.
StealSoftirq(l, r, t) ==
  /\ Stealing(l, r)
  /\ rq[r] = << >> /\ rq_overflow[r] = << >>
  /\ SoftirqThread(l, r, t)
  /\ UNCHANGED qvars

\* steal_work(l, r) comes back empty-handed: a lock or a detached kthread in
\* the way, or nothing there, and then a parked r is detached.
StealNothing(l, r) ==
  /\ pc[l] = "sched" /\ r # l
  /\ rrq[l] = << >> /\ rq[l] = << >> /\ rq_overflow[l] = << >>
  /\ tried' = [tried EXCEPT ![l] = @ \cup {r}]
  /\ \/ UNCHANGED <<detached, softirq>>
     \/ /\ Stealing(l, r)
        /\ rq[r] = << >> /\ rq_overflow[r] = << >>
        /\ parked[r]
        /\ KthreadDetach(l, r)
  /\ UNCHANGED <<tvars, qvars, parked, preempt, pc, self, stack>>

\* Mutant: jmp_thread does not wait for the stack.
JumpNoWait(k) ==
  /\ pc[k] = "jmp"
  /\ stack_busy' = IF stack[k] = NULL THEN stack_busy
                   ELSE [stack_busy EXCEPT ![stack[k]] = FALSE]
  /\ stack' = [stack EXCEPT ![k] = self[k]]
  /\ pc' = [pc EXCEPT ![k] = "run"]
  /\ UNCHANGED <<state, kthread_wanted, waiters, qvars, kvars, self, tried>>

\* The switch: once the stack of self is free, the old stack is released.
Jump(k) ==
  /\ pc[k] = "jmp"
  /\ ~stack_busy[self[k]]
  /\ stack_busy' = IF stack[k] = NULL THEN stack_busy
                   ELSE [stack_busy EXCEPT ![stack[k]] = FALSE]
  /\ stack' = [stack EXCEPT ![k] = self[k]]
  /\ pc' = [pc EXCEPT ![k] = "run"]
  /\ UNCHANGED <<state, kthread_wanted, waiters, qvars, kvars, self, tried>>

-----------------------------------------------------------------------------
(***************************************************************************)
(* Parking the kthread.                                                    *)
(***************************************************************************)

runningks == Cardinality({k \in Kthread : pc[k] # "blocked"})

\* kthread_park, up to the read of park_efd; the caller holds kthread.lock.
KthreadPark(k) ==
  /\ runningks > spinks
  /\ parked' = [parked EXCEPT ![k] = TRUE]
  /\ preempt' = [preempt EXCEPT ![k] = FALSE]
  /\ pc' = [pc EXCEPT ![k] = "blocked"]

\* schedule() gives up: every attached kthread was tried, or a preemption is
\* pending.
SchedPark(k) ==
  /\ pc[k] = "sched"
  /\ rrq[k] = << >> /\ rq[k] = << >> /\ rq_overflow[k] = << >>
  /\ preempt[k] \/ \A r \in Kthread \ {k} : r \in tried[k] \/ detached[r]
  /\ KthreadPark(k)
  /\ UNCHANGED <<tvars, qvars, detached, softirq, self, stack, tried>>

\* handle_sigusr1, thread_yield_kthread and thread_finish_yield_kthread up to
\* taking kthread.lock: on the runtime stack, with self still set.
YieldKthread(k) ==
  /\ pc[k] \in {"run", "yield"} /\ preempt[k]
  /\ state' = [state EXCEPT ![self[k]] = "RUNNABLE"]
  /\ Push(k, self[k])
  /\ stack' = [stack EXCEPT ![k] = NULL]
  /\ pc' = [pc EXCEPT ![k] = "yieldk"]
  /\ UNCHANGED <<stack_busy, kthread_wanted, waiters, kvars, self, tried>>

\* Mutant: when kthread_park refuses, the preempted thread goes on.
YieldKthreadParkReturns(k) ==
  /\ pc[k] = "yieldk"
  /\ \/ /\ KthreadPark(k)
        /\ UNCHANGED stack
     \/ /\ runningks <= spinks
        /\ preempt' = [preempt EXCEPT ![k] = FALSE]
        /\ pc' = [pc EXCEPT ![k] = "run"]
        /\ stack' = [stack EXCEPT ![k] = self[k]]
        /\ UNCHANGED parked
  /\ UNCHANGED <<tvars, qvars, detached, softirq, self, tried>>

\* thread_finish_yield_kthread, the park; it falls through to schedule() when
\* kthread_park refuses.
YieldKthreadPark(k) ==
  /\ pc[k] = "yieldk"
  /\ \/ /\ KthreadPark(k)
        /\ UNCHANGED <<stack_busy, self, stack, tried>>
     \/ /\ runningks <= spinks
        /\ preempt' = [preempt EXCEPT ![k] = FALSE]
        /\ ScheduleEntry(k)
        /\ UNCHANGED parked
  /\ UNCHANGED <<state, kthread_wanted, waiters, qvars, detached, softirq>>

\* The iokernel writes park_efd; kthread_park or kthread_wait_to_attach ends
\* in schedule().
Unpark(k) ==
  /\ pc[k] = "blocked"
  /\ parked' = [parked EXCEPT ![k] = FALSE]
  /\ detached' = [detached EXCEPT ![k] = FALSE]
  /\ ScheduleEntry(k)
  /\ UNCHANGED <<state, kthread_wanted, waiters, qvars, softirq, preempt>>

\* The iokernel sends an RX command to k, or a timer of k expires.
SoftirqArrives(k) ==
  /\ k \in Softirqs /\ ~softirq[k]
  /\ softirq' = [softirq EXCEPT ![k] = TRUE]
  /\ UNCHANGED <<tvars, qvars, parked, detached, preempt, pvars>>

\* handle_sigusr1, set_preempt_needed.
Sigusr1(k) ==
  /\ Preemption /\ ~preempt[k]
  /\ preempt' = [preempt EXCEPT ![k] = TRUE]
  /\ UNCHANGED <<tvars, qvars, parked, detached, softirq, pvars>>

-----------------------------------------------------------------------------
\* runtime_start: kthread k0 has the main thread in its queue; every kthread
\* is detached and waits for the iokernel.
Init ==
  /\ \E k0 \in Kthread :
       rq = [k \in Kthread |-> IF k = k0 THEN <<main>> ELSE << >>]
  /\ state = [t \in Thread |-> IF t = main THEN "RUNNABLE" ELSE "FREE"]
  /\ rrq = [k \in Kthread |-> << >>]
  /\ rq_overflow = [k \in Kthread |-> << >>]
  /\ stack_busy = [t \in Thread |-> FALSE]
  /\ kthread_wanted \in [Thread -> Targets]
  /\ waiters = {}
  /\ parked = [k \in Kthread |-> FALSE]
  /\ detached = [k \in Kthread |-> TRUE]
  /\ softirq = [k \in Kthread |-> FALSE]
  /\ preempt = [k \in Kthread |-> FALSE]
  /\ pc = [k \in Kthread |-> "blocked"]
  /\ self = [k \in Kthread |-> NULL]
  /\ stack = [k \in Kthread |-> NULL]
  /\ tried = [k \in Kthread |-> {}]

\* The steps of kthread k that do not depend on what its uthread chooses.
Kernel(k) ==
  \/ EnterTargeted(k)
  \/ EnterFast(k)
  \/ EnterSlow(k)
  \/ YieldThrow(k)
  \/ SchedTargeted(k)
  \/ SchedLocal(k)
  \/ \E t \in Thread : SchedSoftirq(k, t)
  \/ \E r \in Kthread : StealQueue(k, r) \/ StealOverflow(k, r) \/ StealNothing(k, r)
  \/ \E r \in Kthread, t \in Thread : StealSoftirq(k, r, t)
  \/ Jump(k)
  \/ SchedPark(k)
  \/ YieldKthread(k)
  \/ YieldKthreadPark(k)

\* The calls of the uthread that kthread k runs.
User(k) ==
  \/ \E t \in Thread : ThreadSpawn(k, t) \/ ThreadCreate(k, t)
  \/ \E t \in Thread, kidx \in Targets :
       ThreadThrow(k, t, kidx) \/ ThreadSwap(k, t, kidx)
  \/ ThreadPark(k)
  \/ ThreadYield(k)
  \/ ThreadExit(k)
  \/ \E r \in Kthread : JoinKthread(k, r)

\* The iokernel and the clock.
Environment(k) == Unpark(k) \/ SoftirqArrives(k) \/ Sigusr1(k)

Next == \E k \in Kthread : Kernel(k) \/ User(k) \/ Environment(k)

Spec == Init /\ [][Next]_vars

(***************************************************************************)
(* A kthread's own code keeps running; scheduling is cooperative, so a     *)
(* uthread that runs again and again is assumed to yield, block or exit    *)
(* sooner or later, not just to swap with another one; and the iokernel    *)
(* wakes the kthread the main thread is queued on (cores_init_proc).       *)
(* With the watchdog enabled, a kthread that keeps entering enter_schedule *)
(* finds last_watchdog_tsc too old again and again.                        *)
(***************************************************************************)
Fairness ==
  \A k \in Kthread :
    /\ WF_vars(Kernel(k))
    /\ SF_vars(ThreadYield(k) \/ ThreadPark(k) \/ ThreadExit(k))
    /\ WF_vars(Unpark(k) /\ rq[k] # << >>)
    /\ Watchdog => SF_vars(EnterSlow(k))

FairSpec == Spec /\ Fairness

-----------------------------------------------------------------------------
ThreadsOK ==
  /\ state \in [Thread -> ThreadStates]
  /\ stack_busy \in [Thread -> BOOLEAN]
  /\ kthread_wanted \in [Thread -> Targets]
  /\ waiters \in SUBSET Thread

QueuesOK ==
  /\ rq \in [Kthread -> Seq(Thread)]
  /\ rrq \in [Kthread -> Seq(Thread)]
  /\ rq_overflow \in [Kthread -> Seq(Thread)]
  /\ \A k \in Kthread : Len(rq[k]) <= RqSize /\ Len(rrq[k]) <= RrqSize

KthreadsOK ==
  /\ parked \in [Kthread -> BOOLEAN]
  /\ detached \in [Kthread -> BOOLEAN]
  /\ softirq \in [Kthread -> BOOLEAN]
  /\ preempt \in [Kthread -> BOOLEAN]
  /\ pc \in [Kthread -> PCs]
  /\ self \in [Kthread -> Thread \cup {NULL}]
  /\ stack \in [Kthread -> Thread \cup {NULL}]
  /\ tried \in [Kthread -> SUBSET Kthread]

\* Every variable has its type, and the rings never hold more than their
\* size: drain_overflow, thread_ready and thread_throw leave the rest to the
\* overflow list.
TypeOK == ThreadsOK /\ QueuesOK /\ KthreadsOK

\* The threads in the queues of k.
Queued(k) == Range(rq[k]) \cup Range(rrq[k]) \cup Range(rq_overflow[k])

\* No two slots of the queues of k hold the same thread.
DistinctIn(k) ==
  /\ IsInjective(rq[k]) /\ IsInjective(rrq[k]) /\ IsInjective(rq_overflow[k])
  /\ Range(rq[k]) \cap Range(rrq[k]) = {}
  /\ Range(rq[k]) \cap Range(rq_overflow[k]) = {}
  /\ Range(rrq[k]) \cap Range(rq_overflow[k]) = {}

\* No two slots of any queues hold the same thread.
SlotsDistinct ==
  /\ \A k \in Kthread : DistinctIn(k)
  /\ \A j, k \in Kthread : j # k => Queued(j) \cap Queued(k) = {}

\* kthread k runs a thread or is about to.
Runs(k) == pc[k] \in {"run", "yield", "jmp"}

\* Every thread is in exactly one place, the one its state names: a sleeping
\* thread is held by a waker, a runnable one has a single slot in a single
\* queue, a running one has a single kthread, a free one is nowhere.  Otherwise
\* schedule, steal_work or thread_ready would lose a thread, or run it twice.
OnePlace ==
  /\ SlotsDistinct
  /\ \A t \in Thread :
       /\ state[t] = "SLEEPING" <=> t \in waiters
       /\ state[t] = "RUNNABLE" <=> \E k \in Kthread : t \in Queued(k)
       /\ state[t] = "RUNNING" <=> \E k \in Kthread : Runs(k) /\ self[k] = t
  /\ \A j, k \in Kthread : Runs(j) /\ Runs(k) /\ self[j] = self[k] => j = k

\* No two kthreads execute on the stack of the same thread: stack_busy makes
\* jmp_thread "wait until the scheduler finishes switching stacks".
StackExclusive ==
  \A j, k \in Kthread : stack[j] # NULL /\ stack[j] = stack[k] => j = k

\* stack_busy is true exactly while a kthread that already published the
\* thread still uses its stack, so that every spin on it can end.
BusyWhileLeaving ==
  \A t \in Thread :
    stack_busy[t] <=> \E k \in Kthread : stack[k] = t /\ pc[k] \in {"enter", "jmp"}

\* kthread j must release a stack before k can go on.
SpinsOn(k, j) == pc[k] = "jmp" /\ stack_busy[self[k]] /\ stack[j] = self[k]

\* The spins of jmp_thread_direct never wait on each other in a circle.
NoSpinCycle ==
  \A S \in SUBSET Kthread :
    S # {} => \E k \in S : \A j \in S : ~SpinsOn(k, j)

\* A parked kthread that was detached has left no runnable thread behind.
DetachedIsEmpty ==
  \A k \in Kthread :
    parked[k] /\ detached[k] => rq[k] = << >> /\ rrq[k] = << >> /\ rq_overflow[k] = << >>

\* A thread that is runnable, or that a kthread is switching to, eventually runs,
\* whoever pops or steals it and whatever stack_busy the switch has to wait for;
\* or again and again it is in the runqueue of a kthread with a targeted thread,
\* which schedule and enter_schedule take first.
RunnableRuns ==
  \A t \in Thread :
    \/ (state[t] = "RUNNABLE" \/ \E k \in Kthread : pc[k] = "jmp" /\ self[k] = t)
         ~> \E k \in Kthread : pc[k] = "run" /\ self[k] = t
    \/ []<>(\E k \in Kthread :
              t \in Range(rq[k]) \cup Range(rq_overflow[k]) /\ rrq[k] # << >>)

\* thread_yield: "Yielding will give other threads a chance to run", all of them,
\* as every thread that runs keeps yielding, parking or exiting.
YieldingLetsRun ==
  \A t \in Thread : state[t] = "RUNNABLE" ~> state[t] = "RUNNING"

=============================================================================
