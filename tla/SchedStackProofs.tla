-------------------------- MODULE SchedStackProofs --------------------------
(***************************************************************************)
(* The stack hand-over of Sched without preemption signals, for any number *)
(* of kthreads and threads: no two kthreads are ever on one stack.  With   *)
(* preemption it is not so (see the run sched_preempt_stack).              *)
(*                                                                         *)
(* The argument.  stack_busy[t] is true exactly while a kthread that has   *)
(* published t is still on the stack of t (BusyWhileLeaving).  A kthread   *)
(* that switches to t waits for stack_busy[t] to be false, so whoever else *)
(* is on that stack has not published t; it then has t as its __self,      *)
(* which OnePlace, the invariant of SchedProofs, excludes.                 *)
(***************************************************************************)
EXTENDS SchedProofs

\* Preemption never shows.
NoPreempt == \A k \in Kthread : ~preempt[k] /\ pc[k] # "yieldk"

\* In schedule() and in kthread_park a kthread is on the runtime stack and has
\* no thread.
OffStack ==
  \A k \in Kthread : pc[k] \in {"sched", "blocked"} => stack[k] = NULL /\ self[k] = NULL

\* A thread is not freed while its stack is busy.
BusyNotFree == \A t \in Thread : stack_busy[t] => state[t] # "FREE"

\* kthread k has published t and is still on its stack.
Leaving(k, t) == stack[k] = t /\ pc[k] \in {"enter", "jmp"}

\* The inductive invariant.
StackInv ==
  /\ NoPreempt /\ OffStack /\ BusyNotFree /\ StackExclusive
  /\ \A t \in Thread : stack_busy[t] <=> \E k \in Kthread : Leaving(k, t)

\* Initially no kthread is on a thread stack and none is marked busy.
LEMMA InitStackInv == Init => StackInv
<1> SUFFICES ASSUME Init PROVE StackInv
  OBVIOUS
<1>1. NoPreempt /\ OffStack /\ BusyNotFree /\ StackExclusive
  BY DEF Init, NoPreempt, OffStack, BusyNotFree, StackExclusive
<1>2. \A t \in Thread : ~stack_busy[t] /\ \A k \in Kthread : ~Leaving(k, t)
  BY DEF Init, Leaving
<1> QED
  BY <1>1, <1>2 DEF StackInv

\* A step after which every kthread is where it was, on the same stacks.
LEMMA SameStacks ==
  ASSUME StackInv, UNCHANGED <<pc, self, stack, preempt>>,
         \A t \in Thread : stack_busy'[t] <=> stack_busy[t],
         \A t \in Thread : state'[t] = "FREE" => state[t] = "FREE"
  PROVE  StackInv'
<1>1. \A k \in Kthread, t \in Thread : Leaving(k, t)' <=> Leaving(k, t)
  BY DEF Leaving
<1> QED
  BY <1>1 DEF StackInv, NoPreempt, OffStack, BusyNotFree, StackExclusive

\* __thread_create resets the stack_busy of a thread nobody is on.
LEMMA NewThreadStackInv ==
  ASSUME IInv, StackInv, NEW k \in Kthread, NEW t \in Thread, ThreadSpawn(k, t) \/ ThreadCreate(k, t)
  PROVE  StackInv'
<1>1. /\ state[t] = "FREE" /\ stack_busy' = [stack_busy EXCEPT ![t] = FALSE]
      /\ UNCHANGED <<pc, self, stack, preempt>>
      /\ \A u \in Thread \ {t} : state'[u] = state[u]
  BY DEF ThreadSpawn, ThreadCreate, NewThread, kvars, pvars, IInv, TypeOK, ThreadsOK
<1>2. ~stack_busy[t]
  BY <1>1 DEF StackInv, BusyNotFree
<1>3. \A u \in Thread : stack_busy'[u] <=> stack_busy[u]
  BY <1>1, <1>2 DEF IInv, TypeOK, ThreadsOK
<1> QED
  BY <1>1, <1>3, SameStacks

\* The steps that touch neither a stack nor stack_busy.
LEMMA QuietStackInv ==
  ASSUME IInv, StackInv, NEW k \in Kthread,
         \/ \E t \in Thread, kidx \in Targets : ThreadThrow(k, t, kidx)
         \/ \E r \in Kthread : JoinKthread(k, r) \/ StealNothing(k, r)
         \/ SoftirqArrives(k)
  PROVE  StackInv'
<1>1. UNCHANGED <<pc, self, stack, preempt, stack_busy>>
  BY DEF ThreadThrow, JoinKthread, StealNothing, SoftirqArrives, tvars, kvars, pvars
<1>2. \A t \in Thread : state'[t] = "FREE" => state[t] = "FREE"
  BY DEF ThreadThrow, JoinKthread, StealNothing, SoftirqArrives, tvars, IInv, TypeOK, ThreadsOK
<1> QED
  BY <1>1, <1>2, SameStacks

\* thread_park_and_unlock_np, thread_yield and thread_swap publish the running
\* thread and mark its stack busy.
LEMMA PublishStackInv ==
  ASSUME IInv, StackInv, NEW k \in Kthread, NEW s, s = self[k],
         pc[k] \in {"run", "yield"}, pc'[k] \in {"enter", "jmp"},
         \A j \in Kthread \ {k} : pc'[j] = pc[j] /\ self'[j] = self[j],
         UNCHANGED <<stack, preempt>>,
         \A t \in Thread : stack_busy'[t] <=> stack_busy[t] \/ t = s,
         \A t \in Thread : state'[t] = "FREE" => state[t] = "FREE" /\ t # s
  PROVE  StackInv'
<1>1. s \in Thread /\ stack[k] = s
  BY DEF IInv, SelfSet, OnStack
<1>2. \A j \in Kthread, t \in Thread :
        Leaving(j, t)' <=> Leaving(j, t) \/ (j = k /\ t = s)
  BY <1>1 DEF Leaving, IInv, TypeOK, KthreadsOK
<1>3. \A t \in Thread : stack_busy'[t] <=> \E j \in Kthread : Leaving(j, t)'
  BY <1>2 DEF StackInv
<1>4. NoPreempt' /\ OffStack' /\ StackExclusive'
  BY DEF StackInv, NoPreempt, OffStack, StackExclusive, IInv, TypeOK, KthreadsOK
<1>5. BusyNotFree'
  BY DEF StackInv, BusyNotFree
<1> QED
  BY <1>3, <1>4, <1>5 DEF StackInv

\* Parking, yielding and swapping mark the stack the kthread is still on.
LEMMA UserStackInv ==
  ASSUME IInv, StackInv, NEW k \in Kthread,
         \/ ThreadPark(k) \/ YieldThrow(k)
         \/ \E t \in Thread, kidx \in Targets : ThreadSwap(k, t, kidx)
  PROVE  StackInv'
<1> PICK s : s = self[k]
  OBVIOUS
<1>1. s \in Thread /\ pc[k] \in {"run", "yield"}
  BY DEF ThreadPark, YieldThrow, ThreadSwap, Running, IInv, SelfSet
<1>2. /\ \A t \in Thread : stack_busy'[t] <=> stack_busy[t] \/ t = s
      /\ UNCHANGED <<stack, preempt>>
  <2>1. stack_busy' = [stack_busy EXCEPT ![s] = TRUE] /\ UNCHANGED <<stack, preempt>>
    BY DEF ThreadPark, YieldThrow, ThreadSwap, kvars
  <2> QED
    BY <1>1, <2>1 DEF IInv, TypeOK, ThreadsOK
<1>3. /\ pc'[k] \in {"enter", "jmp"}
      /\ \A j \in Kthread \ {k} : pc'[j] = pc[j] /\ self'[j] = self[j]
  BY DEF ThreadPark, YieldThrow, ThreadSwap, IInv, TypeOK, KthreadsOK
<1>4. \A u \in Thread : state'[u] = "FREE" => state[u] = "FREE" /\ u # s
  BY <1>1 DEF ThreadPark, YieldThrow, ThreadSwap, IInv, TypeOK, ThreadsOK
<1> QED
  BY <1>1, <1>2, <1>3, <1>4, PublishStackInv

\* thread_yield runs softirqs on the stack it is on.
LEMMA YieldStackInv ==
  ASSUME IInv, StackInv, NEW k \in Kthread, ThreadYield(k)
  PROVE  StackInv'
<1> USE DEF ThreadYield, Running, IInv, TypeOK, KthreadsOK
<1>1. \A j \in Kthread, t \in Thread : Leaving(j, t)' <=> Leaving(j, t)
  BY DEF Leaving
<1> QED
  BY <1>1 DEF StackInv, NoPreempt, OffStack, BusyNotFree, StackExclusive, tvars

\* A kthread that leaves the stack it is on for the runtime stack, or that was
\* on none, may clear stack_busy of that stack: nobody else is on it.
LEMMA ReleaseStackInv ==
  ASSUME IInv, StackInv, NEW k \in Kthread, NEW c \in {"sched", "blocked"},
         pc' = [pc EXCEPT ![k] = c], stack' = [stack EXCEPT ![k] = NULL],
         self' = [self EXCEPT ![k] = NULL], UNCHANGED state,
         \A j \in Kthread : ~preempt'[j],
         \A t \in Thread : stack_busy'[t] <=> stack_busy[t] /\ t # stack[k]
  PROVE  StackInv'
<1> USE SchedAssumption DEF IInv, TypeOK, KthreadsOK
<1>1. \A j \in Kthread, t \in Thread : Leaving(j, t)' <=> Leaving(j, t) /\ j # k
  BY DEF Leaving
<1>3. \A t \in Thread : t = stack[k] => \A j \in Kthread : Leaving(j, t) => j = k
  BY DEF Leaving, StackInv, StackExclusive
<1>4. \A t \in Thread : stack_busy'[t] <=> \E j \in Kthread : Leaving(j, t)'
  BY <1>1, <1>3 DEF StackInv, Leaving
<1>5. NoPreempt' /\ OffStack' /\ StackExclusive'
  BY DEF StackInv, NoPreempt, OffStack, StackExclusive
<1>6. BusyNotFree'
  BY DEF StackInv, BusyNotFree
<1> QED
  BY <1>4, <1>5, <1>6 DEF StackInv

\* The entry of schedule() releases the stack that was left.
LEMMA EntryStackInv ==
  ASSUME IInv, StackInv, NEW k \in Kthread, EnterSlow(k) \/ Unpark(k)
  PROVE  StackInv'
<1>1. self[k] = stack[k]
  BY DEF EnterSlow, Unpark, IInv, OnStack, StackInv, OffStack
<1>2. \A t \in Thread : stack_busy'[t] <=> stack_busy[t] /\ t # stack[k]
  BY <1>1, SchedAssumption
     DEF EnterSlow, Unpark, ScheduleEntry, IInv, TypeOK, ThreadsOK, KthreadsOK
<1>3. /\ pc' = [pc EXCEPT ![k] = "sched"] /\ stack' = [stack EXCEPT ![k] = NULL]
      /\ self' = [self EXCEPT ![k] = NULL] /\ UNCHANGED <<state, preempt>>
  BY DEF EnterSlow, Unpark, ScheduleEntry, kvars
<1>4. \A j \in Kthread : ~preempt'[j]
  BY <1>3 DEF StackInv, NoPreempt
<1> QED
  BY <1>2, <1>3, <1>4, ReleaseStackInv

\* A kthread that parks is on the runtime stack.
LEMMA ParkStackInv ==
  ASSUME IInv, StackInv, NEW k \in Kthread, SchedPark(k)
  PROVE  StackInv'
<1> USE DEF SchedPark, KthreadPark, IInv, TypeOK, KthreadsOK
<1>1. \A j \in Kthread, t \in Thread : Leaving(j, t)' <=> Leaving(j, t)
  BY DEF Leaving
<1> QED
  BY <1>1 DEF StackInv, NoPreempt, OffStack, BusyNotFree, StackExclusive, tvars

\* thread_finish_exit frees a thread only its own kthread is on the stack of.
LEMMA ExitStackInv ==
  ASSUME IInv, StackInv, NEW k \in Kthread, ThreadExit(k)
  PROVE  StackInv'
<1> USE SchedAssumption DEF ThreadExit, Running, IInv, TypeOK, KthreadsOK, ThreadsOK
<1> PICK s : s = self[k]
  OBVIOUS
<1>1. s \in Thread /\ stack[k] = s
  BY DEF SelfSet, OnStack
<1>2. \A j \in Kthread : ~Leaving(j, s)
  BY <1>1 DEF StackInv, StackExclusive, Leaving
<1>3. ~stack_busy[s]
  BY <1>1, <1>2 DEF StackInv
<1>4. \A j \in Kthread, t \in Thread : Leaving(j, t)' <=> Leaving(j, t)
  BY DEF Leaving
<1>5. NoPreempt' /\ OffStack' /\ StackExclusive'
  BY DEF StackInv, NoPreempt, OffStack, StackExclusive, kvars
<1>6. BusyNotFree'
  BY <1>1, <1>3 DEF StackInv, BusyNotFree
<1>7. \A t \in Thread : stack_busy'[t] <=> \E j \in Kthread : Leaving(j, t)'
  BY <1>4 DEF StackInv
<1> QED
  BY <1>5, <1>6, <1>7 DEF StackInv

\* Claiming a thread, from enter_schedule or from schedule(), changes no stack.
LEMMA ClaimStackInv ==
  ASSUME IInv, StackInv, NEW k \in Kthread, pc[k] \in {"enter", "sched"},
         pc' = [pc EXCEPT ![k] = "jmp"], \A j \in Kthread \ {k} : self'[j] = self[j],
         UNCHANGED <<stack, preempt>>,
         \A t \in Thread : stack_busy'[t] <=> stack_busy[t],
         \A t \in Thread : state'[t] = "FREE" => state[t] = "FREE"
  PROVE  StackInv'
<1> USE SchedAssumption DEF IInv, TypeOK, KthreadsOK
<1>1. \A j \in Kthread, t \in Thread : Leaving(j, t)' <=> Leaving(j, t)
  BY DEF Leaving, StackInv, OffStack
<1>2. NoPreempt' /\ OffStack' /\ StackExclusive' /\ BusyNotFree'
  BY DEF StackInv, NoPreempt, OffStack, StackExclusive, BusyNotFree
<1>3. \A t \in Thread : stack_busy'[t] <=> \E j \in Kthread : Leaving(j, t)'
  BY <1>1 DEF StackInv
<1> QED
  BY <1>2, <1>3 DEF StackInv

\* A thread chosen to run is not on the stack of another kthread unless it is busy.
LEMMA ChooseStackInv ==
  ASSUME IInv, StackInv, NEW k \in Kthread,
         \/ EnterTargeted(k) \/ SchedTargeted(k) \/ SchedLocal(k)
         \/ \E r \in Kthread : StealQueue(k, r) \/ StealOverflow(k, r)
  PROVE  StackInv'
<1>1. pc[k] \in {"enter", "sched"}
  BY DEF EnterTargeted, SchedTargeted, SchedLocal, StealQueue, StealOverflow, Stealing
<1>2. /\ \E t : Claim(k, t)
      /\ UNCHANGED <<stack_busy, stack, preempt>>
  BY DEF EnterTargeted, SchedTargeted, SchedLocal, StealQueue, StealOverflow, kvars
<1>3. /\ pc' = [pc EXCEPT ![k] = "jmp"] /\ \A j \in Kthread \ {k} : self'[j] = self[j]
      /\ \A t \in Thread : state'[t] = "FREE" => state[t] = "FREE"
  BY <1>2 DEF Claim, IInv, TypeOK, KthreadsOK, ThreadsOK
<1> QED
  BY <1>1, <1>2, <1>3, ClaimStackInv

\* A new softirq thread is on nobody's stack.
LEMMA SoftirqStackInv ==
  ASSUME IInv, StackInv, NEW k \in Kthread, NEW t \in Thread,
         SchedSoftirq(k, t) \/ \E r \in Kthread : StealSoftirq(k, r, t)
  PROVE  StackInv'
<1>1. pc[k] \in {"enter", "sched"}
  BY DEF SchedSoftirq, StealSoftirq, Stealing
<1>2. /\ state[t] = "FREE" /\ state' = [state EXCEPT ![t] = "RUNNING"]
      /\ stack_busy' = [stack_busy EXCEPT ![t] = FALSE]
      /\ pc' = [pc EXCEPT ![k] = "jmp"] /\ self' = [self EXCEPT ![k] = t]
      /\ UNCHANGED <<stack, preempt>>
  BY DEF SchedSoftirq, StealSoftirq, SoftirqThread, NewThread
<1>3. ~stack_busy[t]
  BY <1>2 DEF StackInv, BusyNotFree
<1>4. /\ \A u \in Thread : stack_busy'[u] <=> stack_busy[u]
      /\ \A u \in Thread : state'[u] = "FREE" => state[u] = "FREE"
  BY <1>2, <1>3 DEF IInv, TypeOK, ThreadsOK
<1>5. \A j \in Kthread \ {k} : self'[j] = self[j]
  BY <1>2 DEF IInv, TypeOK, KthreadsOK
<1> QED
  BY <1>1, <1>2, <1>4, <1>5, ClaimStackInv

\* enter_schedule: the next thread is the one whose stack k is on, or another.
LEMMA FastStackInv ==
  ASSUME IInv, StackInv, NEW k \in Kthread, EnterFast(k)
  PROVE  StackInv'
<1> PICK t : t = Head(rq[k])
  OBVIOUS
<1>0. t \in Thread /\ pc[k] = "enter"
  BY PopFacts DEF EnterFast, IInv, TypeOK, QueuesOK
<1>1. CASE t = stack[k]
  <2>1. /\ state' = [state EXCEPT ![t] = "RUNNING"]
        /\ stack_busy' = [stack_busy EXCEPT ![t] = FALSE]
        /\ pc' = [pc EXCEPT ![k] = "run"] /\ UNCHANGED <<self, stack, preempt>>
    BY <1>1 DEF EnterFast, kvars
  <2>2. \A j \in Kthread : stack[j] = t => j = k
    BY <1>0, <1>1, SchedAssumption DEF StackInv, StackExclusive
  <2>3. \A j \in Kthread, u \in Thread : Leaving(j, u)' <=> Leaving(j, u) /\ u # t
    BY <1>0, <1>1, <2>1, <2>2 DEF Leaving, IInv, TypeOK, KthreadsOK
  <2>4. \A u \in Thread : stack_busy'[u] <=> stack_busy[u] /\ u # t
    BY <2>1 DEF IInv, TypeOK, ThreadsOK
  <2>5. \A u \in Thread : stack_busy'[u] <=> \E j \in Kthread : Leaving(j, u)'
    BY <2>3, <2>4 DEF StackInv
  <2>6. NoPreempt' /\ OffStack' /\ StackExclusive'
    BY <2>1 DEF StackInv, NoPreempt, OffStack, StackExclusive, IInv, TypeOK, KthreadsOK
  <2>7. BusyNotFree'
    BY <2>1, <2>4 DEF StackInv, BusyNotFree, IInv, TypeOK, ThreadsOK
  <2> QED
    BY <2>5, <2>6, <2>7 DEF StackInv
<1>2. CASE t # stack[k]
  <2>1. Claim(k, t) /\ UNCHANGED <<stack_busy, stack, preempt>>
    BY <1>2 DEF EnterFast, kvars
  <2>2. /\ pc' = [pc EXCEPT ![k] = "jmp"] /\ \A j \in Kthread \ {k} : self'[j] = self[j]
        /\ \A u \in Thread : state'[u] = "FREE" => state[u] = "FREE"
    BY <2>1 DEF Claim, IInv, TypeOK, KthreadsOK, ThreadsOK
  <2> QED
    BY <1>0, <2>1, <2>2, ClaimStackInv
<1> QED
  BY <1>1, <1>2

\* The switch itself: when stack_busy of the next thread is false, nobody is on
\* its stack.
LEMMA JumpStackInv ==
  ASSUME IInv, StackInv, NEW k \in Kthread, Jump(k)
  PROVE  StackInv'
<1> USE SchedAssumption DEF Jump
<1> PICK s : s = self[k]
  OBVIOUS
<1>1. s \in Thread /\ ~stack_busy[s] /\ Runs(k)
  BY DEF IInv, SelfSet, Runs
<1>2. \A j \in Kthread : stack[j] # s
  <2> SUFFICES ASSUME NEW j \in Kthread, stack[j] = s PROVE FALSE
    OBVIOUS
  <2>1. CASE pc[j] \in {"enter", "jmp"}
    BY <1>1, <2>1 DEF StackInv, Leaving
  <2>2. CASE pc[j] \in {"run", "yield"}
    <3>1. Holds(j, s) /\ Holds(k, s)
      BY <1>1, <2>2 DEF Holds, Runs, IInv, OnStack
    <3>2. j = k
      BY <1>1, <3>1 DEF IInv, Places
    <3> QED
      BY <2>2, <3>2
  <2>3. CASE pc[j] \in {"sched", "blocked"}
    BY <1>1, <2>3 DEF StackInv, OffStack
  <2>4. pc[j] # "yieldk" /\ pc[j] \in PCs
    BY DEF StackInv, NoPreempt, IInv, TypeOK, KthreadsOK
  <2> QED
    BY <2>1, <2>2, <2>3, <2>4 DEF PCs
<1>3. /\ pc' = [pc EXCEPT ![k] = "run"] /\ stack' = [stack EXCEPT ![k] = s]
      /\ UNCHANGED <<state, self, preempt>>
  BY DEF kvars
<1>4. \A t \in Thread : stack_busy'[t] <=> stack_busy[t] /\ t # stack[k]
  BY DEF IInv, TypeOK, ThreadsOK, KthreadsOK
<1>5. \A j \in Kthread, t \in Thread : Leaving(j, t)' <=> Leaving(j, t) /\ j # k
  BY <1>3 DEF Leaving, IInv, TypeOK, KthreadsOK
<1>6. \A j \in Kthread, t \in Thread : t = stack[k] /\ Leaving(j, t) => j = k
  BY DEF Leaving, StackInv, StackExclusive
<1>7. \A t \in Thread : Leaving(k, t) => t = stack[k]
  BY DEF Leaving
<1>8. \A t \in Thread : stack_busy'[t] <=> \E j \in Kthread : Leaving(j, t)'
  BY <1>4, <1>5, <1>6, <1>7 DEF StackInv
<1>9. StackExclusive'
  BY <1>2, <1>3 DEF StackInv, StackExclusive, IInv, TypeOK, KthreadsOK
<1>10. NoPreempt' /\ OffStack' /\ BusyNotFree'
  BY <1>3, <1>4 DEF StackInv, NoPreempt, OffStack, BusyNotFree, IInv, TypeOK, KthreadsOK
<1> QED
  BY <1>8, <1>9, <1>10 DEF StackInv

\* Every step keeps the invariant as long as no preemption is signalled.
LEMMA NextStackInv ==
  ASSUME Preemption = FALSE, IInv, StackInv, [Next]_vars
  PROVE  StackInv'
<1>1. ASSUME NEW k \in Kthread, Kernel(k) PROVE StackInv'
  <2>1. ~YieldKthread(k) /\ ~YieldKthreadPark(k)
    BY DEF StackInv, NoPreempt, YieldKthread, YieldKthreadPark
  <2> QED
    BY <1>1, <2>1, ChooseStackInv, FastStackInv, EntryStackInv, UserStackInv,
       SoftirqStackInv, QuietStackInv, JumpStackInv, ParkStackInv DEF Kernel
<1>2. ASSUME NEW k \in Kthread, User(k) PROVE StackInv'
  BY <1>2, NewThreadStackInv, QuietStackInv, UserStackInv, YieldStackInv, ExitStackInv DEF User
<1>3. ASSUME NEW k \in Kthread, Environment(k) PROVE StackInv'
  <2>1. ~Sigusr1(k)
    BY DEF Sigusr1
  <2> QED
    BY <1>3, <2>1, EntryStackInv, QuietStackInv DEF Environment
<1>4. CASE UNCHANGED vars
  BY <1>4, SameStacks DEF vars, tvars, kvars, pvars
<1> QED
  BY <1>1, <1>2, <1>3, <1>4 DEF Next

\* Without preemption signals no two kthreads execute on the stack of the same
\* thread, for any number of kthreads and threads: the wait of jmp_thread and
\* jmp_thread_direct on stack_busy is enough.
THEOREM StacksAreExclusive ==
  ASSUME Preemption = FALSE
  PROVE  Spec => []StackExclusive
<1>1. Init => StackInv
  BY InitStackInv
<1>2. IInv /\ StackInv /\ [Next]_vars => StackInv'
  BY NextStackInv
<1>3. StackInv => StackExclusive
  BY DEF StackInv
<1> QED
  BY <1>1, <1>2, <1>3, SpecIInv, PTL DEF Spec

\* Without preemption signals stack_busy is set exactly while a kthread that
\* published the thread is on its stack, for any number of kthreads and
\* threads: a spin on it always has somebody who will end it.
THEOREM BusyOnlyWhileLeaving ==
  ASSUME Preemption = FALSE
  PROVE  Spec => []BusyWhileLeaving
<1>1. Init => StackInv
  BY InitStackInv
<1>2. IInv /\ StackInv /\ [Next]_vars => StackInv'
  BY NextStackInv
<1>3. StackInv => BusyWhileLeaving
  BY DEF StackInv, BusyWhileLeaving, Leaving
<1> QED
  BY <1>1, <1>2, <1>3, SpecIInv, PTL DEF Spec

-----------------------------------------------------------------------------
\* A parked kthread waits on park_efd and has nothing queued.
ParkedEmpty ==
  \A k \in Kthread :
    parked[k] => /\ pc[k] = "blocked"
                 /\ rq[k] = << >> /\ rrq[k] = << >> /\ rq_overflow[k] = << >>

\* A step that leaves the parked kthreads alone.
LEMMA KeepsParked ==
  ASSUME ParkedEmpty,
         \A j \in Kthread : parked'[j] => parked[j] /\ SameQueues(j) /\ pc'[j] = pc[j]
  PROVE  ParkedEmpty'
  BY DEF ParkedEmpty, SameQueues

\* thread_throw by k touches no parked kthread.
LEMMA ThrowParked ==
  ASSUME QueuesOK, ParkedEmpty, NEW k \in Kthread, NEW t, NEW kidx \in Targets,
         pc[k] # "blocked", Throw(k, t, kidx)
  PROVE  \A j \in Kthread : parked[j] => SameQueues(j)
<1>1. ~parked[k]
  BY DEF ParkedEmpty
<1>2. CASE Push(k, t)
  BY <1>1, <1>2 DEF Push, PushAll, SameQueues, QueuesOK
<1>3. CASE PushRemote(kidx, t)
  BY <1>3 DEF PushRemote, SameQueues, QueuesOK
<1> QED
  BY <1>2, <1>3 DEF Throw

\* The calls of a running thread leave the parked kthreads empty.
LEMMA UserParked ==
  ASSUME IInv, ParkedEmpty, NEW k \in Kthread, User(k) \/ YieldThrow(k)
  PROVE  ParkedEmpty'
<1> USE DEF IInv, TypeOK
<1>1. ASSUME NEW t \in Thread, ThreadSpawn(k, t) \/ ThreadCreate(k, t) PROVE ParkedEmpty'
  <2>1. ~parked[k] /\ UNCHANGED <<pc, parked>>
    BY <1>1 DEF ParkedEmpty, ThreadSpawn, ThreadCreate, Running, kvars, pvars
  <2>2. \A j \in Kthread \ {k} : SameQueues(j)
    BY <1>1 DEF ThreadSpawn, ThreadCreate, Push, PushAll, SameQueues, QueuesOK, qvars
  <2> QED
    BY <2>1, <2>2, KeepsParked
<1>2. ASSUME NEW t \in Thread, NEW kidx \in Targets,
             ThreadThrow(k, t, kidx) \/ ThreadSwap(k, t, kidx) PROVE ParkedEmpty'
  <2>1. /\ pc[k] # "blocked" /\ ~parked[k] /\ parked' = parked
        /\ \E u : Throw(k, u, kidx)
    BY <1>2 DEF ParkedEmpty, ThreadThrow, ThreadSwap, Running, kvars
  <2>2. \A j \in Kthread \ {k} : pc'[j] = pc[j]
    BY <1>2 DEF ThreadThrow, ThreadSwap, pvars, KthreadsOK
  <2>3. \A j \in Kthread : parked[j] => SameQueues(j)
    BY <2>1, ThrowParked
  <2> QED
    BY <2>1, <2>2, <2>3, KeepsParked
<1>3. CASE YieldThrow(k)
  <2>1. /\ pc[k] # "blocked" /\ ~parked[k] /\ parked' = parked
        /\ \A j \in Kthread \ {k} : pc'[j] = pc[j]
    BY <1>3 DEF ParkedEmpty, YieldThrow, kvars, KthreadsOK
  <2>2. PICK u, kidx : Throw(k, u, kidx) /\ kidx \in Targets
    BY <1>3 DEF YieldThrow, SelfSet, ThreadsOK
  <2>3. \A j \in Kthread : parked[j] => SameQueues(j)
    BY <2>1, <2>2, ThrowParked
  <2> QED
    BY <2>1, <2>3, KeepsParked
<1>4. CASE ThreadPark(k) \/ ThreadYield(k) \/ ThreadExit(k)
  <2>1. ~parked[k] /\ parked' = parked /\ \A j \in Kthread \ {k} : pc'[j] = pc[j]
    BY <1>4 DEF ParkedEmpty, ThreadPark, ThreadYield, ThreadExit, Running, kvars, KthreadsOK
  <2>2. \A j \in Kthread : SameQueues(j)
    BY <1>4 DEF ThreadPark, ThreadYield, ThreadExit, SameQueues, qvars
  <2> QED
    BY <2>1, <2>2, KeepsParked
<1>5. ASSUME NEW r \in Kthread, JoinKthread(k, r) PROVE ParkedEmpty'
  <2>1. ~parked[k] /\ UNCHANGED <<pc, parked, rrq>> /\ r # k
    BY <1>5 DEF ParkedEmpty, JoinKthread, Running, pvars
  <2>2. \A j \in Kthread \ {k, r} : SameQueues(j)
    BY <1>5 DEF JoinKthread, SameQueues, QueuesOK
  <2>3. rq'[r] = << >> /\ rq_overflow'[r] = << >>
    BY <1>5 DEF JoinKthread, QueuesOK
  <2> QED
    BY <2>1, <2>2, <2>3 DEF ParkedEmpty, SameQueues
<1> QED
  BY <1>1, <1>2, <1>3, <1>4, <1>5 DEF User

\* schedule() and enter_schedule leave the parked kthreads empty, and a kthread
\* that parks in schedule() has found its queues empty.
LEMMA KernelParked ==
  ASSUME IInv, StackInv, ParkedEmpty, NEW k \in Kthread, Kernel(k)
  PROVE  ParkedEmpty'
<1> USE DEF IInv, TypeOK
<1>1. CASE EnterTargeted(k) \/ EnterFast(k) \/ EnterSlow(k) \/ Jump(k)
  <2>1. ~parked[k] /\ parked' = parked
    BY <1>1 DEF ParkedEmpty, EnterTargeted, EnterFast, EnterSlow, Jump, kvars
  <2>2. \A j \in Kthread \ {k} : pc'[j] = pc[j]
    BY <1>1 DEF EnterTargeted, EnterFast, EnterSlow, Jump, Claim, ScheduleEntry, KthreadsOK
  <2>3. \A j \in Kthread \ {k} : SameQueues(j)
    BY <1>1 DEF EnterTargeted, EnterFast, EnterSlow, Jump, SameQueues, QueuesOK, qvars
  <2> QED
    BY <2>1, <2>2, <2>3, KeepsParked
<1>2. CASE SchedTargeted(k) \/ SchedLocal(k) \/ \E t \in Thread : SchedSoftirq(k, t)
  <2>1. ~parked[k] /\ parked' = parked
    BY <1>2 DEF ParkedEmpty, SchedTargeted, SchedLocal, SchedSoftirq, SoftirqThread, kvars
  <2>2. \A j \in Kthread \ {k} : pc'[j] = pc[j]
    BY <1>2 DEF SchedTargeted, SchedLocal, SchedSoftirq, SoftirqThread, Claim, KthreadsOK
  <2>3. \A j \in Kthread \ {k} : SameQueues(j)
    BY <1>2 DEF SchedTargeted, SchedLocal, SchedSoftirq, SameQueues, QueuesOK
  <2> QED
    BY <2>1, <2>2, <2>3, KeepsParked
<1>3. ASSUME NEW r \in Kthread, StealQueue(k, r) \/ StealOverflow(k, r) PROVE ParkedEmpty'
  <2>1. ~parked[k] /\ ~parked[r] /\ parked' = parked
    BY <1>3 DEF ParkedEmpty, StealQueue, StealOverflow, Stealing, kvars
  <2>2. \A j \in Kthread \ {k, r} : SameQueues(j)
    BY <1>3 DEF StealQueue, StealOverflow, SameQueues, QueuesOK
  <2>3. \A j \in Kthread \ {k} : pc'[j] = pc[j]
    BY <1>3 DEF StealQueue, StealOverflow, Claim, KthreadsOK
  <2> QED
    BY <2>1, <2>2, <2>3, KeepsParked
<1>4. ASSUME NEW r \in Kthread,
             StealNothing(k, r) \/ \E t \in Thread : StealSoftirq(k, r, t) PROVE ParkedEmpty'
  <2>1. ~parked[k] /\ parked' = parked /\ \A j \in Kthread : SameQueues(j)
    BY <1>4 DEF ParkedEmpty, StealNothing, StealSoftirq, Stealing, SoftirqThread, SameQueues, qvars
  <2>2. \A j \in Kthread \ {k} : pc'[j] = pc[j]
    BY <1>4 DEF StealNothing, StealSoftirq, SoftirqThread, KthreadsOK
  <2> QED
    BY <2>1, <2>2, KeepsParked
<1>5. CASE SchedPark(k)
  BY <1>5 DEF ParkedEmpty, SchedPark, KthreadPark, KthreadsOK, qvars
<1>6. ~YieldKthread(k) /\ ~YieldKthreadPark(k)
  BY DEF StackInv, NoPreempt, YieldKthread, YieldKthreadPark
<1> QED
  BY <1>1, <1>2, <1>3, <1>4, <1>5, <1>6, UserParked DEF Kernel

\* Without preemption signals a kthread that was detached while parked has no
\* runnable thread, for any number of kthreads: kthread_detach, called by
\* steal_work and join_kthread, strands nobody.
THEOREM DetachStrandsNobody ==
  ASSUME Preemption = FALSE
  PROVE  Spec => []DetachedIsEmpty
<1> DEFINE J == StackInv /\ ParkedEmpty
<1>1. Init => J
  BY InitStackInv DEF Init, ParkedEmpty
<1>2. ASSUME IInv, J, [Next]_vars PROVE J'
  <2>1. StackInv'
    BY <1>2, NextStackInv
  <2>2. ASSUME NEW k \in Kthread, Environment(k) PROVE ParkedEmpty'
    <3>1. \A j \in Kthread : SameQueues(j)
      BY <2>2 DEF Environment, Unpark, SoftirqArrives, Sigusr1, SameQueues, qvars
    <3>2. \A j \in Kthread : parked'[j] => parked[j] /\ pc'[j] = pc[j]
      BY <1>2, <2>2 DEF Environment, Unpark, ScheduleEntry, SoftirqArrives, Sigusr1, pvars,
                        IInv, TypeOK, KthreadsOK
    <3> QED
      BY <1>2, <3>1, <3>2, KeepsParked
  <2>3. ASSUME UNCHANGED vars PROVE ParkedEmpty'
    BY <1>2, <2>3 DEF vars, qvars, kvars, pvars, ParkedEmpty
  <2> QED
    BY <1>2, <2>1, <2>2, <2>3, UserParked, KernelParked DEF Next
<1>3. J => DetachedIsEmpty
  BY DEF ParkedEmpty, DetachedIsEmpty
<1> QED
  BY <1>1, <1>2, <1>3, SpecIInv, PTL DEF Spec
=============================================================================
