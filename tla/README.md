# A TLA+ verification of libut

libut is a library of user threads (uthreads) derived from Shenango. Kernel
threads ("kthreads") multiplex uthreads, steal work from each other, park when
idle, and are woken and preempted by a separate process, the core allocator
(`hwalloc`, called iokernel in the comments of the code). This directory holds
TLA+ modules of its concurrent parts, TLC configurations that check them on
small instances, and TLAPS proofs of the most important properties for every
number of kthreads, threads, items and clients.

`PROJECT.json` maps every definition to the lines it models, and lists the
components, the runs, at least one mutant per checked property, the findings, the hazards
and the theorems.

    tlc -workers 2 -config SchedThree.cfg MCSched      # one run
    tlapm SchedProofs.tla                              # one proof module

## 1. Inventory

| Part | Source | State | Operations | What is hard about it |
|---|---|---|---|---|
| Scheduler | `runtime/sched.c`, `switch.S`, `defs.h` | per thread `state`, `stack_busy`, `kthread_wanted`; per kthread ring `rq`, remote ring `rrq`, list `rq_overflow`, `__self` | spawn, create, ready, throw, park, yield, swap, exit, `enter_schedule`, `schedule`, `steal_work`, `join_kthread` | a thread is visible to wakers and thieves before its kthread has left its stack |
| Parking | `runtime/kthread.c` | `parked`, `detached`, `runningks`, `ks[]` | park, attach, detach | the allocator, thieves and the owner decide concurrently |
| Softirqs, preemption | `softirq.c`, `preempt.c`, `preempt.h` | pending work, `preempt_cnt` | gather and run, SIGUSR1 | run in a borrowed thread, or at any instruction |
| Mutex, rwmutex, condvar, wait group, barrier | `runtime/sync.c` | counters, waiter lists | see the modules | waiters are popped under a lock and woken after it is released |
| C++ threads | `bindings/cc/thread.cc` | `join_data` on the child's stack | construct, Join, Detach | lifetime of `join_data` |
| LRPC | `lrpc.h`, `lrpc.c` | table with parity bits, wrapping counters, written-back head | send, receive | lock-free, shared between processes |
| Timers | `runtime/timer.c` | one heap per kthread; `armed`, `idx`, `localk` per entry | start, init, sleep, cancel, merge, softirq | entries move between heaps, handlers run outside the lock |
| Core allocator | `hwalloc/cores.c`, `rx.c`, `commands.c`, `ref.h` | cores and their history, active and idle threads, references | park, wake, preempt, hand on, adjust, add and remove | messages and wakeups cross with parks; a preempted core has an owner and a thread that waits for it |
| Control and data plane | `hwalloc/control.c`, `dataplane.c` | tables of clients, two channels, `nr_guaranteed` | add, remove, release, free | two threads share a `struct proc` that one of them frees |
| Thread caches | `base/tcache.c` | magazines, shared list | alloc, free, reclaim | magazines travel between threads |
| Allocators | `slab.c`, `page.c`, `mempool.c`, `runtime/stack.c` | pages, chains, arrays, references | batches of alloc and free | batches that fail half-way, outside the lock |
| Lists | `inc/base/list.h` | next and prev pointers | add, delete, pop, append, prepend | splices through the old head |
| Generations | `inc/base/gen.h` | generation number | active, inactive, compare | used by a test only |

The parts meet as follows. Every blocking operation of `sync.c`, the timers and
`rt::Thread` ends in `thread_park_and_unlock_np` and is ended by `thread_ready`;
these two, as the scheduler sees them, are `ThreadPark` and `ThreadThrow` of
module `Sched`, in which *any* waker may wake *any* sleeping thread at any time
after it was published. The modules of the synchronisation objects can therefore
treat parking and waking as single steps. Kthreads and the allocator talk over
LRPC channels: `Cores` and `Control` take a channel for a queue, which is what
`Lrpc` implements. Every allocator hands batches to a thread cache; the cache and
each backend implement the same abstract `Pool`, so that the backend of `Tcache`
can be a set of items. Every list of the code is a sequence or a set in the
modules; `List` shows that its pointers behave like one. The rings of `Sched` are
sequences on which every operation is one step; `RunQueue` shows that the ring with
its counters and its push without the lock is such a queue (`WorkQueue`).

## 2. Modules

| Module | Models | |
|---|---|---|
| `Sched` | scheduler with parking, softirqs, preemption | one action per operation or per section between two points where another kthread can interfere |
| `Mutex` | `mutex_t` | refines `LockSpec` |
| `CondVar` | `condvar_t` composed with the mutex (extends `Mutex`) | |
| `RwMutex`, `WaitGroup`, `Barrier` | the other objects of `sync.c` | |
| `ThreadJoin` | `rt::Thread` | |
| `Lrpc` | LRPC channel, one step per access to shared memory | refines `Channel` |
| `RunQueue` | ring and overflow list of one kthread, one step per access that races with a push | refines `WorkQueue` |
| `LockSpec`, `Channel`, `Pool`, `WorkQueue` | what a fair lock, a bounded FIFO channel, an allocator and a runqueue promise | abstract |
| `Timer` | heaps of the kthreads, timer entries | |
| `Cores` | data plane of hwallocd and the parking kthreads | |
| `Control` | control thread of hwallocd against its data plane | |
| `Tcache` | thread-local caches | refines `Pool` |
| `Mempool`, `Slab`, `Stack` | backends of the caches | each refines `Pool` |
| `Page` | large pages and their references | |
| `List` | intrusive lists | |
| `MCSched`, `MCCores` | instances for TLC | |
| `MCObjects` | `CondVar` with `Mutex`, `RwMutex`, `WaitGroup`, `Barrier`, `ThreadJoin`, `Lrpc`, `Timer` side by side | the initial state picks the object a behaviour uses |
| `MCPlatform` | `Tcache`, `Mempool`, `Stack`, `Page`, `Slab`, `List`, `RunQueue`, `Cores`, `Control` side by side | likewise |
| `SeqLemmas`, `SchedQueueProofs`, `SchedProofs`, `SchedStackProofs`, `MutexProofs`, `CondVarProofs`, `TcacheProofs`, `ControlProofs` | proofs | |

### Sched

`pc[k]` says where kthread k is: on a uthread (`run`, `yield`), in
`enter_schedule` still on the stack of the uthread it leaves (`enter`), in
`schedule()` on the runtime stack with `kthread.lock` held (`sched`), spinning on
`stack_busy` of the next thread (`jmp`), in `thread_finish_yield_kthread`
(`yieldk`), or reading `park_efd` (`blocked`). `self` is `__self`; `stack` is the
uthread stack the kthread physically executes on. That the two differ between
publishing a thread and the switch is the point of the model.

Abstractions:
- Rings are sequences with a capacity (see `RunQueue`). A thief takes half of what
  was in the ring when it loaded `rq_head`; the owner may have pushed more by the time
  it stores `rq_tail`, so `StealQueue` takes between one thread and half of them.
- A section under another kthread's lock is one step: `steal_work`, the locked
  part of `thread_throw`, and `join_kthread`, including its loop that re-readies
  the threads it collected (they are on a list local to the caller).
- A failed `spin_try_lock` may happen at any time, because a third kthread may
  hold the lock; so `thread_throw` may always fall back to the local queue and
  `StealNothing` is always enabled.
- `schedule()` may steal although softirq work of its own is pending: it may
  have arrived after the test, or there was no free thread for it.
- `kthread_wanted` of a fresh thread is whatever the slab memory held, since
  `__thread_create` does not set it.
- `runningks` counts the kthreads that are not blocked; the test and the
  decrement in `kthread_park` are one step.
- Statistics, `rcu_gen` and the order in which victims are tried are left out.

### RunQueue

`thread_ready` loads `rq_tail`, writes a slot and publishes `rq_head` in three steps,
with no lock. A thief holds the lock while it loads `rq_head`, copies slot by slot and
stores `rq_tail`; `lock` says how far it is. Everything else happens under the lock by
the owner itself, or while the owner is parked, and is one step. Slots keep the
threads that have left them, so that reading a slot too early or too late gives a
wrong thread, and `Wrap` stands for 2^32. `JoinWrapped` says whether `join_kthread` may
meet a ring of which only `rq_head` has wrapped, which its loop, a comparison with `<`,
skips; only the run of finding 7 allows it, and `platform` is about the other rings.
`rrq`, which is written under the lock only, appears as `ThrowOverflow`, when it is
full, and as `ScheduleOther`.

What the refinement brings to light is how stale the two decisions may be. A thread
can go to the overflow list although a thief has made room in the meantime, so `Push`
of `WorkQueue` allows it at any time; `Sched` decides and pushes in one step, which is
the same queue with the push moved before the steal. And a thief may take less than
half, which `Sched` allows, too.

### Synchronisation objects

One action per section under the object's spin lock, and one for every
`thread_ready` after it was released; `tmp` and `waketh` are the locals that
hold the popped threads in between. In `CondVar`, `cv_lock` is explicit because
`condvar_wait` holds it across its `mutex_unlock`. `condvar_signal_and_swap` is
`Signal`: it pops like `condvar_signal`, and although it switches to the waiter at once,
which its comment (`sync.c:263`) calls HOARE, the waiter has to lock the mutex like
anybody else, and a third thread may have it before.

### Lrpc

Payload, command with parity, and the written-back head are written and read in
separate steps in program order; acquire and release pairs of the code make these
the only orders. `Wrap` stands for 2^32. The sender may use its cached tail or
reload it.

### Timer

The array of a heap is a function on `0 .. timern-1`; `sift_up`, `sift_down` and
the bottom-up pass of `timer_merge` are translated with the `idx` fields they keep.
A section under `timer_lock` is one step; `timer_cancel` reads `localk` in a step
before it, and the handler of `timer_softirq` is a step after it. `fate` is a
history variable: queued, popped, fired or cancelled. `timer_init` does not set
`localk`, so that the `localk` of a timer that was never started is any kthread or
nothing; `CancelFaults` is a `timer_cancel` that follows the latter, and ends the
behaviour. A cancel that finds the entry in no heap (finding 4) leaves an empty array
empty: what such a call does to memory outside the array is not modelled. `CancelExpired` says
whether users cancel timers whose deadline has passed; the run that passes sets
it to false, because with it finding 4 breaks the heaps. The model calls
`timer_init` before a timer that fired is started again, as the `BUG_ON` of
`timer_start_locked` demands.

### Cores

The data plane is one thread, so that a handler is one step and its functions map
the record `dp` to the next, in the order of the code, `BUG_ON`s included. The
congestion that `cores_is_proc_congested` measures is any choice, as are the due
timers. A kthread parks in three steps: the command, the clearing of its
preemption flag, the read of its eventfd, whose value is the sum of what was
written. Hyperthread siblings are compiled out (`CORES_NOHT`, `cores.c:17`).
A process is added when the guarantees of those the data plane knows leave room for
it: the control thread tells it of a removal before it admits the next, and these
messages are not lost here (`Control` loses them). A process may be marked removed at
any time, and handlers go on until its removal is handled. `ExitRaces` says whether it
may be so while a thread of it waits for a core it has preempted; only the run of
finding 5 allows it, and `NoRace` leaves these states out of `platform`.

### Control

Control thread and data plane take turns message by message. `select` returns
what was ready at that moment, and `control_loop` handles it one by one. A full
channel drops the message, as the code does after logging, and `BurstEnds`
loses the message that is received when the burst is already used up.
`referenced` are the clients that `core_history` still points to after they are
removed; when exactly such a reference goes is the business of `Cores`. A client
that `control_create_proc` refuses late keeps its share of `nr_guaranteed`, as
in the code.

### Memory

A magazine, a chain and a page list are sets, because their order only decides
which item comes next. `Tcache` separates the look at the shared list, the call of the
backend and the increment of `mags_allocated` after it, and `tcache_reclaim` into the
unhooking and, per magazine, the call of the backend and the decrement.
In `Mempool` and `Stack` a batch that fails gives back what it took in a step of
its own, since the code has released the lock by then. `ArrayBounded` is a bound on
what failed batches can leave in `free_stacks`, less than a magazine per kthread: with
256 kthreads and magazines of 8 that is 1792 of the 100000 entries of the array. In `Slab` the lock is
explicit: a batch holds it throughout, a free takes it per item, and `page_put`
comes after it. `thread_numa_node` is 0 for every thread (`base/thread.c`), hence
one node. In `Page` only the index and the list are under the lock.

## 3. Runs

| Run | Instance | Shows |
|---|---|---|
| `sched_preempt` | 2 kthreads, 2 threads, one-slot rings, all targets, softirqs, SIGUSR1, `spinks` = 1 | `TypeOK`, `OnePlace`: every thread is in exactly the place its state names, rings keep to their size |
| `sched_three` | 3 kthreads, 3 threads, ring 2, remote ring 1, no preemption | `StackExclusive`, `BusyWhileLeaving`, `NoSpinCycle`, `DetachedIsEmpty` |
| `sched_live` | 2 kthreads, 3 threads, one-slot rings, targets k1 and none, watchdog | `RunnableRuns` |
| `sched_starve` | the same, all wakeups with target k1 | violates `YieldingLetsRun` (finding) |
| `sched_preempt_stack` | with SIGUSR1 | violates `StackExclusive` (finding) |
| `sched_preempt_detach` | with SIGUSR1 | violates `DetachedIsEmpty` (finding) |
| `objects` | 4 threads on a mutex and a condvar, 4 on the rwmutex, 3 workers and 3 waiters, 4 threads and 3 rounds, 2 joins, a channel of 2 slots with counters modulo 8, 2 timers and a sleeper on 2 kthreads | `MutualExclusion`, `HeldMeansOwned`, `ImplementsLock`, `WaiterAcquires`, `NoLostWakeup`, `SignalledReturns`; `WriterExcludes`, `CountIsHolders`, `ReaderAcquires`; `WaitsForAll`; `Lockstep`; `JoinSafe`; `RingSound`, `ImplementsChannel`; `HeapOrder`, `SlotsExact`, `TimersFire`; `EverythingReturns` |
| `timer_cancel` | 3 timers, users that cancel at any time | violates `TrueMeansCancelled` (finding) |
| `platform` | see below | `OnePlaceEach`, `MagazinesFull`, `ItemsAccounted`, `PagesPlaced`, `ArrayBounded`, `AllImplement`; `QueuesFaithful`; `NoBug`, `CoreOwnership`, `CountersExact`, `RefsExact`, `WakeExact`; `NoDangling`, `PromiseCovered` |
| `cores_exit` | as in `platform`, with 3 parks and removals at any time | violates `NoBug` (finding) |
| `cores_timer` | as in `platform` | violates `DeadlineKept` (finding) |
| `runqueue_join` | 2 threads, ring of 2 slots, counters modulo 4 | violates `JoinRewakes` (finding) |

The instances of `platform`: caches of 2 threads with magazines of 2 over 7 items; a
pool of 5 items; 3 kthreads and 7 stacks; 4 large pages; slab pages of 4 items with
batches of 1 and 3; 2 lists and 4 nodes; a ring of 3 slots with
counters modulo 6 and 4 threads; 2 processes, 3 kthreads and 2 cores with 2
calls of `kthread_park`; 3 clients for 2 cores. `AllImplement` is about the five
parts that have an abstract specification, the caches, the pool, the stacks, the slab and
the runqueue; the large pages of `Page` are in `ItemsAccounted`.

Why the bounds are enough. The hand-over of a stack involves at most three
kthreads: the one that leaves, the one that claims, and a third that stole or was
handed the thread. Two kthreads and two threads on one-slot rings already fill
every ring and use the overflow list. Starvation takes a third thread: two that keep
waking each other, and one that waits. Stealing more than one thread at a time
needs longer rings: `RunQueue` has a ring of three slots, of which a thief takes two
and which the fourth thread overflows, and the proofs hold for all sizes. For
LRPC two passes distinguish the parities and a third reuses them. The objects need
one holder, two parked threads of a kind and one that arrives late. `Barrier` bounds
the rounds by `MaxRounds`; three rounds are one that is over, one in progress and
one that fast threads have entered already. Three timers in a binary heap give a
root with two children, which is where `sift_down` has a choice; two kthreads give
a merge in each direction. A cache needs a magazine in every place a thread can have
one, one in the shared pool, and a backend that cannot fill another: seven items do
that, and an odd number leaves a batch half-way. Two cores and three kthreads of two
processes give a process above its guarantee, one below it, and a preemption; two
parks (`MaxParks`) let a wakeup meet a second park, and the run of finding 5 has three.
In `Control` the third client connects when the first is being removed. `MaxRefs`,
`RxqSize` and `MaxTime` bound what would grow for ever in the same way.

Deadlock is checked in the `sched` runs. On a condvar all threads may wait for a
signal, and in the others a part stops when its bound is reached.

### Fairness

- `Sched`: a kthread's own code continues (weak fairness of `Kernel`); uthreads
  are cooperative: one that runs again and again yields, parks or exits at some
  point (strong fairness); the allocator wakes the kthread that has the main
  thread (`cores_init_proc`); with the watchdog, a kthread that keeps entering
  `enter_schedule` finds the deadline exceeded again and again (strong fairness of
  `EnterSlow`, whose enabling in the model stands for the passage of time).
- Objects: a thread that holds a lock releases it, and operations that do not
  block run to their end. Nothing is assumed of locking or signalling threads.
- LRPC: the sender and the receiver finish what they began, and the receiver polls.
- Timers: time passes whatever users do (strong fairness of `Tick`, which is disabled
  while a cancel is under way); handlers return; a
  `timer_cancel` that retries gets the lock before the next merge some time
  (strong fairness of `CancelEnds`: merges follow parks, which are rare). That
  `timer_softirq` is called while a timer is due is no fairness assumption but the
  premise of `TimersFire`: a running kthread does so in `schedule()`, but when all
  kthreads are parked it depends on the data plane to wake one, and finding 6 is that
  it may not.
- `RunnableRuns` has an escape in place of an assumption: a thread may wait for ever
  where targeted threads come again and again (finding 3).

## 4. Findings

1. **`sched_preempt_stack`**: `thread_finish_yield_kthread` publishes the
   preempted thread and parks with `__self` still set. When the kthread is woken,
   `schedule()` clears `stack_busy` of that thread, although another kthread may be
   leaving its stack at that time; a third party then enters a stack in use. Without
   preemption this cannot happen (`StacksAreExclusive`).
2. **`sched_preempt_detach`**: neither `join_kthread` nor `steal_work` looks at
   `rrq`, so that a kthread preempted with targeted threads is detached with them.
   Without preemption this cannot happen (`DetachStrandsNobody`).
3. **`sched_starve`**: `schedule()` and `enter_schedule` take targeted threads before
   the runqueue, with no bound. Two threads on two kthreads that park and wake each other
   with the same target keep a third, in the runqueue of that kthread, from running,
   watchdog or not. `RunnableRuns` says that nothing else does.
4. **`timer_cancel`**: `timer_softirq` takes an entry off its heap and leaves
   `armed` set. `timer_cancel` of a timer that is firing or has fired returns true
   and removes whatever entry is at the old index. `HeapOrder`, `SlotsExact` and
   `TimersFire` hold for users that only cancel timers that are not due yet.
5. **`cores_exit`**: a thread that waits for a core it preempted is not available, and
   `cores_free_proc` takes it for one that occupies a core. When its process is removed
   at that moment, `pick_thread_for_core` also passes it over and leaves it in `next`.
   The park or the grant that comes next on that core runs into a `BUG_ON`. The `Cores`
   properties of `platform` are checked in the states in which no removed process waits
   for a core (`NoRace`), and say nothing of the others.
6. **`cores_timer`**: the last kthread to park sends the time of its first timer, and the
   data plane stores it only if no thread of the process is active. The queues of the
   kthreads are polled one by one, so that a kthread whose park was sent earlier may
   still count as active; the time is then dropped, and with all kthreads parked nobody
   looks at the timer.
7. **`runqueue_join`**: `join_kthread` compares the wrapping counters of the ring with
   `<`. When only `rq_head` has wrapped it drops the threads in the ring. It takes 2^32
   pushes to a kthread whose ring never runs empty, since `schedule()` resets the counters
   of an empty ring.

## 5. Proofs

Assumptions: `SchedAssumption`, `MutexAssumption`, `TcacheAssumption` and
`ControlAssumption`, the constraints on the constants, which TLC evaluates in the
runs.

- **Types and `OnePlace`** (`SchedProofs`), with or without preemption.
  `OnePlace` is not inductive: a step that moves `self[k]` to a queue must know
  that `self[k]` is a thread and that kthread k is the one that holds it. `IInv`
  adds the types, `SelfSet` (when `__self` is set) and `OnStack` (when the stack is
  that of `__self`), and splits `OnePlace` into `SlotsDistinct` and `Places`.
  `SeqLemmas` and `SchedQueueProofs` say what pushing, popping, draining, stealing
  and joining do to the *set* of queued threads and to the distinctness of slots;
  with them each action has one lemma.
- **Stacks** (`SchedStackProofs`), without preemption. `StackInv`: `stack_busy[t]`
  exactly while a kthread that published t is on its stack; then whoever else is on
  a stack that is not busy still has its thread as `__self`, and `OnePlace` says
  that is only one. `ParkedEmpty` (a parked kthread has nothing queued) gives
  `DetachedIsEmpty`.
- **Mutex** (`MutexProofs`): exclusion, `HeldMeansOwned`,
  and the refinement of `LockSpec` (a lock whose owner hands it to the first of the
  queue, so that nobody barges in), where the owner is the thread in its critical
  section or the one popped by `mutex_unlock`. The inductive invariant says that
  queued and popped threads are parked, are distinct, and that there is one owner.
- **Condition variable** (`CondVarProofs`): the composition takes only steps of the
  mutex or none (`CondVarUsesMutex`), so that all of the above carries over, and no
  wakeup is lost.

- **Thread caches** (`TcacheProofs`), for any number of threads, any finite set of
  items and any magazine size. `OnePlaceEach` and `MagazinesFull` are inductive only
  together: that a magazine is not in the shared pool twice needs that it is not
  empty, and that `rounds` counts the loaded magazine needs that an item freed into
  it was not there. `MissingEmpty` (a thread on its way to the backend has nothing
  loaded) carries this over the step in which the lock is released, and
  `CountExact` says that `mags * MagSize` is the number of items outside the backend, up
  to the magazines that a thread has got, or `tcache_reclaim` has given back, and not
  counted yet. From the same
  invariant every step is one of `Pool` or a stutter (`CacheImplementsPool`).
- **Control** (`ControlProofs`), for any set of clients and any sizes of channels and
  bursts, with messages that are lost. `NoDangling` needs to know what is still in
  the channel behind a message: `ChannelInv` says that the messages about one client
  are at most an ADD and then a REMOVE, no ADD for a client the data plane knows and
  none at all for one it has let go; `PhaseInv` says that a client is new, connecting,
  with the data plane, referenced, on its way back or freed, in that order.
  `PromiseInv` relates `nr_guaranteed` to the number of clients not yet removed, and
  `NoticeInv` says that the notice of a client's release is on its way back at most once,
  and not after the client was freed, so that no client is freed twice.

Checked by TLC only: all liveness, `NoSpinCycle` (acyclicity over sets of
kthreads), LRPC and its refinement, the synchronisation objects other than mutex and
condition variable, the timers (their heaps are recursive operators), the
allocators behind the caches, the lists, the runqueue and the core allocator. Liveness needs
`ENABLED` and fairness, which the prover does not support.

## 6. Not modelled

- Input and output, set-up and pure helpers: configuration and option parsing,
  logging, `sysfs`, mapping of memory, the parsing of a client's shared region,
  affinities, bitmaps, hashes, the C++ wrappers.
- The counters of `rrq`, whose size, 7, does not divide 2^32.
- A scheduler without the watchdog (`disable_watchdog`): only `schedule()` drains the
  overflow list, and the fast path of `enter_schedule` does not call it while the ring is
  not empty, so that a thread in the list can wait for ever there.
- `kthread_detach` against the data plane: it tests `txq`, to which the park command may
  not have been sent yet. `Sched` detaches in one step, and `Cores` has no detach.
- The loss of an ADD or a REMOVE in `Cores`. In `Control` it leaves a client with the data
  plane for ever whose guarantee has been given back; that the cores may then not
  suffice (`cores.c:408`) is not covered.
- The two steps of `kthread_park` on `runningks`, and the array `ks[]`.
- The nesting counter of `preempt_disable`; preemption is deferred to the end of the
  critical section.
- The budget of a softirq, which is `-1` for the timers when all of it was used:
  `Timer` lets a softirq fire any number of entries in a row.
- Small pages: they are items of a slab behind a cache, and `Slab` and `Tcache` have
  both. `nr_pages` of a slab is a statistic, and is left out.
- An entry of the page table whose page cannot be created is lost in the code
  (`page.c:136`) and in `Page`; nothing in the repository promises otherwise.
- The checks of debug builds (`DEBUG` in `page.c`, `slab.c`, `mempool.c`).
- `gen.h`, which only a test uses.
- Hyperthread siblings in `cores.c`, which are compiled out.
