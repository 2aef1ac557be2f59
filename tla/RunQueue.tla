------------------------------ MODULE RunQueue ------------------------------
(***************************************************************************)
(* The runqueue of one kthread: the ring rq between the wrapping counters  *)
(* rq_tail and rq_head, and the list rq_overflow (struct kthread).         *)
(*                                                                         *)
(* Its kthread, the owner, pushes without the lock; all other accesses     *)
(* hold it.  Those of the owner and of join_kthread, when the owner is     *)
(* parked, are atomic, as nobody else is active.  A thief races with the   *)
(* pushes: each of its accesses to the ring is a step.  As thieves hold    *)
(* the lock, one at a time is active, and lock says where it is.           *)
(***************************************************************************)
EXTENDS Naturals, FiniteSets, Sequences, SequencesExt

CONSTANTS
  Thread,   \* the uthreads
  RqSize,   \* RUNTIME_RQ_SIZE
  Wrap,     \* the counters count modulo Wrap, 2^32 in the code
  JoinWrapped,  \* whether a ring of which only rq_head has wrapped is joined
  None      \* the content of a slot never written

RunQueueConstants ==
  /\ RqSize \in Nat \ {0} /\ Wrap \in Nat \ {0}
  /\ Wrap % RqSize = 0 /\ Wrap > RqSize
  /\ JoinWrapped \in BOOLEAN
  /\ None \notin Thread

VARIABLES
  rq,           \* the slots of the ring
  rq_head,      \* where the owner pushes
  rq_tail,      \* where the owner pops and thieves steal
  rq_overflow,  \* the overflow list
  opc,          \* where the owner is
  pushed,       \* the thread that the owner is pushing
  lock,         \* "free", or where the thief that holds the lock is
  avail,        \* the number of threads the thief takes
  loot,         \* the threads it has copied
  outside       \* the threads that run, sleep or are queued elsewhere

ringvars == <<rq, rq_head, rq_tail>>
ownervars == <<opc, pushed>>
thiefvars == <<lock, avail, loot>>
vars == <<ringvars, rq_overflow, ownervars, thiefvars, outside>>

\* The difference of two uint32_t counters, and their sum.
Minus(a, b) == (a + Wrap - b) % Wrap
Plus(a, n) == (a + n) % Wrap

Slot(n) == n % RqSize

\* The threads in the ring with these slots and counters, oldest first.
Content(slots, head, tail) ==
  [i \in 1 .. Minus(head, tail) |-> slots[Slot(tail + i - 1)]]

div_up(a, b) == (a + b - 1) \div b

Init ==
  /\ rq = [i \in 0 .. RqSize - 1 |-> None]
  /\ rq_head = 0 /\ rq_tail = 0
  /\ rq_overflow = << >>
  /\ opc = "run" /\ pushed = None
  /\ lock = "free" /\ avail = 0 /\ loot = << >>
  /\ outside = Thread

-----------------------------------------------------------------------------
\* Mutant: one thread too many fits.
ReadyLoadOffByOne(t) ==
  /\ opc = "run" /\ t \in outside
  /\ opc' = IF Minus(rq_head, rq_tail) > RqSize THEN "overflow" ELSE "write"
  /\ pushed' = t
  /\ outside' = outside \ {t}
  /\ UNCHANGED <<ringvars, rq_overflow, thiefvars>>

\* thread_ready: the load of rq_tail and the decision it leads to.
ReadyLoad(t) ==
  /\ opc = "run" /\ t \in outside
  /\ opc' = IF Minus(rq_head, rq_tail) >= RqSize THEN "overflow" ELSE "write"
  /\ pushed' = t
  /\ outside' = outside \ {t}
  /\ UNCHANGED <<ringvars, rq_overflow, thiefvars>>

\* thread_ready: the thread goes to the overflow list, under the lock.
ReadyOverflow ==
  /\ opc = "overflow" /\ lock = "free"
  /\ rq_overflow' = Append(rq_overflow, pushed)
  /\ opc' = "run" /\ pushed' = None
  /\ UNCHANGED <<ringvars, thiefvars, outside>>

\* k->rq[k->rq_head % RUNTIME_RQ_SIZE] = th
ReadyWrite ==
  /\ opc = "write"
  /\ rq' = [rq EXCEPT ![Slot(rq_head)] = pushed]
  /\ opc' = "publish"
  /\ UNCHANGED <<rq_head, rq_tail, rq_overflow, pushed, thiefvars, outside>>

\* store_release(&k->rq_head, k->rq_head + 1)
ReadyPublish ==
  /\ opc = "publish"
  /\ rq_head' = Plus(rq_head, 1)
  /\ opc' = "run" /\ pushed' = None
  /\ UNCHANGED <<rq, rq_tail, rq_overflow, thiefvars, outside>>

\* thread_throw to the owner by another kthread, when rrq is full.
ThrowOverflow(t) ==
  /\ lock = "free" /\ opc # "parked" /\ t \in outside
  /\ rq_overflow' = Append(rq_overflow, t)
  /\ outside' = outside \ {t}
  /\ UNCHANGED <<ringvars, ownervars, thiefvars>>

\* enter_schedule, the fast path: the owner pops its next thread.
EnterFast ==
  /\ opc = "run" /\ lock = "free"
  /\ rq_head # rq_tail
  /\ outside' = outside \cup {rq[Slot(rq_tail)]}
  /\ rq_tail' = Plus(rq_tail, 1)
  /\ UNCHANGED <<rq, rq_head, rq_overflow, ownervars, thiefvars>>

\* The queues of the owner.
Queues == [rq |-> rq, head |-> rq_head, tail |-> rq_tail, ov |-> rq_overflow]

\* drain_overflow: the queues q with the overflow list moved into the ring, as
\* far as there is room.
drain_overflow(q) ==
  LET room == RqSize - Minus(q.head, q.tail)
      n == IF room < Len(q.ov) THEN room ELSE Len(q.ov)
      At(i) == Slot(q.head + i - 1)
      new == {At(i) : i \in 1 .. n}
  IN  [rq |-> [s \in DOMAIN q.rq |->
                 IF s \in new THEN q.ov[CHOOSE i \in 1 .. n : At(i) = s]
                              ELSE q.rq[s]],
       head |-> Plus(q.head, n),
       tail |-> q.tail,
       ov |-> SubSeq(q.ov, n + 1, Len(q.ov))]

Becomes(q) ==
  /\ rq' = q.rq /\ rq_head' = q.head /\ rq_tail' = q.tail
  /\ rq_overflow' = q.ov

\* schedule(), entered from a thread or after parking, finds work of its own:
\* it drains the overflow list, pops a thread and drains once more.
ScheduleLocal ==
  /\ opc \in {"run", "parked"} /\ lock = "free"
  /\ LET q == drain_overflow(Queues)
     IN  /\ q.head # q.tail
         /\ outside' = outside \cup {q.rq[Slot(q.tail)]}
         /\ Becomes(drain_overflow([q EXCEPT !.tail = Plus(@, 1)]))
  /\ opc' = "run"
  /\ UNCHANGED <<pushed, thiefvars>>

\* schedule() runs a targeted thread or, for the watchdog, a softirq thread: it
\* drains the overflow list and leaves the ring alone.
ScheduleOther ==
  /\ opc \in {"run", "parked"} /\ lock = "free"
  /\ Becomes(drain_overflow(Queues))
  /\ opc' = "run"
  /\ UNCHANGED <<pushed, thiefvars, outside>>

\* schedule() finds its queues empty and resets the ring.
Empty ==
  /\ opc \in {"run", "parked"} /\ lock = "free"
  /\ rq_head = rq_tail /\ rq_overflow = << >>

\* Then it runs a softirq, or parks.
ScheduleElse ==
  /\ Empty
  /\ rq_head' = 0 /\ rq_tail' = 0
  /\ opc' \in {"run", "parked"}
  /\ UNCHANGED <<rq, rq_overflow, pushed, thiefvars, outside>>

\* Or it is the thief (l in steal_work): the threads ts of another kthread go
\* to the slots from 0 on, and the first of them runs.
ScheduleSteal(ts) ==
  /\ Empty
  /\ rq' = [s \in DOMAIN rq |-> IF s < Len(ts) THEN ts[s + 1] ELSE rq[s]]
  /\ rq_head' = Len(ts) /\ rq_tail' = 1
  /\ outside' = outside \ {ts[i] : i \in 2 .. Len(ts)}
  /\ opc' = "run"
  /\ UNCHANGED <<rq_overflow, pushed, thiefvars>>

\* thread_yield_kthread, after its thread_ready, parks with the queues as they are.
YieldKthread ==
  /\ opc = "run" /\ lock = "free"
  /\ opc' = "parked"
  /\ UNCHANGED <<ringvars, rq_overflow, pushed, thiefvars, outside>>

\* join_kthread of the parked owner moves the overflow list and, in a loop that
\* runs while rq_tail < rq_head, the ring, and resets the counters.  When only
\* rq_head has wrapped the loop does not run: the ring is dropped.
JoinKthread ==
  /\ opc = "parked" /\ lock = "free"
  /\ JoinWrapped \/ rq_tail <= rq_head
  /\ LET looped == IF rq_tail < rq_head THEN Content(rq, rq_head, rq_tail) ELSE << >>
     IN  outside' = outside \cup ToSet(looped \o rq_overflow)
  /\ rq_head' = 0 /\ rq_tail' = 0 /\ rq_overflow' = << >>
  /\ UNCHANGED <<rq, ownervars, thiefvars>>

-----------------------------------------------------------------------------
\* Mutant: the thief rounds up what is rounded already, and takes one too many
\* of an even number of threads.
StealLoadRoundsTwice ==
  /\ lock = "free"
  /\ rq_head # rq_tail
  /\ avail' = div_up(Minus(rq_head, rq_tail) + 1, 2)
  /\ lock' = "copy"
  /\ UNCHANGED <<ringvars, rq_overflow, ownervars, loot, outside>>

\* steal_work: the thief takes the lock, loads rq_head and finds threads.
StealLoad ==
  /\ lock = "free"
  /\ rq_head # rq_tail
  /\ avail' = div_up(Minus(rq_head, rq_tail), 2)
  /\ lock' = "copy"
  /\ UNCHANGED <<ringvars, rq_overflow, ownervars, loot, outside>>

\* steal_work: the ring is empty, and the overflow list is not.
StealOverflow ==
  /\ lock = "free"
  /\ rq_head = rq_tail /\ rq_overflow # << >>
  /\ outside' = outside \cup {Head(rq_overflow)}
  /\ rq_overflow' = Tail(rq_overflow)
  /\ UNCHANGED <<ringvars, ownervars, thiefvars>>

\* l->rq[i] = r->rq[rq_tail++ % RUNTIME_RQ_SIZE]
StealCopy ==
  /\ lock = "copy" /\ Len(loot) < avail
  /\ loot' = Append(loot, rq[Slot(rq_tail + Len(loot))])
  /\ UNCHANGED <<ringvars, rq_overflow, ownervars, lock, avail, outside>>

\* store_release(&r->rq_tail, rq_tail), and the unlock.
StealStore ==
  /\ lock = "copy" /\ Len(loot) = avail
  /\ rq_tail' = Plus(rq_tail, avail)
  /\ outside' = outside \cup ToSet(loot)
  /\ lock' = "free" /\ avail' = 0 /\ loot' = << >>
  /\ UNCHANGED <<rq, rq_head, rq_overflow, ownervars>>

Owner ==
  \/ \E t \in Thread : ReadyLoad(t)
  \/ ReadyOverflow \/ ReadyWrite \/ ReadyPublish
  \/ EnterFast \/ ScheduleLocal \/ ScheduleOther \/ ScheduleElse \/ YieldKthread
  \/ \E n \in 1 .. div_up(RqSize, 2) :
       \E ts \in [1 .. n -> outside] : IsInjective(ts) /\ ScheduleSteal(ts)

Thief == StealLoad \/ StealOverflow \/ StealCopy \/ StealStore

Next == Owner \/ Thief \/ JoinKthread \/ \E t \in Thread : ThrowOverflow(t)

Spec == Init /\ [][Next]_vars

-----------------------------------------------------------------------------
\* The runqueue as WorkQueue sees it: a pushed thread is outside until it is
\* published or in the overflow list.
ring == Content(rq, rq_head, rq_tail)
waiting == IF pushed = None THEN outside ELSE outside \cup {pushed}

Work == INSTANCE WorkQueue WITH
  overflow <- rq_overflow, outside <- waiting

\* The ring with its lock-free push implements the queue of the scheduler: a
\* thief gets the oldest threads and no other, and at most half of them.
ImplementsWorkQueue == Work!Spec

\* Every thread is in one slot between rq_tail and rq_head, in the overflow
\* list, being pushed, or outside, and in one only; the slot that thread_ready
\* writes is free whatever a thief did since rq_tail was loaded; and the thief
\* copies the oldest threads, whatever thread_ready wrote since it loaded
\* rq_head.
NoThreadLost ==
  /\ Len(ring) <= RqSize
  /\ opc \in {"write", "publish"} => Len(ring) < RqSize
  /\ LET queued == ring \o rq_overflow
     IN  /\ IsInjective(queued)
         /\ ToSet(queued) \cup waiting = Thread
         /\ ToSet(queued) \cap waiting = {}
  /\ IsPrefix(loot, ring)

\* join_kthread, as its comment says, re-wakes all the runnable threads that
\* belong to the detached kthread: each of them is in tmp afterwards.
JoinRewakes ==
  [][JoinKthread => ToSet(ring \o rq_overflow) \subseteq outside']_vars
=============================================================================
