------------------------------- MODULE Timer -------------------------------
(***************************************************************************)
(* The timers of runtime/timer.c: one D-ary heap of entries per kthread.   *)
(* A section under timer_lock is one step.  timer_softirq pops an entry    *)
(* under the lock and calls its handler after it has released it, and      *)
(* timer_cancel reads localk before it takes the lock of that heap.  The   *)
(* deadline of a slot is kept per entry.                                   *)
(***************************************************************************)
EXTENDS Integers, FiniteSets

CONSTANTS
  Kthread,
  Timer,          \* entries of users, armed with timer_start
  Sleeper,        \* threads that call timer_sleep, with an entry on their stack
  Caller,         \* threads that call timer_cancel
  Softirq,        \* threads that run timer_softirq
  D,              \* the arity of the heap
  MaxTime,        \* bound: the last time; no timer is started any more at it
  CancelExpired,  \* whether users cancel timers whose deadline has passed
  NULL

Entry == Timer \cup Sleeper

TimerConstants ==
  /\ D \in Nat \ {0, 1} /\ MaxTime \in Nat \ {0} /\ CancelExpired \in BOOLEAN
  /\ Timer \cap Sleeper = {} /\ NULL \notin Entry \cup Kthread

VARIABLES
  now,         \* microtime()
  timers,      \* per kthread: the slots 0 .. timern-1 of the heap
  deadline,    \* deadline_us of an entry's slot, 0 when it has none
  armed, idx, localk,   \* the fields of struct timer_entry
  cancelling,  \* per caller: the entry and the localk timer_cancel has read
  firing,      \* per softirq thread: the entry popped, its handler not called
  fate,        \* what has become of the entry since its last timer_start
  crashed      \* the process is gone

vars == <<now, timers, deadline, armed, idx, localk, cancelling, firing, fate, crashed>>

timern(k) == Cardinality(DOMAIN timers[k])

\* timer_init sets armed, and leaves localk at what the memory held: a kthread
\* from an earlier use, or nothing one can follow, NULL here.
Init ==
  /\ now = 0
  /\ timers = [k \in Kthread |-> << >>]
  /\ deadline = [e \in Entry |-> 0]
  /\ armed = [e \in Entry |-> FALSE]
  /\ idx = [e \in Entry |-> 0]
  /\ localk \in [Entry -> Kthread \cup {NULL}]
  /\ \A e \in Sleeper : localk[e] = NULL   \* nobody cancels it
  /\ cancelling = [c \in Caller |-> NULL]
  /\ firing = [s \in Softirq |-> NULL]
  /\ fate = [e \in Entry |-> "none"]
  /\ crashed = FALSE

-----------------------------------------------------------------------------
(***************************************************************************)
(* The heap as the code's functions see it: the array up to timern, the    *)
(* deadlines in its slots, and the idx fields they keep in step.           *)
(***************************************************************************)
Heap(k) == [slot |-> timers[k], due |-> deadline, idx |-> idx]

\* The two assignments of a round of sift_up or sift_down, with their idx.
Swap(h, i, j) ==
  [h EXCEPT !.slot = [@ EXCEPT ![i] = h.slot[j], ![j] = h.slot[i]],
            !.idx = [@ EXCEPT ![h.slot[j]] = i, ![h.slot[i]] = j]]

RECURSIVE sift_up(_, _)
sift_up(h, i) ==
  LET p == (i - 1) \div D IN
  IF i = 0 \/ h.due[h.slot[i]] >= h.due[h.slot[p]]
  THEN h
  ELSE sift_up(Swap(h, i, p), p)

\* Mutant: the last child is not looked at.
BeforeShort(h, i) ==
  {j \in DOMAIN h.slot : /\ j \in (i * D + 1) .. (i * D + D - 1)
                         /\ h.due[h.slot[j]] < h.due[h.slot[i]]}

\* The children of i that are in the heap and due before it.
Before(h, i) ==
  {j \in DOMAIN h.slot : /\ j \in (i * D + 1) .. (i * D + D)
                         /\ h.due[h.slot[j]] < h.due[h.slot[i]]}

\* The first of the earliest children.
Earliest(h, C) ==
  CHOOSE c \in C : \A j \in C : \/ h.due[h.slot[c]] < h.due[h.slot[j]]
                                \/ h.due[h.slot[c]] = h.due[h.slot[j]] /\ c <= j

RECURSIVE sift_down(_, _)
sift_down(h, i) ==
  LET C == Before(h, i) IN
  IF C = {} THEN h ELSE LET c == Earliest(h, C) IN sift_down(Swap(h, i, c), c)

Size(h) == Cardinality(DOMAIN h.slot)

\* The array with e in a slot at its end.
AtEnd(h, e) ==
  [h EXCEPT !.slot = [i \in 0 .. Size(h) |-> IF i = Size(h) THEN e ELSE @[i]],
            !.idx = [@ EXCEPT ![e] = Size(h)]]

\* The array after --timern.
Shrink(h) == [h EXCEPT !.slot = [i \in 0 .. Size(h) - 2 |-> @[i]]]

\* The last slot is moved to slot i, and the array is one shorter.
MoveLast(h, i) ==
  LET l == h.slot[Size(h) - 1] IN
  Shrink([h EXCEPT !.slot = [@ EXCEPT ![i] = l], !.idx = [@ EXCEPT ![l] = i]])

\* The array with the slots of s, in order, at its end.
RECURSIVE AllAtEnd(_, _, _)
AllAtEnd(h, s, i) ==
  IF i \notin DOMAIN s THEN h ELSE AllAtEnd(AtEnd(h, s[i]), s, i + 1)

\* Restore the order by sifting down slots i, i-1, .. 0.
RECURSIVE Heapify(_, _)
Heapify(h, i) ==
  IF i < 0 THEN h ELSE Heapify(sift_down(h, i), i - 1)

-----------------------------------------------------------------------------
(***************************************************************************)
(* Starting.                                                               *)
(***************************************************************************)
\* A call of timer_cancel is under way on e.
InCancel(e) == \E c \in Caller : cancelling[c] # NULL /\ cancelling[c].e = e

\* The entry is one its user may start: fresh, or cancelled, and no call of
\* timer_cancel is under way on it.
Idle(e) ==
  fate[e] \in {"none", "cancelled"} /\ ~InCancel(e)

\* timer_start_locked, on kthread k.
StartLocked(k, e, d) ==
  /\ ~armed[e]                      \* BUG_ON(e->armed)
  /\ deadline' = [deadline EXCEPT ![e] = d]
  /\ LET h == sift_up(AtEnd([Heap(k) EXCEPT !.due = deadline'], e), timern(k)) IN
     timers' = [timers EXCEPT ![k] = h.slot] /\ idx' = h.idx
  /\ localk' = [localk EXCEPT ![e] = k]
  /\ armed' = [armed EXCEPT ![e] = TRUE]
  /\ fate' = [fate EXCEPT ![e] = "queued"]
  /\ UNCHANGED <<now, cancelling, firing>>

timer_start(k, e, d) == now < MaxTime /\ Idle(e) /\ StartLocked(k, e, d)

\* timer_init before an entry that has fired is used again.
timer_init(e) ==
  /\ fate[e] = "fired" /\ ~InCancel(e)
  /\ armed' = [armed EXCEPT ![e] = FALSE]
  /\ fate' = [fate EXCEPT ![e] = "none"]
  /\ UNCHANGED <<now, timers, deadline, idx, localk, cancelling, firing>>

\* timer_sleep_until and timer_sleep: the thread starts an entry of its own
\* and parks; a deadline that has passed does not sleep.
timer_sleep(k, e, d) == now < d /\ Idle(e) /\ StartLocked(k, e, d)

(***************************************************************************)
(* timer_merge, by kthread k that absorbs the heap of r.                   *)
(***************************************************************************)
\* Mutant: localk is left at the heap the timer came from.
MergeKeepsLocalk(k, r) ==
  /\ k # r /\ timern(r) > 0
  /\ LET all == AllAtEnd(Heap(k), timers[r], 0)
         h   == Heapify(all, Size(all) \div D)
     IN timers' = [timers EXCEPT ![k] = h.slot, ![r] = << >>] /\ idx' = h.idx
  /\ UNCHANGED <<now, deadline, armed, localk, cancelling, firing, fate>>

timer_merge(k, r) ==
  /\ k # r /\ timern(r) > 0
  /\ LET all == AllAtEnd(Heap(k), timers[r], 0)
         h   == Heapify(all, Size(all) \div D)
     IN timers' = [timers EXCEPT ![k] = h.slot, ![r] = << >>] /\ idx' = h.idx
  /\ localk' = [e \in Entry |-> IF \E i \in DOMAIN timers[r] : timers[r][i] = e
                                THEN k ELSE localk[e]]
  /\ UNCHANGED <<now, deadline, armed, cancelling, firing, fate>>

(***************************************************************************)
(* timer_cancel, by caller c.                                              *)
(***************************************************************************)
\* The load of e->localk, before the lock of that heap is taken.  Users that
\* do not cancel expired timers call it while the timer is not due.
CancelRead(c, e) ==
  /\ cancelling[c] = NULL /\ localk[e] # NULL
  /\ CancelExpired \/ fate[e] \in {"none", "cancelled"} \/ now < deadline[e]
  /\ cancelling' = [cancelling EXCEPT ![c] = [e |-> e, k |-> localk[e]]]
  /\ UNCHANGED <<now, timers, deadline, armed, idx, localk, firing, fate>>

\* The timer was never started, and its localk has no lock to take.
CancelFaults(c, e) ==
  /\ cancelling[c] = NULL /\ localk[e] = NULL
  /\ crashed' = TRUE
  /\ UNCHANGED <<now, timers, deadline, armed, idx, localk, cancelling, firing, fate>>

\* The timer was merged to a different heap: try_again.
CancelRetry(c) ==
  /\ cancelling[c] # NULL
  /\ LET e == cancelling[c].e IN
     /\ localk[e] # cancelling[c].k
     /\ cancelling' = [cancelling EXCEPT ![c].k = localk[e]]
  /\ UNCHANGED <<now, timers, deadline, armed, idx, localk, firing, fate>>

\* Not armed: false.
CancelFalse(c) ==
  /\ cancelling[c] # NULL
  /\ localk[cancelling[c].e] = cancelling[c].k
  /\ ~armed[cancelling[c].e]
  /\ cancelling' = [cancelling EXCEPT ![c] = NULL]
  /\ UNCHANGED <<now, timers, deadline, armed, idx, localk, firing, fate>>

\* The heap without slot i: --timern, and the last slot moved into slot i.  An
\* empty heap stays empty: what lies outside the array is not modelled.
Without(h, i) ==
  CASE Size(h) = 0     -> h
    [] i = Size(h) - 1 -> Shrink(h)
    [] OTHER           -> sift_down(sift_up(MoveLast(h, i), i), i)

\* Armed: the slot at e->idx is removed, true.
CancelTrue(c) ==
  /\ cancelling[c] # NULL
  /\ LET e == cancelling[c].e
         k == cancelling[c].k
         h == Without(Heap(k), idx[e])
     IN /\ localk[e] = k /\ armed[e]
        /\ armed' = [armed EXCEPT ![e] = FALSE]
        /\ timers' = [timers EXCEPT ![k] = h.slot]
        /\ idx' = h.idx
        /\ deadline' = [deadline EXCEPT ![e] = 0]
        /\ fate' = [fate EXCEPT ![e] = "cancelled"]
  /\ cancelling' = [cancelling EXCEPT ![c] = NULL]
  /\ UNCHANGED <<now, localk, firing>>

CancelEnds(c) == CancelFalse(c) \/ CancelTrue(c)

timer_cancel(c) == CancelRetry(c) \/ CancelEnds(c)

(***************************************************************************)
(* timer_softirq(k), by softirq thread s.                                  *)
(***************************************************************************)
\* Mutant: a timer is due only after its deadline.
DueAfter(k) == timern(k) > 0 /\ deadline[timers[k][0]] < now

\* The earliest timer is due.
Due(k) == timern(k) > 0 /\ deadline[timers[k][0]] <= now

\* A round of the loop up to the unlock; armed stays set.
SoftirqPop(s, k) ==
  /\ firing[s] = NULL /\ Due(k)
  /\ LET h == IF timern(k) = 1 THEN Shrink(Heap(k))
              ELSE sift_down(MoveLast(Heap(k), 0), 0)
     IN timers' = [timers EXCEPT ![k] = h.slot] /\ idx' = h.idx
  /\ firing' = [firing EXCEPT ![s] = timers[k][0]]
  /\ fate' = [fate EXCEPT ![timers[k][0]] = "popped"]
  /\ UNCHANGED <<now, deadline, armed, localk, cancelling>>

Softirqs == \E s \in Softirq, k \in Kthread : SoftirqPop(s, k)

\* The handler, with the lock released.  A sleeper is made ready by
\* timer_finish_sleep, and its entry is gone when timer_sleep returns.
Handler(s) ==
  /\ firing[s] # NULL
  /\ LET e == firing[s] IN
     IF e \in Sleeper
     THEN /\ armed' = [armed EXCEPT ![e] = FALSE]
          /\ fate' = [fate EXCEPT ![e] = "none"]
     ELSE fate' = [fate EXCEPT ![e] = "fired"] /\ UNCHANGED armed
  /\ deadline' = [deadline EXCEPT ![firing[s]] = 0]
  /\ firing' = [firing EXCEPT ![s] = NULL]
  /\ UNCHANGED <<now, timers, idx, localk, cancelling>>

\* Time passes.  With users that do not cancel expired timers a call of
\* timer_cancel ends before the deadline.
Tick ==
  /\ now < MaxTime
  /\ CancelExpired \/ \A c \in Caller :
       cancelling[c] # NULL => \/ fate[cancelling[c].e] # "queued"
                               \/ now + 1 < deadline[cancelling[c].e]
  /\ now' = now + 1
  /\ UNCHANGED <<timers, deadline, armed, idx, localk, cancelling, firing, fate>>

\* A step that the process survives.
Step(A) == ~crashed /\ A /\ UNCHANGED crashed

Next ==
  \/ Step(\E k \in Kthread, d \in 1 .. MaxTime :
             \/ \E e \in Timer : timer_start(k, e, d)
             \/ \E e \in Sleeper : timer_sleep(k, e, d))
  \/ Step(\E e \in Timer : timer_init(e))
  \/ Step(\E k, r \in Kthread : timer_merge(k, r))
  \/ Step(\E c \in Caller, e \in Timer : CancelRead(c, e))
  \/ ~crashed /\ \E c \in Caller, e \in Timer : CancelFaults(c, e)
  \/ Step(\E c \in Caller : timer_cancel(c))
  \/ Step(Softirqs)
  \/ Step(\E s \in Softirq : Handler(s))
  \/ Step(Tick)

Spec == Init /\ [][Next]_vars

\* Time passes whatever users do, merges do not outrun a call of timer_cancel
\* for ever, and a softirq thread that has popped a timer calls its handler.
\* That timer_softirq is called at all is left to the premise of TimersFire.
Fairness ==
  /\ SF_vars(Step(Tick))
  /\ \A c \in Caller : WF_vars(Step(timer_cancel(c))) /\ SF_vars(Step(CancelEnds(c)))
  /\ \A s \in Softirq : WF_vars(Step(Handler(s)))

FairSpec == Spec /\ Fairness

-----------------------------------------------------------------------------
\* Every heap is a D-ary heap by deadline, in every slot, whatever mix of
\* timer_start, timer_cancel, timer_merge and timer_softirq made it.
\* is_valid_heap, the code's own check, leaves slot 1 out.
HeapOrder ==
  \A k \in Kthread : \A i \in DOMAIN timers[k] \ {0} :
    deadline[timers[k][(i - 1) \div D]] <= deadline[timers[k][i]]

\* What timer_cancel relies on: a timer that was started and has neither fired
\* nor been cancelled is armed and has one slot in one heap, the one that its
\* idx and localk name; a slot holds no other timer.
SlotsExact ==
  /\ \A e \in Entry : fate[e] = "queued" =>
       /\ armed[e] /\ localk[e] # NULL
       /\ idx[e] \in DOMAIN timers[localk[e]]
       /\ timers[localk[e]][idx[e]] = e
  /\ \A k \in Kthread : \A i \in DOMAIN timers[k] :
       LET e == timers[k][i] IN fate[e] = "queued" /\ idx[e] = i /\ localk[e] = k

\* As long as some kthread keeps calling timer_softirq while a timer is due, every
\* timer that is started fires or is cancelled, and every sleeper wakes up,
\* although timers move between heaps while they wait.  (schedule calls it as
\* long as a kthread runs; when all are parked it takes the dataplane, and
\* Cores!DeadlineKept is about that.)
TimersFire ==
  WF_vars(Step(Softirqs)) =>
    \A e \in Entry :
      fate[e] \in {"queued", "popped"} ~> fate[e] \notin {"queued", "popped"} \/ crashed

\* timer_cancel: "Returns true if the timer was successfully cancelled,
\* otherwise it has already fired or was never armed."
TrueMeansCancelled ==
  [][\A e \in Entry :
       fate'[e] = "cancelled" /\ fate[e] # "cancelled" => fate[e] = "queued"]_vars
=============================================================================
