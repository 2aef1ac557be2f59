------------------------------- MODULE Cores -------------------------------
(***************************************************************************)
(* hwallocd's dataplane thread and the kthreads of its client processes:   *)
(* which process has which core (hwalloc/cores.c), the polling array and   *)
(* the reference counts of struct proc (hwalloc/defs.h, ref.h), the        *)
(* commands kthreads send (commands.c) and the way back to them (rx.c).    *)
(*                                                                         *)
(* The dataplane is one thread: a handler is one step, and the handlers    *)
(* of dataplane_loop come in any order.  Its state is the record dp, and   *)
(* the functions of the code map such a record to the next.  The kthreads  *)
(* run beside it: kthread_park sends a command, then clears the flag that  *)
(* SIGUSR1 sets, then reads its eventfd.                                   *)
(***************************************************************************)
EXTENDS Integers, Sequences, FiniteSets, SequencesExt

CONSTANTS
  Proc,            \* processes, each of which registers once
  ThreadCount,     \* per process: thread_count
  NCores,          \* cores that cores_init finds
  Guaranteed,      \* guaranteed_cores of every process
  ExitRaces,       \* whether a removed process may wait for a preempted core
  RxqSize,         \* bound: commands in an RXQ
  MaxParks,        \* bound: calls of kthread_park
  NULL

CoresConstants ==
  /\ ThreadCount \in [Proc -> Nat \ {0}] /\ NCores \in Nat \ {0} /\ {RxqSize, MaxParks} \subseteq Nat
  /\ \A p \in Proc : Guaranteed \in 0 .. ThreadCount[p]
  /\ IsFiniteSet(Proc) /\ ExitRaces \in BOOLEAN /\ NULL \notin Proc

Core == 1 .. NCores
ProcOf(th) == th[1]
Kthreads(p) == [i \in 1 .. ThreadCount[p] |-> <<p, i>>]
ThreadsOf(p) == {p} \X (1 .. ThreadCount[p])
Kthread == UNION {ThreadsOf(p) : p \in Proc}

VARIABLES
  dp,       \* the dataplane's state: see DpInit
  kt,       \* per kthread: running, sent (a command), reading (its eventfd)
  needed,   \* kthreads whose preempt_needed flag is set
  txq,      \* per kthread: the commands the dataplane has not received
  parks     \* how often kthread_park was called

vars == <<dp, kt, needed, txq, parks>>

\* cores_init, dataplane_init and control_create_proc.
DpInit ==
  [avail |-> Core,
   current |-> [c \in Core |-> NULL],    \* core_history
   prev |-> [c \in Core |-> NULL],
   next |-> [c \in Core |-> NULL],
   overloaded |-> << >>,                 \* list_add puts a process in front
   bursting |-> {},
   clients |-> << >>,
   removed |-> {},                       \* set by the control thread
   active |-> [p \in Proc |-> << >>],    \* active_threads
   idle |-> [p \in Proc |-> << >>],      \* idle_threads: the parked ones
   launched |-> {},
   inflight |-> [p \in Proc |-> 0],      \* inflight_preempts
   timer |-> {},                         \* pending_timer
   core |-> [th \in Kthread |-> 1],
   waking |-> {},
   ts |-> {},                            \* the polling array
   ref |-> [p \in Proc |-> 1],
   released |-> {},                      \* processes proc_release was called for
   efd |-> [th \in Kthread |-> 0],        \* the sum of what was written
   rxq |-> [th \in Kthread |-> 0],        \* RXCMD_JOINs not received
   sig |-> {},                           \* kthreads sent SIGUSR1 in this step
   bug |-> FALSE]                        \* a BUG_ON or BUG was reached

Init ==
  /\ dp = DpInit
  /\ kt = [th \in Kthread |-> "reading"]  \* kthread_wait_to_attach
  /\ needed = {}
  /\ txq = [th \in Kthread |-> << >>]
  /\ parks = 0

-----------------------------------------------------------------------------
(***************************************************************************)
(* References and flags of processes.                                      *)
(***************************************************************************)
proc_get(s, p) == [s EXCEPT !.ref[p] = @ + 1]

proc_put(s, p) ==
  [s EXCEPT !.ref[p] = @ - 1,
            !.released = IF s.ref[p] = 1 THEN @ \cup {p} ELSE @]

BUG_ON(s, cond) == [s EXCEPT !.bug = @ \/ cond]

proc_set_overloaded(s, p) ==
  [s EXCEPT !.overloaded = IF Contains(@, p) THEN @ ELSE <<p>> \o @]

proc_clear_overloaded(s, p) == [s EXCEPT !.overloaded = RemoveFirst(@, p)]

Parked(s, th) == ~Contains(s.active[ProcOf(th)], th)

\* The array without th: the last element takes its place.
SwapRemove(a, th) ==
  LET i == SelectInSeq(a, LAMBDA x : x = th) IN
  IF i = 0 THEN a ELSE SubSeq(ReplaceAt(a, i, a[Len(a)]), 1, Len(a) - 1)

poll_thread(s, th) ==
  IF th \in s.ts THEN s
  ELSE [proc_get(s, ProcOf(th)) EXCEPT !.ts = @ \cup {th}]

unpoll_thread(s, th) ==
  IF th \notin s.ts THEN s
  ELSE proc_put([s EXCEPT !.ts = @ \ {th}], ProcOf(th))

(***************************************************************************)
(* Cores and threads.                                                      *)
(***************************************************************************)
\* Mutant: the process before the previous one keeps its reference.
ReserveKeepsRef(s, c, th) ==
  [proc_get(s, ProcOf(th)) EXCEPT
     !.avail = @ \ {c}, !.prev[c] = s.current[c], !.current[c] = th, !.next[c] = NULL]

\* Mutant: next is not reset.
ReserveKeepsNext(s, c, th) ==
  LET s1 == IF s.prev[c] # NULL THEN proc_put(s, ProcOf(s.prev[c])) ELSE s
  IN [proc_get(s1, ProcOf(th)) EXCEPT
        !.avail = @ \ {c}, !.prev[c] = s.current[c], !.current[c] = th]

core_reserve(s, c, th) ==
  LET s1 == BUG_ON([s EXCEPT !.avail = @ \ {c}],
                   s.next[c] # NULL /\ th # s.next[c])
      s2 == IF s.prev[c] # NULL THEN proc_put(s1, ProcOf(s.prev[c])) ELSE s1
  IN [proc_get(s2, ProcOf(th)) EXCEPT
        !.prev[c] = s.current[c], !.current[c] = th, !.next[c] = NULL]

core_cede(s, c) == [s EXCEPT !.avail = @ \cup {c}]

\* Mutant: compares the number of threads before this one came.
ReserveOffByOne(s, th, c) ==
  LET p == ProcOf(th)
      s1 == [s EXCEPT !.core[th] = c,
                      !.active[p] = Append(@, th),
                      !.idle[p] = RemoveFirst(@, th),
                      !.waking = @ \cup {th},
                      !.bursting = IF Len(s.active[p]) > Guaranteed
                                   THEN @ \cup {p} ELSE @]
  IN poll_thread(proc_clear_overloaded(s1, p), th)

thread_reserve(s, th, c) ==
  LET p == ProcOf(th)
      s1 == [s EXCEPT !.core[th] = c,
                      !.active[p] = Append(@, th),
                      !.idle[p] = RemoveFirst(@, th),
                      !.waking = @ \cup {th},
                      !.bursting = IF Len(s.active[p]) + 1 > Guaranteed
                                   THEN @ \cup {p} ELSE @]
  IN poll_thread(proc_clear_overloaded(s1, p), th)

\* Mutant: compares the number of threads before this one left.
CedeOffByOne(s, th) ==
  LET p == ProcOf(th)
      s1 == [s EXCEPT !.active[p] = SwapRemove(@, th),
                      !.idle[p] = <<th>> \o @,
                      !.bursting = IF Len(s.active[p]) = Guaranteed
                                   THEN @ \ {p} ELSE @]
  IN unpoll_thread(s1, th)

thread_cede(s, th) ==
  LET p == ProcOf(th)
      s1 == [s EXCEPT !.active[p] = SwapRemove(@, th),
                      !.idle[p] = <<th>> \o @,
                      !.bursting = IF Len(s.active[p]) - 1 = Guaranteed
                                   THEN @ \ {p} ELSE @]
  IN unpoll_thread(s1, th)

-----------------------------------------------------------------------------
(***************************************************************************)
(* Choosing a thread for a process, a core for a process, and who gets a   *)
(* core that becomes free.                                                 *)
(***************************************************************************)
IsOverloaded(s, p) == Contains(s.overloaded, p)

\* p may run again on this core the thread th of its history.
Reusable(s, p, th) == th # NULL /\ ProcOf(th) = p /\ Parked(s, th)

pick_thread_for_proc(s, p, c) ==
  IF s.idle[p] = << >> THEN NULL
  ELSE IF \/ p \in s.launched
          \/ IsOverloaded(s, p) /\ s.active[p] = << >>
  THEN Head(s.idle[p])
  ELSE IF Reusable(s, p, s.current[c]) THEN s.current[c]
  ELSE IF Reusable(s, p, s.prev[c]) THEN s.prev[c]
  ELSE Last(s.idle[p])

\* What the pick leaves behind.
Launch(s, p) == [s EXCEPT !.launched = @ \ {p}]

\* The core is used by a process that has more than its guarantee, and no
\* thread waits for it yet.
Preemptible(s, c) ==
  /\ s.current[c] # NULL /\ s.next[c] = NULL
  /\ ProcOf(s.current[c]) \in s.bursting

Lowest(C) == CHOOSE c \in C : \A d \in C : c <= d

\* NULL where the code finds "no available cores!" and stops.
pick_core_for_proc(s, p) ==
  LET recent == s.core[Head(s.idle[p])]
      victims == {c \in Core : Preemptible(s, c)}
  IN IF recent \in s.avail THEN recent
     ELSE IF s.avail = {} /\ Preemptible(s, recent) /\ ProcOf(s.current[recent]) # p
     THEN recent
     ELSE IF s.avail # {} THEN Lowest(s.avail)
     ELSE IF victims # {} THEN Lowest(victims)
     ELSE NULL

wake_kthread_on_core(s, th, c) ==
  LET s1 == core_reserve(BUG_ON(s, c \notin s.avail), c, th)
      s2 == IF Parked(s1, th) THEN thread_reserve(s1, th, c) ELSE s1
  IN [s2 EXCEPT !.efd[th] = @ + c + 1]

\* The overloaded process that gets a free core: the one that used it last, the
\* one before, or the first in the list.
OverloadedFor(s, c) ==
  LET wants(th) == /\ th # NULL /\ ProcOf(th) \notin s.removed
                   /\ IsOverloaded(s, ProcOf(th))
  IN IF wants(s.current[c]) THEN ProcOf(s.current[c])
     ELSE IF wants(s.prev[c]) THEN ProcOf(s.prev[c])
     ELSE Head(s.overloaded)

\* pick_thread_for_core, and the wake-up of the thread it picks.
HandOn(s, c) ==
  IF s.next[c] # NULL /\ ProcOf(s.next[c]) \notin s.removed
  THEN wake_kthread_on_core(
         [s EXCEPT !.inflight[ProcOf(s.current[c])] = @ - 1], s.next[c], c)
  ELSE IF s.overloaded = << >> THEN s
  ELSE LET p  == OverloadedFor(s, c)
           th == pick_thread_for_proc(s, p, c)
       IN IF th = NULL THEN s ELSE wake_kthread_on_core(Launch(s, p), th, c)

\* The race cores_park_kthread looks for: commands came while the kthread
\* parked, and nobody waits for its core.
InFlight(s, th, force) == ~force /\ s.next[s.core[th]] = NULL /\ s.rxq[th] > 0

\* Mutant: a kthread that parks while a command comes is left asleep.
ParkLosesRace(s, th, force) ==
  LET c == s.core[th] IN
  IF c \in s.avail \/ Parked(s, th) THEN BUG_ON(s, TRUE)
  ELSE IF InFlight(s, th, force) THEN s
  ELSE HandOn(thread_cede(core_cede(s, c), th), c)

cores_park_kthread(s, th, force) ==
  LET c == s.core[th] IN
  IF c \in s.avail \/ Parked(s, th) THEN BUG_ON(s, TRUE)
  ELSE IF InFlight(s, th, force) THEN [s EXCEPT !.efd[th] = @ + c + 1]
  ELSE HandOn(thread_cede(core_cede(s, c), th), c)

cores_add_core(s, p) ==
  IF s.idle[p] = << >> THEN s
  ELSE LET c == pick_core_for_proc(s, p) IN
  IF c = NULL THEN BUG_ON(s, TRUE)
  ELSE LET th == pick_thread_for_proc(s, p, c)
           s1 == [Launch(s, p) EXCEPT !.timer = @ \ {p}]
  IN IF c \in s.avail THEN wake_kthread_on_core(s1, th, c)
     ELSE LET victim == s.current[c]
              s2 == proc_set_overloaded(thread_reserve(s1, th, c), ProcOf(victim))
          IN [BUG_ON(s2, s2.next[c] # NULL) EXCEPT
                !.inflight[ProcOf(victim)] = @ + 1,
                !.next[c] = th,
                !.sig = @ \cup {victim}]

cores_init_proc(s, p) ==
  cores_add_core(
    [s EXCEPT !.idle[p] = Kthreads(p),
              !.launched = @ \cup {p}], p)

cores_free_proc(s, p) ==
  LET s1 == [proc_clear_overloaded(s, p) EXCEPT !.bursting = @ \ {p}]
      occupying == SelectSeq(Kthreads(p),
                             LAMBDA th : ~Parked(s, th))
  IN FoldLeft(LAMBDA t, th : cores_park_kthread(t, th, TRUE), s1, occupying)

\* The h-th active thread gets an RXCMD_JOIN, or a thread that is woken for it.
rx_send_to_runtime(s, p, h) ==
  LET s1 == CASE s.active[p] # << >> -> s
              [] s.active[p] = << >> /\ (Guaranteed > 0 \/ s.avail # {})
                   -> cores_add_core(s, p)
              [] OTHER -> proc_set_overloaded(s, p)
      th == IF s.active[p] # << >> THEN s.active[p][h]
            ELSE IF s1.active[p] # << >> THEN Last(s1.active[p])
            ELSE Head(s1.idle[p])
  IN [s1 EXCEPT !.rxq[th] = IF @ < RxqSize THEN @ + 1 ELSE @]

-----------------------------------------------------------------------------
(***************************************************************************)
(* The handlers of dataplane_loop.  They go on for a process that has      *)
(* exited until its removal is handled.                                    *)
(***************************************************************************)
Exiting == dp.removed \cap ToSet(dp.clients)

\* A process that is removed while it waits for a core it had preempted, or
\* that preempts a core when it is removed already, is left out unless
\* ExitRaces.
NoRace(s) ==
  ExitRaces \/ \A c \in Core : s.next[c] # NULL => ProcOf(s.next[c]) \notin s.removed

\* The dataplane's state becomes s, and the kthreads it signals have their flag.
Becomes(s) ==
  /\ NoRace(s)
  /\ dp' = [s EXCEPT !.sig = {}]
  /\ needed' = needed \cup {th \in s.sig : kt[th] # "dead"}

\* The control thread has admitted p next to the clients it had not yet told
\* the dataplane to remove: the two messages keep their order.
dp_clients_add_client(p) ==
  /\ ~dp.bug /\ ~Contains(dp.clients, p) /\ p \notin dp.removed
  /\ Guaranteed * (Len(dp.clients) + 1) <= NCores
  /\ Becomes(cores_init_proc([dp EXCEPT !.clients = Append(@, p)], p))
  /\ UNCHANGED <<kt, txq, parks>>

\* What is left in the fields and queues of p's kthreads is never looked at
\* again.
Forget(s, p) ==
  LET reset(f, v) == [th \in Kthread |-> IF ProcOf(th) = p THEN v ELSE f[th]] IN
  [s EXCEPT !.idle[p] = << >>, !.timer = @ \ {p}, !.waking = @ \ ThreadsOf(p),
            !.core = reset(@, 1), !.efd = reset(@, 0), !.rxq = reset(@, 0)]

dp_clients_remove_client(p) ==
  /\ ~dp.bug /\ p \in Exiting
  /\ LET s == cores_free_proc([dp EXCEPT !.clients = SwapRemove(@, p)], p) IN
     Becomes(Forget(proc_put(s, p), p))
  /\ txq' = [th \in Kthread |-> IF ProcOf(th) = p THEN << >> ELSE txq[th]]
  /\ UNCHANGED <<kt, parks>>

\* commands_drain_queue, for a thread of the polling array; payload tells
\* whether the command has one.
commands_drain_queue(th) ==
  /\ ~dp.bug /\ th \in dp.ts /\ txq[th] # << >>
  /\ txq' = [txq EXCEPT ![th] = Tail(@)]
  /\ LET p == ProcOf(th)
         m == Head(txq[th])
         s == cores_park_kthread(dp, th, FALSE)
         stays == ~InFlight(dp, th, FALSE)
     IN IF m.payload /\ stays /\ ~s.bug
        THEN IF m.cmd = "PARKED_LAST"
             THEN Becomes([s EXCEPT !.timer = IF s.active[p] = << >>
                                              THEN @ \cup {p} ELSE @])
             ELSE \E h \in 1 .. (IF s.active[p] = << >> THEN 1 ELSE Len(s.active[p])) :
                    Becomes(rx_send_to_runtime(s, p, h))
        ELSE Becomes(s)
  /\ UNCHANGED <<kt, parks>>

\* cores_is_proc_congested finds the i-th active thread of p the first that is
\* congested, or none if i is 0.  Threads that just woke up get a pass.
MayBeCongested(p, i) ==
  i > 0 => i <= Len(dp.active[p]) /\ dp.active[p][i] \notin dp.waking

\* A client's turn in cores_adjust_assignments; expired: its pending timer is due.
AdjustClient(s, p, i, expired) ==
  LET a  == s.active[p]
      s1 == IF Len(a) - s.inflight[p] # 0 THEN proc_clear_overloaded(s, p) ELSE s
      s2 == [s1 EXCEPT !.waking = @ \ {a[j] : j \in 1 .. (IF i = 0 THEN Len(a) ELSE i)}]
  IN IF i = 0 /\ ~expired THEN s2
     ELSE IF Len(a) < Guaranteed THEN cores_add_core(s2, p)
     ELSE proc_set_overloaded(s2, p)

\* An overloaded process' turn.
AdjustGrant(s, p) == IF s.avail = {} THEN s ELSE cores_add_core(s, p)

cores_adjust_assignments ==
  /\ ~dp.bug
  /\ \E cong \in [ToSet(dp.clients) -> 0 .. Cardinality(Kthread)], due \in SUBSET dp.timer :
       LET s1 == FoldLeft(LAMBDA s, p : AdjustClient(s, p, cong[p], p \in due),
                          dp, dp.clients)
           s2 == FoldLeft(AdjustGrant, s1, s1.overloaded)
       IN /\ \A p \in DOMAIN cong : MayBeCongested(p, cong[p])
          /\ Becomes(s2)
  /\ UNCHANGED <<kt, txq, parks>>

-----------------------------------------------------------------------------
(***************************************************************************)
(* The kthreads, with no spinning kthreads configured.                     *)
(***************************************************************************)
\* The command of kthread_park: PARKED, with a payload if somebody else has to
\* join the kthread, or, by the last running kthread of a process, PARKED_LAST
\* with the time until its first timer, unless that is late.
Command(th, voluntary, timers, late) ==
  LET last == \A o \in ThreadsOf(ProcOf(th)) \ {th} : kt[o] # "running" IN
  [cmd |-> IF voluntary /\ timers /\ last /\ ~late THEN "PARKED_LAST" ELSE "PARKED",
   payload |-> timers \/ ~voluntary]

kthread_park(th, voluntary, timers, late) ==
  /\ kt[th] = "running" /\ parks < MaxParks
  /\ parks' = parks + 1
  /\ txq' = [txq EXCEPT ![th] = Append(@, Command(th, voluntary, timers, late))]
  /\ kt' = [kt EXCEPT ![th] = "sent"]
  /\ UNCHANGED <<dp, needed>>

\* kthread_yield_to_iokernel: clear_preempt_needed.
ClearNeeded(th) ==
  /\ kt[th] = "sent"
  /\ needed' = needed \ {th}
  /\ kt' = [kt EXCEPT ![th] = "reading"]
  /\ UNCHANGED <<dp, txq, parks>>

\* The read of the eventfd returns.  The handler is installed with SA_RESTART:
\* a signal does not end the read, and the flag it sets stays.
ReadEventfd(th) ==
  /\ kt[th] = "reading" /\ dp.efd[th] > 0
  /\ dp' = [dp EXCEPT !.efd[th] = 0]
  /\ kt' = [kt EXCEPT ![th] = "running"]
  /\ UNCHANGED <<needed, txq, parks>>

\* softirq_gather_work takes a command from the RXQ.
Receive(th) ==
  /\ kt[th] = "running" /\ dp.rxq[th] > 0
  /\ dp' = [dp EXCEPT !.rxq[th] = @ - 1]
  /\ UNCHANGED <<kt, needed, txq, parks>>

\* The process is dead, and the control thread marks it removed.  Until then
\* the dataplane cannot tell it from one whose kthreads do nothing.
Exit(p) ==
  /\ Contains(dp.clients, p) /\ p \notin dp.removed
  /\ LET s == [dp EXCEPT !.removed = @ \cup {p}] IN NoRace(s) /\ dp' = s
  /\ kt' = [th \in Kthread |-> IF ProcOf(th) = p THEN "dead" ELSE kt[th]]
  /\ needed' = needed \ ThreadsOf(p)
  /\ UNCHANGED <<txq, parks>>

Next ==
  \/ \E p \in Proc : \/ dp_clients_add_client(p)
                     \/ dp_clients_remove_client(p)
                     \/ Exit(p)
  \/ cores_adjust_assignments
  \/ \E th \in Kthread : \/ commands_drain_queue(th)
                         \/ \E voluntary, timers, late \in BOOLEAN :
                              kthread_park(th, voluntary, timers, late)
                         \/ ClearNeeded(th)
                         \/ ReadEventfd(th)
                         \/ Receive(th)

Spec == Init /\ [][Next]_vars

-----------------------------------------------------------------------------
\* No handler runs into a BUG or BUG_ON of cores.c: pick_core_for_proc finds a
\* core for every process below its guarantee, and a thread that parks, or is
\* granted a core, finds core and thread in the state the code assumes.
NoBug == ~dp.bug

HoldsCore(th) == dp.core[th] \notin dp.avail /\ dp.current[dp.core[th]] = th
WaitsForCore(th) == dp.core[th] \notin dp.avail /\ dp.next[dp.core[th]] = th

\* avail_cores, core_history, active_threads and the polling array agree after
\* every handler: a busy core belongs to one active thread, a thread waits only
\* for a busy core, and an active thread is polled and has a core or waits for
\* one, never both.
CoreOwnership ==
  /\ \A c \in Core : c \notin dp.avail =>
       dp.current[c] # NULL /\ ~Parked(dp, dp.current[c]) /\ HoldsCore(dp.current[c])
  /\ \A c \in Core : dp.next[c] # NULL => ~Parked(dp, dp.next[c]) /\ WaitsForCore(dp.next[c])
  /\ \A th \in Kthread : ~Parked(dp, th) => HoldsCore(th) # WaitsForCore(th)
  /\ dp.ts = {th \in Kthread : ~Parked(dp, th)}

\* A process counts as bursting exactly while it has more than its guarantee,
\* and inflight_preempts is the number of its cores that others wait for.
CountersExact ==
  /\ \A p \in ToSet(dp.clients) : p \in dp.bursting <=> Len(dp.active[p]) > Guaranteed
  /\ \A p \in Proc : dp.inflight[p] =
       Cardinality({c \in Core : dp.next[c] # NULL /\ ProcOf(dp.current[c]) = p})

\* The references of a process are the dataplane's own, one per polled thread
\* and one per place in core_history, so that proc_release is called when, and
\* only when, nothing points to the process any more.
RefsExact ==
  \A p \in Proc :
    /\ dp.ref[p] = (IF p \in dp.removed /\ ~Contains(dp.clients, p) THEN 0 ELSE 1)
                   + Cardinality({th \in dp.ts : ProcOf(th) = p})
                   + Cardinality({c \in Core : dp.current[c] \in ThreadsOf(p)})
                   + Cardinality({c \in Core : dp.prev[c] \in ThreadsOf(p)})
    /\ p \in dp.released <=> dp.ref[p] = 0

\* An eventfd adds up what is written to it, and the kthread takes the sum for
\* its core: it is woken at most once per read, after the dataplane has taken
\* its command, and with the core it was given.  A kthread that holds a core
\* is running, or is woken, or has told the dataplane that it parks.
WakeExact ==
  /\ \A th \in Kthread : dp.efd[th] > 0 =>
       /\ dp.efd[th] = dp.core[th] + 1
       /\ kt[th] # "running" /\ (kt[th] # "dead" => txq[th] = << >>)
  /\ \A c \in Core \ dp.avail : LET th == dp.current[c] IN
       kt[th] \in {"running", "dead"} \/ dp.efd[th] > 0 \/ txq[th] # << >>

\* The last kthread of a process to park leaves the time of its first timer
\* with the dataplane.  When the dataplane takes that command and the kthread
\* stays parked, the timer is pending, or the process waits for a core, or a
\* kthread of it is awake, is woken, or asks to be joined; otherwise nobody
\* looks at the timer when its time has come.
DeadlineKept ==
  [][\A th \in Kthread : LET p == ProcOf(th) IN
       /\ commands_drain_queue(th)
       /\ Head(txq[th]).cmd = "PARKED_LAST" /\ dp'.active[p] # dp.active[p]
       => \/ p \in dp'.timer \/ IsOverloaded(dp', p)
          \/ \E o \in ThreadsOf(p) : \/ kt[o] \in {"running", "dead"} \/ dp'.efd[o] > 0
                                     \/ \E i \in DOMAIN txq'[o] : txq'[o][i].payload]_vars
=============================================================================
