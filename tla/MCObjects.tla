----------------------------- MODULE MCObjects ------------------------------
(***************************************************************************)
(* The objects of the runtime that share no state, side by side for TLC:   *)
(* condvar_t with its mutex_t, rwmutex_t, waitgroup_t, barrier_t,          *)
(* rt::Thread, an lrpc channel and the timers.                             *)
(* A behaviour exercises the one object that its initial state picks, with *)
(* every interleaving of the threads that use it; the others stay as they  *)
(* were initialised.                                                       *)
(***************************************************************************)
EXTENDS CondVar, FiniteSets

CONSTANTS
  t1, t2, t3, t4, w1, w2, w3, p1, p2,
  k1, k2, e1, e2,
  MaxRounds   \* bound: calls of barrier_wait per thread

VARIABLES
  object,     \* the object in use
  rw_count, rw_read_waiter_count, rw_read_waiters, rw_write_waiters, rw_pc, rw_tmp,
  wg_cnt, wg_waiters, wg_pc, wg_tmp,
  b_waiting, b_waiters, b_pc, b_tmp, b_arrived, b_returned,
  j_child, j_parent, j_done, j_waiter,
  ch_tbl, ch_recv_head_wb, ch_send_head, ch_send_tail, ch_recv_head,
  ch_spc, ch_smsg, ch_rpc, ch_rmsg, ch_last,
  tm_now, tm_timers, tm_deadline, tm_armed, tm_idx, tm_localk, tm_cancelling,
  tm_firing, tm_fate, tm_crashed

RW == INSTANCE RwMutex WITH
  Thread <- {t1, t2, t3, t4},
  count <- rw_count, read_waiter_count <- rw_read_waiter_count,
  read_waiters <- rw_read_waiters, write_waiters <- rw_write_waiters,
  pc <- rw_pc, tmp <- rw_tmp

WG == INSTANCE WaitGroup WITH
  Worker <- {w1, w2, w3}, first <- w1, Waiter <- {t1, t2, t3},
  cnt <- wg_cnt, waiters <- wg_waiters, pc <- wg_pc, tmp <- wg_tmp

B == INSTANCE Barrier WITH
  Thread <- {t1, t2, t3, t4},
  waiting <- b_waiting, waiters <- b_waiters, pc <- b_pc, tmp <- b_tmp,
  arrived <- b_arrived, returned <- b_returned

J == INSTANCE ThreadJoin WITH
  Pair <- {p1, p2},
  child <- j_child, parent <- j_parent, done_ <- j_done, waiter_ <- j_waiter

\* A table of two slots, and counters that wrap after four passes.
CH == INSTANCE Lrpc WITH
  Size <- 2, Wrap <- 8, Value <- {0, 1},
  tbl <- ch_tbl, recv_head_wb <- ch_recv_head_wb, send_head <- ch_send_head,
  send_tail <- ch_send_tail, recv_head <- ch_recv_head, spc <- ch_spc,
  smsg <- ch_smsg, rpc <- ch_rpc, rmsg <- ch_rmsg, last <- ch_last

\* Two timers and a sleeper on two kthreads, one of which runs timer_softirq
\* while another thread cancels.
TM == INSTANCE Timer WITH
  Kthread <- {k1, k2}, Timer <- {e1, e2}, Sleeper <- {t1}, Caller <- {t2},
  Softirq <- {t3}, D <- 2, MaxTime <- 2, CancelExpired <- FALSE,
  now <- tm_now, timers <- tm_timers, deadline <- tm_deadline, armed <- tm_armed,
  idx <- tm_idx, localk <- tm_localk, cancelling <- tm_cancelling,
  firing <- tm_firing, fate <- tm_fate, crashed <- tm_crashed

ASSUME ObjectsAssumption ==
  /\ WG!WaitGroupAssumption /\ B!BarrierAssumption
  /\ CH!LrpcConstants /\ TM!TimerConstants

rwvars == <<rw_count, rw_read_waiter_count, rw_read_waiters, rw_write_waiters,
            rw_pc, rw_tmp>>
wgvars == <<wg_cnt, wg_waiters, wg_pc, wg_tmp>>
bvars == <<b_waiting, b_waiters, b_pc, b_tmp, b_arrived, b_returned>>
jvars == <<j_child, j_parent, j_done, j_waiter>>
chvars == <<ch_tbl, ch_recv_head_wb, ch_send_head, ch_send_tail, ch_recv_head,
            ch_spc, ch_smsg, ch_rpc, ch_rmsg, ch_last>>
tmvars == <<tm_now, tm_timers, tm_deadline, tm_armed, tm_idx, tm_localk,
            tm_cancelling, tm_firing, tm_fate, tm_crashed>>
objectvars == <<object, allvars, rwvars, wgvars, bvars, jvars, chvars, tmvars>>

ObjectsInit ==
  /\ object \in {"condvar", "rwmutex", "waitgroup", "barrier", "thread", "channel", "timer"}
  /\ CvInit /\ RW!Init /\ WG!Init /\ B!Init /\ J!Init /\ CH!Init /\ TM!Init
  /\ object = "channel" \/ ch_tbl[0].cmd = 0   \* the table starts with any content
  /\ object = "timer" \/ \A e \in {e1, e2} : tm_localk[e] = NULL   \* and so does localk

\* A step A of the object in use leaves the others alone.
Cv(A) == /\ object = "condvar" /\ A
         /\ UNCHANGED <<object, rwvars, wgvars, bvars, jvars, chvars, tmvars>>
Rw(A) == /\ object = "rwmutex" /\ A
         /\ UNCHANGED <<object, allvars, wgvars, bvars, jvars, chvars, tmvars>>
Wg(A) == /\ object = "waitgroup" /\ A
         /\ UNCHANGED <<object, allvars, rwvars, bvars, jvars, chvars, tmvars>>
Bar(A) == /\ object = "barrier" /\ A
          /\ UNCHANGED <<object, allvars, rwvars, wgvars, jvars, chvars, tmvars>>
Join(A) == /\ object = "thread" /\ A
           /\ UNCHANGED <<object, allvars, rwvars, wgvars, bvars, chvars, tmvars>>
Ch(A) == /\ object = "channel" /\ A
         /\ UNCHANGED <<object, allvars, rwvars, wgvars, bvars, jvars, tmvars>>
Tm(A) == /\ object = "timer" /\ A
         /\ UNCHANGED <<object, allvars, rwvars, wgvars, bvars, jvars, chvars>>

ObjectsNext ==
  \/ Cv(CvNext) \/ Rw(RW!Next) \/ Wg(WG!Next) \/ Bar(B!Next) \/ Join(J!Next)
  \/ Ch(CH!Next) \/ Tm(TM!Next)

\* Every thread does what it is bound to do with the object in use.
ObjectsFairness ==
  /\ CvFairness
  /\ \A t \in {t1, t2, t3, t4} : WF_objectvars(Rw(RW!Continue(t)))
  /\ \A t \in {w1, w2, w3, t1, t2, t3} : WF_objectvars(Wg(WG!Continue(t)))
  /\ \A t \in {t1, t2, t3, t4} : WF_objectvars(Bar(B!Continue(t)))
  /\ \A p \in {p1, p2} : WF_objectvars(Join(J!Child(p))) /\ WF_objectvars(Join(J!Parent(p)))
  /\ WF_objectvars(Ch(CH!Finish)) /\ WF_objectvars(Ch(CH!Receiver))
  /\ SF_objectvars(Tm(TM!Step(TM!Tick)))
  /\ WF_objectvars(Tm(TM!Step(TM!timer_cancel(t2))))
  /\ SF_objectvars(Tm(TM!Step(TM!CancelEnds(t2))))
  /\ WF_objectvars(Tm(TM!Step(TM!Handler(t3))))

ObjectsSpec == ObjectsInit /\ [][ObjectsNext]_objectvars /\ ObjectsFairness

-----------------------------------------------------------------------------
\* rwmutex_t: a writer is alone, also one rwmutex_unlock granted the lock.
WriterExcludes == RW!WriterExcludes

\* rwmutex_t: count is the number of holders, the threads that rwmutex_unlock
\* has granted the lock and not yet made ready included.
CountIsHolders == RW!CountIsHolders

\* rwmutex_t: a parked reader gets the lock, however many writers queue.
ReaderAcquires == RW!ReaderAcquires

\* waitgroup_t: waitgroup_wait returns only after all counted workers are
\* finished, those counted while it waited included.
WaitsForAll == WG!WaitsForAll

\* barrier_t: no call of barrier_wait returns before all threads have called it
\* as often.
Lockstep == B!Lockstep

\* rt::Thread: join_data outlives every access of the owner, and Join returns
\* only after func_ has returned.
JoinSafe == J!JoinDataAlive /\ J!JoinAfterFunc

\* Nothing waits for ever: every call of waitgroup_wait, and of barrier_wait in
\* every round, returns; the child of an rt::Thread exits and its owner's call
\* returns; the receiver of a channel gets what was sent.
EverythingReturns ==
  /\ object = "waitgroup" => WG!WaitReturns
  /\ object = "barrier" => B!EveryRoundCompletes
  /\ object = "thread" => J!BothSettle
  /\ object = "channel" => CH!Drains

\* lrpc: the sender's view of the channel is never too optimistic, and the
\* parity bits tell the receiver exactly whether there is a message.
RingSound == CH!WindowSound /\ CH!ParityExact

\* lrpc: the ring implements a bounded FIFO channel.
ImplementsChannel == CH!ImplementsChannel

\* timers: every heap is ordered by deadline, in every slot.
HeapOrder == TM!HeapOrder

\* timers: idx and localk of a pending timer name its slot and its heap, which
\* is what timer_cancel relies on.
SlotsExact == TM!SlotsExact

\* timers: every timer that is started fires or is cancelled, as long as due
\* timers keep being looked for.
TimersFire == object = "timer" => TM!TimersFire
=============================================================================
