-------------------------- MODULE SchedQueueProofs --------------------------
(***************************************************************************)
(* What each queue operation of Sched does to the set of queued threads,   *)
(* and that it never puts a thread in two slots: the lemmas SchedProofs    *)
(* rests on.                                                               *)
(***************************************************************************)
EXTENDS Sched, SeqLemmas

\* Thread t has a slot in some queue.
InQueue(t) == \E k \in Kthread : t \in Queued(k)

\* The queues of kthread j are as they were.
SameQueues(j) ==
  rq'[j] = rq[j] /\ rrq'[j] = rrq[j] /\ rq_overflow'[j] = rq_overflow[j]

-----------------------------------------------------------------------------
\* drain_overflow never exceeds the ring, and keeps the threads and their
\* order: the ring followed by the rest of the list is what it was.
LEMMA DrainFacts ==
  ASSUME NEW q \in Seq(Thread), NEW ov \in Seq(Thread), Len(q) <= RqSize
  PROVE  /\ DrainQ(q, ov) \in Seq(Thread) /\ DrainOv(q, ov) \in Seq(Thread)
         /\ Len(DrainQ(q, ov)) <= RqSize
         /\ \E a \in Seq(Thread) : /\ DrainQ(q, ov) = q \o a
                                   /\ ov = a \o DrainOv(q, ov)
<1> DEFINE n == Drained(q, ov)
<1>1. n \in 0 .. Len(ov) /\ Len(q) + n <= RqSize
  BY SchedAssumption DEF Drained
<1> HIDE DEF n
<1> DEFINE a == SubSeq(ov, 1, n)
           b == SubSeq(ov, n + 1, Len(ov))
<1>2. a \in Seq(Thread) /\ Len(a) = n /\ b \in Seq(Thread) /\ ov = a \o b
  BY <1>1, CutFacts
<1>3. DrainQ(q, ov) = q \o a /\ DrainOv(q, ov) = b
  BY DEF DrainQ, DrainOv, n
<1> HIDE DEF a, b
<1>4. q \o a \in Seq(Thread) /\ Len(q \o a) = Len(q) + n
  BY <1>2, ConcatFacts
<1> QED
  BY <1>1, <1>2, <1>3, <1>4

\* ... so the threads of ring and list are the same, and stay distinct.
LEMMA DrainKeeps ==
  ASSUME NEW q \in Seq(Thread), NEW ov \in Seq(Thread), Len(q) <= RqSize
  PROVE  /\ Range(DrainQ(q, ov)) \cup Range(DrainOv(q, ov)) = Range(q) \cup Range(ov)
         /\ IsInjective(q) /\ IsInjective(ov) /\ Range(q) \cap Range(ov) = {}
            => /\ IsInjective(DrainQ(q, ov)) /\ IsInjective(DrainOv(q, ov))
               /\ Range(DrainQ(q, ov)) \cap Range(DrainOv(q, ov)) = {}
<1> DEFINE r == DrainQ(q, ov)
           b == DrainOv(q, ov)
<1>1. r \in Seq(Thread) /\ b \in Seq(Thread)
  BY DrainFacts
<1>2. PICK a \in Seq(Thread) : r = q \o a /\ ov = a \o b
  BY DrainFacts
<1> HIDE DEF r, b
<1>3. /\ Range(r) = Range(q) \cup Range(a)
      /\ IsInjective(r) <=> IsInjective(q) /\ IsInjective(a) /\ Range(q) \cap Range(a) = {}
  BY <1>2, ConcatFacts
<1>4. /\ Range(ov) = Range(a) \cup Range(b)
      /\ IsInjective(ov) <=> IsInjective(a) /\ IsInjective(b) /\ Range(a) \cap Range(b) = {}
  BY <1>1, <1>2, ConcatFacts
<1>5. Range(r) \cup Range(b) = Range(q) \cup Range(ov)
  BY <1>3, <1>4
<1>6. ASSUME IsInjective(q), IsInjective(ov), Range(q) \cap Range(ov) = {}
      PROVE  IsInjective(r) /\ IsInjective(b) /\ Range(r) \cap Range(b) = {}
  BY <1>3, <1>4, <1>6
<1> QED
  BY <1>5, <1>6 DEF r, b

\* A change of the queues of one kthread.
LEMMA OneKthread ==
  ASSUME SlotsDistinct, NEW r \in Kthread,
         \A j \in Kthread \ {r} : SameQueues(j),
         DistinctIn(r)',
         \A j \in Kthread \ {r} : Queued(r)' \cap Queued(j) = {}
  PROVE  /\ SlotsDistinct'
         /\ \A t \in Thread :
              InQueue(t)' <=> t \in Queued(r)' \/ \E j \in Kthread \ {r} : t \in Queued(j)
<1>1. \A j \in Kthread \ {r} : Queued(j)' = Queued(j) /\ (DistinctIn(j)' <=> DistinctIn(j))
  BY DEF SameQueues, Queued, DistinctIn
<1>2. SlotsDistinct'
  BY <1>1 DEF SlotsDistinct
<1>3. \A t \in Thread :
        InQueue(t)' <=> t \in Queued(r)' \/ \E j \in Kthread \ {r} : t \in Queued(j)
  BY <1>1 DEF InQueue
<1> QED
  BY <1>2, <1>3

\* A thread that was in no queue gets a slot in the queues of kthread r.
LEMMA Added ==
  ASSUME SlotsDistinct, NEW r \in Kthread, NEW t \in Thread, ~InQueue(t),
         \A j \in Kthread \ {r} : SameQueues(j),
         DistinctIn(r)', Queued(r)' = Queued(r) \cup {t}
  PROVE  SlotsDistinct' /\ \A u \in Thread : InQueue(u)' <=> InQueue(u) \/ u = t
<1>1. \A j \in Kthread \ {r} : Queued(r)' \cap Queued(j) = {}
  BY DEF SlotsDistinct, InQueue
<1>2. /\ SlotsDistinct'
      /\ \A u \in Thread :
           InQueue(u)' <=> u \in Queued(r)' \/ \E j \in Kthread \ {r} : u \in Queued(j)
  BY <1>1, OneKthread
<1> QED
  BY <1>2 DEF InQueue

\* A thread loses its slot in the queues of kthread r.
LEMMA Removed ==
  ASSUME SlotsDistinct, NEW r \in Kthread, NEW t \in Queued(r),
         \A j \in Kthread \ {r} : SameQueues(j),
         DistinctIn(r)', Queued(r)' = Queued(r) \ {t}
  PROVE  SlotsDistinct' /\ \A u \in Thread : InQueue(u)' <=> InQueue(u) /\ u # t
<1>1. \A j \in Kthread \ {r} : Queued(r)' \cap Queued(j) = {} /\ t \notin Queued(j)
  BY DEF SlotsDistinct
<1>2. /\ SlotsDistinct'
      /\ \A u \in Thread :
           InQueue(u)' <=> u \in Queued(r)' \/ \E j \in Kthread \ {r} : u \in Queued(j)
  BY <1>1, OneKthread
<1> QED
  BY <1>1, <1>2 DEF InQueue

\* Threads move between the queues of two kthreads, or leave them.
LEMMA TwoKthreads ==
  ASSUME SlotsDistinct, NEW l \in Kthread, NEW r \in Kthread, l # r,
         \A j \in Kthread \ {l, r} : SameQueues(j),
         DistinctIn(l)', DistinctIn(r)', Queued(l)' \cap Queued(r)' = {},
         Queued(l)' \cup Queued(r)' \subseteq Queued(l) \cup Queued(r)
  PROVE  /\ SlotsDistinct'
         /\ \A t \in Queued(l) \cup Queued(r) :
              InQueue(t)' <=> t \in Queued(l)' \cup Queued(r)'
         /\ \A t \in Thread \ (Queued(l) \cup Queued(r)) : InQueue(t)' <=> InQueue(t)
<1>1. \A j \in Kthread \ {l, r} : Queued(j)' = Queued(j) /\ (DistinctIn(j)' <=> DistinctIn(j))
  BY DEF SameQueues, Queued, DistinctIn
<1>2. \A j \in Kthread \ {l, r} : (Queued(l) \cup Queued(r)) \cap Queued(j) = {}
  BY DEF SlotsDistinct
<1>3. SlotsDistinct'
  BY <1>1, <1>2 DEF SlotsDistinct
<1>4. \A t \in Queued(l) \cup Queued(r) : InQueue(t)' <=> t \in Queued(l)' \cup Queued(r)'
  BY <1>1, <1>2 DEF InQueue
<1>5. \A t \in Thread \ (Queued(l) \cup Queued(r)) : InQueue(t)' <=> InQueue(t)
  BY <1>1 DEF InQueue
<1> QED
  BY <1>3, <1>4, <1>5

\* thread_ready of the threads ts: they are in ring and list afterwards.
LEMMA PushAllFacts ==
  ASSUME NEW q \in Seq(Thread), NEW ov \in Seq(Thread), NEW ts \in Seq(Thread),
         Len(q) <= RqSize
  PROVE  /\ DrainQ(q, ts) \in Seq(Thread) /\ Len(DrainQ(q, ts)) <= RqSize
         /\ ov \o DrainOv(q, ts) \in Seq(Thread)
         /\ Range(DrainQ(q, ts)) \cup Range(ov \o DrainOv(q, ts))
              = Range(q) \cup Range(ov) \cup Range(ts)
         /\ /\ IsInjective(q) /\ IsInjective(ov) /\ IsInjective(ts)
            /\ Range(q) \cap Range(ov) = {}
            /\ Range(ts) \cap (Range(q) \cup Range(ov)) = {}
            => /\ IsInjective(DrainQ(q, ts)) /\ IsInjective(ov \o DrainOv(q, ts))
               /\ Range(DrainQ(q, ts)) \cap Range(ov \o DrainOv(q, ts)) = {}
<1> DEFINE r == DrainQ(q, ts)
           b == DrainOv(q, ts)
<1>1. r \in Seq(Thread) /\ b \in Seq(Thread) /\ Len(r) <= RqSize
  BY DrainFacts
<1>2. /\ Range(r) \cup Range(b) = Range(q) \cup Range(ts)
      /\ IsInjective(q) /\ IsInjective(ts) /\ Range(q) \cap Range(ts) = {}
         => IsInjective(r) /\ IsInjective(b) /\ Range(r) \cap Range(b) = {}
  BY DrainKeeps
<1> HIDE DEF r, b
<1>3. /\ ov \o b \in Seq(Thread)
      /\ Range(ov \o b) = Range(ov) \cup Range(b)
      /\ IsInjective(ov \o b) <=>
           IsInjective(ov) /\ IsInjective(b) /\ Range(ov) \cap Range(b) = {}
  BY <1>1, ConcatFacts
<1>4. Range(r) \cup Range(ov \o b) = Range(q) \cup Range(ov) \cup Range(ts)
  BY <1>2, <1>3
<1>5. ASSUME IsInjective(q), IsInjective(ov), IsInjective(ts),
             Range(q) \cap Range(ov) = {},
             Range(ts) \cap (Range(q) \cup Range(ov)) = {}
      PROVE  IsInjective(r) /\ IsInjective(ov \o b) /\ Range(r) \cap Range(ov \o b) = {}
  <2>1. IsInjective(r) /\ IsInjective(b) /\ Range(r) \cap Range(b) = {}
    BY <1>2, <1>5
  <2>2. Range(ov) \cap (Range(r) \cup Range(b)) = {}
    BY <1>2, <1>5
  <2> QED
    BY <1>3, <1>5, <2>1, <2>2
<1> QED
  BY <1>1, <1>3, <1>4, <1>5 DEF r, b

\* thread_ready of t by kthread k.
LEMMA PushEffect ==
  ASSUME QueuesOK, SlotsDistinct, NEW k \in Kthread, NEW t \in Thread, ~InQueue(t), Push(k, t)
  PROVE  /\ QueuesOK' /\ SlotsDistinct'
         /\ \A u \in Thread : InQueue(u)' <=> InQueue(u) \/ u = t
<1> PICK q, rr, ov, ts, q2, ov2 :
       /\ q = rq[k] /\ rr = rrq[k] /\ ov = rq_overflow[k] /\ ts = <<t>>
       /\ q2 = DrainQ(q, ts) /\ ov2 = ov \o DrainOv(q, ts)
  OBVIOUS
<1>1. q \in Seq(Thread) /\ rr \in Seq(Thread) /\ ov \in Seq(Thread) /\ Len(q) <= RqSize
  BY DEF QueuesOK
<1>2. ts \in Seq(Thread) /\ Range(ts) = {t} /\ IsInjective(ts)
  BY SingleFacts
<1>3. /\ rq' = [rq EXCEPT ![k] = q2] /\ rq_overflow' = [rq_overflow EXCEPT ![k] = ov2]
      /\ rrq' = rrq
  BY DEF Push, PushAll
<1>4. /\ rq'[k] = q2 /\ rrq'[k] = rr /\ rq_overflow'[k] = ov2
      /\ \A j \in Kthread \ {k} : SameQueues(j)
  BY <1>3 DEF QueuesOK, SameQueues
<1>5. t \notin Range(q) \cup Range(rr) \cup Range(ov)
  BY DEF InQueue, Queued
<1>6. /\ IsInjective(q) /\ IsInjective(rr) /\ IsInjective(ov)
      /\ Range(q) \cap Range(rr) = {} /\ Range(q) \cap Range(ov) = {}
      /\ Range(rr) \cap Range(ov) = {}
  BY DEF SlotsDistinct, DistinctIn
<1>7. /\ q2 \in Seq(Thread) /\ Len(q2) <= RqSize /\ ov2 \in Seq(Thread)
      /\ Range(q2) \cup Range(ov2) = Range(q) \cup Range(ov) \cup {t}
      /\ IsInjective(q2) /\ IsInjective(ov2) /\ Range(q2) \cap Range(ov2) = {}
  <2>1. Range(ts) \cap (Range(q) \cup Range(ov)) = {}
    BY <1>2, <1>5
  <2> QED
    BY <1>1, <1>2, <1>6, <2>1, PushAllFacts
<1>8. QueuesOK'
  BY <1>3, <1>7 DEF QueuesOK
<1>9. DistinctIn(k)'
  BY <1>4, <1>5, <1>6, <1>7 DEF DistinctIn
<1>10. Queued(k)' = Queued(k) \cup {t}
  BY <1>4, <1>7 DEF Queued
<1> QED
  BY <1>4, <1>8, <1>9, <1>10, Added

\* thread_throw of t to another kthread r.
LEMMA PushRemoteEffect ==
  ASSUME QueuesOK, SlotsDistinct, NEW r \in Kthread, NEW t \in Thread, ~InQueue(t),
         PushRemote(r, t)
  PROVE  /\ QueuesOK' /\ SlotsDistinct'
         /\ \A u \in Thread : InQueue(u)' <=> InQueue(u) \/ u = t
<1> PICK q, rr, ov : q = rq[r] /\ rr = rrq[r] /\ ov = rq_overflow[r]
  OBVIOUS
<1>1. q \in Seq(Thread) /\ rr \in Seq(Thread) /\ ov \in Seq(Thread) /\ Len(rr) <= RrqSize
  BY DEF QueuesOK
<1>2. t \notin Range(q) \cup Range(rr) \cup Range(ov)
  BY DEF InQueue, Queued
<1>3. /\ IsInjective(q) /\ IsInjective(rr) /\ IsInjective(ov)
      /\ Range(q) \cap Range(rr) = {} /\ Range(q) \cap Range(ov) = {}
      /\ Range(rr) \cap Range(ov) = {}
  BY DEF SlotsDistinct, DistinctIn
<1>4. CASE Len(rr) < RrqSize
  <2>1. rq' = rq /\ rrq' = [rrq EXCEPT ![r] = Append(rr, t)] /\ rq_overflow' = rq_overflow
    BY <1>4 DEF PushRemote
  <2>2. /\ rq'[r] = q /\ rrq'[r] = Append(rr, t) /\ rq_overflow'[r] = ov
        /\ \A j \in Kthread \ {r} : SameQueues(j)
    BY <2>1 DEF QueuesOK, SameQueues
  <2>3. /\ Append(rr, t) \in Seq(Thread) /\ Len(Append(rr, t)) = Len(rr) + 1
        /\ Range(Append(rr, t)) = Range(rr) \cup {t} /\ IsInjective(Append(rr, t))
    BY <1>1, <1>2, <1>3, AppendFacts
  <2>4. Len(Append(rr, t)) <= RrqSize
    BY <1>1, <1>4, <2>3, SchedAssumption
  <2>5. QueuesOK'
    BY <2>1, <2>3, <2>4 DEF QueuesOK
  <2>6. DistinctIn(r)' /\ Queued(r)' = Queued(r) \cup {t}
    BY <1>2, <1>3, <2>2, <2>3 DEF DistinctIn, Queued
  <2> QED
    BY <2>2, <2>5, <2>6, Added
<1>5. CASE ~(Len(rr) < RrqSize)
  <2>1. rq' = rq /\ rrq' = rrq /\ rq_overflow' = [rq_overflow EXCEPT ![r] = Append(ov, t)]
    BY <1>5 DEF PushRemote
  <2>2. /\ rq'[r] = q /\ rrq'[r] = rr /\ rq_overflow'[r] = Append(ov, t)
        /\ \A j \in Kthread \ {r} : SameQueues(j)
    BY <2>1 DEF QueuesOK, SameQueues
  <2>3. /\ Append(ov, t) \in Seq(Thread)
        /\ Range(Append(ov, t)) = Range(ov) \cup {t} /\ IsInjective(Append(ov, t))
    BY <1>1, <1>2, <1>3, AppendFacts
  <2>4. QueuesOK'
    BY <2>1, <2>3 DEF QueuesOK
  <2>5. DistinctIn(r)' /\ Queued(r)' = Queued(r) \cup {t}
    BY <1>2, <1>3, <2>2, <2>3 DEF DistinctIn, Queued
  <2> QED
    BY <2>2, <2>4, <2>5, Added
<1> QED
  BY <1>4, <1>5

\* thread_throw in general.
LEMMA ThrowEffect ==
  ASSUME QueuesOK, SlotsDistinct, kthread_wanted \in [Thread -> Targets],
         NEW k \in Kthread, NEW t \in Thread, NEW kidx \in Targets, ~InQueue(t),
         Throw(k, t, kidx)
  PROVE  /\ QueuesOK' /\ SlotsDistinct' /\ kthread_wanted' \in [Thread -> Targets]
         /\ \A u \in Thread : InQueue(u)' <=> InQueue(u) \/ u = t
<1>1. kthread_wanted' \in [Thread -> Targets]
  BY DEF Throw
<1>2. CASE Push(k, t)
  BY <1>1, <1>2, PushEffect
<1>3. CASE kidx # NULL /\ PushRemote(kidx, t)
  <2>1. kidx \in Kthread
    BY <1>3, SchedAssumption
  <2> QED
    BY <1>1, <1>3, <2>1, PushRemoteEffect
<1> QED
  BY <1>2, <1>3 DEF Throw

\* Popping the first targeted thread of k (enter_schedule).
LEMMA PopTargeted ==
  ASSUME QueuesOK, SlotsDistinct, NEW k \in Kthread, rrq[k] # << >>,
         NEW t, t = Head(rrq[k]), rrq' = [rrq EXCEPT ![k] = Tail(@)],
         UNCHANGED <<rq, rq_overflow>>
  PROVE  /\ t \in Thread /\ InQueue(t) /\ QueuesOK' /\ SlotsDistinct'
         /\ \A u \in Thread : InQueue(u)' <=> InQueue(u) /\ u # t
<1> PICK q, rr, ov : q = rq[k] /\ rr = rrq[k] /\ ov = rq_overflow[k]
  OBVIOUS
<1>1. rr \in Seq(Thread) /\ rr # << >> /\ Len(rr) <= RrqSize
  BY DEF QueuesOK
<1>2. /\ IsInjective(q) /\ IsInjective(rr) /\ IsInjective(ov)
      /\ Range(q) \cap Range(rr) = {} /\ Range(q) \cap Range(ov) = {}
      /\ Range(rr) \cap Range(ov) = {}
  BY DEF SlotsDistinct, DistinctIn
<1>3. /\ t \in Thread /\ Tail(rr) \in Seq(Thread) /\ Len(Tail(rr)) = Len(rr) - 1
      /\ Len(rr) \in Nat \ {0}
      /\ Range(rr) = {t} \cup Range(Tail(rr)) /\ t \notin Range(Tail(rr))
      /\ IsInjective(Tail(rr))
  BY <1>1, <1>2, PopFacts
<1>4. /\ rq'[k] = q /\ rrq'[k] = Tail(rr) /\ rq_overflow'[k] = ov
      /\ \A j \in Kthread \ {k} : SameQueues(j)
  BY DEF QueuesOK, SameQueues
<1>5. QueuesOK'
  BY <1>1, <1>3, SchedAssumption DEF QueuesOK
<1>6. DistinctIn(k)' /\ Queued(k)' = Queued(k) \ {t} /\ t \in Queued(k)
  BY <1>2, <1>3, <1>4 DEF DistinctIn, Queued
<1>7. InQueue(t)
  BY <1>6 DEF InQueue
<1> QED
  BY <1>3, <1>4, <1>5, <1>6, <1>7, Removed

\* Popping the first thread of the ring of k (enter_schedule).
LEMMA PopRing ==
  ASSUME QueuesOK, SlotsDistinct, NEW k \in Kthread, rq[k] # << >>,
         NEW t, t = Head(rq[k]), rq' = [rq EXCEPT ![k] = Tail(@)],
         UNCHANGED <<rrq, rq_overflow>>
  PROVE  /\ t \in Thread /\ InQueue(t) /\ QueuesOK' /\ SlotsDistinct'
         /\ \A u \in Thread : InQueue(u)' <=> InQueue(u) /\ u # t
<1> PICK q, rr, ov : q = rq[k] /\ rr = rrq[k] /\ ov = rq_overflow[k]
  OBVIOUS
<1>1. q \in Seq(Thread) /\ q # << >> /\ Len(q) <= RqSize
  BY DEF QueuesOK
<1>2. /\ IsInjective(q) /\ IsInjective(rr) /\ IsInjective(ov)
      /\ Range(q) \cap Range(rr) = {} /\ Range(q) \cap Range(ov) = {}
      /\ Range(rr) \cap Range(ov) = {}
  BY DEF SlotsDistinct, DistinctIn
<1>3. /\ t \in Thread /\ Tail(q) \in Seq(Thread) /\ Len(Tail(q)) = Len(q) - 1
      /\ Len(q) \in Nat \ {0}
      /\ Range(q) = {t} \cup Range(Tail(q)) /\ t \notin Range(Tail(q))
      /\ IsInjective(Tail(q))
  BY <1>1, <1>2, PopFacts
<1>4. /\ rq'[k] = Tail(q) /\ rrq'[k] = rr /\ rq_overflow'[k] = ov
      /\ \A j \in Kthread \ {k} : SameQueues(j)
  BY DEF QueuesOK, SameQueues
<1>5. QueuesOK'
  BY <1>1, <1>3, SchedAssumption DEF QueuesOK
<1>6. DistinctIn(k)' /\ Queued(k)' = Queued(k) \ {t} /\ t \in Queued(k)
  BY <1>2, <1>3, <1>4 DEF DistinctIn, Queued
<1>7. InQueue(t)
  BY <1>6 DEF InQueue
<1> QED
  BY <1>3, <1>4, <1>5, <1>6, <1>7, Removed

\* Popping the first overflow thread of r (steal_work).
LEMMA PopOverflow ==
  ASSUME QueuesOK, SlotsDistinct, NEW r \in Kthread, rq_overflow[r] # << >>,
         NEW t, t = Head(rq_overflow[r]),
         rq_overflow' = [rq_overflow EXCEPT ![r] = Tail(@)],
         UNCHANGED <<rq, rrq>>
  PROVE  /\ t \in Thread /\ InQueue(t) /\ QueuesOK' /\ SlotsDistinct'
         /\ \A u \in Thread : InQueue(u)' <=> InQueue(u) /\ u # t
<1> PICK q, rr, ov : q = rq[r] /\ rr = rrq[r] /\ ov = rq_overflow[r]
  OBVIOUS
<1>1. ov \in Seq(Thread) /\ ov # << >>
  BY DEF QueuesOK
<1>2. /\ IsInjective(q) /\ IsInjective(rr) /\ IsInjective(ov)
      /\ Range(q) \cap Range(rr) = {} /\ Range(q) \cap Range(ov) = {}
      /\ Range(rr) \cap Range(ov) = {}
  BY DEF SlotsDistinct, DistinctIn
<1>3. /\ t \in Thread /\ Tail(ov) \in Seq(Thread)
      /\ Range(ov) = {t} \cup Range(Tail(ov)) /\ t \notin Range(Tail(ov))
      /\ IsInjective(Tail(ov))
  BY <1>1, <1>2, PopFacts
<1>4. /\ rq'[r] = q /\ rrq'[r] = rr /\ rq_overflow'[r] = Tail(ov)
      /\ \A j \in Kthread \ {r} : SameQueues(j)
  BY DEF QueuesOK, SameQueues
<1>5. QueuesOK'
  BY <1>1, <1>3 DEF QueuesOK
<1>6. DistinctIn(r)' /\ Queued(r)' = Queued(r) \ {t} /\ t \in Queued(r)
  BY <1>2, <1>3, <1>4 DEF DistinctIn, Queued
<1>7. InQueue(t)
  BY <1>6 DEF InQueue
<1> QED
  BY <1>3, <1>4, <1>5, <1>6, <1>7, Removed

\* drain_overflow of k, with the pop of a targeted thread (rr2 is the rest of
\* the rrq) or without (rr2 is the rrq): the rest of schedule() after its choice.
LEMMA DrainEffect ==
  ASSUME QueuesOK, SlotsDistinct, NEW k \in Kthread,
         NEW rr2 \in Seq(Thread), Len(rr2) <= RrqSize,
         IsInjective(rr2), Range(rr2) \subseteq Range(rrq[k]),
         rrq' = [rrq EXCEPT ![k] = rr2],
         rq' = [rq EXCEPT ![k] = DrainQ(@, rq_overflow[k])],
         rq_overflow' = [rq_overflow EXCEPT ![k] = DrainOv(rq[k], @)]
  PROVE  /\ QueuesOK' /\ DistinctIn(k)' /\ \A j \in Kthread \ {k} : SameQueues(j)
         /\ Queued(k)' = Range(rq[k]) \cup Range(rr2) \cup Range(rq_overflow[k])
<1> PICK q, rr, ov, q2, ov2 :
       /\ q = rq[k] /\ rr = rrq[k] /\ ov = rq_overflow[k]
       /\ q2 = DrainQ(q, ov) /\ ov2 = DrainOv(q, ov)
  OBVIOUS
<1>1. q \in Seq(Thread) /\ ov \in Seq(Thread) /\ Len(q) <= RqSize
  BY DEF QueuesOK
<1>2. /\ IsInjective(q) /\ IsInjective(ov)
      /\ Range(q) \cap Range(rr) = {} /\ Range(q) \cap Range(ov) = {}
      /\ Range(rr) \cap Range(ov) = {}
  BY DEF SlotsDistinct, DistinctIn
<1>3. q2 \in Seq(Thread) /\ ov2 \in Seq(Thread) /\ Len(q2) <= RqSize
  BY <1>1, DrainFacts
<1>4. /\ Range(q2) \cup Range(ov2) = Range(q) \cup Range(ov)
      /\ IsInjective(q2) /\ IsInjective(ov2) /\ Range(q2) \cap Range(ov2) = {}
  BY <1>1, <1>2, DrainKeeps
<1>5. /\ rq' = [rq EXCEPT ![k] = q2] /\ rq_overflow' = [rq_overflow EXCEPT ![k] = ov2]
  OBVIOUS
<1>6. /\ rq'[k] = q2 /\ rrq'[k] = rr2 /\ rq_overflow'[k] = ov2
      /\ \A j \in Kthread \ {k} : SameQueues(j)
  BY <1>5 DEF QueuesOK, SameQueues
<1>7. QueuesOK'
  BY <1>3, <1>5 DEF QueuesOK
<1>8. DistinctIn(k)'
  <2>1. Range(rr2) \cap (Range(q2) \cup Range(ov2)) = {}
    BY <1>2, <1>4
  <2> QED
    BY <1>4, <1>6, <2>1 DEF DistinctIn
<1>9. Queued(k)' = Range(q) \cup Range(rr2) \cup Range(ov)
  BY <1>4, <1>6 DEF Queued
<1> QED
  BY <1>6, <1>7, <1>8, <1>9

\* schedule() takes the first targeted thread of k and drains the list.
LEMMA DrainPopTargeted ==
  ASSUME QueuesOK, SlotsDistinct, NEW k \in Kthread, rrq[k] # << >>,
         NEW t, t = Head(rrq[k]), rrq' = [rrq EXCEPT ![k] = Tail(@)],
         rq' = [rq EXCEPT ![k] = DrainQ(@, rq_overflow[k])],
         rq_overflow' = [rq_overflow EXCEPT ![k] = DrainOv(rq[k], @)]
  PROVE  /\ t \in Thread /\ InQueue(t) /\ QueuesOK' /\ SlotsDistinct'
         /\ \A u \in Thread : InQueue(u)' <=> InQueue(u) /\ u # t
<1> PICK rr, rr2 : rr = rrq[k] /\ rr2 = Tail(rr)
  OBVIOUS
<1>1. rr \in Seq(Thread) /\ rr # << >> /\ Len(rr) <= RrqSize /\ IsInjective(rr)
  BY DEF QueuesOK, SlotsDistinct, DistinctIn
<1>2. /\ t \in Thread /\ rr2 \in Seq(Thread) /\ Len(rr2) = Len(rr) - 1
      /\ Len(rr) \in Nat \ {0}
      /\ Range(rr) = {t} \cup Range(rr2) /\ t \notin Range(rr2) /\ IsInjective(rr2)
  BY <1>1, PopFacts
<1>3. Len(rr2) <= RrqSize
  BY <1>1, <1>2, SchedAssumption
<1>4. rrq' = [rrq EXCEPT ![k] = rr2]
  OBVIOUS
<1>5. /\ QueuesOK' /\ DistinctIn(k)' /\ \A j \in Kthread \ {k} : SameQueues(j)
      /\ Queued(k)' = Range(rq[k]) \cup Range(rr2) \cup Range(rq_overflow[k])
  BY <1>2, <1>3, <1>4, DrainEffect
<1>6. Queued(k)' = Queued(k) \ {t} /\ t \in Queued(k)
  <2>1. t \notin Range(rq[k]) \cup Range(rq_overflow[k])
    BY <1>2 DEF SlotsDistinct, DistinctIn
  <2> QED
    BY <1>2, <1>5, <2>1 DEF Queued
<1>7. InQueue(t)
  BY <1>6 DEF InQueue
<1> QED
  BY <1>2, <1>5, <1>6, <1>7, Removed

\* schedule() drains the list only.
LEMMA DrainOnly ==
  ASSUME QueuesOK, SlotsDistinct, NEW k \in Kthread, rrq' = rrq,
         rq' = [rq EXCEPT ![k] = DrainQ(@, rq_overflow[k])],
         rq_overflow' = [rq_overflow EXCEPT ![k] = DrainOv(rq[k], @)]
  PROVE  QueuesOK' /\ SlotsDistinct' /\ \A u \in Thread : InQueue(u)' <=> InQueue(u)
<1> PICK rr : rr = rrq[k]
  OBVIOUS
<1>1. rr \in Seq(Thread) /\ Len(rr) <= RrqSize /\ IsInjective(rr)
      /\ rrq' = [rrq EXCEPT ![k] = rr]
  BY DEF QueuesOK, SlotsDistinct, DistinctIn
<1>2. /\ QueuesOK' /\ DistinctIn(k)' /\ \A j \in Kthread \ {k} : SameQueues(j)
      /\ Queued(k)' = Range(rq[k]) \cup Range(rr) \cup Range(rq_overflow[k])
  BY <1>1, DrainEffect
<1>3. Queued(k)' = Queued(k)
  BY <1>2 DEF Queued
<1>4. \A j \in Kthread \ {k} : Queued(k)' \cap Queued(j) = {}
  BY <1>3 DEF SlotsDistinct
<1>5. /\ SlotsDistinct'
      /\ \A u \in Thread :
           InQueue(u)' <=> u \in Queued(k)' \/ \E j \in Kthread \ {k} : u \in Queued(j)
  BY <1>2, <1>4, OneKthread
<1> QED
  BY <1>2, <1>3, <1>5 DEF InQueue

\* schedule() drains the list, takes the first thread of the ring and drains
\* the list again.
LEMMA PopLocal ==
  ASSUME QueuesOK, SlotsDistinct, NEW k \in Kthread, SchedLocal(k),
         NEW t, t = Head(DrainQ(rq[k], rq_overflow[k]))
  PROVE  /\ t \in Thread /\ InQueue(t) /\ QueuesOK' /\ SlotsDistinct'
         /\ \A u \in Thread : InQueue(u)' <=> InQueue(u) /\ u # t
<1> PICK q0, ov0, rr, q, ov, q1, q2, ov2 :
       /\ q0 = rq[k] /\ ov0 = rq_overflow[k] /\ rr = rrq[k]
       /\ q = DrainQ(q0, ov0) /\ ov = DrainOv(q0, ov0)
       /\ q1 = Tail(q) /\ q2 = DrainQ(q1, ov) /\ ov2 = DrainOv(q1, ov)
  OBVIOUS
<1>1. q0 \in Seq(Thread) /\ ov0 \in Seq(Thread) /\ Len(q0) <= RqSize
  BY DEF QueuesOK
<1>2. /\ IsInjective(q0) /\ IsInjective(ov0) /\ IsInjective(rr)
      /\ Range(q0) \cap Range(rr) = {} /\ Range(q0) \cap Range(ov0) = {}
      /\ Range(rr) \cap Range(ov0) = {}
  BY DEF SlotsDistinct, DistinctIn
<1>3. q \in Seq(Thread) /\ ov \in Seq(Thread) /\ Len(q) <= RqSize
  BY <1>1, DrainFacts
<1>4. /\ Range(q) \cup Range(ov) = Range(q0) \cup Range(ov0)
      /\ IsInjective(q) /\ IsInjective(ov) /\ Range(q) \cap Range(ov) = {}
  BY <1>1, <1>2, DrainKeeps
<1>5. /\ t \in Thread /\ q1 \in Seq(Thread) /\ Len(q1) = Len(q) - 1
      /\ Len(q) \in Nat \ {0}
      /\ Range(q) = {t} \cup Range(q1) /\ t \notin Range(q1) /\ IsInjective(q1)
  <2>1. q # << >> /\ t = Head(q)
    BY DEF SchedLocal
  <2> QED
    BY <1>3, <1>4, <2>1, PopFacts
<1>6. Len(q1) <= RqSize
  BY <1>3, <1>5, SchedAssumption
<1>7. q2 \in Seq(Thread) /\ ov2 \in Seq(Thread) /\ Len(q2) <= RqSize
  BY <1>3, <1>5, <1>6, DrainFacts
<1>8. /\ Range(q2) \cup Range(ov2) = Range(q1) \cup Range(ov)
      /\ IsInjective(q2) /\ IsInjective(ov2) /\ Range(q2) \cap Range(ov2) = {}
  <2>1. Range(q1) \cap Range(ov) = {}
    BY <1>4, <1>5
  <2>2. q2 = DrainQ(q1, ov) /\ ov2 = DrainOv(q1, ov)
    OBVIOUS
  <2> QED
    BY ONLY <1>3, <1>4, <1>5, <1>6, <2>1, <2>2, DrainKeeps
<1>9. /\ rq' = [rq EXCEPT ![k] = q2] /\ rq_overflow' = [rq_overflow EXCEPT ![k] = ov2]
      /\ rrq' = rrq
  BY DEF SchedLocal
<1>10. /\ rq'[k] = q2 /\ rrq'[k] = rr /\ rq_overflow'[k] = ov2
       /\ \A j \in Kthread \ {k} : SameQueues(j)
  BY <1>9 DEF QueuesOK, SameQueues
<1>11. QueuesOK'
  BY <1>7, <1>9 DEF QueuesOK
<1>12. Range(q2) \cup Range(ov2) = (Range(q0) \cup Range(ov0)) \ {t}
       /\ t \in Range(q0) \cup Range(ov0)
  BY <1>4, <1>5, <1>8
<1>13. DistinctIn(k)'
  <2>1. Range(rr) \cap (Range(q2) \cup Range(ov2)) = {}
    BY <1>2, <1>12
  <2> QED
    BY <1>2, <1>8, <1>10, <2>1 DEF DistinctIn
<1>14. Queued(k)' = Queued(k) \ {t} /\ t \in Queued(k)
  BY <1>2, <1>10, <1>12 DEF Queued
<1>15. InQueue(t)
  BY <1>14 DEF InQueue
<1> QED
  BY <1>5, <1>10, <1>11, <1>13, <1>14, <1>15, Removed

\* What steal_work takes of a ring, at most half, without its first thread.
LEMMA HalfFacts ==
  ASSUME NEW q \in Seq(Thread), q # << >>, Len(q) <= RqSize, IsInjective(q),
         NEW n \in 1 .. (Len(q) + 1) \div 2
  PROVE  LET b == SubSeq(q, 2, n)
             c == SubSeq(q, n + 1, Len(q))
         IN  /\ b \in Seq(Thread) /\ Len(b) <= RqSize /\ IsInjective(b)
             /\ c \in Seq(Thread) /\ Len(c) <= RqSize /\ IsInjective(c)
             /\ Head(q) \in Range(q) /\ Head(q) \in Thread
             /\ Range(b) \cap Range(c) = {}
             /\ Range(b) \cup Range(c) = Range(q) \ {Head(q)}
<1> DEFINE a == SubSeq(q, 1, n)
           b == SubSeq(q, 2, n)
           c == SubSeq(q, n + 1, Len(q))
<1>1. n \in 1 .. Len(q) /\ n \in 0 .. Len(q) /\ Len(q) \in Nat
  OBVIOUS
<1>2. /\ a \in Seq(Thread) /\ Len(a) = n /\ c \in Seq(Thread) /\ Len(c) = Len(q) - n
      /\ q = a \o c
  BY <1>1, CutFacts
<1>3. a # << >> /\ Head(a) = Head(q) /\ Tail(a) = b
  BY <1>1, HeadTailOfSubSeq
<1> HIDE DEF a, b, c
<1>4. /\ Range(q) = Range(a) \cup Range(c)
      /\ IsInjective(a) /\ IsInjective(c) /\ Range(a) \cap Range(c) = {}
  BY <1>2, ConcatFacts
<1>5. /\ Head(q) \in Thread /\ b \in Seq(Thread) /\ Len(b) = Len(a) - 1
      /\ Range(a) = {Head(q)} \cup Range(b) /\ IsInjective(b) /\ Head(q) \notin Range(b)
  BY <1>2, <1>3, <1>4, PopFacts
<1>6. Len(b) <= RqSize /\ Len(c) <= RqSize
  BY <1>1, <1>2, <1>5, SchedAssumption
<1>7. /\ Head(q) \in Range(q) /\ Range(b) \cap Range(c) = {}
      /\ Range(b) \cup Range(c) = Range(q) \ {Head(q)}
  BY <1>4, <1>5
<1> QED
  BY <1>2, <1>4, <1>5, <1>6, <1>7 DEF b, c

\* Typing of a function changed at two places.
LEMMA TwoUpdates ==
  ASSUME NEW S, NEW f \in [Kthread -> S], NEW j \in Kthread, NEW k \in Kthread,
         NEW x \in S, NEW y \in S
  PROVE  [f EXCEPT ![j] = x, ![k] = y] \in [Kthread -> S]
  OBVIOUS

\* steal_work takes at most half of the ring of r; l had nothing.
LEMMA StealEffect ==
  ASSUME QueuesOK, SlotsDistinct, NEW l \in Kthread, NEW r \in Kthread, l # r,
         rrq[l] = << >>, rq[l] = << >>, rq_overflow[l] = << >>, rq[r] # << >>,
         NEW n \in 1 .. (Len(rq[r]) + 1) \div 2, NEW t, t = Head(rq[r]),
         rq' = [rq EXCEPT ![l] = SubSeq(rq[r], 2, n), ![r] = SubSeq(@, n + 1, Len(@))],
         UNCHANGED <<rrq, rq_overflow>>
  PROVE  /\ t \in Thread /\ InQueue(t) /\ QueuesOK' /\ SlotsDistinct'
         /\ \A u \in Thread : InQueue(u)' <=> InQueue(u) /\ u # t
<1> PICK q, rr, ov, b, c :
       /\ q = rq[r] /\ rr = rrq[r] /\ ov = rq_overflow[r]
       /\ b = SubSeq(q, 2, n) /\ c = SubSeq(q, n + 1, Len(q))
  OBVIOUS
<1>1. /\ q \in Seq(Thread) /\ q # << >> /\ Len(q) <= RqSize
      /\ IsInjective(q) /\ IsInjective(rr) /\ IsInjective(ov)
      /\ Range(q) \cap Range(rr) = {} /\ Range(q) \cap Range(ov) = {}
      /\ Range(rr) \cap Range(ov) = {}
  BY DEF QueuesOK, SlotsDistinct, DistinctIn
<1>2. /\ b \in Seq(Thread) /\ Len(b) <= RqSize /\ IsInjective(b)
      /\ c \in Seq(Thread) /\ Len(c) <= RqSize /\ IsInjective(c)
      /\ t \in Range(q) /\ t \in Thread
      /\ Range(b) \cap Range(c) = {} /\ Range(b) \cup Range(c) = Range(q) \ {t}
  BY <1>1, HalfFacts
<1>3. rq' = [rq EXCEPT ![l] = b, ![r] = c]
  BY DEF QueuesOK
<1>4. /\ rq'[l] = b /\ rrq'[l] = << >> /\ rq_overflow'[l] = << >>
      /\ rq'[r] = c /\ rrq'[r] = rr /\ rq_overflow'[r] = ov
      /\ \A j \in Kthread \ {l, r} : SameQueues(j)
  BY <1>3 DEF QueuesOK, SameQueues
<1>5. QueuesOK'
  <2>1. rq' \in [Kthread -> Seq(Thread)]
    BY <1>2, <1>3 DEF QueuesOK
  <2>2. \A j \in Kthread : Len(rq'[j]) <= RqSize
    BY <1>2, <1>4 DEF QueuesOK, SameQueues
  <2> QED
    BY <2>1, <2>2 DEF QueuesOK
<1>6. Queued(l)' = Range(b) /\ DistinctIn(l)' /\ Queued(l) = {}
  BY <1>2, <1>4, EmptyFacts DEF Queued, DistinctIn
<1>7. /\ Queued(r)' = Range(c) \cup Range(rr) \cup Range(ov)
      /\ Queued(r) = Range(q) \cup Range(rr) \cup Range(ov)
  BY <1>4 DEF Queued
<1>8. DistinctIn(r)'
  BY <1>1, <1>2, <1>4 DEF DistinctIn
<1>9. /\ Queued(l)' \cap Queued(r)' = {} /\ t \in Queued(r)
      /\ Queued(l)' \cup Queued(r)' = (Queued(l) \cup Queued(r)) \ {t}
  <2>1. t \notin Range(rr) \cup Range(ov) /\ Range(b) \subseteq Range(q) /\ t \notin Range(b)
    BY <1>1, <1>2
  <2>2. Range(b) \cap (Range(c) \cup Range(rr) \cup Range(ov)) = {}
    BY <1>1, <1>2, <2>1
  <2>3. Range(b) \cup Range(c) \cup Range(rr) \cup Range(ov)
          = (Range(q) \cup Range(rr) \cup Range(ov)) \ {t}
    BY <1>2, <2>1
  <2>4. Queued(l)' \cap Queued(r)' = {}
    BY <1>6, <1>7, <2>2
  <2>5. Queued(l)' \cup Queued(r)' = (Queued(l) \cup Queued(r)) \ {t}
    BY ONLY <1>6, <1>7, <2>3
  <2>6. t \in Queued(r)
    BY <1>2, <1>7
  <2> QED
    BY <2>4, <2>5, <2>6
<1>10. InQueue(t)
  BY <1>9 DEF InQueue
<1>11. /\ SlotsDistinct'
       /\ \A u \in Queued(l) \cup Queued(r) :
            InQueue(u)' <=> u \in Queued(l)' \cup Queued(r)'
       /\ \A u \in Thread \ (Queued(l) \cup Queued(r)) : InQueue(u)' <=> InQueue(u)
  BY <1>4, <1>6, <1>8, <1>9, TwoKthreads
<1>12. \A u \in Queued(l) \cup Queued(r) : InQueue(u)
  BY DEF InQueue
<1>13. \A u \in Thread : InQueue(u)' <=> InQueue(u) /\ u # t
  BY <1>9, <1>11, <1>12
<1> QED
  BY <1>2, <1>5, <1>10, <1>11, <1>13

\* join_kthread: ring and list of r go to k.
LEMMA JoinEffect ==
  ASSUME QueuesOK, SlotsDistinct, NEW k \in Kthread, NEW r \in Kthread, r # k,
         NEW ts, ts = rq[r] \o rq_overflow[r],
         rq' = [rq EXCEPT ![r] = << >>, ![k] = DrainQ(@, ts)],
         rq_overflow' = [rq_overflow EXCEPT ![r] = << >>, ![k] = @ \o DrainOv(rq[k], ts)],
         rrq' = rrq
  PROVE  QueuesOK' /\ SlotsDistinct' /\ \A u \in Thread : InQueue(u)' <=> InQueue(u)
<1> PICK q, rr, ov, qr, rrr, ovr, q2, ov2 :
       /\ q = rq[k] /\ rr = rrq[k] /\ ov = rq_overflow[k]
       /\ qr = rq[r] /\ rrr = rrq[r] /\ ovr = rq_overflow[r]
       /\ q2 = DrainQ(q, ts) /\ ov2 = ov \o DrainOv(q, ts)
  OBVIOUS
<1>1. /\ q \in Seq(Thread) /\ Len(q) <= RqSize /\ ov \in Seq(Thread)
      /\ qr \in Seq(Thread) /\ ovr \in Seq(Thread)
  BY DEF QueuesOK
<1>2. /\ IsInjective(q) /\ IsInjective(rr) /\ IsInjective(ov)
      /\ Range(q) \cap Range(rr) = {} /\ Range(q) \cap Range(ov) = {}
      /\ Range(rr) \cap Range(ov) = {}
  BY DEF SlotsDistinct, DistinctIn
<1>3. /\ IsInjective(qr) /\ IsInjective(rrr) /\ IsInjective(ovr)
      /\ Range(qr) \cap Range(rrr) = {} /\ Range(qr) \cap Range(ovr) = {}
      /\ Range(rrr) \cap Range(ovr) = {}
  BY DEF SlotsDistinct, DistinctIn
<1>4. /\ Queued(k) = Range(q) \cup Range(rr) \cup Range(ov)
      /\ Queued(r) = Range(qr) \cup Range(rrr) \cup Range(ovr)
      /\ Queued(k) \cap Queued(r) = {}
  BY DEF Queued, SlotsDistinct
<1>5. ts \in Seq(Thread) /\ IsInjective(ts) /\ Range(ts) = Range(qr) \cup Range(ovr)
  BY <1>1, <1>3, ConcatFacts
<1>6. Range(ts) \cap (Range(q) \cup Range(ov)) = {}
  BY <1>4, <1>5
<1>7. /\ q2 \in Seq(Thread) /\ Len(q2) <= RqSize /\ ov2 \in Seq(Thread)
      /\ Range(q2) \cup Range(ov2) = Range(q) \cup Range(ov) \cup Range(ts)
      /\ IsInjective(q2) /\ IsInjective(ov2) /\ Range(q2) \cap Range(ov2) = {}
  BY <1>1, <1>2, <1>5, <1>6, PushAllFacts
<1>8. /\ rq' = [rq EXCEPT ![r] = << >>, ![k] = q2]
      /\ rq_overflow' = [rq_overflow EXCEPT ![r] = << >>, ![k] = ov2]
  BY DEF QueuesOK
<1>9. /\ rq'[k] = q2 /\ rrq'[k] = rr /\ rq_overflow'[k] = ov2
      /\ rq'[r] = << >> /\ rrq'[r] = rrr /\ rq_overflow'[r] = << >>
      /\ \A j \in Kthread \ {k, r} : SameQueues(j)
  BY <1>8 DEF QueuesOK, SameQueues
<1>10. QueuesOK'
  <2>1. << >> \in Seq(Thread) /\ Len(<< >>) <= RqSize
    BY SchedAssumption
  <2>2. rq' \in [Kthread -> Seq(Thread)] /\ rq_overflow' \in [Kthread -> Seq(Thread)]
    <3>1. /\ rq \in [Kthread -> Seq(Thread)] /\ rq_overflow \in [Kthread -> Seq(Thread)]
          /\ k \in Kthread /\ r \in Kthread
      BY DEF QueuesOK
    <3> QED
      BY ONLY <1>7, <1>8, <2>1, <3>1, TwoUpdates
  <2>3. \A j \in Kthread : Len(rq'[j]) <= RqSize
    BY <1>7, <1>9, <2>1 DEF QueuesOK, SameQueues
  <2> QED
    BY <2>2, <2>3 DEF QueuesOK
<1>11. Queued(r)' = Range(rrr) /\ DistinctIn(r)'
  BY <1>3, <1>9, EmptyFacts DEF Queued, DistinctIn
<1>12. Queued(k)' = Range(q2) \cup Range(rr) \cup Range(ov2)
  BY <1>9 DEF Queued
<1>13. DistinctIn(k)'
  <2>1. Range(rr) \cap (Range(q2) \cup Range(ov2)) = {}
    BY <1>2, <1>4, <1>5, <1>7
  <2> QED
    BY <1>2, <1>7, <1>9, <2>1 DEF DistinctIn
<1>14. /\ Queued(k)' \cap Queued(r)' = {}
       /\ Queued(k)' \cup Queued(r)' = Queued(k) \cup Queued(r)
  BY <1>3, <1>4, <1>5, <1>7, <1>11, <1>12
<1>15. /\ SlotsDistinct'
       /\ \A u \in Queued(k) \cup Queued(r) :
            InQueue(u)' <=> u \in Queued(k)' \cup Queued(r)'
       /\ \A u \in Thread \ (Queued(k) \cup Queued(r)) : InQueue(u)' <=> InQueue(u)
  BY <1>9, <1>11, <1>13, <1>14, TwoKthreads
<1>16. \A u \in Queued(k) \cup Queued(r) : InQueue(u)
  BY DEF InQueue
<1> QED
  BY <1>10, <1>14, <1>15, <1>16
=============================================================================
