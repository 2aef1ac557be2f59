------------------------------ MODULE LockSpec ------------------------------
(***************************************************************************)
(* What a fair mutual exclusion lock promises its users: a free lock goes  *)
(* to whoever asks, everybody else queues, and the owner that leaves hands *)
(* the lock to the first in the queue, who owns it from then on but enters *)
(* only later.  Nobody else can get in between.                            *)
(***************************************************************************)
EXTENDS Sequences

CONSTANTS Thread, NULL

VARIABLES
  owner,    \* the owner, NULL when the lock is free
  queue,    \* the threads that wait for the lock
  inside    \* the threads whose call has returned with the lock

lockvars == <<owner, queue, inside>>

Init == owner = NULL /\ queue = << >> /\ inside = {}

\* t takes a free lock.
Acquire(t) ==
  /\ owner = NULL
  /\ owner' = t
  /\ inside' = inside \cup {t}
  /\ UNCHANGED queue

\* t queues for a lock that is owned.
Enqueue(t) ==
  /\ owner # NULL
  /\ t \notin inside
  /\ queue' = Append(queue, t)
  /\ UNCHANGED <<owner, inside>>

\* The owner leaves, and nobody waits.
Release(t) ==
  /\ owner = t /\ t \in inside
  /\ queue = << >>
  /\ owner' = NULL
  /\ inside' = inside \ {t}
  /\ UNCHANGED queue

\* The owner leaves, and the first in the queue is the owner.
HandOver(t) ==
  /\ owner = t /\ t \in inside
  /\ queue # << >>
  /\ owner' = Head(queue)
  /\ queue' = Tail(queue)
  /\ inside' = inside \ {t}

\* The call of an owner that queued returns.
Enter(t) ==
  /\ owner = t /\ t \notin inside
  /\ inside' = inside \cup {t}
  /\ UNCHANGED <<owner, queue>>

Next ==
  \E t \in Thread : Acquire(t) \/ Enqueue(t) \/ Release(t) \/ HandOver(t) \/ Enter(t)

Spec == Init /\ [][Next]_lockvars
=============================================================================
