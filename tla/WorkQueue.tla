----------------------------- MODULE WorkQueue ------------------------------
(***************************************************************************)
(* What the runqueue of a kthread promises to the scheduler: each          *)
(* operation is one step on two sequences, the ring and the overflow list, *)
(* and a thread is in one of them or outside.                              *)
(***************************************************************************)
EXTENDS Naturals, Sequences, SequencesExt

CONSTANTS Thread, RqSize

VARIABLES
  ring,      \* the threads in the ring, oldest first
  overflow,  \* the threads in the overflow list, oldest first
  outside    \* the threads that run, sleep or are queued elsewhere

Init == ring = << >> /\ overflow = << >> /\ outside = Thread

\* A thread goes behind the ring, if there is room, or behind the overflow list.
Push(t) ==
  /\ t \in outside /\ outside' = outside \ {t}
  /\ \/ Len(ring) < RqSize /\ ring' = Append(ring, t) /\ UNCHANGED overflow
     \/ overflow' = Append(overflow, t) /\ UNCHANGED ring

\* The n oldest threads of the ring leave it: one for the kthread itself, at
\* most half of them, rounded up, for a thief.
Take(n) ==
  /\ n <= (Len(ring) + 1) \div 2
  /\ outside' = outside \cup {ring[i] : i \in 1 .. n}
  /\ ring' = SubSeq(ring, n + 1, Len(ring))
  /\ UNCHANGED overflow

\* The ring is refilled from the overflow list so that the threads of both
\* become all.
Refill(all) ==
  LET n == IF Len(all) < RqSize THEN Len(all) ELSE RqSize
  IN  /\ ring' = SubSeq(all, 1, n)
      /\ overflow' = SubSeq(all, n + 1, Len(all))

\* The oldest thread of all leaves, or none, and the ring is refilled.
TakeAndRefill ==
  LET all == ring \o overflow
  IN  \/ Refill(all) /\ UNCHANGED outside
      \/ /\ all # << >> /\ Refill(Tail(all))
         /\ outside' = outside \cup {Head(all)}

\* A thief takes one thread of the overflow list of an empty ring.
TakeOverflow ==
  /\ ring = << >> /\ overflow # << >>
  /\ outside' = outside \cup {Head(overflow)}
  /\ overflow' = Tail(overflow)
  /\ UNCHANGED ring

\* The kthread brings n threads from elsewhere and runs the first of them.
Bring(n) ==
  /\ ring = << >> /\ overflow = << >>
  /\ ring' \in [1 .. n - 1 -> outside] /\ IsInjective(ring')
  /\ outside' = outside \ {ring'[i] : i \in 1 .. n - 1}
  /\ UNCHANGED overflow

\* All threads leave.
TakeAll ==
  /\ outside' = Thread
  /\ ring' = << >> /\ overflow' = << >>

Next ==
  \/ \E t \in Thread : Push(t)
  \/ \E n \in 1 .. RqSize : Take(n) \/ Bring(n)
  \/ TakeAndRefill \/ TakeOverflow \/ TakeAll

Spec == Init /\ [][Next]_<<ring, overflow, outside>>
=============================================================================
