------------------------------ MODULE Channel ------------------------------
(***************************************************************************)
(* What a shared memory channel promises: messages come out once each, in  *)
(* the order and with the contents they were sent, and at most Size of     *)
(* them are on the way.                                                    *)
(***************************************************************************)
EXTENDS Naturals, Sequences

CONSTANTS Size, Msg

VARIABLES
  chan,    \* the messages on the way
  last     \* the last message received, << >> before the first

Init == chan = << >> /\ last = << >>

Send(m) == Len(chan) < Size /\ chan' = Append(chan, m) /\ UNCHANGED last

Recv == chan # << >> /\ last' = Head(chan) /\ chan' = Tail(chan)

Next == (\E m \in Msg : Send(m)) \/ Recv

Spec == Init /\ [][Next]_<<chan, last>>
=============================================================================
