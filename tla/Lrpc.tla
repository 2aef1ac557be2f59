-------------------------------- MODULE Lrpc --------------------------------
(***************************************************************************)
(* The shared memory channel of inc/base/lrpc.h and base/lrpc.c, with one  *)
(* sender and one receiver.                                                *)
(*                                                                         *)
(* A message slot holds a payload and a command whose top bit is the       *)
(* parity of the pass over the table that wrote it; the receiver knows a   *)
(* new message by the parity of its own pass.  Each access to memory that  *)
(* both sides use is a step.  The free running counters are 32 bits wide   *)
(* in the code, Wrap stands for 2^32.                                      *)
(***************************************************************************)
EXTENDS Naturals, Sequences

CONSTANTS
  Size,    \* lrpc_chan_out.size, lrpc_chan_in.size
  Wrap,    \* the counters count modulo Wrap
  Value    \* the commands and the payloads

LrpcConstants ==
  /\ Size \in Nat \ {0}
  /\ \E n \in 0 .. Size : Size = 2 ^ n            \* is_power_of_two
  /\ Wrap \in Nat \ {0} /\ Wrap % (2 * Size) = 0

VARIABLES
  tbl,            \* the message table, shared
  recv_head_wb,   \* the receiver's head as written back, shared
  send_head,      \* lrpc_chan_out.send_head
  send_tail,      \* lrpc_chan_out.send_tail
  recv_head,      \* lrpc_chan_in.recv_head
  spc,            \* where the sender is
  smsg,           \* the message the sender sends
  rpc,            \* where the receiver is
  rmsg,           \* the message the receiver has read so far
  last            \* the last message lrpc_recv returned

svars == <<send_head, send_tail, spc, smsg>>
rvars == <<recv_head, rpc, rmsg, last>>
vars == <<tbl, recv_head_wb, svars, rvars>>

Msg == [cmd : Value, payload : Value]

\* chan->tbl[n & (chan->size - 1)]
Slot(n) == n % Size

\* (n & chan->size) ? 0 : LRPC_DONE_PARITY
Parity(n) == IF (n \div Size) % 2 = 1 THEN 0 ELSE 1

\* The difference of two uint32_t counters.
Minus(a, b) == (a + Wrap - b) % Wrap

\* The increment of a uint32_t counter.
Inc(n) == (n + 1) % Wrap

\* lrpc_init_out, lrpc_init_in on zeroed shared memory
Init ==
  /\ \E v \in Value :
       tbl = [i \in 0 .. Size - 1 |-> [parity |-> 0, cmd |-> v, payload |-> v]]
  /\ recv_head_wb = 0
  /\ send_head = 0 /\ send_tail = 0 /\ recv_head = 0
  /\ spc = "idle" /\ smsg = << >>
  /\ rpc = "idle" /\ rmsg = << >>
  /\ last = << >>

-----------------------------------------------------------------------------
\* Mutant: one message too many fits.
SendRoomOffByOne(m) ==
  /\ spc = "idle"
  /\ Minus(send_head, send_tail) <= Size
  /\ spc' = "write" /\ smsg' = m
  /\ UNCHANGED <<tbl, recv_head_wb, send_head, send_tail, rvars>>

\* lrpc_send finds room.
SendRoom(m) ==
  /\ spc = "idle"
  /\ Minus(send_head, send_tail) < Size
  /\ spc' = "write" /\ smsg' = m
  /\ UNCHANGED <<tbl, recv_head_wb, send_head, send_tail, rvars>>

\* lrpc_send finds the channel full by the tail it knows; __lrpc_send loads the
\* receiver's head and finds room.
SendReload(m) ==
  /\ spc = "idle"
  /\ Minus(send_head, send_tail) >= Size
  /\ send_tail' = recv_head_wb
  /\ Minus(send_head, recv_head_wb) # Size
  /\ spc' = "write" /\ smsg' = m
  /\ UNCHANGED <<tbl, recv_head_wb, send_head, rvars>>

\* __lrpc_send still finds the channel full and returns false.
SendFull ==
  /\ spc = "idle"
  /\ Minus(send_head, send_tail) >= Size
  /\ send_tail' = recv_head_wb
  /\ Minus(send_head, recv_head_wb) = Size
  /\ UNCHANGED <<tbl, recv_head_wb, send_head, spc, smsg, rvars>>

\* lrpc_poll_send_tail
PollSendTail ==
  /\ spc = "idle"
  /\ send_tail' = recv_head_wb
  /\ UNCHANGED <<tbl, recv_head_wb, send_head, spc, smsg, rvars>>

\* dst->payload = payload
SendPayload ==
  /\ spc = "write"
  /\ tbl' = [tbl EXCEPT ![Slot(send_head)].payload = smsg.payload]
  /\ spc' = "publish"
  /\ UNCHANGED <<recv_head_wb, send_head, send_tail, smsg, rvars>>

\* store_release(&dst->cmd, cmd)
SendPublish ==
  /\ spc = "publish"
  /\ tbl' = [tbl EXCEPT ![Slot(send_head)].cmd = smsg.cmd,
                        ![Slot(send_head)].parity = Parity(send_head)]
  /\ send_head' = Inc(send_head)
  /\ spc' = "idle" /\ smsg' = << >>
  /\ UNCHANGED <<recv_head_wb, send_tail, rvars>>

-----------------------------------------------------------------------------
\* Some slot holds a message of the receiver's pass; !lrpc_empty.
Available == tbl[Slot(recv_head)].parity = Parity(recv_head)

\* Mutant: the slot is given back before its payload is read.
RecvCmdReleases ==
  /\ rpc = "idle"
  /\ Available
  /\ rmsg' = [cmd |-> tbl[Slot(recv_head)].cmd]
  /\ recv_head' = Inc(recv_head)
  /\ recv_head_wb' = Inc(recv_head)
  /\ rpc' = "payload"
  /\ UNCHANGED <<tbl, svars, last>>

\* lrpc_recv: the load of the command, which returns false without effect when
\* the channel is empty.
RecvCmd ==
  /\ rpc = "idle"
  /\ Available
  /\ rmsg' = [cmd |-> tbl[Slot(recv_head)].cmd]
  /\ recv_head' = Inc(recv_head)
  /\ rpc' = "payload"
  /\ UNCHANGED <<tbl, recv_head_wb, svars, last>>

\* *payload_out = m->payload
RecvPayload ==
  /\ rpc = "payload"
  /\ rmsg' = [cmd |-> rmsg.cmd,
              payload |-> tbl[Slot(Minus(recv_head, 1))].payload]
  /\ rpc' = "release"
  /\ UNCHANGED <<tbl, recv_head_wb, svars, recv_head, last>>

\* store_release(chan->recv_head_wb, chan->recv_head), and the return
RecvRelease ==
  /\ rpc = "release"
  /\ recv_head_wb' = recv_head
  /\ last' = rmsg /\ rmsg' = << >>
  /\ rpc' = "idle"
  /\ UNCHANGED <<tbl, svars, recv_head>>

Sender ==
  \/ \E m \in Msg : SendRoom(m) \/ SendReload(m)
  \/ SendFull \/ PollSendTail
  \/ SendPayload \/ SendPublish

Receiver == RecvCmd \/ RecvPayload \/ RecvRelease

Next == Sender \/ Receiver

Spec == Init /\ [][Next]_vars

\* The sender finishes what it began.
Finish == SendPayload \/ SendPublish

\* Both sides finish what they began, and the receiver keeps polling.
Fairness ==
  /\ WF_vars(Finish)
  /\ WF_vars(Receiver)

FairSpec == Spec /\ Fairness

-----------------------------------------------------------------------------
\* The sender's view of the channel is never too optimistic: the tail it knows
\* is at most Size behind its head ("assert(chan->send_head - chan->send_tail
\* == chan->size)" in __lrpc_send) and never ahead of what was released.
WindowSound ==
  /\ Minus(send_head, send_tail) <= Size
  /\ Minus(send_head, recv_head_wb) <= Minus(send_head, send_tail)
  /\ Minus(send_head, recv_head) <= Minus(send_head, recv_head_wb)

\* The parity bits tell the receiver exactly whether a message is there, also
\* after the counters wrapped and with stale messages of earlier passes.
ParityExact == Available <=> recv_head # send_head

\* The messages on the way, as Channel sees them: a slot counts from its
\* publication until the receiver has given it back.
chan ==
  [i \in 1 .. Minus(send_head, recv_head_wb) |->
     LET slot == tbl[Slot(recv_head_wb + i - 1)]
     IN  [cmd |-> slot.cmd, payload |-> slot.payload]]

Chan == INSTANCE Channel

\* The table with its parities implements a bounded FIFO channel: no message is
\* lost, duplicated, reordered, or received half written.
ImplementsChannel == Chan!Spec

\* The receiver gets every message that was sent: the channel drains, or new
\* messages keep it busy and the receiver keeps receiving them.
Drains == send_head # recv_head_wb ~> rpc = "release"
=============================================================================
