------------------------------ MODULE Control ------------------------------
(***************************************************************************)
(* The life of a client of hwallocd: accepted by the control thread        *)
(* (hwalloc/control.c), handed to the dataplane thread over a bounded      *)
(* lrpc channel and handed back over another (hwalloc/dataplane.c), and    *)
(* then freed.  The control thread sleeps in select; the dataplane takes   *)
(* its messages in bursts.  How the dataplane uses a client is the subject *)
(* of Cores: here its references to a removed one go away some time later. *)
(***************************************************************************)
EXTENDS Integers, Sequences, FiniteSets

CONSTANTS
  Proc,         \* processes, each of which connects once
  Guaranteed,   \* guaranteed_cores of every process
  TotalCores,
  QueueSize,    \* CONTROL_DATAPLANE_QUEUE_SIZE
  BurstSize     \* HWALLOCD_CONTROL_BURST_SIZE

ASSUME ControlAssumption ==
  {Guaranteed, TotalCores, QueueSize, BurstSize} \subseteq Nat

VARIABLES
  new,            \* processes that have not connected
  connecting,     \* processes whose connection is not accepted yet
  closed,         \* clients whose connection is closed
  pc,             \* control_loop: in select, or handling what it reported
  accept, ready,  \* what it reported: a connection, clients that have closed
  clients,        \* the control thread's clients
  removed,        \* p->removed
  nr_guaranteed,
  freed,          \* control_destroy_proc was called
  to_data, to_control,   \* the lrpc channels
  dp,             \* dp.clients
  referenced,     \* removed from dp, but still in core_history
  n_rx            \* messages handled in this burst

ctvars == <<new, connecting, closed, pc, accept, ready, clients, removed, nr_guaranteed, freed,
            to_data, to_control, dp, referenced, n_rx>>

control == <<pc, accept, ready, clients, removed, nr_guaranteed, freed>>

ControlInit ==
  /\ new = Proc /\ connecting = {} /\ closed = {}
  /\ pc = "select" /\ accept = FALSE /\ ready = {}
  /\ clients = {} /\ removed = {} /\ nr_guaranteed = 0 /\ freed = {}
  /\ to_data = << >> /\ to_control = << >>
  /\ dp = {} /\ referenced = {} /\ n_rx = 0

\* lrpc_send fails, and the message is lost, when the channel is full.
Sent(q, m) == IF Len(q) < QueueSize THEN Append(q, m) ELSE q
ChannelFull(q) == ~(Len(q) < QueueSize)

-----------------------------------------------------------------------------
(***************************************************************************)
(* The control thread.                                                     *)
(***************************************************************************)
\* select returns when a connection waits or a client has closed its own.
Select ==
  /\ pc = "select"
  /\ LET gone == (closed \cap clients) \ removed IN
     /\ connecting # {} \/ gone # {}
     /\ ready' = gone
  /\ accept' = (connecting # {})
  /\ pc' = "handle"
  /\ UNCHANGED <<new, connecting, closed, clients, removed, nr_guaranteed, freed,
                 to_data, to_control, dp, referenced, n_rx>>

\* control_add_client: the handshake or control_create_proc fails.  A creation
\* that fails late has already added to nr_guaranteed.
Refuse(p) ==
  /\ pc = "handle" /\ accept /\ p \in connecting
  /\ accept' = FALSE
  /\ connecting' = connecting \ {p}
  /\ \/ UNCHANGED nr_guaranteed
     \/ /\ Guaranteed + nr_guaranteed <= TotalCores
        /\ nr_guaranteed' = nr_guaranteed + Guaranteed
  /\ UNCHANGED <<new, closed, pc, ready, clients, removed, freed,
                 to_data, to_control, dp, referenced, n_rx>>

\* control_add_client: the process is created and the dataplane told, or it is
\* destroyed again because the channel is full.
control_add_client(p) ==
  /\ pc = "handle" /\ accept /\ p \in connecting
  /\ accept' = FALSE
  /\ connecting' = connecting \ {p}
  /\ Guaranteed + nr_guaranteed <= TotalCores
  /\ to_data' = Sent(to_data, [cmd |-> "ADD", p |-> p])
  /\ IF ChannelFull(to_data)
     THEN freed' = freed \cup {p} /\ UNCHANGED <<clients, nr_guaranteed>>
     ELSE /\ clients' = clients \cup {p}
          /\ nr_guaranteed' = nr_guaranteed + Guaranteed
          /\ UNCHANGED freed
  /\ UNCHANGED <<new, closed, pc, ready, removed, to_control, dp, referenced, n_rx>>

control_instruct_dataplane_to_remove_client(p) ==
  /\ pc = "handle" /\ p \in ready
  /\ ready' = ready \ {p}
  /\ removed' = removed \cup {p}
  /\ nr_guaranteed' = nr_guaranteed - Guaranteed
  /\ to_data' = Sent(to_data, [cmd |-> "REMOVE", p |-> p])
  /\ UNCHANGED <<new, connecting, closed, pc, accept, clients, freed, to_control, dp,
                 referenced, n_rx>>

\* Mutant: the guarantee of a removed client is given back a second time.
DestroyGivesBackTwice(p) ==
  /\ freed' = freed \cup {p}
  /\ nr_guaranteed' = nr_guaranteed - Guaranteed

control_destroy_proc(p) ==
  /\ freed' = freed \cup {p}
  /\ nr_guaranteed' = IF p \in removed THEN nr_guaranteed
                      ELSE nr_guaranteed - Guaranteed

control_remove_client ==
  /\ pc = "handle" /\ ~accept /\ ready = {} /\ to_control # << >>
  /\ LET p == Head(to_control) IN
     IF p \in clients
     THEN control_destroy_proc(p) /\ clients' = clients \ {p}
     ELSE UNCHANGED <<clients, freed, nr_guaranteed>>
  /\ to_control' = Tail(to_control)
  /\ UNCHANGED <<new, connecting, closed, pc, accept, ready, removed, to_data, dp,
                 referenced, n_rx>>

Drained ==
  /\ pc = "handle" /\ ~accept /\ ready = {} /\ to_control = << >>
  /\ pc' = "select"
  /\ UNCHANGED <<new, connecting, closed, accept, ready, clients, removed, nr_guaranteed, freed,
                 to_data, to_control, dp, referenced, n_rx>>

-----------------------------------------------------------------------------
(***************************************************************************)
(* The dataplane thread.                                                   *)
(***************************************************************************)
\* Mutant: the control thread is told at once, whoever has a reference.
RemovedAtOnce(p) ==
  /\ p \in dp
  /\ dp' = dp \ {p}
  /\ to_control' = Sent(to_control, p)
  /\ referenced' \in {referenced, referenced \cup {p}}

\* dp_clients_remove_client: the last reference goes away at once, and
\* proc_release tells the control thread, or core_history keeps one.
Removed(p) ==
  /\ p \in dp
  /\ dp' = dp \ {p}
  /\ \/ to_control' = Sent(to_control, p) /\ UNCHANGED referenced
     \/ referenced' = referenced \cup {p} /\ UNCHANGED to_control

\* dp_clients_rx_control_lrpcs, one turn of its loop: a client is added, one is
\* removed, or one to be removed is unknown.
dp_clients_rx_control_lrpcs ==
  /\ to_data # << >> /\ n_rx < BurstSize
  /\ LET m == Head(to_data) IN
     \/ /\ m.cmd = "ADD" /\ dp' = dp \cup {m.p}
        /\ UNCHANGED <<referenced, to_control>>
     \/ m.cmd = "REMOVE" /\ Removed(m.p)
     \/ m.cmd = "REMOVE" /\ m.p \notin dp /\ UNCHANGED <<dp, referenced, to_control>>
  /\ to_data' = Tail(to_data)
  /\ n_rx' = n_rx + 1
  /\ UNCHANGED <<new, connecting, closed, control>>

\* ... and its end: lrpc_recv is called before the burst is found used up, so
\* that one message more leaves the channel than is handled.
BurstEnds ==
  /\ IF to_data = << >> THEN n_rx > 0 /\ UNCHANGED to_data
     ELSE n_rx = BurstSize /\ to_data' = Tail(to_data)
  /\ n_rx' = 0
  /\ UNCHANGED <<new, connecting, closed, control, to_control, dp, referenced>>

\* The last reference from core_history goes away: proc_release.
proc_release(p) ==
  /\ p \in referenced
  /\ referenced' = referenced \ {p}
  /\ to_control' = Sent(to_control, p)
  /\ UNCHANGED <<new, connecting, closed, control, to_data, dp, n_rx>>

Connect(p) ==
  /\ p \in new
  /\ new' = new \ {p}
  /\ connecting' = connecting \cup {p}
  /\ UNCHANGED <<closed, control, to_data, to_control, dp, referenced, n_rx>>

\* A client ends, or closes its connection.
Close(p) ==
  /\ p \in clients \ closed
  /\ closed' = closed \cup {p}
  /\ UNCHANGED <<new, connecting, control, to_data, to_control, dp, referenced, n_rx>>

ControlNext ==
  \/ Select \/ control_remove_client \/ Drained
  \/ dp_clients_rx_control_lrpcs \/ BurstEnds
  \/ \E p \in Proc : \/ Refuse(p) \/ control_add_client(p)
                     \/ control_instruct_dataplane_to_remove_client(p)
                     \/ proc_release(p) \/ Connect(p) \/ Close(p)

ControlSpec == ControlInit /\ [][ControlNext]_ctvars

-----------------------------------------------------------------------------
\* A message about p is on its way to the dataplane ...
InChannel(p) == \E i \in 1 .. Len(to_data) : to_data[i].p = p

\* ... or back to the control thread.
Back(p) == \E i \in 1 .. Len(to_control) : to_control[i] = p

\* The control thread frees a struct proc only when nobody can reach it any
\* more: not the dataplane, nor core_history, nor a message that is under way
\* in either channel.
NoDangling ==
  \A p \in freed : /\ p \notin dp \cup referenced \cup clients
                   /\ ~InChannel(p) /\ ~Back(p)

\* The clients that are not removed are never promised more cores than there
\* are: what control_destroy_proc gives back was taken by control_create_proc,
\* and is given back once, whichever of the two threads is ahead.
PromiseCovered ==
  /\ Guaranteed * Cardinality(clients \ removed) <= nr_guaranteed
  /\ nr_guaranteed <= TotalCores
=============================================================================
