---------------------------- MODULE ControlProofs ---------------------------
(***************************************************************************)
(* The life of a client between the two threads of hwallocd                *)
(* (hwalloc/control.c, hwalloc/dataplane.c), for any number of processes   *)
(* and any sizes of the channels and bursts: a struct proc is freed only   *)
(* when nothing refers to it, and the guarantees of the clients fit on the *)
(* cores.                                                                  *)
(*                                                                         *)
(* That the dataplane's answer is the end of a client needs to know what   *)
(* is still in the channel behind it: the messages about one process are   *)
(* at most an ADD and then a REMOVE, no ADD for a process the dataplane    *)
(* knows, and none at all for one it has let go.  And that a process is    *)
(* freed once needs that it is never on its way back twice.                *)
(***************************************************************************)
EXTENDS Control, TLAPS, FiniteSetTheorems

\* The dataplane has removed p, or it is freed already.
LetGo(p) == p \in referenced \/ Back(p) \/ p \in freed

\* What the control thread sends.
Message == [cmd : {"ADD", "REMOVE"}, p : Proc]

TypeInv ==
  /\ to_data \in Seq(Message)
  /\ to_control \in Seq(Proc)
  /\ clients \subseteq Proc /\ connecting \subseteq Proc /\ new \subseteq Proc
  /\ dp \subseteq Proc /\ referenced \subseteq Proc

\* What the control thread is about to remove it has not removed yet.
ReadyInv == ready \subseteq clients \ removed

\* The messages about a process.
ChannelInv ==
  /\ \A i, j \in 1 .. Len(to_data) :
       i < j /\ to_data[i].p = to_data[j].p =>
         to_data[i].cmd = "ADD" /\ to_data[j].cmd = "REMOVE"
  /\ \A i \in 1 .. Len(to_data) :
       /\ to_data[i].p \in dp => to_data[i].cmd = "REMOVE"
       /\ to_data[i].cmd = "REMOVE" => to_data[i].p \in removed
       /\ ~LetGo(to_data[i].p)

\* Every process is in one phase of its life.
PhaseInv ==
  /\ \A p \in dp : ~LetGo(p)
  /\ \A p \in referenced : ~Back(p) /\ p \notin freed /\ p \in removed
  /\ \A p \in Proc : Back(p) => p \in removed
  /\ \A p \in freed : p \notin clients
  /\ \A p \in new \cup connecting :
       p \notin clients \cup dp /\ ~LetGo(p) /\ ~InChannel(p)
  /\ new \cap connecting = {}
  /\ removed \cap (new \cup connecting) = {}

Inv == TypeInv /\ ReadyInv /\ ChannelInv /\ PhaseInv

\* A process is on its way back at most once, and not any more when it is freed.
NoticeInv ==
  /\ \A i, j \in 1 .. Len(to_control) : to_control[i] = to_control[j] => i = j
  /\ \A p \in freed : ~Back(p)

-----------------------------------------------------------------------------
(***************************************************************************)
(* What sending and receiving do to a channel.                             *)
(***************************************************************************)

\* Only the process that is sent back is new among those on their way back.
LEMMA BackSent ==
  ASSUME to_control \in Seq(Proc), NEW p \in Proc, to_control' = Sent(to_control, p),
         NEW x
  PROVE  /\ to_control' \in Seq(Proc)
         /\ Back(x)' => Back(x) \/ x = p
         /\ Back(x) => Back(x)'
  <1>1. /\ to_control' \in Seq(Proc) /\ Len(to_control) \in Nat
        /\ Len(to_control') \in {Len(to_control), Len(to_control) + 1}
        /\ \A i \in 1 .. Len(to_control) : to_control'[i] = to_control[i]
        /\ Len(to_control') = Len(to_control) + 1 => to_control'[Len(to_control) + 1] = p
    BY DEF Sent
  <1>2. Back(x) => Back(x)'
    BY <1>1 DEF Back
  <1>3. ASSUME NEW i \in 1 .. Len(to_control'), to_control'[i] = x
        PROVE  x = p \/ \E j \in 1 .. Len(to_control) : to_control[j] = x
    BY <1>1, <1>3
  <1>4. Back(x)' => Back(x) \/ x = p
    BY <1>3 DEF Back
  <1> QED
    BY <1>1, <1>2, <1>4

\* A process that is taken from the way back may be there no more.
LEMMA BackTail ==
  ASSUME to_control \in Seq(Proc), to_control # << >>, to_control' = Tail(to_control), NEW x
  PROVE  /\ to_control' \in Seq(Proc)
         /\ Back(x)' => Back(x)
         /\ Back(Head(to_control)) /\ Head(to_control) \in Proc
  <1>1. /\ to_control' \in Seq(Proc) /\ Len(to_control') = Len(to_control) - 1
        /\ Len(to_control) \in Nat \ {0}
        /\ \A i \in 1 .. Len(to_control') : to_control'[i] = to_control[i + 1]
        /\ Head(to_control) = to_control[1] /\ to_control[1] \in Proc
    OBVIOUS
  <1>2. Back(x)' => Back(x)
    <2>1. ASSUME NEW i \in 1 .. Len(to_control'), to_control'[i] = x
          PROVE  \E j \in 1 .. Len(to_control) : to_control[j] = x
      BY <1>1, <2>1
    <2> QED
      BY <2>1 DEF Back
  <1> QED
    BY <1>1, <1>2 DEF Back

\* Taking the first message leaves the order of the others.
LEMMA ReceiveKeepsChannel ==
  ASSUME Inv, to_data # << >>, to_data' = Tail(to_data)
  PROVE  /\ to_data' \in Seq(Message)
         /\ Len(to_data) \in Nat \ {0} /\ Len(to_data') = Len(to_data) - 1
         /\ \A i \in 1 .. Len(to_data') :
              i + 1 \in 1 .. Len(to_data) /\ to_data'[i] = to_data[i + 1]
         /\ Head(to_data) = to_data[1] /\ 1 \in 1 .. Len(to_data)
         /\ Head(to_data).p \in Proc
         /\ \A x : InChannel(x)' => InChannel(x)
  <1>1. /\ to_data' \in Seq(Message)
        /\ Len(to_data) \in Nat \ {0} /\ Len(to_data') = Len(to_data) - 1
        /\ \A i \in 1 .. Len(to_data') :
             i + 1 \in 1 .. Len(to_data) /\ to_data'[i] = to_data[i + 1]
        /\ Head(to_data) = to_data[1] /\ 1 \in 1 .. Len(to_data)
        /\ Head(to_data) \in Message
    BY DEF Inv, TypeInv
  <1>2. Head(to_data).p \in Proc
    BY <1>1 DEF Message
  <1>3. \A x : InChannel(x)' => InChannel(x)
    <2>1. ASSUME NEW x, NEW i \in 1 .. Len(to_data'), to_data'[i].p = x
          PROVE  \E j \in 1 .. Len(to_data) : to_data[j].p = x
      BY <1>1, <2>1
    <2> QED
      BY <2>1 DEF InChannel
  <1> QED
    BY <1>1, <1>2, <1>3

\* What is sent is at the end of the channel, or lost.
LEMMA SendKeepsChannel ==
  ASSUME Inv, NEW m \in Message, to_data' = Sent(to_data, m)
  PROVE  /\ to_data' \in Seq(Message)
         /\ Len(to_data) \in Nat /\ Len(to_data') \in {Len(to_data), Len(to_data) + 1}
         /\ \A i \in 1 .. Len(to_data) : to_data'[i] = to_data[i]
         /\ Len(to_data') = Len(to_data) + 1 => to_data'[Len(to_data) + 1] = m
         /\ \A x : InChannel(x)' => InChannel(x) \/ x = m.p
  <1>1. /\ to_data' \in Seq(Message)
        /\ Len(to_data) \in Nat /\ Len(to_data') \in {Len(to_data), Len(to_data) + 1}
        /\ \A i \in 1 .. Len(to_data) : to_data'[i] = to_data[i]
        /\ Len(to_data') = Len(to_data) + 1 => to_data'[Len(to_data) + 1] = m
    BY DEF Inv, TypeInv, Sent
  <1>2. ASSUME NEW x, NEW i \in 1 .. Len(to_data'), to_data'[i].p = x
        PROVE  x = m.p \/ \E j \in 1 .. Len(to_data) : to_data[j].p = x
    BY <1>1, <1>2
  <1> QED
    BY <1>1, <1>2 DEF InChannel

-----------------------------------------------------------------------------
(***************************************************************************)
(* The steps of the control thread.                                        *)
(***************************************************************************)

\* Steps that touch neither the channels nor what the dataplane has.
LEMMA QuietKeeps ==
  ASSUME Inv,
         UNCHANGED <<to_data, to_control, clients, removed, freed, dp, referenced>>,
         ready' \subseteq clients \ removed,
         new' \subseteq new,
         connecting' \subseteq new \cup connecting, new' \cap connecting' = {}
  PROVE  Inv'
  BY DEF Inv, TypeInv, ReadyInv, ChannelInv, PhaseInv, LetGo, Back, InChannel

\* control_add_client: nothing refers to a process that connects.
LEMMA AddClientKeeps ==
  ASSUME Inv, NEW p \in Proc, control_add_client(p)
  PROVE  Inv'
  <1> DEFINE m == [cmd |-> "ADD", p |-> p]
  <1>1. /\ p \in connecting /\ connecting' = connecting \ {p}
        /\ to_data' = Sent(to_data, m)
        /\ UNCHANGED <<new, ready, removed, to_control, dp, referenced>>
    BY DEF control_add_client
  <1>2. CASE ChannelFull(to_data)
    <2>1. to_data' = to_data /\ freed' = freed \cup {p} /\ clients' = clients
      BY <1>1, <1>2 DEF control_add_client, ChannelFull, Sent
    <2> QED
      BY <1>1, <2>1 DEF Inv, TypeInv, ReadyInv, ChannelInv, PhaseInv, LetGo, Back, InChannel
  <1>3. CASE ~ChannelFull(to_data)
    <2>1. clients' = clients \cup {p} /\ freed' = freed
      BY <1>3 DEF control_add_client
    <2>2. /\ p \notin dp /\ ~LetGo(p) /\ ~InChannel(p) /\ p \notin new /\ p \notin removed
          /\ p \notin freed
      BY <1>1 DEF Inv, PhaseInv, LetGo
    <2>3. m \in Message /\ m.p = p /\ m.cmd = "ADD"
      BY DEF Message
    <2> HIDE DEF m
    <2>4. /\ to_data' \in Seq(Message)
          /\ Len(to_data) \in Nat /\ Len(to_data') \in {Len(to_data), Len(to_data) + 1}
          /\ \A i \in 1 .. Len(to_data) : to_data'[i] = to_data[i]
          /\ Len(to_data') = Len(to_data) + 1 => to_data'[Len(to_data) + 1] = m
          /\ \A x : InChannel(x)' => InChannel(x) \/ x = p
      BY <1>1, <2>3, SendKeepsChannel
    <2>5. \A x : (Back(x)' <=> Back(x)) /\ (LetGo(x)' <=> LetGo(x))
      BY <1>1, <2>1 DEF LetGo, Back
    <2>6. TypeInv' /\ ReadyInv'
      BY <1>1, <2>1, <2>4 DEF Inv, TypeInv, ReadyInv
    <2>7. ChannelInv'
      BY <1>1, <2>2, <2>3, <2>4, <2>5 DEF Inv, ChannelInv, InChannel
    <2>8. PhaseInv'
      BY <1>1, <2>1, <2>2, <2>4, <2>5 DEF Inv, PhaseInv
    <2> QED
      BY <2>6, <2>7, <2>8 DEF Inv
  <1> QED
    BY <1>2, <1>3

\* control_instruct_dataplane_to_remove_client: the first REMOVE of a client,
\* behind its ADD if that is still under way.
LEMMA InstructKeeps ==
  ASSUME Inv, NEW p \in Proc, control_instruct_dataplane_to_remove_client(p)
  PROVE  Inv'
  <1> DEFINE m == [cmd |-> "REMOVE", p |-> p]
  <1>1. /\ p \in ready /\ ready' = ready \ {p} /\ removed' = removed \cup {p}
        /\ to_data' = Sent(to_data, m)
        /\ UNCHANGED <<new, connecting, clients, freed, to_control, dp, referenced>>
    BY DEF control_instruct_dataplane_to_remove_client
  <1>2. p \in clients /\ p \notin removed /\ p \notin new \cup connecting /\ ~LetGo(p)
    BY <1>1 DEF Inv, ReadyInv, PhaseInv, LetGo
  <1>3. m \in Message /\ m.p = p /\ m.cmd = "REMOVE"
    BY DEF Message
  <1> HIDE DEF m
  <1>4. /\ to_data' \in Seq(Message)
        /\ Len(to_data) \in Nat /\ Len(to_data') \in {Len(to_data), Len(to_data) + 1}
        /\ \A i \in 1 .. Len(to_data) : to_data'[i] = to_data[i]
        /\ Len(to_data') = Len(to_data) + 1 => to_data'[Len(to_data) + 1] = m
        /\ \A x : InChannel(x)' => InChannel(x) \/ x = p
    BY <1>1, <1>3, SendKeepsChannel
  <1>5. \A x : (Back(x)' <=> Back(x)) /\ (LetGo(x)' <=> LetGo(x))
    BY <1>1 DEF LetGo, Back
  <1>6. TypeInv' /\ ReadyInv'
    BY <1>1, <1>4 DEF Inv, TypeInv, ReadyInv
  <1>7. ChannelInv'
    <2>1. \A i \in 1 .. Len(to_data) : to_data[i].p = p => to_data[i].cmd = "ADD"
      <3>1. \A i \in 1 .. Len(to_data) : to_data[i] \in Message
        BY DEF Inv, TypeInv
      <3>2. \A i \in 1 .. Len(to_data) : to_data[i].cmd \in {"ADD", "REMOVE"}
        BY <3>1 DEF Message
      <3> QED
        BY <1>2, <3>2 DEF Inv, ChannelInv
    <2> QED
      BY <1>1, <1>2, <1>3, <1>4, <1>5, <2>1 DEF Inv, ChannelInv
  <1>8. PhaseInv'
    BY <1>1, <1>2, <1>4, <1>5 DEF Inv, PhaseInv
  <1> QED
    BY <1>6, <1>7, <1>8 DEF Inv

\* control_remove_client: the one on its way back is nowhere else any more.
LEMMA RemoveClientKeeps ==
  ASSUME Inv, control_remove_client
  PROVE  Inv'
  <1> DEFINE p == Head(to_control)
  <1>1. /\ to_control # << >> /\ to_control' = Tail(to_control) /\ ready = {}
        /\ UNCHANGED <<new, connecting, ready, removed, to_data, dp, referenced>>
        /\ \/ clients' = clients \ {p} /\ freed' = freed \cup {p} /\ p \in clients
           \/ clients' = clients /\ freed' = freed
    BY DEF control_remove_client, control_destroy_proc
  <1>2. to_control' \in Seq(Proc) /\ Back(p) /\ p \in Proc /\ \A x : Back(x)' => Back(x)
    BY <1>1, BackTail DEF Inv, TypeInv
  <1> HIDE DEF p
  <1>3. \A x : LetGo(x)' => LetGo(x)
    BY <1>1, <1>2 DEF LetGo
  <1>4. TypeInv' /\ ReadyInv'
    BY <1>1, <1>2 DEF Inv, TypeInv, ReadyInv
  <1>5. ChannelInv'
    BY <1>1, <1>3 DEF Inv, ChannelInv
  <1>6. PhaseInv'
    <2>1. \A x : InChannel(x)' <=> InChannel(x)
      BY <1>1 DEF InChannel
    <2>2. \A x \in referenced : x # p
      BY <1>2 DEF Inv, PhaseInv
    <2> QED
      BY <1>1, <1>2, <1>3, <2>1, <2>2 DEF Inv, PhaseInv
  <1> QED
    BY <1>4, <1>5, <1>6 DEF Inv

-----------------------------------------------------------------------------
(***************************************************************************)
(* The steps of the dataplane thread.                                      *)
(***************************************************************************)

\* The rest of the channel keeps its order, whatever becomes of the message.
LEMMA RestKeeps ==
  ASSUME Inv, to_data # << >>, to_data' = Tail(to_data),
         UNCHANGED removed,
         dp' \subseteq dp \cup {Head(to_data).p}, Head(to_data).cmd = "REMOVE" => dp' \subseteq dp,
         \A x : LetGo(x)' => LetGo(x) \/ (x = Head(to_data).p /\ Head(to_data).cmd = "REMOVE")
  PROVE  ChannelInv'
  <1> DEFINE h == Head(to_data)
  <1>1. /\ Len(to_data) \in Nat \ {0} /\ Len(to_data') = Len(to_data) - 1
        /\ \A i \in 1 .. Len(to_data') :
             i + 1 \in 1 .. Len(to_data) /\ to_data'[i] = to_data[i + 1]
        /\ h = to_data[1] /\ 1 \in 1 .. Len(to_data)
    BY ReceiveKeepsChannel
  <1>2. \A i \in 1 .. Len(to_data') : to_data'[i].p = h.p =>
          h.cmd = "ADD" /\ to_data'[i].cmd = "REMOVE"
    <2>1. \A i \in 1 .. Len(to_data') : 1 < i + 1
      BY <1>1
    <2> QED
      BY <1>1, <2>1 DEF Inv, ChannelInv
  <1> HIDE DEF h
  <1>3. ASSUME NEW i \in 1 .. Len(to_data'), NEW j \in 1 .. Len(to_data'), i < j,
               to_data'[i].p = to_data'[j].p
        PROVE  to_data'[i].cmd = "ADD" /\ to_data'[j].cmd = "REMOVE"
    <2>1. i + 1 < j + 1
      BY <1>1, <1>3
    <2> QED
      BY <1>1, <1>3, <2>1 DEF Inv, ChannelInv
  <1>4. ASSUME NEW i \in 1 .. Len(to_data')
        PROVE  /\ to_data'[i].p \in dp' => to_data'[i].cmd = "REMOVE"
               /\ to_data'[i].cmd = "REMOVE" => to_data'[i].p \in removed'
               /\ ~LetGo(to_data[i].p)'
    <2>1. /\ to_data'[i].p \in dp => to_data'[i].cmd = "REMOVE"
          /\ to_data'[i].cmd = "REMOVE" => to_data'[i].p \in removed
          /\ ~LetGo(to_data'[i].p)
      BY <1>1 DEF Inv, ChannelInv
    <2> QED
      BY <1>2, <2>1 DEF h
  <1> QED
    BY <1>3, <1>4 DEF ChannelInv

\* dp_clients_rx_control_lrpcs: an ADD brings a client that is nowhere yet, a
\* REMOVE is the last message about its client.
LEMMA ReceiveKeeps ==
  ASSUME Inv, dp_clients_rx_control_lrpcs
  PROVE  Inv'
  <1> DEFINE h == Head(to_data)
  <1>1. /\ to_data # << >> /\ to_data' = Tail(to_data)
        /\ UNCHANGED <<new, connecting, ready, clients, removed, freed>>
    BY DEF dp_clients_rx_control_lrpcs, control
  <1>2. /\ to_data' \in Seq(Message)
        /\ h = to_data[1] /\ 1 \in 1 .. Len(to_data) /\ h.p \in Proc
        /\ \A x : InChannel(x)' => InChannel(x)
    BY <1>1, ReceiveKeepsChannel
  <1>3. /\ h.cmd = "REMOVE" => h.p \in removed
        /\ ~LetGo(h.p) /\ InChannel(h.p)
    BY <1>2 DEF Inv, ChannelInv, InChannel
  <1>4. \/ h.cmd = "ADD" /\ dp' = dp \cup {h.p} /\ UNCHANGED <<referenced, to_control>>
        \/ h.cmd = "REMOVE" /\ Removed(h.p)
        \/ h.cmd = "REMOVE" /\ UNCHANGED <<dp, referenced, to_control>>
    BY DEF dp_clients_rx_control_lrpcs
  <1> HIDE DEF h
  <1>5. h.p \notin new \cup connecting
    BY <1>3 DEF Inv, PhaseInv
  <1>6. CASE h.cmd = "ADD" /\ dp' = dp \cup {h.p} /\ UNCHANGED <<referenced, to_control>>
    <2>1. \A x : (Back(x)' <=> Back(x)) /\ (LetGo(x)' <=> LetGo(x))
      BY <1>1, <1>6 DEF LetGo, Back
    <2>2. ChannelInv'
      BY <1>1, <1>6, <2>1, RestKeeps DEF h
    <2>3. TypeInv' /\ ReadyInv'
      BY <1>1, <1>2, <1>6 DEF Inv, TypeInv, ReadyInv
    <2>4. PhaseInv'
      BY <1>1, <1>2, <1>3, <1>5, <1>6, <2>1 DEF Inv, PhaseInv
    <2> QED
      BY <2>2, <2>3, <2>4 DEF Inv
  <1>7. CASE h.cmd = "REMOVE" /\ UNCHANGED <<dp, referenced, to_control>>
    <2>1. \A x : (Back(x)' <=> Back(x)) /\ (LetGo(x)' <=> LetGo(x))
      BY <1>1, <1>7 DEF LetGo, Back
    <2>2. ChannelInv'
      BY <1>1, <1>7, <2>1, RestKeeps DEF h
    <2>3. TypeInv' /\ ReadyInv'
      BY <1>1, <1>2, <1>7 DEF Inv, TypeInv, ReadyInv
    <2>4. PhaseInv'
      BY <1>1, <1>2, <1>7, <2>1 DEF Inv, PhaseInv
    <2> QED
      BY <2>2, <2>3, <2>4 DEF Inv
  <1>8. CASE h.cmd = "REMOVE" /\ Removed(h.p)
    <2>1. /\ dp' = dp \ {h.p} /\ h.p \in dp
          /\ \/ to_control' = Sent(to_control, h.p) /\ UNCHANGED referenced
             \/ referenced' = referenced \cup {h.p} /\ UNCHANGED to_control
      BY <1>8 DEF Removed
    <2>2. /\ to_control' \in Seq(Proc)
          /\ \A x : Back(x)' => Back(x) \/ x = h.p
          /\ (\E x : Back(x)' /\ ~Back(x)) => UNCHANGED referenced
      <3>1. CASE to_control' = Sent(to_control, h.p) /\ UNCHANGED referenced
        BY <1>2, <3>1, BackSent DEF Inv, TypeInv
      <3>2. CASE UNCHANGED to_control
        BY <3>2 DEF Back, Inv, TypeInv
      <3> QED
        BY <2>1, <3>1, <3>2
    <2>3. \A x : LetGo(x)' => LetGo(x) \/ x = h.p
      BY <1>1, <2>1, <2>2 DEF LetGo
    <2>4. ChannelInv'
      BY <1>1, <1>8, <2>1, <2>3, RestKeeps DEF h
    <2>5. TypeInv' /\ ReadyInv'
      BY <1>1, <1>2, <2>1, <2>2 DEF Inv, TypeInv, ReadyInv
    <2>6. ~Back(h.p) /\ h.p \notin freed /\ h.p \notin referenced
      BY <1>3 DEF LetGo
    <2>7. \A x \in referenced' : ~Back(x)' /\ x \notin freed' /\ x \in removed'
      BY <1>1, <1>3, <1>8, <2>1, <2>2, <2>6 DEF Inv, PhaseInv
    <2>8. PhaseInv'
      BY <1>1, <1>2, <1>3, <1>5, <1>8, <2>1, <2>2, <2>3, <2>7 DEF Inv, PhaseInv
    <2> QED
      BY <2>4, <2>5, <2>8 DEF Inv
  <1> QED
    BY <1>4, <1>6, <1>7, <1>8

\* The message that is dropped at the end of a burst.
LEMMA BurstKeeps ==
  ASSUME Inv, BurstEnds
  PROVE  Inv'
  <1>1. UNCHANGED <<new, connecting, ready, clients, removed, freed, to_control, dp, referenced>>
    BY DEF BurstEnds, control
  <1>2. CASE to_data = << >>
    <2>1. UNCHANGED to_data
      BY <1>2 DEF BurstEnds
    <2> QED
      BY <1>1, <2>1, QuietKeeps DEF Inv, ReadyInv, PhaseInv
  <1>3. CASE to_data # << >>
    <2>1. to_data' = Tail(to_data)
      BY <1>3 DEF BurstEnds
    <2>2. \A x : (Back(x)' <=> Back(x)) /\ (LetGo(x)' <=> LetGo(x))
      BY <1>1 DEF LetGo, Back
    <2>3. to_data' \in Seq(Message) /\ \A x : InChannel(x)' => InChannel(x)
      BY <1>3, <2>1, ReceiveKeepsChannel
    <2>4. ChannelInv'
      BY <1>1, <1>3, <2>1, <2>2, RestKeeps
    <2>5. TypeInv' /\ ReadyInv' /\ PhaseInv'
      BY <1>1, <2>2, <2>3 DEF Inv, TypeInv, ReadyInv, PhaseInv
    <2> QED
      BY <2>4, <2>5 DEF Inv
  <1> QED
    BY <1>2, <1>3

\* proc_release: the last reference from core_history goes away.
LEMMA ReleaseKeeps ==
  ASSUME Inv, NEW p \in Proc, proc_release(p)
  PROVE  Inv'
  <1>1. /\ p \in referenced /\ referenced' = referenced \ {p}
        /\ to_control' = Sent(to_control, p)
        /\ UNCHANGED <<new, connecting, ready, clients, removed, freed, to_data, dp>>
    BY DEF proc_release, control
  <1>2. to_control' \in Seq(Proc) /\ \A x : Back(x)' => Back(x) \/ x = p
    BY <1>1, BackSent DEF Inv, TypeInv
  <1>3. \A x : LetGo(x)' => LetGo(x)
    BY <1>1, <1>2 DEF LetGo
  <1>4. \A x : InChannel(x)' <=> InChannel(x)
    BY <1>1 DEF InChannel
  <1>5. TypeInv' /\ ReadyInv'
    BY <1>1, <1>2 DEF Inv, TypeInv, ReadyInv
  <1>6. ChannelInv'
    BY <1>1, <1>3 DEF Inv, ChannelInv
  <1>7. PhaseInv'
    BY <1>1, <1>2, <1>3, <1>4 DEF Inv, PhaseInv
  <1> QED
    BY <1>5, <1>6, <1>7 DEF Inv

-----------------------------------------------------------------------------
(***************************************************************************)
(* The way back: proc_release is called once for a process.                *)
(***************************************************************************)

\* A process that is not on its way back, nor freed, is sent.
LEMMA NoticeSent ==
  ASSUME Inv, NoticeInv, NEW p \in Proc, to_control' = Sent(to_control, p), freed' = freed,
         ~Back(p), p \notin freed
  PROVE  NoticeInv'
  <1>1. /\ Len(to_control) \in Nat
        /\ Len(to_control') \in {Len(to_control), Len(to_control) + 1}
        /\ \A i \in 1 .. Len(to_control) : to_control'[i] = to_control[i] /\ to_control[i] # p
        /\ Len(to_control') = Len(to_control) + 1 => to_control'[Len(to_control) + 1] = p
    BY DEF Inv, TypeInv, Sent, Back
  <1>2. ASSUME NEW i \in 1 .. Len(to_control'), NEW j \in 1 .. Len(to_control'),
               to_control'[i] = to_control'[j]
        PROVE  i = j
    <2>1. CASE i \in 1 .. Len(to_control) /\ j \in 1 .. Len(to_control)
      BY <1>1, <1>2, <2>1 DEF NoticeInv
    <2>2. CASE i \notin 1 .. Len(to_control) \/ j \notin 1 .. Len(to_control)
      BY <1>1, <1>2, <2>2
    <2> QED
      BY <2>1, <2>2
  <1>3. \A x \in freed' : ~Back(x)'
    BY BackSent DEF Inv, TypeInv, NoticeInv
  <1> QED
    BY <1>2, <1>3 DEF NoticeInv

\* control_remove_client: the process it may free was there only once.
LEMMA NoticeTaken ==
  ASSUME Inv, NoticeInv, control_remove_client
  PROVE  NoticeInv'
  <1>0. PICK h : h = Head(to_control)
    OBVIOUS
  <1>1. /\ to_control # << >> /\ to_control' = Tail(to_control)
        /\ freed' \subseteq freed \cup {h}
    BY <1>0 DEF control_remove_client, control_destroy_proc
  <1>2. /\ Len(to_control) \in Nat \ {0} /\ Len(to_control') = Len(to_control) - 1
        /\ \A i \in 1 .. Len(to_control') :
             i + 1 \in 1 .. Len(to_control) /\ to_control'[i] = to_control[i + 1]
        /\ h = to_control[1] /\ 1 \in 1 .. Len(to_control)
    BY <1>0, <1>1 DEF Inv, TypeInv
  <1>3. ASSUME NEW i \in 1 .. Len(to_control'), NEW j \in 1 .. Len(to_control'),
               to_control'[i] = to_control'[j]
        PROVE  i = j
    <2>1. i + 1 = j + 1
      BY <1>2, <1>3 DEF NoticeInv
    <2> QED
      BY <2>1
  <1>4. ~Back(h)'
    <2>1. ASSUME NEW i \in 1 .. Len(to_control'), to_control'[i] = h PROVE FALSE
      <3>1. i + 1 = 1
        BY <1>2, <2>1 DEF NoticeInv
      <3> QED
        BY <3>1
    <2> QED
      BY <2>1 DEF Back
  <1>5. \A x : Back(x)' => Back(x)
    BY <1>1, BackTail DEF Inv, TypeInv
  <1> QED
    BY <1>1, <1>3, <1>4, <1>5 DEF NoticeInv

LEMMA NoticeKeeps ==
  ASSUME Inv, NoticeInv, [ControlNext]_ctvars
  PROVE  NoticeInv'
  <1>1. CASE UNCHANGED <<to_control, freed>>
    BY <1>1 DEF NoticeInv, Back
  <1>2. CASE Select \/ Drained \/ BurstEnds \/ UNCHANGED ctvars
    BY <1>1, <1>2 DEF Select, Drained, BurstEnds, control, ctvars
  <1>3. ASSUME NEW p \in Proc,
               \/ Refuse(p) \/ control_instruct_dataplane_to_remove_client(p)
               \/ Connect(p) \/ Close(p)
        PROVE  NoticeInv'
    BY <1>1, <1>3
    DEF Refuse, control_instruct_dataplane_to_remove_client, Connect, Close, control
  <1>4. ASSUME NEW p \in Proc, control_add_client(p) PROVE NoticeInv'
    <2>1. to_control' = to_control /\ freed' \subseteq freed \cup {p} /\ p \in connecting
      BY <1>4 DEF control_add_client
    <2>2. ~Back(p)
      BY <2>1 DEF Inv, PhaseInv, LetGo
    <2> QED
      BY <2>1, <2>2 DEF NoticeInv, Back
  <1>5. ASSUME NEW p \in Proc, proc_release(p) PROVE NoticeInv'
    <2>1. to_control' = Sent(to_control, p) /\ freed' = freed /\ p \in referenced
      BY <1>5 DEF proc_release, control
    <2>2. ~Back(p) /\ p \notin freed
      BY <2>1 DEF Inv, PhaseInv
    <2> QED
      BY <2>1, <2>2, NoticeSent
  <1>6. CASE dp_clients_rx_control_lrpcs
    <2> DEFINE p == Head(to_data).p
    <2>1. freed' = freed
      BY <1>6 DEF dp_clients_rx_control_lrpcs, control
    <2>2. CASE UNCHANGED to_control
      BY <1>1, <2>1, <2>2
    <2>3. CASE p \in dp /\ to_control' = Sent(to_control, p)
      <3>1. p \in Proc /\ ~Back(p) /\ p \notin freed
        BY <2>3 DEF Inv, TypeInv, PhaseInv, LetGo
      <3> QED
        BY <2>1, <2>3, <3>1, NoticeSent
    <2> QED
      BY <1>6, <2>2, <2>3 DEF dp_clients_rx_control_lrpcs, Removed
  <1> QED
    BY <1>2, <1>3, <1>4, <1>5, <1>6, NoticeTaken DEF ControlNext

-----------------------------------------------------------------------------
\* The messages of either thread, its select and its bursts, connections and
\* ends of processes: every step of hwallocd keeps a client in one phase of its
\* life, and at most one notice of its release under way.
THEOREM ControlInvariant == ControlSpec => [](Inv /\ NoticeInv)
  <1>1. ControlInit => Inv /\ NoticeInv
    BY DEF ControlInit, Inv, TypeInv, ReadyInv, ChannelInv, PhaseInv, LetGo, Back, InChannel,
           NoticeInv
  <1>2. Inv /\ [ControlNext]_ctvars => Inv'
    <2> SUFFICES ASSUME Inv, [ControlNext]_ctvars PROVE Inv'
      OBVIOUS
    <2>1. ready \subseteq clients \ removed /\ new \cap connecting = {}
      BY DEF Inv, ReadyInv, PhaseInv
    <2>2. CASE Select
      BY <2>1, <2>2, QuietKeeps DEF Select
    <2>3. CASE control_remove_client
      BY <2>3, RemoveClientKeeps
    <2>4. CASE Drained
      BY <2>1, <2>4, QuietKeeps DEF Drained
    <2>5. CASE dp_clients_rx_control_lrpcs
      BY <2>5, ReceiveKeeps
    <2>6. CASE BurstEnds
      BY <2>6, BurstKeeps
    <2>7. ASSUME NEW p \in Proc, Refuse(p) PROVE Inv'
      BY <2>1, <2>7, QuietKeeps DEF Refuse
    <2>8. ASSUME NEW p \in Proc, control_add_client(p) PROVE Inv'
      BY <2>8, AddClientKeeps
    <2>9. ASSUME NEW p \in Proc, control_instruct_dataplane_to_remove_client(p) PROVE Inv'
      BY <2>9, InstructKeeps
    <2>10. ASSUME NEW p \in Proc, proc_release(p) PROVE Inv'
      BY <2>10, ReleaseKeeps
    <2>11. ASSUME NEW p \in Proc, Connect(p) PROVE Inv'
      BY <2>1, <2>11, QuietKeeps DEF Connect, control
    <2>12. ASSUME NEW p \in Proc, Close(p) PROVE Inv'
      BY <2>1, <2>12, QuietKeeps DEF Close, control
    <2>13. CASE UNCHANGED ctvars
      BY <2>1, <2>13, QuietKeeps DEF ctvars
    <2> QED
      BY <2>2, <2>3, <2>4, <2>5, <2>6, <2>7, <2>8, <2>9, <2>10, <2>11, <2>12, <2>13 DEF ControlNext
  <1>3. Inv /\ NoticeInv /\ [ControlNext]_ctvars => NoticeInv'
    BY NoticeKeeps
  <1> QED
    BY <1>1, <1>2, <1>3, PTL DEF ControlSpec

\* control_destroy_proc frees a process only when neither thread can reach it,
\* however many processes there are and however small channels and bursts.
THEOREM FreedIsUnreachable == ControlSpec => []NoDangling
  <1>1. Inv /\ NoticeInv => NoDangling
    <2> SUFFICES ASSUME Inv, NoticeInv, NEW p \in freed
                 PROVE  /\ p \notin dp \cup referenced \cup clients
                        /\ ~InChannel(p) /\ ~Back(p)
      BY DEF NoDangling
    <2>1. LetGo(p)
      BY DEF LetGo
    <2>2. p \notin dp /\ p \notin referenced /\ p \notin clients
      BY <2>1 DEF Inv, PhaseInv
    <2>3. ~InChannel(p)
      BY <2>1 DEF Inv, ChannelInv, InChannel
    <2> QED
      BY <2>2, <2>3 DEF NoticeInv
  <1> QED
    BY <1>1, ControlInvariant, PTL

-----------------------------------------------------------------------------
(***************************************************************************)
(* The guaranteed cores.                                                   *)
(***************************************************************************)
PromiseInv ==
  /\ IsFiniteSet(clients) /\ nr_guaranteed \in Int
  /\ PromiseCovered

\* One client more is one guarantee more, one client less one less.
LEMMA OneMore ==
  ASSUME NEW S, IsFiniteSet(S), NEW x, x \notin S, NEW G \in Nat
  PROVE  /\ IsFiniteSet(S \cup {x})
         /\ G * Cardinality(S \cup {x}) = G * Cardinality(S) + G
  <1>1. IsFiniteSet(S \cup {x}) /\ Cardinality(S \cup {x}) = Cardinality(S) + 1
        /\ Cardinality(S) \in Nat
    BY FS_AddElement, FS_CardinalityType
  <1> QED
    BY <1>1

\* What is given back was taken, and is given back once.
THEOREM GuaranteesFit == ControlSpec => []PromiseCovered
  <1>1. Guaranteed \in Nat /\ TotalCores \in Nat
    BY ControlAssumption
  <1>2. ControlInit => PromiseInv
    <2> SUFFICES ASSUME ControlInit PROVE PromiseInv
      OBVIOUS
    <2>1. clients = {} /\ clients \ removed = {} /\ nr_guaranteed = 0
      BY DEF ControlInit
    <2>2. IsFiniteSet({}) /\ Cardinality({}) = 0
      BY FS_EmptySet
    <2>3. IsFiniteSet(clients) /\ Cardinality(clients \ removed) = 0
      BY <2>1, <2>2, Zenon
    <2> QED
      BY <1>1, <2>1, <2>3 DEF PromiseInv, PromiseCovered
  <1>3. Inv /\ PromiseInv /\ [ControlNext]_ctvars => PromiseInv'
    <2> SUFFICES ASSUME Inv, PromiseInv, [ControlNext]_ctvars PROVE PromiseInv'
      OBVIOUS
    <2> DEFINE C == clients \ removed
    <2>1. IsFiniteSet(clients) /\ IsFiniteSet(C) /\ Cardinality(C) \in Nat
      BY FS_Difference, FS_CardinalityType DEF PromiseInv
    <2>2. /\ nr_guaranteed \in Int /\ Guaranteed * Cardinality(C) <= nr_guaranteed
          /\ nr_guaranteed <= TotalCores /\ Guaranteed * Cardinality(C) \in Int
      BY <1>1, <2>1 DEF PromiseInv, PromiseCovered
    <2>3. CASE UNCHANGED <<clients, removed, nr_guaranteed>>
      BY <2>3 DEF PromiseInv, PromiseCovered
    <2>4. ASSUME NEW p \in Proc, Refuse(p) PROVE PromiseInv'
      <3>1. clients' = clients /\ C' = C
        BY <2>4 DEF Refuse
      <3>2. \/ nr_guaranteed' = nr_guaranteed
            \/ /\ Guaranteed + nr_guaranteed <= TotalCores
               /\ nr_guaranteed' = nr_guaranteed + Guaranteed
        BY <2>4 DEF Refuse
      <3> HIDE DEF C
      <3>3. /\ nr_guaranteed' \in Int /\ Guaranteed * Cardinality(C) <= nr_guaranteed'
            /\ nr_guaranteed' <= TotalCores
        BY <1>1, <2>1, <2>2, <3>2
      <3> QED
        BY <2>1, <3>1, <3>3 DEF PromiseInv, PromiseCovered, C
    <2>5. ASSUME NEW p \in Proc, control_add_client(p) PROVE PromiseInv'
      <3>1. CASE ChannelFull(to_data)
        BY <2>3, <2>5, <3>1 DEF control_add_client
      <3>2. CASE ~ChannelFull(to_data)
        <4>1. /\ clients' = clients \cup {p} /\ removed' = removed /\ p \in connecting
              /\ nr_guaranteed' = nr_guaranteed + Guaranteed
              /\ Guaranteed + nr_guaranteed <= TotalCores
          BY <2>5, <3>2 DEF control_add_client
        <4>2. p \notin clients /\ p \notin removed /\ p \notin C
          BY <4>1 DEF Inv, PhaseInv
        <4>3. C' = C \cup {p}
          BY <4>1, <4>2
        <4> HIDE DEF C
        <4>4. /\ IsFiniteSet(clients')
              /\ Guaranteed * Cardinality(C \cup {p}) = Guaranteed * Cardinality(C) + Guaranteed
          BY <1>1, <2>1, <4>1, <4>2, OneMore
        <4>5. Guaranteed * Cardinality(C') = Guaranteed * Cardinality(C) + Guaranteed
          BY <4>3, <4>4, Zenon
        <4>6. /\ nr_guaranteed' \in Int /\ Guaranteed * Cardinality(C') <= nr_guaranteed'
              /\ nr_guaranteed' <= TotalCores
          BY <1>1, <2>1, <2>2, <4>1, <4>5
        <4> QED
          BY <4>4, <4>6 DEF PromiseInv, PromiseCovered, C
      <3> QED
        BY <3>1, <3>2
    <2>6. ASSUME NEW p \in Proc, control_instruct_dataplane_to_remove_client(p)
          PROVE  PromiseInv'
      <3>1. /\ clients' = clients /\ removed' = removed \cup {p} /\ p \in ready
            /\ nr_guaranteed' = nr_guaranteed - Guaranteed
        BY <2>6 DEF control_instruct_dataplane_to_remove_client
      <3>2. p \in C
        BY <3>1 DEF Inv, ReadyInv
      <3>3. C = C' \cup {p} /\ p \notin C' /\ C' \subseteq C
        BY <3>1, <3>2
      <3> HIDE DEF C
      <3>4. IsFiniteSet(C') /\ Cardinality(C') \in Nat
        BY <2>1, <3>3, FS_Subset, FS_CardinalityType
      <3>5. Guaranteed * Cardinality(C' \cup {p}) = Guaranteed * Cardinality(C') + Guaranteed
        BY <1>1, <3>3, <3>4, OneMore
      <3>6. Guaranteed * Cardinality(C) = Guaranteed * Cardinality(C') + Guaranteed
        BY <3>3, <3>5, Zenon
      <3>7. /\ nr_guaranteed' \in Int /\ Guaranteed * Cardinality(C') <= nr_guaranteed'
            /\ nr_guaranteed' <= TotalCores
        BY <1>1, <2>1, <2>2, <3>1, <3>4, <3>6
      <3> QED
        BY <2>1, <3>1, <3>7 DEF PromiseInv, PromiseCovered, C
    <2>7. CASE control_remove_client
      <3>1. to_control # << >> /\ removed' = removed
        BY <2>7 DEF control_remove_client
      <3>2. Head(to_control) \in Proc /\ Back(Head(to_control))
        BY <2>7, BackTail DEF control_remove_client, Inv, TypeInv
      <3>3. Head(to_control) \in removed
        BY <3>2 DEF Inv, PhaseInv
      <3>4. nr_guaranteed' = nr_guaranteed /\ clients' \subseteq clients /\ C' = C
        BY <2>7, <3>1, <3>3 DEF control_remove_client, control_destroy_proc
      <3>5. IsFiniteSet(clients')
        BY <2>1, <3>4, FS_Subset
      <3> QED
        BY <2>2, <3>4, <3>5 DEF PromiseInv, PromiseCovered
    <2>8. CASE dp_clients_rx_control_lrpcs \/ BurstEnds
      BY <2>3, <2>8 DEF dp_clients_rx_control_lrpcs, BurstEnds, control
    <2>9. CASE Select \/ Drained \/ UNCHANGED ctvars
      BY <2>3, <2>9 DEF Select, Drained, ctvars
    <2>10. ASSUME NEW p \in Proc, proc_release(p) \/ Connect(p) \/ Close(p) PROVE PromiseInv'
      BY <2>3, <2>10 DEF proc_release, Connect, Close, control
    <2> QED
      BY <2>4, <2>5, <2>6, <2>7, <2>8, <2>9, <2>10 DEF ControlNext
  <1>4. PromiseInv => PromiseCovered
    BY DEF PromiseInv
  <1> QED
    BY <1>2, <1>3, <1>4, ControlInvariant, PTL DEF ControlSpec

=============================================================================
