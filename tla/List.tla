-------------------------------- MODULE List --------------------------------
(***************************************************************************)
(* The intrusive doubly linked list (inc/base/list.h) on which every queue *)
(* of waiters, threads, pages and processes is built, at the level of its  *)
(* next and prev pointers.  The other modules take such a list for the     *)
(* sequence of its entries; here that sequence is kept beside the pointers *)
(* and compared with them.  A caller holds whatever lock protects a list,  *)
(* so that an operation is one step.                                       *)
(***************************************************************************)
EXTENDS Naturals, Sequences, SequencesExt

CONSTANTS Head_, Elem   \* the list heads, and the nodes in entries

VARIABLES
  p,            \* p.next and p.prev: the pointers of every node
  entries       \* entries[h]: what the list at h should be

vars == <<p, entries>>

Node == Head_ \cup Elem

\* A head points to itself; what an entry's node holds is never read before it
\* is on a list, and is taken to be itself.
list_head_init(q, h) == [q EXCEPT !.next[h] = h, !.prev[h] = h]

Init ==
  /\ p = [next |-> [n \in Node |-> n], prev |-> [n \in Node |-> n]]
  /\ entries = [h \in Head_ |-> <<>>]

\* The stores of list_add, in order: the third reads h's pointer again.
list_add(q, h, n) ==
  LET q1 == [q EXCEPT !.next[n] = q.next[h], !.prev[n] = h]
      q2 == [q1 EXCEPT !.prev[q1.next[h]] = n]
  IN [q2 EXCEPT !.next[h] = n]

list_add_tail(q, h, n) ==
  LET q1 == [q EXCEPT !.next[n] = h, !.prev[n] = q.prev[h]]
      q2 == [q1 EXCEPT !.next[q1.prev[h]] = n]
  IN [q2 EXCEPT !.prev[h] = n]

list_del(q, n) ==
  LET q1 == [q EXCEPT !.prev[q.next[n]] = q.prev[n]]
  IN [q1 EXCEPT !.next[q1.prev[n]] = q1.next[n]]

list_empty(q, h) == q.next[h] = h

\* Mutant: the last entry of the list is not linked to the new ones.
AppendNotSewn(q, to, from) ==
  LET ft == q.prev[from]
      q1 == [q EXCEPT !.prev[to] = ft]
      q2 == [q1 EXCEPT !.next[ft] = to]
  IN list_head_init(q2, from)

\* Sews the whole list in behind the last entry, then removes its head.
list_append_list(q, to, from) ==
  LET ft == q.prev[from]
      tt == q.prev[to]
      q1 == [q EXCEPT !.prev[to] = ft]
      q2 == [q1 EXCEPT !.next[ft] = to]
      q3 == [q2 EXCEPT !.next[tt] = from]
      q4 == [q3 EXCEPT !.prev[from] = tt]
  IN list_head_init(list_del(q4, from), from)

list_prepend_list(q, to, from) ==
  LET ft == q.prev[from]
      th == q.next[to]
      q1 == [q EXCEPT !.next[to] = from]
      q2 == [q1 EXCEPT !.prev[from] = to]
      q3 == [q2 EXCEPT !.prev[th] = ft]
      q4 == [q3 EXCEPT !.next[ft] = th]
  IN list_head_init(list_del(q4, from), from)

-----------------------------------------------------------------------------
Listed == UNION {Range(entries[h]) : h \in Head_}

\* A caller adds an entry that is on no list.
Add(h, n) ==
  /\ n \notin Listed
  /\ \/ p' = list_add(p, h, n) /\ entries' = [entries EXCEPT ![h] = <<n>> \o @]
     \/ p' = list_add_tail(p, h, n) /\ entries' = [entries EXCEPT ![h] = Append(@, n)]

\* A caller takes out an entry, wherever it is on the list.
Del(h, n) ==
  /\ n \in Range(entries[h])
  /\ p' = list_del(p, n)
  /\ entries' = [entries EXCEPT ![h] = SelectSeq(@, LAMBDA m : m # n)]

\* list_pop takes the node behind the head, unless the pointers say that there
\* is none.
list_pop(h) ==
  /\ ~list_empty(p, h)
  /\ p' = list_del(p, p.next[h])
  /\ entries' = [entries EXCEPT ![h] = Tail(@)]

\* Either list may be empty.
Move(to, from) ==
  /\ to # from
  /\ \/ /\ p' = list_append_list(p, to, from)
        /\ entries' = [entries EXCEPT ![to] = @ \o entries[from], ![from] = <<>>]
     \/ /\ p' = list_prepend_list(p, to, from)
        /\ entries' = [entries EXCEPT ![to] = entries[from] \o @, ![from] = <<>>]

Next == \E h \in Head_ :
  \/ \E n \in Elem : Add(h, n) \/ Del(h, n)
  \/ list_pop(h)
  \/ \E from \in Head_ : Move(h, from)

Spec == Init /\ [][Next]_vars

-----------------------------------------------------------------------------
\* Walking the next pointers from a head passes exactly the entries the list
\* should have, in order, and comes back to the head; walking the prev pointers
\* passes them in reverse (what list_check_node looks for); list_empty tells
\* whether there are any.
ListsFaithful ==
  \A h \in Head_ :
    LET walk == <<h>> \o entries[h] \o <<h>>
    IN /\ \A i \in 1 .. Len(walk) - 1 : /\ p.next[walk[i]] = walk[i + 1]
                                        /\ p.prev[walk[i + 1]] = walk[i]
       /\ list_empty(p, h) <=> entries[h] = <<>>
=============================================================================
