----------------------------- MODULE ThreadJoin -----------------------------
(***************************************************************************)
(* rt::Thread of bindings/cc/thread.cc: a joinable thread and the thread   *)
(* that owns its rt::Thread object.  The join_data they share lives on the *)
(* stack of the joinable thread, which goes away with its exit; each side  *)
(* reads waiter_ after it has released lock_.                              *)
(***************************************************************************)
CONSTANT Pair   \* independent pairs of a child and its owner

VARIABLES
  child,     \* where the child is
  parent,    \* where the owner of the rt::Thread is
  done_,     \* join_data.done_
  waiter_    \* join_data.waiter_

vars == <<child, parent, done_, waiter_>>

\* child is
\* "func": runs func_.  "parked": parked in the trampoline.  "unlocked": lock_
\* released, waiter_ not read yet.  "return": about to call thread_exit.
\* "exited": stack and join_data are freed.

\* parent is
\* "own": may call Join or Detach.  "parked": parked in Join.  "joining",
\* "detaching": lock_ released, waiter_ not read yet.  "joined", "detached":
\* returned.

\* Thread::Thread and the constructor of join_data
Init ==
  /\ child = [p \in Pair |-> "func"]
  /\ parent = [p \in Pair |-> "own"]
  /\ done_ = [p \in Pair |-> FALSE]
  /\ waiter_ = [p \in Pair |-> "null"]

\* Mutant: the trampoline does not wait for the owner.
FuncReturnsNoWait(p) ==
  /\ child[p] = "func"
  /\ IF done_[p]
       THEN child' = [child EXCEPT ![p] = "unlocked"] /\ UNCHANGED <<done_, waiter_>>
       ELSE /\ done_' = [done_ EXCEPT ![p] = TRUE]
            /\ waiter_' = [waiter_ EXCEPT ![p] = "child"]
            /\ child' = [child EXCEPT ![p] = "return"]
  /\ UNCHANGED parent

\* ThreadTrampolineWithJoin: func_ returns, the section under lock_.
FuncReturns(p) ==
  /\ child[p] = "func"
  /\ IF done_[p]
       THEN child' = [child EXCEPT ![p] = "unlocked"] /\ UNCHANGED <<done_, waiter_>>
       ELSE /\ done_' = [done_ EXCEPT ![p] = TRUE]
            /\ waiter_' = [waiter_ EXCEPT ![p] = "child"]
            /\ child' = [child EXCEPT ![p] = "parked"]
  /\ UNCHANGED parent

\* ThreadTrampolineWithJoin: thread_ready of a joining owner.
ChildWakes(p) ==
  /\ child[p] = "unlocked"
  /\ child' = [child EXCEPT ![p] = "return"]
  /\ parent' = [parent EXCEPT ![p] = IF waiter_[p] = "parent" THEN "joined" ELSE @]
  /\ UNCHANGED <<done_, waiter_>>

\* The trampoline returns into thread_exit, which frees the stack.
ThreadExit(p) ==
  /\ child[p] = "return"
  /\ child' = [child EXCEPT ![p] = "exited"]
  /\ UNCHANGED <<parent, done_, waiter_>>

\* Thread::Join, the section under lock_.
Join(p) ==
  /\ parent[p] = "own"
  /\ IF done_[p]
       THEN parent' = [parent EXCEPT ![p] = "joining"] /\ UNCHANGED <<done_, waiter_>>
       ELSE /\ done_' = [done_ EXCEPT ![p] = TRUE]
            /\ waiter_' = [waiter_ EXCEPT ![p] = "parent"]
            /\ parent' = [parent EXCEPT ![p] = "parked"]
  /\ UNCHANGED child

\* Thread::Detach, the section under lock_.
Detach(p) ==
  /\ parent[p] = "own"
  /\ IF done_[p]
       THEN parent' = [parent EXCEPT ![p] = "detaching"] /\ UNCHANGED <<done_, waiter_>>
       ELSE /\ done_' = [done_ EXCEPT ![p] = TRUE]
            /\ waiter_' = [waiter_ EXCEPT ![p] = "null"]
            /\ parent' = [parent EXCEPT ![p] = "detached"]
  /\ UNCHANGED child

\* Thread::Join and Thread::Detach: thread_ready of the parked child.
ParentWakes(p) ==
  /\ parent[p] \in {"joining", "detaching"}
  /\ child' = [child EXCEPT ![p] = IF waiter_[p] = "child" THEN "return" ELSE @]
  /\ parent' = [parent EXCEPT ![p] = IF @ = "joining" THEN "joined" ELSE "detached"]
  /\ UNCHANGED <<done_, waiter_>>

\* The child: func_ returns and the trampoline runs to its end.
Child(p) == FuncReturns(p) \/ ChildWakes(p) \/ ThreadExit(p)

\* The owner joins or detaches, the destructor insists on it.
Parent(p) == Join(p) \/ Detach(p) \/ ParentWakes(p)

Settled(p) == child[p] = "exited" /\ parent[p] \in {"joined", "detached"}

Finished == (\A p \in Pair : Settled(p)) /\ UNCHANGED vars

Next == (\E p \in Pair : Child(p) \/ Parent(p)) \/ Finished

Spec == Init /\ [][Next]_vars

-----------------------------------------------------------------------------
\* The owner reads join_data only while the stack it lives on exists: an owner
\* that has not called Join or Detach can still do so, and one that found done_
\* set finds the parked child in waiter_ ("assert(join_data_->waiter_ !=
\* nullptr)"), never a stale value or itself.
JoinDataAlive ==
  \A p \in Pair :
    /\ parent[p] = "own" => child[p] \notin {"return", "exited"}
    /\ parent[p] \in {"joining", "detaching"} =>
         waiter_[p] = "child" /\ child[p] = "parked"

\* Join returns only after func_ has returned.
JoinAfterFunc == \A p \in Pair : parent[p] = "joined" => child[p] # "func"

\* Exactly one side waits for the other, and that one is woken: the child exits
\* and the owner's call returns.
BothSettle == \A p \in Pair : <>Settled(p)
=============================================================================
