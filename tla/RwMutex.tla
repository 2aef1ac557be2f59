------------------------------ MODULE RwMutex ------------------------------
(***************************************************************************)
(* rwmutex_t of runtime/sync.c.  Each section under waiter_lock is one     *)
(* step; rwmutex_unlock makes the threads it popped ready afterwards, one  *)
(* by one, and count already includes them then.                           *)
(***************************************************************************)
EXTENDS Integers, Sequences, FiniteSets, Functions

CONSTANT Thread   \* the uthreads that share the rwmutex

VARIABLES
  count,               \* rwmutex_t.count: the readers, or -1 for a writer
  read_waiter_count,   \* rwmutex_t.read_waiter_count
  read_waiters,        \* rwmutex_t.read_waiters
  write_waiters,       \* rwmutex_t.write_waiters
  pc,                  \* where the uthread is
  tmp                  \* the local of rwmutex_unlock: threads to make ready

vars == <<count, read_waiter_count, read_waiters, write_waiters, pc, tmp>>

\* pc is "out", "read", "write" or
\* "rparked", "wparked": parked in rwmutex_rdlock, rwmutex_wrlock.  "wake": in
\* rwmutex_unlock, waiter_lock released, tmp not empty.

\* rwmutex_init
Init ==
  /\ count = 0
  /\ read_waiter_count = 0
  /\ read_waiters = << >>
  /\ write_waiters = << >>
  /\ pc = [t \in Thread |-> "out"]
  /\ tmp = [t \in Thread |-> << >>]

\* rwmutex_rdlock or rwmutex_try_rdlock that succeeds at once.  A waiting
\* writer does not hold new readers back.
RdLock(t) ==
  /\ pc[t] = "out"
  /\ count >= 0
  /\ count' = count + 1
  /\ pc' = [pc EXCEPT ![t] = "read"]
  /\ UNCHANGED <<read_waiter_count, read_waiters, write_waiters, tmp>>

\* rwmutex_rdlock, up to the park.
RdLockWait(t) ==
  /\ pc[t] = "out"
  /\ count < 0
  /\ read_waiter_count' = read_waiter_count + 1
  /\ read_waiters' = Append(read_waiters, t)
  /\ pc' = [pc EXCEPT ![t] = "rparked"]
  /\ UNCHANGED <<count, write_waiters, tmp>>

\* rwmutex_wrlock or rwmutex_try_wrlock that succeeds at once.
WrLock(t) ==
  /\ pc[t] = "out"
  /\ count = 0
  /\ count' = -1
  /\ pc' = [pc EXCEPT ![t] = "write"]
  /\ UNCHANGED <<read_waiter_count, read_waiters, write_waiters, tmp>>

\* rwmutex_wrlock, up to the park.
WrLockWait(t) ==
  /\ pc[t] = "out"
  /\ count # 0
  /\ write_waiters' = Append(write_waiters, t)
  /\ pc' = [pc EXCEPT ![t] = "wparked"]
  /\ UNCHANGED <<count, read_waiter_count, read_waiters, tmp>>

\* rwmutex_unlock: the count after the caller has left.
Left == IF count < 0 THEN 0 ELSE count - 1

\* Mutant: the readers are woken but read_waiter_count is not reset.
UnlockToReadersNoReset(t) ==
  /\ pc[t] \in {"read", "write"}
  /\ Left = 0 /\ read_waiter_count > 0
  /\ count' = read_waiter_count
  /\ tmp' = [tmp EXCEPT ![t] = read_waiters]
  /\ read_waiters' = << >>
  /\ pc' = [pc EXCEPT ![t] = "wake"]
  /\ UNCHANGED <<read_waiter_count, write_waiters>>

\* rwmutex_unlock of the last holder: all parked readers get the lock.
UnlockToReaders(t) ==
  /\ pc[t] \in {"read", "write"}
  /\ Left = 0 /\ read_waiter_count > 0
  /\ count' = read_waiter_count
  /\ read_waiter_count' = 0
  /\ tmp' = [tmp EXCEPT ![t] = read_waiters]
  /\ read_waiters' = << >>
  /\ pc' = [pc EXCEPT ![t] = "wake"]
  /\ UNCHANGED write_waiters

\* Mutant: a writer is woken while other readers remain.
UnlockToWriterEarly(t) ==
  /\ pc[t] \in {"read", "write"}
  /\ read_waiter_count = 0 /\ write_waiters # << >>
  /\ count' = -1
  /\ tmp' = [tmp EXCEPT ![t] = <<Head(write_waiters)>>]
  /\ write_waiters' = Tail(write_waiters)
  /\ pc' = [pc EXCEPT ![t] = "wake"]
  /\ UNCHANGED <<read_waiter_count, read_waiters>>

\* rwmutex_unlock of the last holder: no reader waits, a writer gets the lock.
UnlockToWriter(t) ==
  /\ pc[t] \in {"read", "write"}
  /\ Left = 0 /\ read_waiter_count = 0 /\ write_waiters # << >>
  /\ count' = -1
  /\ tmp' = [tmp EXCEPT ![t] = <<Head(write_waiters)>>]
  /\ write_waiters' = Tail(write_waiters)
  /\ pc' = [pc EXCEPT ![t] = "wake"]
  /\ UNCHANGED <<read_waiter_count, read_waiters>>

\* rwmutex_unlock that wakes nobody.
UnlockOnly(t) ==
  /\ pc[t] \in {"read", "write"}
  /\ Left > 0 \/ (read_waiter_count = 0 /\ write_waiters = << >>)
  /\ count' = Left
  /\ pc' = [pc EXCEPT ![t] = "out"]
  /\ UNCHANGED <<read_waiter_count, read_waiters, write_waiters, tmp>>

\* Mutant: only the first thread of tmp is made ready.
ReadyFirst(t) ==
  /\ pc[t] = "wake"
  /\ LET th == Head(tmp[t]) IN
       pc' = [pc EXCEPT ![th] = IF @ = "rparked" THEN "read" ELSE "write", ![t] = "out"]
  /\ tmp' = [tmp EXCEPT ![t] = << >>]
  /\ UNCHANGED <<count, read_waiter_count, read_waiters, write_waiters>>

\* rwmutex_unlock, one thread_ready: the thread returns from its lock call.
Ready(t) ==
  /\ pc[t] = "wake"
  /\ LET th == Head(tmp[t]) IN
       pc' = [pc EXCEPT ![th] = IF @ = "rparked" THEN "read" ELSE "write",
                        ![t] = IF Len(tmp[t]) = 1 THEN "out" ELSE "wake"]
  /\ tmp' = [tmp EXCEPT ![t] = Tail(@)]
  /\ UNCHANGED <<count, read_waiter_count, read_waiters, write_waiters>>

Unlock(t) == UnlockToReaders(t) \/ UnlockToWriter(t) \/ UnlockOnly(t)

\* What a thread is bound to do: a holder releases the lock sooner or later, and
\* rwmutex_unlock runs to its end.
Continue(t) == Unlock(t) \/ Ready(t)

Next ==
  \E t \in Thread :
    \/ RdLock(t) \/ RdLockWait(t)
    \/ WrLock(t) \/ WrLockWait(t)
    \/ Continue(t)

Spec == Init /\ [][Next]_vars

-----------------------------------------------------------------------------
\* The threads rwmutex_unlock has granted the lock but not made ready yet.
Granted == UNION {Range(tmp[t]) : t \in Thread}

Readers == {t \in Thread : pc[t] = "read" \/ (pc[t] = "rparked" /\ t \in Granted)}
Writers == {t \in Thread : pc[t] = "write" \/ (pc[t] = "wparked" /\ t \in Granted)}

\* A writer is alone: the lock it was granted excludes every other holder.
WriterExcludes ==
  \A t, u \in Thread : pc[t] = "write" /\ pc[u] \in {"read", "write"} => t = u

\* count is the number of readers or -1 for the one writer, with the threads
\* that rwmutex_unlock granted the lock in advance; otherwise some unlock would
\* free the lock too early, or never ("assert(m->count != 0)").
CountIsHolders ==
  count = IF Writers # {} THEN -1 ELSE Cardinality(Readers)

\* A parked reader gets the lock, however many writers queue: every unlock of a
\* writer lets all parked readers in first.
ReaderAcquires == \A t \in Thread : pc[t] = "rparked" ~> pc[t] = "read"
=============================================================================
