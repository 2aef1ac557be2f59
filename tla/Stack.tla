------------------------------- MODULE Stack --------------------------------
(***************************************************************************)
(* The backend of the stack cache (runtime/stack.c): an array of stacks    *)
(* that failed batches gave back, and mmap for the rest.  The array is     *)
(* popped under stack_lock and the missing stacks are mapped one by one    *)
(* outside of it, so that several kthreads can be half-way at once.  The   *)
(* stack cache is never reclaimed, so a magazine comes back only from a    *)
(* batch that failed.                                                      *)
(***************************************************************************)
EXTENDS Naturals, Sequences, FiniteSets, SequencesExt

CONSTANTS
  Kthread,
  Stacks,       \* the mappings the kernel can give
  MagSize       \* TCACHE_DEFAULT_MAG_SIZE

VARIABLES
  free_stacks,  \* the first free_stack_count entries of the array
  items,        \* items[k]: what the batch of kthread k has so far
  creating,     \* the kthreads past the array and still short of a batch
  held          \* the stacks the caches have

vars == <<free_stacks, items, creating, held>>

Init ==
  /\ free_stacks = <<>>
  /\ items = [k \in Kthread |-> <<>>]
  /\ creating = {}
  /\ held = {}

Mapped == held \cup Range(free_stacks) \cup UNION {Range(items[k]) : k \in Kthread}

\* The number of stacks a batch finds in the array, popped from its end.
Popped == IF Len(free_stacks) < MagSize THEN Len(free_stacks) ELSE MagSize

Reused == Reverse(SubSeq(free_stacks, Len(free_stacks) - Popped + 1, Len(free_stacks)))

\* Mutant: skips the array, so that it only grows.
AllocMapsAll(k) ==
  /\ k \notin creating
  /\ creating' = creating \cup {k}
  /\ UNCHANGED <<items, held, free_stacks>>

\* Under stack_lock: pop what is there; a complete batch is done.
stack_tcache_alloc(k) ==
  /\ k \notin creating
  /\ free_stacks' = SubSeq(free_stacks, 1, Len(free_stacks) - Popped)
  /\ IF Popped = MagSize
     THEN held' = held \cup Range(Reused) /\ UNCHANGED <<items, creating>>
     ELSE /\ items' = [items EXCEPT ![k] = Reused]
          /\ creating' = creating \cup {k}
          /\ UNCHANGED held

\* mmap gives an address no mapping has; the last one completes the batch.
stack_create(k) ==
  /\ k \in creating
  /\ \E s \in Stacks \ Mapped :
       IF Len(items[k]) + 1 = MagSize
       THEN /\ held' = held \cup Range(items[k]) \cup {s}
            /\ items' = [items EXCEPT ![k] = <<>>]
            /\ creating' = creating \ {k}
       ELSE /\ items' = [items EXCEPT ![k] = Append(@, s)]
            /\ UNCHANGED <<held, creating>>
  /\ UNCHANGED free_stacks

\* stack_create fails, and the batch goes to the array under stack_lock.
stack_tcache_free(k) ==
  /\ k \in creating
  /\ free_stacks' = free_stacks \o items[k]
  /\ items' = [items EXCEPT ![k] = <<>>]
  /\ creating' = creating \ {k}
  /\ UNCHANGED held

Next == \E k \in Kthread :
  stack_tcache_alloc(k) \/ stack_create(k) \/ stack_tcache_free(k)

Spec == Init /\ [][Next]_vars

-----------------------------------------------------------------------------
\* stack_tcache_free writes to free_stacks before it checks free_stack_count,
\* and its BUG_ON allows a batch more than the array has: what keeps the write
\* inside is that failing batches reuse the array first, so that it never has
\* more than all but one stack of a batch for every kthread.  That is 256 * 7
\* (NCPU, TCACHE_DEFAULT_MAG_SIZE - 1) of the 100000 entries the array has.
ArrayBounded == Len(free_stacks) <= Cardinality(Kthread) * (MagSize - 1)

\* The backend implements the abstract pool: no stack is given to two caches,
\* and none that a cache has is in the array or in a batch.
P == INSTANCE Pool WITH Item <- Stacks, used <- held,
       free <- (Stacks \ Mapped) \cup Range(free_stacks)
                 \cup UNION {Range(items[k]) : k \in Kthread}
ImplementsPool == P!Spec
=============================================================================
