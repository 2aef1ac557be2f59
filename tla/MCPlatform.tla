----------------------------- MODULE MCPlatform -----------------------------
(***************************************************************************)
(* What the runtime stands on, side by side for TLC: the memory allocators *)
(* of base/ (tcache, mempool, slab, page, the cache of thread stacks), the *)
(* intrusive lists, the runqueue of a kthread, which is made of a ring and *)
(* such a list, and the two threads of hwallocd.                           *)
(* A behaviour exercises the one part that its initial state picks, with   *)
(* every interleaving of the threads that use it; the others stay as they  *)
(* were initialised.  The thread-local cache and the control thread are    *)
(* this module's own Tcache and Control.                                   *)
(***************************************************************************)
EXTENDS Tcache, Control, TLC

CONSTANTS
  t1, t2, t3, i1, i2, i3, i4, i5, i6, i7, A, B, NULL

VARIABLES
  part,       \* the part in use
  mp_free_items, mp_allocated, mp_undo, mp_held,
  st_free_stacks, st_items, st_creating, st_held,
  pg_idx, pg_pages, pg_in_use, pg_ref, pg_pc, pg_pg,
  sl_spare, sl_cur_pg, sl_pg_off, sl_full_list, sl_partial_list, sl_item_count,
  sl_chain, sl_lock, sl_want, sl_items, sl_pc, sl_put, sl_held,
  ls_p, ls_entries,
  rq, rq_head, rq_tail, rq_overflow, rq_opc, rq_pushed, rq_lock, rq_avail, rq_loot,
  rq_outside,
  co_dp, co_kt, co_needed, co_txq, co_parks

\* Batches of two from a buffer of five items.
MP == INSTANCE Mempool WITH
  Thread <- {t1, t2}, NrPages <- 1, PerPage <- 5, MagSize <- 2,
  free_items <- mp_free_items, allocated <- mp_allocated, undo <- mp_undo,
  held <- mp_held

\* Three kthreads, whose failed batches leave a stack each.
ST == INSTANCE Stack WITH
  Kthread <- {t1, t2, t3}, Stacks <- {i1, i2, i3, i4, i5, i6, i7},
  MagSize <- 2,
  free_stacks <- st_free_stacks, items <- st_items, creating <- st_creating,
  held <- st_held

PG == INSTANCE Page WITH
  Thread <- {t1, t2}, Ents <- 4, MaxRefs <- 2,
  idx <- pg_idx, pages <- pg_pages, in_use <- pg_in_use, ref <- pg_ref,
  pc <- pg_pc, pg <- pg_pg

\* Pages of four items, half of which make a page worth allocating from.
SL == INSTANCE Slab WITH
  Thread <- {t1, t2}, Page <- {i1, i2}, NrElems <- 4, Thresh <- 2, Batch <- {1, 3},
  spare <- sl_spare, cur_pg <- sl_cur_pg, pg_off <- sl_pg_off,
  full_list <- sl_full_list, partial_list <- sl_partial_list,
  item_count <- sl_item_count, chain <- sl_chain, lock <- sl_lock,
  want <- sl_want, items <- sl_items, pc <- sl_pc, put <- sl_put, held <- sl_held

LS == INSTANCE List WITH
  Head_ <- {t1, t2}, Elem <- {i1, i2, i3, i4},
  p <- ls_p, entries <- ls_entries

\* A ring of three slots, of which a thief takes two, and counters that wrap
\* after two passes; the fourth thread overflows.
RQ == INSTANCE RunQueue WITH
  Thread <- {i1, i2, i3, i4}, RqSize <- 3, Wrap <- 6, JoinWrapped <- FALSE,
  None <- NULL,
  opc <- rq_opc, pushed <- rq_pushed, lock <- rq_lock, avail <- rq_avail,
  loot <- rq_loot, outside <- rq_outside

\* A process with two kthreads and one with a single kthread on two cores.
CO == INSTANCE Cores WITH
  Proc <- {A, B}, ThreadCount <- A :> 2 @@ B :> 1, NCores <- 2, Guaranteed <- 1,
  ExitRaces <- FALSE, RxqSize <- 1, MaxParks <- 2,
  dp <- co_dp, kt <- co_kt, needed <- co_needed, txq <- co_txq,
  parks <- co_parks

ASSUME PlatformAssumption ==
  SL!SlabConstants /\ RQ!RunQueueConstants /\ CO!CoresConstants

mpvars == <<mp_free_items, mp_allocated, mp_undo, mp_held>>
stvars == <<st_free_stacks, st_items, st_creating, st_held>>
pgvars == <<pg_idx, pg_pages, pg_in_use, pg_ref, pg_pc, pg_pg>>
slvars == <<sl_spare, sl_cur_pg, sl_pg_off, sl_full_list, sl_partial_list,
            sl_item_count, sl_chain, sl_lock, sl_want, sl_items, sl_pc, sl_put,
            sl_held>>
lsvars == <<ls_p, ls_entries>>
rqvars == <<rq, rq_head, rq_tail, rq_overflow, rq_opc, rq_pushed, rq_lock,
            rq_avail, rq_loot, rq_outside>>
covars == <<co_dp, co_kt, co_needed, co_txq, co_parks>>
memvars == <<mpvars, stvars, pgvars, slvars, lsvars, rqvars>>
allvars == <<part, vars, memvars, covars, ctvars>>

PlatformInit ==
  /\ part \in {"tcache", "mempool", "stack", "page", "slab", "list", "runqueue",
              "cores", "control"}
  /\ Init /\ MP!Init /\ ST!Init /\ PG!Init /\ SL!Init /\ LS!Init /\ RQ!Init
  /\ CO!Init /\ ControlInit

\* A step of the part in use leaves the others alone.
PlatformNext ==
  \/ /\ part = "tcache" /\ Next
     /\ UNCHANGED <<part, memvars, covars, ctvars>>
  \/ /\ part = "mempool" /\ MP!Next
     /\ UNCHANGED <<part, vars, stvars, pgvars, slvars, lsvars, rqvars, covars, ctvars>>
  \/ /\ part = "stack" /\ ST!Next
     /\ UNCHANGED <<part, vars, mpvars, pgvars, slvars, lsvars, rqvars, covars, ctvars>>
  \/ /\ part = "page" /\ PG!Next
     /\ UNCHANGED <<part, vars, mpvars, stvars, slvars, lsvars, rqvars, covars, ctvars>>
  \/ /\ part = "slab" /\ SL!Next
     /\ UNCHANGED <<part, vars, mpvars, stvars, pgvars, lsvars, rqvars, covars, ctvars>>
  \/ /\ part = "list" /\ LS!Next
     /\ UNCHANGED <<part, vars, mpvars, stvars, pgvars, slvars, rqvars, covars, ctvars>>
  \/ /\ part = "runqueue" /\ RQ!Next
     /\ UNCHANGED <<part, vars, mpvars, stvars, pgvars, slvars, lsvars, covars, ctvars>>
  \/ /\ part = "cores" /\ CO!Next
     /\ UNCHANGED <<part, vars, memvars, ctvars>>
  \/ /\ part = "control" /\ ControlNext
     /\ UNCHANGED <<part, vars, memvars, covars>>

PlatformSpec == PlatformInit /\ [][PlatformNext]_allvars

-----------------------------------------------------------------------------
\* No item is lost and every allocator's own account is exact: mags_allocated
\* of a tcache, the array of a mempool from allocated on, the count and the
\* chain of every slab page, the free list and the flags of the large pages.
ItemsAccounted ==
  /\ part = "tcache" => MagsExact
  /\ part = "mempool" => MP!FreeItemsExact
  /\ part = "slab" => SL!ItemsExact
  /\ part = "page" => PG!PagesExact

\* slab: every page is in the one place that goes with its item_count.
PagesPlaced == part = "slab" => SL!PagesPlaced

\* stack: failed batches never fill free_stacks beyond a stack less than a batch
\* for every kthread, so that stack_tcache_free stays inside the array.
ArrayBounded == part = "stack" => ST!ArrayBounded

\* The tcache, the mempool, the stack cache and the slab implement the abstract
\* pool: what they hand out was free by their own structures, nobody has it, and
\* nothing is lost.  (Pages have reference counts: PG!PagesExact is about those.)
\* The runqueue, with thread_ready's push without the lock, implements the queue
\* on which the scheduler's operations are one step each.
AllImplement ==
  /\ ImplementsPool /\ MP!ImplementsPool /\ ST!ImplementsPool /\ SL!ImplementsPool
  /\ RQ!ImplementsWorkQueue

\* list.h: the pointers of every list are a ring through its entries, in order.
\* Runqueue: every thread is in one place only, thread_ready writes no slot in
\* use, and steal_work copies the oldest threads.  (RQ!JoinRewakes is about the
\* joins of a ring of which only rq_head has wrapped, which are left out here.)
QueuesFaithful ==
  /\ part = "list" => LS!ListsFaithful
  /\ part = "runqueue" => RQ!NoThreadLost

\* hwallocd: no handler runs into a BUG or BUG_ON of cores.c, where no removed
\* process waits for a core (CO!NoRace).
NoBug == part = "cores" => CO!NoBug

\* hwallocd: a busy core has one owner, and the tables agree on who it is.
CoreOwnership == part = "cores" => CO!CoreOwnership

\* hwallocd: bursting and inflight_preempts say what they count.
CountersExact == part = "cores" => CO!CountersExact

\* hwallocd: the references of a process are the places that point to it.
RefsExact == part = "cores" => CO!RefsExact

\* hwallocd: a kthread is woken once per core, with the core it was given.
WakeExact == part = "cores" => CO!WakeExact
=============================================================================
