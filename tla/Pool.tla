-------------------------------- MODULE Pool --------------------------------
(***************************************************************************)
(* What every allocator of libut promises its callers, whatever it caches  *)
(* or carves inside: an item is handed out only while it is free, only     *)
(* what was handed out comes back, and no item gets lost in between.       *)
(* Running out of memory is a step that changes nothing.  The thread-local *)
(* caches, the slab, the memory pool and the stack pool are each shown to  *)
(* implement this module, with free mapped to what their own structures    *)
(* say is free.                                                            *)
(***************************************************************************)
CONSTANT Item
VARIABLES
  used,         \* the items the callers hold
  free          \* the items an allocation can return

Init == used = {} /\ free = Item

Alloc == \E S \in SUBSET free : used' = used \cup S /\ free' = free \ S

Free == \E S \in SUBSET used : used' = used \ S /\ free' = free \cup S

Next == Alloc \/ Free

Spec == Init /\ [][Next]_<<used, free>>
=============================================================================
