------------------------------ MODULE MCSched ------------------------------
(***************************************************************************)
(* Instances of Sched for TLC.  The rings have one or two slots, so that   *)
(* two or three threads already exercise the overflow list.                *)
(***************************************************************************)
EXTENDS Sched, TLC

CONSTANTS k1, k2, k3, t1, t2, t3

\* For configurations that target every kthread alike.
Symmetry == Permutations(Kthread) \cup Permutations(Thread \ {main})

\* For configurations where only some kthreads are targeted.
UntargetedSymmetry ==
  Permutations(Kthread \ Targets) \cup Permutations(Thread \ {main})
=============================================================================
