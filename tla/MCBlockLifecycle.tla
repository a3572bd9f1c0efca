-------------------------- MODULE MCBlockLifecycle --------------------------
(***************************************************************************)
(* BlockLifecycle on small instances: two threads, two or three blocks and *)
(* fewer pages than blocks, so that every fault competes for a page.       *)
(***************************************************************************)
EXTENDS BlockLifecycle, TLC

(* Threads are alike, and so are blocks: nothing compares them.  Only the  *)
(* runs without a liveness property use this.                              *)
Symmetry == Permutations(Threads) \cup Permutations(Blocks)
=============================================================================
