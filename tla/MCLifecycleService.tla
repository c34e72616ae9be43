------------------------- MODULE MCLifecycleService -------------------------
(***************************************************************************)
(* Instances of LifecycleService for TLC.                                  *)
(***************************************************************************)
EXTENDS LifecycleService, TLC

CONSTANTS core, addon, game, worker

Interchangeable == Permutations({core, addon})
=============================================================================
