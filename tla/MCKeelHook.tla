----------------------------- MODULE MCKeelHook -----------------------------
(***************************************************************************)
(* Instances of KeelHook for TLC.                                          *)
(***************************************************************************)
EXTENDS KeelHook, TLC

CONSTANTS core, addon, game, worker, damage, spawn

\* spawn is a function of the image of addon, damage one of the game.
Images == [f \in Functions |-> IF f = spawn THEN addon ELSE NoPlugin]


\* Threads are alike, for all of them run hooked functions.
Alike == Permutations(Threads)
=============================================================================
