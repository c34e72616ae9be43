-------------------------- MODULE MCPluginManager --------------------------
(***************************************************************************)
(* Instances of PluginManager for TLC: the manifests, the threads and the  *)
(* operation slots of each run.                                            *)
(***************************************************************************)
EXTENDS PluginManager, TLC

CONSTANTS core, addon, extra, game, worker, console, deferred, caller, other

\* addon requires core.
ChainDeps == (core :> {}) @@ (addon :> {core})
\* addon and extra require each other; core stands alone.
CycleDeps == (core :> {}) @@ (addon :> {extra, core}) @@ (extra :> {addon})
NoDeps == core :> {}

\* Console commands and deferred ones run on the game thread; plugin API
\* calls on a worker thread or on the game thread too.
OneThread == [a \in Actors |-> game]
TwoThreads == [a \in Actors |-> IF a \in {caller, other} THEN worker ELSE game]

Kinds == [a \in Actors |-> CASE a = console -> "console"
                             [] a = deferred -> "deferred"
                             [] OTHER -> "api"]
=============================================================================
