--------------------------- MODULE DispatchLayer ---------------------------
(***************************************************************************)
(* What the plugin manager relies on in every layer that calls into        *)
(* plugins (lifecycle events, Source 2 callbacks, factories, convars,      *)
(* KeelHook): a callback of a plugin begins only while the layer is open   *)
(* to it, and when Deactivate has answered OK none is running and none     *)
(* begins until the plugin is activated again.  LifecycleService,          *)
(* FactoryService and KeelHook implement this module.                      *)
(***************************************************************************)
EXTENDS Naturals

CONSTANTS
  Plugins,
  NoPlugin,
  Threads,
  MaxDepth   \* bound: nesting of callbacks on a thread

VARIABLES
  open,     \* plugins a callback may begin for
  inside,   \* the plugin whose callback runs at each depth of each thread
  stopped   \* plugins whose Deactivate answered OK

layer == <<open, inside, stopped>>

LayerTypeOK ==
  /\ open \in SUBSET Plugins
  /\ inside \in [Threads -> [1..MaxDepth -> Plugins \cup {NoPlugin}]]
  /\ stopped \in SUBSET Plugins

Init ==
  /\ open = {}
  /\ inside = [t \in Threads |-> [d \in 1..MaxDepth |-> NoPlugin]]
  /\ stopped = {}

Runs(p) == \E t \in Threads, d \in 1..MaxDepth : inside[t][d] = p

\* A registration of p is enabled.
Open(p) ==
  /\ p \notin stopped
  /\ open' = open \cup {p}
  /\ UNCHANGED <<inside, stopped>>

\* The last enabled registration of some plugins is disabled.
Shut(S) ==
  /\ open' = open \ S
  /\ UNCHANGED <<inside, stopped>>

\* Deactivate of a plugin, or Shutdown of the layer, answers OK.
Quiesce(S) ==
  /\ \A p \in S : p \notin open /\ ~Runs(p)
  /\ stopped' = stopped \cup S
  /\ UNCHANGED <<open, inside>>

\* The plugin is about to be activated again.
Restart(p) ==
  /\ stopped' = stopped \ {p}
  /\ UNCHANGED <<open, inside>>

Enter(t, d, p) ==
  /\ p \in open /\ inside[t][d] = NoPlugin
  /\ inside' = [inside EXCEPT ![t][d] = p]
  /\ UNCHANGED <<open, stopped>>

Leave(t, d) ==
  /\ inside' = [inside EXCEPT ![t][d] = NoPlugin]
  /\ UNCHANGED <<open, stopped>>

Next ==
  \/ \E p \in Plugins : Open(p) \/ Restart(p)
  \/ \E S \in SUBSET Plugins : Shut(S) \/ Quiesce(S)
  \/ \E t \in Threads, d \in 1..MaxDepth :
        Leave(t, d) \/ \E p \in Plugins : Enter(t, d, p)

Spec == Init /\ [][Next]_layer

\* A stopped plugin is not called, whatever the other threads were doing when
\* it was deactivated.
StoppedIsSilent == \A p \in stopped : p \notin open /\ ~Runs(p)
=============================================================================
