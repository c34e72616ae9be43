----------------------------- MODULE MCServices -----------------------------
(***************************************************************************)
(* The components that are small enough to be checked side by side: Init   *)
(* chooses one of them, and only that one moves.  They therefore share     *)
(* their variables; factory subscriptions have their own, for they are     *)
(* compared with the contract of a dispatch layer in every run.            *)
(***************************************************************************)
EXTENDS Integers, FiniteSets, Sequences, TLC

CONSTANTS
  Plugins, NoPlugin, Threads, Game, NoThread, Names, Owners, Workers

VARIABLES
  part,   \* the component that moves
  facHost, facSubscription, facPinned, facQueries, facStopping, facQuiet,
  facFrames,   \* factory subscriptions
  s1, s2, s3, s4, s5, s6, s7, s8, s9, s10, s11   \* any other component

facVars == <<facHost, facSubscription, facPinned, facQueries, facStopping,
             facQuiet, facFrames>>

Factory == INSTANCE FactoryService WITH
  Threads <- Workers, MaxSubscriptions <- 2, MaxQueries <- 1, MaxDepth <- 2,
  host <- facHost, subscription <- facSubscription, pinned <- facPinned,
  queries <- facQueries, stopping <- facStopping, quiet <- facQuiet,
  frames <- facFrames

Host == INSTANCE HostLifecycle WITH
  Threads <- {Game}, Layers <- 2, MaxDepth <- 4, captured <- s1,
  observed <- s2, boot <- s3, state <- s4, accepting <- s5, open <- s6,
  entries <- s7, lifecycle <- s8, command <- s9, plugin <- s10, frames <- s11

HostThreads == INSTANCE HostLifecycle WITH
  Layers <- 2, MaxDepth <- 2, captured <- s1, observed <- s2, boot <- s3,
  state <- s4, accepting <- s5, open <- s6, entries <- s7, lifecycle <- s8,
  command <- s9, plugin <- s10, frames <- s11

ConVar == INSTANCE ConVars WITH
  Plugins <- Owners, Threads <- {Game}, MaxHandles <- 2, MaxDepth <- 2,
  host <- s1, record <- s2, definition <- s3, stopping <- s4, quiet <- s5,
  frames <- s6

ConVarThreads == INSTANCE ConVars WITH
  MaxHandles <- 2, MaxDepth <- 1, host <- s1, record <- s2, definition <- s3,
  stopping <- s4, quiet <- s5, frames <- s6

Event == INSTANCE EventServices WITH
  Plugins <- Owners, Threads <- {Game}, MaxSubscriptions <- 2, MaxDepth <- 2,
  RecursionLimit <- 1, service <- s1, host <- s2, sub <- s3, listened <- s4,
  stopping <- s5, quiet <- s6, given <- s7, frames <- s8

EventThreads == INSTANCE EventServices WITH
  MaxSubscriptions <- 2, MaxDepth <- 2, RecursionLimit <- 1, service <- s1,
  host <- s2, sub <- s3, listened <- s4, stopping <- s5, quiet <- s6,
  given <- s7, frames <- s8

Construction == INSTANCE Constructions WITH
  Plugins <- Owners, MaxRecords <- 2, MaxPending <- 2, MaxDepth <- 2,
  accepted <- s1, ready <- s2, record <- s3, engine <- s4, frames <- s5

Entity == INSTANCE Entities WITH
  MaxHandles <- 1, MaxMaps <- 2, MaxSerial <- 1, Misses <- FALSE,
  MaxDepth <- 1, engine <- s1, hooked <- s2, seen <- s3, epoch <- s4,
  handle <- s5, frames <- s6, told <- s7

EntityMissed == INSTANCE Entities WITH
  MaxHandles <- 1, MaxMaps <- 1, MaxSerial <- 1, Misses <- TRUE,
  MaxDepth <- 1, engine <- s1, hooked <- s2, seen <- s3, epoch <- s4,
  handle <- s5, frames <- s6, told <- s7

Output == INSTANCE Outputs WITH
  MaxSubscriptions <- 2, MaxPending <- 1, OutputDepth <- 2, MaxDepth <- 2,
  MaxEpochs <- 1, host <- s1, sub <- s2, service <- s3, native <- s4,
  epoch <- s5, frames <- s6

OutputMaps == INSTANCE Outputs WITH
  MaxSubscriptions <- 1, MaxPending <- 2, OutputDepth <- 1, MaxDepth <- 3,
  MaxEpochs <- 2, host <- s1, sub <- s2, service <- s3, native <- s4,
  epoch <- s5, frames <- s6

Player == INSTANCE Players WITH
  Slots <- {1}, Users <- {1, 2}, MaxClients <- 2, MaxPawns <- 2, hooks <- s1,
  service <- s2, entry <- s3, next <- s4, context <- s5, client <- s6,
  clients <- s7, pawns <- s8, missed <- s9, given <- s10, inputs <- s11

Adapter == INSTANCE GameAdapter WITH
  Extensions <- {1, 2}, Source2 <- 1..5, LifecycleEvents <- {11, 12},
  Names <- {1, 2}, Managers <- {1, 2}, Commands <- {1, 2}, library <- s1,
  adapter <- s2, capture <- s3, command <- s4, stage <- s5, keelhook <- s6,
  engine <- s7, promised <- s8

Author == INSTANCE Authoring WITH
  Threads <- {Game}, MaxBindings <- 2, MaxDepth <- 2, host <- s1,
  context <- s2, adapter <- s3, binding <- s4, reg <- s5, lock <- s6,
  frames <- s7

AuthorThreads == INSTANCE Authoring WITH
  MaxBindings <- 2, MaxDepth <- 1, host <- s1, context <- s2, adapter <- s3,
  binding <- s4, reg <- s5, lock <- s6, frames <- s7

Hook == INSTANCE HookHandles WITH
  Threads <- {Game}, Slots <- {1, 2}, MaxCallbacks <- 2, MaxDrops <- 1,
  MaxDepth <- 2, open <- s1, host <- s2, states <- s3, targets <- s4,
  target <- s5, callback <- s6, frames <- s7, drops <- s8

HookThreads == INSTANCE HookHandles WITH
  Slots <- {1}, MaxCallbacks <- 2, MaxDrops <- 1, MaxDepth <- 2, open <- s1,
  host <- s2, states <- s3, targets <- s4, target <- s5, callback <- s6,
  frames <- s7, drops <- s8

Hooking == INSTANCE KeelHook WITH
  Callers <- {Game}, Functions <- {"spawn"}, Detours <- {"spawn"},
  ModuleOf <- [f \in {"spawn"} |-> CHOOSE x \in Plugins : TRUE],
  MaxTargets <- 1, MaxCallbacks <- 1, MaxCalls <- 2, MaxDepth <- 2,
  Refusals <- TRUE, Risks <- {}, owner <- s1, quiet <- s2, target <- s3,
  callback <- s4, frame <- s5, depth <- s6, shutdown <- s7

Vtable == INSTANCE Vtables WITH
  Indices <- {1, 2}, Contested <- {}, class <- s1, object <- s2,
  foreign <- s3, shadow <- s4, reg <- s5, address <- s6, closure <- s7,
  enabled <- s8, step <- s9, lost <- s10

VtableContested == INSTANCE Vtables WITH
  Indices <- {1}, Contested <- {1}, class <- s1, object <- s2, foreign <- s3,
  shadow <- s4, reg <- s5, address <- s6, closure <- s7, enabled <- s8,
  step <- s9, lost <- s10

Native == INSTANCE NativeCalls WITH
  Kinds <- {"runtime", "players", "lifecycle", "keelhook", "schema"},
  MaxDepth <- 3, host <- s1, service <- s2, owner <- s3, pointers <- s4,
  worker <- s5, frames <- s6

Value == INSTANCE HookValues WITH
  Callbacks <- 2, MaxDepth <- 1, MaxFailures <- 0, frames <- s1, used <- s2,
  hopeless <- s3, given <- s4

ValueNested == INSTANCE HookValues WITH
  Callbacks <- 1, MaxDepth <- 2, MaxFailures <- 2, frames <- s1, used <- s2,
  hopeless <- s3, given <- s4

-----------------------------------------------------------------------------
\* The variables a component has no use for.
Unused == <<>>

Init ==
  /\ Factory!Init
  /\ \/ /\ part = "factories" /\ s1 = Unused /\ s2 = Unused /\ s3 = Unused
        /\ s4 = Unused /\ s5 = Unused /\ s6 = Unused /\ s7 = Unused
        /\ s8 = Unused /\ s9 = Unused /\ s10 = Unused /\ s11 = Unused
     \/ /\ part = "host" /\ Host!Init
     \/ /\ part = "host, two threads" /\ HostThreads!Init
     \/ /\ part = "convars" /\ ConVar!Init /\ s7 = Unused /\ s8 = Unused
        /\ s9 = Unused /\ s10 = Unused /\ s11 = Unused
     \/ /\ part = "convars, two threads" /\ ConVarThreads!Init /\ s7 = Unused
        /\ s8 = Unused /\ s9 = Unused /\ s10 = Unused /\ s11 = Unused
     \/ /\ part = "events" /\ Event!Init /\ s9 = Unused /\ s10 = Unused
        /\ s11 = Unused
     \/ /\ part = "events, two threads" /\ EventThreads!Init /\ s9 = Unused
        /\ s10 = Unused /\ s11 = Unused
     \/ /\ part = "constructions" /\ Construction!Init /\ s6 = Unused
        /\ s7 = Unused /\ s8 = Unused /\ s9 = Unused /\ s10 = Unused
        /\ s11 = Unused
     \/ /\ part = "entities" /\ Entity!Init /\ s8 = Unused /\ s9 = Unused
        /\ s10 = Unused /\ s11 = Unused
     \/ /\ part = "entities, hooks may fail" /\ EntityMissed!Init
        /\ s8 = Unused /\ s9 = Unused /\ s10 = Unused /\ s11 = Unused
     \/ /\ part = "outputs" /\ Output!Init /\ s7 = Unused /\ s8 = Unused
        /\ s9 = Unused /\ s10 = Unused /\ s11 = Unused
     \/ /\ part = "outputs, two maps" /\ OutputMaps!Init /\ s7 = Unused
        /\ s8 = Unused /\ s9 = Unused /\ s10 = Unused /\ s11 = Unused
     \/ /\ part = "players" /\ Player!Init
     \/ /\ part = "adapter" /\ Adapter!Init /\ s9 = Unused /\ s10 = Unused
        /\ s11 = Unused
     \/ /\ part = "authoring" /\ Author!Init /\ s8 = Unused /\ s9 = Unused
        /\ s10 = Unused /\ s11 = Unused
     \/ /\ part = "authoring, two threads" /\ AuthorThreads!Init
        /\ s8 = Unused /\ s9 = Unused /\ s10 = Unused /\ s11 = Unused
     \/ /\ part = "hooks" /\ Hook!Init /\ s9 = Unused /\ s10 = Unused
        /\ s11 = Unused
     \/ /\ part = "hooks, two threads" /\ HookThreads!Init /\ s9 = Unused
        /\ s10 = Unused /\ s11 = Unused
     \/ /\ part = "keelhook" /\ Hooking!Init /\ s8 = Unused /\ s9 = Unused
        /\ s10 = Unused /\ s11 = Unused
     \/ /\ part = "vtables" /\ Vtable!Init /\ s11 = Unused
     \/ /\ part = "vtables, contested" /\ VtableContested!Init /\ s11 = Unused
     \/ /\ part = "natives" /\ Native!Init /\ s7 = Unused /\ s8 = Unused
        /\ s9 = Unused /\ s10 = Unused /\ s11 = Unused
     \/ /\ part = "values" /\ Value!Init /\ s5 = Unused /\ s6 = Unused
        /\ s7 = Unused /\ s8 = Unused /\ s9 = Unused /\ s10 = Unused
        /\ s11 = Unused
     \/ /\ part = "values, nested" /\ ValueNested!Init /\ s5 = Unused
        /\ s6 = Unused /\ s7 = Unused /\ s8 = Unused /\ s9 = Unused
        /\ s10 = Unused /\ s11 = Unused

Next ==
  \/ /\ part = "factories" /\ Factory!Next
     /\ UNCHANGED <<part, s1, s2, s3, s4, s5, s6, s7, s8, s9, s10, s11>>
  \/ /\ part = "host" /\ Host!Next
     /\ UNCHANGED <<part, facVars>>
  \/ /\ part = "host, two threads" /\ HostThreads!Next
     /\ UNCHANGED <<part, facVars>>
  \/ /\ part = "convars" /\ ConVar!Next
     /\ UNCHANGED <<part, facVars, s7, s8, s9, s10, s11>>
  \/ /\ part = "convars, two threads" /\ ConVarThreads!Next
     /\ UNCHANGED <<part, facVars, s7, s8, s9, s10, s11>>
  \/ /\ part = "events" /\ Event!Next
     /\ UNCHANGED <<part, facVars, s9, s10, s11>>
  \/ /\ part = "events, two threads" /\ EventThreads!Next
     /\ UNCHANGED <<part, facVars, s9, s10, s11>>
  \/ /\ part = "constructions" /\ Construction!Next
     /\ UNCHANGED <<part, facVars, s6, s7, s8, s9, s10, s11>>
  \/ /\ part = "entities" /\ Entity!Next
     /\ UNCHANGED <<part, facVars, s8, s9, s10, s11>>
  \/ /\ part = "entities, hooks may fail" /\ EntityMissed!Next
     /\ UNCHANGED <<part, facVars, s8, s9, s10, s11>>
  \/ /\ part = "outputs" /\ Output!Next
     /\ UNCHANGED <<part, facVars, s7, s8, s9, s10, s11>>
  \/ /\ part = "outputs, two maps" /\ OutputMaps!Next
     /\ UNCHANGED <<part, facVars, s7, s8, s9, s10, s11>>
  \/ /\ part = "players" /\ Player!Next
     /\ UNCHANGED <<part, facVars>>
  \/ /\ part = "adapter" /\ Adapter!Next
     /\ UNCHANGED <<part, facVars, s9, s10, s11>>
  \/ /\ part = "authoring" /\ Author!Next
     /\ UNCHANGED <<part, facVars, s8, s9, s10, s11>>
  \/ /\ part = "authoring, two threads" /\ AuthorThreads!Next
     /\ UNCHANGED <<part, facVars, s8, s9, s10, s11>>
  \/ /\ part = "hooks" /\ Hook!Next
     /\ UNCHANGED <<part, facVars, s9, s10, s11>>
  \/ /\ part = "hooks, two threads" /\ HookThreads!Next
     /\ UNCHANGED <<part, facVars, s9, s10, s11>>
  \/ /\ part = "keelhook" /\ Hooking!Next
     /\ UNCHANGED <<part, facVars, s8, s9, s10, s11>>
  \/ /\ part = "vtables" /\ Vtable!Next
     /\ UNCHANGED <<part, facVars, s11>>
  \/ /\ part = "vtables, contested" /\ VtableContested!Next
     /\ UNCHANGED <<part, facVars, s11>>
  \/ /\ part = "natives" /\ Native!Next
     /\ UNCHANGED <<part, facVars, s7, s8, s9, s10, s11>>
  \/ /\ part = "values" /\ Value!Next
     /\ UNCHANGED <<part, facVars, s5, s6, s7, s8, s9, s10, s11>>
  \/ /\ part = "values, nested" /\ ValueNested!Next
     /\ UNCHANGED <<part, facVars, s5, s6, s7, s8, s9, s10, s11>>

vars == <<part, facVars, s1, s2, s3, s4, s5, s6, s7, s8, s9, s10, s11>>

Spec == Init /\ [][Next]_vars

-----------------------------------------------------------------------------
\* Plugins are alike, and the threads that ask factories.
Symmetry == Permutations(Owners) \cup Permutations(Workers)

\* The part that moves keeps its type: counts stay above zero, calls stay nested within
\* their bounds, and a handle names a record or nothing.
TypeOK ==
  /\ part = "factories" => Factory!TypeOK
  /\ part = "host" => Host!TypeOK
  /\ part = "host, two threads" => HostThreads!TypeOK
  /\ part = "convars" => ConVar!TypeOK
  /\ part = "convars, two threads" => ConVarThreads!TypeOK
  /\ part = "events" => Event!TypeOK
  /\ part = "events, two threads" => EventThreads!TypeOK
  /\ part = "constructions" => Construction!TypeOK
  /\ part = "entities" => Entity!TypeOK
  /\ part = "entities, hooks may fail" => EntityMissed!TypeOK
  /\ part = "outputs" => Output!TypeOK
  /\ part = "outputs, two maps" => OutputMaps!TypeOK
  /\ part = "players" => Player!TypeOK
  /\ part = "adapter" => Adapter!TypeOK
  /\ part = "authoring" => Author!TypeOK
  /\ part = "authoring, two threads" => AuthorThreads!TypeOK
  /\ part = "hooks" => Hook!TypeOK
  /\ part = "hooks, two threads" => HookThreads!TypeOK
  /\ part = "keelhook" => Hooking!TypeOK
  /\ part = "vtables" => Vtable!TypeOK
  /\ part = "vtables, contested" => VtableContested!TypeOK
  /\ part = "natives" => Native!TypeOK
  /\ part = "values" => Value!TypeOK
  /\ part = "values, nested" => ValueNested!TypeOK

\* No thread waits for itself: Stop does not wait for a command of its own thread,
\* a release not for a callback it is in, and two threads in factory callbacks
\* not for each other's subscription; and a plugin gives up a console variable without the
\* lock of its list; an unload does not wait for a worker with the mutex that the worker
\* waits for.
NoSelfWait ==
  /\ part = "factories" => Factory!NoCircularWait
  /\ part = "host" => Host!NoSelfWait
  /\ part = "host, two threads" => HostThreads!NoSelfWait
  /\ part = "convars" => ConVar!NoSelfWait
  /\ part = "convars, two threads" => ConVarThreads!NoSelfWait
  /\ part = "events" => Event!NoSelfWait
  /\ part = "events, two threads" => EventThreads!NoSelfWait
  /\ part = "authoring" => Author!WaitsUnlocked
  /\ part = "authoring, two threads" => AuthorThreads!WaitsUnlocked
  /\ part = "natives" => Native!WaitsUnlocked

\* What the engine or a dispatch holds as a raw pointer is not freed under it:
\* the record of a command, the record of a console variable, the service an output
\* hook calls, the listener of game events, the binding of a callback,
\* the closure in a virtual table, the service a plugin has asked for, and what a thread
\* in a dispatch of a hooked function has yet to run.  Left out are the records marked
\* late, lost or dropped, each a case the code does not exclude.
RecordsInUse ==
  /\ part = "host" => Host!RecordsInUse
  /\ part = "host, two threads" => HostThreads!RecordsInUse
  /\ part = "convars" => ConVar!RecordInUse
  /\ part = "convars, two threads" => ConVarThreads!RecordInUse
  /\ part = "outputs" => Output!HookIsKept
  /\ part = "outputs, two maps" => OutputMaps!HookIsKept
  /\ part = "adapter" => Adapter!RecordsInUse
  /\ part = "authoring" => Author!Alive
  /\ part = "authoring, two threads" => AuthorThreads!Alive
  /\ part = "hooks" => Hook!BindingsAlive
  /\ part = "hooks, two threads" => HookThreads!BindingsAlive
  /\ part = "vtables" => Vtable!NothingDangles
  /\ part = "vtables, contested" => VtableContested!NothingDangles
  /\ part = "natives" => Native!ServicesInUse
  /\ part = "keelhook" => (Hooking!StorageInUse /\ Hooking!ActiveBalanced)

\* A plugin whose Deactivate answered OK is in no callback, the engine holds no
\* replacement of it and no other plugin is given the console variable it
\* provides; a subscription given up is called no more; an unloaded plugin or one whose load
\* failed has none.
QuietIsSilent ==
  /\ part = "convars" => (ConVar!QuietIsSilent /\ ConVar!ProviderStays)
  /\ part = "convars, two threads" =>
       (ConVarThreads!QuietIsSilent /\ ConVarThreads!ProviderStays)
  /\ part = "events" => (Event!QuietIsSilent /\ Event!GivenUpIsSilent)
  /\ part = "events, two threads" =>
       (EventThreads!QuietIsSilent /\ EventThreads!GivenUpIsSilent)
  /\ part = "factories" => (Factory!PinnedStays /\ Factory!QuietIsSilent)
  /\ part = "outputs" => Output!ReleasedIsSilent
  /\ part = "outputs, two maps" => OutputMaps!ReleasedIsSilent
  /\ part = "authoring" => Author!NothingHeld
  /\ part = "authoring, two threads" => AuthorThreads!NothingHeld
  /\ part = "keelhook" => (Hooking!QuietIsSilent /\ Hooking!GoneForGood)

\* The host's library is closed only when no thread is in it or in a plugin, and the
\* game adapter's only when nothing of the engine points into it.
HostImageInUse ==
  /\ part = "host" => Host!ImageInUse
  /\ part = "host, two threads" => HostThreads!ImageInUse
  /\ part = "adapter" => Adapter!LibraryInUse

\* Stop keeps the host closed through every refusal and retry, and destroys no service
\* that it has not shut down.
HostClosedWhileReleasing ==
  /\ part = "host" => Host!ClosedWhileReleasing
  /\ part = "host, two threads" => HostThreads!ClosedWhileReleasing
  /\ part = "natives" => Native!ShutInOrder

\* A console variable has at most one owner, and a command or event name of a plugin one
\* active binding; the lease of a hooked function goes with the last handle; and a place in a
\* virtual table that another module has taken is not written; a hooked function is changed
\* by one call at a time.
OneOwner ==
  /\ part = "convars" => ConVar!OneOwner
  /\ part = "convars, two threads" => ConVarThreads!OneOwner
  /\ part = "authoring" => Author!OneListener
  /\ part = "authoring, two threads" => AuthorThreads!OneListener
  /\ part = "hooks" => Hook!LastHandleReleases
  /\ part = "hooks, two threads" => HookThreads!LastHandleReleases
  /\ part = "vtables" => Vtable!ForeignKept
  /\ part = "vtables, contested" => VtableContested!ForeignKept
  /\ part = "keelhook" => Hooking!TransitionHeld

\* A created entity is spawned or cancelled once, and until then a record or an
\* open call can still end it; an object that a hooked function takes or returns by value is destroyed
\* once, and the function itself runs once.
ConstructionsEnd ==
  /\ part = "constructions" =>
       (Construction!EndsOnce /\ Construction!NothingLeaks /\ Construction!Reachable)
  /\ part = "values" => Value!ObjectsSound
  /\ part = "values, nested" => ValueNested!ObjectsSound
  /\ part = "keelhook" => Hooking!OriginalOnce

\* A call on a plugin's entity handle reaches the entity the handle was made for,
\* an output its function runs for is of the map its observers were told of, and a
\* connection or an input context stands for one client and one pawn as long as
\* they last; what a hook writes reaches the caller of the hooked function if its answer
\* allows it, and a failed copy does not cost the caller its object; a direct call runs what was
\* chosen for it.
ReachesItsEntity ==
  /\ part = "values" =>
       (Value!WritesStand /\ Value!SupersedeStands /\ Value!CallerGetsObject)
  /\ part = "values, nested" =>
       (ValueNested!WritesStand /\ ValueNested!SupersedeStands /\ ValueNested!CallerGetsObject)
  /\ part = "entities" => Entity!ReachesItsEntity
  /\ part = "entities, hooks may fail" => EntityMissed!ReachesItsEntity
  /\ part = "outputs" => Output!OriginalIsCurrent
  /\ part = "outputs, two maps" => OutputMaps!OriginalIsCurrent
  /\ part = "players" =>
       (Player!OfItsClient /\ Player!Stable /\ Player!Accurate /\ Player!OnePawn)
  /\ part = "keelhook" => Hooking!DirectEntryStable

\* A plugin that hears of the beginning of a level or an output hears of its end, once,
\* and what plugins are subscribed to is reported once the start is complete;
\* what a plugin has as registered is registered with the host, and
\* its handle of a hooked function has a lease behind it; a virtual table calls a hook as long
\* as the hook counts as enabled, and a function is hooked as long as it has callbacks.
EventsPair ==
  /\ part = "entities" => Entity!LevelsPair
  /\ part = "entities, hooks may fail" => EntityMissed!LevelsPair
  /\ part = "outputs" => Output!PreEndsInPost
  /\ part = "outputs, two maps" => OutputMaps!PreEndsInPost
  /\ part = "adapter" => Adapter!Reported
  /\ part = "authoring" => Author!Agree
  /\ part = "authoring, two threads" => AuthorThreads!Agree
  /\ part = "hooks" => Hook!HandlesLeased
  /\ part = "hooks, two threads" => HookThreads!HandlesLeased
  /\ part = "vtables" => Vtable!EnabledIsCalled
  /\ part = "vtables, contested" => VtableContested!EnabledIsCalled
  /\ part = "keelhook" => Hooking!InstalledIffUsed

\* Factory subscriptions keep what DispatchLayer promises the plugin manager.
FactoryImplementsLayer == Factory!ImplementsLayer
=============================================================================
