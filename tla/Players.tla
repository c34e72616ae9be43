------------------------------- MODULE Players -------------------------------
(***************************************************************************)
(* The players of the server: the registry that gives every connection a   *)
(* generation (host/src/player_registry.cpp) and the service plugins ask   *)
(* (host/src/player_service.cpp), over what the engine tells of a slot.    *)
(*                                                                         *)
(* The engine reports a client's arrival and departure through two hooks   *)
(* that are installed one at a time, at the first need; what it says of a  *)
(* slot when asked lags behind both.  All of this is on the game's thread. *)
(* Names, teams, accounts and the queries by index are left out.           *)
(***************************************************************************)
EXTENDS Integers, FiniteSets

CONSTANTS
  Slots,
  Users,        \* the user IDs of the server; one is used again after its client left
  MaxClients,   \* bound: clients that ever connect
  MaxPawns      \* bound: pawns ever made

VARIABLES
  hooks,    \* the events the adapter reports (installed_)
  service,  \* a plugin has acquired the service (players_)
  entry,    \* the registry, slot by slot
  next,     \* next_generation_
  context,  \* input_contexts_, and the last of its tokens
  client,   \* the engine's clients, slot by slot
  clients,  \* how many there have been
  pawns,    \* how many pawns there have been
  missed,   \* slots whose last event the adapter did not report
  given,    \* the connections plugins were told of, with whose they were
  inputs    \* the contexts of inputs plugins were told, with their pawn

vars == <<hooks, service, entry, next, context, client, clients, pawns, missed, given, inputs>>

Events == {"connected", "disconnecting"}
None == 0
Nobody == [id |-> None, user |-> -1, bot |-> FALSE, at |-> "none", pawn |-> None, announced |-> FALSE]
Empty == [generation |-> None, user |-> -1, bot |-> FALSE, pending |-> FALSE, disconnecting |-> FALSE]
NoContext == [token |-> None, pawn |-> None]

Entry ==
  [generation : 0..next, user : Users \cup {-1}, bot : BOOLEAN, pending : BOOLEAN,
   disconnecting : BOOLEAN]

\* at: the engine knows of the client but tells nothing, tells of it without a
\* user ID, tells all, or still tells of one that is on its way out.
\* announced: its OnClientConnected has returned.
Client ==
  [id : 0..clients, user : Users \cup {-1}, bot : BOOLEAN,
   at : {"none", "silent", "connecting", "in", "leaving"}, pawn : 0..pawns, announced : BOOLEAN]

TypeOK ==
  /\ hooks \in SUBSET Events /\ service \in BOOLEAN
  /\ next \in Nat \ {0} /\ clients \in 0..MaxClients /\ pawns \in 0..MaxPawns
  /\ entry \in [Slots -> Entry] /\ client \in [Slots -> Client]
  /\ \A s \in Slots : context.of[s] \in [token : 0..context.last, pawn : 0..pawns]

Init ==
  /\ hooks = {} /\ service = FALSE
  /\ entry = [s \in Slots |-> Empty] /\ next = 1
  /\ context = [of |-> [s \in Slots |-> NoContext], last |-> 0]
  /\ client = [s \in Slots |-> Nobody] /\ clients = 0 /\ pawns = 0
  /\ missed = {} /\ given = {} /\ inputs = {}

-----------------------------------------------------------------------------
(* The registry.                                                           *)

\* Mutant: the entry of the client before is kept.
ConnectedKeeping(s, bot) ==
  [Empty EXCEPT !.bot = bot, !.pending = TRUE,
                !.generation = IF entry[s].generation # None THEN entry[s].generation ELSE next]

\* Connected
Connected(s, bot) == [Empty EXCEPT !.generation = next, !.bot = bot, !.pending = TRUE]

\* Mutant: no tombstone is left.
Forgotten == Empty

\* Disconnected: a tombstone, until the next client connects.
Tombstone == [Empty EXCEPT !.disconnecting = TRUE]

\* Mutant: a player whose arrival is reported already is dropped.
MissingAlways(s) == IF entry[s].disconnecting THEN entry[s] ELSE Empty

\* Missing
Missing(s) == IF entry[s].pending \/ entry[s].disconnecting THEN entry[s] ELSE Empty

AnotherUser(s) ==
  entry[s].user >= 0 /\ client[s].user >= 0 /\ entry[s].user # client[s].user

\* different_user, different_kind
Another(s) ==
  \/ AnotherUser(s)
  \/ ~entry[s].pending /\ entry[s].bot # client[s].bot

Renewed(s) == entry[s].generation = None \/ Another(s)

\* Update, from the facts of the engine.
Updated(s) ==
  [generation |-> IF Renewed(s) THEN next ELSE entry[s].generation,
   user |-> client[s].user, bot |-> client[s].bot,
   pending |-> client[s].at = "connecting" \/ client[s].user < 0, disconnecting |-> FALSE]

-----------------------------------------------------------------------------
(* The service.                                                            *)

\* KeelCs2_ReadPlayer finds the client.
Told(s) == client[s].at \in {"connecting", "in", "leaving"}

\* Read: the engine's facts update the entry, or the reported arrival stands in.
Read(s) == IF Told(s) /\ ~entry[s].disconnecting THEN Updated(s)
           ELSE IF Told(s) THEN entry[s] ELSE Missing(s)
Found(s) == /\ ~entry[s].disconnecting
            /\ Told(s) \/ entry[s].pending

\* QueryService
Acquire ==
  /\ ~service /\ service' = TRUE
  /\ UNCHANGED <<hooks, entry, next, context, client, clients, pawns, missed, given, inputs>>

\* A plugin subscribes to one of the events, or one of the two hooks of
\* EnsurePlayerTracking fails after the other.
EnsureEvent(e) ==
  /\ e \notin hooks /\ hooks' = hooks \cup {e}
  /\ UNCHANGED <<service, entry, next, context, client, clients, pawns, missed, given, inputs>>

\* Get, without the two hooks from a plugin that is cleaning up only.
Tracking(cleanup) == hooks' = IF cleanup THEN hooks ELSE Events

\* GetEntry, NextEntry and ValidateEntry: what they tell of a slot.
Get(s, cleanup) ==
  /\ service /\ Tracking(cleanup)
  /\ entry' = [entry EXCEPT ![s] = Read(s)]
  /\ next' = IF Told(s) /\ ~entry[s].disconnecting /\ Renewed(s) THEN next + 1 ELSE next
  /\ given' = IF ~Found(s) \/ cleanup THEN given
              ELSE given \cup {[generation |-> Read(s).generation, slot |-> s,
                                client |-> client[s].id, announced |-> client[s].announced]}
  /\ UNCHANGED <<service, context, client, clients, pawns, missed, inputs>>

\* Mutant: the context of the slot is kept from pawn to pawn.
ContextOfSlot(s) == IF context.of[s].token # None THEN context.of[s].token ELSE context.last + 1

\* ReadPlayerInput: a new token for another pawn.
Context(s) == IF context.of[s].token # None /\ context.of[s].pawn = client[s].pawn
              THEN context.of[s].token ELSE context.last + 1

\* InputEntry, with a connection that was handed out: the read in between
\* cannot change the player on the game's thread.
Input(s) ==
  /\ service /\ hooks' = Events
  /\ client[s].at \in {"in", "leaving"} /\ client[s].pawn # None
  /\ ~entry[s].disconnecting /\ ~Renewed(s)
  /\ \E g \in given : g.slot = s /\ g.generation = entry[s].generation
  /\ entry' = [entry EXCEPT ![s] = Updated(s)]
  /\ LET token == Context(s) IN
     /\ context' = [of |-> [context.of EXCEPT ![s] = [token |-> token, pawn |-> client[s].pawn]],
                    last |-> IF token > context.last THEN token ELSE context.last]
     /\ inputs' = inputs \cup {[token |-> token, slot |-> s, pawn |-> client[s].pawn]}
  /\ UNCHANGED <<service, next, client, clients, pawns, missed, given>>

-----------------------------------------------------------------------------
(* The engine and the events it reports.                                   *)

InUse == {client[s].user : s \in Slots}
Reported(e) == service /\ e \in hooks

ClientConnects(s, bot) ==
  /\ client[s].at = "none" /\ clients < MaxClients
  /\ clients' = clients + 1
  /\ client' = [client EXCEPT ![s] =
       [Nobody EXCEPT !.id = clients', !.bot = bot, !.at = "silent"]]
  /\ UNCHANGED <<hooks, service, entry, next, context, pawns, missed, given, inputs>>

\* OnClientConnected returns: the hook is a POST hook.
ClientConnected(s) ==
  /\ client[s].at \in {"silent", "connecting"} /\ ~client[s].announced
  /\ client' = [client EXCEPT ![s].announced = TRUE]
  /\ IF Reported("connected")
     THEN /\ entry' = [entry EXCEPT ![s] = Connected(s, client[s].bot)] /\ next' = next + 1
          /\ missed' = missed \ {s}
     ELSE missed' = missed \cup {s} /\ UNCHANGED <<entry, next>>
  /\ UNCHANGED <<hooks, service, context, clients, pawns, given, inputs>>

ClientTold(s) ==
  /\ client[s].at = "silent"
  /\ client' = [client EXCEPT ![s].at = "connecting"]
  /\ UNCHANGED <<hooks, service, entry, next, context, clients, pawns, missed, given, inputs>>

ClientIn(s) ==
  /\ client[s].announced /\ client[s].at \in {"silent", "connecting"}
  /\ \E u \in Users \ InUse : client' = [client EXCEPT ![s].at = "in", ![s].user = u]
  /\ UNCHANGED <<hooks, service, entry, next, context, clients, pawns, missed, given, inputs>>

ClientSpawns(s) ==
  /\ client[s].at = "in" /\ pawns < MaxPawns
  /\ pawns' = pawns + 1 /\ client' = [client EXCEPT ![s].pawn = pawns']
  /\ UNCHANGED <<hooks, service, entry, next, context, clients, missed, given, inputs>>

\* OnClientDisconnect begins: the hook is a PRE hook, and the engine may go on
\* to tell of the client until it is gone.
ClientDisconnecting(s) ==
  /\ client[s].announced /\ client[s].at # "leaving"
  /\ client' = [client EXCEPT ![s] = IF @.at = "silent" THEN Nobody ELSE [@ EXCEPT !.at = "leaving"]]
  /\ IF Reported("disconnecting")
     THEN entry' = [entry EXCEPT ![s] = Tombstone] /\ missed' = missed \ {s}
     ELSE missed' = missed \cup {s} /\ UNCHANGED entry
  /\ UNCHANGED <<hooks, service, next, context, clients, pawns, given, inputs>>

ClientGone(s) ==
  /\ client[s].at = "leaving"
  /\ client' = [client EXCEPT ![s] = Nobody]
  /\ UNCHANGED <<hooks, service, entry, next, context, clients, pawns, missed, given, inputs>>

Next ==
  \/ Acquire
  \/ \E e \in Events : EnsureEvent(e)
  \/ \E s \in Slots :
       \/ Input(s) \/ ClientConnected(s) \/ ClientTold(s) \/ ClientIn(s) \/ ClientSpawns(s)
       \/ ClientDisconnecting(s) \/ ClientGone(s)
       \/ \E b \in BOOLEAN : Get(s, b) \/ ClientConnects(s, b)

Spec == Init /\ [][Next]_vars
-----------------------------------------------------------------------------
Valid(g) == Found(g.slot) /\ Read(g.slot).generation = g.generation

\* A connection a plugin was told of is never valid for another client, though
\* slots and user IDs are used again and the engine's facts are late.  (A player
\* whose departure was missed stands in its slot until the next has arrived.)
OfItsClient ==
  \A g \in given : Valid(g) /\ client[g.slot].announced => client[g.slot].id = g.client

\* A client keeps its connection from its arrival to its departure: it is not
\* renewed when the engine first tells of the client or gives it a user ID.
Stable ==
  \A g, h \in given :
    g.client = h.client /\ g.client # None /\ g.announced /\ h.announced =>
      g.generation = h.generation

\* Unless an event of the slot was missed, a client is found from its arrival
\* on, and no longer once its departure has begun.
Accurate ==
  \A s \in Slots \ missed : service /\ hooks = Events =>
    IF client[s].announced THEN Found(s) <=> client[s].at # "leaving"
    ELSE Found(s) => client[s].id # None

\* Inputs with the same context are of one pawn.
OnePawn == \A i, j \in inputs : i.token = j.token => i.pawn = j.pawn
-----------------------------------------------------------------------------
(* The inductive invariant.                                                *)

PlayerConstants == Users \subseteq Nat /\ MaxClients \in Nat /\ MaxPawns \in Nat

\* What was handed out was generated, with both hooks in place.
GivenOK ==
  /\ \A s \in Slots : entry[s].generation < next
  /\ given \subseteq [generation : 1..(next - 1), slot : Slots, client : 0..clients,
                      announced : BOOLEAN]
  /\ given # {} => service /\ hooks = Events

\* What the engine says of a client it says in order; a number is of one client.
ClientsOK ==
  /\ \A s \in Slots :
       LET c == client[s] IN
       /\ c.at = "none" <=> c.id = None
       /\ c.user >= 0 => c.at \in {"in", "leaving"}
       /\ c.at = "in" => c.user >= 0
       /\ c.announced => c.at # "none"
       /\ c.at \in {"in", "leaving"} => c.announced
  /\ \A s, r \in Slots : client[s].id = client[r].id => s = r \/ client[s].id = None
  /\ \A g \in given, s \in Slots : g.client = client[s].id => g.slot = s \/ g.client = None

\* A pending player has a generation, and no user ID yet.
PendingOK ==
  \A s \in Slots : entry[s].pending =>
    entry[s].generation # None /\ entry[s].user = -1 /\ ~entry[s].disconnecting

\* The generation of an announced client's entry was given to that client only.
OfOneClient ==
  \A g \in given :
    entry[g.slot].generation = g.generation /\ client[g.slot].announced =>
      client[g.slot].id = g.client

\* What plugins were told of an announced client stands until its departure: there is
\* nothing the engine may say of it that renews or drops the entry.
Stands ==
  \A g \in given : g.announced /\ g.client # None /\ client[g.slot].id = g.client =>
    /\ client[g.slot].announced
    /\ \/ entry[g.slot].disconnecting
       \/ /\ entry[g.slot].generation = g.generation
          /\ \/ entry[g.slot].pending
             \/ /\ client[g.slot].at \in {"in", "leaving"} /\ client[g.slot].user >= 0
                /\ entry[g.slot].user = client[g.slot].user
                /\ entry[g.slot].bot = client[g.slot].bot

\* What the last event of a slot has left, if it was reported.
LastEvent ==
  \A s \in Slots \ missed :
    IF client[s].announced
    THEN IF client[s].at = "leaving" THEN entry[s].disconnecting
         ELSE ~entry[s].disconnecting /\ (entry[s].pending \/ client[s].at = "in")
    ELSE client[s].id = None => entry[s].disconnecting \/ ~entry[s].pending

\* A token is of one pawn, in the contexts of the slots and in what was told.
TokensOK ==
  /\ context.last \in Nat /\ context.of \in [Slots -> [token : 0..context.last, pawn : 0..pawns]]
  /\ inputs \subseteq [token : 1..context.last, slot : Slots, pawn : 0..pawns]
  /\ \A s, r \in Slots : context.of[s].token = context.of[r].token =>
       context.of[s].token = None \/ context.of[s].pawn = context.of[r].pawn
  /\ \A i \in inputs, s \in Slots : i.token = context.of[s].token => i.pawn = context.of[s].pawn

PlayerInv ==
  /\ context = [of |-> context.of, last |-> context.last]
  /\ GivenOK /\ ClientsOK /\ PendingOK /\ OfOneClient /\ Stands /\ LastEvent /\ TokensOK
  /\ Stable /\ OnePawn
=============================================================================
