-------------------------------- MODULE Vtables --------------------------------
(***************************************************************************)
(* Virtual tables that KeelHook writes to (hooking/src/vtable.cpp, used by *)
(* host/src/keelhook_service.cpp).  A shared hook replaces a slot of the   *)
(* table of a class.  A hook of one object gives the object a table of its *)
(* own, the shadow, which is copied from the class's when the first hook   *)
(* of the object is resolved and given back with the last.                 *)
(*                                                                         *)
(* One class, one object of it.  Others write to the same memory: a module *)
(* that knows nothing of KeelHook puts itself before what it finds, in a   *)
(* slot or in the object, and puts that back.  Targets change their hooks  *)
(* on any thread, each under its physical_mutex, and the shadow under its  *)
(* mutex_.                                                                 *)
(***************************************************************************)
EXTENDS Integers, FiniteSets

CONSTANTS
  Indices,     \* the slots of the table
  Contested    \* those of them that the other module writes to

VARIABLES
  class,     \* the slots of the class
  object,    \* the table of the object
  foreign,   \* what the other module has found and will put back, or "none"
  shadow,    \* InstanceVtable: its slots, replacements_, storage_, mutex_
  reg,       \* targets_
  address,   \* TargetRecord: what it replaces
  closure,   \* TargetRecord: its closure is allocated
  enabled,   \* SharedVtableHook::enabled_, instance_enabled
  step,      \* where the operation on a target is
  lost       \* history: targets whose rollback another module has prevented

vars == <<class, object, foreign, shadow, reg, address, closure, enabled, step, lost>>

Targets == {"shared", "instance"} \X Indices
Entries == {"original", "shared", "instance", "foreign"}

TypeOK ==
  /\ class \in [Indices -> Entries \ {"instance"}]
  /\ object \in {"class", "shadow", "foreign"}
  /\ foreign \in [object : {"class", "shadow", "none"},
                  slot : [Indices -> {"original", "shared", "none"}]]
  /\ shadow \in [slot : [Indices -> Entries], replaced : SUBSET Indices,
                 state : {"none", "made"}, lock : Indices \cup {0}]
  /\ reg \in SUBSET Targets
  /\ address \in [Targets -> Entries]
  /\ closure \in SUBSET Targets
  /\ enabled \in SUBSET Targets /\ lost \in SUBSET Targets
  /\ step \in [Targets -> {"idle", "enable", "protect enable", "protect disable", "apply",
                           "remove"}]

Init ==
  /\ class = [i \in Indices |-> "original"]
  /\ object = "class"
  /\ foreign = [object |-> "none", slot |-> [i \in Indices |-> "none"]]
  /\ shadow = [slot |-> [i \in Indices |-> "original"], replaced |-> {}, state |-> "none",
               lock |-> 0]
  /\ reg = {} /\ closure = {} /\ enabled = {} /\ lost = {}
  /\ address = [x \in Targets |-> "original"]
  /\ step = [x \in Targets |-> "idle"]

-----------------------------------------------------------------------------
(* The other module.  Once a rollback was refused on a slot it stays there. *)

ForeignTakesSlot(i) ==
  /\ foreign.slot[i] = "none"
  /\ foreign' = [foreign EXCEPT !.slot[i] = class[i]]
  /\ class' = [class EXCEPT ![i] = "foreign"]
  /\ UNCHANGED <<object, shadow, reg, address, closure, enabled, step, lost>>
ForeignLeavesSlot(i) ==
  /\ foreign.slot[i] # "none" /\ class[i] = "foreign"
  /\ <<"shared", i>> \notin lost
  /\ class' = [class EXCEPT ![i] = foreign.slot[i]]
  /\ foreign' = [foreign EXCEPT !.slot[i] = "none"]
  /\ UNCHANGED <<object, shadow, reg, address, closure, enabled, step, lost>>
ForeignTakesObject ==
  /\ foreign.object = "none"
  /\ foreign' = [foreign EXCEPT !.object = object]
  /\ object' = "foreign"
  /\ UNCHANGED <<class, shadow, reg, address, closure, enabled, step, lost>>
ForeignLeavesObject ==
  /\ foreign.object # "none" /\ object = "foreign"
  /\ object' = foreign.object
  /\ foreign' = [foreign EXCEPT !.object = "none"]
  /\ UNCHANGED <<class, shadow, reg, address, closure, enabled, step, lost>>

-----------------------------------------------------------------------------
(* ResolveVirtualTarget, and what happens to targets nobody has any more.  *)

\* A slot has shared hooks or hooks of objects; only the same slot counts.
VirtualScopeConflict(kind, i) == \E other \in {"shared", "instance"} \ {kind} : <<other, i>> \in reg

\* Through another object of the class, if this one has a table of its own.
ResolveShared(i) ==
  LET x == <<"shared", i>> IN
  /\ x \notin reg /\ ~VirtualScopeConflict("shared", i)
  /\ x \notin closure
  /\ class[i] \in {"original", "foreign"}     \* code of a module, which is pinned
  /\ reg' = reg \cup {x}
  /\ address' = [address EXCEPT ![x] = class[i]]
  /\ UNCHANGED <<class, object, foreign, shadow, closure, enabled, step, lost>>

Intact == object = IF shadow.replaced = {} THEN "class" ELSE "shadow"

\* InstanceVtable::Create copies the table of the class as it is, with its shared hooks.
ResolveInstance(i) ==
  LET x == <<"instance", i>> IN
  /\ x \notin reg /\ x \notin closure /\ shadow.lock = 0
  /\ ~VirtualScopeConflict("instance", i)
  /\ IF shadow.state = "made" THEN Intact /\ UNCHANGED shadow
     ELSE /\ object = "class"
          /\ shadow' = [slot |-> class, replaced |-> {}, state |-> "made", lock |-> 0]
  /\ class[i] \in {"original", "foreign"}
  /\ reg' = reg \cup {x}
  /\ address' = [address EXCEPT ![x] = class[i]]
  /\ UNCHANGED <<class, object, foreign, closure, enabled, step, lost>>

\* The last lease of a target is released when it has no callbacks.
Forget(x) ==
  /\ x \in reg /\ step[x] = "idle" /\ x \notin enabled
  /\ reg' = reg \ {x}
  /\ UNCHANGED <<class, object, foreign, shadow, address, closure, enabled, step, lost>>

\* Mutant: the closure goes as soon as there are no callbacks.
DestroyPhysicalAnyway(x) ==
  /\ x \in closure /\ step[x] = "idle"
  /\ closure' = closure \ {x}
  /\ enabled' = enabled \ {x}
  /\ UNCHANGED <<class, object, foreign, shadow, reg, address, step, lost>>

DestroyPhysical(x) ==
  /\ x \in closure /\ step[x] = "idle" /\ x \notin enabled
  /\ closure' = closure \ {x}
  /\ UNCHANGED <<class, object, foreign, shadow, reg, address, enabled, step, lost>>

\* CollectPhysical erases the table when no target is left of it; ~InstanceVtable.
CollectTable ==
  /\ shadow.state = "made" /\ shadow.replaced = {} /\ shadow.lock = 0
  /\ \A i \in Indices : <<"instance", i>> \notin reg \cup closure
  /\ shadow' = [shadow EXCEPT !.state = "none"]
  /\ UNCHANGED <<class, object, foreign, reg, address, closure, enabled, step, lost>>

-----------------------------------------------------------------------------
(* SharedVtableHook.                                                       *)

\* EnablePhysical begins: the closure is allocated.
Allocate(x) ==
  /\ x \in reg \ enabled /\ step[x] = "idle"
  /\ closure' = closure \cup {x}
  /\ step' = [step EXCEPT ![x] = "enable"]
  /\ UNCHANGED <<class, object, foreign, shadow, reg, address, enabled, lost>>
Refused(x) ==
  /\ closure' = closure \ {x}
  /\ step' = [step EXCEPT ![x] = "idle"]

\* Exchange with the page made writable; it may fail before, and the protection may fail
\* to be restored after.
EnableShared(i) ==
  LET x == <<"shared", i>> IN
  /\ step[x] = "enable"
  /\ \/ /\ class[i] = address[x]
        /\ class' = [class EXCEPT ![i] = "shared"]
        /\ step' = [step EXCEPT ![x] = "protect enable"]
        /\ UNCHANGED closure
     \/ Refused(x) /\ UNCHANGED class
  /\ UNCHANGED <<object, foreign, shadow, reg, address, enabled, lost>>
EnabledShared(i) ==
  LET x == <<"shared", i>> IN
  /\ step[x] = "protect enable"
  /\ enabled' = enabled \cup {x}
  /\ step' = [step EXCEPT ![x] = "idle"]
  /\ UNCHANGED <<class, object, foreign, shadow, reg, address, closure, lost>>

\* Mutant: what the slot had is written back, whoever is in it now.
RollbackEnableBlindly(i) ==
  LET x == <<"shared", i>> IN
  /\ step[x] = "protect enable"
  /\ class' = [class EXCEPT ![i] = address[x]]
  /\ Refused(x)
  /\ UNCHANGED <<object, foreign, shadow, reg, address, enabled, lost>>

RollbackEnable(i) ==
  LET x == <<"shared", i>> IN
  /\ step[x] = "protect enable"
  /\ class' = [class EXCEPT ![i] = IF @ = "shared" THEN address[x] ELSE @]
  /\ lost' = IF class[i] = "shared" THEN lost ELSE lost \cup {x}
  /\ Refused(x)
  /\ UNCHANGED <<object, foreign, shadow, reg, address, enabled>>

\* Disable: another module in the slot is a conflict, and the hook stays.
DisableShared(i) ==
  LET x == <<"shared", i>> IN
  /\ x \in enabled /\ step[x] = "idle" /\ class[i] = "shared"
  /\ class' = [class EXCEPT ![i] = address[x]]
  /\ step' = [step EXCEPT ![x] = "protect disable"]
  /\ UNCHANGED <<object, foreign, shadow, reg, address, closure, enabled, lost>>
DisabledShared(i) ==
  LET x == <<"shared", i>> IN
  /\ step[x] = "protect disable"
  /\ \/ enabled' = enabled \ {x} /\ UNCHANGED <<class, lost>>
     \/ /\ class' = [class EXCEPT ![i] = IF @ = address[x] THEN "shared" ELSE @]
        /\ lost' = IF class[i] = address[x] THEN lost ELSE lost \cup {x}
        /\ UNCHANGED enabled
  /\ step' = [step EXCEPT ![x] = "idle"]
  /\ UNCHANGED <<object, foreign, shadow, reg, address, closure>>

-----------------------------------------------------------------------------
(* InstanceVtable, under its mutex_.                                       *)

\* Enable: the first hook writes to the shadow, then gives it to the object; the others
\* replace what the class has in the slot.
EnableInstance(i) ==
  LET x == <<"instance", i>> IN
  /\ step[x] = "enable" /\ shadow.lock = 0
  /\ \/ /\ shadow.replaced = {}
        /\ shadow' = [shadow EXCEPT !.slot[i] = "instance", !.lock = i]
        /\ step' = [step EXCEPT ![x] = "apply"]
        /\ UNCHANGED <<closure, enabled>>
     \/ /\ shadow.replaced # {} /\ object = "shadow" /\ shadow.slot[i] = class[i]
        /\ shadow' = [shadow EXCEPT !.slot[i] = "instance", !.replaced = @ \cup {i}]
        /\ enabled' = enabled \cup {x}
        /\ step' = [step EXCEPT ![x] = "idle"]
        /\ UNCHANGED closure
     \/ /\ shadow.replaced # {} /\ (object # "shadow" \/ shadow.slot[i] # class[i])
        /\ Refused(x) /\ UNCHANGED <<shadow, enabled>>
  /\ UNCHANGED <<class, object, foreign, reg, address, lost>>
ApplyInstance(i) ==
  LET x == <<"instance", i>> IN
  /\ step[x] = "apply"
  /\ IF object = "class"
     THEN /\ object' = "shadow"
          /\ shadow' = [shadow EXCEPT !.replaced = {i}, !.lock = 0]
          /\ enabled' = enabled \cup {x}
          /\ step' = [step EXCEPT ![x] = "idle"]
          /\ UNCHANGED closure
     ELSE /\ shadow' = [shadow EXCEPT !.slot[i] = class[i], !.lock = 0]
          /\ Refused(x)
          /\ UNCHANGED <<object, enabled>>
  /\ UNCHANGED <<class, foreign, reg, address, lost>>

\* Mutant: the table of another module on the object does not count.
DisableInstanceAnyway(i) ==
  LET x == <<"instance", i>> IN
  /\ x \in enabled /\ step[x] = "idle" /\ shadow.lock = 0
  /\ shadow' = [shadow EXCEPT !.slot[i] = class[i], !.replaced = @ \ {i}]
  /\ object' = IF shadow.replaced = {i} THEN "class" ELSE object
  /\ enabled' = enabled \ {x}
  /\ UNCHANGED <<class, foreign, reg, address, closure, step, lost>>

\* Disable: nothing is changed unless the object has the shadow.
DisableInstance(i) ==
  LET x == <<"instance", i>> IN
  /\ x \in enabled /\ step[x] = "idle" /\ shadow.lock = 0
  /\ object = "shadow"
  /\ IF shadow.replaced = {i}
     THEN /\ shadow' = [shadow EXCEPT !.slot[i] = class[i], !.lock = i]
          /\ step' = [step EXCEPT ![x] = "remove"]
          /\ UNCHANGED enabled
     ELSE /\ shadow' = [shadow EXCEPT !.slot[i] = class[i], !.replaced = @ \ {i}]
          /\ enabled' = enabled \ {x}
          /\ UNCHANGED step
  /\ UNCHANGED <<class, object, foreign, reg, address, closure, lost>>
RemoveInstance(i) ==
  LET x == <<"instance", i>> IN
  /\ step[x] = "remove"
  /\ IF object = "shadow"
     THEN /\ object' = "class"
          /\ shadow' = [shadow EXCEPT !.replaced = {}, !.lock = 0]
          /\ enabled' = enabled \ {x}
          /\ UNCHANGED lost
     ELSE /\ shadow' = [shadow EXCEPT
                !.slot[i] = IF @ = class[i] THEN "instance" ELSE @, !.lock = 0]
          /\ lost' = IF shadow.slot[i] = class[i] THEN lost ELSE lost \cup {x}
          /\ UNCHANGED <<object, enabled>>
  /\ step' = [step EXCEPT ![x] = "idle"]
  /\ UNCHANGED <<class, foreign, reg, address, closure>>

-----------------------------------------------------------------------------
Foreign == \/ \E i \in Contested : ForeignTakesSlot(i) \/ ForeignLeavesSlot(i)
           \/ ForeignTakesObject \/ ForeignLeavesObject

Registry == \/ \E i \in Indices : ResolveShared(i) \/ ResolveInstance(i)
            \/ \E x \in Targets : Forget(x) \/ DestroyPhysical(x) \/ Allocate(x)
            \/ CollectTable

Shared(i) == \/ EnableShared(i) \/ EnabledShared(i) \/ RollbackEnable(i)
             \/ DisableShared(i) \/ DisabledShared(i)

Instance(i) == \/ EnableInstance(i) \/ ApplyInstance(i)
               \/ DisableInstance(i) \/ RemoveInstance(i)

Next == Foreign \/ Registry \/ \E i \in Indices : Shared(i) \/ Instance(i)

Spec == Init /\ [][Next]_vars

-----------------------------------------------------------------------------
(* Properties.                                                             *)

\* Nothing that calls a closure outlives it: not the slot of the class, not the module
\* before it, not the shadow of the object, and not the shadow itself.  Except that a
\* module which takes a slot between a write and its rollback keeps what it has found.
NothingDangles ==
  /\ \A i \in Indices : LET x == <<"shared", i>> IN
       x \notin lost /\ "shared" \in {class[i], foreign.slot[i]} => x \in closure
  /\ "shadow" \in {object, foreign.object} =>
       /\ shadow.state = "made"
       /\ \A i \in Indices : shadow.slot[i] = "instance" => <<"instance", i>> \in closure

\* What another module has put before KeelHook is not taken away under it: it is found in
\* its place, or under a hook that puts it back.
ForeignKept ==
  /\ foreign.object # "none" => object = "foreign"
  /\ \A i \in Indices : foreign.slot[i] # "none" =>
       \/ class[i] = "foreign"
       \/ class[i] = "shared" /\ address[<<"shared", i>>] = "foreign"

\* A target that counts as enabled gets the calls, itself or through the module that is
\* before it, and one that counts as disabled gets none.
EnabledIsCalled ==
  \A i \in Indices :
    /\ LET x == <<"shared", i>> IN
         x \notin lost /\ step[x] = "idle" =>
           (x \in enabled <=> "shared" \in {class[i], foreign.slot[i]})
    /\ LET x == <<"instance", i>> IN
         x \notin lost /\ step[x] = "idle" =>
           (x \in enabled <=> shadow.state = "made" /\ shadow.slot[i] = "instance"
                               /\ "shadow" \in {object, foreign.object})
================================================================================
