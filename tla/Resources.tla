------------------------------ MODULE Resources ------------------------------
(***************************************************************************)
(* The settings registry of resources.c: integer resources registered in  *)
(* arrays, found through a hash table whose chains are linked by          *)
(* hash_next, changed through each resource's setter function, with the   *)
(* netplay rules for RES_EVENT_STRICT and RES_EVENT_SAME resources, the   *)
(* callback chains, the reset to factory values and the load and save of *)
(* this emulator's section of the configuration file.                     *)
(*                                                                         *)
(* A setter function is abstracted to what the registry sees of it: it    *)
(* accepts a value (returns 0 and stores Stored(n, v)) or rejects it      *)
(* (returns -1 and stores nothing).  Names are compared case-             *)
(* insensitively by the C code; each model value stands for one name up  *)
(* to case.                                                                *)
(***************************************************************************)
EXTENDS Integers, Sequences, SequencesExt, FiniteSets

CONSTANTS
    Names,          \* resource names
    Keys,           \* hash keys
    HashKey,        \* resources_calc_hash_key, a function Names -> Keys
    InitialOrder,   \* the resources registered at startup, in order
    Decls,          \* resource_int_t arrays registered later, as sequences
    Values,         \* the integers callers pass to setters
    Initial,        \* the C variable behind value_ptr before any set
    Factory,        \* factory_value of each declaration
    Relevance,      \* event_relevant: "none", "same" or "strict"
    StrictValue,    \* event_strict_value
    Accepts,        \* the values each setter function accepts
    Stored(_, _),   \* what the setter stores for an accepted value
    FileInit,       \* this emulator's section of the config file at start
    Disabled,       \* the names in disabled_resources[] (libretro build)
    MaxCallbacks,   \* bound on the callbacks registered per resource
    MaxEvents,      \* bound on recorded resource events not yet replayed
    MaxCalls        \* bound on API calls

ASSUME /\ \A n \in Names : HashKey[n] \in Keys
       /\ \A n \in Names : Relevance[n] \in {"none", "same", "strict"}
       /\ \A n \in Names : \A v \in Accepts[n] : Stored(n, v) \in Values

NoRes == "NULL"                  \* lookup() returning NULL
NotSaved == [n \in {} |-> 0]     \* no save whose values still apply

VARIABLES
    order,      \* resources[]: the registered names in array order
    hashTable,  \* hashTable[key]: head of each chain
    hashNext,   \* resources[i].hash_next
    value,      \* *value_ptr of each resource
    factory,    \* factory_value
    callbacks,  \* length of each resource's callback chain
    net,        \* network mode: "idle", "server" or "connected"
    events,     \* RES_EVENT_SAME changes recorded while connected
    notified,   \* resources whose callback chain the last call issued
    file,       \* this emulator's section of the config file
    calls,      \* API calls made (bounded)
    saved,      \* history: the values at the last resources_save
    disabled_resources_num  \* 0 until resources_dump sets it

resVars == <<order, hashTable, hashNext, value, factory, callbacks, net,
             events, notified, file, calls, saved, disabled_resources_num>>

Registered == ToSet(order)

(* lookup(): walk the chain from hashTable[key] along hash_next.          *)
RECURSIVE Chain(_, _, _)
Chain(x, n, next) ==
    IF x = NoRes THEN NoRes
    ELSE IF x = n THEN x
    ELSE Chain(next[x], n, next)

lookup(n) == Chain(hashTable[HashKey[n]], n, hashNext)

(* Fault model: a new entry does not link the chain it is put in front of. *)
RECURSIVE EnterNoLink(_, _)
EnterNoLink(st, d) ==
    IF d = <<>> THEN st
    ELSE LET n == Head(d) IN
         IF Chain(st.head[HashKey[n]], n, st.next) # NoRes THEN st
         ELSE EnterNoLink([st EXCEPT !.order = Append(@, n),
                                     !.head[HashKey[n]] = n], Tail(d))

(* Fault model: the lookup for an existing name is skipped.              *)
RECURSIVE EnterNoDupCheck(_, _)
EnterNoDupCheck(st, d) ==
    IF d = <<>> THEN st
    ELSE LET n == Head(d) IN
         EnterNoDupCheck([st EXCEPT !.order = Append(@, n),
                                    !.next[n] = st.head[HashKey[n]],
                                    !.head[HashKey[n]] = n], Tail(d))

(* resources_register_int: enter the array's names one by one; a name    *)
(* already present stops the loop with -1, keeping the earlier entries.   *)
RECURSIVE Enter(_, _)
Enter(st, d) ==
    IF d = <<>> THEN st
    ELSE LET n == Head(d) IN
         IF Chain(st.head[HashKey[n]], n, st.next) # NoRes THEN st
         ELSE Enter([st EXCEPT !.order = Append(@, n),
                               !.next[n] = st.head[HashKey[n]],
                               !.head[HashKey[n]] = n], Tail(d))

(* A setter call, on a record of the state one call may change.           *)
SetterOn(st, n, v) ==
    IF v \in Accepts[n] THEN [st EXCEPT !.value[n] = Stored(n, v)] ELSE st

(* resources_set_internal_int / resources_set_value_internal: call the    *)
(* setter; a non-zero status issues the resource's callbacks.             *)
resources_set_internal_int(st, n, v) ==
    LET s == SetterOn(st, n, v) IN
    IF v \in Accepts[n] THEN s ELSE [s EXCEPT !.notified = @ \cup {n}]

(* resources_set_int / resources_set_value: the netplay rules first.       *)
resources_set_int(st, n, v) ==
    CASE lookup(n) = NoRes -> st
      [] Relevance[n] = "strict" /\ net # "idle" -> st
      [] Relevance[n] = "same" /\ net = "connected" ->
            [st EXCEPT !.events = Append(@, <<n, v>>)]
      [] OTHER -> resources_set_internal_int(st, n, v)

(* resources_toggle: the new value is !*value_ptr.                         *)
resources_toggle(st, n) ==
    IF lookup(n) = NoRes THEN st
    ELSE resources_set_int(st, n, IF st.value[n] = 0 THEN 1 ELSE 0)

(* resources_set_value_string: no netplay checks; a string strtol does    *)
(* not consume completely is status -1 without a setter call.              *)
resources_set_value_string(st, n, v, parsed) ==
    CASE lookup(n) = NoRes -> st
      [] ~parsed -> [st EXCEPT !.notified = @ \cup {n}]
      [] OTHER -> resources_set_internal_int(st, n, v)

(* resources_set_value_event: replay the oldest recorded event.            *)
resources_set_value_event(st) ==
    LET e == Head(st.events)
        s == [st EXCEPT !.events = Tail(@)]
    IN IF lookup(e[1]) = NoRes THEN s
       ELSE resources_set_internal_int(s, e[1], e[2])

(* resources_set_defaults, the loop: every setter gets its factory value, *)
(* failures are ignored, every resource's callbacks are issued.           *)
SetDefaultsOn(st) ==
    [FoldLeft(LAMBDA s, n : SetterOn(s, n, factory[n]), st, order)
        EXCEPT !.notified = @ \cup Registered]

(* resources_set_event_safe: strict resources get event_strict_value; the *)
(* first failing setter returns -1 and ends the loop.                      *)
RECURSIVE EventSafe(_, _)
EventSafe(st, rest) ==
    IF rest = <<>> THEN st
    ELSE LET n == Head(rest)
             strict == Relevance[n] = "strict"
             s == IF strict THEN SetterOn(st, n, StrictValue[n]) ELSE st
         IN IF strict /\ StrictValue[n] \notin Accepts[n] THEN st
            ELSE EventSafe([s EXCEPT !.notified = @ \cup {n}], Tail(rest))

(* resources_read_item_from_file for every item of our section, then the *)
(* global chain: unknown names and rejected values are skipped.            *)
load_resource_file(st) ==
    LET known == DOMAIN file \cap Registered
        ok == {n \in known : file[n] \in Accepts[n]}
    IN [FoldLeft(LAMBDA s, n : IF n \in known THEN SetterOn(s, n, file[n])
                               ELSE s, st, order)
          EXCEPT !.notified = @ \cup ok]

(* Fault model: the default test compares with the C variable's initial  *)
(* value instead of the factory value.                                     *)
IsDefaultAgainstInitial(n) == value[n] = Initial[n]

(* resource_item_isdefault                                                 *)
resource_item_isdefault(n) == value[n] = factory[n]

(* string_resource_item (libretro build): no line for the first           *)
(* disabled_resources_num names of disabled_resources[], which is all of  *)
(* them once resources_dump has set the count and none before.            *)
Written(n) == ~(disabled_resources_num > 0 /\ n \in Disabled)

(* resources_save: our section holds the resources that differ from       *)
(* their factory value.                                                     *)
SavedSection == [n \in {m \in Registered : ~resource_item_isdefault(m)
                                          /\ Written(m)} |-> value[n]]

-----------------------------------------------------------------------------
(* The state one call may change, before the call.                        *)
Cur == [value |-> value, notified |-> {}, events |-> events]

(* One API call with effect st.                                            *)
Do(st) ==
    /\ calls < MaxCalls
    /\ Len(st.events) <= MaxEvents
    /\ value' = st.value
    /\ notified' = st.notified
    /\ events' = st.events
    /\ calls' = calls + 1
    /\ UNCHANGED <<order, hashTable, hashNext, factory, callbacks, net,
                   file, saved, disabled_resources_num>>

ResInit ==
    LET st == Enter([order |-> <<>>, head |-> [k \in Keys |-> NoRes],
                     next |-> [n \in Names |-> NoRes]], InitialOrder)
    IN /\ order = st.order
       /\ hashTable = st.head
       /\ hashNext = st.next
       /\ value = Initial
       /\ factory = Factory
       /\ callbacks = [n \in Names |-> 0]
       /\ net = "idle"
       /\ events = <<>>
       /\ notified = {}
       /\ file = FileInit
       /\ calls = 0
       /\ saved = NotSaved
       /\ disabled_resources_num = 0

RegisterInt ==
    /\ calls < MaxCalls
    /\ \E d \in Decls :
        LET st == Enter([order |-> order, head |-> hashTable,
                         next |-> hashNext], d)
        IN /\ order' = st.order
           /\ hashTable' = st.head
           /\ hashNext' = st.next
    /\ notified' = {}
    /\ calls' = calls + 1
    /\ UNCHANGED <<value, factory, callbacks, net, events, file, saved,
                   disabled_resources_num>>

SetInt == \E n \in Names, v \in Values :
            Do(resources_set_int(Cur, n, v))

Toggle == \E n \in Names : Do(resources_toggle(Cur, n))

(* A string that does not parse carries no value: v is then immaterial.  *)
SetValueString ==
    \E n \in Names, parsed \in BOOLEAN :
        \E v \in IF parsed THEN Values ELSE {CHOOSE x \in Values : TRUE} :
            Do(resources_set_value_string(Cur, n, v, parsed))

SetValueEvent == /\ events # <<>>
                 /\ Do(resources_set_value_event(Cur))

(* resources_set_default_int: a new factory value.  The last save's       *)
(* values no longer describe what a reset and load restores.              *)
SetDefaultInt ==
    /\ calls < MaxCalls
    /\ \E n \in Names, v \in Values :
        /\ lookup(n) # NoRes
        /\ factory' = [factory EXCEPT ![n] = v]
    /\ notified' = {}
    /\ calls' = calls + 1
    /\ saved' = NotSaved
    /\ UNCHANGED <<order, hashTable, hashNext, value, callbacks, net,
                   events, file, disabled_resources_num>>

SetDefaults == Do(SetDefaultsOn(Cur))

SetEventSafe == Do(EventSafe(Cur, order))

RegisterCallback ==
    /\ calls < MaxCalls
    /\ \E n \in Names :
        /\ lookup(n) # NoRes
        /\ callbacks[n] < MaxCallbacks
        /\ callbacks' = [callbacks EXCEPT ![n] = @ + 1]
    /\ notified' = {}
    /\ calls' = calls + 1
    /\ UNCHANGED <<order, hashTable, hashNext, value, factory, net, events,
                   file, saved, disabled_resources_num>>

Load == Do(load_resource_file(Cur))

(* resources_reset_and_load: set_defaults, then load.                      *)
ResetAndLoad == Do(load_resource_file(SetDefaultsOn(Cur)))

Save ==
    /\ calls < MaxCalls
    /\ file' = SavedSection
    /\ saved' = [n \in {m \in Registered : Written(m)} |-> value[n]]
    /\ notified' = {}
    /\ calls' = calls + 1
    /\ UNCHANGED <<order, hashTable, hashNext, value, factory, callbacks,
                   net, events, disabled_resources_num>>

(* resources_dump: sets disabled_resources_num to the size of the list   *)
(* and writes every resource to another file.  It only raises a count     *)
(* that nothing lowers, so it does not count against MaxCalls.             *)
resources_dump ==
    /\ disabled_resources_num' = Cardinality(Disabled)
    /\ notified' = {}
    /\ UNCHANGED <<order, hashTable, hashNext, value, factory, callbacks,
                   net, events, file, calls, saved>>

(* The network layer (network.c, not in src/) moves between modes.         *)
Network ==
    /\ \/ net = "idle" /\ net' = "server"
       \/ net = "server" /\ net' = "connected"
       \/ net # "idle" /\ net' = "idle"
    /\ notified' = {}
    /\ UNCHANGED <<order, hashTable, hashNext, value, factory, callbacks,
                   events, file, calls, saved, disabled_resources_num>>

(* Calls that touch only the registry.  resources_set_defaults and        *)
(* resources_reset_and_load also detach the cartridge; a composition      *)
(* conjoins that.                                                           *)
ResApi == RegisterInt \/ SetInt \/ Toggle \/ SetValueString
          \/ SetValueEvent \/ SetDefaultInt \/ SetEventSafe
          \/ RegisterCallback \/ Load \/ Save \/ Network

ResNext == ResApi \/ SetDefaults \/ ResetAndLoad

-----------------------------------------------------------------------------
ResTypeOK ==
    /\ IsInjective(order)
    /\ Registered \subseteq Names
    /\ value \in [Names -> Values]
    /\ factory \in [Names -> Values]
    /\ callbacks \in [Names -> 0..MaxCallbacks]
    /\ net \in {"idle", "server", "connected"}
    /\ Len(events) <= MaxEvents
    /\ notified \subseteq Names

(* The hash chains find exactly the registered resources, and no name is  *)
(* registered twice, after any sequence of resources_register_int calls,  *)
(* including arrays that collide on a hash key or repeat a name.          *)
RegistryConsistent ==
    /\ IsInjective(order)
    /\ \A n \in Names : lookup(n) = IF n \in Registered THEN n ELSE NoRes

(* resources_reset_and_load after resources_save restores every value the *)
(* save saw, although the save writes only the non-default ones, as long  *)
(* as no factory value changed in between.  The frontend's core-option    *)
(* resources that a save after resources_dump leaves out are the          *)
(* frontend's to set again.                                                *)
RoundTrip ==
    [][ResetAndLoad => \A n \in DOMAIN saved : value'[n] = saved[n]]_resVars

(* A resource whose value changes has its callback chain issued (comment *)
(* of resources_issue_callback: "issue callbacks for a modified            *)
(* resource").                                                              *)
ChangeIsNotified ==
    [][\A n \in Registered :
         callbacks[n] > 0 /\ value'[n] # value[n] => n \in notified']_resVars
=============================================================================
