---------------------------- MODULE ModuleEvents ----------------------------
(***************************************************************************)
(* Modules connect callbacks to events, and ModuleManager emits events: the  *)
(* public operations of Module and ModuleManager on the registry of          *)
(* callbacks.  A callback is a reference into Lua's registry; a module keeps *)
(* its callbacks by event, in order, or by event and identifier, and the     *)
(* manager keeps the modules that have some, in order.                       *)
(*                                                                          *)
(* An emission walks these vectors while callbacks are erased from them: an   *)
(* identified one that calls the function connect returned for it, and one   *)
(* that was connected by connectOnce.  So it is modelled slot by slot: a walk *)
(* goes on to the end the vector had when it began, and a slot behind the     *)
(* vector's new end keeps what was in it.  Callbacks do not connect or        *)
(* disconnect others.  connectOnce, freeConnections and                       *)
(* removeAllConnectionsById are public, but nothing calls them yet.           *)
(***************************************************************************)
EXTENDS Integers, SequencesExt

(* A definition whose comment begins with "Mutant" is not part of the model:  *)
(* it is the definition after it with a slip that is easy to make in the     *)
(* code, and is there to see a property fail.                                 *)

CONSTANTS Modules, Events, Identifiers,
          Refs,      \* bound: references luaL_ref can return, numbers but 0
          MaxMarks   \* bound: connectOnce marks a module has

NoRef == 0

\* An identifier is a string that is not empty, which would be none.
ASSUME ModuleEventsAssumption ==
  Refs \subseteq Nat \ {NoRef} /\ NoRef \notin Identifiers /\ MaxMarks \in Nat

VARIABLES
  eventCallbacks,           \* Module::m_eventCallbacks, by module
  identifiedEventCallbacks, \* Module::m_identifiedEventCallbacks, by module
  onceConnects,             \* Module::m_onceConnects, by module
  identifiedOnceConnects,   \* Module::m_identifiedOnceConnects, by module
  moduleEvents,             \* ModuleManager::m_moduleEvents
  identifiedModuleEvents,   \* ModuleManager::m_identifiedModuleEvents
  refs,                     \* references in use in Lua's registry
  walk                      \* the emission under way

modulesVars == <<eventCallbacks, identifiedEventCallbacks, onceConnects, identifiedOnceConnects>>
registry == <<moduleEvents, identifiedModuleEvents>>
eventsVars == <<modulesVars, registry, refs, walk>>

NoWalk == [event |-> "none"]

EventsInit ==
  /\ eventCallbacks = [m \in Modules |-> [e \in Events |-> <<>>]]
  /\ identifiedEventCallbacks =
       [m \in Modules |-> [e \in Events |-> [i \in Identifiers |-> NoRef]]]
  /\ onceConnects = [m \in Modules |-> <<>>]
  /\ identifiedOnceConnects = [m \in Modules |-> [e \in Events |-> <<>>]]
  /\ moduleEvents = [e \in Events |-> <<>>]
  /\ identifiedModuleEvents = [e \in Events |-> <<>>]
  /\ refs = {}
  /\ walk = NoWalk

Idle == walk = NoWalk

\* std::remove_if and erase: a vector without the elements that are x.
Erase(vector, x) ==
  LET left[k \in 0 .. Len(vector)] ==
        IF k = 0 THEN <<>>
        ELSE IF vector[k] = x THEN left[k - 1] ELSE Append(left[k - 1], vector[k])
  IN left[Len(vector)]

-----------------------------------------------------------------------------
(* Connecting *)

\* Mutant: a module is registered for every callback.
RegisteredAgain(modules, m) == Append(modules, m)

Registered(modules, m) == IF Contains(modules, m) THEN modules ELSE Append(modules, m)

\* Module::connect without an identifier; luaModuleConnect has made the reference.
Connect(m, e, r) ==
  /\ eventCallbacks' = [eventCallbacks EXCEPT ![m][e] = Append(@, r)]
  /\ moduleEvents' = [moduleEvents EXCEPT ![e] = Registered(@, m)]
  /\ refs' = refs \cup {r}
  /\ UNCHANGED <<identifiedEventCallbacks, identifiedModuleEvents, identifiedOnceConnects, walk>>

\* Module::connect with one: a second callback is refused, and its reference
\* stays in use.
ConnectIdentified(m, e, i, r) ==
  /\ refs' = refs \cup {r}
  /\ IF identifiedEventCallbacks[m][e][i] # NoRef
     THEN UNCHANGED <<identifiedEventCallbacks, identifiedModuleEvents>>
     ELSE /\ identifiedEventCallbacks' = [identifiedEventCallbacks EXCEPT ![m][e][i] = r]
          /\ identifiedModuleEvents' = [identifiedModuleEvents EXCEPT ![e] = Registered(@, m)]
  /\ UNCHANGED <<eventCallbacks, moduleEvents, onceConnects, walk>>

\* Module::connect and Module::connectOnce
Connects ==
  /\ Idle
  /\ \E m \in Modules, e \in Events, r \in Refs \ refs :
       \/ /\ Connect(m, e, r)
          /\ \/ UNCHANGED onceConnects
             \/ /\ Len(onceConnects[m]) < MaxMarks
                /\ onceConnects' = [onceConnects EXCEPT ![m] = Append(@, r)]
       \/ \E i \in Identifiers :
            /\ ConnectIdentified(m, e, i, r)
            /\ \/ UNCHANGED identifiedOnceConnects
               \/ /\ identifiedEventCallbacks[m][e][i] = NoRef
                  /\ Len(identifiedOnceConnects[m][e]) < MaxMarks
                  /\ identifiedOnceConnects' =
                       [identifiedOnceConnects EXCEPT ![m][e] = Append(@, i)]

-----------------------------------------------------------------------------
(* Disconnecting *)

\* Only the last callback of an event is unreferenced.
Unreferences(left) == left = <<>>

\* Mutant: the event is erased with all the callbacks it has.
LeftNone(callbacks, r) == <<>>

Left(callbacks, r) == Erase(callbacks, r)

\* Module::disconnect of a callback
Disconnect(m, e, r) ==
  LET left == Left(eventCallbacks[m][e], r)
  IN IF eventCallbacks[m][e] = <<>>
     THEN UNCHANGED <<eventCallbacks, moduleEvents, refs>>
     ELSE /\ eventCallbacks' = [eventCallbacks EXCEPT ![m][e] = left]
          /\ moduleEvents' =
               IF left = <<>> THEN [moduleEvents EXCEPT ![e] = Erase(@, m)] ELSE moduleEvents
          /\ refs' = IF Unreferences(left) THEN refs \ {r} ELSE refs

\* Mutant: the callback is unreferenced and stays where it is.
WithoutKept(map, i) == map

Without(map, i) == [map EXCEPT ![i] = NoRef]

Empty(map) == \A i \in Identifiers : map[i] = NoRef

\* Module::disconnect of an identifier
DisconnectIdentified(m, e, i) ==
  LET map == identifiedEventCallbacks[m][e]
  IN IF map[i] = NoRef
     THEN UNCHANGED <<identifiedEventCallbacks, identifiedModuleEvents, refs>>
     ELSE /\ identifiedEventCallbacks' = [identifiedEventCallbacks EXCEPT ![m][e] = Without(map, i)]
          /\ identifiedModuleEvents' =
               IF Empty(Without(map, i)) THEN [identifiedModuleEvents EXCEPT ![e] = Erase(@, m)]
                                         ELSE identifiedModuleEvents
          /\ refs' = refs \ {map[i]}

\* Either, called by a module; a connectOnce mark stays behind.
Disconnects ==
  /\ Idle
  /\ \E m \in Modules, e \in Events :
       \/ /\ \E r \in ToSet(eventCallbacks[m][e]) : Disconnect(m, e, r)
          /\ UNCHANGED <<identifiedEventCallbacks, identifiedModuleEvents>>
       \/ /\ \E i \in Identifiers :
               identifiedEventCallbacks[m][e][i] # NoRef /\ DisconnectIdentified(m, e, i)
          /\ UNCHANGED <<eventCallbacks, moduleEvents>>
  /\ UNCHANGED <<onceConnects, identifiedOnceConnects, walk>>

\* Module::freeConnections, and so Module::unload
FreeConnections(m) ==
  /\ Idle
  /\ eventCallbacks' = [eventCallbacks EXCEPT ![m] = [e \in Events |-> <<>>]]
  /\ identifiedEventCallbacks' =
       [identifiedEventCallbacks EXCEPT ![m] = [e \in Events |-> [i \in Identifiers |-> NoRef]]]
  /\ moduleEvents' = [e \in Events |-> Erase(moduleEvents[e], m)]
  /\ identifiedModuleEvents' = [e \in Events |-> Erase(identifiedModuleEvents[e], m)]
  /\ refs' = refs \ ({Last(eventCallbacks[m][e]) : e \in {f \in Events : eventCallbacks[m][f] # <<>>}}
                     \cup {identifiedEventCallbacks[m][e][i] : e \in Events, i \in Identifiers})
  /\ UNCHANGED <<onceConnects, identifiedOnceConnects, walk>>

-----------------------------------------------------------------------------
(* Vectors that are erased from while they are walked *)

\* The slots of a vector that had all of them, after x is removed from the first n:
\* what is behind x moves up, and the last slot keeps what it has.
Erased(slots, n, x) ==
  [k \in DOMAIN slots |-> IF k < n /\ \E j \in 1 .. k : slots[j] = x THEN slots[k + 1]
                                                                  ELSE slots[k]]

\* ModuleManager::removeAllConnectionsById disconnects the module in slot k of an
\* event, if it has a callback for the identifier.
SweptSlot(acc, k, e, i) ==
  LET m == acc.slots[k]
      gone == Empty(Without(identifiedEventCallbacks[m][e], i))
  IN IF m \in acc.met \/ identifiedEventCallbacks[m][e][i] = NoRef THEN acc
     ELSE [slots |-> IF gone THEN Erased(acc.slots, acc.size, m) ELSE acc.slots,
           size  |-> IF gone THEN acc.size - 1 ELSE acc.size,
           met   |-> acc.met \cup {m}]

\* The slots after all of them, and the modules that were met there.
Swept(e, i) ==
  LET modules == identifiedModuleEvents[e]
      swept[k \in 0 .. Len(modules)] ==
        IF k = 0 THEN [slots |-> modules, size |-> Len(modules), met |-> {}]
                 ELSE SweptSlot(swept[k - 1], k, e, i)
  IN swept[Len(modules)]

RemoveAllConnectionsById(i) ==
  /\ Idle
  /\ identifiedEventCallbacks' =
       [m \in Modules |-> [e \in Events |->
          IF m \in Swept(e, i).met THEN Without(identifiedEventCallbacks[m][e], i)
                                   ELSE identifiedEventCallbacks[m][e]]]
  /\ identifiedModuleEvents' =
       [e \in Events |-> SubSeq(Swept(e, i).slots, 1, Swept(e, i).size)]
  /\ refs' = refs \ UNION {{identifiedEventCallbacks[m][e][i] : m \in Swept(e, i).met} : e \in Events}
  /\ UNCHANGED <<eventCallbacks, onceConnects, identifiedOnceConnects, moduleEvents, walk>>

-----------------------------------------------------------------------------
(* Emitting: emitNoRet, luaEmit and emit *)

\* The callbacks an emission should call.
Due(e) == UNION {ToSet(eventCallbacks[m][e]) : m \in Modules}

DueIdentified(e, i) == {identifiedEventCallbacks[m][e][i] : m \in Modules} \ {NoRef}

EmitPlain(e) ==
  /\ Idle /\ moduleEvents[e] # <<>>
  /\ walk' = [event |-> e, identifier |-> NoRef, modules |-> moduleEvents[e], m |-> 0,
              callbacks |-> <<>>, c |-> 0, last |-> NoRef, calls |-> <<>>, due |-> Due(e),
              erased |-> FALSE]
  /\ UNCHANGED <<modulesVars, registry, refs>>

EmitIdentified(e, i) ==
  /\ Idle /\ identifiedModuleEvents[e] # <<>>
  /\ walk' = [event |-> e, identifier |-> i, modules |-> identifiedModuleEvents[e], m |-> 0,
              callbacks |-> <<>>, c |-> 0, last |-> NoRef, calls |-> <<>>,
              due |-> DueIdentified(e, i), erased |-> FALSE]
  /\ UNCHANGED <<modulesVars, registry, refs>>

Plain      == walk # NoWalk /\ walk.identifier = NoRef
Identified == walk # NoWalk /\ walk.identifier # NoRef

\* The next module's callbacks; getEventCallback has none for a module that is
\* not connected any more.
NextModule ==
  /\ Plain /\ walk.c = Len(walk.callbacks) /\ walk.m < Len(walk.modules)
  /\ walk' = [walk EXCEPT !.m = @ + 1, !.c = 0,
                          !.callbacks = eventCallbacks[walk.modules[walk.m + 1]][walk.event]]
  /\ UNCHANGED <<modulesVars, registry, refs>>

\* A callback is called, and checkConnectOnce disconnects it if it is marked.
CallNext ==
  /\ Plain /\ walk.c < Len(walk.callbacks)
  /\ LET m == walk.modules[walk.m]
         e == walk.event
         r == walk.callbacks[walk.c + 1]
         called == [walk EXCEPT !.c = @ + 1, !.calls = Append(@, r)]
     IN IF ~Contains(onceConnects[m], r)
        THEN walk' = called /\ UNCHANGED <<modulesVars, registry, refs>>
        ELSE /\ onceConnects' = [onceConnects EXCEPT ![m] = RemoveFirst(@, r)]
             /\ Disconnect(m, e, r)
             /\ walk' = [called EXCEPT
                  !.erased = TRUE,
                  !.callbacks = Erased(@, Len(eventCallbacks[m][e]), r),
                  !.modules = IF moduleEvents'[e] = moduleEvents[e] THEN @
                              ELSE Erased(@, Len(moduleEvents[e]), m)]
             /\ UNCHANGED <<identifiedEventCallbacks, identifiedOnceConnects, identifiedModuleEvents>>

\* Mutant: a module that has moved up and is met again is called again.
CallsAgain(r) == r # NoRef

\* There is a callback, and it is not the one called last.
Calls(r) == r \notin {NoRef, walk.last}

\* The same of the next module's callback for the identifier, if it has one
\* that is not the one called last.  It may disconnect itself, by the function
\* luaModuleConnect returned; checkConnectOnce does so if it is marked.
CallIdentified ==
  /\ Identified /\ walk.m < Len(walk.modules)
  /\ LET m == walk.modules[walk.m + 1]
         e == walk.event
         i == walk.identifier
         r == identifiedEventCallbacks[m][e][i]
         called == [walk EXCEPT !.m = @ + 1, !.last = r, !.calls = Append(@, r)]
         marked == Contains(identifiedOnceConnects[m][e], i)
     IN \/ /\ ~Calls(r)
           /\ walk' = [walk EXCEPT !.m = @ + 1]
           /\ UNCHANGED <<modulesVars, registry, refs>>
        \/ /\ Calls(r) /\ ~marked
           /\ walk' = called
           /\ UNCHANGED <<modulesVars, registry, refs>>
        \/ /\ Calls(r)
           /\ identifiedOnceConnects' =
                IF marked THEN [identifiedOnceConnects EXCEPT ![m][e] = RemoveFirst(@, i)]
                          ELSE identifiedOnceConnects
           /\ DisconnectIdentified(m, e, i)
           /\ walk' = [called EXCEPT
                !.erased = TRUE,
                !.modules = IF identifiedModuleEvents'[e] = identifiedModuleEvents[e] THEN @
                            ELSE Erased(@, Len(identifiedModuleEvents[e]), m)]
           /\ UNCHANGED <<eventCallbacks, onceConnects, moduleEvents>>

Finished == walk # NoWalk /\ walk.m = Len(walk.modules) /\ walk.c = Len(walk.callbacks)

Return == Finished /\ walk' = NoWalk /\ UNCHANGED <<modulesVars, registry, refs>>

EventsNext == \/ Connects \/ Disconnects
              \/ \E m \in Modules : FreeConnections(m)
              \/ \E i \in Identifiers : RemoveAllConnectionsById(i)
              \/ \E e \in Events : EmitPlain(e)
              \/ \E e \in Events, i \in Identifiers : EmitIdentified(e, i)
              \/ NextModule \/ CallNext \/ CallIdentified \/ Return

EventsSpec == EventsInit /\ [][EventsNext]_eventsVars

-----------------------------------------------------------------------------
(* Properties *)

\* The manager and the modules agree: a module is registered for an event,
\* once, exactly while it has callbacks for it.
RegistryAgrees ==
  \A e \in Events :
     /\ IsInjective(moduleEvents[e]) /\ IsInjective(identifiedModuleEvents[e])
     /\ ToSet(moduleEvents[e]) = {m \in Modules : eventCallbacks[m][e] # <<>>}
     /\ ToSet(identifiedModuleEvents[e]) = {m \in Modules : ~Empty(identifiedEventCallbacks[m][e])}

\* A callback is connected once, under a reference that is in use.
RefsAreHeld ==
  /\ \A m \in Modules, e \in Events :
       /\ IsInjective(eventCallbacks[m][e]) /\ ToSet(eventCallbacks[m][e]) \subseteq refs
       /\ \A i \in Identifiers : identifiedEventCallbacks[m][e][i] \in refs \cup {NoRef}
  /\ \A m, n \in Modules, e, f \in Events :
       <<m, e>> # <<n, f>> => ToSet(eventCallbacks[m][e]) \cap ToSet(eventCallbacks[n][f]) = {}
  /\ \A m, n \in Modules, e, f \in Events, i, j \in Identifiers :
       identifiedEventCallbacks[m][e][i] # NoRef =>
         /\ identifiedEventCallbacks[m][e][i] \notin ToSet(eventCallbacks[n][f])
         /\ <<m, e, i>> # <<n, f, j>> =>
              identifiedEventCallbacks[m][e][i] # identifiedEventCallbacks[n][f][j]

\* While callbacks are erased under an emission it reads slots of vectors that
\* still exist, and calls references that are still in use.
EmissionReadsLive ==
  /\ Plain /\ walk.c < Len(walk.callbacks) =>
        /\ eventCallbacks[walk.modules[walk.m]][walk.event] # <<>>
        /\ walk.callbacks[walk.c + 1] \in refs
  /\ Plain /\ walk.m < Len(walk.modules) => moduleEvents[walk.event] # <<>>
  /\ Identified /\ walk.m < Len(walk.modules) => identifiedModuleEvents[walk.event] # <<>>

\* An emission calls no callback twice, an identified one not even when slots
\* move up and are read again behind the vector's new end (callback, in emit);
\* and it calls every callback that was connected when it began, if none is
\* disconnected meanwhile.
EmissionIsComplete ==
  Finished => /\ Identified \/ ~walk.erased => IsInjective(walk.calls)
              /\ ~walk.erased => ToSet(walk.calls) = walk.due
=============================================================================
