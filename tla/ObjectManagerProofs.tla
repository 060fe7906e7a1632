------------------------- MODULE ObjectManagerProofs -------------------------
(***************************************************************************)
(* Proofs about ObjectManager, for any number of wrappers, pages, browser  *)
(* contexts and ids.  The properties other than TypeOK are proved for      *)
(* applications that do not mix the two sources of ids.                    *)
(***************************************************************************)
EXTENDS ObjectManager, TLAPS

-----------------------------------------------------------------------------
\* The conjuncts of the inductive invariant.

\* A wrapper has an id from the moment one was drawn for it, and its counter
\* has passed that id.
IdsDrawn ==
  \A w \in Wrappers :
    /\ id[w] = 0 <=> js[w] = "none"
    /\ ContextMenuId(w) => id[w] <= next_menu_id
    /\ ~ContextMenuId(w) => id[w] <= next_object_id

\* No two wrappers have the same id.
IdsDistinct ==
  \A v, w \in Wrappers : id[v] = id[w] /\ id[v] # 0 => v = w

\* What the registry holds under an id was created for the wrapper with that id.
RegistryKeyed ==
  \A i \in Ids : registry[i] # NoWrapper =>
    /\ id[registry[i]] = i
    /\ js[registry[i]] \in {"reachable", "collected"}
    /\ managed[Manager(registry[i])]

\* A queued popup is of a menu the page still holds: the destroy request of a
\* menu is behind all its popups in the channel.
QueueReachable ==
  \A p \in Pages : \A n \in 1 .. Len(chan[p]) :
    page[chan[p][n]] = p /\ js[chan[p][n]] = "reachable"

\* The flags against the stack: only the menu that runs delays its destruction,
\* and it does so until its loop is told to quit.
DelayIsRunning ==
  /\ \A w \in Wrappers : delay_destruction[w] => running = w
  /\ running # NoWrapper /\ ~cancelled => delay_destruction[running]
  /\ cancelled => running # NoWrapper

\* Destruction is pending for collected wrappers only, and for every one that
\* is still registered.
PendingIsCollected ==
  \A w \in Wrappers :
    /\ pending_destruction[w] => js[w] = "collected"
    /\ js[w] = "collected" /\ registry[id[w]] = w =>
         pending_destruction[w] /\ running = w

\* The part that holds whatever classes the application uses.
TInv == TypeOK /\ IdsDrawn /\ QueueReachable

\* The part that needs OneCounter.
LifeInv ==
  /\ IdsDistinct
  /\ RegistryKeyed
  /\ DelayIsRunning
  /\ PendingIsCollected
  /\ ReachableIsBacked
  /\ RunningIsRegistered
  /\ ManagersDivideRegistry

Inv == TInv /\ LifeInv /\ OneCounter

-----------------------------------------------------------------------------
\* Deallocation keeps the type of the three variables it changes.
LEMMA DeallocateTypes ==
  ASSUME TypeOK, NEW f \in Profiles, NEW i, NEW d,
         OnDeallocateObject(f, i, d)
  PROVE  /\ registry' \in [Ids -> Wrappers \cup {NoWrapper}]
         /\ objects' \in [Profiles -> SUBSET Ids]
         /\ pending_destruction' \in [Wrappers -> BOOLEAN]
         /\ status_icon' \in [Wrappers -> BOOLEAN]
<1>1. registry' \in [Ids -> Wrappers \cup {NoWrapper}]
  BY DEF TypeOK, OnDeallocateObject
<1>2. objects' \in [Profiles -> SUBSET Ids]
  <2>1. objects[f] \ {i} \in SUBSET Ids
    BY DEF TypeOK
  <2>2. \/ objects' = objects
        \/ objects' = [objects EXCEPT ![f] = objects[f] \ {i}]
    BY DEF OnDeallocateObject
  <2> QED BY <2>1, <2>2 DEF TypeOK
<1>3. pending_destruction' \in [Wrappers -> BOOLEAN]
  BY DEF TypeOK, OnDeallocateObject
<1>4. status_icon' \in [Wrappers -> BOOLEAN]
  BY Zenon DEF TypeOK, OnDeallocateObject
<1> QED BY <1>1, <1>2, <1>3, <1>4

\* The manager of a wrapper is one of the managers.
LEMMA ManagerType ==
  ASSUME TypeOK, NEW w \in Wrappers
  PROVE  Manager(w) \in Profiles
BY ProfileAssumption DEF TypeOK, Manager

LEMMA InitTInv == Init => TInv
<1> SUFFICES ASSUME Init PROVE TInv
  OBVIOUS
<1>1. TypeOK
  <2>1. next_object_id \in 0 .. MaxId /\ next_menu_id \in 0 .. MaxId
    BY BoundAssumption DEF Init
  <2>2. chan \in [Pages -> Seq(Wrappers)]
    BY DEF Init
  <2>3. objects \in [Profiles -> SUBSET Ids]
    BY DEF Init
  <2>4. /\ id \in [Wrappers -> Ids \cup {0}]
        /\ js \in [Wrappers -> {"none", "allocated", "reachable", "collected"}]
        /\ registry \in [Ids -> Wrappers \cup {NoWrapper}]
    BY DEF Init
  <2> QED BY <2>1, <2>2, <2>3, <2>4, Zenon DEF Init, TypeOK
<1>2. IdsDrawn
  <2>1. \A w \in Wrappers : id[w] = 0 /\ js[w] = "none"
    BY DEF Init
  <2>2. next_menu_id = 0 /\ next_object_id = 0 /\ 0 <= 0
    BY DEF Init
  <2>3. \A w \in Wrappers : id[w] <= next_menu_id /\ id[w] <= next_object_id
    BY <2>1, <2>2
  <2> QED BY <2>1, <2>3, Zenon DEF IdsDrawn
<1>3. QueueReachable
  BY DEF Init, QueueReachable
<1> QED BY <1>1, <1>2, <1>3 DEF TInv

LEMMA NextTInv == TInv /\ [Next]_vars => TInv'
<1> SUFFICES ASSUME TInv, [Next]_vars PROVE TInv'
  OBVIOUS
<1> USE DEF TInv, ContextMenuId
<1>1. ASSUME NEW w \in Wrappers, AllocateId(w) PROVE TInv'
  <2>1. TypeOK'
    <3>1. CASE ContextMenuId(w)
      <4>1. next_menu_id + 1 \in Ids /\ next_menu_id + 1 \in 0 .. MaxId
        BY <1>1, <3>1, BoundAssumption DEF AllocateId, TypeOK, Ids
      <4> QED BY <1>1, <3>1, <4>1 DEF AllocateId, TypeOK, managers, flags
    <3>2. CASE ~ContextMenuId(w)
      <4>1. next_object_id + 1 \in Ids /\ next_object_id + 1 \in 0 .. MaxId
        BY <1>1, <3>2, BoundAssumption DEF AllocateId, TypeOK, Ids
      <4> QED BY <1>1, <3>2, <4>1 DEF AllocateId, TypeOK, managers, flags
    <3> QED BY <3>1, <3>2
  <2>2. IdsDrawn'
    BY <1>1, BoundAssumption DEF AllocateId, TypeOK, IdsDrawn, Ids
  <2>3. QueueReachable'
    BY <1>1 DEF AllocateId, TypeOK, QueueReachable
  <2> QED BY <2>1, <2>2, <2>3
<1>2. ASSUME NEW w \in Wrappers, OnAllocateObject(w) PROVE TInv'
  <2>1. TypeOK'
    BY <1>2, ManagerType
    DEF OnAllocateObject, IdsDrawn, TypeOK, Ids, counters, flags
  <2>2. IdsDrawn'
    BY <1>2 DEF OnAllocateObject, TypeOK, IdsDrawn, counters
  <2>3. QueueReachable'
    BY <1>2 DEF OnAllocateObject, TypeOK, QueueReachable
  <2> QED BY <2>1, <2>2, <2>3
<1>3. ASSUME NEW w \in Wrappers, Collect(w) PROVE TInv'
  <2>1. TypeOK'
    BY <1>3, ManagerType, DeallocateTypes DEF Collect, TypeOK, counters
  <2>2. IdsDrawn'
    BY <1>3 DEF Collect, TypeOK, IdsDrawn, counters
  <2>3. QueueReachable'
    BY <1>3 DEF Collect, CanRequest, TypeOK, QueueReachable
  <2> QED BY <2>1, <2>2, <2>3
<1>4. ASSUME NEW w \in Wrappers, TrayRemove(w) PROVE TInv'
  <2>1. TypeOK'
    BY <1>4 DEF TrayRemove, TypeOK, counters, managers, flags
  <2>2. IdsDrawn' /\ QueueReachable'
    BY <1>4 DEF TrayRemove, TypeOK, IdsDrawn, QueueReachable, counters
  <2> QED BY <2>1, <2>2
<1>r. ASSUME NEW w \in Wrappers, RecorderStart(w) \/ RecorderStopped(w) PROVE TInv'
  <2>1. TypeOK'
    BY <1>r DEF RecorderStart, RecorderStopped, TypeOK, counters, managers, flags
  <2>2. IdsDrawn' /\ QueueReachable'
    BY <1>r DEF RecorderStart, RecorderStopped, IdsDrawn, QueueReachable, counters
  <2> QED BY <2>1, <2>2
<1>5. ASSUME NEW w \in Wrappers, SendPopup(w) PROVE TInv'
  <2>1. TypeOK'
    BY <1>5 DEF SendPopup, TypeOK, jsVars, counters, managers, flags
  <2>2. IdsDrawn'
    BY <1>5 DEF SendPopup, IdsDrawn, jsVars, counters
  <2>3. QueueReachable'
    BY <1>5 DEF SendPopup, TypeOK, QueueReachable, jsVars
  <2> QED BY <2>1, <2>2, <2>3
<1>6. ASSUME NEW p \in Pages, HandlePopup(p) PROVE TInv'
  <2> DEFINE h   == Head(chan[p])
             obj == registry[id[h]]
  <2>h. /\ h \in Wrappers
        /\ chan' \in [Pages -> Seq(Wrappers)]
        /\ obj \in Wrappers \cup {NoWrapper}
    <3>1. chan[p] \in Seq(Wrappers) /\ chan[p] # <<>>
      BY <1>6 DEF HandlePopup, TypeOK
    <3>2. h \in Wrappers /\ Tail(chan[p]) \in Seq(Wrappers)
      BY <3>1
    <3>3. js[h] = "reachable"
      <4>1. 1 \in 1 .. Len(chan[p]) /\ h = chan[p][1]
        BY <3>1
      <4> QED BY <4>1 DEF QueueReachable
    <3>4. id[h] \in Ids
      BY <3>2, <3>3 DEF IdsDrawn, TypeOK
    <3> QED BY <1>6, <3>2, <3>4 DEF HandlePopup, TypeOK
  <2>u. UNCHANGED <<jsVars, counters>>
    BY <1>6 DEF HandlePopup
  <2>1. TypeOK'
    <3>1. CASE /\ obj = NoWrapper \/ (obj # NoWrapper /\ kind[obj] # "Menu")
               /\ UNCHANGED <<managers, flags, status_icon, running, cancelled>>
      BY <2>h, <2>u, <3>1 DEF TypeOK, jsVars, counters, managers, flags
    <3>2. CASE /\ obj # NoWrapper
               /\ running' = obj
               /\ delay_destruction' = [delay_destruction EXCEPT ![obj] = TRUE]
               /\ UNCHANGED <<managers, pending_destruction, status_icon, cancelled>>
      BY <2>h, <2>u, <3>2 DEF TypeOK, jsVars, counters, managers
    <3>3. CASE /\ obj # NoWrapper
               /\ cancelled' = TRUE
               /\ delay_destruction' = [delay_destruction EXCEPT ![obj] = FALSE]
               /\ IF pending_destruction[obj]
                    THEN OnDeallocateObject(Manager(obj), id[obj], delay_destruction')
                    ELSE UNCHANGED <<registry, objects, pending_destruction, status_icon>>
               /\ UNCHANGED <<managed, running>>
      <4>1. Manager(obj) \in Profiles
        BY <2>h, <3>3, ManagerType
      <4> HIDE DEF obj
      <4>2. /\ registry' \in [Ids -> Wrappers \cup {NoWrapper}]
            /\ objects' \in [Profiles -> SUBSET Ids]
            /\ pending_destruction' \in [Wrappers -> BOOLEAN]
            /\ status_icon' \in [Wrappers -> BOOLEAN]
        <5>1. CASE pending_destruction[obj]
          BY <3>3, <4>1, <5>1, DeallocateTypes
        <5>2. CASE ~pending_destruction[obj]
          BY <3>3, <5>2 DEF TypeOK
        <5> QED BY <5>1, <5>2
      <4> QED BY <2>h, <2>u, <3>3, <4>2 DEF TypeOK, jsVars, counters
    <3> QED BY <1>6, <3>1, <3>2, <3>3 DEF HandlePopup
  <2>2. IdsDrawn'
    BY <1>6 DEF HandlePopup, IdsDrawn, jsVars, counters
  <2>3. QueueReachable'
    BY <1>6 DEF HandlePopup, TypeOK, QueueReachable, jsVars
  <2> QED BY <2>1, <2>2, <2>3
<1>7. ASSUME NEW p \in Pages, Unload(p) PROVE TInv'
  BY <1>7 DEF Unload, TypeOK, IdsDrawn, QueueReachable, counters, managers, flags
<1>8. ASSUME NEW f \in Profiles, DestroyManager(f) PROVE TInv'
  <2>1. TypeOK'
    BY <1>8 DEF DestroyManager, TypeOK, counters, flags
  <2>2. IdsDrawn'
    BY <1>8 DEF DestroyManager, IdsDrawn, counters
  <2>3. QueueReachable'
    BY <1>8 DEF DestroyManager, TypeOK, QueueReachable
  <2> QED BY <2>1, <2>2, <2>3
<1>9. ASSUME PopupReturns PROVE TInv'
  <2>1. TypeOK'
    BY <1>9, ManagerType, DeallocateTypes, NoneAssumption
    DEF PopupReturns, TypeOK, jsVars, counters
  <2>2. IdsDrawn' /\ QueueReachable'
    BY <1>9 DEF PopupReturns, IdsDrawn, QueueReachable, jsVars, counters
  <2> QED BY <2>1, <2>2
<1>10. ASSUME UNCHANGED vars PROVE TInv'
  BY <1>10 DEF vars, TypeOK, IdsDrawn, QueueReachable, jsVars, counters,
               managers, flags, Ids
<1> QED
  BY <1>1, <1>2, <1>3, <1>4, <1>r, <1>5, <1>6, <1>7, <1>8, <1>9, <1>10 DEF Next

\* Every variable keeps its type, whatever classes the application uses.
THEOREM TypeCorrect == Spec => []TypeOK
<1>1. TInv => TypeOK
  BY DEF TInv
<1> QED BY InitTInv, NextTInv, <1>1, PTL DEF Spec

-----------------------------------------------------------------------------
LEMMA InitLifeInv == Init => LifeInv
<1> SUFFICES ASSUME Init PROVE LifeInv
  OBVIOUS
<1>1. IdsDistinct /\ RegistryKeyed /\ ReachableIsBacked /\ RunningIsRegistered
  BY NoneAssumption
  DEF Init, IdsDistinct, RegistryKeyed, ReachableIsBacked, RunningIsRegistered
<1>2. DelayIsRunning /\ PendingIsCollected
  BY DEF Init, DelayIsRunning, PendingIsCollected
<1>3. ManagersDivideRegistry
  BY DEF Init, ManagersDivideRegistry
<1> QED BY <1>1, <1>2, <1>3 DEF LifeInv

\* The facts about a wrapper's id that the action lemmas share.
LEMMA IdFacts ==
  ASSUME Inv, NEW w \in Wrappers
  PROVE  /\ js[w] # "none" => id[w] \in Ids
         /\ page[w] \in Pages
         /\ Manager(w) \in Profiles
         /\ w # NoWrapper
BY ManagerType, NoneAssumption DEF Inv, TInv, TypeOK, IdsDrawn

\* Drawing an id gives the wrapper one that no other wrapper has.
LEMMA AllocateIdLife ==
  ASSUME Inv, NEW w \in Wrappers, AllocateId(w)
  PROVE  LifeInv'
<1> USE DEF Inv, TInv, LifeInv
<1>0. UNCHANGED <<page, kind, loaded, managers, flags, running, cancelled>>
  BY DEF AllocateId
<1>1. IdsDistinct'
  <2>1. ASSUME NEW v \in Wrappers, v # w PROVE id'[v] # id'[w]
    <3>0. /\ id'[v] = id[v] /\ id[v] \in Nat
          /\ next_menu_id \in Nat /\ next_object_id \in Nat
      BY <2>1, BoundAssumption DEF AllocateId, TypeOK, Ids
    <3>1. CASE ~ContextMenuId(v) /\ ~ContextMenuId(w)
      <4>1. id[v] <= next_object_id /\ id'[w] = next_object_id + 1
        BY <3>1 DEF AllocateId, TypeOK, IdsDrawn
      <4> QED BY <3>0, <4>1
    <3>2. CASE ContextMenuId(v) /\ ContextMenuId(w)
      <4>1. id[v] <= next_menu_id /\ id'[w] = next_menu_id + 1
        BY <3>2 DEF AllocateId, TypeOK, IdsDrawn
      <4> QED BY <3>0, <4>1
    <3> QED BY <3>1, <3>2 DEF OneCounter
  <2>2. \A v \in Wrappers : v # w => id'[v] = id[v]
    BY DEF AllocateId, TypeOK
  <2> QED BY <2>1, <2>2 DEF IdsDistinct
<1>2. \A i \in Ids : registry[i] # w
  BY NoneAssumption DEF AllocateId, RegistryKeyed
<1>3. \A v \in Wrappers : v # w => id'[v] = id[v] /\ js'[v] = js[v]
  BY DEF AllocateId, TypeOK
<1>4. js[w] = "none" /\ js'[w] = "allocated"
  BY DEF AllocateId, TypeOK
<1>5. \A v \in Wrappers : Manager(v)' = Manager(v)
  BY <1>0 DEF Manager
<1>6. RegistryKeyed'
  BY <1>0, <1>2, <1>3, <1>5 DEF RegistryKeyed, TypeOK, managers
<1>7. DelayIsRunning'
  BY <1>0 DEF DelayIsRunning, flags
<1>8. PendingIsCollected'
  BY <1>0, <1>3, <1>4 DEF PendingIsCollected, flags, managers
<1>9. ReachableIsBacked'
  BY <1>0, <1>3, <1>4, <1>5 DEF ReachableIsBacked, managers
<1>10. RunningIsRegistered'
  BY <1>0 DEF RunningIsRegistered, Registered, managers
<1>11. ManagersDivideRegistry'
  BY <1>0, <1>5 DEF ManagersDivideRegistry, TypeOK, managers
<1> QED BY <1>1, <1>6, <1>7, <1>8, <1>9, <1>10, <1>11

\* Steps that leave the registry, the ids and the flags alone.
LEMMA FrameLife ==
  ASSUME Inv, UNCHANGED <<page, id, js, managers, flags, running, cancelled>>
  PROVE  LifeInv'
<1> USE DEF Inv, LifeInv
<1>1. \A v \in Wrappers : Manager(v)' = Manager(v)
  BY DEF Manager
<1>2. IdsDistinct' /\ DelayIsRunning' /\ PendingIsCollected'
  BY DEF IdsDistinct, DelayIsRunning, PendingIsCollected, managers, flags
<1>3. RegistryKeyed' /\ ReachableIsBacked' /\ RunningIsRegistered'
  BY DEF RegistryKeyed, ReachableIsBacked, RunningIsRegistered, Registered,
         Manager, managers
<1>4. ManagersDivideRegistry'
  BY DEF ManagersDivideRegistry, Manager, managers
<1> QED BY <1>2, <1>3, <1>4

\* The id of a wrapper under construction is free in the registry.
LEMMA AllocatedIsFree ==
  ASSUME Inv, NEW w \in Wrappers, js[w] = "allocated"
  PROVE  registry[id[w]] = NoWrapper
<1>1. id[w] \in Ids /\ id[w] # 0
  BY IdFacts DEF Inv, TInv, IdsDrawn
<1>2. SUFFICES ASSUME registry[id[w]] # NoWrapper PROVE FALSE
  OBVIOUS
<1>3. registry[id[w]] \in Wrappers /\ id[registry[id[w]]] = id[w]
  BY <1>1, <1>2 DEF Inv, TInv, LifeInv, TypeOK, RegistryKeyed
<1>4. registry[id[w]] = w
  BY <1>1, <1>3 DEF Inv, LifeInv, IdsDistinct
<1> QED BY <1>1, <1>2, <1>4 DEF Inv, LifeInv, RegistryKeyed

LEMMA CreateLife ==
  ASSUME Inv, NEW w \in Wrappers, OnAllocateObject(w)
  PROVE  LifeInv'
<1> USE DEF Inv, TInv, LifeInv
<1>0. /\ UNCHANGED <<page, id, managed, flags, running, cancelled>>
      /\ registry' = [registry EXCEPT ![id[w]] = w]
      /\ js' = [js EXCEPT ![w] = "reachable"]
      /\ objects' = [objects EXCEPT ![Manager(w)] = objects[Manager(w)] \cup {id[w]}]
      /\ js[w] = "allocated"
      /\ managed[Manager(w)]
  BY DEF OnAllocateObject, CanRequest, Manager
<1>1. /\ registry[id[w]] = NoWrapper
      /\ id[w] \in Ids
      /\ w # NoWrapper
      /\ Manager(w) \in Profiles
  BY <1>0, AllocatedIsFree, IdFacts
<1>2. \A v \in Wrappers : Manager(v)' = Manager(v)
  BY <1>0 DEF Manager
<1>3. /\ registry'[id[w]] = w
      /\ \A i \in Ids : i # id[w] => registry'[i] = registry[i]
      /\ js'[w] = "reachable"
      /\ \A v \in Wrappers : v # w => js'[v] = js[v]
  BY <1>0, <1>1 DEF TypeOK
<1>4. IdsDistinct' /\ DelayIsRunning'
  BY <1>0 DEF IdsDistinct, DelayIsRunning, flags
<1>5. RegistryKeyed'
  BY <1>0, <1>1, <1>2, <1>3 DEF RegistryKeyed, TypeOK
<1>6. PendingIsCollected'
  BY <1>0, <1>1, <1>3 DEF PendingIsCollected, flags, TypeOK
<1>7. ReachableIsBacked'
  <2>1. \A v \in Wrappers : v # w /\ js[v] = "reachable" => id[v] # id[w]
    BY <1>1 DEF IdsDistinct, Ids
  <2>2. \A v \in Wrappers : js[v] = "reachable" => id[v] \in Ids
    BY IdFacts
  <2> QED BY <1>0, <1>2, <1>3, <2>1, <2>2 DEF ReachableIsBacked
<1>8. RunningIsRegistered'
  BY <1>0, <1>1, <1>3 DEF RunningIsRegistered, Registered
<1>9. ManagersDivideRegistry'
  <2> SUFFICES ASSUME NEW f \in Profiles, NEW i \in Ids
               PROVE  i \in objects'[f] <=>
                        registry'[i] # NoWrapper /\ ProfileOf[page[registry'[i]]] = f
    BY <1>0 DEF ManagersDivideRegistry, Manager
  <2>2. i \in objects[f] <=> registry[i] # NoWrapper /\ ProfileOf[page[registry[i]]] = f
    BY DEF ManagersDivideRegistry, Manager
  <2>3. CASE f = Manager(w)
    <3>1. objects'[f] = objects[f] \cup {id[w]}
      BY <1>0, <1>1, <2>3 DEF TypeOK
    <3> QED BY <1>1, <1>2, <1>3, <2>2, <2>3, <3>1 DEF Manager
  <2>4. CASE f # Manager(w)
    <3>1. objects'[f] = objects[f]
      BY <1>0, <1>1, <2>4 DEF TypeOK
    <3> QED BY <1>1, <1>2, <1>3, <2>2, <2>4, <3>1 DEF Manager
  <2> QED BY <2>3, <2>4
<1> QED BY <1>4, <1>5, <1>6, <1>7, <1>8, <1>9

\* Removing the object of wrapper w from the registry and from its manager.
LEMMA RemoveDivides ==
  ASSUME Inv, NEW w \in Wrappers, registry[id[w]] = w, id[w] \in Ids,
         registry' = [registry EXCEPT ![id[w]] = NoWrapper],
         objects' = [objects EXCEPT ![Manager(w)] = objects[Manager(w)] \ {id[w]}],
         UNCHANGED page
  PROVE  /\ ManagersDivideRegistry'
         /\ registry'[id[w]] = NoWrapper
         /\ \A i \in Ids : i # id[w] => registry'[i] = registry[i]
         /\ \A i \in Ids : registry'[i] # w
<1> USE DEF Inv, TInv, LifeInv
<1>1. Manager(w) \in Profiles /\ w # NoWrapper
  BY IdFacts
<1>2. \A v \in Wrappers : Manager(v)' = Manager(v)
  BY DEF Manager
<1>3. /\ registry'[id[w]] = NoWrapper
      /\ \A i \in Ids : i # id[w] => registry'[i] = registry[i]
  BY DEF TypeOK
<1>4. ManagersDivideRegistry'
  <2> SUFFICES ASSUME NEW f \in Profiles, NEW i \in Ids
               PROVE  i \in objects'[f] <=>
                        registry'[i] # NoWrapper /\ ProfileOf[page[registry'[i]]] = f
    BY DEF ManagersDivideRegistry, Manager
  <2>2. i \in objects[f] <=> registry[i] # NoWrapper /\ ProfileOf[page[registry[i]]] = f
    BY DEF ManagersDivideRegistry, Manager
  <2>3. CASE f = Manager(w)
    <3>1. objects'[f] = objects[f] \ {id[w]}
      BY <1>1, <2>3 DEF TypeOK
    <3> QED BY <1>1, <1>2, <1>3, <2>2, <2>3, <3>1 DEF Manager
  <2>4. CASE f # Manager(w)
    <3>1. objects'[f] = objects[f]
      BY <1>1, <2>4 DEF TypeOK
    <3> QED BY <1>1, <1>2, <1>3, <2>2, <2>4, <3>1 DEF Manager
  <2> QED BY <2>3, <2>4
<1>5. \A i \in Ids : registry'[i] # w
  BY <1>1, <1>3 DEF RegistryKeyed
<1> QED BY <1>3, <1>4, <1>5

LEMMA CollectLife ==
  ASSUME Inv, NEW w \in Wrappers, Collect(w)
  PROVE  LifeInv'
<1> USE DEF Inv, TInv, LifeInv
<1>0. /\ UNCHANGED <<page, id, managed, delay_destruction, running, cancelled>>
      /\ js' = [js EXCEPT ![w] = "collected"]
      /\ js[w] = "reachable" /\ managed[Manager(w)] /\ ~cancelled
      /\ OnDeallocateObject(Manager(w), id[w], delay_destruction)
  BY DEF Collect, CanRequest, Manager, Unwinding
<1>1. registry[id[w]] = w /\ id[w] \in Ids /\ w # NoWrapper
  BY <1>0, IdFacts DEF ReachableIsBacked
<1>2. \A v \in Wrappers : Manager(v)' = Manager(v)
  BY <1>0 DEF Manager
<1>3. /\ js'[w] = "collected"
      /\ \A v \in Wrappers : v # w => js'[v] = js[v]
  BY <1>0 DEF TypeOK
<1>4. \A v \in Wrappers : v # w /\ js[v] # "none" => id[v] # id[w] /\ id[v] \in Ids
  BY <1>1, IdFacts DEF IdsDistinct, Ids
<1>5. IdsDistinct' /\ DelayIsRunning'
  BY <1>0 DEF IdsDistinct, DelayIsRunning
<1>6. CASE delay_destruction[w]
  <2>1. /\ UNCHANGED <<registry, objects>>
        /\ pending_destruction' = [pending_destruction EXCEPT ![w] = TRUE]
    BY <1>0, <1>1, <1>6 DEF OnDeallocateObject
  <2>2. running = w
    BY <1>6 DEF DelayIsRunning
  <2>3. RegistryKeyed'
    BY <1>0, <1>2, <1>3, <2>1 DEF RegistryKeyed, TypeOK
  <2>4. PendingIsCollected'
    BY <1>0, <1>3, <2>1, <2>2 DEF PendingIsCollected, TypeOK
  <2>5. ReachableIsBacked' /\ RunningIsRegistered'
    BY <1>0, <1>2, <1>3, <2>1 DEF ReachableIsBacked, RunningIsRegistered, Registered
  <2>6. ManagersDivideRegistry'
    BY <1>0, <2>1 DEF ManagersDivideRegistry, Manager
  <2> QED BY <1>5, <2>3, <2>4, <2>5, <2>6
<1>7. CASE ~delay_destruction[w]
  <2>1. /\ registry' = [registry EXCEPT ![id[w]] = NoWrapper]
        /\ objects' = [objects EXCEPT ![Manager(w)] = objects[Manager(w)] \ {id[w]}]
        /\ UNCHANGED pending_destruction
    BY <1>0, <1>1, <1>7 DEF OnDeallocateObject
  <2>2. running # w
    BY <1>0, <1>1, <1>7 DEF DelayIsRunning
  <2>3. /\ ManagersDivideRegistry'
        /\ registry'[id[w]] = NoWrapper
        /\ \A i \in Ids : i # id[w] => registry'[i] = registry[i]
    BY <1>0, <1>1, <2>1, RemoveDivides
  <2>4. RegistryKeyed'
    <3> SUFFICES ASSUME NEW i \in Ids, registry'[i] # NoWrapper
                 PROVE  /\ id[registry'[i]] = i
                        /\ js'[registry'[i]] \in {"reachable", "collected"}
                        /\ managed[ProfileOf[page[registry'[i]]]]
      BY <1>0 DEF RegistryKeyed, Manager
    <3>1. registry'[i] = registry[i] /\ i # id[w]
      BY <2>3
    <3>2. registry[i] \in Wrappers /\ registry[i] # w
      BY <3>1 DEF TypeOK, RegistryKeyed
    <3> QED BY <1>3, <3>1, <3>2 DEF RegistryKeyed, Manager
  <2>5. PendingIsCollected'
    BY <1>0, <1>1, <1>3, <1>4, <2>1, <2>3 DEF PendingIsCollected, TypeOK
  <2>6. ReachableIsBacked'
    BY <1>0, <1>2, <1>3, <1>4, <2>3 DEF ReachableIsBacked
  <2>7. RunningIsRegistered'
    BY <1>0, <1>1, <2>2, <2>3 DEF RunningIsRegistered, Registered
  <2> QED BY <1>5, <2>3, <2>4, <2>5, <2>6, <2>7
<1> QED BY <1>6, <1>7

\* The popup at the head of a channel is of a registered menu of that page,
\* which no destroy request has reached yet.
LEMMA HeadFacts ==
  ASSUME Inv, NEW p \in Pages, chan[p] # <<>>, managed[ProfileOf[p]]
  PROVE  /\ Head(chan[p]) \in Wrappers
         /\ registry[id[Head(chan[p])]] = Head(chan[p])
         /\ id[Head(chan[p])] \in Ids
         /\ ~pending_destruction[Head(chan[p])]
         /\ js[Head(chan[p])] = "reachable"
<1> USE DEF Inv, TInv, LifeInv
<1> DEFINE h == Head(chan[p])
<1>1. chan[p] \in Seq(Wrappers)
  BY DEF TypeOK
<1>2. h \in Wrappers /\ 1 \in 1 .. Len(chan[p]) /\ h = chan[p][1]
  BY <1>1
<1>3. page[h] = p /\ js[h] = "reachable"
  BY <1>2 DEF QueueReachable
<1> HIDE DEF h
<1>4. registry[id[h]] = h
  BY <1>2, <1>3 DEF ReachableIsBacked, Manager
<1>5. ~pending_destruction[h] /\ id[h] \in Ids
  BY <1>2, <1>3, IdFacts DEF PendingIsCollected
<1> QED BY <1>2, <1>3, <1>4, <1>5 DEF h

LEMMA HandlePopupLife ==
  ASSUME Inv, NEW p \in Pages, HandlePopup(p)
  PROVE  LifeInv'
<1> USE DEF Inv, TInv, LifeInv
<1> DEFINE h == Head(chan[p])
<1>0. /\ UNCHANGED <<page, id, js>>
      /\ ~cancelled
  BY DEF HandlePopup, jsVars, Unwinding
<1>1. /\ h \in Wrappers /\ h # NoWrapper
      /\ registry[id[h]] = h
      /\ id[h] \in Ids
      /\ ~pending_destruction[h]
      /\ js[h] = "reachable"
  BY HeadFacts, IdFacts DEF HandlePopup
<1>2. CASE UNCHANGED <<managers, flags, status_icon, running, cancelled>>
  BY <1>0, <1>2, FrameLife
<1>3. CASE /\ running = NoWrapper
           /\ running' = h
           /\ delay_destruction' = [delay_destruction EXCEPT ![h] = TRUE]
           /\ UNCHANGED <<managers, pending_destruction, cancelled>>
  <2> HIDE DEF h
  <2>1. IdsDistinct' /\ RegistryKeyed' /\ ReachableIsBacked' /\ ManagersDivideRegistry'
    BY <1>0, <1>3 DEF IdsDistinct, RegistryKeyed, ReachableIsBacked,
                      ManagersDivideRegistry, Manager, managers
  <2>2. DelayIsRunning'
    BY <1>0, <1>1, <1>3, NoneAssumption DEF DelayIsRunning, TypeOK
  <2>3. PendingIsCollected'
    BY <1>0, <1>3, NoneAssumption DEF PendingIsCollected, managers
  <2>4. RunningIsRegistered'
    BY <1>1, <1>3 DEF RunningIsRegistered, Registered, managers
  <2> QED BY <2>1, <2>2, <2>3, <2>4
<1>4. CASE /\ running # NoWrapper
           /\ cancelled' = TRUE
           /\ delay_destruction' = [delay_destruction EXCEPT ![h] = FALSE]
           /\ UNCHANGED <<managers, pending_destruction, running>>
  <2> HIDE DEF h
  <2>1. IdsDistinct' /\ RegistryKeyed' /\ ReachableIsBacked' /\ ManagersDivideRegistry'
    BY <1>0, <1>4 DEF IdsDistinct, RegistryKeyed, ReachableIsBacked,
                      ManagersDivideRegistry, Manager, managers
  <2>2. DelayIsRunning'
    BY <1>0, <1>1, <1>4 DEF DelayIsRunning, TypeOK
  <2>3. PendingIsCollected' /\ RunningIsRegistered'
    BY <1>0, <1>4 DEF PendingIsCollected, RunningIsRegistered, Registered, managers
  <2> QED BY <2>1, <2>2, <2>3
<1> QED BY <1>1, <1>2, <1>3, <1>4 DEF HandlePopup, managers

LEMMA PopupReturnsLife ==
  ASSUME Inv, PopupReturns
  PROVE  LifeInv'
<1> USE DEF Inv, TInv, LifeInv
<1>0. /\ UNCHANGED <<page, id, js, managed>>
      /\ running # NoWrapper /\ running' = NoWrapper /\ cancelled' = FALSE
      /\ delay_destruction' = [delay_destruction EXCEPT ![running] = FALSE]
  BY DEF PopupReturns, jsVars
<1>1. /\ running \in Wrappers
      /\ registry[id[running]] = running
      /\ id[running] \in Ids
  BY <1>0 DEF RunningIsRegistered, Registered, RegistryKeyed, TypeOK
<1>2. IdsDistinct'
  BY <1>0 DEF IdsDistinct
<1>3. DelayIsRunning'
  BY <1>0, <1>1 DEF DelayIsRunning, TypeOK
<1>4. RunningIsRegistered'
  BY <1>0 DEF RunningIsRegistered
<1>5. CASE pending_destruction[running]
  <2>1. /\ registry' = [registry EXCEPT ![id[running]] = NoWrapper]
        /\ objects' = [objects EXCEPT ![Manager(running)] =
                         objects[Manager(running)] \ {id[running]}]
        /\ UNCHANGED pending_destruction
    <3>1. ~delay_destruction'[running]
      BY <1>0, <1>1 DEF TypeOK
    <3> QED BY <1>0, <1>1, <1>5, <3>1 DEF PopupReturns, OnDeallocateObject
  <2>2. /\ ManagersDivideRegistry'
        /\ registry'[id[running]] = NoWrapper
        /\ \A i \in Ids : i # id[running] => registry'[i] = registry[i]
        /\ \A i \in Ids : registry'[i] # running
    BY <1>0, <1>1, <2>1, RemoveDivides
  <2>3. js[running] = "collected"
    BY <1>1, <1>5 DEF PendingIsCollected
  <2>4. \A v \in Wrappers : v # running /\ js[v] # "none" => id[v] # id[running] /\ id[v] \in Ids
    BY <1>1, IdFacts DEF IdsDistinct, Ids
  <2>5. RegistryKeyed'
    BY <1>0, <2>2 DEF RegistryKeyed, Manager
  <2>6. PendingIsCollected'
    BY <1>0, <1>1, <2>1, <2>2, <2>4 DEF PendingIsCollected, TypeOK
  <2>7. ReachableIsBacked'
    BY <1>0, <2>2, <2>3, <2>4 DEF ReachableIsBacked, Manager
  <2> QED BY <1>2, <1>3, <1>4, <2>2, <2>5, <2>6, <2>7
<1>6. CASE ~pending_destruction[running]
  <2>1. UNCHANGED <<registry, objects, pending_destruction>>
    BY <1>6 DEF PopupReturns
  <2>2. RegistryKeyed' /\ ReachableIsBacked' /\ ManagersDivideRegistry'
    BY <1>0, <2>1 DEF RegistryKeyed, ReachableIsBacked, ManagersDivideRegistry, Manager
  <2>3. PendingIsCollected'
    BY <1>0, <1>6, <2>1 DEF PendingIsCollected
  <2> QED BY <1>2, <1>3, <1>4, <2>2, <2>3
<1> QED BY <1>5, <1>6

LEMMA DestroyManagerLife ==
  ASSUME Inv, NEW f \in Profiles, DestroyManager(f)
  PROVE  LifeInv'
<1> USE DEF Inv, TInv, LifeInv
<1>0. /\ UNCHANGED <<page, id, js, flags, running, cancelled>>
      /\ running = NoWrapper
      /\ managed' = [managed EXCEPT ![f] = FALSE]
      /\ registry' = [i \in Ids |-> IF i \in objects[f] THEN NoWrapper ELSE registry[i]]
      /\ objects' = [objects EXCEPT ![f] = {}]
  BY DEF DestroyManager
<1>1. IdsDistinct' /\ DelayIsRunning' /\ RunningIsRegistered'
  BY <1>0 DEF IdsDistinct, DelayIsRunning, RunningIsRegistered, flags
<1>2. \A i \in Ids : registry'[i] # NoWrapper =>
        registry'[i] = registry[i] /\ Manager(registry[i]) # f
  BY <1>0 DEF ManagersDivideRegistry
<1>3. \A i \in Ids : registry[i] # NoWrapper /\ Manager(registry[i]) # f =>
        registry'[i] = registry[i]
  BY <1>0 DEF ManagersDivideRegistry
<1>4. RegistryKeyed'
  <2> SUFFICES ASSUME NEW i \in Ids, registry'[i] # NoWrapper
               PROVE  /\ id[registry'[i]] = i
                      /\ js[registry'[i]] \in {"reachable", "collected"}
                      /\ managed'[ProfileOf[page[registry'[i]]]]
    BY <1>0 DEF RegistryKeyed, Manager
  <2>1. registry[i] \in Wrappers
    BY <1>2 DEF TypeOK
  <2> QED BY <1>0, <1>2, <2>1, ManagerType DEF RegistryKeyed, Manager, TypeOK
<1>5. PendingIsCollected'
  <2>1. \A w \in Wrappers : js[w] = "collected" => id[w] \in Ids /\ w # NoWrapper
    BY IdFacts
  <2> QED BY <1>0, <1>2, <2>1 DEF PendingIsCollected, flags
<1>6. ReachableIsBacked'
  <2> SUFFICES ASSUME NEW w \in Wrappers, js[w] = "reachable", managed'[Manager(w)]
               PROVE  registry'[id[w]] = w
    BY <1>0 DEF ReachableIsBacked, Manager
  <2>1. Manager(w) # f /\ managed[Manager(w)]
    BY <1>0, ManagerType DEF TypeOK
  <2>2. registry[id[w]] = w /\ id[w] \in Ids /\ w # NoWrapper
    BY <2>1, IdFacts DEF ReachableIsBacked
  <2> QED BY <1>3, <2>1, <2>2
<1>7. ManagersDivideRegistry'
  <2> SUFFICES ASSUME NEW g \in Profiles, NEW i \in Ids
               PROVE  i \in objects'[g] <=>
                        registry'[i] # NoWrapper /\ ProfileOf[page[registry'[i]]] = g
    BY <1>0 DEF ManagersDivideRegistry, Manager
  <2>1. i \in objects[g] <=> registry[i] # NoWrapper /\ ProfileOf[page[registry[i]]] = g
    BY DEF ManagersDivideRegistry, Manager
  <2>2. CASE g = f
    BY <1>0, <1>2, <2>2 DEF TypeOK, Manager
  <2>3. CASE g # f
    <3>1. objects'[g] = objects[g]
      BY <1>0, <2>3 DEF TypeOK
    <3> QED BY <1>2, <1>3, <2>1, <2>3, <3>1 DEF Manager
  <2> QED BY <2>2, <2>3
<1> QED BY <1>1, <1>4, <1>5, <1>6, <1>7

\* No step changes the class of a wrapper.
LEMMA KindConstant == [Next]_vars => kind' = kind
BY DEF Next, vars, jsVars, AllocateId, OnAllocateObject, Collect, TrayRemove,
       RecorderStart, RecorderStopped, SendPopup, HandlePopup, Unload, DestroyManager, PopupReturns

LEMMA InitInv == ~Mixed /\ Init => Inv
<1> SUFFICES ASSUME ~Mixed, Init PROVE Inv
  OBVIOUS
<1>1. OneCounter
  BY DEF Init
<1> QED BY <1>1, InitTInv, InitLifeInv DEF Inv

LEMMA NextInv == Inv /\ [Next]_vars => Inv'
<1> SUFFICES ASSUME Inv, [Next]_vars PROVE Inv'
  OBVIOUS
<1>a. TInv'
  BY NextTInv DEF Inv
<1>b. OneCounter'
  BY KindConstant DEF Inv, OneCounter, ContextMenuId
<1>1. ASSUME NEW w \in Wrappers, AllocateId(w) PROVE LifeInv'
  BY <1>1, AllocateIdLife
<1>2. ASSUME NEW w \in Wrappers, OnAllocateObject(w) PROVE LifeInv'
  BY <1>2, CreateLife
<1>3. ASSUME NEW w \in Wrappers, Collect(w) PROVE LifeInv'
  BY <1>3, CollectLife
<1>4. ASSUME NEW w \in Wrappers, TrayRemove(w) PROVE LifeInv'
  BY <1>4, FrameLife DEF TrayRemove
<1>r. ASSUME NEW w \in Wrappers, RecorderStart(w) \/ RecorderStopped(w) PROVE LifeInv'
  BY <1>r, FrameLife DEF RecorderStart, RecorderStopped
<1>5. ASSUME NEW w \in Wrappers, SendPopup(w) PROVE LifeInv'
  BY <1>5, FrameLife DEF SendPopup, jsVars
<1>6. ASSUME NEW p \in Pages, HandlePopup(p) PROVE LifeInv'
  BY <1>6, HandlePopupLife
<1>7. ASSUME NEW p \in Pages, Unload(p) PROVE LifeInv'
  BY <1>7, FrameLife DEF Unload
<1>8. ASSUME NEW f \in Profiles, DestroyManager(f) PROVE LifeInv'
  BY <1>8, DestroyManagerLife
<1>9. ASSUME PopupReturns PROVE LifeInv'
  BY <1>9, PopupReturnsLife
<1>10. ASSUME UNCHANGED vars PROVE LifeInv'
  BY <1>10, FrameLife DEF vars, jsVars
<1>11. LifeInv'
  BY <1>1, <1>2, <1>3, <1>4, <1>r, <1>5, <1>6, <1>7, <1>8, <1>9, <1>10 DEF Next
<1> QED BY <1>a, <1>b, <1>11 DEF Inv

\* When an application does not use a Tray or a MediaRecorder beside a Menu or a
\* MenuItem, so that all its ids come from one counter, a wrapper
\* that can be called keeps its own native object until its browser context
\* goes, whatever is constructed, collected and popped up meanwhile.
THEOREM Backed == ~Mixed => (Spec => []ReachableIsBacked)
<1> SUFFICES ASSUME ~Mixed PROVE Spec => []ReachableIsBacked
  OBVIOUS
<1>1. Init => Inv
  BY InitInv
<1>2. Inv /\ [Next]_vars => Inv'
  BY NextInv
<1>3. Inv => ReachableIsBacked
  BY DEF Inv, LifeInv
<1> QED BY <1>1, <1>2, <1>3, PTL DEF Spec

\* The menu whose nested loop runs is not deleted under it.
THEOREM DestructionIsDelayed == ~Mixed => (Spec => []RunningIsRegistered)
<1> SUFFICES ASSUME ~Mixed PROVE Spec => []RunningIsRegistered
  OBVIOUS
<1>1. Init => Inv
  BY InitInv
<1>2. Inv /\ [Next]_vars => Inv'
  BY NextInv
<1>3. Inv => RunningIsRegistered
  BY DEF Inv, LifeInv
<1> QED BY <1>1, <1>2, <1>3, PTL DEF Spec

\* No object of a collected wrapper outlives its last Popup.
THEOREM DestructionIsDone == ~Mixed => (Spec => []NoZombie)
<1> SUFFICES ASSUME ~Mixed PROVE Spec => []NoZombie
  OBVIOUS
<1>1. Init => Inv
  BY InitInv
<1>2. Inv /\ [Next]_vars => Inv'
  BY NextInv
<1>3. Inv => NoZombie
  <2> SUFFICES ASSUME Inv, NEW w \in Wrappers, js[w] = "collected",
                      NEW i \in Ids, registry[i] = w
               PROVE  running = w
    BY DEF NoZombie, Registered
  <2>1. registry[id[w]] = w
    BY NoneAssumption DEF Inv, LifeInv, RegistryKeyed
  <2> QED BY <2>1 DEF Inv, LifeInv, PendingIsCollected
<1> QED BY <1>1, <1>2, <1>3, PTL DEF Spec

\* Every registered object is in the objects_ set of its own manager and in no
\* other, which is what ~ObjectManager relies on.
THEOREM RegistryDivided == ~Mixed => (Spec => []ManagersDivideRegistry)
<1> SUFFICES ASSUME ~Mixed PROVE Spec => []ManagersDivideRegistry
  OBVIOUS
<1>1. Init => Inv
  BY InitInv
<1>2. Inv /\ [Next]_vars => Inv'
  BY NextInv
<1>3. Inv => ManagersDivideRegistry
  BY DEF Inv, LifeInv
<1> QED BY <1>1, <1>2, <1>3, PTL DEF Spec

-----------------------------------------------------------------------------
\* An icon belongs to the wrapper that the registry holds under its own id.
IconKeyed ==
  \A w \in Wrappers : status_icon[w] => id[w] \in Ids /\ registry[id[w]] = w

\* A deallocation takes the icon off with the object.
LEMMA DeallocateIcon ==
  ASSUME TypeOK, IconKeyed, NEW f, NEW i \in Ids, NEW d,
         OnDeallocateObject(f, i, d), UNCHANGED id
  PROVE  IconKeyed'
<1>1. CASE UNCHANGED <<registry, status_icon>>
  BY <1>1 DEF IconKeyed
<1>2. CASE /\ registry' = [registry EXCEPT ![i] = NoWrapper]
           /\ status_icon' = [w \in Wrappers |-> status_icon[w] /\ w # registry[i]]
  <2> SUFFICES ASSUME NEW w \in Wrappers, status_icon'[w]
               PROVE  id[w] \in Ids /\ registry'[id[w]] = w
    BY DEF IconKeyed
  <2>1. status_icon[w] /\ w # registry[i]
    BY <1>2
  <2>2. id[w] \in Ids /\ registry[id[w]] = w /\ id[w] # i
    BY <2>1 DEF IconKeyed
  <2> QED BY <1>2, <2>2 DEF TypeOK
<1> QED BY <1>1, <1>2 DEF OnDeallocateObject

LEMMA NextIcon ==
  ASSUME Inv, IconKeyed, [Next]_vars
  PROVE  IconKeyed'
<1> USE DEF Inv, TInv, LifeInv
<1>1. ASSUME NEW w \in Wrappers, AllocateId(w) PROVE IconKeyed'
  <2>1. ~status_icon[w]
    BY <1>1 DEF AllocateId, IdsDrawn, IconKeyed, Ids
  <2>2. \A v \in Wrappers : v # w => id'[v] = id[v]
    BY <1>1 DEF AllocateId, TypeOK
  <2> QED BY <1>1, <2>1, <2>2 DEF AllocateId, IconKeyed, managers
<1>2. ASSUME NEW w \in Wrappers, OnAllocateObject(w) PROVE IconKeyed'
  <2>0. js[w] = "allocated" /\ UNCHANGED id
    BY <1>2 DEF OnAllocateObject
  <2>1. id[w] \in Ids
    BY <2>0, IdFacts
  <2>2. /\ registry'[id[w]] = w
        /\ \A i \in Ids : i # id[w] => registry'[i] = registry[i]
    BY <1>2, <2>1 DEF OnAllocateObject, TypeOK
  <2> SUFFICES ASSUME NEW v \in Wrappers, status_icon'[v], v # w
               PROVE  id[v] \in Ids /\ registry'[id[v]] = v
    BY <2>0, <2>1, <2>2 DEF IconKeyed
  <2>3. status_icon[v]
    BY <1>2, Zenon DEF OnAllocateObject, TypeOK
  <2>4. id[v] \in Ids /\ registry[id[v]] = v
    BY <2>3 DEF IconKeyed
  <2>5. id[v] # id[w]
    BY <2>0, <2>1, <2>4 DEF IdsDistinct, Ids
  <2> QED BY <2>2, <2>4, <2>5
<1>3. ASSUME NEW w \in Wrappers, Collect(w) PROVE IconKeyed'
  <2>1. id[w] \in Ids
    BY <1>3, IdFacts DEF Collect
  <2> QED BY <1>3, <2>1, DeallocateIcon DEF Collect
<1>4. ASSUME NEW w \in Wrappers, TrayRemove(w) PROVE IconKeyed'
  <2>1. \A v \in Wrappers : status_icon'[v] => status_icon[v]
    BY <1>4, Zenon DEF TrayRemove, TypeOK
  <2> QED BY <1>4, <2>1 DEF TrayRemove, IconKeyed, managers
<1>r. ASSUME NEW w \in Wrappers, RecorderStart(w) \/ RecorderStopped(w)
      PROVE  IconKeyed'
  BY <1>r DEF RecorderStart, RecorderStopped, IconKeyed, managers
<1>5. ASSUME NEW w \in Wrappers, SendPopup(w) PROVE IconKeyed'
  BY <1>5 DEF SendPopup, IconKeyed, managers, jsVars
<1>6. ASSUME NEW p \in Pages, HandlePopup(p) PROVE IconKeyed'
  <2> DEFINE h == registry[id[Head(chan[p])]]
  <2>1. UNCHANGED id
    BY <1>6 DEF HandlePopup, jsVars
  <2>2. h \in Wrappers /\ id[h] \in Ids
    BY <1>6, HeadFacts, IdFacts DEF HandlePopup
  <2>3. CASE UNCHANGED <<registry, status_icon>>
    BY <2>1, <2>3 DEF IconKeyed
  <2>4. CASE OnDeallocateObject(Manager(h), id[h], delay_destruction')
    BY <2>1, <2>2, <2>4, DeallocateIcon
  <2> QED BY <1>6, <2>3, <2>4 DEF HandlePopup, managers
<1>7. ASSUME NEW p \in Pages, Unload(p) PROVE IconKeyed'
  BY <1>7 DEF Unload, IconKeyed, managers
<1>8. ASSUME NEW f \in Profiles, DestroyManager(f) PROVE IconKeyed'
  <2>1. /\ UNCHANGED id
        /\ registry' = [i \in Ids |-> IF i \in objects[f] THEN NoWrapper ELSE registry[i]]
        /\ status_icon' = [w \in Wrappers |->
                             status_icon[w] /\ ~\E i \in objects[f] : registry[i] = w]
    BY <1>8 DEF DestroyManager
  <2> SUFFICES ASSUME NEW v \in Wrappers, status_icon'[v]
               PROVE  id[v] \in Ids /\ registry'[id[v]] = v
    BY <2>1 DEF IconKeyed
  <2>2. status_icon[v] /\ ~\E i \in objects[f] : registry[i] = v
    BY <2>1
  <2>3. id[v] \in Ids /\ registry[id[v]] = v
    BY <2>2 DEF IconKeyed
  <2> QED BY <2>1, <2>2, <2>3
<1>9. ASSUME PopupReturns PROVE IconKeyed'
  <2>1. UNCHANGED id
    BY <1>9 DEF PopupReturns, jsVars
  <2>2. running \in Wrappers /\ running # NoWrapper
    BY <1>9 DEF PopupReturns, TypeOK
  <2>3. CASE pending_destruction[running]
    <3>1. js[running] # "none"
      BY <2>2, <2>3 DEF PendingIsCollected
    <3>2. id[running] \in Ids
      BY <2>2, <3>1, IdFacts
    <3> QED BY <1>9, <2>1, <2>3, <3>2, DeallocateIcon DEF PopupReturns
  <2>4. CASE ~pending_destruction[running]
    BY <1>9, <2>1, <2>4 DEF PopupReturns, IconKeyed
  <2> QED BY <2>3, <2>4
<1>10. ASSUME UNCHANGED vars PROVE IconKeyed'
  BY <1>10 DEF vars, jsVars, managers, IconKeyed
<1> QED BY <1>1, <1>2, <1>3, <1>4, <1>r, <1>5, <1>6, <1>7, <1>8, <1>9, <1>10 DEF Next

\* No status icon stays on the desktop when the Tray that its observer points to
\* is deleted: by remove, by collection, or with the browser context.
THEOREM IconNeedsTray == ~Mixed => (Spec => []IconIsBacked)
<1> SUFFICES ASSUME ~Mixed PROVE Spec => []IconIsBacked
  OBVIOUS
<1>1. Init => Inv /\ IconKeyed
  <2>1. Init => Inv
    BY InitInv
  <2>2. Init => IconKeyed
    BY DEF Init, IconKeyed
  <2> QED BY <2>1, <2>2
<1>2. Inv /\ IconKeyed /\ [Next]_vars => (Inv /\ IconKeyed)'
  BY NextInv, NextIcon
<1>3. IconKeyed => IconIsBacked
  BY DEF IconKeyed, IconIsBacked, Registered
<1> QED BY <1>1, <1>2, <1>3, PTL DEF Spec
=============================================================================
