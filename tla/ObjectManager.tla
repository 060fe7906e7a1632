---------------------------- MODULE ObjectManager ----------------------------
(***************************************************************************)
(* The native objects behind nw.Menu, nw.MenuItem, nw.Tray and             *)
(* nw.MediaRecorder, and their life cycle across the renderer and the      *)
(* browser process.                                                        *)
(*                                                                         *)
(*   src/src/api/object_manager.cc      the registry and its managers      *)
(*   src/src/api/nw_object_api.cc       the nw.Obj.* requests              *)
(*   src/src/api/base/base.h            the two destruction flags          *)
(*   src/src/api/menu/menu_views.cc     Menu::Popup, the nested loop       *)
(*   src/src/resources/api_nw_*.js      the JavaScript wrappers            *)
(*                                                                         *)
(* A wrapper is one JavaScript object.  A page is one document.  Every     *)
(* request but popup is sent with sendRequestSync: the page does nothing   *)
(* until the browser has answered, and the channel is FIFO, so sending and *)
(* handling are one step that waits for the popups sent before it.  popup  *)
(* is sent with sendRequest and stays in `chan' until it is handled; the   *)
(* browser goes on handling requests inside the menu's nested loop.        *)
(***************************************************************************)
EXTENDS Naturals, Sequences

CONSTANTS
  Wrappers,     \* JavaScript objects an execution may construct
  Pages,        \* documents that run application code
  Profiles,     \* browser contexts, each with one ObjectManager
  ProfileOf,    \* the browser context of each page
  Kinds,        \* the classes the application uses
  Mixed,        \* whether it uses classes of both counters of ids
  MaxId,        \* bound: object ids go up to MaxId
  MaxQueue,     \* bound: popups in flight per page
  NoWrapper     \* "no object": NULL from Lookup, or nothing running

ASSUME ProfileAssumption == ProfileOf \in [Pages -> Profiles]
ASSUME KindAssumption    == 
         Kinds \subseteq {"Menu", "MenuItem", "Tray", "MediaRecorder"}
ASSUME MixAssumption     == Mixed \in BOOLEAN
ASSUME BoundAssumption   == MaxId \in Nat /\ MaxQueue \in Nat
ASSUME NoneAssumption    == NoWrapper \notin Wrappers

Ids == 1 .. MaxId

VARIABLES
  \* the renderer side
  page,              \* page[w]: the page that constructs w
  kind,              \* kind[w]: its class
  id,                \* id[w]: the id drawn for it, 0 before
  js,                \* js[w]: "none", "allocated", "reachable", "collected"
  loaded,            \* loaded[p]: the document is still the current one
  event_objs,        \* those in trayEvents.objs and mediaRecorderEvents.objs
  chan,              \* chan[p]: popup requests sent and not yet handled
  \* the browser side
  next_object_id,    \* ObjectManager::next_object_id_
  next_menu_id,      \* the counter behind GetNextContextMenuId
  registry,          \* ObjectManager::objects_registry_, static
  objects,           \* objects[f]: objects_ of the manager of profile f
  managed,           \* managed[f]: the manager of profile f exists
  delay_destruction, \* Base::delay_destruction_
  pending_destruction, \* Base::pending_destruction_
  status_icon,       \* Tray::status_icon_ is not NULL
  running,           \* the menu whose Popup is on the stack
  cancelled          \* its nested loop was told to quit

jsVars      == <<page, kind, id, js, loaded, event_objs>>
counters    == <<next_object_id, next_menu_id>>
flags       == <<delay_destruction, pending_destruction>>
managers    == <<registry, objects, managed>>
vars        == <<jsVars, chan, counters, managers, flags, status_icon,
                 running, cancelled>>

-----------------------------------------------------------------------------
\* Tray and MediaRecorder take their ids from GetNextContextMenuId, Menu and
\* MenuItem theirs from nw.Obj.allocateId.
ContextMenuId(w) == kind[w] \in {"Tray", "MediaRecorder"}

\* All the ids come from one counter: see AllocateId.
OneCounter ==
  (\A w \in Wrappers : ContextMenuId(w)) \/ (\A w \in Wrappers : ~ContextMenuId(w))

Init ==
  /\ page \in [Wrappers -> Pages]
  /\ kind \in [Wrappers -> Kinds]
  /\ Mixed \/ OneCounter
  /\ id = [w \in Wrappers |-> 0]
  /\ js = [w \in Wrappers |-> "none"]
  /\ loaded = [p \in Pages |-> TRUE]
  /\ event_objs = {}
  /\ chan = [p \in Pages |-> <<>>]
  /\ next_object_id = 0
  /\ next_menu_id = 0
  /\ registry = [i \in Ids |-> NoWrapper]
  /\ objects = [f \in Profiles |-> {}]
  /\ managed = [f \in Profiles |-> TRUE]
  /\ delay_destruction = [w \in Wrappers |-> FALSE]
  /\ pending_destruction = [w \in Wrappers |-> FALSE]
  /\ status_icon = [w \in Wrappers |-> FALSE]
  /\ running = NoWrapper
  /\ cancelled = FALSE

Manager(w) == ProfileOf[page[w]]

\* The browser's loop is about to leave a nested menu loop that was told to
\* quit: it handles no further request before Popup returns.
Unwinding == cancelled

\* The page can issue a synchronous request, and the browser handles it next.
CanRequest(p) ==
  /\ ~Unwinding
  /\ chan[p] = <<>>
  /\ managed[ProfileOf[p]]

-----------------------------------------------------------------------------
\* Mutant: the incremented counter is returned and not stored.
MutantAllocateId(w) ==
  /\ CanRequest(page[w])
  /\ loaded[page[w]]
  /\ js[w] = "none"
  /\ next_object_id < MaxId
  /\ js' = [js EXCEPT ![w] = "allocated"]
  /\ id' = [id EXCEPT ![w] = next_object_id + 1]
  /\ UNCHANGED <<page, kind, loaded, event_objs, chan, counters, managers, flags,
                 status_icon, running, cancelled>>

\* Mutant: the counter is incremented after its value was taken, so that the
\* first object gets the id 0, which the bindings take for "no id".
MutantAllocateAfter(w) ==
  /\ CanRequest(page[w])
  /\ loaded[page[w]]
  /\ js[w] = "none"
  /\ next_object_id < MaxId
  /\ js' = [js EXCEPT ![w] = "allocated"]
  /\ next_object_id' = next_object_id + 1
  /\ id' = [id EXCEPT ![w] = next_object_id]
  /\ UNCHANGED <<page, kind, loaded, event_objs, chan, next_menu_id, managers, flags,
                 status_icon, running, cancelled>>

\* The id of a new wrapper, from the counter of its class.
AllocateId(w) ==
  /\ CanRequest(page[w])
  /\ loaded[page[w]]
  /\ js[w] = "none"
  /\ js' = [js EXCEPT ![w] = "allocated"]
  /\ IF ContextMenuId(w)
       THEN /\ next_menu_id < MaxId
            /\ next_menu_id' = next_menu_id + 1
            /\ id' = [id EXCEPT ![w] = next_menu_id + 1]
            /\ UNCHANGED next_object_id
       ELSE /\ next_object_id < MaxId
            /\ next_object_id' = next_object_id + 1
            /\ id' = [id EXCEPT ![w] = next_object_id + 1]
            /\ UNCHANGED next_menu_id
  /\ UNCHANGED <<page, kind, loaded, event_objs, chan, managers, flags, status_icon,
                 running, cancelled>>

\* nw.Obj.create: AddWithID stores the object under the id it is given,
\* whatever was there, and the manager remembers the id.
OnAllocateObject(w) ==
  /\ CanRequest(page[w])
  /\ loaded[page[w]]
  /\ js[w] = "allocated"
  /\ js' = [js EXCEPT ![w] = "reachable"]
  /\ registry' = [registry EXCEPT ![id[w]] = w]
  /\ objects' = [objects EXCEPT ![Manager(w)] = @ \cup {id[w]}]
  /\ status_icon' = [status_icon EXCEPT ![w] = (kind[w] = "Tray")]
  /\ event_objs' = IF kind[w] = "Tray" THEN event_objs \cup {w} ELSE event_objs
  /\ UNCHANGED <<page, kind, id, loaded, chan, counters, managed, flags,
                 running, cancelled>>

\* Mutant: an object that delays its destruction is deleted at once.
MutantDeallocateAtOnce(f, i, delay) ==
  /\ registry' = [registry EXCEPT ![i] = NoWrapper]
  /\ objects' = [objects EXCEPT ![f] = @ \ {i}]
  /\ UNCHANGED <<pending_destruction, status_icon>>

\* Mutant: objects_.erase is left out.
MutantDeallocateKeepsId(f, i, delay) ==
  LET obj == registry[i] IN
  IF obj # NoWrapper /\ delay[obj]
    THEN /\ pending_destruction' = [pending_destruction EXCEPT ![obj] = TRUE]
         /\ UNCHANGED <<registry, objects, status_icon>>
    ELSE /\ registry' = [registry EXCEPT ![i] = NoWrapper]
         /\ UNCHANGED <<objects, pending_destruction, status_icon>>

\* ObjectManager::OnDeallocateObject of the manager of profile f, with the
\* flag delay_destruction_ read from `delay'.  Deleting a Tray removes its icon.
OnDeallocateObject(f, i, delay) ==
  LET obj == registry[i] IN
  IF obj # NoWrapper /\ delay[obj]
    THEN /\ pending_destruction' = [pending_destruction EXCEPT ![obj] = TRUE]
         /\ UNCHANGED <<registry, objects, status_icon>>
    ELSE /\ registry' = [registry EXCEPT ![i] = NoWrapper]
         /\ objects' = [objects EXCEPT ![f] = @ \ {i}]
         /\ status_icon' = [w \in Wrappers |-> status_icon[w] /\ w # obj]
         /\ UNCHANGED pending_destruction

\* What the page itself keeps alive: menuItems.objs holds every MenuItem,
\* trayEvents.objs every Tray that was not removed, mediaRecorderEvents.objs
\* every MediaRecorder from start() to its Stop event.
HeldByBindings(w) ==
  /\ loaded[page[w]]
  /\ \/ kind[w] = "MenuItem"
     \/ w \in event_objs

\* The engine collects a wrapper the application no longer references and
\* the callback registered by BindToGC sends nw.Obj.destroy.
Collect(w) ==
  /\ CanRequest(page[w])
  /\ js[w] = "reachable"
  /\ ~HeldByBindings(w)
  /\ js' = [js EXCEPT ![w] = "collected"]
  /\ OnDeallocateObject(Manager(w), id[w], delay_destruction)
  /\ UNCHANGED <<page, kind, id, loaded, event_objs, chan, counters, managed,
                 delay_destruction, running, cancelled>>

\* Tray.prototype.remove: the request reaches the object that has the id (an
\* unknown id is only logged), Tray::Remove takes the icon off, and the binding
\* forgets the wrapper.
TrayRemove(w) ==
  LET obj == registry[id[w]] IN
  /\ CanRequest(page[w])
  /\ loaded[page[w]]
  /\ js[w] = "reachable"
  /\ kind[w] = "Tray"
  /\ IF obj # NoWrapper /\ kind[obj] = "Tray"
       THEN status_icon' = [status_icon EXCEPT ![obj] = FALSE]
       ELSE UNCHANGED status_icon
  /\ event_objs' = event_objs \ {w}
  /\ UNCHANGED <<page, kind, id, js, loaded, chan, counters, managers, flags,
                 running, cancelled>>

\* MediaRecorder.prototype.start.  The recording itself is in the renderer; the
\* native object in the browser has no part in it.
RecorderStart(w) ==
  /\ loaded[page[w]]
  /\ js[w] = "reachable"
  /\ kind[w] = "MediaRecorder"
  /\ event_objs' = event_objs \cup {w}
  /\ UNCHANGED <<page, kind, id, js, loaded, chan, counters, managers, flags,
                 status_icon, running, cancelled>>

\* The Stop event of a recording: its listener forgets the wrapper.
RecorderStopped(w) ==
  /\ loaded[page[w]]
  /\ kind[w] = "MediaRecorder"
  /\ w \in event_objs
  /\ event_objs' = event_objs \ {w}
  /\ UNCHANGED <<page, kind, id, js, loaded, chan, counters, managers, flags,
                 status_icon, running, cancelled>>

-----------------------------------------------------------------------------
\* Menu.prototype.popup: the request is queued and the page goes on.
SendPopup(w) ==
  LET p == page[w] IN
  /\ loaded[p]
  /\ managed[ProfileOf[p]]
  /\ js[w] = "reachable"
  /\ kind[w] = "Menu"
  /\ Len(chan[p]) < MaxQueue
  /\ chan' = [chan EXCEPT ![p] = Append(@, w)]
  /\ UNCHANGED <<jsVars, counters, managers, flags, status_icon, running,
                 cancelled>>

\* OnCallObjectMethod for the popup at the head of the channel.  An unknown
\* object is logged and ignored.  The first menu runs its nested loop; a menu
\* opened from inside another one's loop makes the active menu quit, and its
\* own RunMenuAt returns at once (views::MenuRunner).
HandlePopup(p) ==
  LET obj == registry[id[Head(chan[p])]] IN
  /\ ~Unwinding
  /\ chan[p] # <<>>
  /\ managed[ProfileOf[p]]
  /\ chan' = [chan EXCEPT ![p] = Tail(@)]
  /\ \/ /\ obj = NoWrapper \/ (obj # NoWrapper /\ kind[obj] # "Menu")
        /\ UNCHANGED <<managers, flags, status_icon, running, cancelled>>
     \/ /\ obj # NoWrapper /\ kind[obj] = "Menu"
        /\ running = NoWrapper
        /\ running' = obj
        /\ delay_destruction' = [delay_destruction EXCEPT ![obj] = TRUE]
        /\ UNCHANGED <<managers, pending_destruction, status_icon, cancelled>>
     \/ /\ obj # NoWrapper /\ kind[obj] = "Menu"
        /\ running # NoWrapper
        /\ cancelled' = TRUE
        /\ delay_destruction' = [delay_destruction EXCEPT ![obj] = FALSE]
        /\ IF pending_destruction[obj]
             THEN OnDeallocateObject(Manager(obj), id[obj], delay_destruction')
             ELSE UNCHANGED <<registry, objects, pending_destruction, status_icon>>
        /\ UNCHANGED <<managed, running>>
  /\ UNCHANGED <<jsVars, counters>>

\* Mutant: Popup does not look at pending_destruction after its loop.
MutantPopupForgets ==
  /\ running # NoWrapper
  /\ running' = NoWrapper
  /\ cancelled' = FALSE
  /\ delay_destruction' = [delay_destruction EXCEPT ![running] = FALSE]
  /\ UNCHANGED <<jsVars, chan, counters, managers, pending_destruction, status_icon>>

\* The nested loop ends, the user having closed the menu or the loop having
\* been told to quit: Menu::Popup after RunMenuAt.
PopupReturns ==
  /\ running # NoWrapper
  /\ running' = NoWrapper
  /\ cancelled' = FALSE
  /\ delay_destruction' = [delay_destruction EXCEPT ![running] = FALSE]
  /\ IF pending_destruction[running]
       THEN OnDeallocateObject(Manager(running), id[running], delay_destruction')
       ELSE UNCHANGED <<registry, objects, pending_destruction, status_icon>>
  /\ UNCHANGED <<jsVars, chan, counters, managed>>

-----------------------------------------------------------------------------
\* The page is navigated away or reloaded: nothing of it runs any more, and
\* its wrappers are collected one by one.
Unload(p) ==
  /\ loaded[p]
  /\ loaded' = [loaded EXCEPT ![p] = FALSE]
  /\ UNCHANGED <<page, kind, id, js, event_objs, chan, counters, managers, flags,
                 status_icon, running, cancelled>>

\* Mutant: the registry drops the objects without running their destructors.
MutantDestroyManager(f) ==
  /\ managed[f]
  /\ running = NoWrapper
  /\ managed' = [managed EXCEPT ![f] = FALSE]
  /\ registry' = [i \in Ids |-> IF i \in objects[f] THEN NoWrapper ELSE registry[i]]
  /\ objects' = [objects EXCEPT ![f] = {}]
  /\ loaded' = [p \in Pages |-> loaded[p] /\ ProfileOf[p] # f]
  /\ chan' = [p \in Pages |-> IF ProfileOf[p] = f THEN <<>> ELSE chan[p]]
  /\ UNCHANGED <<page, kind, id, js, event_objs, counters, flags, status_icon,
                 running, cancelled>>

\* ~ObjectManager, when its browser context is destroyed.  The main loop has
\* ended by then, so no Popup is on the stack; the renderers are gone.
DestroyManager(f) ==
  /\ managed[f]
  /\ running = NoWrapper
  /\ managed' = [managed EXCEPT ![f] = FALSE]
  /\ registry' = [i \in Ids |-> IF i \in objects[f] THEN NoWrapper ELSE registry[i]]
  /\ status_icon' = [w \in Wrappers |->
                       status_icon[w] /\ ~\E i \in objects[f] : registry[i] = w]
  /\ objects' = [objects EXCEPT ![f] = {}]
  /\ loaded' = [p \in Pages |-> loaded[p] /\ ProfileOf[p] # f]
  /\ chan' = [p \in Pages |-> IF ProfileOf[p] = f THEN <<>> ELSE chan[p]]
  /\ UNCHANGED <<page, kind, id, js, event_objs, counters, flags, running, cancelled>>

-----------------------------------------------------------------------------
Next ==
  \/ \E w \in Wrappers : \/ AllocateId(w)
                         \/ OnAllocateObject(w)
                         \/ Collect(w)
                         \/ TrayRemove(w)
                         \/ RecorderStart(w)
                         \/ RecorderStopped(w)
                         \/ SendPopup(w)
  \/ \E p \in Pages : HandlePopup(p) \/ Unload(p)
  \/ \E f \in Profiles : DestroyManager(f)
  \/ PopupReturns

Spec == Init /\ [][Next]_vars

-----------------------------------------------------------------------------
\* The values every variable ranges over.
TypeOK ==
  /\ page \in [Wrappers -> Pages]
  /\ kind \in [Wrappers -> Kinds]
  /\ id \in [Wrappers -> Ids \cup {0}]
  /\ js \in [Wrappers -> {"none", "allocated", "reachable", "collected"}]
  /\ loaded \in [Pages -> BOOLEAN]
  /\ event_objs \subseteq Wrappers
  /\ chan \in [Pages -> Seq(Wrappers)]
  /\ next_object_id \in 0 .. MaxId
  /\ next_menu_id \in 0 .. MaxId
  /\ registry \in [Ids -> Wrappers \cup {NoWrapper}]
  /\ objects \in [Profiles -> SUBSET Ids]
  /\ managed \in [Profiles -> BOOLEAN]
  /\ delay_destruction \in [Wrappers -> BOOLEAN]
  /\ pending_destruction \in [Wrappers -> BOOLEAN]
  /\ status_icon \in [Wrappers -> BOOLEAN]
  /\ running \in Wrappers \cup {NoWrapper}
  /\ cancelled \in BOOLEAN

Registered(w) == \E i \in Ids : registry[i] = w

\* The properties below are those of an application that draws all its ids from
\* one counter, ~Mixed: with a Menu or MenuItem beside a Tray or MediaRecorder
\* two objects get one id, and ReachableIsBacked fails (ObjectManagerMixed.cfg).

\* Until its manager goes, a wrapper that application code can still call has
\* its own native object behind its id: no other constructor took the id, no
\* destroy request for another wrapper hit it, no popup deleted it.
ReachableIsBacked ==
  \A w \in Wrappers :
    js[w] = "reachable" /\ managed[Manager(w)] => registry[id[w]] = w

\* Menu::Popup never returns into a deleted object: the menu whose nested loop
\* runs stays in the registry, whatever the requests handled inside the loop do.
RunningIsRegistered ==
  running # NoWrapper => Registered(running)

\* Delayed destruction is not forgotten: the native object of a collected
\* wrapper outlives it only while its own Popup is on the stack.
NoZombie ==
  \A w \in Wrappers : js[w] = "collected" /\ Registered(w) => running = w

\* A status icon on the desktop belongs to a registered Tray: its observer holds
\* a plain pointer to the Tray, so an icon must not outlive it.
IconIsBacked ==
  \A w \in Wrappers : status_icon[w] => Registered(w)

\* The registry is static and the managers' objects_ sets divide it: each
\* manager remembers exactly the ids of its own registered objects, so that
\* ~ObjectManager frees all of them and none of another browser context's.
ManagersDivideRegistry ==
  \A f \in Profiles, i \in Ids :
    i \in objects[f] <=> registry[i] # NoWrapper /\ Manager(registry[i]) = f
=============================================================================
