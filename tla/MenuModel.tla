------------------------------- MODULE MenuModel -------------------------------
(***************************************************************************)
(* The lists of nw.Menu and nw.MenuItem and the pointers between the       *)
(* native objects: a menu's model to the models of submenus, an item to    *)
(* its submenu, the menu bar and the tray icon to a model.                 *)
(*                                                                         *)
(*   src/src/resources/api_nw_menu.js, api_nw_menuitem.js, api_nw_tray.js, *)
(*     api_nw_window.js                  the JavaScript wrappers           *)
(*   src/src/api/menu/menu_views.cc, menuitem/menuitem_views.cc            *)
(*   src/src/browser/menubar_view.cc, api/nw_window_api.cc                 *)
(*                                                                         *)
(* No native object owns another: each lives until its wrapper is          *)
(* collected, so what a wrapper holds in JavaScript is all that keeps a    *)
(* pointer good.  The requests are synchronous and one step each; their    *)
(* life under popup is in ObjectManager.  One page stays loaded.  Keys     *)
(* (menu_items_, UpdateKeys) and appearance are left out, and menu_ of an  *)
(* item: UpdateStates, its only use, is empty.                             *)
(***************************************************************************)
EXTENDS Naturals, Sequences, SequencesExt

CONSTANTS
  Menus, Items,
  Strays,      \* the application may insert outside a list and remove what is not in it
  MaxLen,      \* bound: entries of one menu
  None         \* no menu

ASSUME MenuAssumption == None \notin Menus /\ Menus \cap Items = {} /\ Strays \in BOOLEAN
ASSUME BoundAssumption == MaxLen \in Nat

VARIABLES
  js,       \* the wrappers: items and submenu of each, window.menu and tray.menu
  live,     \* the registered native menus and items
  gone,     \* menus collected: their ids do not come again
  model,    \* model[m]: menu_model_, each entry an item and the submenu model it was added with
  submenu,  \* submenu[i]: MenuItem::submenu_
  bar,      \* the menu whose model the window's menu bar shows
  icon      \* the tray icon: whether it is there, and the menu set on it

vars   == <<js, live, gone, model, submenu, bar, icon>>
native == <<live, gone, model, submenu>>

Init ==
  /\ js = [items |-> [m \in Menus |-> <<>>], submenu |-> [i \in Items |-> None],
           menu |-> None, tray |-> None]
  /\ live = {} /\ gone = {}
  /\ model = [m \in Menus |-> <<>>]
  /\ submenu = [i \in Items |-> None]
  /\ bar = None
  /\ icon = [there |-> TRUE, menu |-> None]

Entry(i) == [item |-> i, sub |-> submenu[i]]

(***************************************************************************)
(* Construction and collection.                                            *)
(***************************************************************************)
NewMenu(m) ==
  /\ m \notin live \cup gone
  /\ live' = live \cup {m}
  /\ UNCHANGED <<js, gone, model, submenu, bar, icon>>

\* The option may name a submenu.
NewMenuItem(i) ==
  /\ i \notin live
  /\ \E m \in (Menus \cap live) \cup {None} :
       js' = [js EXCEPT !.submenu[i] = m] /\ submenu' = [submenu EXCEPT ![i] = m]
  /\ live' = live \cup {i}
  /\ UNCHANGED <<gone, model, bar, icon>>

\* Mutant: the window does not remember its menu.
MutantHeld(m) ==
  \/ \E i \in Items \cap live : js.submenu[i] = m
  \/ icon.there /\ js.tray = m

\* menuItems.objs keeps every item, an item its submenu, the window its menu and
\* trayEvents.objs the tray, that keeps its own until it is removed.
Held(m) ==
  \/ \E i \in Items \cap live : js.submenu[i] = m
  \/ js.menu = m
  \/ icon.there /\ js.tray = m

\* Whatever it holds of the lists, a menu that nothing holds may be collected at any time.
Collect(m) ==
  /\ m \in live /\ ~Held(m)
  /\ live' = live \ {m} /\ gone' = gone \cup {m}
  /\ model' = [model EXCEPT ![m] = <<>>]
  /\ js' = [js EXCEPT !.items[m] = <<>>]
  /\ UNCHANGED <<submenu, bar, icon>>

(***************************************************************************)
(* The lists.                                                              *)
(***************************************************************************)
Room(m) == Len(js.items[m]) < MaxLen /\ Len(model[m]) < MaxLen

AppendItem(m, i) ==
  /\ {m, i} \subseteq live /\ Room(m)
  /\ js' = [js EXCEPT !.items[m] = Append(@, i)]
  /\ model' = [model EXCEPT ![m] = Append(@, Entry(i))]
  /\ UNCHANGED <<live, gone, submenu, bar, icon>>

\* Places count from 1, so the -1 of JavaScript is 0.  The native model goes by the place
\* alone.  What it makes of one it does not have is external: nothing, or some other change
\* (or the end of the browser, after which there is nothing to see).
With(entries, pos, e) ==
  IF pos \in 1 .. Len(entries) + 1 THEN {InsertAt(entries, pos, e)}
  ELSE {entries} \cup {InsertAt(entries, n, e) : n \in 1 .. Len(entries) + 1}

Without(entries, pos) ==
  IF pos \in 1 .. Len(entries) THEN {RemoveAt(entries, pos)}
  ELSE {entries} \cup {RemoveAt(entries, n) : n \in 1 .. Len(entries)}

\* Where splice inserts: -1 is in front of the last item, and what is too large the end.
Place(list, pos) ==
  CASE pos = 0             -> IF list = <<>> THEN 1 ELSE Len(list)
    [] pos > Len(list) + 1 -> Len(list) + 1
    [] OTHER               -> pos

InsertItem(m, i, pos) ==
  /\ {m, i} \subseteq live /\ Room(m) /\ (Strays \/ pos \in 1 .. Len(js.items[m]) + 1)
  /\ js' = [js EXCEPT !.items[m] = InsertAt(@, Place(@, pos), i)]
  /\ \E entries \in With(model[m], pos, Entry(i)) : model' = [model EXCEPT ![m] = entries]
  /\ UNCHANGED <<live, gone, submenu, bar, icon>>

\* A place outside the list is a TypeError, before anything is done.
RemoveItemAt(m, pos) ==
  /\ m \in live /\ pos \in 1 .. Len(js.items[m])
  /\ js' = [js EXCEPT !.items[m] = RemoveAt(@, pos)]
  /\ \E entries \in Without(model[m], pos) : model' = [model EXCEPT ![m] = entries]
  /\ UNCHANGED <<live, gone, submenu, bar, icon>>

\* The first place of an item in a list, 0 if it has none.
IndexOf(s, i) ==
  IF i \in ToSet(s) THEN CHOOSE n \in DOMAIN s : s[n] = i /\ \A k \in 1 .. n - 1 : s[k] # i
  ELSE 0

\* Mutant: the position is looked up after the item has left the list.
MutantRemoveItem(m, i) ==
  /\ {m, i} \subseteq live /\ (Strays \/ i \in ToSet(js.items[m]))
  /\ js' = [js EXCEPT !.items[m] = IF i \in ToSet(@) THEN RemoveAt(@, IndexOf(@, i)) ELSE Front(@)]
  /\ \E entries \in Without(model[m], IndexOf(js'.items[m], i)) :
       model' = [model EXCEPT ![m] = entries]
  /\ UNCHANGED <<live, gone, submenu, bar, icon>>

\* remove(item) takes the item's first place in the JavaScript list; for an item that is not
\* there, splice(-1, 1) takes the last one.
RemoveItem(m, i) ==
  /\ {m, i} \subseteq live /\ (Strays \/ i \in ToSet(js.items[m]))
  /\ js' = [js EXCEPT !.items[m] = IF i \in ToSet(@) THEN RemoveAt(@, IndexOf(@, i)) ELSE Front(@)]
  /\ \E entries \in Without(model[m], IndexOf(js.items[m], i)) :
       model' = [model EXCEPT ![m] = entries]
  /\ UNCHANGED <<live, gone, submenu, bar, icon>>

\* The models that hold the item keep the submenu they were given.
SetSubmenu(i, m) ==
  /\ {m, i} \subseteq live
  /\ js' = [js EXCEPT !.submenu[i] = m]
  /\ submenu' = [submenu EXCEPT ![i] = m]
  /\ UNCHANGED <<live, gone, model, bar, icon>>

(***************************************************************************)
(* The window's menu bar, and the tray.                                    *)
(***************************************************************************)
\* The layout gets a new menu bar.  The view of the one before stays, unseen, among the
\* window's children with its menu's model; it is left out.
SetMenu(m) ==
  /\ m \in live
  /\ js' = [js EXCEPT !.menu = m]
  /\ bar' = m
  /\ UNCHANGED <<native, icon>>

ClearMenu ==
  /\ js' = [js EXCEPT !.menu = None]
  /\ bar' = None
  /\ UNCHANGED <<native, icon>>

SetTrayMenu(m) ==
  /\ m \in live /\ icon.there
  /\ js' = [js EXCEPT !.tray = m]
  /\ icon' = [icon EXCEPT !.menu = m]
  /\ UNCHANGED <<native, bar>>

\* The setters are not called any more (docs/References/Tray.md).
RemoveTray ==
  /\ icon.there
  /\ icon' = [there |-> FALSE, menu |-> None]
  /\ UNCHANGED <<js, native, bar>>

Next ==
  \/ \E m \in Menus :
       \/ NewMenu(m) \/ Collect(m) \/ SetMenu(m) \/ SetTrayMenu(m)
       \/ \E i \in Items : AppendItem(m, i) \/ RemoveItem(m, i) \/ SetSubmenu(i, m)
       \/ \E i \in Items, pos \in 0 .. MaxLen + 1 : InsertItem(m, i, pos)
       \/ \E pos \in 1 .. MaxLen : RemoveItemAt(m, pos)
  \/ \E i \in Items : NewMenuItem(i)
  \/ ClearMenu \/ RemoveTray

Spec == Init /\ [][Next]_vars

(***************************************************************************)
(* Properties.                                                             *)
(***************************************************************************)
\* For an application without Strays the page and the browser see the same items in the same
\* places, so that a position sent by insert, remove or removeAt means the same on both sides.
ListsAgree ==
  \A m \in Menus \cap live :
    js.items[m] = [n \in DOMAIN model[m] |-> model[m][n].item]

\* What the user can open from the menu bar, the tray or a popup is there: a menu is not
\* collected while the bar or the icon shows its model, nor while a model has it as the
\* submenu of an item that was given no other one since.
PointersAreLive ==
  /\ {bar, icon.menu} \subseteq live \cup {None}
  /\ \A m \in Menus \cap live : \A e \in ToSet(model[m]) :
       js.submenu[e.item] = e.sub => e.sub \in live \cup {None}
=============================================================================
