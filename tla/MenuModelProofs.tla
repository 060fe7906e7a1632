---------------------------- MODULE MenuModelProofs ----------------------------
(***************************************************************************)
(* Proofs about MenuModel, for any menus and items and lists of any        *)
(* length.                                                                 *)
(***************************************************************************)
EXTENDS MenuModel, FiniteSetTheorems, SequenceTheorems, WellFoundedInduction, TLAPS

MenuOrNone == Menus \cup {None}
Entries == [item : Items, sub : MenuOrNone]

TypeOK ==
  /\ js \in [items : [Menus -> Seq(Items)], submenu : [Items -> MenuOrNone],
             menu : MenuOrNone, tray : MenuOrNone]
  /\ live \subseteq Menus \cup Items
  /\ model \in [Menus -> Seq(Entries)]
  /\ submenu \in [Items -> MenuOrNone]
  /\ bar \in MenuOrNone
  /\ icon \in [there : BOOLEAN, menu : MenuOrNone]

\* What the native objects point to is what the wrappers hold.
PointersAreHeld ==
  /\ submenu = js.submenu
  /\ bar = js.menu
  /\ icon.menu = IF icon.there THEN js.tray ELSE None
  /\ \A i \in Items : submenu[i] # None => {i, submenu[i]} \subseteq live
  /\ {bar, icon.menu} \subseteq live \cup {None}

(***************************************************************************)
(* The sequence operators of the lists.                                    *)
(***************************************************************************)
\* Both halves of a sequence, around a place.
LEMMA Halves ==
  ASSUME NEW S, NEW s \in Seq(S), NEW p \in 1 .. Len(s) + 1, NEW q \in {p, p + 1}
  PROVE  /\ SubSeq(s, 1, p - 1) \in Seq(S) /\ Len(SubSeq(s, 1, p - 1)) = p - 1
         /\ \A n \in 1 .. p - 1 : SubSeq(s, 1, p - 1)[n] = s[n]
         /\ SubSeq(s, q, Len(s)) \in Seq(S)
         /\ Len(SubSeq(s, q, Len(s))) = IF q <= Len(s) THEN Len(s) - q + 1 ELSE 0
         /\ \A n \in 1 .. Len(s) - q + 1 : SubSeq(s, q, Len(s))[n] = s[q + n - 1]
<1>1. Len(s) \in Nat /\ p - 1 \in Int /\ q \in Int
  BY LenProperties
<1>2. \A n \in 1 .. p - 1 : s[n] \in S
  BY <1>1, ElementOfSeq
<1>3. \A n \in q .. Len(s) : s[n] \in S
  BY <1>1, ElementOfSeq
<1>4. /\ SubSeq(s, 1, p - 1) \in Seq(S)
      /\ Len(SubSeq(s, 1, p - 1)) = IF 1 <= p - 1 THEN p - 1 - 1 + 1 ELSE 0
      /\ \A n \in 1 .. p - 1 - 1 + 1 : SubSeq(s, 1, p - 1)[n] = s[1 + n - 1]
  BY <1>1, <1>2, SubSeqProperties
<1>5. /\ SubSeq(s, q, Len(s)) \in Seq(S)
      /\ Len(SubSeq(s, q, Len(s))) = IF q <= Len(s) THEN Len(s) - q + 1 ELSE 0
      /\ \A n \in 1 .. Len(s) - q + 1 : SubSeq(s, q, Len(s))[n] = s[q + n - 1]
  BY <1>1, <1>3, SubSeqProperties
<1> QED
  BY <1>1, <1>4, <1>5

\* What InsertAt returns.
LEMMA Inserted ==
  ASSUME NEW S, NEW s \in Seq(S), NEW p \in 1 .. Len(s) + 1, NEW e \in S
  PROVE  /\ InsertAt(s, p, e) \in Seq(S)
         /\ Len(InsertAt(s, p, e)) = Len(s) + 1
         /\ \A n \in 1 .. Len(s) + 1 :
              InsertAt(s, p, e)[n] = IF n < p THEN s[n] ELSE IF n = p THEN e ELSE s[n - 1]
<1> DEFINE a == SubSeq(s, 1, p - 1)
           b == SubSeq(s, p, Len(s))
           c == a \o <<e>>
<1>1. Len(s) \in Nat
  BY LenProperties
<1>2. /\ a \in Seq(S) /\ Len(a) = p - 1 /\ \A n \in 1 .. p - 1 : a[n] = s[n]
      /\ b \in Seq(S) /\ Len(b) = Len(s) - p + 1 /\ \A n \in 1 .. Len(s) - p + 1 : b[n] = s[p + n - 1]
  BY <1>1, Halves
<1>3. <<e>> \in Seq(S) /\ Len(<<e>>) = 1 /\ <<e>>[1] = e
  OBVIOUS
<1> HIDE DEF a, b
<1>4. c \in Seq(S) /\ Len(c) = p /\ \A n \in 1 .. p : c[n] = IF n <= p - 1 THEN s[n] ELSE e
  BY <1>1, <1>2, <1>3, ConcatProperties
<1> HIDE DEF c
<1>5. /\ c \o b \in Seq(S) /\ Len(c \o b) = Len(s) + 1
      /\ \A n \in 1 .. Len(s) + 1 : (c \o b)[n] = IF n <= p THEN c[n] ELSE b[n - p]
  BY <1>1, <1>2, <1>4, ConcatProperties
<1>6. InsertAt(s, p, e) = c \o b
  BY DEF InsertAt, a, b, c
<1>7. ASSUME NEW n \in 1 .. Len(s) + 1
      PROVE  (c \o b)[n] = IF n < p THEN s[n] ELSE IF n = p THEN e ELSE s[n - 1]
  BY <1>1, <1>2, <1>4, <1>5
<1> QED
  BY <1>5, <1>6, <1>7

\* What RemoveAt returns.
LEMMA Removed ==
  ASSUME NEW S, NEW s \in Seq(S), NEW p \in 1 .. Len(s)
  PROVE  /\ RemoveAt(s, p) \in Seq(S)
         /\ Len(RemoveAt(s, p)) = Len(s) - 1
         /\ \A n \in 1 .. Len(s) - 1 : RemoveAt(s, p)[n] = IF n < p THEN s[n] ELSE s[n + 1]
<1> DEFINE a == SubSeq(s, 1, p - 1)
           b == SubSeq(s, p + 1, Len(s))
<1>1. Len(s) \in Nat
  BY LenProperties
<1>2. /\ a \in Seq(S) /\ Len(a) = p - 1 /\ \A n \in 1 .. p - 1 : a[n] = s[n]
      /\ b \in Seq(S) /\ Len(b) = Len(s) - p /\ \A n \in 1 .. Len(s) - p : b[n] = s[p + n]
  BY <1>1, Halves
<1> HIDE DEF a, b
<1>3. /\ a \o b \in Seq(S) /\ Len(a \o b) = Len(s) - 1
      /\ \A n \in 1 .. Len(s) - 1 : (a \o b)[n] = IF n <= p - 1 THEN a[n] ELSE b[n - (p - 1)]
  <2>1. /\ a \o b \in Seq(S) /\ Len(a \o b) = Len(a) + Len(b)
        /\ \A n \in 1 .. Len(a) + Len(b) :
             (a \o b)[n] = IF n <= Len(a) THEN a[n] ELSE b[n - Len(a)]
    BY <1>2, ConcatProperties
  <2>2. Len(a) + Len(b) = Len(s) - 1
    BY <1>1, <1>2
  <2> QED
    BY <1>2, <2>1, <2>2
<1>4. ASSUME NEW n \in 1 .. Len(s) - 1
      PROVE  (a \o b)[n] = IF n < p THEN s[n] ELSE s[n + 1]
  <2>1. CASE n < p
    <3>1. n \in 1 .. p - 1 /\ n <= p - 1
      BY <1>1, <2>1
    <3>2. (a \o b)[n] = a[n]
      BY <1>3, <3>1
    <3> QED
      BY <1>2, <2>1, <3>1, <3>2
  <2>2. CASE ~(n < p)
    <3>1. n - (p - 1) \in 1 .. Len(s) - p /\ p + (n - (p - 1)) = n + 1 /\ ~(n <= p - 1)
      BY <1>1, <2>2
    <3>2. (a \o b)[n] = b[n - (p - 1)]
      BY <1>3, <3>1
    <3> QED
      BY <1>2, <2>2, <3>1, <3>2
  <2> QED
    BY <2>1, <2>2
<1>5. RemoveAt(s, p) = a \o b
  BY DEF RemoveAt, a, b
<1> QED
  BY <1>3, <1>4, <1>5

\* What the native model makes of a place: one change, if it has the place.
LEMMA NativeChanges ==
  ASSUME NEW S, NEW entries \in Seq(S), NEW e \in S, NEW pos
  PROVE  /\ With(entries, pos, e) \subseteq Seq(S) /\ Without(entries, pos) \subseteq Seq(S)
         /\ pos \in 1 .. Len(entries) + 1 => With(entries, pos, e) = {InsertAt(entries, pos, e)}
         /\ pos \in 1 .. Len(entries) => Without(entries, pos) = {RemoveAt(entries, pos)}
<1>1. \A n \in 1 .. Len(entries) + 1 : InsertAt(entries, n, e) \in Seq(S)
  BY Inserted
<1>2. \A n \in 1 .. Len(entries) : RemoveAt(entries, n) \in Seq(S)
  BY Removed
<1> QED
  BY <1>1, <1>2 DEF With, Without

LEMMA PlaceInList ==
  ASSUME NEW S, NEW list \in Seq(S), NEW pos \in Nat
  PROVE  /\ Place(list, pos) \in 1 .. Len(list) + 1
         /\ pos \in 1 .. Len(list) + 1 => Place(list, pos) = pos
<1>1. Len(list) \in Nat /\ (list # <<>> => Len(list) >= 1)
  BY LenProperties, EmptySeq
<1> QED
  BY <1>1 DEF Place

\* What is left of a list when its last item is dropped.
LEMMA FrontTyped == ASSUME NEW S, NEW list \in Seq(S) PROVE Front(list) \in Seq(S)
<1>1. Len(list) \in Nat
  BY LenProperties
<1>2. \A n \in 1 .. Len(list) - 1 : list[n] \in S
  BY <1>1, ElementOfSeq
<1>3. SubSeq(list, 1, Len(list) - 1) \in Seq(S)
  BY <1>1, <1>2, SubSeqProperties
<1> QED
  BY <1>3 DEF Front

\* A set of numbers has a least element: a list that holds an item has a first place of it.
LEMMA Least ==
  ASSUME NEW T \in SUBSET Nat, T # {}
  PROVE  \E m \in T : \A n \in T : m <= n
<1> DEFINE R == StrictSubsetOrdering(Nat)
           Down == {1 .. n : n \in T}
<1>1. Down \subseteq FiniteSubsetsOf(Nat) /\ Down # {}
  <2>1. \A n \in T : 1 .. n \subseteq Nat /\ IsFiniteSet(1 .. n)
    BY FS_Interval
  <2> QED
    BY <2>1 DEF FiniteSubsetsOf
<1>2. IsWellFoundedOn(R, FiniteSubsetsOf(Nat))
  BY FS_StrictSubsetOrderingWellFounded
<1>3. PICK D \in Down : \A E \in Down : <<E, D>> \notin R
  <2> HIDE DEF R, Down
  <2> QED
    BY <1>1, <1>2, WFMin
<1>4. PICK m \in T : D = 1 .. m
  OBVIOUS
<1>5. ASSUME NEW n \in T, n < m
      PROVE  FALSE
  <2>1. 1 .. n \subseteq 1 .. m /\ 1 .. n # 1 .. m /\ 1 .. m \subseteq Nat
    <3>1. m \in 1 .. m /\ m \notin 1 .. n
      BY <1>5
    <3> QED
      BY <1>5, <3>1
  <2>2. <<1 .. n, 1 .. m>> \in R
    BY <2>1 DEF StrictSubsetOrdering
  <2> QED
    BY <1>3, <1>4, <2>2
<1> QED
  BY <1>5

LEMMA IndexInList ==
  ASSUME NEW S, NEW list \in Seq(S), NEW i \in ToSet(list)
  PROVE  IndexOf(list, i) \in 1 .. Len(list)
<1> DEFINE At == {n \in 1 .. Len(list) : list[n] = i}
<1>1. Len(list) \in Nat /\ DOMAIN list = 1 .. Len(list)
  BY LenProperties
<1>2. At # {} /\ At \subseteq Nat
  BY <1>1 DEF ToSet
<1>3. PICK n \in At : \A k \in At : n <= k
  BY <1>2, Least
<1>4. n \in DOMAIN list /\ list[n] = i /\ \A k \in 1 .. n - 1 : list[k] # i
  BY <1>1, <1>3
<1> HIDE DEF At
<1> QED
  BY <1>1, <1>4 DEF IndexOf

(***************************************************************************)
(* The lists.                                                              *)
(***************************************************************************)
\* A list of items and a model with the same items.
Agree(list, entries) ==
  /\ Len(list) = Len(entries)
  /\ \A n \in 1 .. Len(list) : list[n] = entries[n].item

AllAgree == ~Strays => \A m \in Menus : Agree(js.items[m], model[m])

\* What the three changes of a list do to a pair that agrees.
LEMMA AgreeAfter ==
  ASSUME NEW list \in Seq(Items), NEW entries \in Seq(Entries), Agree(list, entries),
         NEW i \in Items, NEW e \in Entries, e.item = i
  PROVE  /\ Append(list, i) \in Seq(Items) /\ Append(entries, e) \in Seq(Entries)
         /\ Agree(Append(list, i), Append(entries, e))
         /\ \A p \in 1 .. Len(list) + 1 :
              /\ InsertAt(list, p, i) \in Seq(Items) /\ InsertAt(entries, p, e) \in Seq(Entries)
              /\ Agree(InsertAt(list, p, i), InsertAt(entries, p, e))
<1>1. Len(list) \in Nat /\ Len(entries) = Len(list)
  BY LenProperties DEF Agree
<1>2. /\ Append(list, i) \in Seq(Items) /\ Append(entries, e) \in Seq(Entries)
      /\ Agree(Append(list, i), Append(entries, e))
  <2>1. /\ Append(list, i) \in Seq(Items) /\ Len(Append(list, i)) = Len(list) + 1
        /\ \A n \in 1 .. Len(list) : Append(list, i)[n] = list[n]
        /\ Append(list, i)[Len(list) + 1] = i
    BY AppendProperties
  <2>2. /\ Append(entries, e) \in Seq(Entries) /\ Len(Append(entries, e)) = Len(list) + 1
        /\ \A n \in 1 .. Len(list) : Append(entries, e)[n] = entries[n]
        /\ Append(entries, e)[Len(list) + 1] = e
    BY <1>1, AppendProperties
  <2>3. ASSUME NEW n \in 1 .. Len(list) + 1
        PROVE  Append(list, i)[n] = Append(entries, e)[n].item
    BY <1>1, <2>1, <2>2 DEF Agree
  <2> QED
    BY <2>1, <2>2, <2>3 DEF Agree
<1>3. ASSUME NEW p \in 1 .. Len(list) + 1
      PROVE  /\ InsertAt(list, p, i) \in Seq(Items) /\ InsertAt(entries, p, e) \in Seq(Entries)
             /\ Agree(InsertAt(list, p, i), InsertAt(entries, p, e))
  <2>1. /\ InsertAt(list, p, i) \in Seq(Items)
        /\ Len(InsertAt(list, p, i)) = Len(list) + 1
        /\ \A n \in 1 .. Len(list) + 1 :
              InsertAt(list, p, i)[n] = IF n < p THEN list[n] ELSE IF n = p THEN i ELSE list[n - 1]
    BY Inserted
  <2>2. /\ InsertAt(entries, p, e) \in Seq(Entries)
        /\ Len(InsertAt(entries, p, e)) = Len(entries) + 1
        /\ \A n \in 1 .. Len(entries) + 1 :
              InsertAt(entries, p, e)[n] =
                IF n < p THEN entries[n] ELSE IF n = p THEN e ELSE entries[n - 1]
    BY <1>1, Inserted
  <2>3. ASSUME NEW n \in 1 .. Len(list) + 1
        PROVE  InsertAt(list, p, i)[n] = InsertAt(entries, p, e)[n].item
    <3>1. n < p => list[n] = entries[n].item
      BY <1>1 DEF Agree
    <3>2. n > p => list[n - 1] = entries[n - 1].item
      BY <1>1 DEF Agree
    <3> QED
      BY <1>1, <2>1, <2>2, <3>1, <3>2
  <2> QED
    BY <1>1, <2>1, <2>2, <2>3 DEF Agree
<1> QED
  BY <1>2, <1>3

LEMMA AgreeWithout ==
  ASSUME NEW list \in Seq(Items), NEW entries \in Seq(Entries), Agree(list, entries),
         NEW p \in 1 .. Len(list)
  PROVE  /\ RemoveAt(list, p) \in Seq(Items) /\ RemoveAt(entries, p) \in Seq(Entries)
         /\ Agree(RemoveAt(list, p), RemoveAt(entries, p))
<1>1. Len(list) \in Nat /\ Len(entries) = Len(list)
  BY LenProperties DEF Agree
<1>2. /\ RemoveAt(list, p) \in Seq(Items)
      /\ Len(RemoveAt(list, p)) = Len(list) - 1
      /\ \A n \in 1 .. Len(list) - 1 :
            RemoveAt(list, p)[n] = IF n < p THEN list[n] ELSE list[n + 1]
  BY Removed
<1>3. /\ RemoveAt(entries, p) \in Seq(Entries)
      /\ Len(RemoveAt(entries, p)) = Len(entries) - 1
      /\ \A n \in 1 .. Len(entries) - 1 :
            RemoveAt(entries, p)[n] = IF n < p THEN entries[n] ELSE entries[n + 1]
  BY <1>1, Removed
<1>4. ASSUME NEW n \in 1 .. Len(list) - 1
      PROVE  RemoveAt(list, p)[n] = RemoveAt(entries, p)[n].item
  <2>1. list[n] = entries[n].item /\ list[n + 1] = entries[n + 1].item
    BY <1>1 DEF Agree
  <2> QED
    BY <1>1, <1>2, <1>3, <2>1
<1> QED
  BY <1>1, <1>2, <1>3, <1>4 DEF Agree

\* A step that changes the lists of one menu, alike if the application does not stray.
LEMMA ListStep ==
  ASSUME TypeOK, AllAgree, NEW m \in Menus,
         NEW list \in Seq(Items), NEW entries \in Seq(Entries), ~Strays => Agree(list, entries),
         js' = [js EXCEPT !.items[m] = list], model' = [model EXCEPT ![m] = entries]
  PROVE  /\ js'.items \in [Menus -> Seq(Items)] /\ model' \in [Menus -> Seq(Entries)]
         /\ js' \in [items : [Menus -> Seq(Items)], submenu : [Items -> MenuOrNone],
                     menu : MenuOrNone, tray : MenuOrNone]
         /\ js'.submenu = js.submenu /\ js'.menu = js.menu /\ js'.tray = js.tray
         /\ AllAgree'
<1>1. /\ js.items \in [Menus -> Seq(Items)] /\ js.submenu \in [Items -> MenuOrNone]
      /\ js.menu \in MenuOrNone /\ js.tray \in MenuOrNone /\ model \in [Menus -> Seq(Entries)]
  BY DEF TypeOK
<1>2. /\ js'.items = [js.items EXCEPT ![m] = list] /\ js'.submenu = js.submenu
      /\ js'.menu = js.menu /\ js'.tray = js.tray
  BY DEF TypeOK
<1>3. js'.items \in [Menus -> Seq(Items)] /\ model' \in [Menus -> Seq(Entries)]
  BY <1>1, <1>2
<1>4. js' \in [items : [Menus -> Seq(Items)], submenu : [Items -> MenuOrNone],
               menu : MenuOrNone, tray : MenuOrNone]
  BY DEF TypeOK
<1>5. \A k \in Menus : js'.items[k] = (IF k = m THEN list ELSE js.items[k])
                    /\ model'[k] = (IF k = m THEN entries ELSE model[k])
  BY <1>1, <1>2
<1>6. AllAgree'
  <2> SUFFICES ASSUME ~Strays, NEW k \in Menus PROVE Agree(js'.items[k], model'[k])
    BY DEF AllAgree, Agree
  <2>1. Agree(js.items[k], model[k])
    BY DEF AllAgree
  <2> QED
    BY <1>5, <2>1
<1> QED
  BY <1>2, <1>3, <1>4, <1>6

(***************************************************************************)
(* The invariant.                                                          *)
(***************************************************************************)
Inv == TypeOK /\ PointersAreHeld /\ AllAgree

LEMMA InitInv == Init => Inv
<1> SUFFICES ASSUME Init PROVE Inv
  OBVIOUS
<1>1. TypeOK
  BY DEF Init, TypeOK, MenuOrNone
<1>2. PointersAreHeld
  BY DEF Init, PointersAreHeld
<1>3. AllAgree
  BY DEF Init, AllAgree, Agree
<1> QED
  BY <1>1, <1>2, <1>3 DEF Inv

\* A step that changes only the lists of a menu.
LEMMA ListsInv ==
  ASSUME Inv, NEW m \in Menus,
         NEW list \in Seq(Items), NEW entries \in Seq(Entries), ~Strays => Agree(list, entries),
         js' = [js EXCEPT !.items[m] = list], model' = [model EXCEPT ![m] = entries],
         UNCHANGED <<live, gone, submenu, bar, icon>>
  PROVE  Inv'
<1>1. /\ model' \in [Menus -> Seq(Entries)]
      /\ js' \in [items : [Menus -> Seq(Items)], submenu : [Items -> MenuOrNone],
                  menu : MenuOrNone, tray : MenuOrNone]
      /\ js'.submenu = js.submenu /\ js'.menu = js.menu /\ js'.tray = js.tray
      /\ AllAgree'
  BY ListStep DEF Inv
<1>2. TypeOK'
  BY <1>1 DEF Inv, TypeOK
<1>3. PointersAreHeld'
  BY <1>1 DEF Inv, PointersAreHeld
<1> QED
  BY <1>1, <1>2, <1>3 DEF Inv

LEMMA AppendInv == ASSUME Inv, NEW m \in Menus, NEW i \in Items, AppendItem(m, i) PROVE Inv'
<1>1. /\ js.items[m] \in Seq(Items) /\ model[m] \in Seq(Entries)
      /\ ~Strays => Agree(js.items[m], model[m])
  BY DEF Inv, TypeOK, AllAgree
<1>2. Entry(i) \in Entries /\ Entry(i).item = i
  BY DEF Inv, TypeOK, Entry, Entries
<1> DEFINE list == Append(js.items[m], i)
           entries == Append(model[m], Entry(i))
<1>3. list \in Seq(Items) /\ entries \in Seq(Entries)
  BY <1>1, <1>2, AppendProperties
<1>4. ~Strays => Agree(list, entries)
  BY <1>1, <1>2, AgreeAfter
<1>5. /\ js' = [js EXCEPT !.items[m] = list] /\ model' = [model EXCEPT ![m] = entries]
      /\ UNCHANGED <<live, gone, submenu, bar, icon>>
  BY DEF AppendItem
<1> HIDE DEF list, entries
<1> QED
  BY <1>3, <1>4, <1>5, ListsInv

LEMMA InsertInv ==
  ASSUME Inv, NEW m \in Menus, NEW i \in Items, NEW pos \in Nat, InsertItem(m, i, pos) PROVE Inv'
<1>1. /\ js.items[m] \in Seq(Items) /\ model[m] \in Seq(Entries)
      /\ ~Strays => Agree(js.items[m], model[m])
  BY DEF Inv, TypeOK, AllAgree
<1>2. Entry(i) \in Entries /\ Entry(i).item = i
  BY DEF Inv, TypeOK, Entry, Entries
<1> DEFINE list == InsertAt(js.items[m], Place(js.items[m], pos), i)
<1>3. PICK entries \in With(model[m], pos, Entry(i)) : model' = [model EXCEPT ![m] = entries]
  BY DEF InsertItem
<1>4. /\ js' = [js EXCEPT !.items[m] = list] /\ UNCHANGED <<live, gone, submenu, bar, icon>>
      /\ Strays \/ pos \in 1 .. Len(js.items[m]) + 1
  BY DEF InsertItem
<1>5. list \in Seq(Items) /\ entries \in Seq(Entries)
  BY <1>1, <1>2, PlaceInList, Inserted, NativeChanges
<1>6. ASSUME ~Strays PROVE Agree(list, entries)
  <2>1. pos \in 1 .. Len(js.items[m]) + 1 /\ Len(js.items[m]) = Len(model[m])
    BY <1>1, <1>4, <1>6 DEF Agree
  <2>2. list = InsertAt(js.items[m], pos, i) /\ entries = InsertAt(model[m], pos, Entry(i))
    BY <1>1, <1>2, <2>1, PlaceInList, NativeChanges
  <2> QED
    BY <1>1, <1>2, <1>6, <2>1, <2>2, AgreeAfter
<1> HIDE DEF list
<1> QED
  BY <1>3, <1>4, <1>5, <1>6, ListsInv

\* Both removals take a place of the list, or, straying, its last item.
LEMMA RemoveInv ==
  ASSUME Inv, NEW m \in Menus, NEW pos, NEW list,
         \/ pos \in 1 .. Len(js.items[m]) /\ list = RemoveAt(js.items[m], pos)
         \/ Strays /\ list = Front(js.items[m]),
         js' = [js EXCEPT !.items[m] = list],
         \E entries \in Without(model[m], pos) : model' = [model EXCEPT ![m] = entries],
         UNCHANGED <<live, gone, submenu, bar, icon>>
  PROVE  Inv'
<1>1. /\ js.items[m] \in Seq(Items) /\ model[m] \in Seq(Entries)
      /\ ~Strays => Agree(js.items[m], model[m])
  BY DEF Inv, TypeOK, AllAgree
<1>2. PICK entries \in Without(model[m], pos) : model' = [model EXCEPT ![m] = entries]
  OBVIOUS
<1>3. list \in Seq(Items)
  BY <1>1, Removed, FrontTyped
<1>4. entries \in Seq(Entries)
  <2>1. Without(model[m], pos) \subseteq Seq(Entries)
    BY <1>1, Removed DEF Without
  <2> QED
    BY <2>1
<1>5. ASSUME ~Strays PROVE Agree(list, entries)
  <2>1. pos \in 1 .. Len(model[m]) /\ list = RemoveAt(js.items[m], pos)
    BY <1>1, <1>5 DEF Agree
  <2>2. entries = RemoveAt(model[m], pos)
    BY <1>2, <2>1 DEF Without
  <2> QED
    BY <1>1, <1>5, <2>1, <2>2, AgreeWithout
<1> QED
  BY <1>2, <1>3, <1>4, <1>5, ListsInv

LEMMA RemoveAtInv ==
  ASSUME Inv, NEW m \in Menus, NEW pos, RemoveItemAt(m, pos) PROVE Inv'
BY RemoveInv DEF RemoveItemAt

LEMMA RemoveItemInv ==
  ASSUME Inv, NEW m \in Menus, NEW i \in Items, RemoveItem(m, i) PROVE Inv'
<1> DEFINE pos == IndexOf(js.items[m], i)
           list == IF i \in ToSet(js.items[m]) THEN RemoveAt(js.items[m], pos)
                   ELSE Front(js.items[m])
<1>1. /\ js' = [js EXCEPT !.items[m] = list]
      /\ \E entries \in Without(model[m], pos) : model' = [model EXCEPT ![m] = entries]
      /\ UNCHANGED <<live, gone, submenu, bar, icon>>
      /\ Strays \/ i \in ToSet(js.items[m])
  BY DEF RemoveItem
<1>2. js.items[m] \in Seq(Items)
  BY DEF Inv, TypeOK
<1>3. \/ pos \in 1 .. Len(js.items[m]) /\ list = RemoveAt(js.items[m], pos)
      \/ Strays /\ list = Front(js.items[m])
  BY <1>1, <1>2, IndexInList
<1> HIDE DEF pos, list
<1> QED
  BY <1>1, <1>3, RemoveInv

LEMMA CollectInv == ASSUME Inv, NEW m \in Menus, Collect(m) PROVE Inv'
<1> USE MenuAssumption
<1>1. /\ <<>> \in Seq(Items) /\ <<>> \in Seq(Entries) /\ Agree(<<>>, <<>>)
      /\ js' = [js EXCEPT !.items[m] = <<>>] /\ model' = [model EXCEPT ![m] = <<>>]
  BY DEF Collect, Agree
<1>2. /\ model' \in [Menus -> Seq(Entries)]
      /\ js' \in [items : [Menus -> Seq(Items)], submenu : [Items -> MenuOrNone],
                  menu : MenuOrNone, tray : MenuOrNone]
      /\ js'.submenu = js.submenu /\ js'.menu = js.menu /\ js'.tray = js.tray
      /\ AllAgree'
  BY <1>1, ListStep DEF Inv
<1>3. live' = live \ {m} /\ UNCHANGED <<submenu, bar, icon>> /\ ~Held(m)
  BY DEF Collect
<1>4. TypeOK'
  BY <1>2, <1>3 DEF Inv, TypeOK
<1>5. \A i \in Items : submenu[i] # m /\ (i \in live => i \in live')
  BY <1>3 DEF Inv, PointersAreHeld, Held
<1>6. bar # m /\ icon.menu # m
  BY <1>3 DEF Inv, PointersAreHeld, Held
<1>7. PointersAreHeld'
  BY <1>2, <1>3, <1>5, <1>6 DEF Inv, PointersAreHeld
<1> QED
  BY <1>2, <1>4, <1>7 DEF Inv

\* An item gets a submenu, and is live.
LEMMA SubmenuInv ==
  ASSUME Inv, NEW i \in Items, NEW m \in (Menus \cap live) \cup {None},
         js' = [js EXCEPT !.submenu[i] = m], submenu' = [submenu EXCEPT ![i] = m],
         live' = live \cup {i}, UNCHANGED <<model, bar, icon>>
  PROVE  Inv'
<1> USE MenuAssumption DEF MenuOrNone
<1>1. /\ js.submenu \in [Items -> MenuOrNone] /\ submenu = js.submenu
      /\ \A k \in Items : submenu[k] # None => {k, submenu[k]} \subseteq live
  BY DEF Inv, TypeOK, PointersAreHeld
<1>2. /\ js'.submenu = [js.submenu EXCEPT ![i] = m]
      /\ js'.items = js.items /\ js'.menu = js.menu /\ js'.tray = js.tray
  BY DEF Inv, TypeOK
<1>3. js'.submenu \in [Items -> MenuOrNone] /\ submenu' = js'.submenu
  BY <1>1, <1>2
<1>4. js' \in [items : [Menus -> Seq(Items)], submenu : [Items -> MenuOrNone],
               menu : MenuOrNone, tray : MenuOrNone]
  BY DEF Inv, TypeOK
<1>5. TypeOK'
  BY <1>3, <1>4 DEF Inv, TypeOK
<1>6. \A k \in Items : submenu'[k] # None => {k, submenu'[k]} \subseteq live'
  BY <1>1, <1>2, <1>3
<1>7. PointersAreHeld'
  BY <1>2, <1>3, <1>6 DEF Inv, PointersAreHeld
<1>8. AllAgree'
  BY <1>2 DEF Inv, AllAgree, Agree
<1> QED
  BY <1>5, <1>7, <1>8 DEF Inv

LEMMA SetSubmenuInv ==
  ASSUME Inv, NEW i \in Items, NEW m \in Menus, SetSubmenu(i, m) PROVE Inv'
<1>1. /\ js' = [js EXCEPT !.submenu[i] = m] /\ submenu' = [submenu EXCEPT ![i] = m]
      /\ UNCHANGED <<model, bar, icon>> /\ live' = live /\ {m, i} \subseteq live
  BY DEF SetSubmenu
<1>2. live' = live \cup {i} /\ m \in (Menus \cap live) \cup {None}
  BY <1>1
<1> QED
  BY <1>1, <1>2, SubmenuInv

\* Steps that change no list.
LEMMA OtherInv ==
  ASSUME Inv,
         \/ \E m \in Menus : NewMenu(m) \/ SetMenu(m) \/ SetTrayMenu(m)
         \/ \E m \in Menus, i \in Items : SetSubmenu(i, m)
         \/ \E i \in Items : NewMenuItem(i)
         \/ ClearMenu \/ RemoveTray \/ UNCHANGED vars
  PROVE  Inv'
<1> USE MenuAssumption DEF Inv, TypeOK, PointersAreHeld, MenuOrNone
<1>1. AllAgree' <=> (~Strays => \A m \in Menus : Agree(js'.items[m], model'[m]))
  BY DEF AllAgree, Agree
<1>2. ~Strays => \A m \in Menus : Agree(js.items[m], model[m])
  BY DEF AllAgree
<1>3. ASSUME NEW m \in Menus, NewMenu(m) PROVE Inv'
  BY <1>1, <1>2, <1>3 DEF NewMenu
<1>4. ASSUME NEW m \in Menus, SetMenu(m) PROVE Inv'
  BY <1>1, <1>2, <1>4 DEF SetMenu, native
<1>5. ASSUME NEW m \in Menus, SetTrayMenu(m) PROVE Inv'
  BY <1>1, <1>2, <1>5 DEF SetTrayMenu, native
<1>6. ASSUME NEW m \in Menus, NEW i \in Items, SetSubmenu(i, m) PROVE Inv'
  BY <1>6, SetSubmenuInv
<1>7. ASSUME NEW i \in Items, NewMenuItem(i) PROVE Inv'
  BY <1>7, SubmenuInv DEF NewMenuItem
<1>8. CASE ClearMenu
  BY <1>1, <1>2, <1>8 DEF ClearMenu, native
<1>9. CASE RemoveTray
  BY <1>1, <1>2, <1>9 DEF RemoveTray, native
<1>10. CASE UNCHANGED vars
  BY <1>1, <1>2, <1>10 DEF vars
<1> QED
  BY <1>3, <1>4, <1>5, <1>6, <1>7, <1>8, <1>9, <1>10

LEMMA NextInv == Inv /\ [Next]_vars => Inv'
<1> SUFFICES ASSUME Inv, [Next]_vars PROVE Inv'
  OBVIOUS
<1>1. 0 .. MaxLen + 1 \subseteq Nat
  BY BoundAssumption
<1> QED
  BY <1>1, AppendInv, InsertInv, RemoveAtInv, RemoveItemInv, CollectInv, OtherInv DEF Next

LEMMA Invariance == Spec => []Inv
  BY InitInv, NextInv, PTL DEF Spec

\* For any menus and lists of any length, both sides see the same items in the same places,
\* unless the application inserts outside of a list or removes what is not in it.
THEOREM SameLists == ~Strays => (Spec => []ListsAgree)
<1> SUFFICES ASSUME ~Strays PROVE Spec => []ListsAgree
  OBVIOUS
<1>1. ASSUME Inv, NEW m \in Menus
      PROVE  js.items[m] = [n \in DOMAIN model[m] |-> model[m][n].item]
  <2>1. /\ js.items[m] \in Seq(Items) /\ model[m] \in Seq(Entries)
        /\ Agree(js.items[m], model[m])
    BY <1>1 DEF Inv, TypeOK, AllAgree
  <2>2. /\ DOMAIN js.items[m] = 1 .. Len(js.items[m]) /\ DOMAIN model[m] = 1 .. Len(model[m])
        /\ js.items[m] \in [1 .. Len(js.items[m]) -> Items]
    BY <2>1, LenProperties
  <2> QED
    BY <2>1, <2>2 DEF Agree
<1>2. Inv => ListsAgree
  BY <1>1 DEF ListsAgree
<1> QED
  BY <1>2, Invariance, PTL

\* For any menus and any application, what the bar, the icon and the submenus of the models
\* show is not collected.
THEOREM ShownIsLive == Spec => []PointersAreLive
<1>1. Inv => PointersAreLive
  <2> SUFFICES ASSUME Inv PROVE PointersAreLive
    OBVIOUS
  <2>1. {bar, icon.menu} \subseteq live \cup {None}
    BY DEF Inv, PointersAreHeld
  <2>2. ASSUME NEW m \in Menus, NEW e \in ToSet(model[m]), js.submenu[e.item] = e.sub
        PROVE  e.sub \in live \cup {None}
    <3>1. model[m] \in Seq(Entries)
      BY DEF Inv, TypeOK
    <3>2. e \in Entries
      BY <3>1, LenProperties DEF ToSet
    <3> QED
      BY <2>2, <3>2 DEF Inv, PointersAreHeld, Entries
  <2> QED
    BY <2>1, <2>2 DEF PointersAreLive
<1> QED
  BY <1>1, Invariance, PTL
=============================================================================
