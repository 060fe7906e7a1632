----------------------- MODULE StorageMigrationProofs -----------------------
(***************************************************************************)
(* The three invariants of StorageMigration hold for any number of starts, *)
(* failures and crashes.  Each is made inductive by saying what the hook's *)
(* next operation may rely on: that the application has not written yet to *)
(* a store that is about to be moved or renamed, that the journal is gone  *)
(* before the storage, and how far the two directories are.                *)
(***************************************************************************)
EXTENDS StorageMigration, TLAPS

Steps == [what : {"down", "run", "check", "journal", "move", "copy", "rename", "enter"},
          store : Stores \cup {"none"}]

NewType == [dom : SUBSET Data, journal : BOOLEAN, parents : SUBSET Dirs, copies : [Dirs -> SUBSET Data],
            dirs : [Dirs -> SUBSET Data], tracker : {"none", "file", "app"}]

TypeOK ==
  /\ old \in [dom : BOOLEAN, journal : BOOLEAN, dirs : SUBSET Dirs]
  /\ new \in NewType
  /\ step \in Steps
  /\ owns \in SUBSET Stores
  /\ starts \in Nat /\ failures \in Nat /\ crashes \in Nat

\* What Copy leaves: the whole, unless it failed.
LEMMA CopyResult ==
  ASSUME TypeOK, NEW d \in Dirs, Copy(d)
  PROVE  /\ new' \in NewType
         /\ new'.dom = new.dom /\ new'.journal = new.journal /\ new'.parents = new.parents
         /\ new'.dirs = new.dirs
         /\ \A e \in Dirs : e # d => new'.copies[e] = new.copies[e]
         /\ d # "databases" => new'.tracker = new.tracker
         /\ failures' = failures \/ failures' = failures + 1
         /\ failures' = failures => "old" \in new'.copies[d] /\ (d = "databases" => new'.tracker = "file")
         /\ UNCHANGED <<old, owns, starts, crashes>>
         /\ step = At("copy", d) /\ step' = At("rename", d)
<1> USE DEF TypeOK, NewType, Data
<1>1. new \in NewType /\ failures \in Nat
  OBVIOUS
<1>2. PICK c \in SUBSET Data, t \in {"none", "file", "app"} :
         /\ new' = [new EXCEPT !.copies[d] = c, !.tracker = t]
         /\ d # "databases" => t = new.tracker
         /\ failures' = failures \/ failures' = failures + 1
         /\ failures' = failures => "old" \in c /\ (d = "databases" => t = "file")
  <2>1. CASE /\ new' = [new EXCEPT !.copies[d] = {"old"}, !.tracker = IF d = "databases" THEN "file" ELSE @]
             /\ UNCHANGED failures
    <3>1. new' = [new EXCEPT !.copies[d] = {"old"}, !.tracker = IF d = "databases" THEN "file" ELSE new.tracker]
      BY <2>1
    <3> QED
      BY <2>1, <3>1
  <2>2. ASSUME Fails, NEW some \in SUBSET {"part"}, NEW entered \in BOOLEAN,
               new' = [new EXCEPT !.copies[d] = some,
                                  !.tracker = IF d = "databases" /\ entered THEN "file" ELSE @]
        PROVE  \E c \in SUBSET Data, t \in {"none", "file", "app"} :
         /\ new' = [new EXCEPT !.copies[d] = c, !.tracker = t]
         /\ d # "databases" => t = new.tracker
         /\ failures' = failures \/ failures' = failures + 1
         /\ failures' = failures => "old" \in c /\ (d = "databases" => t = "file")
    <3>1. new' = [new EXCEPT !.copies[d] = some,
                             !.tracker = IF d = "databases" /\ entered THEN "file" ELSE new.tracker]
      BY <2>2
    <3>2. failures' = failures + 1 /\ failures' # failures
      BY <2>2 DEF Fails
    <3> QED
      BY <3>1, <3>2
  <2> QED
    BY <2>1, <2>2 DEF Copy
<1>3. new' \in NewType
  BY <1>1, <1>2
<1> QED
  BY <1>1, <1>2, <1>3 DEF Copy

\* What Rename leaves: the copy under the new name, unless it failed.
LEMMA RenameResult ==
  ASSUME TypeOK, NEW d \in Dirs, Rename(d)
  PROVE  /\ new' \in NewType
         /\ new'.dom = new.dom /\ new'.journal = new.journal /\ new'.parents = new.parents
         /\ new'.tracker = new.tracker
         /\ \A e \in Dirs : e # d => new'.copies[e] = new.copies[e] /\ new'.dirs[e] = new.dirs[e]
         /\ failures' = failures \/ failures' = failures + 1
         /\ failures' = failures => new'.dirs[d] = new.copies[d]
         /\ UNCHANGED <<old, owns, starts, crashes>>
         /\ step = At("rename", d)
         /\ step' = IF d = "databases" THEN At("enter", d) ELSE Running
<1> USE DEF TypeOK, NewType, Data
<1>1. new \in NewType /\ failures \in Nat
  OBVIOUS
<1>2. CASE new' = [new EXCEPT !.dirs[d] = new.copies[d], !.copies[d] = {}] /\ UNCHANGED failures
  <2>1. new.copies[d] \in SUBSET Data
    BY <1>1
  <2>2. new' \in NewType
    BY <1>1, <1>2, <2>1
  <2> QED
    BY <1>1, <1>2, <2>1, <2>2 DEF Rename
<1>3. CASE Fails /\ UNCHANGED new
  BY <1>1, <1>3 DEF Fails, Rename
<1> QED
  BY <1>2, <1>3 DEF Rename

\* The variables have their types.
THEOREM Typing == Spec => []TypeOK
<1>1. Init => TypeOK
  BY DEF Init, TypeOK, NewType, Data, Steps, Down, At, Stores, Dirs
<1>2. TypeOK /\ [Next]_vars => TypeOK'
  <2> SUFFICES ASSUME TypeOK, [Next]_vars PROVE TypeOK'
    OBVIOUS
  <2> USE DEF TypeOK, NewType, Steps, Stores, Dirs, Data, At, Down, Running
  <2>1. CASE Start BY <2>1 DEF Start
  <2>2. CASE CheckStorage BY <2>2 DEF CheckStorage
  <2>3. CASE MoveJournal
    <3>1. old' \in [dom : BOOLEAN, journal : BOOLEAN, dirs : SUBSET Dirs]
      BY <2>3 DEF MoveJournal
    <3>2. new' \in NewType
      BY <2>3 DEF MoveJournal, NewType
    <3> QED
      BY <2>3, <3>1, <3>2 DEF MoveJournal, Fails, NewType
  <2>4. CASE MoveStorage
    <3>1. old' \in [dom : BOOLEAN, journal : BOOLEAN, dirs : SUBSET Dirs]
      BY <2>4 DEF MoveStorage
    <3>2. new' \in NewType
      BY <2>4 DEF MoveStorage, NewType
    <3> QED
      BY <2>4, <3>1, <3>2 DEF MoveStorage, Fails, NewType
  <2>5. ASSUME NEW d \in Dirs, CreateParent(d) PROVE TypeOK'
    BY <2>5 DEF CreateParent, NextStore
  <2>6. ASSUME NEW d \in Dirs, Copy(d) PROVE TypeOK'
    <3>1. new' \in NewType /\ UNCHANGED <<old, owns, starts, crashes>>
      BY <2>6, CopyResult
    <3>2. failures' \in Nat
      BY <2>6, CopyResult
    <3>3. step' \in Steps
      BY <2>6, CopyResult
    <3> QED
      BY <3>1, <3>2, <3>3
  <2>7. ASSUME NEW d \in Dirs, Rename(d) PROVE TypeOK'
    <3>1. new' \in NewType /\ UNCHANGED <<old, owns, starts, crashes>>
      BY <2>7, RenameResult
    <3>2. failures' \in Nat
      BY <2>7, RenameResult
    <3>3. step' \in Steps
      BY <2>7, RenameResult
    <3> QED
      BY <3>1, <3>2, <3>3
  <2>8. CASE Enter BY <2>8 DEF Enter, Fails
  <2>9. ASSUME NEW s \in Stores, Write(s) PROVE TypeOK'
    BY <2>9 DEF Write
  <2>10. CASE Quit BY <2>10 DEF Quit
  <2>11. CASE Crash BY <2>11 DEF Crash
  <2>12. CASE UNCHANGED vars BY <2>12 DEF vars
  <2> QED
    BY <2>1, <2>2, <2>3, <2>4, <2>5, <2>6, <2>7, <2>8, <2>9, <2>10, <2>11, <2>12 DEF Next
<1> QED
  BY <1>1, <1>2, PTL DEF Spec

(***************************************************************************)
(* What the application has written.                                       *)
(***************************************************************************)
OwnInv ==
  /\ "dom" \in owns => "own" \in new.dom
  /\ \A d \in Dirs : d \in owns => d \in new.parents /\ "own" \in new.dirs[d]
  /\ step \in {At("journal", "dom"), At("move", "dom")} => "dom" \notin owns
  /\ \A d \in Dirs : step \in {At("copy", d), At("rename", d)} => d \notin owns

\* What the application has written is never overwritten by a migration.
THEOREM OwnKept == Spec => []OwnIsKept
<1>1. Init => OwnInv
  BY DEF Init, OwnInv, Down, At
<1>2. TypeOK /\ OwnInv /\ [Next]_vars => OwnInv'
  <2> SUFFICES ASSUME TypeOK, OwnInv, [Next]_vars PROVE OwnInv'
    OBVIOUS
  <2> USE DEF TypeOK, NewType, OwnInv, Stores, Dirs, At, Down, Running
  <2>1. CASE Start BY <2>1 DEF Start
  <2>2. CASE CheckStorage BY <2>2 DEF CheckStorage, NewStorageExists
  <2>3. CASE MoveJournal BY <2>3 DEF MoveJournal
  <2>4. CASE MoveStorage BY <2>4 DEF MoveStorage
  <2>5. ASSUME NEW d \in Dirs, CreateParent(d) PROVE OwnInv'
    BY <2>5 DEF CreateParent, NextStore, ToCopy
  <2>6. ASSUME NEW d \in Dirs, Copy(d) PROVE OwnInv'
    BY <2>6, CopyResult
  <2>7. ASSUME NEW d \in Dirs, Rename(d) PROVE OwnInv'
    BY <2>7, RenameResult
  <2>8. CASE Enter BY <2>8 DEF Enter
  <2>9. ASSUME NEW s \in Stores, Write(s) PROVE OwnInv'
    BY <2>9 DEF Write
  <2>10. CASE Quit BY <2>10 DEF Quit
  <2>11. CASE Crash BY <2>11 DEF Crash
  <2>12. CASE UNCHANGED vars BY <2>12 DEF vars
  <2> QED
    BY <2>1, <2>2, <2>3, <2>4, <2>5, <2>6, <2>7, <2>8, <2>9, <2>10, <2>11, <2>12 DEF Next
<1>3. TypeOK /\ OwnInv => OwnIsKept
  BY DEF TypeOK, OwnInv, OwnIsKept, Holds, Stores
<1> QED
  BY <1>1, <1>2, <1>3, Typing, PTL DEF Spec

(***************************************************************************)
(* The journal of the DOM storage.                                         *)
(***************************************************************************)
BeforeMoves == {Down, At("check", "dom"), At("journal", "dom"), At("move", "dom")}

JournalInv ==
  /\ JournalGoesFirst
  /\ new.journal => ~old.journal
  /\ "part" \notin new.dom /\ ("own" \in new.dom => "dom" \in owns)
  /\ failures = 0 =>
       /\ step = At("move", "dom") => ~old.journal
       /\ old.dom /\ "dom" \in owns => ~old.journal
       /\ old.dom /\ step \notin BeforeMoves => ~old.journal /\ (new.journal \/ "dom" \in owns)

\* If no operation fails, the DOM storage is brought over after its journal, and it is left
\* behind only if the journal came over alone, wherever processes die.
THEOREM JournalFirst == Spec => []JournalGoesFirst
<1>1. Init => JournalInv
  BY DEF Init, JournalInv, JournalGoesFirst, BeforeMoves, Down, Running, At
<1>2. TypeOK /\ JournalInv /\ [Next]_vars => JournalInv'
  <2> SUFFICES ASSUME TypeOK, JournalInv, [Next]_vars PROVE JournalInv'
    OBVIOUS
  <2> USE DEF TypeOK, NewType, JournalInv, JournalGoesFirst, BeforeMoves, Stores, Dirs, Data,
      At, Down, Running
  <2>1. CASE Start BY <2>1 DEF Start
  <2>2. CASE CheckStorage BY <2>2 DEF CheckStorage, NewStorageExists
  <2>3. CASE MoveJournal BY <2>3 DEF MoveJournal, Fails
  <2>4. CASE MoveStorage BY <2>4 DEF MoveStorage, Fails
  <2>5. ASSUME NEW d \in Dirs, CreateParent(d) PROVE JournalInv'
    BY <2>5 DEF CreateParent, NextStore
  <2>6. ASSUME NEW d \in Dirs, Copy(d) PROVE JournalInv'
    BY <2>6, CopyResult
  <2>7. ASSUME NEW d \in Dirs, Rename(d) PROVE JournalInv'
    BY <2>7, RenameResult
  <2>8. CASE Enter BY <2>8 DEF Enter, Fails
  <2>9. ASSUME NEW s \in Stores, Write(s) PROVE JournalInv'
    BY <2>9 DEF Write
  <2>10. CASE Quit BY <2>10 DEF Quit
  <2>11. CASE Crash BY <2>11 DEF Crash
  <2>12. CASE UNCHANGED vars BY <2>12 DEF vars
  <2> QED
    BY <2>1, <2>2, <2>3, <2>4, <2>5, <2>6, <2>7, <2>8, <2>9, <2>10, <2>11, <2>12 DEF Next
<1>3. JournalInv => JournalGoesFirst
  BY DEF JournalInv
<1> QED
  BY <1>1, <1>2, <1>3, Typing, PTL DEF Spec

(***************************************************************************)
(* A start in which nothing fails.                                         *)
(***************************************************************************)
Clean == failures = 0 /\ crashes = 0

Done(d) == "old" \in new.dirs[d] /\ (d = "databases" => new.tracker = "app")

\* How far the directory is, once it exists.
UnderWay(d) ==
  \/ step = At("copy", d)
  \/ step = At("rename", d) /\ "old" \in new.copies[d] /\ (d = "databases" => new.tracker = "file")
  \/ step = At("enter", d) /\ "old" \in new.dirs[d] /\ new.tracker = "file"

CleanInv == Clean =>
  /\ old.dom => /\ step \in {Down, At("check", "dom"), At("journal", "dom"), At("move", "dom")}
                /\ step # At("move", "dom") => ~NewStorageExists
  /\ \A d \in old.dirs : d \in new.parents => UnderWay(d) \/ Done(d)
  /\ \A d \in Dirs : step \in {At("copy", d), At("rename", d), At("enter", d)} =>
                       d \in old.dirs /\ d \in new.parents /\ UnderWay(d)
  /\ step \in {At("check", "IndexedDB"), At("copy", "IndexedDB"), At("rename", "IndexedDB"), Running} =>
       ("databases" \in old.dirs => Done("databases"))
  /\ step = Running => ("IndexedDB" \in old.dirs => Done("IndexedDB"))

\* Unless an operation failed or the process died, the application finds all its data.
THEOREM Migrates == Spec => []StartMigrates
<1>1. Init => CleanInv
  BY DEF Init, CleanInv, Down, Running, At, NewStorageExists, Dirs
<1>2. TypeOK /\ CleanInv /\ [Next]_vars => CleanInv'
  <2> SUFFICES ASSUME TypeOK, CleanInv, [Next]_vars, Clean' PROVE CleanInv'
    BY DEF CleanInv
  <2> USE DEF TypeOK, NewType, CleanInv, Clean, UnderWay, Done, Stores, Dirs, Data, At, Down, Running, NewStorageExists
  <2>1. CASE Start BY <2>1 DEF Start
  <2>2. CASE CheckStorage BY <2>2 DEF CheckStorage
  <2>3. CASE MoveJournal BY <2>3 DEF MoveJournal, Fails
  <2>4. CASE MoveStorage BY <2>4 DEF MoveStorage, Fails
  <2>5. ASSUME NEW d \in Dirs, CreateParent(d) PROVE CleanInv'
    BY <2>5 DEF CreateParent, NextStore, ToCopy
  <2>6. ASSUME NEW d \in Dirs, Copy(d) PROVE CleanInv'
    BY <2>6, CopyResult
  <2>7. ASSUME NEW d \in Dirs, Rename(d) PROVE CleanInv'
    BY <2>7, RenameResult
  <2>8. CASE Enter BY <2>8 DEF Enter, Fails
  <2>9. ASSUME NEW s \in Stores, Write(s) PROVE CleanInv'
    BY <2>9 DEF Write
  <2>10. CASE Quit BY <2>10 DEF Quit
  <2>11. CASE Crash BY <2>11 DEF Crash
  <2>12. CASE UNCHANGED vars BY <2>12 DEF vars
  <2> QED
    BY <2>1, <2>2, <2>3, <2>4, <2>5, <2>6, <2>7, <2>8, <2>9, <2>10, <2>11, <2>12 DEF Next
<1>3. TypeOK /\ CleanInv => StartMigrates
  BY DEF TypeOK, CleanInv, Clean, StartMigrates, Done, Dirs, Running, Down, At
<1> QED
  BY <1>1, <1>2, <1>3, Typing, PTL DEF Spec
=============================================================================
