-------------------------- MODULE StorageMigration --------------------------
(***************************************************************************)
(* MainPartsPreCreateThreadsHook (src/nw_content.cc): before an            *)
(* application starts, the DOM storage, WebSQL and IndexedDB data that an  *)
(* earlier version of the framework kept for file:// are brought into the  *)
(* profile, under the origin of the application.  The first is moved, two  *)
(* files one after the other; the others are copied, renamed and, for      *)
(* WebSQL, entered in a database of databases.  Every file operation is a  *)
(* step of its own: it may fail, which is ignored, and the process may die *)
(* after it; the next start finds what is there.                           *)
(***************************************************************************)
EXTENDS Naturals

CONSTANTS
  MaxStarts,  \* bound: starts of the application
  MaxFaults   \* bound: operations that fail and processes that die

ASSUME MigrationAssumption == MaxStarts \in Nat /\ MaxFaults \in Nat

VARIABLES
  old,     \* the earlier version's files
  new,     \* the profile
  step,    \* the hook's next operation, or what the process is about
  owns,    \* stores the application has written to
  starts,
  failures, crashes

vars == <<old, new, step, owns, starts, failures, crashes>>

Dirs   == {"databases", "IndexedDB"}
Stores == {"dom"} \cup Dirs
Data   == {"old", "part", "own"}   \* earlier data, a part of them, the application's
At(what, s) == [what |-> what, store |-> s]
Down    == At("down", "none")
Running == At("run", "none")

\* dom and dirs: what is found under the application's origin; journal: a journal of the
\* earlier DOM storage; parents: directories that exist; copies: what is left there under
\* the earlier name; tracker: the origin in Databases.db.
Init ==
  /\ old \in [dom : BOOLEAN, journal : BOOLEAN, dirs : SUBSET Dirs]
  /\ old.journal => old.dom
  /\ new = [dom |-> {}, journal |-> FALSE, parents |-> {}, copies |-> [d \in Dirs |-> {}],
            dirs |-> [d \in Dirs |-> {}], tracker |-> "none"]
  /\ step = Down /\ owns = {} /\ starts = 0 /\ failures = 0 /\ crashes = 0

Fails == failures + crashes < MaxFaults /\ failures' = failures + 1

Start ==
  /\ step = Down /\ starts < MaxStarts
  /\ starts' = starts + 1 /\ step' = At("check", "dom")
  /\ UNCHANGED <<old, new, owns, failures, crashes>>

(***************************************************************************)
(* DOM storage.                                                            *)
(***************************************************************************)
NewStorageExists == new.journal \/ new.dom # {}

\* Mutant: the journal is left.
MutantCheckStorage ==
  /\ step = At("check", "dom")
  /\ step' = IF old.dom /\ ~NewStorageExists THEN At("move", "dom") ELSE At("check", "databases")
  /\ UNCHANGED <<old, new, owns, starts, failures, crashes>>

CheckStorage ==
  /\ step = At("check", "dom")
  /\ step' = IF old.dom /\ ~NewStorageExists THEN At("journal", "dom") ELSE At("check", "databases")
  /\ UNCHANGED <<old, new, owns, starts, failures, crashes>>

MoveJournal ==
  /\ step = At("journal", "dom") /\ step' = At("move", "dom")
  /\ \/ /\ old' = [old EXCEPT !.journal = FALSE]
        /\ new' = [new EXCEPT !.journal = old.journal]
        /\ UNCHANGED failures
     \/ Fails /\ old.journal /\ UNCHANGED <<old, new>>
  /\ UNCHANGED <<owns, starts, crashes>>

MoveStorage ==
  /\ step = At("move", "dom") /\ step' = At("check", "databases")
  /\ \/ /\ old' = [old EXCEPT !.dom = FALSE]
        /\ new' = [new EXCEPT !.dom = {"old"}]
        /\ UNCHANGED failures
     \/ Fails /\ UNCHANGED <<old, new>>
  /\ UNCHANGED <<owns, starts, crashes>>

(***************************************************************************)
(* WebSQL and IndexedDB, one after the other.                              *)
(***************************************************************************)
NextStore(d) == IF d = "databases" THEN At("check", "IndexedDB") ELSE Running

\* Mutant: what is in the directory does not matter.
MutantToCopy(d) == d \in old.dirs

ToCopy(d) == d \in old.dirs /\ d \notin new.parents

\* The directory is created when it is found missing.
CreateParent(d) ==
  /\ step = At("check", d)
  /\ IF ToCopy(d) THEN /\ step' = At("copy", d)
                       /\ new' = [new EXCEPT !.parents = @ \cup {d}]
                  ELSE step' = NextStore(d) /\ UNCHANGED new
  /\ UNCHANGED <<old, owns, starts, failures, crashes>>

\* CopyDirectory, which may end half-way; Databases.db comes with the databases.
Copy(d) ==
  /\ step = At("copy", d) /\ step' = At("rename", d)
  /\ \/ /\ new' = [new EXCEPT !.copies[d] = {"old"}, !.tracker = IF d = "databases" THEN "file" ELSE @]
        /\ UNCHANGED failures
     \/ /\ Fails
        /\ \E some \in SUBSET {"part"}, entered \in BOOLEAN :
             new' = [new EXCEPT !.copies[d] = some,
                                !.tracker = IF d = "databases" /\ entered THEN "file" ELSE @]
  /\ UNCHANGED <<old, owns, starts, crashes>>

\* The copy, if there is one, gets the name of the application's origin.
Rename(d) ==
  /\ step = At("rename", d) /\ step' = IF d = "databases" THEN At("enter", d) ELSE Running
  /\ \/ /\ new' = [new EXCEPT !.dirs[d] = new.copies[d], !.copies[d] = {}]
        /\ UNCHANGED failures
     \/ Fails /\ UNCHANGED new
  /\ UNCHANGED <<old, owns, starts, crashes>>

\* Mutant: the row is looked for under the new name.
MutantEnter ==
  /\ step = At("enter", "databases") /\ step' = At("check", "IndexedDB")
  /\ UNCHANGED <<old, new, owns, starts, failures, crashes>>

\* UPDATE Databases, if the table is there.
Enter ==
  /\ step = At("enter", "databases") /\ step' = At("check", "IndexedDB")
  /\ \/ /\ new' = [new EXCEPT !.tracker = IF @ = "file" THEN "app" ELSE @]
        /\ UNCHANGED failures
     \/ Fails /\ UNCHANGED new
  /\ UNCHANGED <<old, owns, starts, crashes>>

(***************************************************************************)
(* The application, and its end.                                           *)
(***************************************************************************)
\* Opening the DOM storage rolls the journal back; a database is made, and entered, when
\* its origin has none.
Write(s) ==
  /\ step = Running /\ owns' = owns \cup {s}
  /\ new' = IF s = "dom" THEN [new EXCEPT !.dom = @ \cup {"own"}, !.journal = FALSE]
            ELSE [new EXCEPT !.dirs[s] = @ \cup {"own"}, !.parents = @ \cup {s},
                             !.tracker = IF s = "databases" THEN "app" ELSE @]
  /\ UNCHANGED <<old, step, starts, failures, crashes>>

Quit ==
  /\ step = Running /\ step' = Down
  /\ UNCHANGED <<old, new, owns, starts, failures, crashes>>

Crash ==
  /\ step \notin {Down, Running} /\ failures + crashes < MaxFaults /\ step' = Down
  /\ crashes' = crashes + 1
  /\ UNCHANGED <<old, new, owns, starts, failures>>

Next ==
  \/ Start \/ CheckStorage \/ MoveJournal \/ MoveStorage
  \/ \E d \in Dirs : CreateParent(d) \/ Copy(d) \/ Rename(d)
  \/ Enter
  \/ \E s \in Stores : Write(s)
  \/ Quit \/ Crash

Spec == Init /\ [][Next]_vars

(***************************************************************************)
(* Properties.                                                             *)
(***************************************************************************)
Holds(s) == IF s = "dom" THEN new.dom ELSE new.dirs[s]

\* What the application has written stays, whatever later starts find of the earlier
\* version's files and whatever of their migration was left half done.
OwnIsKept == \A s \in owns : "own" \in Holds(s)

\* As long as no operation fails, wherever processes die: the earlier DOM storage is never in
\* the profile while its journal is not, which is moved first; and an application runs without
\* the earlier database only if its journal came over alone, in a process that died between
\* the two moves.  (The database is then left behind for good: every later start finds the
\* journal, or what the application wrote.)
JournalGoesFirst ==
  failures = 0 =>
    /\ "old" \in new.dom => ~old.journal /\ ~old.dom
    /\ step = Running /\ old.dom => ~old.journal /\ (new.journal \/ "dom" \in owns)

\* Unless something failed, an application that runs finds all the earlier data: the DOM
\* storage with its journal, and WebSQL under the origin its directory is named for.
StartMigrates ==
  step = Running /\ failures = 0 /\ crashes = 0 =>
    /\ ~old.dom
    /\ \A d \in old.dirs : "old" \in new.dirs[d]
    /\ "databases" \in old.dirs => new.tracker = "app"
=============================================================================
