---------------------------- MODULE CookieStore ----------------------------
(***************************************************************************)
(* SQLitePersistentCookieStore (src/net/sqlite_persistent_cookie_store.cc).*)
(* A cookie monster calls the store on its own thread; Backend batches     *)
(* its operations under a lock and works off tasks on the DB thread,       *)
(* which answers with tasks on the IO thread.  The DB thread's task is     *)
(* the head of dbQueue; what it does under the lock, in a transaction or   *)
(* to the database file is a step, so other threads and a crash may come   *)
(* between.  A restart is a new Backend on the file that was left.         *)
(***************************************************************************)
EXTENDS Integers, Sequences, FiniteSets

CONSTANTS
  Cookies,      \* a cookie is its creation time, the primary key
  Keys,         \* domain keys (eTLD+1), here with one origin each
  Times,        \* last-access times; a new row has the least one
  Absent,       \* no row
  SessionOnly,  \* cookies with persistent = 0
  Restore,      \* restore_old_session_cookies_
  ClearKeys,    \* origins ShouldClearOriginOnExit names
  Versions,     \* version numbers the file may have before the first start
  BatchSize,    \* kCommitAfterBatchSize
  MaxSessions,  \* bound: processes one after the other
  MaxOps,       \* bound: operations submitted in one session
  MaxPriority,  \* bound: calls of LoadCookiesForKey in one session
  MaxFlushes,   \* bound: calls of Flush in one session
  MaxErrors     \* bound: SQLite errors in one session

CONSTANT KeyOf(_)   \* the key of a cookie's domain

ASSUME StoreAssumption ==
  /\ IsFiniteSet(Cookies)
  /\ Times \subseteq Nat /\ 0 \in Times
  /\ Absent \notin Times
  /\ SessionOnly \subseteq Cookies
  /\ ClearKeys \subseteq Keys
  /\ Restore \in BOOLEAN
  /\ Versions \subseteq Nat
  /\ BatchSize \in Nat \ {0}
  /\ \A c \in Cookies : KeyOf(c) \in Keys

ASSUME BoundAssumption ==
  /\ MaxSessions \in Nat \ {0}
  /\ {MaxOps, MaxPriority, MaxFlushes, MaxErrors} \subseteq Nat

VARIABLES
  table,     \* on disk, the rows: cookie to last-access time, or Absent
  version,   \* on disk, the version number in the meta table
  backend,   \* the fields of Backend, and what its DB thread is about
  loops,     \* message loops: tasks of the DB and the IO thread, Commit timers
  monster,   \* the cookie monster: what it has called and been told
  errors,    \* errors of SQLite in this session
  sessions   \* processes so far

vars == <<table, version, backend, loops, monster, errors, sessions>>

CurrentVersion == 5

\* step: the next thing the DB thread's current task does; openFailed, a history:
\* InitializeDatabase has returned false.
NewBackend ==
  [open |-> FALSE, initialized |-> FALSE, corruption |-> FALSE, step |-> "start",
   pending |-> <<>>, numPending |-> 0, batch |-> <<>>, keysToLoad |-> {},
   loaded |-> {}, perOrigin |-> [k \in Keys |-> 0], forceKeep |-> FALSE,
   openFailed |-> FALSE]

NewMonster ==
  [called |-> FALSE, answered |-> FALSE, asked |-> {}, ready |-> {}, handed |-> {},
   view |-> [c \in Cookies |-> Absent], issued |-> 0, flushes |-> 0, gone |-> FALSE]

NewLoops == [db |-> <<>>, io |-> <<>>, timers |-> 0]

Task(t, k, n) == [task |-> t, key |-> k, number |-> n]
Plain(t) == Task(t, "none", 0)

\* The DB thread's current task is a t, and has come to this step.
At(t, step) == /\ loops.db # <<>> /\ Head(loops.db).task = t
               /\ backend.step = step

Healthy == errors = 0 /\ version <= CurrentVersion

\* The backend has been closed.
Closed == monster.gone /\ ~\E i \in DOMAIN loops.db : loops.db[i].task = "close"

Table == INSTANCE CookieTable WITH
  table   <- table,
  queue   <- backend.batch \o backend.pending,
  healthy <- Healthy,
  closed  <- Closed

Persists(c) == Restore \/ c \notin SessionOnly
Rows(k) == {<<c, table[c]>> : c \in {d \in Cookies :
                KeyOf(d) = k /\ table[d] # Absent /\ Persists(d)}}

Init ==
  /\ table \in [Cookies -> {0, Absent}]
  /\ version \in Versions
  /\ backend = NewBackend /\ loops = NewLoops /\ monster = NewMonster
  /\ errors = 0 /\ sessions = 1

\* The process dies, or has ended, and the next one starts on the file.
Restart ==
  /\ sessions < MaxSessions
  /\ sessions' = sessions + 1
  /\ backend' = NewBackend /\ loops' = NewLoops /\ monster' = NewMonster
  /\ errors' = 0
  /\ UNCHANGED <<table, version>>

(***************************************************************************)
(* The calling thread.                                                     *)
(***************************************************************************)
PostDB(t) == loops' = [loops EXCEPT !.db = Append(@, t)]

Load ==
  /\ ~monster.called /\ ~monster.gone
  /\ monster' = [monster EXCEPT !.called = TRUE]
  /\ PostDB(Plain("load"))
  /\ UNCHANGED <<table, version, backend, errors, sessions>>

LoadCookiesForKey(k) ==
  /\ monster.called /\ ~monster.gone /\ k \notin monster.asked
  /\ Cardinality(monster.asked) < MaxPriority
  /\ monster' = [monster EXCEPT !.asked = @ \cup {k}]
  /\ PostDB(Task("loadKey", k, 0))
  /\ UNCHANGED <<table, version, backend, errors, sessions>>

\* The monster works on the cookies of a key once they are loaded; creation times
\* are unique, so a cookie it adds has never been there.
Possible(o) ==
  /\ KeyOf(o.cookie) \in monster.ready
  /\ IF o.op = "add" THEN o.time = 0 /\ table[o.cookie] = Absent /\ o.cookie \notin monster.handed
                     ELSE monster.view[o.cookie] # Absent
  /\ o.op = "access" => o.time > monster.view[o.cookie]
  /\ o.op = "delete" => o.time = 0

\* Mutant: the timer is left to the batch limit.
MutantBatchOperation(o) ==
  LET num == backend.numPending + 1
      due == num # 1 /\ num = BatchSize
  IN
  /\ ~monster.gone /\ monster.issued < MaxOps /\ Possible(o)
  /\ backend' = [backend EXCEPT !.pending = Append(@, o), !.numPending = num]
  /\ loops' = [loops EXCEPT !.db = IF due THEN Append(@, Plain("commit")) ELSE @]
  /\ monster' = [monster EXCEPT !.view = Table!Effect(@, o), !.issued = @ + 1,
                                !.handed = @ \cup {o.cookie}]
  /\ UNCHANGED <<table, version, errors, sessions>>

BatchOperation(o) ==
  LET num == backend.numPending + 1
      due == num # 1 /\ num = BatchSize
  IN
  /\ ~monster.gone /\ monster.issued < MaxOps /\ Possible(o)
  /\ backend' = [backend EXCEPT !.pending = Append(@, o), !.numPending = num]
  /\ loops' = [loops EXCEPT !.timers = IF num = 1 THEN @ + 1 ELSE @,
                            !.db = IF due THEN Append(@, Plain("commit")) ELSE @]
  /\ monster' = [monster EXCEPT !.view = Table!Effect(@, o), !.issued = @ + 1,
                                !.handed = @ \cup {o.cookie}]
  /\ UNCHANGED <<table, version, errors, sessions>>

\* Mutant: the closure is posted first.
MutantFlush ==
  /\ monster.called /\ ~monster.gone /\ monster.flushes < MaxFlushes
  /\ monster' = [monster EXCEPT !.flushes = @ + 1]
  /\ loops' = [loops EXCEPT !.db = @ \o <<Task("closure", "none", monster.issued),
                                          Plain("commit")>>]
  /\ UNCHANGED <<table, version, backend, errors, sessions>>

\* Commit, and behind it the caller's closure.
Flush ==
  /\ monster.called /\ ~monster.gone /\ monster.flushes < MaxFlushes
  /\ monster' = [monster EXCEPT !.flushes = @ + 1]
  /\ loops' = [loops EXCEPT !.db = @ \o <<Plain("commit"),
                                          Task("closure", "none", monster.issued)>>]
  /\ UNCHANGED <<table, version, backend, errors, sessions>>

\* The store is destroyed and closes the backend on the DB thread.  Only that task
\* reads force_keep_session_state_: SetForceKeepSessionState may as well come last.
Close(keep) ==
  /\ ~monster.gone
  /\ monster' = [monster EXCEPT !.gone = TRUE]
  /\ backend' = [backend EXCEPT !.forceKeep = keep]
  /\ PostDB(Plain("close"))
  /\ UNCHANGED <<table, version, errors, sessions>>

\* Mutant: what is handed over stays in the buffer.
MutantCompleteLoadOnIOThread ==
  /\ loops.io # <<>>
  /\ LET t   == Head(loops.io)
         new == {p[1] : p \in backend.loaded}
     IN monster' = [monster EXCEPT
          !.answered = @ \/ t.task = "load",
          !.ready  = IF t.task = "load" THEN Keys ELSE @ \cup {t.key},
          !.handed = @ \cup new,
          !.view   = [c \in Cookies |->
                        IF c \in new THEN (CHOOSE p \in backend.loaded : p[1] = c)[2]
                                     ELSE @[c]]]
  /\ loops' = [loops EXCEPT !.io = Tail(@)]
  /\ UNCHANGED <<table, version, backend, errors, sessions>>

\* Notify: every load hands over all that has been read by then.
CompleteLoadOnIOThread ==
  /\ loops.io # <<>>
  /\ LET t   == Head(loops.io)
         new == {p[1] : p \in backend.loaded}
     IN monster' = [monster EXCEPT
          !.answered = @ \/ t.task = "load",
          !.ready  = IF t.task = "load" THEN Keys ELSE @ \cup {t.key},
          !.handed = @ \cup new,
          !.view   = [c \in Cookies |->
                        IF c \in new THEN (CHOOSE p \in backend.loaded : p[1] = c)[2]
                                     ELSE @[c]]]
  /\ backend' = [backend EXCEPT !.loaded = {}]
  /\ loops' = [loops EXCEPT !.io = Tail(@)]
  /\ UNCHANGED <<table, version, errors, sessions>>

(***************************************************************************)
(* The DB thread.  A task ends with the tasks it posts to the two threads. *)
(***************************************************************************)
Ends(toDB, toIO) == loops' = [loops EXCEPT !.db = Tail(@) \o toDB, !.io = @ \o toIO]

\* An error of SQLite.  The first catastrophic one marks the store corrupt and
\* has the database killed by a task of its own.
Error(catastrophic) ==
  /\ errors < MaxErrors
  /\ errors' = errors + 1
  /\ catastrophic => ~backend.corruption

Kill(catastrophic) == IF catastrophic THEN <<Plain("kill")>> ELSE <<>>
NoRows == [c \in Cookies |-> Absent]

\* The task that loads answers its caller (load and chain answer Load's).
Answer == LET t == Head(loops.db) IN
  <<IF t.task = "loadKey" THEN t ELSE Plain("load")>>

Loading(step) == At("load", step) \/ At("loadKey", step)
MayInitialize == ~backend.initialized /\ ~backend.corruption

\* InitializeDatabase opens the file ...
OpenDatabase ==
  /\ Loading("start") /\ MayInitialize
  /\ backend' = [backend EXCEPT !.open = TRUE, !.step = "upgrade"]
  /\ UNCHANGED <<table, version, loops, monster, errors, sessions>>

\* ... or cannot, then or while it upgrades it; a corrupt file is razed.
InitializeFails ==
  /\ (Loading("start") /\ MayInitialize) \/ Loading("upgrade")
  /\ \E catastrophic \in BOOLEAN :
       /\ Error(catastrophic)
       /\ table' \in {table} \cup (IF catastrophic THEN {NoRows} ELSE {})
       /\ backend' = [backend EXCEPT !.open = FALSE, !.step = "start", !.openFailed = TRUE,
                                     !.corruption = @ \/ catastrophic]
       /\ Ends(Kill(catastrophic), Answer)
  /\ UNCHANGED <<version, monster, sessions>>

\* Mutant: the caller is not told.
MutantDatabaseTooNew ==
  /\ Loading("upgrade") /\ version > CurrentVersion
  /\ backend' = [backend EXCEPT !.open = FALSE, !.step = "start", !.openFailed = TRUE]
  /\ Ends(<<>>, <<>>)
  /\ UNCHANGED <<table, version, monster, errors, sessions>>

DatabaseTooNew ==
  /\ Loading("upgrade") /\ version > CurrentVersion
  /\ backend' = [backend EXCEPT !.open = FALSE, !.step = "start", !.openFailed = TRUE]
  /\ Ends(<<>>, Answer)
  /\ UNCHANGED <<table, version, monster, errors, sessions>>

\* EnsureDatabaseVersion: one transaction per version, or a new file in place
\* of one whose version no case knows.
EnsureDatabaseVersion ==
  /\ Loading("upgrade") /\ version < CurrentVersion
  /\ IF version \in 2..4
       THEN version' = version + 1 /\ UNCHANGED table
       ELSE version' = CurrentVersion /\ table' = NoRows
  /\ UNCHANGED <<backend, loops, monster, errors, sessions>>

\* The map of keys to load; an error while it is read leaves it short.
ReadKeys ==
  /\ Loading("upgrade") /\ version = CurrentVersion
  /\ LET all == {KeyOf(c) : c \in {d \in Cookies : table[d] # Absent}}
         Initialized(ks, corrupt) == backend' = [backend EXCEPT
            !.keysToLoad = ks, !.initialized = TRUE, !.step = "start",
            !.corruption = @ \/ corrupt]
     IN \/ Initialized(all, FALSE) /\ UNCHANGED <<loops, errors>>
        \/ \E ks \in SUBSET all, catastrophic \in BOOLEAN :
             /\ Error(catastrophic)
             /\ Initialized(ks, catastrophic)
             /\ loops' = [loops EXCEPT !.db = @ \o Kill(catastrophic)]
  /\ UNCHANGED <<table, version, monster, sessions>>

\* The cookies of key k are read, or what there is before an error; when the statement
\* cannot be made the database is closed.
LoadCookiesForDomains(k, success, error) ==
  /\ IF error = "none" THEN success /\ UNCHANGED errors ELSE Error(error = "catastrophic")
  /\ \E rows \in SUBSET Rows(k) :
       /\ IF success THEN error = "none" => rows = Rows(k) ELSE rows = {}
       /\ backend' = [backend EXCEPT
            !.keysToLoad = @ \ {k}, !.loaded = @ \cup rows, !.open = success,
            !.perOrigin[k] = @ + Cardinality(rows), !.corruption = @ \/ error = "catastrophic"]

Failures == {"none", "plain", "catastrophic"}

\* Mutant: a key the chain has not come to counts as loaded.
MutantLoadKey ==
  /\ At("loadKey", "start") /\ ~MayInitialize
  /\ Ends(<<>>, Answer)
  /\ backend' = [backend EXCEPT !.keysToLoad = @ \ {Head(loops.db).key}]
  /\ UNCHANGED <<table, version, monster, errors, sessions>>

LoadKey ==
  /\ At("loadKey", "start") /\ ~MayInitialize
  /\ LET k == Head(loops.db).key IN
     IF backend.open /\ k \in backend.keysToLoad
       THEN \E success \in BOOLEAN, error \in Failures :
              /\ LoadCookiesForDomains(k, success, error)
              /\ Ends(Kill(error = "catastrophic"), Answer)
       ELSE Ends(<<>>, Answer) /\ UNCHANGED <<backend, errors>>
  /\ UNCHANGED <<table, version, monster, sessions>>

\* One key at a time, each in a task of its own; after the last the caller is
\* told and, unless they were restored, the session cookies are deleted.
ChainLoadCookies ==
  LET Finish == Ends(<<>>, Answer)
      DeleteSessionCookies ==
        table' = [c \in Cookies |-> IF Persists(c) THEN table[c] ELSE Absent]
  IN
  /\ (At("load", "start") /\ ~MayInitialize) \/ At("chain", "start")
  /\ \/ /\ ~backend.open
        /\ Finish /\ UNCHANGED <<table, backend, errors>>
     \/ /\ backend.open /\ backend.keysToLoad = {}
        /\ Finish /\ DeleteSessionCookies /\ UNCHANGED <<backend, errors>>
     \/ /\ backend.open
        /\ \E k \in backend.keysToLoad, success \in BOOLEAN, error \in Failures :
             LET killing == Kill(error = "catastrophic") IN
             /\ LoadCookiesForDomains(k, success, error)
             /\ IF success /\ backend.keysToLoad # {k}
                  THEN Ends(killing \o <<Plain("chain")>>, <<>>) /\ UNCHANGED table
                  ELSE /\ Ends(killing, Answer)
                       /\ IF success THEN DeleteSessionCookies ELSE UNCHANGED table
  /\ UNCHANGED <<version, monster, sessions>>

\* Mutant: the count of a batch is not reset.
MutantCommit ==
  /\ At("commit", "start") \/ At("close", "start")
  /\ LET writes == backend.open /\ backend.pending # <<>>
         after  == IF At("close", "start") THEN "close" ELSE "start"
     IN /\ backend' = [backend EXCEPT
             !.batch = IF writes THEN backend.pending ELSE <<>>,
             !.pending = <<>>,
             !.step = IF writes THEN "write" ELSE after]
        /\ IF writes \/ after = "close" THEN UNCHANGED loops ELSE Ends(<<>>, <<>>)
  /\ UNCHANGED <<table, version, monster, errors, sessions>>

\* Mutant: the pending operations are copied, not taken.
MutantCommitCopies ==
  /\ At("commit", "start") \/ At("close", "start")
  /\ LET writes == backend.open /\ backend.pending # <<>>
         after  == IF At("close", "start") THEN "close" ELSE "start"
     IN /\ backend' = [backend EXCEPT
             !.batch = IF writes THEN backend.pending ELSE <<>>,
             !.step = IF writes THEN "write" ELSE after]
        /\ IF writes \/ after = "close" THEN UNCHANGED loops ELSE Ends(<<>>, <<>>)
  /\ UNCHANGED <<table, version, monster, errors, sessions>>

\* Commit, first half: the pending operations change hands under the lock; with
\* no database, or nothing to write, they are dropped and that is all.
Commit ==
  /\ At("commit", "start") \/ At("close", "start")
  /\ LET writes == backend.open /\ backend.pending # <<>>
         after  == IF At("close", "start") THEN "close" ELSE "start"
     IN /\ backend' = [backend EXCEPT
             !.batch = IF writes THEN backend.pending ELSE <<>>,
             !.pending = <<>>, !.numPending = 0,
             !.step = IF writes THEN "write" ELSE after]
        /\ IF writes \/ after = "close" THEN UNCHANGED loops ELSE Ends(<<>>, <<>>)
  /\ UNCHANGED <<table, version, monster, errors, sessions>>

\* Mutant: only what was loaded is counted.
MutantCounted(ops) ==
  [k \in Keys |-> backend.perOrigin[k]
     - Cardinality({i \in DOMAIN ops : ops[i].op = "delete" /\ KeyOf(ops[i].cookie) = k})]

\* The counts of the origins after a batch: they are not part of its transaction.
Counted(ops) ==
  [k \in Keys |->
     LET Of(op) == Cardinality({i \in DOMAIN ops : ops[i].op = op
                                                   /\ KeyOf(ops[i].cookie) = k})
     IN backend.perOrigin[k] + Of("add") - Of("delete")]

\* Second half: the batch in one transaction.  With an error it is given up before
\* its first statement; or statements fail, to be only logged, and the others are
\* committed; or the Commit fails, and it is as if all of them had.
WriteBatch ==
  LET closing == At("close", "write")
      Written(counts, corrupt) == backend' = [backend EXCEPT
         !.batch = <<>>, !.perOrigin = counts, !.corruption = @ \/ corrupt,
         !.step = IF closing THEN "close" ELSE "start"]
      Leave(killing) ==
        IF closing THEN loops' = [loops EXCEPT !.db = @ \o killing] ELSE Ends(killing, <<>>)
  IN
  /\ At("commit", "write") \/ closing
  /\ \/ /\ table' = Table!Applied(table, backend.batch)
        /\ Written(Counted(backend.batch), FALSE)
        /\ Leave(<<>>)
        /\ UNCHANGED errors
     \/ \E catastrophic \in BOOLEAN :
          /\ Error(catastrophic)
          /\ Leave(Kill(catastrophic))
          /\ \/ Written(backend.perOrigin, catastrophic) /\ UNCHANGED table
             \/ /\ Written(Counted(backend.batch), catastrophic)
                /\ \E failed \in SUBSET DOMAIN backend.batch :
                     table' = Table!Applied(table, Table!Without(backend.batch, failed))
  /\ UNCHANGED <<version, monster, sessions>>

\* InternalBackgroundClose, after its Commit: the origins that are kept for the
\* session only lose their cookies, as far as they are counted.
CloseDatabase ==
  LET clears == backend.open /\ ~backend.forceKeep /\ ClearKeys # {}
      cleared == {k \in ClearKeys : backend.perOrigin[k] > 0}
  IN
  /\ At("close", "close")
  /\ \/ /\ table' = [c \in Cookies |-> IF clears /\ KeyOf(c) \in cleared
                                         THEN Absent ELSE table[c]]
        /\ UNCHANGED errors
     \/ /\ clears /\ Error(FALSE) /\ UNCHANGED table
  /\ backend' = [backend EXCEPT !.open = FALSE, !.step = "start"]
  /\ Ends(<<>>, <<>>)
  /\ UNCHANGED <<version, monster, sessions>>

KillDatabase ==
  /\ At("kill", "start")
  /\ table' \in {table} \cup (IF backend.open THEN {NoRows} ELSE {})
  /\ backend' = [backend EXCEPT !.open = FALSE]
  /\ Ends(<<>>, <<>>)
  /\ UNCHANGED <<version, monster, errors, sessions>>

RunClosure ==
  /\ At("closure", "start")
  /\ Ends(<<>>, <<>>)
  /\ UNCHANGED <<table, version, backend, monster, errors, sessions>>

\* 30 seconds after the first operation of a batch.
TimerFires ==
  /\ loops.timers > 0
  /\ loops' = [loops EXCEPT !.timers = @ - 1, !.db = Append(@, Plain("commit"))]
  /\ UNCHANGED <<table, version, backend, monster, errors, sessions>>

Operations == {o \in Table!Ops : o.op = "access" \/ o.time = 0}

Caller == Load \/ Flush \/ (\E keep \in BOOLEAN : Close(keep))
          \/ (\E k \in Keys : LoadCookiesForKey(k))
          \/ (\E o \in Operations : BatchOperation(o))

DBThread == OpenDatabase \/ InitializeFails \/ DatabaseTooNew \/ EnsureDatabaseVersion
            \/ ReadKeys \/ LoadKey \/ ChainLoadCookies \/ Commit \/ WriteBatch
            \/ CloseDatabase \/ KillDatabase \/ RunClosure

Next == Caller \/ DBThread \/ CompleteLoadOnIOThread \/ TimerFires \/ Restart

Spec == Init /\ [][Next]_vars

\* The threads run while the process does, and a delayed task comes due.
FairSpec == Spec /\ WF_vars(DBThread) /\ WF_vars(CompleteLoadOnIOThread)
                 /\ WF_vars(TimerFires)

(***************************************************************************)
(* Properties.                                                             *)
(***************************************************************************)
TypeOK ==
  /\ table \in [Cookies -> Times \cup {Absent}]
  /\ version \in Nat
  /\ backend.pending \in Seq(Table!Ops) /\ backend.batch \in Seq(Table!Ops)
  /\ backend.numPending = Len(backend.pending)
  /\ backend.keysToLoad \subseteq Keys
  /\ backend.loaded \subseteq Cookies \X Times
  /\ backend.perOrigin \in [Keys -> Int]
  /\ backend.step \in {"start", "upgrade", "write", "close"}
  /\ monster.view \in [Cookies -> Times \cup {Absent}]
  /\ errors \in 0..MaxErrors /\ sessions \in 1..MaxSessions

\* The store is a CookieTable: whatever the threads, the timers and a crash do,
\* operations reach the file in order and a batch at once, none is lost while
\* SQLite works (after an error a batch may be lost, or some of its operations),
\* and none is left when the backend is closed (the DCHECKs of ~Backend).
ImplementsTable == Table!Spec

\* No cookie is handed to the monster twice, though priority loads, the chain of
\* loads and new cookies overlap: what has been read is not handed over yet, and
\* what is still to be read is in neither place.  Only when opening the file has
\* failed once may a later load read again what the monster was told or has added:
\* the key was answered although it was not loaded.
HandedOnce ==
  LET read  == {p[1] : p \in backend.loaded}
      known == {c \in monster.handed : ~backend.openFailed \/ KeyOf(c) \notin monster.ready}
  IN
  /\ read \cap known = {}
  /\ backend.open => \A k \in backend.keysToLoad :
       {p[1] : p \in Rows(k)} \cap (read \cup known) = {}

\* The same without the exception.
NeverHandedTwice == {p[1] : p \in backend.loaded} \cap monster.handed = {}

\* As long as SQLite works, the file and what is on its way to it are what the
\* monster sees: no cookie of a loaded key is missed by a load, forgotten in a
\* batch or left behind by a deletion.
FileMatchesView ==
  (errors = 0 /\ ~Closed) =>
    \A c \in Cookies : (KeyOf(c) \in monster.ready /\ Persists(c) /\ version <= CurrentVersion) =>
      Table!Applied(table, backend.batch \o backend.pending)[c] = monster.view[c]

\* When the closure given to Flush runs, no operation submitted before the call
\* is still pending: the Commit in front of it took them all.
FlushCommits ==
  At("closure", "start") =>
    Head(loops.db).number <= monster.issued - Len(backend.batch \o backend.pending)

\* When the backend is closed after it has read all keys, and was not told to keep
\* them, no cookie is left of an origin that is to be cleared on exit: the counts of
\* the origins have not lost a cookie on the way.
ClearedOnExit ==
  (Closed /\ Healthy /\ ~backend.forceKeep /\ backend.initialized /\ backend.keysToLoad = {}) =>
    \A c \in Cookies : (KeyOf(c) \in ClearKeys /\ Persists(c)) => table[c] = Absent

\* cookies_per_origin_ is the "number of cookies in the database" of an origin when
\* the origins to be cleared are looked up in it.
OriginsCounted ==
  (At("close", "close") /\ backend.open /\ Healthy) =>
    \A k \in Keys : backend.perOrigin[k] =
      Cardinality({c \in Cookies : KeyOf(c) = k /\ table[c] # Absent})

\* Pending operations are written, or dropped because the database is gone, in the end.
OperationsSettle ==
  (backend.batch \o backend.pending # <<>>) ~> (backend.batch \o backend.pending = <<>>)

\* Every call of Load and LoadCookiesForKey is answered, whatever fails, also
\* when the store is closed meanwhile.
LoadsAreAnswered ==
  /\ monster.called ~> (monster.answered \/ ~monster.called)
  /\ \A k \in Keys : (k \in monster.asked) ~> (k \in monster.ready \/ k \notin monster.asked)
=============================================================================
