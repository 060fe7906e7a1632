------------------------- MODULE CookieStoreProofs -------------------------
(***************************************************************************)
(* The cookie store for every set of cookies, keys and bounds.             *)
(*                                                                         *)
(* First, that it implements CookieTable: the abstract queue is batch \o   *)
(* pending, so a step of the backend either leaves the queue and the table *)
(* alone, or adds to its end, or writes its first part, or drops it when   *)
(* that is excused.  IInv says what the excuse is: where operations may be *)
(* left, that the backend is closed only once, and why a database is not   *)
(* open.                                                                   *)
(*                                                                         *)
(* Then its invariants, each by what IInv is strengthened with: the types  *)
(* of the data (DataTyped), how many operations a closure waits for        *)
(* (Closures), that a cookie is read once (Reading; Opened, unless opening *)
(* the file has failed), that the file and the operations on their way to  *)
(* it are what the monster sees (Seen), and that the counts of the origins *)
(* are those of a table (Counting).                                        *)
(***************************************************************************)
EXTENDS CookieStore, FiniteSetTheorems, SequenceTheorems, WellFoundedInduction, TLAPS

TaskNames == {"load", "loadKey", "chain", "commit", "close", "closure", "kill"}
Tasks == [task : TaskNames, key : Keys \cup {"none"}, number : Nat]

BackendFields == {"open", "initialized", "corruption", "step", "pending", "numPending",
                  "batch", "keysToLoad", "loaded", "perOrigin", "forceKeep", "openFailed"}
MonsterFields == {"called", "answered", "asked", "ready", "handed", "view", "issued",
                  "flushes", "gone"}
LoopFields == {"db", "io", "timers"}

Has(q, t) == \E i \in DOMAIN q : q[i].task = t
One(q) == \A i, j \in DOMAIN q : q[i].task = "close" /\ q[j].task = "close" => i = j

\* The three records have their fields and no others.
Records ==
  /\ backend = [f \in BackendFields |-> backend[f]]
  /\ loops = [f \in LoopFields |-> loops[f]]
  /\ monster = [f \in MonsterFields |-> monster[f]]

Typed ==
  /\ Records
  /\ backend.pending \in Seq(Table!Ops) /\ backend.batch \in Seq(Table!Ops)
  /\ backend.step \in {"start", "upgrade", "write", "close"}
  /\ loops.db \in Seq(Tasks) /\ loops.io \in Seq(Tasks)
  /\ monster.issued \in Nat
  /\ errors \in Nat /\ version \in Nat

\* Close is posted once, by a store that is gone from then on.
ClosedOnce ==
  /\ One(loops.db)
  /\ Has(loops.db, "close") => monster.gone

\* The closing task is past its Commit.
Closing == loops.db # <<>> /\ Head(loops.db).task = "close"
           /\ backend.step \in {"write", "close"}

\* A batch exists only between the halves of a Commit, and nothing is pending once
\* the closing task has committed.
Batches ==
  /\ backend.batch # <<>> <=> backend.step = "write"
  /\ backend.step = "write" => loops.db # <<>> /\ Head(loops.db).task \in {"commit", "close"}
  /\ backend.step = "close" => Closing
  /\ Closing => backend.pending = <<>>
  /\ Closed => backend.pending = <<>> /\ backend.batch = <<>>

\* A database that is not open has not been opened yet, or an error, a file that is
\* too new or the end of the store is the reason; before it is opened no key has been
\* answered, so nothing is pending.
Failing ==
  /\ Has(loops.db, "kill") => ~Healthy
  /\ backend.corruption => ~Healthy
  /\ Has(loops.db, "chain") => backend.initialized
  /\ backend.open => backend.initialized \/ backend.step = "upgrade"
  /\ backend.step = "upgrade" => backend.open
  /\ backend.initialized /\ ~backend.open => ~Healthy \/ Closed
  /\ monster.ready # {} \/ loops.io # <<>> => backend.open \/ ~Healthy \/ Closed
  /\ backend.pending # <<>> => monster.ready # {}

IInv == Typed /\ ClosedOnce /\ Batches /\ Failing

LEMMA Ending ==
  ASSUME NEW db \in Seq(Tasks), db # <<>>, One(db), NEW more \in Seq(Tasks),
         \A i \in DOMAIN more : more[i].task # "close",
         NEW d, d = Tail(db) \o more
  PROVE  /\ d \in Seq(Tasks) /\ One(d)
         /\ Head(db).task # "close" => (Has(d, "close") <=> Has(db, "close"))
         /\ Head(db).task = "close" => ~Has(d, "close") /\ Has(db, "close")
         /\ \A t : Has(d, t) => Has(db, t) \/ Has(more, t)
<1>1. /\ Tail(db) \in Seq(Tasks) /\ Len(Tail(db)) = Len(db) - 1 /\ Len(db) \in Nat /\ Len(db) > 0
      /\ DOMAIN db = 1 .. Len(db) /\ DOMAIN more = 1 .. Len(more) /\ Len(more) \in Nat
      /\ Head(db) = db[1]
      /\ \A i \in 1 .. Len(db) - 1 : Tail(db)[i] = db[i + 1]
  OBVIOUS
<1>2. /\ d \in Seq(Tasks) /\ DOMAIN d = 1 .. Len(db) - 1 + Len(more)
      /\ \A i \in DOMAIN d : d[i] = IF i <= Len(db) - 1 THEN Tail(db)[i]
                                                       ELSE more[i - (Len(db) - 1)]
  BY <1>1, ConcatProperties
<1>3. \A i \in DOMAIN d : \/ i + 1 \in DOMAIN db /\ i + 1 # 1 /\ d[i] = db[i + 1]
                          \/ i - (Len(db) - 1) \in DOMAIN more /\ d[i] = more[i - (Len(db) - 1)]
  BY <1>1, <1>2
<1>4. \A i \in DOMAIN db : i = 1 \/ (i - 1 \in DOMAIN d /\ d[i - 1] = db[i])
  <2>1. SUFFICES ASSUME NEW i \in DOMAIN db, i # 1
                 PROVE  i - 1 \in DOMAIN d /\ d[i - 1] = db[i]
    OBVIOUS
  <2>2. i - 1 \in 1 .. Len(db) - 1 /\ (i - 1) + 1 = i
    BY <1>1, <2>1
  <2>3. i - 1 \in DOMAIN d /\ i - 1 <= Len(db) - 1
    BY <1>1, <1>2, <2>2
  <2> QED
    BY <1>1, <1>2, <2>2, <2>3
<1>5. One(d)
  <2>1. SUFFICES ASSUME NEW i \in DOMAIN d, NEW j \in DOMAIN d, d[i].task = "close", d[j].task = "close"
                 PROVE  i = j
    BY DEF One
  <2>2. i + 1 \in DOMAIN db /\ j + 1 \in DOMAIN db /\ d[i] = db[i + 1] /\ d[j] = db[j + 1]
    BY <1>3, <2>1
  <2>3. i + 1 = j + 1
    BY <2>1, <2>2 DEF One
  <2> QED
    BY <1>2, <2>1, <2>3
<1>6. Has(d, "close") => \E i \in DOMAIN db : i # 1 /\ db[i].task = "close"
  BY <1>3 DEF Has
<1>7. ASSUME Head(db).task # "close"
      PROVE  Has(d, "close") <=> Has(db, "close")
  BY <1>1, <1>4, <1>6, <1>7 DEF Has
<1>8. ASSUME Head(db).task = "close"
      PROVE  ~Has(d, "close") /\ Has(db, "close")
  <2>1. 1 \in DOMAIN db /\ db[1].task = "close"
    BY <1>1, <1>8
  <2> QED
    BY <2>1, <1>6 DEF Has, One
<1>9. \A t : Has(d, t) => Has(db, t) \/ Has(more, t)
  BY <1>3 DEF Has
<1> QED
  BY <1>2, <1>5, <1>7, <1>8, <1>9

LEMMA Adding ==
  ASSUME NEW db \in Seq(Tasks), One(db), NEW more \in Seq(Tasks),
         \A i \in DOMAIN more : more[i].task # "close",
         NEW d, d = db \o more
  PROVE  /\ d \in Seq(Tasks) /\ One(d)
         /\ Has(d, "close") <=> Has(db, "close")
         /\ \A t : Has(d, t) => Has(db, t) \/ Has(more, t)
         /\ db # <<>> => d # <<>> /\ Head(d) = Head(db)
<1>1. /\ Len(db) \in Nat /\ DOMAIN db = 1 .. Len(db)
      /\ DOMAIN more = 1 .. Len(more) /\ Len(more) \in Nat
  OBVIOUS
<1>2. /\ d \in Seq(Tasks) /\ Len(d) = Len(db) + Len(more) /\ DOMAIN d = 1 .. Len(db) + Len(more)
      /\ \A i \in DOMAIN d : d[i] = IF i <= Len(db) THEN db[i] ELSE more[i - Len(db)]
  BY <1>1, ConcatProperties
<1>3. \A i \in DOMAIN d : \/ i \in DOMAIN db /\ d[i] = db[i]
                          \/ i - Len(db) \in DOMAIN more /\ d[i] = more[i - Len(db)]
  BY <1>1, <1>2
<1>4. \A i \in DOMAIN db : i \in DOMAIN d /\ d[i] = db[i]
  BY <1>1, <1>2
<1>5. One(d)
  BY <1>3 DEF One
<1>6. Has(d, "close") <=> Has(db, "close")
  BY <1>3, <1>4 DEF Has
<1>7. \A t : Has(d, t) => Has(db, t) \/ Has(more, t)
  BY <1>3 DEF Has
<1>8. db # <<>> => d # <<>> /\ Head(d) = Head(db)
  <2>1. SUFFICES ASSUME db # <<>> PROVE d # <<>> /\ Head(d) = Head(db)
    OBVIOUS
  <2>2. 1 \in DOMAIN db /\ Head(db) = db[1]
    BY <2>1
  <2>3. d # <<>> /\ d[1] = db[1]
    BY <1>1, <1>2, <1>4, <2>2
  <2> QED
    BY <1>2, <2>2, <2>3
<1> QED
  BY <1>2, <1>5, <1>6, <1>7, <1>8


LEMMA EndsWith ==
  ASSUME IInv, loops.db # <<>>, NEW more \in Seq(Tasks), NEW io \in Seq(Tasks),
         \A i \in DOMAIN more : more[i].task # "close",
         Ends(more, io)
  PROVE  /\ loops' = [f \in LoopFields |-> loops'[f]]
         /\ loops.db' \in Seq(Tasks) /\ loops.io' \in Seq(Tasks) /\ One(loops.db')
         /\ loops.io' # <<>> => loops.io # <<>> \/ io # <<>>
         /\ Head(loops.db).task # "close" => (Has(loops.db', "close") <=> Has(loops.db, "close"))
         /\ Head(loops.db).task = "close" => ~Has(loops.db', "close") /\ Has(loops.db, "close")
         /\ \A t : Has(loops.db', t) => Has(loops.db, t) \/ Has(more, t)
<1>1. /\ loops.db \in Seq(Tasks) /\ loops.io \in Seq(Tasks) /\ One(loops.db)
      /\ loops = [f \in LoopFields |-> loops[f]]
  BY DEF IInv, Typed, Records, ClosedOnce
<1>2. /\ loops' = [f \in LoopFields |-> loops'[f]]
      /\ loops.db' = Tail(loops.db) \o more /\ loops.io' = loops.io \o io
  BY <1>1 DEF Ends, LoopFields
<1>3. loops.io' \in Seq(Tasks) /\ (loops.io' # <<>> => loops.io # <<>> \/ io # <<>>)
  BY <1>1, <1>2
<1> QED
  BY <1>1, <1>2, <1>3, Ending

LEMMA Posts ==
  ASSUME IInv, NEW more \in Seq(Tasks), \A i \in DOMAIN more : more[i].task # "close",
         loops' = [loops EXCEPT !.db = @ \o more]
  PROVE  /\ loops' = [f \in LoopFields |-> loops'[f]]
         /\ loops.db' \in Seq(Tasks) /\ loops.io' = loops.io /\ One(loops.db')
         /\ Has(loops.db', "close") <=> Has(loops.db, "close")
         /\ \A t : Has(loops.db', t) => Has(loops.db, t) \/ Has(more, t)
         /\ loops.db # <<>> => loops.db' # <<>> /\ Head(loops.db') = Head(loops.db)
<1>1. /\ loops.db \in Seq(Tasks) /\ One(loops.db)
      /\ loops = [f \in LoopFields |-> loops[f]]
  BY DEF IInv, Typed, Records, ClosedOnce
<1>2. /\ loops' = [f \in LoopFields |-> loops'[f]]
      /\ loops.db' = loops.db \o more /\ loops.io' = loops.io
  BY <1>1 DEF LoopFields
<1> QED
  BY <1>1, <1>2, Adding

\* What a task may leave to the DB thread.
LEMMA Left ==
  ASSUME NEW catastrophic \in BOOLEAN
  PROVE  /\ Kill(catastrophic) \in Seq(Tasks)
         /\ Kill(catastrophic) \o <<Plain("chain")>> \in Seq(Tasks)
         /\ \A i \in DOMAIN Kill(catastrophic) : Kill(catastrophic)[i].task = "kill"
         /\ \A i \in DOMAIN (Kill(catastrophic) \o <<Plain("chain")>>) :
              (Kill(catastrophic) \o <<Plain("chain")>>)[i].task # "close"
         /\ Has(Kill(catastrophic), "kill") => catastrophic
         /\ ~Has(Kill(catastrophic), "chain")
         /\ Has(Kill(catastrophic) \o <<Plain("chain")>>, "kill") => catastrophic
<1>1. Plain("kill") \in Tasks /\ Plain("chain") \in Tasks
      /\ Plain("kill").task = "kill" /\ Plain("chain").task = "chain"
  BY DEF Plain, Task, Tasks, TaskNames
<1>2. CASE catastrophic
  BY <1>1, <1>2 DEF Kill, Has
<1>3. CASE ~catastrophic
  <2>1. Kill(catastrophic) = <<>> /\ Kill(catastrophic) \o <<Plain("chain")>> = <<Plain("chain")>>
    BY <1>1, <1>3 DEF Kill
  <2> QED
    BY <1>1, <1>3, <2>1 DEF Has
<1> QED
  BY <1>2, <1>3

LEMMA AnswerTyped ==
  ASSUME IInv, loops.db # <<>>
  PROVE  Answer \in Seq(Tasks)
<1>1. Head(loops.db) \in Tasks
  BY DEF IInv, Typed
<1>2. Plain("load") \in Tasks
  BY DEF Plain, Task, Tasks, TaskNames
<1> QED
  BY <1>1, <1>2 DEF Answer

BackendTyped ==
  /\ backend = [f \in BackendFields |-> backend[f]]
  /\ backend.pending \in Seq(Table!Ops) /\ backend.batch \in Seq(Table!Ops)
  /\ backend.step \in {"start", "upgrade", "write", "close"}

LEMMA TaskEnds ==
  ASSUME IInv, loops.db # <<>>, Head(loops.db).task # "close", UNCHANGED monster,
         BackendTyped', errors' \in Nat, version' \in Nat,
         NEW more \in Seq(Tasks), NEW io \in Seq(Tasks),
         \A i \in DOMAIN more : more[i].task # "close",
         Ends(more, io),
         Healthy' => Healthy,
         Has(more, "kill") => ~Healthy', Has(more, "chain") => backend.initialized',
         backend.initialized => backend.initialized', backend.open' => backend.initialized',
         backend.step' = "start", backend.batch' = <<>>,
         backend.pending' \in {backend.pending, <<>>},
         backend.corruption' => ~Healthy',
         backend.initialized' /\ ~backend.open' => ~Healthy' \/ Closed,
         io # <<>> \/ backend.open => backend.open' \/ ~Healthy' \/ Closed
  PROVE  IInv' /\ (Closed' <=> Closed)
<1>1. /\ loops' = [f \in LoopFields |-> loops'[f]]
      /\ loops.db' \in Seq(Tasks) /\ loops.io' \in Seq(Tasks) /\ One(loops.db')
      /\ loops.io' # <<>> => loops.io # <<>> \/ io # <<>>
      /\ Has(loops.db', "close") <=> Has(loops.db, "close")
      /\ \A t : Has(loops.db', t) => Has(loops.db, t) \/ Has(more, t)
  BY EndsWith
<1>2. Typed'
  BY <1>1 DEF IInv, Typed, Records, BackendTyped
<1>3. ClosedOnce'
  BY <1>1 DEF IInv, ClosedOnce
<1>4. Closed' <=> Closed
  BY <1>1 DEF Closed, Has
<1>5. Batches'
  BY <1>4 DEF IInv, Batches, Closing
<1>6. Failing'
  BY <1>1, <1>4 DEF IInv, Failing
<1> QED
  BY <1>2, <1>3, <1>4, <1>5, <1>6 DEF IInv

LEMMA TaskGoesOn ==
  ASSUME IInv, loops.db # <<>>, UNCHANGED monster,
         BackendTyped', errors' \in Nat, version' \in Nat,
         NEW more \in Seq(Tasks), \A i \in DOMAIN more : more[i].task # "close",
         loops' = [loops EXCEPT !.db = @ \o more],
         Healthy' => Healthy,
         Has(more, "kill") => ~Healthy', Has(more, "chain") => backend.initialized',
         backend.initialized => backend.initialized',
         backend.open' => backend.initialized' \/ backend.step' = "upgrade",
         backend.batch' # <<>> <=> backend.step' = "write",
         backend.step' = "write" => Head(loops.db).task \in {"commit", "close"} /\ backend.pending' = <<>>,
         backend.step' = "close" => Head(loops.db).task = "close" /\ backend.pending' = <<>>,
         backend.pending' \in {backend.pending, <<>>},
         Closed => backend.step' # "write",
         backend.step' = "upgrade" => backend.open',
         backend.corruption' => ~Healthy',
         backend.initialized' /\ ~backend.open' => ~Healthy' \/ Closed,
         backend.open => backend.open' \/ ~Healthy' \/ Closed
  PROVE  IInv' /\ (Closed' <=> Closed)
<1>1. /\ loops' = [f \in LoopFields |-> loops'[f]]
      /\ loops.db' \in Seq(Tasks) /\ loops.io' = loops.io /\ One(loops.db')
      /\ Has(loops.db', "close") <=> Has(loops.db, "close")
      /\ \A t : Has(loops.db', t) => Has(loops.db, t) \/ Has(more, t)
      /\ loops.db # <<>> => loops.db' # <<>> /\ Head(loops.db') = Head(loops.db)
  BY Posts
<1>2. Typed'
  BY <1>1 DEF IInv, Typed, Records, BackendTyped
<1>3. ClosedOnce'
  BY <1>1 DEF IInv, ClosedOnce
<1>4. Closed' <=> Closed
  BY <1>1 DEF Closed, Has
<1>5. Batches'
  BY <1>1, <1>4 DEF IInv, Batches, Closing
<1>6. Failing'
  BY <1>1, <1>4 DEF IInv, Failing
<1> QED
  BY <1>2, <1>3, <1>4, <1>5, <1>6 DEF IInv

\* Other threads post to the DB thread.
LEMMA OthersPost ==
  ASSUME IInv, NEW more \in Seq(Tasks),
         \A i \in DOMAIN more : more[i].task \notin {"close", "kill", "chain"},
         loops.db' = loops.db \o more,
         loops' = [f \in LoopFields |-> loops'[f]],
         loops.io' \in Seq(Tasks),
         monster' = [f \in MonsterFields |-> monster'[f]], monster.issued' \in Nat,
         UNCHANGED <<monster.gone, errors, version>>,
         BackendTyped',
         backend.step' = backend.step, backend.batch' = backend.batch,
         backend.open' = backend.open, backend.initialized' = backend.initialized,
         backend.corruption' = backend.corruption,
         backend.pending' = backend.pending \/ (~monster.gone /\ monster.ready' # {}),
         monster.ready' # {} \/ loops.io' # <<>> => monster.ready # {} \/ loops.io # <<>>,
         monster.ready # {} /\ backend.pending # <<>> => monster.ready' # {}
  PROVE  IInv' /\ (Closed' <=> Closed)
<1>1. /\ loops.db' \in Seq(Tasks) /\ One(loops.db')
      /\ Has(loops.db', "close") <=> Has(loops.db, "close")
      /\ \A t : Has(loops.db', t) => Has(loops.db, t) \/ Has(more, t)
      /\ loops.db # <<>> => loops.db' # <<>> /\ Head(loops.db') = Head(loops.db)
  <2>1. loops.db \in Seq(Tasks) /\ One(loops.db) /\ loops.db' = loops.db \o more
    BY DEF IInv, Typed, ClosedOnce
  <2>2. more \in Seq(Tasks) /\ \A i \in DOMAIN more : more[i].task # "close"
    OBVIOUS
  <2> QED
    BY ONLY <2>1, <2>2, Adding
<1>2. Typed'
  BY <1>1 DEF IInv, Typed, Records, BackendTyped
<1>3. ClosedOnce'
  BY <1>1 DEF IInv, ClosedOnce
<1>4. /\ Closed' <=> Closed
      /\ Healthy' <=> Healthy
      /\ ~Has(more, "kill") /\ ~Has(more, "chain")
  BY <1>1 DEF Closed, Has, Healthy
<1>5. Batches'
  <2>1. /\ backend.batch' # <<>> <=> backend.step' = "write"
        /\ backend.step' = "write" => loops.db' # <<>> /\ Head(loops.db').task \in {"commit", "close"}
        /\ backend.step' = "close" => Closing'
    BY <1>1 DEF IInv, Batches, Closing
  <2>2. Closing' => Closing
    BY <1>1 DEF IInv, Batches, Closing
  <2>3. Closing => monster.gone
    <3>1. SUFFICES ASSUME Closing PROVE 1 \in DOMAIN loops.db /\ loops.db[1].task = "close"
      BY DEF IInv, ClosedOnce, Has
    <3> QED
      BY <3>1 DEF IInv, Typed, Closing
  <2>4. Closing \/ Closed => backend.pending' = backend.pending
    BY <2>3 DEF Closed
  <2> QED
    BY <1>4, <2>1, <2>2, <2>4 DEF IInv, Batches
<1>6. Failing'
  BY <1>1, <1>4 DEF IInv, Failing
<1> QED
  BY <1>2, <1>3, <1>4, <1>5, <1>6 DEF IInv

LEMMA Nothing ==
  /\ <<>> \in Seq(Tasks)
  /\ \A i \in DOMAIN <<>> : <<>>[i].task # "close" /\ <<>>[i].task # "kill"
  /\ \A t : ~Has(<<>>, t)
  /\ IInv /\ UNCHANGED loops => loops' = [loops EXCEPT !.db = @ \o <<>>]
<1>1. ASSUME IInv, UNCHANGED loops
      PROVE  loops' = [loops EXCEPT !.db = @ \o <<>>]
  BY <1>1 DEF IInv, Typed, Records, LoopFields
<1> QED
  BY <1>1 DEF Has

LEMMA AtTask ==
  ASSUME NEW t, NEW step, At(t, step)
  PROVE  loops.db # <<>> /\ Head(loops.db).task = t /\ backend.step = step
BY DEF At

LEMMA LoadingTask ==
  ASSUME NEW step, Loading(step)
  PROVE  /\ loops.db # <<>> /\ Head(loops.db).task \in {"load", "loadKey"}
         /\ backend.step = step
BY DEF At, Loading

LEMMA KeepsOpenDatabase == IInv /\ OpenDatabase => IInv' /\ (Closed' <=> Closed)
<1> SUFFICES ASSUME IInv, OpenDatabase PROVE IInv' /\ (Closed' <=> Closed)
  OBVIOUS
<1>1. /\ loops.db # <<>> /\ Head(loops.db).task \in {"load", "loadKey"}
      /\ backend.step = "start"
      /\ ~backend.initialized /\ ~backend.corruption
      /\ UNCHANGED <<table, version, loops, monster, errors, sessions>>
  BY LoadingTask DEF OpenDatabase, MayInitialize
<1>2. /\ BackendTyped' /\ backend.open' /\ backend.step' = "upgrade"
      /\ backend.initialized' = backend.initialized /\ backend.corruption' = backend.corruption
      /\ backend.batch' = backend.batch /\ backend.pending' = backend.pending
  BY DEF OpenDatabase, IInv, Typed, Records, BackendTyped, BackendFields
<1>3. /\ errors' \in Nat /\ version' \in Nat /\ (Healthy' <=> Healthy)
      /\ backend.batch = <<>> /\ ~backend.corruption
      /\ loops' = [loops EXCEPT !.db = @ \o <<>>]
  BY <1>1, Nothing DEF IInv, Typed, Batches, Healthy
<1> QED
  BY <1>1, <1>2, <1>3, TaskGoesOn, Nothing

LEMMA KeepsInitializeFails == IInv /\ InitializeFails => IInv' /\ (Closed' <=> Closed)
<1> SUFFICES ASSUME IInv, InitializeFails PROVE IInv' /\ (Closed' <=> Closed)
  OBVIOUS
<1>1. /\ loops.db # <<>> /\ Head(loops.db).task \in {"load", "loadKey"}
      /\ backend.step \in {"start", "upgrade"}
      /\ UNCHANGED <<version, monster, sessions>>
  BY LoadingTask DEF InitializeFails
<1>2. PICK catastrophic \in BOOLEAN :
        /\ Error(catastrophic)
        /\ backend' = [backend EXCEPT !.open = FALSE, !.step = "start", !.openFailed = TRUE,
                                      !.corruption = @ \/ catastrophic]
        /\ Ends(Kill(catastrophic), Answer)
  BY DEF InitializeFails
<1>3. /\ BackendTyped' /\ backend.step' = "start"
      /\ backend.batch' = backend.batch /\ backend.pending' = backend.pending
  BY <1>2 DEF IInv, Typed, Records, BackendTyped, BackendFields
<1>4. errors' \in Nat /\ version' \in Nat /\ ~Healthy'
  BY <1>1, <1>2 DEF Error, Healthy, IInv, Typed
<1>5. backend.batch = <<>>
  BY <1>1 DEF IInv, Batches
<1> QED
  BY <1>1, <1>2, <1>3, <1>4, <1>5, TaskEnds, Left, AnswerTyped

LEMMA KeepsDatabaseTooNew == IInv /\ DatabaseTooNew => IInv' /\ (Closed' <=> Closed)
<1> SUFFICES ASSUME IInv, DatabaseTooNew PROVE IInv' /\ (Closed' <=> Closed)
  OBVIOUS
<1>1. /\ loops.db # <<>> /\ Head(loops.db).task \in {"load", "loadKey"}
      /\ backend.step = "upgrade" /\ Ends(<<>>, Answer)
      /\ UNCHANGED <<table, version, monster, errors, sessions>>
  BY LoadingTask DEF DatabaseTooNew
<1>2. /\ BackendTyped' /\ backend.step' = "start"
      /\ backend.batch' = backend.batch /\ backend.pending' = backend.pending
      /\ ~backend.open' /\ backend.initialized' = backend.initialized
  BY DEF DatabaseTooNew, IInv, Typed, Records, BackendTyped, BackendFields
<1>3. errors' \in Nat /\ version' \in Nat /\ ~Healthy'
  BY <1>1 DEF DatabaseTooNew, Healthy, IInv, Typed, CurrentVersion
<1>4. backend.batch = <<>>
  BY <1>1 DEF IInv, Batches
<1> QED
  BY <1>1, <1>2, <1>3, <1>4, TaskEnds, AnswerTyped, Nothing

LEMMA KeepsEnsureDatabaseVersion == IInv /\ EnsureDatabaseVersion => IInv' /\ (Closed' <=> Closed)
<1> SUFFICES ASSUME IInv, EnsureDatabaseVersion PROVE IInv' /\ (Closed' <=> Closed)
  OBVIOUS
<1>1. version \in Nat /\ version' \in Nat /\ (Healthy' <=> Healthy)
      /\ UNCHANGED <<backend, loops, monster, errors, sessions>>
  BY DEF EnsureDatabaseVersion, Healthy, CurrentVersion, IInv, Typed
<1>2. Closed' <=> Closed
  BY <1>1 DEF Closed
<1> QED
  BY <1>1, <1>2 DEF IInv, Typed, Records, ClosedOnce, Batches, Failing, Closing

LEMMA KeepsReadKeys == IInv /\ ReadKeys => IInv' /\ (Closed' <=> Closed)
<1> SUFFICES ASSUME IInv, ReadKeys PROVE IInv' /\ (Closed' <=> Closed)
  OBVIOUS
<1>1. /\ loops.db # <<>> /\ Head(loops.db).task \in {"load", "loadKey"}
      /\ backend.step = "upgrade" /\ backend.open /\ backend.batch = <<>>
      /\ UNCHANGED <<table, version, monster, sessions>>
  BY LoadingTask DEF ReadKeys, IInv, Batches, Failing
<1>2. PICK ks \in SUBSET {KeyOf(c) : c \in Cookies}, corrupt \in BOOLEAN :
        /\ backend' = [backend EXCEPT !.keysToLoad = ks, !.initialized = TRUE, !.step = "start",
                                      !.corruption = @ \/ corrupt]
        /\ \/ ~corrupt /\ UNCHANGED <<loops, errors>>
           \/ Error(corrupt) /\ loops' = [loops EXCEPT !.db = @ \o Kill(corrupt)]
  <2> DEFINE all == {KeyOf(c) : c \in {d \in Cookies : table[d] # Absent}}
             Initialized(ks, corrupt) == backend' = [backend EXCEPT
               !.keysToLoad = ks, !.initialized = TRUE, !.step = "start",
               !.corruption = @ \/ corrupt]
  <2>1. \/ Initialized(all, FALSE) /\ UNCHANGED <<loops, errors>>
        \/ \E ks \in SUBSET all, catastrophic \in BOOLEAN :
             /\ Error(catastrophic)
             /\ Initialized(ks, catastrophic)
             /\ loops' = [loops EXCEPT !.db = @ \o Kill(catastrophic)]
    BY Zenon DEF ReadKeys
  <2>0. all \in SUBSET {KeyOf(c) : c \in Cookies}
    OBVIOUS
  <2> HIDE DEF all
  <2>2. CASE Initialized(all, FALSE) /\ UNCHANGED <<loops, errors>>
    BY <2>0, <2>2
  <2>3. CASE \E ks \in SUBSET all, catastrophic \in BOOLEAN :
               /\ Error(catastrophic)
               /\ Initialized(ks, catastrophic)
               /\ loops' = [loops EXCEPT !.db = @ \o Kill(catastrophic)]
    <3>1. PICK ks \in SUBSET all, catastrophic \in BOOLEAN :
               /\ Error(catastrophic)
               /\ Initialized(ks, catastrophic)
               /\ loops' = [loops EXCEPT !.db = @ \o Kill(catastrophic)]
      BY <2>3
    <3> QED
      BY <2>0, <3>1
  <2> QED
    BY <2>1, <2>2, <2>3
<1>3. /\ BackendTyped' /\ backend.step' = "start" /\ (backend.open' <=> backend.open)
      /\ backend.initialized'
      /\ backend.batch' = backend.batch /\ backend.pending' = backend.pending
      /\ backend.corruption' <=> backend.corruption \/ corrupt
  BY <1>2 DEF IInv, Typed, Records, BackendTyped, BackendFields
<1>4. CASE ~corrupt /\ UNCHANGED <<loops, errors>>
  <2>1. /\ errors' \in Nat /\ version' \in Nat /\ (Healthy' <=> Healthy)
        /\ backend.corruption => ~Healthy
        /\ loops' = [loops EXCEPT !.db = @ \o <<>>]
    BY <1>1, <1>4, Nothing DEF IInv, Typed, Failing, Healthy
  <2> QED
    BY <1>1, <1>3, <1>4, <2>1, TaskGoesOn, Nothing
<1>5. CASE Error(corrupt) /\ loops' = [loops EXCEPT !.db = @ \o Kill(corrupt)]
  <2>1. errors' \in Nat /\ version' \in Nat /\ ~Healthy'
    BY <1>1, <1>5 DEF Error, Healthy, IInv, Typed
  <2> QED
    BY <1>1, <1>2, <1>3, <1>5, <2>1, TaskGoesOn, Left
<1> QED
  BY <1>2, <1>4, <1>5

\* What LoadCookiesForDomains leaves: the database is closed only by an error.
LEMMA Loaded ==
  ASSUME IInv, NEW k, NEW success \in BOOLEAN, NEW error \in Failures,
         UNCHANGED version, LoadCookiesForDomains(k, success, error)
  PROVE  /\ BackendTyped' /\ backend.step' = backend.step
         /\ backend.batch' = backend.batch /\ backend.pending' = backend.pending
         /\ backend.initialized' = backend.initialized
         /\ backend.open' <=> success
         /\ errors' \in Nat /\ version' \in Nat
         /\ Healthy' => Healthy
         /\ backend.corruption' => ~Healthy'
         /\ success \/ ~Healthy'
         /\ error = "catastrophic" => ~Healthy'
<1>1. PICK rows : backend' = [backend EXCEPT
            !.keysToLoad = @ \ {k}, !.loaded = @ \cup rows, !.open = success,
            !.perOrigin[k] = @ + Cardinality(rows), !.corruption = @ \/ error = "catastrophic"]
  BY DEF LoadCookiesForDomains
<1>2. /\ BackendTyped' /\ backend.step' = backend.step
      /\ backend.batch' = backend.batch /\ backend.pending' = backend.pending
      /\ backend.initialized' = backend.initialized
      /\ backend.open' <=> success
      /\ backend.corruption' <=> backend.corruption \/ error = "catastrophic"
  BY <1>1 DEF IInv, Typed, Records, BackendTyped, BackendFields
<1>3. /\ errors' \in Nat /\ version' \in Nat
      /\ IF error = "none" THEN success /\ errors' = errors ELSE errors' = errors + 1
  BY DEF LoadCookiesForDomains, Error, IInv, Typed
<1>4. Healthy' => Healthy /\ error = "none" /\ success
  BY <1>3 DEF Healthy, IInv, Typed
<1>5. backend.corruption => ~Healthy
  BY DEF IInv, Failing
<1> QED
  BY <1>2, <1>3, <1>4, <1>5

\* A database that cannot be opened any more has failed or was closed.
LEMMA Unopened ==
  ASSUME IInv, backend.step = "start", ~MayInitialize \/ backend.initialized
  PROVE  backend.open \/ ~Healthy \/ Closed
BY DEF IInv, Failing, MayInitialize

LEMMA KeepsLoadKey == IInv /\ LoadKey => IInv' /\ (Closed' <=> Closed)
<1> SUFFICES ASSUME IInv, LoadKey PROVE IInv' /\ (Closed' <=> Closed)
  OBVIOUS
<1>1. /\ loops.db # <<>> /\ Head(loops.db).task = "loadKey"
      /\ backend.step = "start" /\ backend.batch = <<>> /\ ~MayInitialize
      /\ UNCHANGED <<table, version, monster, sessions>>
  BY AtTask DEF LoadKey, IInv, Batches
<1>2. ASSUME NEW k, NEW success \in BOOLEAN, NEW error \in Failures,
             backend.open,
             LoadCookiesForDomains(k, success, error),
             Ends(Kill(error = "catastrophic"), Answer)
      PROVE  IInv' /\ (Closed' <=> Closed)
  <2>1. backend.initialized
    BY <1>1, <1>2 DEF IInv, Failing
  <2> DEFINE left == Kill(error = "catastrophic")
  <2>2. /\ left \in Seq(Tasks) /\ \A i \in DOMAIN left : left[i].task # "close"
        /\ Has(left, "kill") => error = "catastrophic"
        /\ ~Has(left, "chain")
    BY Left
  <2> HIDE DEF left
  <2>3. /\ Ends(left, Answer) /\ Answer \in Seq(Tasks)
        /\ UNCHANGED monster
    BY <1>1, <1>2, AnswerTyped DEF left
  <2> QED
    BY <1>1, <1>2, <2>1, <2>2, <2>3, Loaded, TaskEnds
<1>3. CASE Ends(<<>>, Answer) /\ UNCHANGED <<backend, errors>>
  <2>1. /\ BackendTyped' /\ errors' \in Nat /\ version' \in Nat /\ (Healthy' <=> Healthy)
        /\ backend.corruption => ~Healthy
    BY <1>1, <1>3 DEF IInv, Typed, Records, BackendTyped, Healthy, Failing
  <2> QED
    BY <1>1, <1>3, <2>1, Unopened, Nothing, AnswerTyped, TaskEnds DEF IInv, Failing
<1> QED
  BY <1>2, <1>3 DEF LoadKey

LEMMA KeepsChainLoadCookies == IInv /\ ChainLoadCookies => IInv' /\ (Closed' <=> Closed)
<1> SUFFICES ASSUME IInv, ChainLoadCookies PROVE IInv' /\ (Closed' <=> Closed)
  OBVIOUS
<1>1. /\ loops.db # <<>> /\ Head(loops.db).task \in {"load", "chain"}
      /\ backend.step = "start" /\ backend.batch = <<>>
      /\ ~MayInitialize \/ backend.initialized
      /\ UNCHANGED <<version, monster, sessions>>
  <2>1. Has(loops.db, "chain") => backend.initialized
    BY DEF IInv, Failing
  <2>2. ASSUME loops.db # <<>>, Head(loops.db).task = "chain"
        PROVE  Has(loops.db, "chain")
    <3>1. 1 \in DOMAIN loops.db /\ loops.db[1].task = "chain"
      BY <2>2 DEF IInv, Typed
    <3> QED
      BY <3>1 DEF Has
  <2> QED
    BY <2>1, <2>2, AtTask DEF ChainLoadCookies, IInv, Batches
<1>2. ASSUME NEW k, NEW success \in BOOLEAN, NEW error \in Failures,
             backend.open,
             LoadCookiesForDomains(k, success, error),
             \/ Ends(Kill(error = "catastrophic"), Answer)
             \/ Ends(Kill(error = "catastrophic") \o <<Plain("chain")>>, <<>>)
      PROVE  IInv' /\ (Closed' <=> Closed)
  <2>1. backend.initialized
    BY <1>1, <1>2 DEF IInv, Failing
  <2>2. PICK left \in Seq(Tasks), answer \in Seq(Tasks) :
        /\ \A i \in DOMAIN left : left[i].task # "close"
        /\ Has(left, "kill") => error = "catastrophic"
        /\ Ends(left, answer)
    BY <1>1, <1>2, Left, Nothing, AnswerTyped
  <2> QED
    BY <1>1, <1>2, <2>1, <2>2, Loaded, TaskEnds
<1>3. CASE Ends(<<>>, Answer) /\ UNCHANGED <<backend, errors>>
  <2>1. /\ BackendTyped' /\ errors' \in Nat /\ version' \in Nat /\ (Healthy' <=> Healthy)
        /\ backend.corruption => ~Healthy
    BY <1>1, <1>3 DEF IInv, Typed, Records, BackendTyped, Healthy, Failing
  <2> QED
    BY <1>1, <1>3, <2>1, Unopened, Nothing, AnswerTyped, TaskEnds DEF IInv, Failing
<1> QED
  BY <1>2, <1>3 DEF ChainLoadCookies

LEMMA KeepsKillDatabase == IInv /\ KillDatabase => IInv' /\ (Closed' <=> Closed)
<1> SUFFICES ASSUME IInv, KillDatabase PROVE IInv' /\ (Closed' <=> Closed)
  OBVIOUS
<1>1. /\ loops.db # <<>> /\ Head(loops.db).task = "kill" /\ backend.step = "start"
      /\ backend' = [backend EXCEPT !.open = FALSE] /\ Ends(<<>>, <<>>)
      /\ UNCHANGED <<version, monster, errors, sessions>>
  BY AtTask DEF KillDatabase
<1>2. Has(loops.db, "kill")
  <2>1. 1 \in DOMAIN loops.db /\ loops.db[1].task = "kill"
    BY <1>1 DEF IInv, Typed
  <2> QED
    BY <2>1 DEF Has
<1>3. /\ BackendTyped' /\ errors' \in Nat /\ version' \in Nat /\ ~Healthy'
      /\ backend.step' = "start" /\ backend.batch' = <<>> /\ backend.pending' = backend.pending
      /\ ~backend.open' /\ backend.initialized' = backend.initialized
  BY <1>1, <1>2 DEF IInv, Typed, Records, BackendTyped, BackendFields, Batches, Failing, Healthy
<1> QED
  BY <1>1, <1>3, Nothing, TaskEnds

LEMMA KeepsRunClosure == IInv /\ RunClosure => IInv' /\ (Closed' <=> Closed)
<1> SUFFICES ASSUME IInv, RunClosure PROVE IInv' /\ (Closed' <=> Closed)
  OBVIOUS
<1>1. /\ loops.db # <<>> /\ Head(loops.db).task = "closure" /\ backend.step = "start"
      /\ Ends(<<>>, <<>>)
      /\ UNCHANGED <<table, version, backend, monster, errors, sessions>>
  BY AtTask DEF RunClosure
<1>2. /\ BackendTyped' /\ errors' \in Nat /\ version' \in Nat /\ (Healthy' <=> Healthy)
      /\ backend.batch = <<>>
      /\ backend.corruption => ~Healthy
      /\ backend.initialized /\ ~backend.open => ~Healthy \/ Closed
  BY <1>1 DEF IInv, Typed, Records, BackendTyped, Batches, Failing, Healthy
<1>3. /\ backend.step' = "start" /\ backend.batch' = <<>> /\ backend.pending' = backend.pending
      /\ backend.corruption' = backend.corruption /\ backend.open' = backend.open
      /\ backend.initialized' = backend.initialized
  <2>1. backend' = backend
    BY <1>1
  <2>2. backend.batch = <<>>
    BY <1>2
  <2> QED
    BY <1>1, <2>1, <2>2
<1>4. backend.open => backend.initialized
  BY <1>1 DEF IInv, Failing
<1> QED
  BY <1>1, <1>2, <1>3, <1>4, Nothing, TaskEnds

LEMMA BatchTaken ==
  ASSUME IInv, NEW b \in Seq(Table!Ops), NEW s \in {"start", "upgrade", "write", "close"},
         backend' = [backend EXCEPT !.batch = b, !.pending = <<>>, !.numPending = 0, !.step = s]
  PROVE  /\ BackendTyped' /\ backend.batch' = b /\ backend.pending' = <<>> /\ backend.step' = s
         /\ backend.open' = backend.open /\ backend.initialized' = backend.initialized
         /\ backend.corruption' = backend.corruption
<1> USE DEF IInv, Typed, Records, BackendFields
<1>1. backend' = [f \in BackendFields |-> backend'[f]]
  OBVIOUS
<1>2. backend.batch' = b /\ backend.pending' = <<>> /\ backend.step' = s
  OBVIOUS
<1>3. backend.open' = backend.open
  OBVIOUS
<1>4. backend.initialized' = backend.initialized
  OBVIOUS
<1>5. backend.corruption' = backend.corruption
  OBVIOUS
<1> QED
  BY <1>1, <1>2, <1>3, <1>4, <1>5 DEF BackendTyped

LEMMA BatchWritten ==
  ASSUME IInv, NEW counts, NEW corrupt \in BOOLEAN,
         NEW s \in {"start", "upgrade", "write", "close"},
         backend' = [backend EXCEPT !.batch = <<>>, !.perOrigin = counts,
                                    !.corruption = @ \/ corrupt, !.step = s]
  PROVE  /\ BackendTyped' /\ backend.batch' = <<>> /\ backend.pending' = backend.pending
         /\ backend.step' = s
         /\ backend.open' = backend.open /\ backend.initialized' = backend.initialized
         /\ backend.corruption' <=> backend.corruption \/ corrupt
<1> USE DEF IInv, Typed, Records, BackendFields
<1>1. backend' = [f \in BackendFields |-> backend'[f]]
  OBVIOUS
<1>2. backend.batch' = <<>> /\ backend.pending' = backend.pending /\ backend.step' = s
  OBVIOUS
<1>3. backend.open' = backend.open
  OBVIOUS
<1>4. backend.initialized' = backend.initialized
  OBVIOUS
<1>5. backend.corruption' <=> backend.corruption \/ corrupt
  OBVIOUS
<1> QED
  BY <1>1, <1>2, <1>3, <1>4, <1>5 DEF BackendTyped

LEMMA KeepsCommit == IInv /\ Commit => IInv' /\ (Closed' <=> Closed)
<1> SUFFICES ASSUME IInv, Commit PROVE IInv' /\ (Closed' <=> Closed)
  OBVIOUS
<1> DEFINE writes == backend.open /\ backend.pending # <<>>
           after == IF At("close", "start") THEN "close" ELSE "start"
<1>1. /\ loops.db # <<>> /\ Head(loops.db).task \in {"commit", "close"}
      /\ backend.step = "start"
      /\ UNCHANGED <<table, version, monster, errors, sessions>>
      /\ after = "close" <=> Head(loops.db).task = "close"
  BY DEF Commit, At
<1>2. /\ BackendTyped'
      /\ backend.batch' = (IF writes THEN backend.pending ELSE <<>>)
      /\ backend.pending' = <<>>
      /\ backend.step' = (IF writes THEN "write" ELSE after)
      /\ backend.open' = backend.open /\ backend.initialized' = backend.initialized
      /\ backend.corruption' = backend.corruption
  <2>1. backend' = [backend EXCEPT
             !.batch = IF writes THEN backend.pending ELSE <<>>,
             !.pending = <<>>, !.numPending = 0,
             !.step = IF writes THEN "write" ELSE after]
    BY Zenon DEF Commit
  <2>2. /\ (IF writes THEN backend.pending ELSE <<>>) \in Seq(Table!Ops)
        /\ (IF writes THEN "write" ELSE after) \in {"start", "upgrade", "write", "close"}
    BY DEF IInv, Typed
  <2> HIDE DEF writes, after
  <2> QED
    BY <2>1, <2>2, BatchTaken
<1>3. /\ errors' \in Nat /\ version' \in Nat
      /\ Healthy' <=> Healthy
      /\ backend.corruption => ~Healthy
      /\ backend.initialized /\ ~backend.open => ~Healthy \/ Closed
      /\ backend.open => backend.initialized
      /\ Closed => backend.pending = <<>>
  BY <1>1 DEF IInv, Typed, Failing, Healthy, Batches
<1>4. CASE writes \/ after = "close"
  <2>1. UNCHANGED loops
    BY <1>4 DEF Commit
  <2>2. loops' = [loops EXCEPT !.db = @ \o <<>>]
    BY <2>1, Nothing
  <2> QED
    BY <1>1, <1>2, <1>3, <1>4, <2>2, TaskGoesOn, Nothing
<1>5. CASE ~(writes \/ after = "close")
  <2>1. Ends(<<>>, <<>>) /\ Head(loops.db).task # "close"
    BY <1>1, <1>5 DEF Commit
  <2> QED
    BY <1>1, <1>2, <1>3, <1>5, <2>1, TaskEnds, Nothing
<1> QED
  BY <1>4, <1>5

\* What WriteBatch does, with and without an error.
LEMMA WriteCases ==
  ASSUME WriteBatch
  PROVE  \E catastrophic \in BOOLEAN : \E counts :
           /\ backend' = [backend EXCEPT
                !.batch = <<>>, !.perOrigin = counts, !.corruption = @ \/ catastrophic,
                !.step = IF At("close", "write") THEN "close" ELSE "start"]
           /\ IF At("close", "write") THEN loops' = [loops EXCEPT !.db = @ \o Kill(catastrophic)]
                                      ELSE Ends(Kill(catastrophic), <<>>)
           /\ \/ /\ ~catastrophic /\ UNCHANGED errors
                 /\ table' = Table!Applied(table, backend.batch)
                 /\ counts = Counted(backend.batch)
              \/ /\ Error(catastrophic)
                 /\ counts \in {backend.perOrigin, Counted(backend.batch)}
                 /\ \/ UNCHANGED table
                    \/ \E failed \in SUBSET DOMAIN backend.batch :
                         table' = Table!Applied(table, Table!Without(backend.batch, failed))
<1> DEFINE closing == At("close", "write")
           Written(counts, corrupt) == backend' = [backend EXCEPT
                    !.batch = <<>>, !.perOrigin = counts, !.corruption = @ \/ corrupt,
                    !.step = IF closing THEN "close" ELSE "start"]
           Leave(killing) ==
             IF closing THEN loops' = [loops EXCEPT !.db = @ \o killing] ELSE Ends(killing, <<>>)
           Whole == table' = Table!Applied(table, backend.batch)
           Partly == \E failed \in SUBSET DOMAIN backend.batch :
                       table' = Table!Applied(table, Table!Without(backend.batch, failed))
<1>1. \/ /\ Whole
         /\ Written(Counted(backend.batch), FALSE)
         /\ Leave(<<>>)
         /\ UNCHANGED errors
      \/ \E catastrophic \in BOOLEAN :
           /\ Error(catastrophic)
           /\ Leave(Kill(catastrophic))
           /\ \/ Written(backend.perOrigin, catastrophic) /\ UNCHANGED table
              \/ Written(Counted(backend.batch), catastrophic) /\ Partly
  BY Zenon DEF WriteBatch
<1>2. Kill(FALSE) = <<>>
  BY DEF Kill
<1> HIDE DEF closing, Written, Leave, Whole, Partly
<1>3. SUFFICES \E catastrophic \in BOOLEAN : \E counts :
           /\ Written(counts, catastrophic)
           /\ Leave(Kill(catastrophic))
           /\ \/ ~catastrophic /\ UNCHANGED errors /\ Whole /\ counts = Counted(backend.batch)
              \/ /\ Error(catastrophic)
                 /\ counts \in {backend.perOrigin, Counted(backend.batch)}
                 /\ UNCHANGED table \/ Partly
  BY <1>3, Zenon DEF closing, Written, Leave, Whole, Partly
<1>4. CASE Whole /\ Written(Counted(backend.batch), FALSE) /\ Leave(<<>>) /\ UNCHANGED errors
  BY <1>2, <1>4, Zenon
<1>5. CASE \E catastrophic \in BOOLEAN :
             /\ Error(catastrophic)
             /\ Leave(Kill(catastrophic))
             /\ \/ Written(backend.perOrigin, catastrophic) /\ UNCHANGED table
                \/ Written(Counted(backend.batch), catastrophic) /\ Partly
  BY <1>5, Zenon
<1> QED
  BY <1>1, <1>4, <1>5, Zenon

LEMMA KeepsWriteBatch == IInv /\ WriteBatch => IInv' /\ (Closed' <=> Closed)
<1> SUFFICES ASSUME IInv, WriteBatch PROVE IInv' /\ (Closed' <=> Closed)
  OBVIOUS
<1> DEFINE closing == At("close", "write")
<1>1. /\ loops.db # <<>> /\ Head(loops.db).task \in {"commit", "close"}
      /\ backend.step = "write"
      /\ UNCHANGED <<version, monster, sessions>>
      /\ closing <=> Head(loops.db).task = "close"
  BY DEF WriteBatch, At
<1>2. PICK catastrophic \in BOOLEAN : \E counts :
      /\ backend' = [backend EXCEPT
           !.batch = <<>>, !.perOrigin = counts, !.corruption = @ \/ catastrophic,
           !.step = IF closing THEN "close" ELSE "start"]
      /\ IF closing THEN loops' = [loops EXCEPT !.db = @ \o Kill(catastrophic)]
                    ELSE Ends(Kill(catastrophic), <<>>)
      /\ \/ ~catastrophic /\ UNCHANGED errors
         \/ Error(catastrophic)
  BY WriteCases, Zenon
<1>3. /\ BackendTyped' /\ backend.batch' = <<>> /\ backend.pending' = backend.pending
      /\ backend.step' = (IF closing THEN "close" ELSE "start")
      /\ backend.open' = backend.open /\ backend.initialized' = backend.initialized
      /\ backend.corruption' <=> backend.corruption \/ catastrophic
  <2>1. (IF closing THEN "close" ELSE "start") \in {"start", "upgrade", "write", "close"}
    OBVIOUS
  <2> HIDE DEF closing
  <2> QED
    BY <1>2, <2>1, BatchWritten
<1>4. /\ errors' \in Nat /\ version' \in Nat
      /\ Healthy' => Healthy /\ ~catastrophic
  BY <1>1, <1>2 DEF IInv, Typed, Error, Healthy
<1>5. /\ backend.corruption => ~Healthy
      /\ backend.initialized /\ ~backend.open => ~Healthy \/ Closed
      /\ backend.open => backend.initialized
      /\ closing => backend.pending = <<>>
  BY <1>1 DEF IInv, Failing, Batches, Closing
<1> DEFINE left == Kill(catastrophic)
<1>6. /\ left \in Seq(Tasks) /\ \A i \in DOMAIN left : left[i].task # "close"
      /\ Has(left, "kill") => catastrophic
      /\ ~Has(left, "chain")
  BY Left
<1> HIDE DEF left
<1>7. CASE closing
  <2>1. loops' = [loops EXCEPT !.db = @ \o left] /\ Head(loops.db).task = "close"
    BY <1>1, <1>2, <1>7 DEF left
  <2> QED
    BY <1>1, <1>3, <1>4, <1>5, <1>6, <1>7, <2>1, TaskGoesOn
<1>8. CASE ~closing
  <2>1. Ends(left, <<>>) /\ Head(loops.db).task # "close"
    BY <1>1, <1>2, <1>8 DEF left
  <2> QED
    BY <1>1, <1>3, <1>4, <1>5, <1>6, <1>8, <2>1, TaskEnds, Nothing
<1> QED
  BY <1>7, <1>8

LEMMA KeepsCloseDatabase == IInv /\ CloseDatabase => IInv' /\ Closed'
<1> SUFFICES ASSUME IInv, CloseDatabase PROVE IInv' /\ Closed'
  OBVIOUS
<1>1. /\ loops.db # <<>> /\ Head(loops.db).task = "close" /\ backend.step = "close"
      /\ backend' = [backend EXCEPT !.open = FALSE, !.step = "start"] /\ Ends(<<>>, <<>>)
      /\ UNCHANGED <<version, monster, sessions>>
  BY AtTask DEF CloseDatabase
<1>2. /\ loops' = [f \in LoopFields |-> loops'[f]]
      /\ loops.db' \in Seq(Tasks) /\ loops.io' \in Seq(Tasks) /\ One(loops.db')
      /\ ~Has(loops.db', "close") /\ Has(loops.db, "close")
      /\ \A t : Has(loops.db', t) => Has(loops.db, t)
  BY <1>1, EndsWith, Nothing
<1>3. /\ BackendTyped' /\ backend.step' = "start" /\ ~backend.open'
      /\ backend.batch' = <<>> /\ backend.pending' = <<>>
      /\ backend.initialized' = backend.initialized /\ backend.corruption' = backend.corruption
  BY <1>1 DEF IInv, Typed, Records, BackendTyped, BackendFields, Batches
<1>4. errors' \in Nat /\ version' \in Nat /\ (Healthy' => Healthy)
  BY <1>1 DEF IInv, Typed, CloseDatabase, Error, Healthy
<1>5. monster.gone /\ Closed'
  BY <1>1, <1>2 DEF IInv, ClosedOnce, Closed, Has
<1>6. Typed'
  BY <1>1, <1>2, <1>3, <1>4 DEF IInv, Typed, Records, BackendTyped
<1>7. ClosedOnce' /\ Batches'
  BY <1>1, <1>2, <1>3, <1>5 DEF ClosedOnce, Batches, Closing
<1>8. Failing'
  BY <1>1, <1>2, <1>3, <1>4, <1>5 DEF IInv, Failing
<1> QED
  BY <1>5, <1>6, <1>7, <1>8 DEF IInv

\* The tasks the other threads post are tasks of theirs.
LEMMA PostedTask ==
  ASSUME NEW t \in TaskNames \ {"close", "kill", "chain"}, NEW k \in Keys \cup {"none"}, NEW n \in Nat
  PROVE  /\ <<Task(t, k, n)>> \in Seq(Tasks)
         /\ \A i \in DOMAIN <<Task(t, k, n)>> :
              <<Task(t, k, n)>>[i].task \notin {"close", "kill", "chain"}
<1>1. Task(t, k, n) \in Tasks /\ Task(t, k, n).task = t
  BY DEF Task, Tasks
<1> QED
  BY <1>1

\* Only the DB thread's queue grows, by one task.
LEMMA OnlyPosts ==
  ASSUME IInv, NEW t \in TaskNames \ {"close", "kill", "chain"},
         NEW k \in Keys \cup {"none"}, NEW n \in Nat,
         loops.db' = Append(loops.db, Task(t, k, n)),
         loops' = [f \in LoopFields |-> loops'[f]], loops.io' = loops.io,
         monster' = [f \in MonsterFields |-> monster'[f]], monster.issued' = monster.issued,
         monster.gone' = monster.gone, monster.ready' = monster.ready,
         UNCHANGED <<backend, errors, version>>
  PROVE  IInv' /\ (Closed' <=> Closed)
<1>1. loops.db \in Seq(Tasks) /\ Task(t, k, n) \in Tasks
  BY PostedTask DEF IInv, Typed, Task, Tasks
<1>2. loops.db' = loops.db \o <<Task(t, k, n)>>
  BY <1>1, AppendIsConcat
<1>3. BackendTyped' /\ loops.io' \in Seq(Tasks) /\ monster.issued' \in Nat
  BY DEF IInv, Typed, Records, BackendTyped
<1>4. UNCHANGED <<monster.gone, errors, version>>
  OBVIOUS
<1> DEFINE more == <<Task(t, k, n)>>
<1>5. /\ more \in Seq(Tasks)
      /\ \A i \in DOMAIN more : more[i].task \notin {"close", "kill", "chain"}
      /\ loops.db' = loops.db \o more
  BY <1>2, PostedTask
<1> HIDE DEF more
<1> QED
  BY <1>3, <1>4, <1>5, OthersPost

LEMMA KeepsLoads == IInv /\ (Load \/ \E k \in Keys : LoadCookiesForKey(k)) => IInv' /\ (Closed' <=> Closed)
<1>1. ASSUME IInv, Load
      PROVE  IInv' /\ (Closed' <=> Closed)
  <2>1. /\ loops.db' = Append(loops.db, Plain("load"))
        /\ loops' = [f \in LoopFields |-> loops'[f]] /\ loops.io' = loops.io
        /\ monster' = [f \in MonsterFields |-> monster'[f]]
        /\ monster.issued' = monster.issued
        /\ monster.gone' = monster.gone /\ monster.ready' = monster.ready
        /\ UNCHANGED <<backend, errors, version>>
    BY <1>1 DEF Load, PostDB, IInv, Typed, Records, LoopFields, MonsterFields
  <2> QED
    BY <1>1, <2>1, OnlyPosts DEF Plain, TaskNames
<1>2. ASSUME IInv, NEW k \in Keys, LoadCookiesForKey(k)
      PROVE  IInv' /\ (Closed' <=> Closed)
  <2>1. /\ loops.db' = Append(loops.db, Task("loadKey", k, 0))
        /\ loops' = [f \in LoopFields |-> loops'[f]] /\ loops.io' = loops.io
        /\ monster' = [f \in MonsterFields |-> monster'[f]]
        /\ monster.issued' = monster.issued
        /\ monster.gone' = monster.gone /\ monster.ready' = monster.ready
        /\ UNCHANGED <<backend, errors, version>>
    BY <1>2 DEF LoadCookiesForKey, PostDB, IInv, Typed, Records, LoopFields, MonsterFields
  <2> QED
    BY <1>2, <2>1, OnlyPosts DEF TaskNames
<1> QED
  BY <1>1, <1>2

LEMMA KeepsTimerFires == IInv /\ TimerFires => IInv' /\ (Closed' <=> Closed)
<1> SUFFICES ASSUME IInv, TimerFires PROVE IInv' /\ (Closed' <=> Closed)
  OBVIOUS
<1>1. /\ loops.db' = Append(loops.db, Plain("commit"))
      /\ loops' = [f \in LoopFields |-> loops'[f]] /\ loops.io' = loops.io
      /\ monster' = [f \in MonsterFields |-> monster'[f]]
      /\ monster.issued' = monster.issued
      /\ monster.gone' = monster.gone /\ monster.ready' = monster.ready
      /\ UNCHANGED <<backend, errors, version>>
  BY DEF TimerFires, IInv, Typed, Records, LoopFields
<1> QED
  BY <1>1, OnlyPosts DEF Plain, TaskNames

LEMMA KeepsFlush == IInv /\ Flush => IInv' /\ (Closed' <=> Closed)
<1> SUFFICES ASSUME IInv, Flush PROVE IInv' /\ (Closed' <=> Closed)
  OBVIOUS
<1> DEFINE more == <<Plain("commit"), Task("closure", "none", monster.issued)>>
<1>1. /\ loops.db' = loops.db \o more
      /\ loops' = [f \in LoopFields |-> loops'[f]] /\ loops.io' = loops.io
      /\ monster' = [f \in MonsterFields |-> monster'[f]]
      /\ monster.issued' = monster.issued
      /\ monster.gone' = monster.gone /\ monster.ready' = monster.ready
      /\ UNCHANGED <<backend, errors, version>>
  BY DEF Flush, IInv, Typed, Records, LoopFields, MonsterFields
<1>2. /\ Plain("commit") \in Tasks /\ Task("closure", "none", monster.issued) \in Tasks
      /\ Plain("commit").task = "commit"
      /\ Task("closure", "none", monster.issued).task = "closure"
  BY DEF Plain, Task, Tasks, TaskNames, IInv, Typed
<1>3. /\ more \in Seq(Tasks)
      /\ \A i \in DOMAIN more : more[i].task \notin {"close", "kill", "chain"}
  BY <1>2
<1>4. BackendTyped' /\ loops.io' \in Seq(Tasks) /\ monster.issued' \in Nat
  BY <1>1 DEF IInv, Typed, Records, BackendTyped
<1> HIDE DEF more
<1> QED
  BY <1>1, <1>3, <1>4, OthersPost

LEMMA KeepsBatchOperation ==
  ASSUME IInv, NEW o \in Operations, BatchOperation(o)
  PROVE  IInv' /\ (Closed' <=> Closed) /\ backend.pending' = Append(backend.pending, o) /\ backend.batch' = backend.batch
<1> DEFINE num == backend.numPending + 1
           due == num # 1 /\ num = BatchSize
           more == IF due THEN <<Plain("commit")>> ELSE <<>>
<1>1. /\ backend.pending' = Append(backend.pending, o)
      /\ backend.batch' = backend.batch /\ backend.step' = backend.step
      /\ backend.open' = backend.open /\ backend.initialized' = backend.initialized
      /\ backend.corruption' = backend.corruption
      /\ backend' = [f \in BackendFields |-> backend'[f]]
  BY DEF BatchOperation, IInv, Typed, Records, BackendFields
<1>2. o \in Table!Ops /\ KeyOf(o.cookie) \in monster.ready /\ ~monster.gone
  BY DEF BatchOperation, Possible, Operations
<1>3. BackendTyped'
  BY <1>1, <1>2 DEF IInv, Typed, BackendTyped
<1>4. /\ monster' = [f \in MonsterFields |-> monster'[f]]
      /\ monster.issued' = monster.issued + 1
      /\ monster.gone' = monster.gone /\ monster.ready' = monster.ready
      /\ UNCHANGED <<errors, version>>
  BY DEF BatchOperation, IInv, Typed, Records, MonsterFields
<1>5. /\ loops' = [f \in LoopFields |-> loops'[f]] /\ loops.io' = loops.io
      /\ loops.db' = IF due THEN Append(loops.db, Plain("commit")) ELSE loops.db
  <2>1. loops' = [loops EXCEPT !.timers = IF num = 1 THEN @ + 1 ELSE @,
                               !.db = IF due THEN Append(@, Plain("commit")) ELSE @]
    BY DEF BatchOperation
  <2> HIDE DEF due, num
  <2> QED
    BY <2>1 DEF IInv, Typed, Records, LoopFields
<1>6. /\ more \in Seq(Tasks)
      /\ \A i \in DOMAIN more : more[i].task \notin {"close", "kill", "chain"}
  BY PostedTask DEF Plain, TaskNames
<1>7. loops.db' = loops.db \o more
  <2>1. loops.db \in Seq(Tasks) /\ Plain("commit") \in Tasks
    BY DEF IInv, Typed, Plain, Task, Tasks, TaskNames
  <2>2. loops.db \o <<>> = loops.db /\ loops.db \o <<Plain("commit")>> = Append(loops.db, Plain("commit"))
    BY <2>1, AppendIsConcat, ConcatEmptySeq
  <2> QED
    BY <1>5, <2>2
<1>8. loops.io' \in Seq(Tasks) /\ monster.issued' \in Nat
  BY <1>4, <1>5 DEF IInv, Typed
<1> HIDE DEF more
<1>9. IInv' /\ (Closed' <=> Closed)
  BY <1>1, <1>2, <1>3, <1>4, <1>5, <1>6, <1>7, <1>8, OthersPost
<1> QED
  BY <1>1, <1>9

LEMMA KeepsCompleteLoadOnIOThread == IInv /\ CompleteLoadOnIOThread => IInv' /\ (Closed' <=> Closed)
<1> SUFFICES ASSUME IInv, CompleteLoadOnIOThread PROVE IInv' /\ (Closed' <=> Closed)
  OBVIOUS
<1>1. /\ loops.io # <<>>
      /\ loops' = [loops EXCEPT !.io = Tail(@)]
      /\ backend' = [backend EXCEPT !.loaded = {}]
      /\ UNCHANGED <<errors, version>>
      /\ \E a, r, h, v : monster' = [monster EXCEPT !.answered = a, !.ready = r, !.handed = h, !.view = v]
  BY DEF CompleteLoadOnIOThread
<1>2. /\ loops' = [f \in LoopFields |-> loops'[f]] /\ loops.io' \in Seq(Tasks)
      /\ loops.db' = loops.db
  <2>1. /\ loops' = [f \in LoopFields |-> loops'[f]]
        /\ loops.db' = loops.db /\ loops.io' = Tail(loops.io)
    BY <1>1 DEF IInv, Typed, Records, LoopFields
  <2>2. loops.io \in Seq(Tasks)
    BY DEF IInv, Typed
  <2> QED
    BY <1>1, <2>1, <2>2
<1>3. /\ monster' = [f \in MonsterFields |-> monster'[f]]
      /\ monster.issued' = monster.issued
      /\ monster.gone' = monster.gone
  BY <1>1 DEF IInv, Typed, Records, MonsterFields
<1>4. /\ BackendTyped' /\ backend.step' = backend.step /\ backend.batch' = backend.batch
      /\ backend.pending' = backend.pending
      /\ backend.open' = backend.open /\ backend.initialized' = backend.initialized
      /\ backend.corruption' = backend.corruption
  BY <1>1 DEF IInv, Typed, Records, BackendTyped, BackendFields
<1>5. loops.db' = loops.db \o <<>>
  BY <1>2, ConcatEmptySeq DEF IInv, Typed
<1>6. /\ <<>> \in Seq(Tasks) /\ monster.issued' \in Nat
      /\ \A i \in DOMAIN <<>> : <<>>[i].task \notin {"close", "kill", "chain"}
  BY <1>3 DEF IInv, Typed
<1>7. monster.ready # {} /\ backend.pending # <<>> => monster.ready' # {}
  <2>1. backend.pending # <<>> => Keys # {}
    <3>1. SUFFICES ASSUME backend.pending # <<>> PROVE Keys # {}
      OBVIOUS
    <3>2. backend.pending[1] \in Table!Ops
      BY <3>1 DEF IInv, Typed
    <3> QED
      BY <3>2, StoreAssumption DEF Table!Ops
  <2>2. \E k : monster.ready' = Keys \/ monster.ready' = monster.ready \cup {k}
    BY DEF CompleteLoadOnIOThread, IInv, Typed, Records, MonsterFields
  <2> QED
    BY <2>1, <2>2
<1> QED
  BY <1>1, <1>2, <1>3, <1>4, <1>5, <1>6, <1>7, OthersPost

LEMMA KeepsClose == IInv /\ (\E keep \in BOOLEAN : Close(keep)) => IInv' /\ (Closed' <=> Closed)
<1> SUFFICES ASSUME IInv, NEW keep \in BOOLEAN, Close(keep) PROVE IInv' /\ (Closed' <=> Closed)
  OBVIOUS
<1>1. /\ ~monster.gone /\ monster' = [monster EXCEPT !.gone = TRUE]
      /\ backend' = [backend EXCEPT !.forceKeep = keep]
      /\ loops' = [loops EXCEPT !.db = Append(@, Plain("close"))]
      /\ UNCHANGED <<table, version, errors, sessions>>
  BY DEF Close, PostDB
<1>2. loops.db \in Seq(Tasks) /\ One(loops.db) /\ ~Has(loops.db, "close")
  BY <1>1 DEF IInv, Typed, ClosedOnce
<1>3. /\ loops' = [f \in LoopFields |-> loops'[f]] /\ loops.io' = loops.io
      /\ loops.db' = Append(loops.db, Plain("close"))
  BY <1>1 DEF IInv, Typed, Records, LoopFields
<1>4. /\ monster' = [f \in MonsterFields |-> monster'[f]]
      /\ monster.issued' = monster.issued /\ monster.gone' /\ monster.ready' = monster.ready
  BY <1>1 DEF IInv, Typed, Records, MonsterFields
<1>5. /\ BackendTyped' /\ backend.step' = backend.step /\ backend.batch' = backend.batch
      /\ backend.pending' = backend.pending
      /\ backend.open' = backend.open /\ backend.initialized' = backend.initialized
      /\ backend.corruption' = backend.corruption
  BY <1>1 DEF IInv, Typed, Records, BackendTyped, BackendFields
<1> DEFINE n == Len(loops.db) + 1
<1>6. Plain("close") \in Tasks /\ Plain("close").task = "close"
  BY DEF Plain, Task, Tasks, TaskNames
<1>7. /\ loops.db' \in Seq(Tasks) /\ n \in DOMAIN loops.db' /\ loops.db'[n].task = "close"
      /\ \A i \in DOMAIN loops.db' : i = n \/ (i \in DOMAIN loops.db /\ loops.db'[i] = loops.db[i])
      /\ \A i \in DOMAIN loops.db : loops.db'[i] = loops.db[i]
      /\ loops.db # <<>> => loops.db' # <<>> /\ Head(loops.db') = Head(loops.db)
  BY <1>2, <1>3, <1>6
<1>8. One(loops.db') /\ Has(loops.db', "close")
      /\ \A t : t # "close" => (Has(loops.db', t) => Has(loops.db, t))
  BY <1>2, <1>7 DEF One, Has
<1>9. ~Closed /\ ~Closed' /\ (Healthy' <=> Healthy)
  BY <1>1, <1>8 DEF Closed, Has, Healthy
<1>10. Typed'
  BY <1>1, <1>3, <1>4, <1>5, <1>7 DEF IInv, Typed, Records, BackendTyped
<1>11. ClosedOnce'
  BY <1>4, <1>8 DEF ClosedOnce
<1>12. Batches'
  <2>1. ~Closing
    <3>1. loops.db # <<>> => 1 \in DOMAIN loops.db /\ Head(loops.db) = loops.db[1]
      BY <1>2
    <3> QED
      BY <1>2, <3>1 DEF Closing, Has
  <2>2. ~Closing'
    <3>1. CASE loops.db = <<>>
      BY <1>5, <3>1 DEF IInv, Batches, Closing
    <3>2. CASE loops.db # <<>>
      BY <1>5, <1>7, <2>1, <3>2 DEF Closing
    <3> QED
      BY <3>1, <3>2
  <2> QED
    BY <1>5, <1>7, <1>9, <2>1, <2>2 DEF IInv, Batches
<1>13. Failing'
  BY <1>3, <1>4, <1>5, <1>8, <1>9 DEF IInv, Failing
<1> QED
  BY <1>9, <1>10, <1>11, <1>12, <1>13 DEF IInv

Started ==
  /\ backend = NewBackend /\ loops = NewLoops /\ monster = NewMonster
  /\ errors = 0 /\ version \in Nat

LEMMA Fresh == Started => IInv
<1> SUFFICES ASSUME Started PROVE IInv
  OBVIOUS
<1> USE DEF Started
<1>1. /\ backend = [f \in BackendFields |-> backend[f]]
      /\ loops = [f \in LoopFields |-> loops[f]]
      /\ monster = [f \in MonsterFields |-> monster[f]]
  BY DEF NewBackend, NewLoops, NewMonster, BackendFields, LoopFields, MonsterFields
<1>2. /\ backend.pending = <<>> /\ backend.batch = <<>> /\ backend.step = "start"
      /\ ~backend.open /\ ~backend.initialized /\ ~backend.corruption
      /\ loops.db = <<>> /\ loops.io = <<>>
      /\ ~monster.gone /\ monster.issued = 0 /\ monster.ready = {}
  BY DEF NewBackend, NewLoops, NewMonster
<1>3. Typed
  <2>1. /\ backend.pending \in Seq(Table!Ops) /\ backend.batch \in Seq(Table!Ops)
        /\ loops.db \in Seq(Tasks) /\ loops.io \in Seq(Tasks)
    BY <1>2
  <2>2. /\ backend.step \in {"start", "upgrade", "write", "close"}
        /\ monster.issued \in Nat /\ errors \in Nat
    BY <1>2
  <2>3. Records
    BY <1>1 DEF Records
  <2> QED
    BY <2>1, <2>2, <2>3 DEF Typed
<1>4. \A t : ~Has(loops.db, t)
  BY <1>2 DEF Has
<1>5. ClosedOnce
  BY <1>2, <1>4 DEF ClosedOnce, One
<1>6. Batches
  BY <1>2 DEF Batches, Closing, Closed
<1>7. Failing
  BY <1>2, <1>4 DEF Failing
<1> QED
  BY <1>3, <1>5, <1>6, <1>7 DEF IInv

LEMMA InitIInv == Init => IInv
<1>1. Init => version \in Nat
  BY StoreAssumption DEF Init
<1> QED
  BY <1>1, Fresh DEF Init, Started

LEMMA KeepsRestart == IInv /\ Restart => IInv'
<1> SUFFICES ASSUME IInv, Restart PROVE IInv'
  OBVIOUS
<1>1. Started'
  BY DEF Started, Restart, IInv, Typed, NewBackend, NewLoops, NewMonster
<1>2. (Started => IInv)'
  BY Fresh, PTL
<1> QED
  BY <1>1, <1>2

LEMMA NextIInv == IInv /\ [Next]_vars => IInv'
<1> SUFFICES ASSUME IInv, [Next]_vars PROVE IInv'
  OBVIOUS
<1>1. CASE Caller
  BY <1>1, KeepsLoads, KeepsFlush, KeepsClose, KeepsBatchOperation DEF Caller
<1>2. CASE DBThread
  BY <1>2, KeepsOpenDatabase, KeepsInitializeFails, KeepsDatabaseTooNew,
     KeepsEnsureDatabaseVersion, KeepsReadKeys, KeepsLoadKey, KeepsChainLoadCookies, KeepsCommit,
     KeepsWriteBatch, KeepsCloseDatabase, KeepsKillDatabase, KeepsRunClosure DEF DBThread
<1>3. CASE UNCHANGED vars
  <2>1. Closed' = Closed /\ Healthy' = Healthy
    BY <1>3 DEF vars, Closed, Healthy
  <2> QED
    BY <1>3, <2>1 DEF vars, IInv, Typed, Records, ClosedOnce, Batches, Failing, Closing
<1> QED
  BY <1>1, <1>2, <1>3, KeepsCompleteLoadOnIOThread, KeepsTimerFires, KeepsRestart DEF Next

-----------------------------------------------------------------------------
Waiting == backend.batch \o backend.pending

\* A step that leaves the queue alone and the table, but for rows that go, is a Purge.
LEMMA IsPurge ==
  ASSUME Waiting' = Waiting, Closed' <=> Closed, Healthy' => Healthy,
         \A c \in Cookies : table'[c] \in {table[c], Absent}
  PROVE  Table!Next
<1>1. Healthy' \in {Healthy, FALSE}
  <2>1. Healthy \in BOOLEAN /\ Healthy' \in BOOLEAN
    BY DEF Healthy
  <2>2. CASE Healthy'
    BY <2>1, <2>2
  <2>3. CASE ~Healthy'
    BY <2>1, <2>3
  <2> QED
    BY <2>2, <2>3
<1>2. Closed' = Closed
  OBVIOUS
<1> QED
  BY <1>1, <1>2 DEF Table!Next, Table!Purge, Waiting


Goes == \A c \in Cookies : table'[c] \in {table[c], Absent}

LEMMA QuietOthers ==
  ASSUME IInv,
         \/ Load \/ Flush \/ \E keep \in BOOLEAN : Close(keep)
         \/ \E k \in Keys : LoadCookiesForKey(k)
         \/ CompleteLoadOnIOThread \/ TimerFires
  PROVE  Waiting' = Waiting /\ (Healthy' => Healthy) /\ Goes
<1>1. UNCHANGED <<table, version, errors>>
  BY DEF Load, Flush, Close, LoadCookiesForKey, CompleteLoadOnIOThread, TimerFires
<1>2. \/ backend' = backend
      \/ \E keep \in BOOLEAN : backend' = [backend EXCEPT !.forceKeep = keep]
      \/ backend' = [backend EXCEPT !.loaded = {}]
  BY DEF Load, Flush, Close, LoadCookiesForKey, CompleteLoadOnIOThread, TimerFires
<1>3. Waiting' = Waiting
  BY <1>2 DEF Waiting, IInv, Typed, Records, BackendFields
<1> QED
  BY <1>1, <1>3 DEF Healthy, Goes

LEMMA QuietLoading ==
  ASSUME IInv, OpenDatabase \/ InitializeFails \/ DatabaseTooNew \/ EnsureDatabaseVersion
  PROVE  Waiting' = Waiting /\ (Healthy' => Healthy) /\ Goes
<1>1. CASE OpenDatabase
  BY <1>1 DEF OpenDatabase, Waiting, Healthy, Goes, IInv, Typed, Records, BackendFields
<1>2. CASE InitializeFails
  <2>1. PICK catastrophic \in BOOLEAN :
        /\ Error(catastrophic)
        /\ table' \in {table} \cup (IF catastrophic THEN {NoRows} ELSE {})
        /\ backend' = [backend EXCEPT !.open = FALSE, !.step = "start", !.openFailed = TRUE,
                                      !.corruption = @ \/ catastrophic]
    BY <1>2 DEF InitializeFails
  <2>2. Waiting' = Waiting
    BY <2>1 DEF Waiting, IInv, Typed, Records, BackendFields
  <2>3. ~Healthy'
    BY <2>1 DEF Error, Healthy, IInv, Typed
  <2>4. Goes
    BY <2>1 DEF Goes, NoRows
  <2> QED
    BY <2>2, <2>3, <2>4
<1>3. CASE DatabaseTooNew
  BY <1>3 DEF DatabaseTooNew, Waiting, Healthy, Goes, IInv, Typed, Records, BackendFields
<1>4. CASE EnsureDatabaseVersion
  <2>1. Waiting' = Waiting
    BY <1>4 DEF EnsureDatabaseVersion, Waiting
  <2>2. Healthy' => Healthy
    BY <1>4 DEF EnsureDatabaseVersion, Healthy, CurrentVersion, IInv, Typed
  <2>3. Goes
    BY <1>4 DEF EnsureDatabaseVersion, Goes, NoRows
  <2> QED
    BY <2>1, <2>2, <2>3
<1> QED
  BY <1>1, <1>2, <1>3, <1>4

LEMMA QuietReading ==
  ASSUME IInv, ReadKeys \/ LoadKey \/ ChainLoadCookies
  PROVE  Waiting' = Waiting /\ (Healthy' => Healthy) /\ Goes
<1>1. CASE ReadKeys
  <2>1. backend.batch' = backend.batch /\ backend.pending' = backend.pending
    BY <1>1 DEF ReadKeys, IInv, Typed, Records, BackendFields
  <2>2. UNCHANGED <<table, version>> /\ (errors' = errors \/ errors' = errors + 1)
    BY <1>1 DEF ReadKeys, Error
  <2> QED
    BY <2>1, <2>2 DEF Waiting, Healthy, Goes, IInv, Typed
<1>2. ASSUME NEW k, NEW success \in BOOLEAN, NEW error \in Failures,
             LoadCookiesForDomains(k, success, error), UNCHANGED version
      PROVE  Waiting' = Waiting /\ (Healthy' => Healthy)
  BY <1>2, Loaded DEF Waiting
<1>3. ASSUME UNCHANGED <<backend, errors, version>>
      PROVE  Waiting' = Waiting /\ (Healthy' => Healthy)
  BY <1>3 DEF Waiting, Healthy
<1>4. CASE LoadKey
  <2>1. UNCHANGED <<table, version>>
    BY <1>4 DEF LoadKey
  <2>2. \/ \E success \in BOOLEAN, error \in Failures :
             LoadCookiesForDomains(Head(loops.db).key, success, error)
        \/ UNCHANGED <<backend, errors>>
    BY <1>4 DEF LoadKey
  <2> QED
    BY <1>2, <1>3, <2>1, <2>2 DEF Goes
<1>5. CASE ChainLoadCookies
  <2>1. UNCHANGED version /\ Goes
    BY <1>5 DEF ChainLoadCookies, Goes
  <2>2. \/ \E k \in backend.keysToLoad, success \in BOOLEAN, error \in Failures :
             LoadCookiesForDomains(k, success, error)
        \/ UNCHANGED <<backend, errors>>
    BY <1>5 DEF ChainLoadCookies
  <2> QED
    BY <1>2, <1>3, <2>1, <2>2
<1> QED
  BY <1>1, <1>4, <1>5

LEMMA QuietTasks ==
  ASSUME IInv, KillDatabase \/ RunClosure
  PROVE  Waiting' = Waiting /\ (Healthy' => Healthy) /\ Goes
<1>1. CASE KillDatabase
  BY <1>1 DEF KillDatabase, Waiting, Healthy, Goes, NoRows, IInv, Typed, Records, BackendFields
<1>2. CASE RunClosure
  BY <1>2 DEF RunClosure, Waiting, Healthy, Goes
<1> QED
  BY <1>1, <1>2

\* A batch that is taken is still waiting; without a database it is lost.
LEMMA CommitMaps ==
  ASSUME IInv, Commit
  PROVE  Table!Next
<1>1. /\ IInv' /\ (Closed' <=> Closed)
      /\ backend.step = "start" /\ backend.batch = <<>>
      /\ UNCHANGED <<table, version, errors>>
  BY KeepsCommit DEF Commit, At, IInv, Batches
<1>2. Healthy' = Healthy /\ Closed' = Closed
  BY <1>1 DEF Healthy, Closed
<1>3. backend.pending \in Seq(Table!Ops)
  BY DEF IInv, Typed
<1>4. CASE backend.open \/ backend.pending = <<>>
  <2>1. backend.batch' = backend.pending /\ backend.pending' = <<>>
    BY <1>1, <1>3, <1>4 DEF Commit, IInv, Typed, Records, BackendFields
  <2>2. Waiting' = Waiting
    BY <1>1, <1>3, <2>1 DEF Waiting
  <2> QED
    BY <1>1, <1>2, <2>2, IsPurge
<1>5. CASE ~backend.open /\ backend.pending # <<>>
  <2>1. backend.batch' = <<>> /\ backend.pending' = <<>>
    BY <1>1, <1>3, <1>5 DEF Commit, IInv, Typed, Records, BackendFields
  <2>2. ~Healthy
    BY <1>1, <1>5 DEF IInv, Failing, Batches
  <2> DEFINE n == Len(Waiting)
  <2>3. Waiting = backend.pending /\ Waiting' = <<>>
    BY <1>1, <1>3, <2>1 DEF Waiting
  <2>4. n \in 1 .. Len(Waiting) /\ SubSeq(Waiting, n + 1, Len(Waiting)) = <<>>
    BY <1>3, <1>5, <2>3
  <2> QED
    BY <1>1, <1>2, <2>2, <2>3, <2>4 DEF Table!Next, Table!Settle, Waiting
<1> QED
  BY <1>4, <1>5

LEMMA AppendBehind ==
  ASSUME NEW S, NEW s \in Seq(S), NEW t \in Seq(S), NEW e \in S
  PROVE  s \o Append(t, e) = Append(s \o t, e)
<1>1. Append(t, e) = t \o <<e>> /\ <<e>> \in Seq(S)
  BY AppendIsConcat
<1>2. s \o t \in Seq(S)
  BY ConcatProperties
<1>3. Append(s \o t, e) = (s \o t) \o <<e>>
  BY <1>2, AppendIsConcat
<1> QED
  BY <1>1, <1>3, ConcatAssociative

LEMMA Split ==
  ASSUME NEW S, NEW s \in Seq(S), NEW t \in Seq(S)
  PROVE  /\ SubSeq(s \o t, 1, Len(s)) = s
         /\ SubSeq(s \o t, Len(s) + 1, Len(s \o t)) = t
         /\ s # <<>> => Len(s) \in 1 .. Len(s \o t)
<1>1. /\ Len(s) \in Nat /\ Len(t) \in Nat /\ Len(s \o t) = Len(s) + Len(t)
      /\ s # <<>> => Len(s) > 0
      /\ t # <<>> => Len(t) > 0
      /\ s \o t \in Seq(S)
  BY ConcatProperties
<1>2. SubSeq(s \o t, 1, Len(s)) = s
  <2>1. CASE s = <<>>
    BY <1>1, <2>1, SubSeqEmpty
  <2>2. CASE s # <<>>
    <3>1. 1 \in 1 .. Len(s) /\ Len(s) \in 1 .. Len(s)
      BY <1>1, <2>2
    <3> QED
      BY <3>1, SubSeqOfConcat1, SubSeqFull
  <2> QED
    BY <2>1, <2>2
<1>3. SubSeq(s \o t, Len(s) + 1, Len(s \o t)) = t
  <2>1. CASE t = <<>>
    <3>1. Len(s \o t) = Len(s)
      BY <1>1, <2>1
    <3> QED
      BY <1>1, <2>1, <3>1, SubSeqEmpty
  <2>2. CASE t # <<>>
    <3>1. /\ Len(s) + 1 \in Len(s) + 1 .. Len(s) + Len(t)
          /\ Len(s) + Len(t) \in Len(s) + 1 .. Len(s) + Len(t)
          /\ (Len(s) + 1) - Len(s) = 1 /\ (Len(s) + Len(t)) - Len(s) = Len(t)
      BY <1>1, <2>2
    <3>2. SubSeq(s \o t, Len(s) + 1, Len(s) + Len(t))
            = SubSeq(t, (Len(s) + 1) - Len(s), (Len(s) + Len(t)) - Len(s))
      BY <3>1, SubSeqOfConcat2
    <3> QED
      BY <1>1, <3>1, <3>2, SubSeqFull
  <2> QED
    BY <2>1, <2>2
<1> QED
  BY <1>1, <1>2, <1>3

\* The batch stands in front of what has been submitted since.
LEMMA WriteBatchMaps ==
  ASSUME IInv, WriteBatch
  PROVE  Table!Next
<1>1. /\ IInv' /\ (Closed' <=> Closed) /\ backend.step = "write"
      /\ UNCHANGED version
  BY KeepsWriteBatch DEF WriteBatch, At
<1>2. /\ backend.batch \in Seq(Table!Ops) /\ backend.pending \in Seq(Table!Ops)
      /\ backend.batch # <<>>
  BY <1>1 DEF IInv, Typed, Batches
<1>3. backend.batch' = <<>> /\ backend.pending' = backend.pending
  BY DEF WriteBatch, IInv, Typed, Records, BackendFields
<1>4. \/ table' = Table!Applied(table, backend.batch) /\ UNCHANGED errors
      \/ UNCHANGED table /\ errors' = errors + 1
      \/ /\ errors' = errors + 1
         /\ \E failed \in SUBSET DOMAIN backend.batch :
              table' = Table!Applied(table, Table!Without(backend.batch, failed))
  BY WriteCases, Zenon DEF Error
<1> DEFINE n == Len(backend.batch)
<1>5. /\ n \in 1 .. Len(Waiting)
      /\ SubSeq(Waiting, 1, n) = backend.batch
      /\ SubSeq(Waiting, n + 1, Len(Waiting)) = backend.pending
      /\ Waiting' = backend.pending
  <2>1. Waiting' = <<>> \o backend.pending
    BY <1>3 DEF Waiting
  <2>2. <<>> \o backend.pending = backend.pending
    BY <1>2, ConcatEmptySeq
  <2>3. /\ SubSeq(Waiting, 1, n) = backend.batch
        /\ SubSeq(Waiting, n + 1, Len(Waiting)) = backend.pending
        /\ n \in 1 .. Len(Waiting)
    <3> DEFINE s == backend.batch
               t == backend.pending
    <3>1. s \in Seq(Table!Ops) /\ t \in Seq(Table!Ops) /\ s # <<>>
      BY <1>2
    <3> HIDE DEF s, t
    <3>2. /\ SubSeq(s \o t, 1, Len(s)) = s
          /\ SubSeq(s \o t, Len(s) + 1, Len(s \o t)) = t
          /\ Len(s) \in 1 .. Len(s \o t)
      BY ONLY <3>1, Split
    <3> QED
      BY <3>2 DEF Waiting, s, t
  <2> QED
    BY <2>1, <2>2, <2>3
<1>6. Closed' = Closed
  BY <1>1 DEF Closed
<1>7. CASE table' = Table!Applied(table, backend.batch) /\ UNCHANGED errors
  <2>1. Healthy' = Healthy
    BY <1>1, <1>7 DEF Healthy
  <2> QED
    BY <1>5, <1>6, <1>7, <2>1 DEF Table!Next, Table!Settle, Waiting
<1>8. CASE UNCHANGED table /\ errors' = errors + 1
  <2>1. ~Healthy'
    BY <1>8 DEF Healthy, IInv, Typed
  <2> QED
    BY <1>5, <1>6, <1>8, <2>1 DEF Table!Next, Table!Settle, Waiting
<1>9. ASSUME errors' = errors + 1, NEW failed \in SUBSET DOMAIN backend.batch,
             table' = Table!Applied(table, Table!Without(backend.batch, failed))
      PROVE  Table!Next
  <2>1. ~Healthy'
    BY <1>9 DEF Healthy, IInv, Typed
  <2>2. failed \in SUBSET (1 .. n)
    BY <1>2, <1>9
  <2> QED
    BY <1>5, <1>6, <1>9, <2>1, <2>2 DEF Table!Next, Table!Settle, Waiting
<1> QED
  BY <1>4, <1>7, <1>8, <1>9

\* The backend is closed with nothing left to write.
LEMMA CloseDatabaseMaps ==
  ASSUME IInv, CloseDatabase
  PROVE  Table!Next
<1>1. /\ IInv' /\ Closed' /\ backend.batch = <<>> /\ backend.pending = <<>>
      /\ backend' = [backend EXCEPT !.open = FALSE, !.step = "start"]
      /\ UNCHANGED version
  BY KeepsCloseDatabase DEF CloseDatabase, At, IInv, Batches
<1>2. Waiting = <<>> /\ Waiting' = Waiting
  BY <1>1 DEF Waiting, IInv, Typed, Records, BackendFields
<1>3. Goes
  BY DEF CloseDatabase, Goes
<1>4. Healthy' \in {Healthy, FALSE}
  <2>1. errors' = errors \/ errors' = errors + 1
    BY DEF CloseDatabase, Error
  <2>2. Healthy' = Healthy \/ ~Healthy'
    BY <1>1, <2>1 DEF Healthy, IInv, Typed
  <2> QED
    BY <2>2 DEF Healthy
<1>5. Closed' = TRUE
  BY <1>1 DEF Closed
<1> QED
  BY <1>2, <1>3, <1>4, <1>5 DEF Table!Next, Table!Close, Goes, Waiting

LEMMA BatchOperationMaps ==
  ASSUME IInv, NEW o \in Operations, BatchOperation(o)
  PROVE  Table!Next
<1>1. /\ (Closed' <=> Closed) /\ backend.pending' = Append(backend.pending, o)
      /\ backend.batch' = backend.batch
      /\ UNCHANGED <<table, version, errors>> /\ ~Closed
  BY KeepsBatchOperation DEF BatchOperation, Closed
<1>2. o \in Table!Ops /\ backend.pending \in Seq(Table!Ops) /\ backend.batch \in Seq(Table!Ops)
  BY DEF Operations, IInv, Typed
<1>3. Waiting' = Append(Waiting, o)
  <2>1. Waiting' = backend.batch \o Append(backend.pending, o)
    BY <1>1 DEF Waiting
  <2>2. backend.batch \o Append(backend.pending, o) = Append(backend.batch \o backend.pending, o)
    <3> DEFINE s == backend.batch
               t == backend.pending
    <3>1. s \in Seq(Table!Ops) /\ t \in Seq(Table!Ops) /\ o \in Table!Ops
      BY <1>2
    <3> HIDE DEF s, t
    <3>2. s \o Append(t, o) = Append(s \o t, o)
      BY ONLY <3>1, AppendBehind
    <3> QED
      BY <3>2 DEF s, t
  <2> QED
    BY <2>1, <2>2 DEF Waiting
<1>4. Healthy' = Healthy /\ Closed' = Closed
  BY <1>1 DEF Healthy, Closed
<1> QED
  BY <1>1, <1>2, <1>3, <1>4 DEF Table!Next, Table!Submit, Waiting

LEMMA RestartMaps ==
  ASSUME Restart
  PROVE  Table!Next
<1>1. /\ UNCHANGED table /\ backend'.batch = <<>> /\ backend'.pending = <<>>
      /\ ~monster'.gone
  BY DEF Restart, NewBackend, NewMonster
<1>2. Waiting' = <<>>
  BY <1>1 DEF Waiting
<1>3. Closed' = FALSE /\ Healthy' \in BOOLEAN
  BY <1>1 DEF Closed, Healthy
<1> QED
  BY <1>1, <1>2, <1>3 DEF Table!Next, Table!Restart, Waiting

LEMMA InitMaps == Init => Table!Init
<1> SUFFICES ASSUME Init PROVE Table!Init
  OBVIOUS
<1>1. table \in [Cookies -> Times \cup {Absent}]
  BY StoreAssumption DEF Init
<1>2. backend.batch \o backend.pending = <<>>
  BY DEF Init, NewBackend
<1>3. Healthy \in BOOLEAN /\ Closed = FALSE
  BY DEF Init, Healthy, Closed, NewMonster
<1> QED
  BY <1>1, <1>2, <1>3 DEF Table!Init

LEMMA StepMaps == IInv /\ [Next]_vars => [Table!Next]_(Table!vars)
<1> SUFFICES ASSUME IInv, [Next]_vars PROVE [Table!Next]_(Table!vars)
  OBVIOUS
<1>1. CASE \/ Load \/ Flush \/ \E keep \in BOOLEAN : Close(keep)
           \/ \E k \in Keys : LoadCookiesForKey(k)
           \/ CompleteLoadOnIOThread \/ TimerFires
  <2>1. Closed' <=> Closed
    BY <1>1, KeepsLoads, KeepsFlush, KeepsClose, KeepsCompleteLoadOnIOThread, KeepsTimerFires
  <2> QED
    BY <1>1, <2>1, QuietOthers, IsPurge DEF Goes
<1>2. CASE \/ OpenDatabase \/ InitializeFails \/ DatabaseTooNew \/ EnsureDatabaseVersion
  <2>1. Closed' <=> Closed
    BY <1>2, KeepsOpenDatabase, KeepsInitializeFails, KeepsDatabaseTooNew, KeepsEnsureDatabaseVersion
  <2> QED
    BY <1>2, <2>1, QuietLoading, IsPurge DEF Goes
<1>3. CASE ReadKeys \/ LoadKey \/ ChainLoadCookies
  <2>1. Closed' <=> Closed
    BY <1>3, KeepsReadKeys, KeepsLoadKey, KeepsChainLoadCookies
  <2> QED
    BY <1>3, <2>1, QuietReading, IsPurge DEF Goes
<1>4. CASE KillDatabase \/ RunClosure
  <2>1. Closed' <=> Closed
    BY <1>4, KeepsKillDatabase, KeepsRunClosure
  <2> QED
    BY <1>4, <2>1, QuietTasks, IsPurge DEF Goes
<1>5. CASE UNCHANGED vars
  BY <1>5 DEF vars, Table!vars, Healthy, Closed
<1> QED
  BY <1>1, <1>2, <1>3, <1>4, <1>5, CommitMaps, WriteBatchMaps, CloseDatabaseMaps,
     BatchOperationMaps, RestartMaps DEF Next, Caller, DBThread

\* For any cookies, batch size, number of sessions and errors, the store is a
\* CookieTable: operations reach the file in the order they were submitted, those of
\* a batch at once, one is lost, alone or with its batch, only when SQLite has failed
\* or the process dies, and a closed backend has none left.
THEOREM StoreIsTable == Spec => ImplementsTable
BY InitMaps, InitIInv, NextIInv, StepMaps, PTL DEF Spec, ImplementsTable, Table!Spec

(**************************************************************************)
(* Tables and sequences of operations: Table!Applied by the least counterexample. *)
(**************************************************************************)
\* A nonempty set of numbers has a least element; with the counterexamples to a claim
\* for T, this is induction.
LEMMA Least ==
  ASSUME NEW T \in SUBSET Nat, T # {}
  PROVE  \E m \in T : \A n \in T : m <= n
<1> DEFINE R == StrictSubsetOrdering(Nat)
           Down == {1 .. n : n \in T}
<1>1. Down \subseteq FiniteSubsetsOf(Nat) /\ Down # {}
  <2>1. \A n \in T : 1 .. n \subseteq Nat /\ IsFiniteSet(1 .. n)
    BY FS_Interval
  <2> QED
    BY <2>1 DEF FiniteSubsetsOf
<1>2. IsWellFoundedOn(R, FiniteSubsetsOf(Nat))
  BY FS_StrictSubsetOrderingWellFounded
<1>3. PICK D \in Down : \A E \in Down : <<E, D>> \notin R
  <2> HIDE DEF R, Down
  <2> QED
    BY <1>1, <1>2, WFMin
<1>4. PICK m \in T : D = 1 .. m
  OBVIOUS
<1>5. ASSUME NEW n \in T, n < m
      PROVE  FALSE
  <2>1. 1 .. n \subseteq 1 .. m /\ 1 .. n # 1 .. m /\ 1 .. m \subseteq Nat
    <3>1. m \in 1 .. m /\ m \notin 1 .. n
      BY <1>5
    <3> QED
      BY <1>5, <3>1
  <2>2. <<1 .. n, 1 .. m>> \in R
    BY <2>1 DEF StrictSubsetOrdering
  <2> QED
    BY <1>3, <1>4, <2>2
<1> QED
  BY <1>5

\* f gives the tables between the first N operations.
After(f, N, t, ops) ==
  f = [n \in 0 .. N |-> IF n = 0 THEN t ELSE Table!Effect(f[n - 1], ops[n])]

\* The tables an Applied goes through exist; the least n without them would follow one with.
LEMMA AfterExists ==
  ASSUME NEW t, NEW ops, NEW N \in Nat
  PROVE  \E f : After(f, N, t, ops)
<1> DEFINE Bad == {n \in Nat : ~\E f : After(f, n, t, ops)}
<1>1. SUFFICES ASSUME Bad # {} PROVE FALSE
  OBVIOUS
<1>2. PICK m \in Bad : \A n \in Bad : m <= n
  <2> HIDE DEF Bad
  <2>1. Bad \in SUBSET Nat
    BY DEF Bad
  <2> QED
    BY <1>1, <2>1, Least
<1>3. m # 0
  <2>1. After([n \in 0 .. 0 |-> t], 0, t, ops)
    BY DEF After
  <2> QED
    BY <2>1
<1>4. m - 1 \in Nat /\ m - 1 \notin Bad
  BY <1>2, <1>3
<1>5. PICK f : After(f, m - 1, t, ops)
  BY <1>4
<1> DEFINE g == [n \in 0 .. m |-> IF n = m THEN Table!Effect(f[m - 1], ops[m]) ELSE f[n]]
<1>6. \A n \in 0 .. m : g[n] = IF n = 0 THEN t ELSE Table!Effect(g[n - 1], ops[n])
  <2>1. f = [n \in 0 .. m - 1 |-> IF n = 0 THEN t ELSE Table!Effect(f[n - 1], ops[n])]
    BY <1>5 DEF After
  <2>2. \A n \in 0 .. m - 1 : f[n] = IF n = 0 THEN t ELSE Table!Effect(f[n - 1], ops[n])
    BY <2>1
  <2>3. \A n \in 0 .. m : n # m => n \in 0 .. m - 1
    OBVIOUS
  <2>4. \A n \in 0 .. m : n # 0 => n - 1 \in 0 .. m /\ n - 1 # m
    OBVIOUS
  <2>5. \A n \in 0 .. m : n # 0 => g[n - 1] = f[n - 1]
    BY <2>4
  <2> QED
    BY <1>3, <2>2, <2>3, <2>5
<1>7. After(g, m, t, ops)
  <2>1. g = [n \in 0 .. m |-> g[n]]
    OBVIOUS
  <2> HIDE DEF g
  <2> QED
    BY <1>6, <2>1 DEF After
<1> QED
  BY <1>2, <1>7

\* Applied is the last of those tables.
LEMMA AppliedIs ==
  ASSUME NEW t, NEW ops, Len(ops) \in Nat
  PROVE  \E f : After(f, Len(ops), t, ops) /\ Table!Applied(t, ops) = f[Len(ops)]
<1> DEFINE F == CHOOSE f : After(f, Len(ops), t, ops)
<1>1. After(F, Len(ops), t, ops)
  BY AfterExists
<1>2. Table!Applied(t, ops) = F[Len(ops)]
  BY DEF Table!Applied, After
<1> QED
  BY <1>1, <1>2

\* The first N operations are the same.
SameUpTo(N, ops, more) == \A i \in 1 .. N : more[i] = ops[i]

\* They depend on nothing behind the operations they come from,
LEMMA AfterAgree ==
  ASSUME NEW t, NEW ops, NEW more, NEW N \in Nat, NEW M \in Nat, N <= M,
         SameUpTo(N, ops, more),
         NEW f, After(f, N, t, ops), NEW g, After(g, M, t, more)
  PROVE  \A n \in 0 .. N : g[n] = f[n]
<1> DEFINE Bad == {n \in 0 .. N : g[n] # f[n]}
<1>1. SUFFICES ASSUME Bad # {} PROVE FALSE
  OBVIOUS
<1>2. PICK m \in Bad : \A n \in Bad : m <= n
  <2> HIDE DEF Bad
  <2>1. Bad \in SUBSET Nat
    BY DEF Bad
  <2> QED
    BY <1>1, <2>1, Least
<1>3. /\ \A n \in 0 .. N : f[n] = IF n = 0 THEN t ELSE Table!Effect(f[n - 1], ops[n])
      /\ \A n \in 0 .. M : g[n] = IF n = 0 THEN t ELSE Table!Effect(g[n - 1], more[n])
  BY DEF After
<1>4. m \in 0 .. N /\ m \in 0 .. M /\ g[m] # f[m]
  BY <1>2
<1>5. m # 0
  BY <1>3, <1>4
<1>6. m - 1 \in 0 .. N /\ m - 1 \notin Bad /\ m \in 1 .. N
  BY <1>2, <1>4, <1>5
<1>7. g[m - 1] = f[m - 1] /\ more[m] = ops[m]
  BY <1>6 DEF SameUpTo
<1> QED
  BY <1>3, <1>4, <1>5, <1>7

Tables == [Cookies -> Times \cup {Absent}]

LEMMA EffectTyped ==
  ASSUME NEW t \in Tables, NEW o, o \in Table!Ops \/ o = Table!Nothing
  PROVE  Table!Effect(t, o) \in Tables
<1>1. CASE o \in Table!Ops
  BY <1>1 DEF Table!Ops, Table!Effect, Tables
<1>2. CASE o = Table!Nothing
  BY <1>2 DEF Table!Nothing, Table!Effect
<1> QED
  BY <1>1, <1>2

\* and are tables, also when operations among them fail.
LEMMA AfterTables ==
  ASSUME NEW t \in Tables, NEW ops, NEW N \in Nat,
         \A i \in 1 .. N : ops[i] \in Table!Ops \/ ops[i] = Table!Nothing,
         NEW f, After(f, N, t, ops)
  PROVE  \A n \in 0 .. N : f[n] \in Tables
<1> DEFINE Bad == {n \in 0 .. N : f[n] \notin Tables}
<1>1. SUFFICES ASSUME Bad # {} PROVE FALSE
  OBVIOUS
<1>2. PICK m \in Bad : \A n \in Bad : m <= n
  <2> HIDE DEF Bad
  <2>1. Bad \in SUBSET Nat
    BY DEF Bad
  <2> QED
    BY <1>1, <2>1, Least
<1>3. \A n \in 0 .. N : f[n] = IF n = 0 THEN t ELSE Table!Effect(f[n - 1], ops[n])
  BY DEF After
<1>4. m # 0 /\ m \in 0 .. N
  BY <1>2, <1>3
<1>5. m - 1 \in 0 .. N /\ m - 1 \notin Bad /\ m \in 1 .. N
  BY <1>2, <1>4
<1> QED
  BY <1>2, <1>3, <1>4, <1>5, EffectTyped

LEMMA AfterTyped ==
  ASSUME NEW t \in Tables, NEW ops \in Seq(Table!Ops), NEW N \in Nat, N <= Len(ops),
         NEW f, After(f, N, t, ops)
  PROVE  \A n \in 0 .. N : f[n] \in Tables
<1>1. \A i \in 1 .. N : ops[i] \in Table!Ops
  OBVIOUS
<1> QED
  BY <1>1, AfterTables

\* What the operations before the end do to the row of c depends on that row only.
LEMMA AfterLocal ==
  ASSUME NEW t \in Tables, NEW u \in Tables, NEW ops \in Seq(Table!Ops), NEW N \in Nat, N <= Len(ops),
         NEW c \in Cookies, t[c] = u[c],
         NEW f, After(f, N, t, ops), NEW g, After(g, N, u, ops)
  PROVE  \A n \in 0 .. N : f[n][c] = g[n][c]
<1> DEFINE Bad == {n \in 0 .. N : f[n][c] # g[n][c]}
<1>1. SUFFICES ASSUME Bad # {} PROVE FALSE
  OBVIOUS
<1>2. PICK m \in Bad : \A n \in Bad : m <= n
  <2> HIDE DEF Bad
  <2>1. Bad \in SUBSET Nat
    BY DEF Bad
  <2> QED
    BY <1>1, <2>1, Least
<1>3. /\ \A n \in 0 .. N : f[n] = IF n = 0 THEN t ELSE Table!Effect(f[n - 1], ops[n])
      /\ \A n \in 0 .. N : g[n] = IF n = 0 THEN u ELSE Table!Effect(g[n - 1], ops[n])
  BY DEF After
<1>4. m # 0 /\ m \in 0 .. N /\ f[m][c] # g[m][c]
  BY <1>2, <1>3
<1>5. m - 1 \in 0 .. N /\ m - 1 \notin Bad /\ ops[m] \in Table!Ops
  BY <1>2, <1>4
<1>6. f[m - 1] \in Tables /\ g[m - 1] \in Tables /\ f[m - 1][c] = g[m - 1][c]
  BY <1>5, AfterTyped
<1>7. Table!Effect(f[m - 1], ops[m])[c] = Table!Effect(g[m - 1], ops[m])[c]
  BY <1>5, <1>6 DEF Table!Effect, Table!Ops, Tables
<1> QED
  BY <1>3, <1>4, <1>7

\* A cookie no operation names keeps its row.
LEMMA AfterUntouched ==
  ASSUME NEW t \in Tables, NEW ops \in Seq(Table!Ops), NEW N \in Nat, N <= Len(ops),
         NEW c \in Cookies, \A i \in 1 .. N : ops[i].cookie # c,
         NEW f, After(f, N, t, ops)
  PROVE  \A n \in 0 .. N : f[n][c] = t[c]
<1> DEFINE Bad == {n \in 0 .. N : f[n][c] # t[c]}
<1>1. SUFFICES ASSUME Bad # {} PROVE FALSE
  OBVIOUS
<1>2. PICK m \in Bad : \A n \in Bad : m <= n
  <2> HIDE DEF Bad
  <2>1. Bad \in SUBSET Nat
    BY DEF Bad
  <2> QED
    BY <1>1, <2>1, Least
<1>3. \A n \in 0 .. N : f[n] = IF n = 0 THEN t ELSE Table!Effect(f[n - 1], ops[n])
  BY DEF After
<1>4. m # 0 /\ m \in 0 .. N /\ f[m][c] # t[c]
  BY <1>2, <1>3
<1>5. m - 1 \in 0 .. N /\ m - 1 \notin Bad /\ ops[m] \in Table!Ops /\ ops[m].cookie # c
  BY <1>2, <1>4
<1>6. f[m - 1] \in Tables /\ f[m - 1][c] = t[c]
  BY <1>5, AfterTyped
<1>7. Table!Effect(f[m - 1], ops[m])[c] = f[m - 1][c]
  BY <1>5, <1>6 DEF Table!Effect, Table!Ops, Tables
<1> QED
  BY <1>3, <1>4, <1>6, <1>7

-----------------------------------------------------------------------------
\* The same of Applied.
LEMMA AppliedTyped ==
  ASSUME NEW t \in Tables, NEW ops \in Seq(Table!Ops)
  PROVE  Table!Applied(t, ops) \in Tables
<1>1. PICK f : After(f, Len(ops), t, ops) /\ Table!Applied(t, ops) = f[Len(ops)]
  BY AppliedIs
<1> QED
  BY <1>1, AfterTyped

LEMMA AppliedWithout ==
  ASSUME NEW t \in Tables, NEW ops \in Seq(Table!Ops), NEW failed
  PROVE  Table!Applied(t, Table!Without(ops, failed)) \in Tables
<1> DEFINE rest == Table!Without(ops, failed)
<1>1. /\ DOMAIN rest = 1 .. Len(ops) /\ Len(rest) = Len(ops) /\ Len(ops) \in Nat
      /\ \A i \in 1 .. Len(ops) : rest[i] \in Table!Ops \/ rest[i] = Table!Nothing
  BY DEF Table!Without
<1> HIDE DEF rest
<1>2. PICK f : After(f, Len(rest), t, rest) /\ Table!Applied(t, rest) = f[Len(rest)]
  BY <1>1, AppliedIs
<1>3. After(f, Len(ops), t, rest) /\ Table!Applied(t, rest) = f[Len(ops)]
  BY <1>1, <1>2
<1>4. \A n \in 0 .. Len(ops) : f[n] \in Tables
  BY <1>1, <1>3, AfterTables
<1> QED
  BY <1>1, <1>3, <1>4 DEF rest

LEMMA AppliedNothing ==
  ASSUME NEW t
  PROVE  Table!Applied(t, <<>>) = t
<1>1. PICK f : After(f, Len(<<>>), t, <<>>) /\ Table!Applied(t, <<>>) = f[Len(<<>>)]
  BY AppliedIs
<1>2. Len(<<>>) = 0
  OBVIOUS
<1> QED
  BY <1>1, <1>2 DEF After

LEMMA AppliedAppend ==
  ASSUME NEW t, NEW ops \in Seq(Table!Ops), NEW o \in Table!Ops
  PROVE  Table!Applied(t, Append(ops, o)) = Table!Effect(Table!Applied(t, ops), o)
<1> DEFINE more == Append(ops, o)
           n == Len(ops)
<1>1. /\ n \in Nat /\ Len(more) = n + 1 /\ more[n + 1] = o
      /\ \A i \in 1 .. n : more[i] = ops[i]
  OBVIOUS
<1> HIDE DEF more, n
<1>2. PICK f : After(f, n, t, ops) /\ Table!Applied(t, ops) = f[n]
  BY <1>1, AppliedIs DEF n
<1>3. PICK g : After(g, n + 1, t, more) /\ Table!Applied(t, more) = g[n + 1]
  <2>1. Len(more) \in Nat
    BY <1>1
  <2> QED
    BY <1>1, <2>1, AppliedIs
<1>4. g[n] = f[n]
  <2>1. n \in Nat /\ n + 1 \in Nat /\ n <= n + 1 /\ n \in 0 .. n
        /\ SameUpTo(n, ops, more)
    BY <1>1 DEF SameUpTo
  <2> DEFINE M == n + 1
  <2>2. M \in Nat /\ n <= M /\ After(f, n, t, ops) /\ After(g, M, t, more)
    BY <1>2, <1>3, <2>1
  <2> HIDE DEF M
  <2>3. \A i \in 0 .. n : g[i] = f[i]
    BY ONLY <2>1, <2>2, AfterAgree
  <2> QED
    BY <2>1, <2>3
<1>5. g[n + 1] = Table!Effect(g[n], more[n + 1])
  <2>1. n + 1 \in 0 .. n + 1 /\ n + 1 # 0 /\ (n + 1) - 1 = n
    BY <1>1
  <2> QED
    BY <1>3, <2>1 DEF After
<1> QED
  BY <1>1, <1>2, <1>3, <1>4, <1>5 DEF more

LEMMA AppliedLocal ==
  ASSUME NEW t \in Tables, NEW u \in Tables, NEW ops \in Seq(Table!Ops), NEW c \in Cookies, t[c] = u[c]
  PROVE  Table!Applied(t, ops)[c] = Table!Applied(u, ops)[c]
<1>1. PICK f : After(f, Len(ops), t, ops) /\ Table!Applied(t, ops) = f[Len(ops)]
  BY AppliedIs
<1>2. PICK g : After(g, Len(ops), u, ops) /\ Table!Applied(u, ops) = g[Len(ops)]
  BY AppliedIs
<1>3. Len(ops) \in Nat /\ Len(ops) <= Len(ops) /\ Len(ops) \in 0 .. Len(ops)
  OBVIOUS
<1>4. \A n \in 0 .. Len(ops) : f[n][c] = g[n][c]
  BY <1>1, <1>2, <1>3, AfterLocal
<1> QED
  BY <1>1, <1>2, <1>3, <1>4

LEMMA AppliedUntouched ==
  ASSUME NEW t \in Tables, NEW ops \in Seq(Table!Ops), NEW c \in Cookies,
         \A i \in DOMAIN ops : ops[i].cookie # c
  PROVE  Table!Applied(t, ops)[c] = t[c]
<1>1. PICK f : After(f, Len(ops), t, ops) /\ Table!Applied(t, ops) = f[Len(ops)]
  BY AppliedIs
<1> QED
  BY <1>1, AfterUntouched

\* Indices of two sequences one after the other.
LEMMA Joined ==
  ASSUME NEW a \in Seq(Table!Ops), NEW b \in Seq(Table!Ops), NEW ab, ab = a \o b
  PROVE  /\ Len(a) \in Nat /\ Len(b) \in Nat /\ Len(ab) = Len(a) + Len(b) /\ ab \in Seq(Table!Ops)
         /\ \A i \in 1 .. Len(a) : ab[i] = a[i]
         /\ \A i \in 1 .. Len(b) : ab[Len(a) + i] = b[i]
<1> DEFINE m == Len(a)
           n == Len(b)
<1>1. /\ Len(ab) = m + n /\ ab \in Seq(Table!Ops)
      /\ \A i \in 1 .. m + n : ab[i] = IF i <= m THEN a[i] ELSE b[i - m]
  BY ConcatProperties
<1>2. m \in Nat /\ n \in Nat
  OBVIOUS
<1>3. \A i \in 1 .. n : m + i \in 1 .. m + n /\ ~(m + i <= m) /\ (m + i) - m = i
  OBVIOUS
<1> QED
  BY <1>1, <1>2, <1>3

\* An operation the monster may ask for when the table is v: it adds what is absent and
\* deletes what is there.
Fits(v, o) == /\ o.op = "add" => v[o.cookie] = Absent
              /\ o.op = "delete" => v[o.cookie] # Absent
Legal(t, ops) ==
  \A f : After(f, Len(ops), t, ops) => \A i \in DOMAIN ops : Fits(f[i - 1], ops[i])

LEMMA LegalNothing ==
  ASSUME NEW t
  PROVE  Legal(t, <<>>)
BY DEF Legal

\* An operation that fits is legal.
LEMMA LegalOne ==
  ASSUME NEW t \in Tables, NEW o \in Table!Ops, Fits(t, o)
  PROVE  Legal(t, <<o>>)
<1>1. Len(<<o>>) = 1 /\ DOMAIN <<o>> = {1} /\ <<o>>[1] = o
  OBVIOUS
<1>2. ASSUME NEW f, After(f, 1, t, <<o>>)
      PROVE  f[0] = t
  <2>1. 0 \in 0 .. 1
    OBVIOUS
  <2> QED
    BY <1>2, <2>1 DEF After
<1> QED
  BY <1>1, <1>2 DEF Legal

\* Two sequences one after the other: the tables are those of the first and then, from where
\* it ends, of the second.
LEMMA TwoParts ==
  ASSUME NEW t, NEW a \in Seq(Table!Ops), NEW b \in Seq(Table!Ops), NEW ab, ab = a \o b
  PROVE  /\ Table!Applied(t, ab) = Table!Applied(Table!Applied(t, a), b)
         /\ Legal(t, ab) <=> Legal(t, a) /\ Legal(Table!Applied(t, a), b)
<1> DEFINE m == Len(a)
           n == Len(b)
           u == Table!Applied(t, a)
<1>0. m \in Nat /\ n \in Nat /\ DOMAIN a = 1 .. m /\ DOMAIN b = 1 .. n
      /\ ab \in Seq(Table!Ops)
  BY ConcatProperties
<1>1. PICK f : After(f, m, t, a) /\ u = f[m]
  BY <1>0, AppliedIs
<1>2. PICK g : After(g, n, u, b) /\ Table!Applied(u, b) = g[n]
  BY <1>0, AppliedIs
<1>3. Len(ab) \in Nat /\ DOMAIN ab = 1 .. Len(ab)
  BY <1>0
<1>4. PICK h : After(h, Len(ab), t, ab) /\ Table!Applied(t, ab) = h[Len(ab)]
  BY <1>3, AppliedIs
<1>5. /\ Len(ab) = m + n
      /\ \A i \in 1 .. m : ab[i] = a[i]
      /\ \A i \in 1 .. n : ab[m + i] = b[i]
  BY Joined
<1> HIDE DEF m, n, u
<1>15. \A i \in 0 .. m : h[i] = f[i]
  <2> DEFINE N == Len(ab)
  <2>1. /\ m \in Nat /\ N \in Nat /\ m <= N /\ SameUpTo(m, a, ab)
        /\ After(f, m, t, a) /\ After(h, N, t, ab)
    BY <1>0, <1>1, <1>3, <1>4, <1>5 DEF SameUpTo
  <2> HIDE DEF N
  <2> QED
    BY ONLY <2>1, AfterAgree
<1>16. \A i \in 0 .. n : h[m + i] = g[i]
  <2> DEFINE k == [i \in 0 .. n |-> h[m + i]]
  <2>1. After(k, n, u, b)
    <3>1. \A j \in 0 .. m + n : h[j] = IF j = 0 THEN t ELSE Table!Effect(h[j - 1], ab[j])
      BY <1>4, <1>5 DEF After
    <3>2. ASSUME NEW i \in 0 .. n
          PROVE  k[i] = IF i = 0 THEN u ELSE Table!Effect(k[i - 1], b[i])
      <4>1. CASE i = 0
        BY <1>0, <1>1, <1>15, <4>1
      <4>2. CASE i # 0
        <5>1. m + i \in 0 .. m + n /\ m + i # 0 /\ i - 1 \in 0 .. n /\ i \in 1 .. n
              /\ (m + i) - 1 = m + (i - 1)
          BY <1>0, <4>2
        <5>2. h[m + i] = Table!Effect(h[m + (i - 1)], ab[m + i]) /\ ab[m + i] = b[i]
          BY <1>5, <3>1, <5>1
        <5> QED
          BY <4>2, <5>1, <5>2
      <4> QED
        BY <4>1, <4>2
    <3>3. k = [i \in 0 .. n |-> k[i]]
      OBVIOUS
    <3> HIDE DEF k
    <3> QED
      BY <3>2, <3>3 DEF After
  <2>2. n \in Nat /\ n <= n /\ SameUpTo(n, b, b)
    BY <1>0 DEF SameUpTo
  <2>3. \A i \in 0 .. n : k[i] = g[i]
    <3> HIDE DEF k
    <3> QED
      BY ONLY <1>2, <2>1, <2>2, AfterAgree
  <2> QED
    BY <2>3
<1>6. /\ \A e : After(e, m, t, a) => e = f
      /\ \A e : After(e, n, u, b) => e = g
      /\ \A e : After(e, Len(ab), t, ab) => e = h
  <2>1. ASSUME NEW s, NEW ops, NEW N \in Nat, NEW x, NEW y, After(x, N, s, ops), After(y, N, s, ops)
        PROVE  x = y
    <3>1. N <= N /\ SameUpTo(N, ops, ops)
      BY DEF SameUpTo
    <3>2. \A i \in 0 .. N : x[i] = y[i]
      BY ONLY <2>1, <3>1, AfterAgree
    <3>3. x = [i \in 0 .. N |-> x[i]] /\ y = [i \in 0 .. N |-> y[i]]
      BY <2>1 DEF After
    <3> QED
      BY <3>2, <3>3
  <2> QED
    BY <1>0, <1>1, <1>2, <1>3, <1>4, <2>1
<1>7. Legal(t, a) <=> \A i \in 1 .. m : Fits(f[i - 1], a[i])
  BY <1>0, <1>1, <1>6 DEF Legal, m
<1>8. Legal(u, b) <=> \A i \in 1 .. n : Fits(g[i - 1], b[i])
  BY <1>0, <1>2, <1>6 DEF Legal, n
<1>9. Legal(t, ab) <=> \A i \in 1 .. m + n : Fits(h[i - 1], ab[i])
  BY <1>3, <1>4, <1>5, <1>6 DEF Legal
<1>10. \A i \in 1 .. m : i \in 1 .. m + n /\ h[i - 1] = f[i - 1] /\ ab[i] = a[i]
  <2>1. \A i \in 1 .. m : i \in 1 .. m + n /\ i - 1 \in 0 .. m
    BY <1>0
  <2> QED
    BY <1>5, <1>15, <2>1
<1>11. \A i \in 1 .. n : m + i \in 1 .. m + n /\ h[(m + i) - 1] = g[i - 1] /\ ab[m + i] = b[i]
  <2>1. \A i \in 1 .. n : m + i \in 1 .. m + n /\ i - 1 \in 0 .. n /\ (m + i) - 1 = m + (i - 1)
    BY <1>0
  <2> QED
    BY <1>5, <1>16, <2>1
<1>12. ASSUME NEW i \in 1 .. m + n, \A j \in 1 .. m : Fits(f[j - 1], a[j]),
              \A j \in 1 .. n : Fits(g[j - 1], b[j])
       PROVE  Fits(h[i - 1], ab[i])
  <2>1. i \in 1 .. m \/ (i - m \in 1 .. n /\ m + (i - m) = i)
    BY <1>0
  <2>2. CASE i \in 1 .. m
    BY <1>10, <1>12, <2>2
  <2>3. CASE i - m \in 1 .. n /\ m + (i - m) = i
    <3> DEFINE j == i - m
    <3>1. j \in 1 .. n /\ m + j = i
      BY <2>3
    <3> HIDE DEF j
    <3>2. h[(m + j) - 1] = g[j - 1] /\ ab[m + j] = b[j] /\ Fits(g[j - 1], b[j])
      BY <1>11, <1>12, <3>1
    <3> QED
      BY <3>1, <3>2
  <2> QED
    BY <2>1, <2>2, <2>3
<1>13. ASSUME \A i \in 1 .. m + n : Fits(h[i - 1], ab[i])
       PROVE  /\ \A j \in 1 .. m : Fits(f[j - 1], a[j])
              /\ \A j \in 1 .. n : Fits(g[j - 1], b[j])
  <2>1. ASSUME NEW j \in 1 .. m PROVE Fits(f[j - 1], a[j])
    <3>1. j \in 1 .. m + n /\ h[j - 1] = f[j - 1] /\ ab[j] = a[j]
      BY <1>10
    <3>2. Fits(h[j - 1], ab[j])
      BY <1>13, <3>1
    <3> QED
      BY <3>1, <3>2
  <2>2. ASSUME NEW j \in 1 .. n PROVE Fits(g[j - 1], b[j])
    <3>1. m + j \in 1 .. m + n /\ h[(m + j) - 1] = g[j - 1] /\ ab[m + j] = b[j]
      BY <1>11
    <3>2. Fits(h[(m + j) - 1], ab[m + j])
      BY <1>13, <3>1
    <3> QED
      BY <3>1, <3>2
  <2> QED
    BY <2>1, <2>2
<1>14. Legal(t, ab) <=> Legal(t, a) /\ Legal(u, b)
  BY <1>7, <1>8, <1>9, <1>12, <1>13
<1>17. Table!Applied(t, ab) = Table!Applied(u, b)
  BY <1>0, <1>2, <1>4, <1>5, <1>16
<1> QED
  BY <1>14, <1>17 DEF u

LEMMA AppliedConcat ==
  ASSUME NEW t, NEW a \in Seq(Table!Ops), NEW b \in Seq(Table!Ops)
  PROVE  Table!Applied(t, a \o b) = Table!Applied(Table!Applied(t, a), b)
BY TwoParts

(**************************************************************************)
(* What the steps do, field by field.                                      *)
(**************************************************************************)
ReadCookies == {p[1] : p \in backend.loaded}

DataTyped ==
  /\ table \in Tables /\ monster.view \in Tables
  /\ backend.numPending = Len(backend.pending)
  /\ backend.keysToLoad \subseteq Keys
  /\ backend.loaded \subseteq Cookies \X Times
  /\ backend.perOrigin \in [Keys -> Int]
  /\ errors \in 0 .. MaxErrors /\ sessions \in 1 .. MaxSessions

SameQueues == UNCHANGED <<backend.pending, backend.numPending, backend.batch>>
SameLoads == UNCHANGED <<backend.keysToLoad, backend.loaded, backend.perOrigin>>
SameView == UNCHANGED <<monster.ready, monster.handed, monster.view, monster.issued>>

\* What the steps do, field by field.
LEMMA PostsDo ==
  ASSUME IInv,
         \/ Load \/ Flush \/ \E keep \in BOOLEAN : Close(keep)
         \/ \E k \in Keys : LoadCookiesForKey(k)
         \/ TimerFires
  PROVE  /\ SameQueues /\ SameLoads /\ SameView
         /\ UNCHANGED <<table, version, errors, sessions, backend.open, backend.initialized,
                        backend.step, loops.io>>
<1>1. UNCHANGED <<table, version, errors, sessions>>
  BY DEF Load, Flush, Close, LoadCookiesForKey, TimerFires
<1>2. \/ backend' = backend
      \/ \E keep \in BOOLEAN : backend' = [backend EXCEPT !.forceKeep = keep]
  BY DEF Load, Flush, Close, LoadCookiesForKey, TimerFires
<1>3. /\ SameQueues /\ SameLoads
      /\ UNCHANGED <<backend.open, backend.initialized, backend.step>>
  BY <1>2 DEF SameQueues, SameLoads, IInv, Typed, Records, BackendFields
<1>4. SameView
  <2> USE DEF SameView, IInv, Typed, Records, MonsterFields
  <2>1. CASE Load
    BY <2>1 DEF Load
  <2>2. CASE Flush
    BY <2>2 DEF Flush
  <2>3. CASE \E keep \in BOOLEAN : Close(keep)
    BY <2>3 DEF Close
  <2>4. CASE \E k \in Keys : LoadCookiesForKey(k)
    BY <2>4 DEF LoadCookiesForKey
  <2>5. CASE TimerFires
    BY <2>5 DEF TimerFires
  <2> QED
    BY <2>1, <2>2, <2>3, <2>4, <2>5
<1>5. UNCHANGED loops.io
  <2> USE DEF IInv, Typed, Records, LoopFields, PostDB
  <2>1. CASE Load
    BY <2>1 DEF Load
  <2>2. CASE Flush
    BY <2>2 DEF Flush
  <2>3. CASE \E keep \in BOOLEAN : Close(keep)
    BY <2>3 DEF Close
  <2>4. CASE \E k \in Keys : LoadCookiesForKey(k)
    BY <2>4 DEF LoadCookiesForKey
  <2>5. CASE TimerFires
    BY <2>5 DEF TimerFires
  <2> QED
    BY <2>1, <2>2, <2>3, <2>4, <2>5
<1> QED
  BY <1>1, <1>3, <1>4, <1>5

LEMMA SubmitDoes ==
  ASSUME IInv, NEW o \in Operations, BatchOperation(o)
  PROVE  /\ backend.pending' = Append(backend.pending, o)
         /\ backend.numPending' = backend.numPending + 1
         /\ SameLoads
         /\ monster.view' = Table!Effect(monster.view, o)
         /\ monster.issued' = monster.issued + 1
         /\ monster.handed' = monster.handed \cup {o.cookie}
         /\ UNCHANGED <<table, version, errors, sessions, backend.open, backend.initialized,
                        backend.step, backend.batch, monster.ready, loops.io>>
<1>1. /\ backend' = [backend EXCEPT !.pending = Append(@, o), !.numPending = backend.numPending + 1]
      /\ monster' = [monster EXCEPT !.view = Table!Effect(@, o), !.issued = @ + 1,
                                    !.handed = @ \cup {o.cookie}]
      /\ UNCHANGED <<table, version, errors, sessions>>
  BY Zenon DEF BatchOperation
<1>2. /\ backend.pending' = Append(backend.pending, o)
      /\ backend.numPending' = backend.numPending + 1
      /\ SameLoads
      /\ UNCHANGED <<backend.open, backend.initialized, backend.step, backend.batch>>
  BY <1>1 DEF SameLoads, IInv, Typed, Records, BackendFields
<1>3. /\ monster.view' = Table!Effect(monster.view, o)
      /\ monster.issued' = monster.issued + 1
      /\ monster.handed' = monster.handed \cup {o.cookie}
      /\ UNCHANGED monster.ready
  BY <1>1 DEF IInv, Typed, Records, MonsterFields
<1>4. UNCHANGED loops.io
  <2>1. \E t, d : loops' = [loops EXCEPT !.timers = t, !.db = d]
    BY DEF BatchOperation
  <2> QED
    BY <2>1 DEF IInv, Typed, Records, LoopFields
<1> QED
  BY <1>1, <1>2, <1>3, <1>4

LEMMA AnswerDoes ==
  ASSUME IInv, CompleteLoadOnIOThread
  PROVE  /\ loops.io # <<>> /\ loops.io' = Tail(loops.io) /\ loops.db' = loops.db
         /\ backend.loaded' = {}
         /\ SameQueues
         /\ monster.handed' = monster.handed \cup ReadCookies
         /\ monster.ready' = IF Head(loops.io).task = "load" THEN Keys
                             ELSE monster.ready \cup {Head(loops.io).key}
         /\ monster.view' = [c \in Cookies |->
              IF c \in ReadCookies THEN (CHOOSE p \in backend.loaded : p[1] = c)[2]
                                   ELSE monster.view[c]]
         /\ UNCHANGED <<table, version, errors, sessions, backend.open, backend.initialized,
                        backend.step, backend.keysToLoad, backend.perOrigin,
                        monster.issued, monster.gone>>
<1>1. /\ loops.io # <<>>
      /\ loops' = [loops EXCEPT !.io = Tail(@)]
      /\ backend' = [backend EXCEPT !.loaded = {}]
      /\ UNCHANGED <<table, version, errors, sessions>>
  BY DEF CompleteLoadOnIOThread
<1> DEFINE view == [c \in Cookies |->
              IF c \in ReadCookies THEN (CHOOSE p \in backend.loaded : p[1] = c)[2]
                                   ELSE monster.view[c]]
           ready == IF Head(loops.io).task = "load" THEN Keys
                             ELSE monster.ready \cup {Head(loops.io).key}
           answered == monster.answered \/ Head(loops.io).task = "load"
<1>2. monster' = [monster EXCEPT !.answered = answered, !.ready = ready,
                      !.handed = monster.handed \cup ReadCookies, !.view = view]
  BY DEF CompleteLoadOnIOThread, ReadCookies
<1> HIDE DEF view, ready, answered
<1>3. /\ monster.view' = view /\ monster.ready' = ready
      /\ monster.handed' = monster.handed \cup ReadCookies
      /\ UNCHANGED <<monster.issued, monster.gone>>
  BY <1>2 DEF IInv, Typed, Records, MonsterFields
<1>4. loops.io' = Tail(loops.io) /\ loops.db' = loops.db
  BY <1>1 DEF IInv, Typed, Records, LoopFields
<1>5. /\ backend.loaded' = {} /\ SameQueues
      /\ UNCHANGED <<backend.open, backend.initialized, backend.step, backend.keysToLoad, backend.perOrigin>>
  BY <1>1 DEF SameQueues, IInv, Typed, Records, BackendFields
<1> QED
  BY <1>1, <1>3, <1>4, <1>5 DEF view, ready

LEMMA OpeningDoes ==
  ASSUME IInv, OpenDatabase \/ InitializeFails \/ DatabaseTooNew \/ EnsureDatabaseVersion
  PROVE  /\ SameQueues /\ SameLoads /\ SameView
         /\ table' \in {table, NoRows}
         /\ errors' = errors \/ (errors' = errors + 1 /\ errors < MaxErrors)
         /\ errors' = errors => backend.open' \/ backend.step = "upgrade"
         /\ loops.db # <<>> /\ Head(loops.db).task \in {"load", "loadKey"}
         /\ backend.step = "upgrade" \/ (backend.step = "start" /\ ~backend.initialized)
         /\ backend.step' \in {"start", "upgrade"}
         /\ backend.step' = "upgrade" => ~backend.initialized \/ backend.step = "upgrade"
         /\ UNCHANGED <<sessions, backend.initialized, monster>>
<1> USE DEF SameQueues, SameLoads, SameView
<1>1. CASE OpenDatabase
  <2>1. /\ loops.db # <<>> /\ Head(loops.db).task \in {"load", "loadKey"} /\ backend.step = "start"
        /\ ~backend.initialized
        /\ backend' = [backend EXCEPT !.open = TRUE, !.step = "upgrade"]
        /\ UNCHANGED <<table, version, loops, monster, errors, sessions>>
    BY <1>1, LoadingTask DEF OpenDatabase, MayInitialize
  <2>2. /\ SameQueues /\ SameLoads /\ backend.open' /\ backend.step' = "upgrade"
        /\ UNCHANGED backend.initialized
    BY <2>1 DEF IInv, Typed, Records, BackendFields
  <2> QED
    BY <2>1, <2>2
<1>2. CASE InitializeFails
  <2>1. PICK catastrophic \in BOOLEAN :
        /\ Error(catastrophic)
        /\ table' \in {table} \cup (IF catastrophic THEN {NoRows} ELSE {})
        /\ backend' = [backend EXCEPT !.open = FALSE, !.step = "start", !.openFailed = TRUE,
                                      !.corruption = @ \/ catastrophic]
    BY <1>2 DEF InitializeFails
  <2>2. /\ SameQueues /\ SameLoads /\ backend.step' = "start" /\ UNCHANGED backend.initialized
    BY <2>1 DEF IInv, Typed, Records, BackendFields
  <2>3. /\ errors' = errors + 1 /\ errors < MaxErrors /\ table' \in {table, NoRows}
        /\ errors' # errors
    BY <2>1 DEF Error, IInv, Typed
  <2>4. /\ loops.db # <<>> /\ Head(loops.db).task \in {"load", "loadKey"}
        /\ backend.step = "upgrade" \/ (backend.step = "start" /\ ~backend.initialized)
        /\ UNCHANGED <<monster, sessions>>
    BY <1>2, LoadingTask DEF InitializeFails, MayInitialize
  <2> QED
    BY <2>2, <2>3, <2>4
<1>3. CASE DatabaseTooNew
  <2>1. /\ loops.db # <<>> /\ Head(loops.db).task \in {"load", "loadKey"} /\ backend.step = "upgrade"
        /\ backend' = [backend EXCEPT !.open = FALSE, !.step = "start", !.openFailed = TRUE]
        /\ UNCHANGED <<table, version, monster, errors, sessions>>
    BY <1>3, LoadingTask DEF DatabaseTooNew
  <2>2. /\ SameQueues /\ SameLoads /\ backend.step' = "start" /\ UNCHANGED backend.initialized
    BY <2>1 DEF IInv, Typed, Records, BackendFields
  <2> QED
    BY <2>1, <2>2
<1>4. CASE EnsureDatabaseVersion
  <2>1. /\ loops.db # <<>> /\ Head(loops.db).task \in {"load", "loadKey"} /\ backend.step = "upgrade"
        /\ table' \in {table, NoRows}
        /\ UNCHANGED <<backend, loops, monster, errors, sessions>>
    BY <1>4, LoadingTask DEF EnsureDatabaseVersion
  <2> QED
    BY <2>1
<1> QED
  BY <1>1, <1>2, <1>3, <1>4

\* The rows of key k have been read, all of them unless SQLite failed.
RowsRead(k, rows) ==
  /\ rows \subseteq Rows(k)
  /\ backend.keysToLoad' = backend.keysToLoad \ {k}
  /\ backend.loaded' = backend.loaded \cup rows
  /\ backend.perOrigin' = [backend.perOrigin EXCEPT ![k] = @ + Cardinality(rows)]
  /\ errors' = errors \/ (errors' = errors + 1 /\ errors < MaxErrors)
  /\ errors' = errors => backend.open' /\ rows = Rows(k)
  /\ SameQueues /\ UNCHANGED <<backend.initialized, backend.step>>

\* The session cookies are deleted.
OnlyPersistent == [c \in Cookies |-> IF Persists(c) THEN table[c] ELSE Absent]

LEMMA ReadingDoes ==
  ASSUME IInv, ReadKeys
  PROVE  /\ loops.db # <<>> /\ Head(loops.db).task \in {"load", "loadKey"}
         /\ backend.step = "upgrade" /\ backend.step' = "start" /\ backend.initialized'
         /\ version = CurrentVersion
         /\ backend.open' = backend.open
         /\ backend.keysToLoad' \subseteq {KeyOf(c) : c \in {d \in Cookies : table[d] # Absent}}
         /\ errors' = errors => backend.keysToLoad'
                                  = {KeyOf(c) : c \in {d \in Cookies : table[d] # Absent}}
         /\ errors' = errors \/ (errors' = errors + 1 /\ errors < MaxErrors)
         /\ SameQueues
         /\ UNCHANGED <<table, version, monster, sessions, backend.loaded, backend.perOrigin, loops.io>>
<1> DEFINE all == {KeyOf(c) : c \in {d \in Cookies : table[d] # Absent}}
           Initialized(ks, corrupt) == backend' = [backend EXCEPT
               !.keysToLoad = ks, !.initialized = TRUE, !.step = "start",
               !.corruption = @ \/ corrupt]
<1>1. /\ loops.db # <<>> /\ Head(loops.db).task \in {"load", "loadKey"}
      /\ backend.step = "upgrade"
      /\ version = CurrentVersion
      /\ UNCHANGED <<table, version, monster, sessions>>
  BY LoadingTask DEF ReadKeys
<1>2. \/ Initialized(all, FALSE) /\ UNCHANGED <<loops, errors>>
      \/ \E ks \in SUBSET all, catastrophic \in BOOLEAN :
           /\ Error(catastrophic)
           /\ Initialized(ks, catastrophic)
           /\ loops' = [loops EXCEPT !.db = @ \o Kill(catastrophic)]
  BY Zenon DEF ReadKeys
<1> HIDE DEF all
<1>3. PICK ks \in SUBSET all, corrupt \in BOOLEAN :
        /\ Initialized(ks, corrupt)
        /\ \/ ks = all /\ UNCHANGED <<loops, errors>>
           \/ Error(corrupt) /\ loops' = [loops EXCEPT !.db = @ \o Kill(corrupt)]
  BY <1>2
<1>4. /\ backend.step' = "start" /\ backend.initialized' /\ backend.keysToLoad' = ks
      /\ UNCHANGED <<backend.open, backend.loaded, backend.perOrigin>> /\ SameQueues
  BY <1>3 DEF SameQueues, IInv, Typed, Records, BackendFields
<1>5. UNCHANGED loops.io
  BY <1>3 DEF IInv, Typed, Records, LoopFields
<1>6. \/ errors' = errors /\ ks = all
      \/ errors' = errors + 1 /\ errors < MaxErrors /\ errors' # errors
  BY <1>3 DEF Error, IInv, Typed
<1> QED
  BY <1>1, <1>4, <1>5, <1>6 DEF all

\* LoadCookiesForDomains reads the rows of its key, or fewer after an error.
LEMMA DomainDoes ==
  ASSUME IInv, NEW k \in backend.keysToLoad, NEW success \in BOOLEAN, NEW error \in Failures,
         LoadCookiesForDomains(k, success, error)
  PROVE  /\ \E rows : RowsRead(k, rows)
         /\ backend.open' = success
<1>1. PICK rows \in SUBSET Rows(k) :
       /\ IF success THEN error = "none" => rows = Rows(k) ELSE rows = {}
       /\ backend' = [backend EXCEPT
            !.keysToLoad = @ \ {k}, !.loaded = @ \cup rows, !.open = success,
            !.perOrigin[k] = @ + Cardinality(rows), !.corruption = @ \/ error = "catastrophic"]
  BY DEF LoadCookiesForDomains
<1>2. \/ errors' = errors /\ success /\ rows = Rows(k)
      \/ errors' = errors + 1 /\ errors < MaxErrors /\ errors' # errors
  BY <1>1 DEF LoadCookiesForDomains, Error, IInv, Typed
<1>3. /\ backend.keysToLoad' = backend.keysToLoad \ {k}
      /\ backend.loaded' = backend.loaded \cup rows
      /\ backend.open' = success
      /\ SameQueues /\ UNCHANGED <<backend.initialized, backend.step>>
  BY <1>1 DEF SameQueues, IInv, Typed, Records, BackendFields
<1>4. backend.perOrigin' = [backend.perOrigin EXCEPT ![k] = @ + Cardinality(rows)]
  BY <1>1 DEF IInv, Typed, Records, BackendFields
<1> QED
  BY <1>1, <1>2, <1>3, <1>4 DEF RowsRead

\* What an answer says, as long as the database is open.
Answers(t) == backend.open' => IF t.task = "load" THEN backend.keysToLoad' = {}
                                                  ELSE t.key \notin backend.keysToLoad'

LEMMA EndsPlain ==
  ASSUME IInv, NEW more, Ends(more, <<>>) \/ loops' = [loops EXCEPT !.db = more]
  PROVE  UNCHANGED loops.io
<1>1. loops.io \in Seq(Tasks) /\ loops.io \o <<>> = loops.io
  BY DEF IInv, Typed
<1>2. CASE Ends(more, <<>>)
  <2>1. loops.io' = loops.io \o <<>>
    BY <1>2 DEF Ends, IInv, Typed, Records, LoopFields
  <2> QED
    BY <1>1, <2>1
<1>3. CASE loops' = [loops EXCEPT !.db = more]
  BY <1>3 DEF IInv, Typed, Records, LoopFields
<1> QED
  BY <1>2, <1>3

LEMMA LoadingDoes ==
  ASSUME IInv, LoadKey \/ ChainLoadCookies
  PROVE  /\ \/ UNCHANGED <<backend, errors>>
            \/ backend.open /\ \E k \in backend.keysToLoad : \E rows : RowsRead(k, rows)
         /\ \/ table' = table
            \/ backend.open /\ backend.open' /\ backend.keysToLoad' = {} /\ table' = OnlyPersistent
         /\ \/ loops.io' = loops.io
            \/ \E t \in Tasks : loops.io' = loops.io \o <<t>> /\ Answers(t)
         /\ backend.step = "start" /\ backend.step' = "start"
         /\ loops.db # <<>> /\ Head(loops.db).task \in {"load", "loadKey", "chain"}
         /\ UNCHANGED <<version, monster, sessions>>
<1>1. /\ loops.db # <<>> /\ Head(loops.db).task \in {"load", "loadKey", "chain"}
      /\ backend.step = "start"
      /\ UNCHANGED <<version, monster, sessions>>
  BY DEF LoadKey, ChainLoadCookies, At
<1>2. /\ loops.db \in Seq(Tasks) /\ loops.io \in Seq(Tasks) /\ Head(loops.db) \in Tasks
      /\ Plain("load") \in Tasks /\ Plain("load").task = "load"
  <2>1. loops.db \in Seq(Tasks) /\ loops.io \in Seq(Tasks)
    BY DEF IInv, Typed
  <2>2. Head(loops.db) \in Tasks
    BY <1>1, <2>1
  <2>3. Plain("load") \in Tasks /\ Plain("load").task = "load"
    BY DEF Plain, Task, Tasks, TaskNames
  <2> QED
    BY <2>1, <2>2, <2>3
<1>3. ASSUME NEW more, NEW io, Ends(more, io)
      PROVE  loops.io' = loops.io \o io
  BY <1>3 DEF Ends, IInv, Typed, Records, LoopFields
<1>4. loops.io \o <<>> = loops.io
  BY <1>2
<1>5. CASE LoadKey
  <2>1. Head(loops.db).task = "loadKey" /\ Answer = <<Head(loops.db)>> /\ UNCHANGED table
    BY <1>5 DEF LoadKey, At, Answer
  <2>2. CASE backend.open /\ Head(loops.db).key \in backend.keysToLoad
    <3>1. PICK success \in BOOLEAN, error \in Failures :
              /\ LoadCookiesForDomains(Head(loops.db).key, success, error)
              /\ Ends(Kill(error = "catastrophic"), Answer)
      BY <1>5, <2>2 DEF LoadKey
    <3>2. PICK rows : RowsRead(Head(loops.db).key, rows)
      BY <2>2, <3>1, DomainDoes
    <3>3. loops.io' = loops.io \o <<Head(loops.db)>> /\ Answers(Head(loops.db))
      BY <1>3, <2>1, <3>1, <3>2 DEF RowsRead, Answers
    <3>4. backend.step' = "start"
      BY <1>1, <3>2 DEF RowsRead
    <3> QED
      BY <1>1, <1>2, <2>1, <2>2, <3>2, <3>3, <3>4
  <2>3. CASE ~(backend.open /\ Head(loops.db).key \in backend.keysToLoad)
    <3>1. Ends(<<>>, Answer) /\ UNCHANGED <<backend, errors>>
      BY <1>5, <2>3 DEF LoadKey
    <3>2. loops.io' = loops.io \o <<Head(loops.db)>> /\ Answers(Head(loops.db))
      BY <1>3, <2>1, <2>3, <3>1 DEF Answers
    <3> QED
      BY <1>1, <1>2, <2>1, <3>1, <3>2
  <2> QED
    BY <2>2, <2>3
<1>6. CASE ChainLoadCookies
  <2> DEFINE Finish == Ends(<<>>, Answer)
             Deletes == table' = OnlyPersistent
  <2>1. Head(loops.db).task \in {"load", "chain"} /\ Answer = <<Plain("load")>>
    BY <1>6 DEF ChainLoadCookies, At, Answer
  <2>2. \/ ~backend.open /\ Finish /\ UNCHANGED <<table, backend, errors>>
        \/ backend.open /\ backend.keysToLoad = {} /\ Finish /\ Deletes /\ UNCHANGED <<backend, errors>>
        \/ /\ backend.open
           /\ \E k \in backend.keysToLoad, success \in BOOLEAN, error \in Failures :
                /\ LoadCookiesForDomains(k, success, error)
                /\ IF success /\ backend.keysToLoad # {k}
                     THEN Ends(Kill(error = "catastrophic") \o <<Plain("chain")>>, <<>>) /\ UNCHANGED table
                     ELSE /\ Ends(Kill(error = "catastrophic"), Answer)
                          /\ IF success THEN Deletes ELSE UNCHANGED table
    BY <1>6, Zenon DEF ChainLoadCookies, OnlyPersistent
  <2>3. CASE ~backend.open /\ Finish /\ UNCHANGED <<table, backend, errors>>
    <3>1. loops.io' = loops.io \o <<Plain("load")>> /\ Answers(Plain("load"))
      BY <1>3, <2>1, <2>3 DEF Answers
    <3> QED
      BY <1>1, <1>2, <2>3, <3>1
  <2>4. CASE backend.open /\ backend.keysToLoad = {} /\ Finish /\ Deletes /\ UNCHANGED <<backend, errors>>
    <3>1. loops.io' = loops.io \o <<Plain("load")>> /\ Answers(Plain("load"))
      BY <1>3, <2>1, <2>4 DEF Answers
    <3> QED
      BY <1>1, <1>2, <2>4, <3>1
  <2>5. ASSUME backend.open,
               NEW k \in backend.keysToLoad, NEW success \in BOOLEAN, NEW error \in Failures,
               LoadCookiesForDomains(k, success, error),
               IF success /\ backend.keysToLoad # {k}
                     THEN Ends(Kill(error = "catastrophic") \o <<Plain("chain")>>, <<>>) /\ UNCHANGED table
                     ELSE /\ Ends(Kill(error = "catastrophic"), Answer)
                          /\ IF success THEN Deletes ELSE UNCHANGED table
        PROVE  /\ backend.open /\ \E j \in backend.keysToLoad : \E rows : RowsRead(j, rows)
               /\ backend.step' = "start"
               /\ \/ table' = table
                  \/ backend.open' /\ backend.keysToLoad' = {} /\ Deletes
               /\ \/ loops.io' = loops.io
                  \/ loops.io' = loops.io \o <<Plain("load")>> /\ Answers(Plain("load"))
    <3>1. PICK rows : RowsRead(k, rows)
      BY <2>5, DomainDoes
    <3>2. backend.open' = success
      BY <2>5, DomainDoes
    <3>3. backend.step' = "start" /\ backend.keysToLoad' = backend.keysToLoad \ {k}
      BY <1>1, <3>1 DEF RowsRead
    <3>4. CASE success /\ backend.keysToLoad # {k}
      <4>1. loops.io' = loops.io \o <<>> /\ UNCHANGED table
        BY <1>3, <2>5, <3>4
      <4> QED
        BY <1>4, <2>5, <3>1, <3>3, <4>1
    <3>5. CASE ~(success /\ backend.keysToLoad # {k})
      <4>1. loops.io' = loops.io \o <<Plain("load")>> /\ (IF success THEN Deletes ELSE UNCHANGED table)
        BY <1>3, <2>1, <2>5, <3>5
      <4>2. success => backend.keysToLoad' = {}
        BY <3>3, <3>5
      <4>3. Answers(Plain("load"))
        BY <1>2, <3>2, <4>2 DEF Answers
      <4>4. \/ table' = table
            \/ backend.open' /\ backend.keysToLoad' = {} /\ Deletes
        BY <3>2, <4>1, <4>2
      <4> QED
        BY <2>5, <3>1, <3>3, <4>1, <4>3, <4>4
    <3> QED
      BY <3>4, <3>5
  <2>6. CASE /\ backend.open
             /\ \E k \in backend.keysToLoad, success \in BOOLEAN, error \in Failures :
                /\ LoadCookiesForDomains(k, success, error)
                /\ IF success /\ backend.keysToLoad # {k}
                     THEN Ends(Kill(error = "catastrophic") \o <<Plain("chain")>>, <<>>) /\ UNCHANGED table
                     ELSE /\ Ends(Kill(error = "catastrophic"), Answer)
                          /\ IF success THEN Deletes ELSE UNCHANGED table
    BY <1>1, <1>2, <2>5, <2>6
  <2> QED
    BY <2>2, <2>3, <2>4, <2>6
<1> QED
  BY <1>5, <1>6

LEMMA CommitDoes ==
  ASSUME IInv, Commit
  PROVE  /\ backend.step = "start" /\ backend.batch = <<>>
         /\ loops.db # <<>> /\ Head(loops.db).task \in {"commit", "close"}
         /\ backend.pending' = <<>> /\ backend.numPending' = 0
         /\ IF backend.open /\ backend.pending # <<>>
              THEN backend.batch' = backend.pending /\ backend.step' = "write"
              ELSE backend.batch' = <<>> /\ backend.step' \in {"start", "close"}
         /\ SameLoads
         /\ UNCHANGED <<table, version, monster, errors, sessions, backend.open,
                        backend.initialized, loops.io>>
<1> DEFINE writes == backend.open /\ backend.pending # <<>>
           after == IF At("close", "start") THEN "close" ELSE "start"
<1>1. /\ loops.db # <<>> /\ Head(loops.db).task \in {"commit", "close"}
      /\ backend.step = "start" /\ backend.batch = <<>>
      /\ UNCHANGED <<table, version, monster, errors, sessions>>
      /\ after \in {"start", "close"}
  BY DEF Commit, At, IInv, Batches
<1>2. backend' = [backend EXCEPT
             !.batch = IF writes THEN backend.pending ELSE <<>>,
             !.pending = <<>>, !.numPending = 0,
             !.step = IF writes THEN "write" ELSE after]
  BY Zenon DEF Commit
<1>3. UNCHANGED loops \/ Ends(<<>>, <<>>)
  BY DEF Commit
<1>4. UNCHANGED loops.io
  <2>1. CASE UNCHANGED loops
    BY <2>1
  <2>2. CASE Ends(<<>>, <<>>)
    BY <2>2, EndsPlain
  <2> QED
    BY <1>3, <2>1, <2>2
<1> HIDE DEF writes, after
<1>5. /\ backend.batch' = (IF writes THEN backend.pending ELSE <<>>)
      /\ backend.pending' = <<>> /\ backend.numPending' = 0
      /\ backend.step' = (IF writes THEN "write" ELSE after)
      /\ SameLoads /\ UNCHANGED <<backend.open, backend.initialized>>
  BY <1>2 DEF SameLoads, IInv, Typed, Records, BackendFields
<1> QED
  BY <1>1, <1>4, <1>5 DEF writes

LEMMA WriteDoes ==
  ASSUME IInv, WriteBatch
  PROVE  /\ backend.step = "write" /\ backend.step' \in {"start", "close"} /\ backend.batch' = <<>>
         /\ loops.db # <<>> /\ Head(loops.db).task \in {"commit", "close"}
         /\ \/ /\ table' = Table!Applied(table, backend.batch)
               /\ backend.perOrigin' = Counted(backend.batch)
               /\ errors' = errors
            \/ /\ \/ table' = table
                  \/ \E failed : table' = Table!Applied(table, Table!Without(backend.batch, failed))
               /\ backend.perOrigin' \in {backend.perOrigin, Counted(backend.batch)}
               /\ errors' = errors + 1 /\ errors < MaxErrors
         /\ UNCHANGED <<version, monster, sessions, backend.open, backend.initialized, backend.pending,
                        backend.numPending, backend.keysToLoad, backend.loaded, loops.io>>
<1> DEFINE closing == At("close", "write")
<1>1. /\ loops.db # <<>> /\ Head(loops.db).task \in {"commit", "close"}
      /\ backend.step = "write"
      /\ UNCHANGED <<version, monster, sessions>>
  BY DEF WriteBatch, At
<1>2. PICK corrupt, counts :
        /\ backend' = [backend EXCEPT
             !.batch = <<>>, !.perOrigin = counts, !.corruption = @ \/ corrupt,
             !.step = IF closing THEN "close" ELSE "start"]
        /\ \/ /\ table' = Table!Applied(table, backend.batch)
              /\ counts = Counted(backend.batch)
              /\ UNCHANGED errors
           \/ /\ Error(corrupt)
              /\ counts \in {backend.perOrigin, Counted(backend.batch)}
              /\ \/ table' = table
                 \/ \E failed : table' = Table!Applied(table, Table!Without(backend.batch, failed))
  BY WriteCases, Zenon
<1>3. \E more : loops' = [loops EXCEPT !.db = @ \o more] \/ Ends(more, <<>>)
  BY WriteCases, Zenon
<1>4. UNCHANGED loops.io
  BY <1>3, EndsPlain
<1> HIDE DEF closing
<1>5. /\ backend.batch' = <<>> /\ backend.perOrigin' = counts
      /\ backend.step' = (IF closing THEN "close" ELSE "start")
      /\ UNCHANGED <<backend.open, backend.initialized, backend.pending,
                     backend.numPending, backend.keysToLoad, backend.loaded>>
  BY <1>2 DEF IInv, Typed, Records, BackendFields
<1> QED
  BY <1>1, <1>2, <1>4, <1>5, Zenon DEF Error

LEMMA EndingDoes ==
  ASSUME IInv, CloseDatabase \/ KillDatabase \/ RunClosure
  PROVE  /\ SameQueues /\ SameLoads /\ backend.batch = <<>>
         /\ loops.db # <<>> /\ Head(loops.db).task \in {"close", "kill", "closure"}
         /\ table' = table \/ table' = [c \in Cookies |-> table'[c]]
         /\ \A c \in Cookies : table'[c] \in {table[c], Absent}
         /\ errors' = errors \/ (errors' = errors + 1 /\ errors < MaxErrors)
         /\ backend.step \in {"start", "close"} /\ backend.step' = "start"
         /\ RunClosure \/ ~backend.open'
         /\ UNCHANGED <<version, monster, sessions, backend.initialized, loops.io>>
<1>1. CASE CloseDatabase
  <2>1. /\ loops.db # <<>> /\ Head(loops.db).task = "close" /\ backend.step = "close"
        /\ backend' = [backend EXCEPT !.open = FALSE, !.step = "start"] /\ Ends(<<>>, <<>>)
        /\ UNCHANGED <<version, monster, sessions>>
        /\ errors' = errors \/ (errors' = errors + 1 /\ errors < MaxErrors)
        /\ backend.batch = <<>>
    BY <1>1 DEF CloseDatabase, At, Error, IInv, Batches
  <2>2. /\ SameQueues /\ SameLoads /\ backend.step' = "start" /\ ~backend.open'
        /\ UNCHANGED backend.initialized
    BY <2>1 DEF SameQueues, SameLoads, IInv, Typed, Records, BackendFields
  <2>3. /\ table' = table \/ table' = [c \in Cookies |-> table'[c]]
        /\ \A c \in Cookies : table'[c] \in {table[c], Absent}
    BY <1>1 DEF CloseDatabase
  <2> QED
    BY <2>1, <2>2, <2>3, EndsPlain
<1>2. CASE KillDatabase
  <2>1. /\ loops.db # <<>> /\ Head(loops.db).task = "kill" /\ backend.step = "start"
        /\ backend' = [backend EXCEPT !.open = FALSE] /\ Ends(<<>>, <<>>)
        /\ UNCHANGED <<version, monster, errors, sessions>>
        /\ backend.batch = <<>>
    BY <1>2 DEF KillDatabase, At, IInv, Batches
  <2>2. /\ SameQueues /\ SameLoads /\ ~backend.open'
        /\ UNCHANGED <<backend.initialized, backend.step>>
    BY <2>1 DEF SameQueues, SameLoads, IInv, Typed, Records, BackendFields
  <2>3. table' = table \/ table' = NoRows
    BY <1>2 DEF KillDatabase
  <2> QED
    BY <2>1, <2>2, <2>3, EndsPlain DEF NoRows
<1>3. CASE RunClosure
  <2>1. /\ loops.db # <<>> /\ Head(loops.db).task = "closure" /\ backend.step = "start"
        /\ Ends(<<>>, <<>>) /\ backend.batch = <<>>
        /\ UNCHANGED <<table, version, backend, monster, errors, sessions>>
    BY <1>3 DEF RunClosure, At, IInv, Batches
  <2> QED
    BY <1>3, <2>1, EndsPlain DEF SameQueues, SameLoads
<1> QED
  BY <1>1, <1>2, <1>3

(**************************************************************************)
(* The types of the data.                                                  *)
(**************************************************************************)
\* The operations of a kind on the cookies of a key.
Of(ops, op, k) == {i \in DOMAIN ops : ops[i].op = op /\ KeyOf(ops[i].cookie) = k}

\* Counted, as an equation between cardinalities.
LEMMA KeyCount ==
  ASSUME NEW ops \in Seq(Table!Ops)
  PROVE  /\ \A op, k : IsFiniteSet(Of(ops, op, k)) /\ Cardinality(Of(ops, op, k)) \in Nat
         /\ Counted(ops) = [k \in Keys |-> backend.perOrigin[k]
              + Cardinality(Of(ops, "add", k)) - Cardinality(Of(ops, "delete", k))]
<1>1. IsFiniteSet(DOMAIN ops)
  <2>1. DOMAIN ops = 1 .. Len(ops) /\ Len(ops) \in Nat
    OBVIOUS
  <2> QED
    BY <2>1, FS_Interval
<1>2. ASSUME NEW op, NEW k
      PROVE  IsFiniteSet(Of(ops, op, k)) /\ Cardinality(Of(ops, op, k)) \in Nat
  <2>1. Of(ops, op, k) \subseteq DOMAIN ops
    BY DEF Of
  <2>2. IsFiniteSet(Of(ops, op, k))
    BY <1>1, <2>1, FS_Subset
  <2> QED
    BY <2>2, FS_CardinalityType
<1>3. Counted(ops) = [k \in Keys |-> backend.perOrigin[k]
              + Cardinality(Of(ops, "add", k)) - Cardinality(Of(ops, "delete", k))]
  BY DEF Counted, Of
<1> QED
  BY <1>2, <1>3

\* As many pairs as cookies.
LEMMA Pairs ==
  ASSUME NEW D, IsFiniteSet(D), NEW f
  PROVE  /\ IsFiniteSet({<<c, f[c]>> : c \in D})
         /\ Cardinality({<<c, f[c]>> : c \in D}) = Cardinality(D)
<1> DEFINE T == {<<c, f[c]>> : c \in D}
           g == [c \in D |-> <<c, f[c]>>]
<1>1. g \in Bijection(D, T)
  BY DEF Bijection, Injection, Surjection, IsInjective
<1> HIDE DEF T, g
<1>2. ExistsBijection(D, T)
  BY <1>1 DEF ExistsBijection
<1>3. IsFiniteSet(T) /\ Cardinality(T) = Cardinality(D)
  BY <1>2, FS_Bijection
<1> QED
  BY <1>3 DEF T

LEMMA RowsTyped ==
  ASSUME NEW k, table \in Tables, NEW rows \in SUBSET Rows(k)
  PROVE  rows \subseteq Cookies \X Times /\ Cardinality(rows) \in Nat
<1>1. Rows(k) \subseteq Cookies \X Times
  BY DEF Rows, Tables
<1>2. IsFiniteSet(Rows(k))
  <2> DEFINE D == {d \in Cookies : KeyOf(d) = k /\ table[d] # Absent /\ Persists(d)}
  <2>1. IsFiniteSet(D)
    BY StoreAssumption, FS_Subset
  <2>2. IsFiniteSet({<<c, table[c]>> : c \in D})
    <3> HIDE DEF D
    <3> QED
      BY <2>1, Pairs
  <2> QED
    BY <2>2 DEF Rows
<1>3. IsFiniteSet(rows)
  BY <1>2, FS_Subset
<1> QED
  BY <1>1, <1>3, FS_CardinalityType

LEMMA DataStep ==
  ASSUME IInv, DataTyped, [Next]_vars
  PROVE  DataTyped'
<1>a. Absent \in Times \cup {Absent} /\ NoRows \in Tables
  BY DEF NoRows, Tables
<1>b. errors \in Nat /\ MaxErrors \in Nat
  BY BoundAssumption DEF IInv, Typed
<1>1. CASE \/ Load \/ Flush \/ \E keep \in BOOLEAN : Close(keep)
           \/ \E k \in Keys : LoadCookiesForKey(k)
           \/ TimerFires
  BY <1>1, PostsDo DEF DataTyped, SameQueues, SameLoads, SameView
<1>2. CASE \E o \in Operations : BatchOperation(o)
  <2>1. PICK o \in Operations : BatchOperation(o)
    BY <1>2
  <2>2. o \in Table!Ops /\ backend.pending \in Seq(Table!Ops)
    BY DEF Operations, IInv, Typed
  <2>3. Table!Effect(monster.view, o) \in Tables
    BY <2>2, EffectTyped DEF DataTyped
  <2>4. Len(Append(backend.pending, o)) = Len(backend.pending) + 1
    BY <2>2
  <2> QED
    BY <2>1, <2>3, <2>4, SubmitDoes DEF DataTyped, SameLoads
<1>3. CASE CompleteLoadOnIOThread
  <2>1. monster.view' \in Tables
    <3>1. \A c \in ReadCookies : \E p \in backend.loaded : p[1] = c
      BY DEF ReadCookies
    <3>2. ASSUME NEW c \in ReadCookies
          PROVE  (CHOOSE p \in backend.loaded : p[1] = c)[2] \in Times
      BY <3>1 DEF DataTyped
    <3> DEFINE read(c) == (CHOOSE p \in backend.loaded : p[1] = c)[2]
    <3>3. monster.view' = [c \in Cookies |-> IF c \in ReadCookies THEN read(c) ELSE monster.view[c]]
      BY <1>3, AnswerDoes
    <3>4. \A c \in ReadCookies : read(c) \in Times
      BY <3>2
    <3> HIDE DEF read
    <3> QED
      BY <3>3, <3>4 DEF Tables, DataTyped
  <2> QED
    BY <1>3, <2>1, AnswerDoes DEF DataTyped, SameQueues
<1>4. CASE OpenDatabase \/ InitializeFails \/ DatabaseTooNew \/ EnsureDatabaseVersion
  <2>1. errors' \in 0 .. MaxErrors
    BY <1>4, <1>b, OpeningDoes DEF DataTyped
  <2> QED
    BY <1>4, <1>a, <2>1, OpeningDoes DEF DataTyped, SameQueues, SameLoads, SameView
<1>5. CASE ReadKeys
  <2>1. backend.keysToLoad' \subseteq Keys
    <3>1. backend.keysToLoad' \subseteq {KeyOf(c) : c \in {d \in Cookies : table[d] # Absent}}
      BY <1>5, ReadingDoes
    <3> QED
      BY <3>1, StoreAssumption
  <2>2. errors' \in 0 .. MaxErrors
    BY <1>5, <1>b, ReadingDoes DEF DataTyped
  <2> QED
    BY <1>5, <2>1, <2>2, ReadingDoes DEF DataTyped, SameQueues
<1>6. CASE LoadKey \/ ChainLoadCookies
  <2>1. table' \in Tables
    <3>1. OnlyPersistent \in Tables
      BY <1>a DEF OnlyPersistent, Tables, DataTyped
    <3> QED
      BY <1>6, <3>1, LoadingDoes DEF DataTyped
  <2>2. UNCHANGED <<monster, sessions>>
    BY <1>6, LoadingDoes
  <2>3. CASE UNCHANGED <<backend, errors>>
    BY <2>1, <2>2, <2>3 DEF DataTyped
  <2>4. CASE \E k \in backend.keysToLoad : \E rows : RowsRead(k, rows)
    <3>1. PICK k \in backend.keysToLoad : \E rows : RowsRead(k, rows)
      BY <2>4
    <3>2. PICK rows : RowsRead(k, rows)
      BY <3>1
    <3>3. rows \subseteq Cookies \X Times /\ Cardinality(rows) \in Nat
      BY <3>2, RowsTyped DEF RowsRead, DataTyped
    <3>4. backend.perOrigin' \in [Keys -> Int]
      <4>1. backend.perOrigin' = [backend.perOrigin EXCEPT ![k] = @ + Cardinality(rows)]
        BY <3>2 DEF RowsRead
      <4> QED
        BY <3>3, <4>1 DEF DataTyped
    <3>5. errors' \in 0 .. MaxErrors
      BY <1>b, <3>2 DEF RowsRead, DataTyped
    <3> QED
      BY <2>1, <2>2, <3>2, <3>3, <3>4, <3>5 DEF DataTyped, RowsRead, SameQueues
  <2> QED
    BY <1>6, <2>3, <2>4, LoadingDoes
<1>7. CASE Commit
  <2>1. Len(<<>>) = 0
    OBVIOUS
  <2> QED
    BY <1>7, <2>1, CommitDoes DEF DataTyped, SameLoads
<1>8. CASE WriteBatch
  <2>1. backend.batch \in Seq(Table!Ops)
    BY DEF IInv, Typed
  <2>2. Counted(backend.batch) \in [Keys -> Int]
    <3> HIDE DEF Counted
    <3>1. /\ \A op, k : Cardinality(Of(backend.batch, op, k)) \in Nat
          /\ Counted(backend.batch) = [k \in Keys |-> backend.perOrigin[k]
               + Cardinality(Of(backend.batch, "add", k)) - Cardinality(Of(backend.batch, "delete", k))]
      BY <2>1, KeyCount
    <3> QED
      BY <3>1 DEF DataTyped
  <2>3. table' \in Tables
    BY <1>8, <2>1, WriteDoes, AppliedTyped, AppliedWithout DEF DataTyped
  <2>4. errors' \in 0 .. MaxErrors /\ backend.perOrigin' \in [Keys -> Int]
    BY <1>8, <1>b, <2>2, WriteDoes DEF DataTyped
  <2> QED
    BY <1>8, <2>3, <2>4, WriteDoes DEF DataTyped
<1>9. CASE CloseDatabase \/ KillDatabase \/ RunClosure
  <2>1. table' \in Tables
    <3>1. /\ table' = table \/ table' = [c \in Cookies |-> table'[c]]
          /\ \A c \in Cookies : table'[c] \in {table[c], Absent}
      BY <1>9, EndingDoes
    <3> QED
      BY <3>1 DEF DataTyped, Tables
  <2>2. errors' \in 0 .. MaxErrors
    BY <1>9, <1>b, EndingDoes DEF DataTyped
  <2> QED
    BY <1>9, <2>1, <2>2, EndingDoes DEF DataTyped, SameQueues, SameLoads
<1>10. CASE Restart
  <2>1. /\ backend' = NewBackend /\ monster' = NewMonster /\ errors' = 0
        /\ sessions < MaxSessions /\ sessions' = sessions + 1 /\ table' = table
    BY <1>10 DEF Restart
  <2>2. /\ monster.view' = [c \in Cookies |-> Absent] /\ backend.pending' = <<>>
        /\ backend.numPending' = 0 /\ backend.keysToLoad' = {} /\ backend.loaded' = {}
        /\ backend.perOrigin' = [k \in Keys |-> 0]
    BY <2>1 DEF NewBackend, NewMonster
  <2>3. Len(<<>>) = 0
    OBVIOUS
  <2>4. sessions' \in 1 .. MaxSessions /\ errors' \in 0 .. MaxErrors
    BY <1>b, <2>1, BoundAssumption DEF DataTyped
  <2> QED
    BY <2>1, <2>2, <2>3, <2>4 DEF DataTyped, Tables
<1>11. CASE UNCHANGED vars
  BY <1>11 DEF vars, DataTyped
<1> QED
  BY <1>1, <1>2, <1>3, <1>4, <1>5, <1>6, <1>7, <1>8, <1>9, <1>10, <1>11 DEF Next, Caller, DBThread

LEMMA DataInit == Init => DataTyped
<1> SUFFICES ASSUME Init PROVE DataTyped
  OBVIOUS
<1>1. /\ monster.view = [c \in Cookies |-> Absent] /\ backend.pending = <<>>
      /\ backend.numPending = 0 /\ backend.keysToLoad = {} /\ backend.loaded = {}
      /\ backend.perOrigin = [k \in Keys |-> 0]
  BY DEF Init, NewBackend, NewMonster
<1>2. Len(<<>>) = 0 /\ 0 \in Times
  BY StoreAssumption
<1>3. table \in Tables
  BY <1>2 DEF Init, Tables
<1>4. errors \in 0 .. MaxErrors /\ sessions \in 1 .. MaxSessions
  BY BoundAssumption DEF Init
<1> QED
  BY <1>1, <1>2, <1>3, <1>4 DEF DataTyped, Tables

LEMMA Typing == Spec => [](IInv /\ DataTyped)
<1>1. IInv /\ DataTyped /\ [Next]_vars => IInv' /\ DataTyped'
  BY NextIInv, DataStep
<1> QED
  BY <1>1, InitIInv, DataInit, PTL DEF Spec

\* Every variable keeps its type, whatever the bounds.
THEOREM TypeCorrect == Spec => []TypeOK
<1>1. IInv /\ DataTyped => TypeOK
  BY DEF IInv, Typed, DataTyped, TypeOK, Tables
<1> QED
  BY <1>1, Typing, PTL

(**************************************************************************)
(* The tasks the steps leave to the DB thread.                             *)
(**************************************************************************)
\* A task of the DB thread ends or goes on; it leaves no more than tasks to kill the
\* database and to go on with the loads.
LEMMA TasksLeave ==
  ASSUME IInv, IInv', DBThread
  PROVE  /\ loops.db # <<>>
         /\ \E more \in Seq(Tasks) :
              /\ \A j \in DOMAIN more : more[j].task \in {"kill", "chain"}
              /\ \/ loops.db' = loops.db \o more
                 \/ loops.db' = Tail(loops.db) \o more /\ backend.step' = "start"
<1>1. loops.db # <<>>
  <2>1. CASE OpenDatabase \/ InitializeFails \/ DatabaseTooNew \/ EnsureDatabaseVersion
    BY <2>1, OpeningDoes
  <2>2. CASE ReadKeys
    BY <2>2, ReadingDoes
  <2>3. CASE LoadKey \/ ChainLoadCookies
    BY <2>3, LoadingDoes
  <2>4. CASE Commit
    BY <2>4, CommitDoes
  <2>5. CASE WriteBatch
    BY <2>5, WriteDoes
  <2>6. CASE CloseDatabase \/ KillDatabase \/ RunClosure
    BY <2>6, EndingDoes
  <2> QED
    BY <2>1, <2>2, <2>3, <2>4, <2>5, <2>6 DEF DBThread
<1>2. \A catastrophic \in BOOLEAN :
        /\ Kill(catastrophic) \in Seq(Tasks)
        /\ \A j \in DOMAIN Kill(catastrophic) : Kill(catastrophic)[j].task \in {"kill", "chain"}
        /\ Kill(catastrophic) \o <<Plain("chain")>> \in Seq(Tasks)
        /\ \A j \in DOMAIN (Kill(catastrophic) \o <<Plain("chain")>>) :
             (Kill(catastrophic) \o <<Plain("chain")>>)[j].task \in {"kill", "chain"}
  <2>1. /\ Plain("chain").task = "chain" /\ Plain("kill").task = "kill"
        /\ Plain("chain") \in Tasks /\ Plain("kill") \in Tasks
    BY DEF Plain, Task, Tasks, TaskNames
  <2> QED
    BY <2>1 DEF Kill
<1>3. /\ <<>> \in Seq(Tasks) /\ \A j \in DOMAIN <<>> : <<>>[j].task \in {"kill", "chain"}
      /\ loops.db \o <<>> = loops.db
  BY DEF IInv, Typed
<1> DEFINE Leaves(more) == /\ more \in Seq(Tasks)
                           /\ \A j \in DOMAIN more : more[j].task \in {"kill", "chain"}
<1>4. \A catastrophic \in BOOLEAN : Leaves(Kill(catastrophic))
                                     /\ Leaves(Kill(catastrophic) \o <<Plain("chain")>>)
  BY <1>2
<1>5. Leaves(<<>>)
  BY <1>3
<1>6. ASSUME NEW more, NEW io, Ends(more, io)
      PROVE  loops.db' = Tail(loops.db) \o more
  BY <1>6 DEF Ends, IInv, Typed, Records, LoopFields
<1>7. ASSUME NEW more, loops' = [loops EXCEPT !.db = @ \o more]
      PROVE  loops.db' = loops.db \o more
  BY <1>7 DEF IInv, Typed, Records, LoopFields
<1>8. UNCHANGED loops => loops.db' = loops.db \o <<>>
  BY <1>3
<1>9. SUFFICES \E more : /\ Leaves(more)
                         /\ \/ loops.db' = loops.db \o more
                            \/ loops.db' = Tail(loops.db) \o more /\ backend.step' = "start"
  BY <1>1
<1> HIDE DEF Leaves
<1>10. CASE OpenDatabase \/ EnsureDatabaseVersion
  BY <1>5, <1>8, <1>10 DEF OpenDatabase, EnsureDatabaseVersion
<1>11. CASE InitializeFails
  <2>1. PICK catastrophic \in BOOLEAN :
        /\ backend' = [backend EXCEPT !.open = FALSE, !.step = "start", !.openFailed = TRUE,
                                      !.corruption = @ \/ catastrophic]
        /\ Ends(Kill(catastrophic), Answer)
    BY <1>11 DEF InitializeFails
  <2>2. backend.step' = "start"
    BY <2>1 DEF IInv, Typed, Records, BackendFields
  <2> QED
    BY <1>4, <1>6, <2>1, <2>2
<1>12. CASE DatabaseTooNew
  <2>1. backend.step' = "start" /\ Ends(<<>>, Answer)
    BY <1>12 DEF DatabaseTooNew, IInv, Typed, Records, BackendFields
  <2> QED
    BY <1>5, <1>6, <2>1
<1>13. CASE ReadKeys
  <2>1. UNCHANGED loops \/ \E catastrophic \in BOOLEAN : loops' = [loops EXCEPT !.db = @ \o Kill(catastrophic)]
    BY <1>13 DEF ReadKeys
  <2> QED
    BY <1>4, <1>5, <1>7, <1>8, <2>1
<1>14. CASE LoadKey \/ ChainLoadCookies
  <2>1. backend.step' = "start"
    BY <1>14, LoadingDoes
  <2>2. \/ \E io : Ends(<<>>, io)
        \/ \E catastrophic \in BOOLEAN : \E io :
             Ends(Kill(catastrophic), io) \/ Ends(Kill(catastrophic) \o <<Plain("chain")>>, io)
    BY <1>14 DEF LoadKey, ChainLoadCookies
  <2> QED
    BY <1>4, <1>5, <1>6, <2>1, <2>2
<1>15. CASE Commit
  <2>1. CASE UNCHANGED loops
    BY <1>5, <1>8, <2>1
  <2>2. CASE ~UNCHANGED loops
    <3> DEFINE writes == backend.open /\ backend.pending # <<>>
               after == IF At("close", "start") THEN "close" ELSE "start"
    <3>1. /\ IF writes \/ after = "close" THEN UNCHANGED loops ELSE Ends(<<>>, <<>>)
          /\ backend' = [backend EXCEPT
             !.batch = IF writes THEN backend.pending ELSE <<>>,
             !.pending = <<>>, !.numPending = 0,
             !.step = IF writes THEN "write" ELSE after]
      BY <1>15, Zenon DEF Commit
    <3>2. ~writes /\ after = "start" /\ Ends(<<>>, <<>>)
      BY <2>2, <3>1
    <3> HIDE DEF writes, after
    <3>3. backend.step' = "start"
      BY <3>1, <3>2 DEF IInv, Typed, Records, BackendFields
    <3> QED
      BY <1>5, <1>6, <3>2, <3>3
  <2> QED
    BY <2>1, <2>2
<1>16. CASE WriteBatch
  <2>1. \E catastrophic \in BOOLEAN :
          \/ At("close", "write") /\ loops' = [loops EXCEPT !.db = @ \o Kill(catastrophic)]
          \/ ~At("close", "write") /\ Ends(Kill(catastrophic), <<>>)
    BY <1>16, WriteCases, Zenon
  <2>2. CASE At("close", "write")
    BY <1>4, <1>7, <2>1, <2>2
  <2>3. CASE ~At("close", "write")
    <3>1. Head(loops.db).task # "close"
      BY <1>1, <1>16, <2>3, WriteDoes DEF At
    <3>2. Head(loops.db).task # "close" => backend.step' # "close"
      <4>1. \E counts, corrupt : backend' = [backend EXCEPT
                 !.batch = <<>>, !.perOrigin = counts, !.corruption = @ \/ corrupt,
                 !.step = IF At("close", "write") THEN "close" ELSE "start"]
        BY <1>16, WriteCases, Zenon
      <4> QED
        BY <2>3, <4>1 DEF IInv, Typed, Records, BackendFields
    <3>3. backend.step' = "start"
      BY <1>16, <3>1, <3>2, WriteDoes
    <3> QED
      BY <1>4, <1>6, <2>1, <2>3, <3>3
  <2> QED
    BY <2>2, <2>3
<1>17. CASE CloseDatabase \/ KillDatabase \/ RunClosure
  <2>1. Ends(<<>>, <<>>)
    BY <1>17 DEF CloseDatabase, KillDatabase, RunClosure
  <2>2. backend.step' = "start"
    BY <1>17, EndingDoes
  <2> QED
    BY <1>5, <1>6, <2>1, <2>2
<1> QED
  BY <1>10, <1>11, <1>12, <1>13, <1>14, <1>15, <1>16, <1>17 DEF DBThread

\* What the other threads post: calls of a store that is not gone, a commit, or a commit
\* with a closure behind it.
LEMMA OthersLeave ==
  ASSUME IInv, Caller \/ CompleteLoadOnIOThread \/ TimerFires
  PROVE  \E more \in Seq(Tasks) :
           /\ loops.db' = loops.db \o more
           /\ \A j \in DOMAIN more :
                more[j].task \in {"load", "loadKey", "close"} => ~monster.gone /\ Len(more) = 1
           /\ \A j \in DOMAIN more : more[j].task = "closure" =>
                j = 2 /\ more[1].task = "commit" /\ more[j].number = monster.issued
           /\ \A j \in DOMAIN more : more[j].task = "close" => monster.gone'
           /\ monster.gone' => monster.gone \/ \E j \in DOMAIN more : more[j].task = "close"
<1> DEFINE Posted(more) ==
           /\ \A j \in DOMAIN more :
                more[j].task \in {"load", "loadKey", "close"} => ~monster.gone /\ Len(more) = 1
           /\ \A j \in DOMAIN more : more[j].task = "closure" =>
                j = 2 /\ more[1].task = "commit" /\ more[j].number = monster.issued
           /\ \A j \in DOMAIN more : more[j].task = "close" => monster.gone'
           /\ monster.gone' => monster.gone \/ \E j \in DOMAIN more : more[j].task = "close"
<1>1. /\ loops.db \in Seq(Tasks) /\ loops.db \o <<>> = loops.db
      /\ \A t \in Tasks : Append(loops.db, t) = loops.db \o <<t>> /\ <<t>> \in Seq(Tasks)
      /\ \A t \in Tasks : DOMAIN <<t>> = {1} /\ <<t>>[1] = t /\ Len(<<t>>) = 1
  BY AppendIsConcat DEF IInv, Typed
<1>2. ASSUME NEW t \in Tasks, t.task \in {"load", "loadKey", "close", "commit"},
             t.task # "commit" => ~monster.gone,
             loops.db' = Append(loops.db, t), monster.gone' <=> monster.gone \/ t.task = "close"
      PROVE  \E more \in Seq(Tasks) : loops.db' = loops.db \o more /\ Posted(more)
  <2> DEFINE more == <<t>>
  <2>1. /\ more \in Seq(Tasks) /\ DOMAIN more = {1} /\ more[1] = t /\ Len(more) = 1
        /\ loops.db' = loops.db \o more
    BY <1>1, <1>2
  <2> HIDE DEF more
  <2>2. Posted(more)
    BY <1>2, <2>1
  <2> QED
    BY <2>1, <2>2
<1>3. ASSUME loops.db' = loops.db, UNCHANGED monster.gone
      PROVE  \E more \in Seq(Tasks) : loops.db' = loops.db \o more /\ Posted(more)
  <2>1. <<>> \in Seq(Tasks) /\ DOMAIN <<>> = {}
    OBVIOUS
  <2> QED
    BY <1>1, <1>3, <2>1
<1> HIDE DEF Posted
<1>4. SUFFICES \E more \in Seq(Tasks) : loops.db' = loops.db \o more /\ Posted(more)
  BY DEF Posted
<1> USE DEF IInv, Typed, Records, LoopFields, MonsterFields, PostDB
<1>5. /\ Plain("load") \in Tasks /\ Plain("load").task = "load"
      /\ Plain("close") \in Tasks /\ Plain("close").task = "close"
      /\ Plain("commit") \in Tasks /\ Plain("commit").task = "commit"
      /\ \A k \in Keys : Task("loadKey", k, 0) \in Tasks /\ Task("loadKey", k, 0).task = "loadKey"
  BY DEF Plain, Task, Tasks, TaskNames
<1>7. CASE Load
  <2>1. loops.db' = Append(loops.db, Plain("load")) /\ monster.gone' = monster.gone /\ ~monster.gone
    BY <1>7 DEF Load
  <2> QED
    BY <1>2, <1>5, <2>1
<1>8. CASE \E k \in Keys : LoadCookiesForKey(k)
  <2>1. PICK k \in Keys : LoadCookiesForKey(k)
    BY <1>8
  <2>2. loops.db' = Append(loops.db, Task("loadKey", k, 0)) /\ monster.gone' = monster.gone /\ ~monster.gone
    BY <2>1 DEF LoadCookiesForKey
  <2> QED
    BY <1>2, <1>5, <2>2
<1>9. CASE \E keep \in BOOLEAN : Close(keep)
  <2>1. loops.db' = Append(loops.db, Plain("close")) /\ monster.gone' = TRUE /\ ~monster.gone
    BY <1>9 DEF Close
  <2>2. monster.gone' <=> monster.gone \/ Plain("close").task = "close"
    BY <1>5, <2>1
  <2> QED
    BY <1>2, <1>5, <2>1, <2>2
<1>10. ASSUME loops.db' = Append(loops.db, Plain("commit")), monster.gone' = monster.gone
       PROVE  \E more \in Seq(Tasks) : loops.db' = loops.db \o more /\ Posted(more)
  <2> DEFINE more == <<Plain("commit")>>
  <2>1. /\ more \in Seq(Tasks) /\ DOMAIN more = {1} /\ more[1].task = "commit" /\ Len(more) = 1
        /\ loops.db' = loops.db \o more
    BY <1>1, <1>5, <1>10
  <2> HIDE DEF more
  <2>2. Posted(more)
    BY <1>10, <2>1 DEF Posted
  <2> QED
    BY <2>1, <2>2
<1>11. CASE TimerFires
  <2>1. loops.db' = Append(loops.db, Plain("commit")) /\ monster.gone' = monster.gone
    BY <1>11 DEF TimerFires
  <2> QED
    BY <1>10, <2>1
<1>12. CASE CompleteLoadOnIOThread
  BY <1>3, <1>12, AnswerDoes
<1>13. CASE \E o \in Operations : BatchOperation(o)
  <2>1. PICK o \in Operations : BatchOperation(o)
    BY <1>13
  <2> DEFINE num == backend.numPending + 1
             due == num # 1 /\ num = BatchSize
  <2>2. /\ loops' = [loops EXCEPT !.timers = IF num = 1 THEN @ + 1 ELSE @,
                               !.db = IF due THEN Append(@, Plain("commit")) ELSE @]
        /\ \E v, i, h : monster' = [monster EXCEPT !.view = v, !.issued = i, !.handed = h]
    BY <2>1 DEF BatchOperation
  <2> HIDE DEF num, due
  <2>3. /\ loops.db' = loops.db \/ loops.db' = Append(loops.db, Plain("commit"))
        /\ monster.gone' = monster.gone
    BY <2>2
  <2> QED
    BY <1>3, <1>10, <2>3
<1>14. CASE Flush
  <2> DEFINE t == Task("closure", "none", monster.issued)
             more == <<Plain("commit"), t>>
  <2>1. loops.db' = loops.db \o more /\ monster.gone' = monster.gone
    BY <1>14 DEF Flush
  <2>2. t \in Tasks /\ t.task = "closure" /\ t.number = monster.issued
    BY DEF Task, Tasks, TaskNames
  <2> HIDE DEF t
  <2>3. /\ more \in Seq(Tasks) /\ DOMAIN more = {1, 2} /\ more[1].task = "commit" /\ more[2] = t
    BY <1>5, <2>2
  <2> HIDE DEF more
  <2>4. Posted(more)
    BY <2>1, <2>2, <2>3 DEF Posted
  <2> QED
    BY <2>1, <2>3, <2>4
<1> QED
  BY <1>7, <1>8, <1>9, <1>11, <1>12, <1>13, <1>14 DEF Caller

(**************************************************************************)
(* Flush: when a closure runs, what was submitted before it has been taken. *)
(**************************************************************************)
Submitted == monster.issued - Len(Waiting)   \* operations that are no longer waiting

\* A closure finds the operations it was posted for settled, or a Commit in front of it
\* will take those that are waiting, or has taken them already.
Closures ==
  \A i \in DOMAIN loops.db : loops.db[i].task = "closure" =>
    /\ loops.db[i].number <= monster.issued
    /\ \/ loops.db[i].number <= Submitted
       \/ /\ i > 1 /\ loops.db[i - 1].task = "commit"
          /\ i = 2 /\ backend.step = "write" =>
               loops.db[i].number <= monster.issued - Len(backend.pending)

\* Sequences joined, and a sequence without its head, by index.
LEMMA Longer ==
  ASSUME NEW S, NEW s \in Seq(S), NEW more \in Seq(S), NEW d, d = s \o more
  PROVE  /\ Len(s) \in Nat /\ Len(more) \in Nat /\ Len(d) \in Nat
         /\ Len(d) = Len(s) + Len(more)
         /\ DOMAIN s = 1 .. Len(s) /\ DOMAIN more = 1 .. Len(more)
         /\ DOMAIN d = 1 .. Len(s) + Len(more)
         /\ d \in Seq(S)
         /\ \A i \in 1 .. Len(s) + Len(more) : d[i] = IF i <= Len(s) THEN s[i] ELSE more[i - Len(s)]
<1>1. /\ Len(d) = Len(s) + Len(more) /\ d \in Seq(S)
      /\ \A i \in 1 .. Len(s) + Len(more) : d[i] = IF i <= Len(s) THEN s[i] ELSE more[i - Len(s)]
  BY ConcatProperties
<1> QED
  BY <1>1

LEMMA Shifted ==
  ASSUME NEW S, NEW s \in Seq(S), s # <<>>, NEW more \in Seq(S), NEW d, d = Tail(s) \o more
  PROVE  /\ Len(s) - 1 \in Nat /\ Len(more) \in Nat
         /\ DOMAIN s = 1 .. Len(s) /\ DOMAIN more = 1 .. Len(more) /\ Head(s) = s[1]
         /\ DOMAIN d = 1 .. (Len(s) - 1) + Len(more)
         /\ \A i \in 1 .. (Len(s) - 1) + Len(more) :
              d[i] = IF i <= Len(s) - 1 THEN s[i + 1] ELSE more[i - (Len(s) - 1)]
<1>1. /\ Tail(s) \in Seq(S) /\ Len(Tail(s)) = Len(s) - 1 /\ Len(s) - 1 \in Nat
      /\ \A i \in 1 .. Len(s) - 1 : Tail(s)[i] = s[i + 1]
      /\ Head(s) = s[1]
  OBVIOUS
<1> DEFINE t == Tail(s)
           n == Len(s) - 1
<1>2. t \in Seq(S) /\ d = t \o more /\ Len(t) = n
  BY <1>1
<1> HIDE DEF t, n
<1>3. /\ Len(more) \in Nat /\ DOMAIN more = 1 .. Len(more)
      /\ DOMAIN d = 1 .. Len(t) + Len(more)
      /\ \A i \in 1 .. Len(t) + Len(more) : d[i] = IF i <= Len(t) THEN t[i] ELSE more[i - Len(t)]
  BY <1>2, Longer
<1>4. DOMAIN d = 1 .. n + Len(more)
  BY <1>2, <1>3
<1>5. \A i \in 1 .. n + Len(more) : d[i] = IF i <= n THEN t[i] ELSE more[i - n]
  BY <1>2, <1>3
<1>6. \A i \in 1 .. n + Len(more) : i <= n => i \in 1 .. n
  BY <1>1, <1>3 DEF n
<1>7. \A i \in 1 .. n + Len(more) : d[i] = IF i <= n THEN s[i + 1] ELSE more[i - n]
  BY <1>1, <1>5, <1>6 DEF t, n
<1> QED
  BY <1>1, <1>3, <1>4, <1>7 DEF n

WaitingWell ==
  /\ Len(backend.pending) \in Nat /\ Len(backend.batch) \in Nat /\ Len(Waiting) \in Nat
  /\ Waiting \in Seq(Table!Ops) /\ Len(Waiting) = Len(backend.batch) + Len(backend.pending)
  /\ monster.issued \in Nat /\ Submitted \in Int
  /\ backend.batch = <<>> => Waiting = backend.pending

LEMMA WaitingTyped == IInv => WaitingWell
<1> SUFFICES ASSUME IInv PROVE WaitingWell
  OBVIOUS
<1>1. /\ backend.batch \in Seq(Table!Ops) /\ backend.pending \in Seq(Table!Ops)
      /\ monster.issued \in Nat
  BY DEF IInv, Typed
<1>2. /\ Waiting \in Seq(Table!Ops) /\ Len(Waiting) = Len(backend.batch) + Len(backend.pending)
      /\ Len(backend.pending) \in Nat /\ Len(backend.batch) \in Nat /\ Len(Waiting) \in Nat
  <2> DEFINE s == backend.batch
             t == backend.pending
             d == s \o t
  <2>1. s \in Seq(Table!Ops) /\ t \in Seq(Table!Ops) /\ d = s \o t
    BY <1>1
  <2> HIDE DEF s, t, d
  <2>2. /\ d \in Seq(Table!Ops) /\ Len(d) = Len(s) + Len(t)
        /\ Len(t) \in Nat /\ Len(s) \in Nat /\ Len(d) \in Nat
    BY ONLY <2>1, Longer
  <2> QED
    BY <2>2 DEF Waiting, s, t, d
<1>3. backend.batch = <<>> => Waiting = backend.pending
  BY <1>1 DEF Waiting
<1>4. Submitted \in Int
  <2>1. monster.issued \in Nat /\ Len(Waiting) \in Nat
    BY <1>1, <1>2
  <2> QED
    BY <2>1 DEF Submitted
<1> QED
  BY <1>1, <1>2, <1>3, <1>4 DEF WaitingWell

LEMMA WaitingTypedNext ==
  ASSUME IInv'
  PROVE  /\ Len(backend.pending') \in Nat /\ Len(Waiting') \in Nat
         /\ monster.issued' \in Nat /\ Submitted' \in Int
         /\ Submitted' = monster.issued' - Len(Waiting')
<1>1. (IInv => WaitingWell)'
  BY WaitingTyped, PTL
<1> QED
  BY <1>1 DEF Submitted, WaitingWell

\* A closure waits for a natural number of operations.
LEMMA NumberTyped ==
  ASSUME NEW q \in Seq(Tasks)
  PROVE  \A i \in DOMAIN q : q[i].number \in Nat
<1>1. \A i \in DOMAIN q : q[i] \in Tasks
  OBVIOUS
<1> QED
  BY <1>1 DEF Tasks

\* More operations or tasks at the end, and a task less in front, keep Closures.
LEMMA GrowClosures ==
  ASSUME IInv, IInv', Closures, NEW more \in Seq(Tasks), loops.db' = loops.db \o more,
         \A j \in DOMAIN more : more[j].task = "closure" =>
           j = 2 /\ more[1].task = "commit" /\ more[j].number = monster.issued,
         monster.issued <= monster.issued', Submitted <= Submitted',
         backend.step' = "write" =>
           \/ backend.pending' = <<>>
           \/ /\ backend.step = "write"
              /\ monster.issued - Len(backend.pending) <= monster.issued' - Len(backend.pending')
  PROVE  Closures'
<1> DEFINE n == Len(loops.db)
           d == loops.db'
<1>1. /\ loops.db \in Seq(Tasks) /\ n \in Nat /\ Len(more) \in Nat
      /\ DOMAIN loops.db = 1 .. n /\ DOMAIN more = 1 .. Len(more)
      /\ DOMAIN d = 1 .. n + Len(more)
      /\ \A i \in 1 .. n + Len(more) : d[i] = IF i <= n THEN loops.db[i] ELSE more[i - n]
      /\ backend.step = "write" => loops.db # <<>>
  <2>1. loops.db \in Seq(Tasks) /\ (backend.step = "write" => loops.db # <<>>)
    BY DEF IInv, Typed, Batches
  <2> QED
    BY <2>1, Longer
<1>2. /\ Len(backend.pending) \in Nat /\ monster.issued \in Nat /\ Submitted \in Int
      /\ Len(backend.pending') \in Nat /\ monster.issued' \in Nat /\ Submitted' \in Int
      /\ \A i \in DOMAIN loops.db : loops.db[i].number \in Nat
  <2>1. /\ Len(backend.pending) \in Nat /\ monster.issued \in Nat /\ Submitted \in Int
    BY WaitingTyped DEF WaitingWell
  <2>2. \A i \in DOMAIN loops.db : loops.db[i].number \in Nat
    BY <1>1, NumberTyped
  <2> QED
    BY <2>1, <2>2, WaitingTypedNext
<1> HIDE DEF n, d
<1>3. ASSUME NEW i \in DOMAIN d, d[i].task = "closure"
      PROVE  /\ d[i].number <= monster.issued'
             /\ \/ d[i].number <= Submitted'
                \/ /\ i > 1 /\ d[i - 1].task = "commit"
                   /\ i = 2 /\ backend.step' = "write" =>
                        d[i].number <= monster.issued' - Len(backend.pending')
  <2>1. CASE i <= n
    <3>1. i \in DOMAIN loops.db /\ d[i] = loops.db[i] /\ i \in Nat
      BY <1>1, <2>1
    <3>2. i > 1 => d[i - 1] = loops.db[i - 1]
      BY <1>1, <1>3, <2>1
    <3>3. /\ d[i].number \in Nat /\ d[i].number <= monster.issued
          /\ \/ d[i].number <= Submitted
             \/ /\ i > 1 /\ loops.db[i - 1].task = "commit"
                /\ i = 2 /\ backend.step = "write" =>
                     d[i].number <= monster.issued - Len(backend.pending)
      BY <1>2, <1>3, <3>1 DEF Closures
    <3>4. Len(<<>>) = 0
      OBVIOUS
    <3>5. d[i].number <= monster.issued'
      BY <1>2, <3>3
    <3>6. CASE d[i].number <= Submitted
      BY <1>2, <3>3, <3>5, <3>6
    <3>7. CASE /\ i > 1 /\ loops.db[i - 1].task = "commit"
               /\ i = 2 /\ backend.step = "write" =>
                    d[i].number <= monster.issued - Len(backend.pending)
      <4>1. i = 2 /\ backend.step' = "write" =>
              d[i].number <= monster.issued' - Len(backend.pending')
        BY <1>2, <3>3, <3>4, <3>5, <3>7
      <4> QED
        BY <3>2, <3>5, <3>7, <4>1
    <3> QED
      BY <3>3, <3>6, <3>7
  <2>2. CASE ~(i <= n)
    <3>1. i \in 1 .. n + Len(more) /\ i - n \in DOMAIN more /\ d[i] = more[i - n]
      BY <1>1, <1>3, <2>2
    <3>2. i - n = 2 /\ more[1].task = "commit" /\ d[i].number = monster.issued
      BY <1>3, <3>1
    <3>3. i = n + 2 /\ i - 1 \in 1 .. n + Len(more) /\ ~(i - 1 <= n) /\ (i - 1) - n = 1
      <4> DEFINE m == Len(more)
      <4>1. n \in Nat /\ m \in Nat /\ i \in 1 .. n + m /\ i - n = 2
        BY <1>1, <3>1, <3>2
      <4> HIDE DEF m
      <4>2. i = n + 2 /\ i - 1 \in 1 .. n + m /\ ~(i - 1 <= n) /\ (i - 1) - n = 1
        BY ONLY <4>1
      <4> QED
        BY <4>2 DEF m
    <3>4. i > 1 /\ d[i - 1].task = "commit" /\ d[i].number <= monster.issued'
      BY <1>1, <1>2, <3>2, <3>3
    <3>5. i = 2 /\ backend.step' = "write" => backend.pending' = <<>>
      <4>1. i = 2 => loops.db = <<>>
        BY <1>1, <3>3 DEF n
      <4> QED
        BY <1>1, <4>1
    <3>6. Len(<<>>) = 0
      OBVIOUS
    <3> QED
      BY <1>2, <3>2, <3>4, <3>5, <3>6
  <2> QED
    BY <2>1, <2>2
<1> QED
  BY <1>3 DEF Closures, d

LEMMA ShiftClosures ==
  ASSUME IInv, IInv', Closures, loops.db # <<>>, NEW more \in Seq(Tasks),
         loops.db' = Tail(loops.db) \o more,
         \A j \in DOMAIN more : more[j].task # "closure",
         UNCHANGED monster.issued, Submitted <= Submitted', backend.step' = "start",
         Head(loops.db).task = "commit" =>
           \/ Waiting' = <<>>
           \/ backend.step = "write" /\ Len(Waiting') <= Len(backend.pending)
  PROVE  Closures'
<1> DEFINE n == Len(loops.db) - 1
           d == loops.db'
<1>0. loops.db \in Seq(Tasks)
  BY DEF IInv, Typed
<1>1. /\ n \in Nat /\ Len(more) \in Nat
      /\ DOMAIN loops.db = 1 .. n + 1 /\ DOMAIN more = 1 .. Len(more)
      /\ Head(loops.db) = loops.db[1]
  BY <1>0
<1>2. /\ DOMAIN d = 1 .. n + Len(more)
      /\ \A i \in 1 .. n + Len(more) : d[i] = IF i <= n THEN loops.db[i + 1] ELSE more[i - n]
  <2> DEFINE s == loops.db
  <2>1. s \in Seq(Tasks) /\ s # <<>> /\ more \in Seq(Tasks) /\ d = Tail(s) \o more
    BY <1>0
  <2> HIDE DEF s, d
  <2>2. /\ DOMAIN d = 1 .. (Len(s) - 1) + Len(more)
        /\ \A i \in 1 .. (Len(s) - 1) + Len(more) :
              d[i] = IF i <= Len(s) - 1 THEN s[i + 1] ELSE more[i - (Len(s) - 1)]
    BY ONLY <2>1, Shifted
  <2> QED
    BY <2>2 DEF s
<1>3. /\ Len(backend.pending) \in Nat /\ monster.issued \in Nat /\ Submitted \in Int
      /\ Len(Waiting') \in Nat /\ Submitted' = monster.issued - Len(Waiting')
      /\ \A i \in DOMAIN loops.db : loops.db[i].number \in Nat
  <2>1. /\ Len(backend.pending) \in Nat /\ monster.issued \in Nat /\ Submitted \in Int
    BY WaitingTyped DEF WaitingWell
  <2>2. Len(Waiting') \in Nat /\ Submitted' = monster.issued - Len(Waiting')
    BY WaitingTypedNext
  <2>3. \A i \in DOMAIN loops.db : loops.db[i].number \in Nat
    BY <1>0, NumberTyped
  <2> QED
    BY <2>1, <2>2, <2>3
<1> HIDE DEF n, d
<1>4. ASSUME NEW i \in DOMAIN d, d[i].task = "closure"
      PROVE  /\ d[i].number <= monster.issued'
             /\ \/ d[i].number <= Submitted'
                \/ i > 1 /\ d[i - 1].task = "commit"
  <2>1. /\ i <= n /\ i \in Nat /\ i + 1 \in DOMAIN loops.db /\ d[i] = loops.db[i + 1]
        /\ i > 1 => d[i - 1] = loops.db[i]
        /\ i >= 1
    <3>1. i \in 1 .. n + Len(more) /\ i >= 1 /\ i \in Nat
      BY <1>1, <1>2
    <3>2. i <= n
      <4>1. SUFFICES ASSUME ~(i <= n) PROVE FALSE
        BY <1>1, <3>1
      <4>2. d[i] = more[i - n] /\ i - n \in DOMAIN more
        BY <1>1, <1>2, <3>1, <4>1
      <4> QED
        BY <1>4, <4>2
    <3>3. i > 1 => i - 1 \in 1 .. n + Len(more) /\ i - 1 <= n /\ (i - 1) + 1 = i
      <4>0. i \in Nat /\ n \in Nat /\ i <= n
        BY <1>1, <3>1, <3>2
      <4>1. i > 1 => i - 1 >= 1 /\ i - 1 <= n /\ (i - 1) + 1 = i /\ i - 1 \in Nat
        BY ONLY <4>0
      <4>2. n <= n + Len(more) /\ n + Len(more) \in Nat
        BY <1>1
      <4> QED
        BY <1>1, <4>1, <4>2
    <3> QED
      BY <1>1, <1>2, <3>1, <3>2, <3>3
  <2>2. /\ d[i].number \in Nat /\ d[i].number <= monster.issued
        /\ \/ d[i].number <= Submitted
           \/ /\ loops.db[i].task = "commit"
              /\ i = 1 /\ backend.step = "write" =>
                   d[i].number <= monster.issued - Len(backend.pending)
    <3>1. (i + 1) - 1 = i /\ (i + 1 = 2 <=> i = 1)
      BY <2>1
    <3> QED
      BY <1>3, <1>4, <2>1, <3>1 DEF Closures
  <2>3. CASE d[i].number <= Submitted
    BY <1>3, <2>2, <2>3
  <2>4. CASE i > 1 /\ loops.db[i].task = "commit"
    BY <1>3, <2>1, <2>2, <2>4
  <2>5. CASE /\ i = 1 /\ loops.db[i].task = "commit"
             /\ backend.step = "write" => d[i].number <= monster.issued - Len(backend.pending)
    <3>1. Waiting' = <<>> \/ (backend.step = "write" /\ Len(Waiting') <= Len(backend.pending))
      BY <1>1, <2>5
    <3>2. Len(<<>>) = 0
      OBVIOUS
    <3> QED
      BY <1>3, <2>2, <2>5, <3>1, <3>2
  <2> QED
    BY <2>1, <2>2, <2>3, <2>4, <2>5
<1> QED
  BY <1>4 DEF Closures, d

LEMMA WaitingNext ==
  ASSUME IInv'
  PROVE  WaitingWell'
<1>1. (IInv => WaitingWell)'
  BY WaitingTyped, PTL
<1> QED
  BY <1>1

LEMMA WaitingLengths ==
  ASSUME IInv, IInv'
  PROVE  /\ Submitted = monster.issued - Len(Waiting)
         /\ Submitted' = monster.issued' - Len(Waiting')
         /\ Len(Waiting) \in Nat /\ Len(Waiting') \in Nat
         /\ Len(backend.pending) \in Nat /\ Len(backend.pending') \in Nat
         /\ monster.issued \in Nat /\ monster.issued' \in Nat
BY WaitingTyped, WaitingNext DEF Submitted, WaitingWell

LEMMA WaitingSums ==
  ASSUME IInv, IInv'
  PROVE  /\ Len(backend.batch) \in Nat /\ Len(backend.batch') \in Nat
         /\ Len(backend.pending) \in Nat /\ Len(backend.pending') \in Nat
         /\ Len(Waiting) = Len(backend.batch) + Len(backend.pending)
         /\ Len(Waiting') = Len(backend.batch') + Len(backend.pending')
BY WaitingTyped, WaitingNext DEF WaitingWell

LEMMA Sum ==
  ASSUME NEW a \in Nat, NEW b \in Nat, NEW c \in Nat, NEW d \in Nat, NEW w, NEW v,
         w = a + b, v = c + d
  PROVE  /\ c = a /\ d = b + 1 => v = w + 1
         /\ c = 0 /\ d = b => v <= b /\ v <= w
OBVIOUS

\* No step of another thread takes back what was submitted before.
LEMMA OthersSubmit ==
  ASSUME IInv, IInv', Caller \/ CompleteLoadOnIOThread \/ TimerFires
  PROVE  /\ monster.issued <= monster.issued' /\ Submitted <= Submitted'
         /\ monster.issued - Len(backend.pending) <= monster.issued' - Len(backend.pending')
         /\ backend.step' = backend.step
<1>0. /\ Submitted = monster.issued - Len(Waiting)
      /\ Submitted' = monster.issued' - Len(Waiting')
      /\ Len(Waiting) \in Nat /\ Len(Waiting') \in Nat
      /\ Len(backend.pending) \in Nat /\ Len(backend.pending') \in Nat
      /\ monster.issued \in Nat /\ monster.issued' \in Nat
  BY WaitingLengths
<1>1. ASSUME UNCHANGED <<backend.pending, backend.batch, monster.issued, backend.step>>
      PROVE  /\ monster.issued <= monster.issued' /\ Submitted <= Submitted'
             /\ monster.issued - Len(backend.pending) <= monster.issued' - Len(backend.pending')
             /\ backend.step' = backend.step
  <2>1. /\ monster.issued' = monster.issued /\ Len(backend.pending') = Len(backend.pending)
        /\ backend.step' = backend.step
    BY <1>1
  <2>2. Waiting' = Waiting
    BY <1>1 DEF Waiting
  <2> QED
    BY <1>0, <2>1, <2>2
<1>2. CASE \/ Load \/ Flush \/ \E keep \in BOOLEAN : Close(keep)
           \/ \E k \in Keys : LoadCookiesForKey(k)
           \/ TimerFires
  <2>1. UNCHANGED <<backend.pending, backend.batch, monster.issued, backend.step>>
    BY <1>2, PostsDo DEF SameQueues, SameView
  <2> QED
    BY <1>1, <2>1
<1>3. CASE CompleteLoadOnIOThread
  <2>1. UNCHANGED <<backend.pending, backend.batch, monster.issued, backend.step>>
    BY <1>3, AnswerDoes DEF SameQueues
  <2> QED
    BY <1>1, <2>1
<1>4. CASE \E o \in Operations : BatchOperation(o)
  <2>1. PICK o \in Operations : BatchOperation(o)
    BY <1>4
  <2>2. /\ backend.pending' = Append(backend.pending, o) /\ backend.batch' = backend.batch
        /\ monster.issued' = monster.issued + 1 /\ backend.step' = backend.step
    BY <2>1, SubmitDoes
  <2>3. Len(backend.pending') = Len(backend.pending) + 1
    <3>1. o \in Table!Ops /\ backend.pending \in Seq(Table!Ops)
      BY DEF IInv, Typed, Operations
    <3> QED
      BY <2>2, <3>1
  <2>4. Len(Waiting') = Len(Waiting) + 1
    <3>1. Len(backend.batch') = Len(backend.batch)
      BY <2>2
    <3> DEFINE a == Len(backend.batch)
               b == Len(backend.pending)
               c == Len(backend.batch')
               d == Len(backend.pending')
               w == Len(Waiting)
               v == Len(Waiting')
    <3>2. a \in Nat /\ b \in Nat /\ c \in Nat /\ d \in Nat /\ w = a + b /\ v = c + d
      BY WaitingSums
    <3>3. c = a /\ d = b + 1
      BY <2>3, <3>1
    <3> HIDE DEF a, b, c, d, w, v
    <3>4. v = w + 1
      BY ONLY <3>2, <3>3, Sum
    <3> QED
      BY <3>4 DEF v, w
  <2> QED
    BY <1>0, <2>2, <2>3, <2>4
<1> QED
  BY <1>2, <1>3, <1>4 DEF Caller

\* The DB thread only settles operations; a Commit that ends leaves none that were
\* waiting when it began.
Settling ==
  /\ monster.issued' = monster.issued /\ Submitted <= Submitted'
  /\ backend.step' = "write" => backend.pending' = <<>>
  /\ backend.step' # "write" /\ Head(loops.db).task = "commit" =>
       \/ Waiting' = <<>>
       \/ backend.step = "write" /\ Len(Waiting') <= Len(backend.pending)

\* What a step of the DB thread does to the operations on their way.
LEMMA DBThreadSettles ==
  ASSUME IInv, IInv', DBThread
  PROVE  Settling
<1>0. /\ Submitted = monster.issued - Len(Waiting)
      /\ Submitted' = monster.issued' - Len(Waiting')
      /\ Len(Waiting) \in Nat /\ Len(Waiting') \in Nat
      /\ Len(backend.pending) \in Nat /\ Len(backend.pending') \in Nat
      /\ monster.issued \in Nat /\ monster.issued' \in Nat
  BY WaitingLengths
<1>1. ASSUME SameQueues, UNCHANGED monster, backend.step' # "write",
             Head(loops.db).task # "commit"
      PROVE  Settling
  <2>1. monster.issued' = monster.issued
    BY <1>1
  <2>2. Submitted <= Submitted'
    <3>1. Waiting' = Waiting
      BY <1>1 DEF SameQueues, Waiting
    <3> QED
      BY <1>0, <2>1, <3>1
  <2> QED
    BY <1>1, <2>1, <2>2 DEF Settling
<1>2. CASE OpenDatabase \/ InitializeFails \/ DatabaseTooNew \/ EnsureDatabaseVersion
  <2>1. /\ SameQueues /\ backend.step' # "write" /\ UNCHANGED monster
        /\ Head(loops.db).task # "commit"
    BY <1>2, OpeningDoes
  <2> QED
    BY <1>1, <2>1
<1>3. CASE ReadKeys
  <2>1. /\ SameQueues /\ backend.step' # "write" /\ UNCHANGED monster
        /\ Head(loops.db).task # "commit"
    BY <1>3, ReadingDoes
  <2> QED
    BY <1>1, <2>1
<1>4. CASE LoadKey \/ ChainLoadCookies
  <2>1. SameQueues
    <3>1. CASE UNCHANGED backend
      BY <3>1 DEF SameQueues
    <3>2. CASE \E k \in backend.keysToLoad : \E rows : RowsRead(k, rows)
      BY <3>2 DEF RowsRead
    <3> QED
      BY <1>4, <3>1, <3>2, LoadingDoes
  <2>2. backend.step' # "write" /\ UNCHANGED monster /\ Head(loops.db).task # "commit"
    BY <1>4, LoadingDoes
  <2> QED
    BY <1>1, <2>1, <2>2
<1>5. CASE Commit
  <2>1. /\ backend.batch = <<>> /\ backend.pending' = <<>> /\ UNCHANGED monster
        /\ \/ backend.batch' = backend.pending /\ backend.step' = "write"
           \/ backend.batch' = <<>> /\ backend.step' # "write"
    BY <1>5, CommitDoes
  <2>2. Len(<<>>) = 0 /\ <<>> \o <<>> = <<>>
    OBVIOUS
  <2>3. Submitted <= Submitted'
    <3>1. /\ Len(backend.batch) = 0 /\ Len(backend.pending') = 0
          /\ Len(backend.batch') \in {0, Len(backend.pending)}
          /\ monster.issued' = monster.issued
      BY <2>1, <2>2
    <3>2. Len(Waiting') <= Len(Waiting)
      BY <3>1, WaitingSums
    <3> QED
      BY <1>0, <3>1, <3>2
  <2>4. backend.step' # "write" => Waiting' = <<>>
    BY <2>1, <2>2 DEF Waiting
  <2> QED
    BY <2>1, <2>3, <2>4 DEF Settling
<1>6. CASE WriteBatch
  <2>1. /\ backend.step = "write" /\ backend.step' # "write" /\ backend.batch' = <<>>
        /\ UNCHANGED <<monster, backend.pending>>
    BY <1>6, WriteDoes
  <2>2. /\ Len(backend.batch') = 0 /\ Len(backend.pending') = Len(backend.pending)
        /\ monster.issued' = monster.issued
    BY <2>1
  <2>3. Submitted <= Submitted' /\ Len(Waiting') <= Len(backend.pending)
    <3> DEFINE a == Len(backend.batch)
               b == Len(backend.pending)
               c == Len(backend.batch')
               d == Len(backend.pending')
               w == Len(Waiting)
               v == Len(Waiting')
    <3>1. a \in Nat /\ b \in Nat /\ c \in Nat /\ d \in Nat /\ w = a + b /\ v = c + d
      BY WaitingSums
    <3>2. c = 0 /\ d = b
      BY <2>2
    <3> HIDE DEF a, b, c, d, w, v
    <3>3. v <= b /\ v <= w
      BY ONLY <3>1, <3>2, Sum
    <3>4. Len(Waiting') <= Len(backend.pending) /\ Len(Waiting') <= Len(Waiting)
      BY <3>3 DEF b, v, w
    <3> QED
      BY <1>0, <2>2, <3>4
  <2> QED
    BY <2>1, <2>3 DEF Settling
<1>7. CASE CloseDatabase \/ KillDatabase \/ RunClosure
  <2>1. /\ SameQueues /\ backend.step' # "write" /\ UNCHANGED monster
        /\ Head(loops.db).task # "commit"
    BY <1>7, EndingDoes
  <2> QED
    BY <1>1, <2>1
<1> QED
  BY <1>2, <1>3, <1>4, <1>5, <1>6, <1>7 DEF DBThread

LEMMA ClosuresStep ==
  ASSUME IInv, IInv', Closures, [Next]_vars
  PROVE  Closures'
<1>1. CASE Caller \/ CompleteLoadOnIOThread \/ TimerFires
  <2>1. PICK more \in Seq(Tasks) :
           /\ loops.db' = loops.db \o more
           /\ \A j \in DOMAIN more : more[j].task = "closure" =>
                j = 2 /\ more[1].task = "commit" /\ more[j].number = monster.issued
    BY <1>1, OthersLeave
  <2> QED
    BY <1>1, <2>1, OthersSubmit, GrowClosures
<1>2. CASE DBThread
  <2>1. PICK more \in Seq(Tasks) :
              /\ \A j \in DOMAIN more : more[j].task \in {"kill", "chain"}
              /\ \/ loops.db' = loops.db \o more
                 \/ loops.db' = Tail(loops.db) \o more /\ backend.step' = "start"
    BY <1>2, TasksLeave
  <2>2. Settling /\ loops.db # <<>> /\ \A j \in DOMAIN more : more[j].task # "closure"
    BY <1>2, <2>1, TasksLeave, DBThreadSettles
  <2>3. CASE loops.db' = loops.db \o more
    <3>1. monster.issued <= monster.issued'
      BY <2>2, WaitingLengths DEF Settling
    <3> QED
      BY <2>2, <2>3, <3>1, GrowClosures DEF Settling
  <2>4. CASE loops.db' = Tail(loops.db) \o more /\ backend.step' = "start"
    BY <2>2, <2>4, ShiftClosures DEF Settling
  <2> QED
    BY <2>1, <2>3, <2>4
<1>3. CASE Restart
  <2>1. loops.db' = <<>>
    BY <1>3 DEF Restart, NewLoops
  <2> QED
    BY <2>1 DEF Closures
<1>4. CASE UNCHANGED vars
  BY <1>4 DEF vars, Closures, Submitted, Waiting
<1> QED
  BY <1>1, <1>2, <1>3, <1>4 DEF Next

\* When the closure of a Flush runs, whatever was submitted before it has left the
\* backend, for any number of operations, flushes and timers that fire meanwhile.
THEOREM FlushHolds == Spec => []FlushCommits
<1>1. Init => Closures
  BY DEF Init, NewLoops, Closures
<1>2. IInv /\ Closures /\ [Next]_vars => IInv' /\ Closures'
  BY NextIInv, ClosuresStep
<1>3. IInv /\ Closures => FlushCommits
  <2> SUFFICES ASSUME IInv, Closures, At("closure", "start")
               PROVE  Head(loops.db).number <= monster.issued - Len(backend.batch \o backend.pending)
    BY DEF FlushCommits
  <2>1. loops.db # <<>> /\ Head(loops.db).task = "closure"
    BY DEF At
  <2>2. 1 \in DOMAIN loops.db /\ Head(loops.db) = loops.db[1]
    BY <2>1 DEF IInv, Typed
  <2>3. ~(1 > 1)
    OBVIOUS
  <2>4. Head(loops.db).number <= Submitted
    BY <2>1, <2>2, <2>3 DEF Closures
  <2> QED
    BY <2>4 DEF Submitted, Waiting
<1> QED
  BY <1>1, <1>2, <1>3, InitIInv, PTL DEF Spec

(**************************************************************************)
(* A closed backend stays closed, and no load is left for it.              *)
(**************************************************************************)
LoadTasks == {"load", "loadKey"}
Loadless(q) == \A i \in DOMAIN q : q[i].task \notin LoadTasks

\* Once the store is closed its file stays closed: no load is behind the closing task,
\* so nothing opens the file again.
Orderly(q) == \A i, j \in DOMAIN q :
                q[i].task = "close" /\ i < j => q[j].task \notin LoadTasks
StaysClosed ==
  /\ Orderly(loops.db)
  /\ Closed => ~backend.open /\ Loadless(loops.db)

\* More tasks at the end, and a task less in front, keep loads in front of the close.
LEMMA GrowOrderly ==
  ASSUME NEW q \in Seq(Tasks), NEW more \in Seq(Tasks), NEW d, d = q \o more, Orderly(q),
         \/ Loadless(more)
         \/ /\ \A i \in DOMAIN q : q[i].task # "close"
            /\ Len(more) = 1
  PROVE  /\ Orderly(d)
         /\ Loadless(q) /\ Loadless(more) => Loadless(d)
<1>1. /\ Len(q) \in Nat /\ Len(more) \in Nat
      /\ DOMAIN q = 1 .. Len(q) /\ DOMAIN more = 1 .. Len(more)
      /\ DOMAIN d = 1 .. Len(q) + Len(more)
      /\ \A i \in 1 .. Len(q) + Len(more) : d[i] = IF i <= Len(q) THEN q[i] ELSE more[i - Len(q)]
  BY Longer
<1> DEFINE n == Len(q)
           m == Len(more)
<1>2. /\ n \in Nat /\ m \in Nat /\ DOMAIN q = 1 .. n /\ DOMAIN more = 1 .. m /\ DOMAIN d = 1 .. n + m
      /\ \A i \in 1 .. n + m : d[i] = IF i <= n THEN q[i] ELSE more[i - n]
      /\ Loadless(more) \/ ((\A i \in DOMAIN q : q[i].task # "close") /\ m = 1)
  BY <1>1
<1> HIDE DEF n, m
<1>3. ASSUME NEW i \in DOMAIN d, NEW j \in DOMAIN d, d[i].task = "close", i < j
      PROVE  d[j].task \notin LoadTasks
  <2>1. i \in Nat /\ j \in Nat /\ i <= n + m /\ j <= n + m /\ 1 <= i /\ 1 <= j
    BY <1>2
  <2>2. CASE j <= n
    <3>1. i \in DOMAIN q /\ j \in DOMAIN q /\ d[i] = q[i] /\ d[j] = q[j]
      BY <1>2, <1>3, <2>1, <2>2
    <3> QED
      BY <1>3, <3>1 DEF Orderly
  <2>3. CASE ~(j <= n) /\ Loadless(more)
    <3>1. j - n \in DOMAIN more /\ d[j] = more[j - n]
      BY <1>2, <2>1, <2>3
    <3> QED
      BY <2>3, <3>1 DEF Loadless
  <2>4. CASE ~(j <= n) /\ (\A l \in DOMAIN q : q[l].task # "close") /\ m = 1
    <3>1. i <= n
      BY <1>2, <1>3, <2>1, <2>4
    <3>2. i \in DOMAIN q /\ d[i] = q[i]
      BY <1>2, <2>1, <3>1
    <3> QED
      BY <1>3, <2>4, <3>2
  <2> QED
    BY <1>2, <2>2, <2>3, <2>4
<1>4. ASSUME Loadless(q), Loadless(more), NEW j \in DOMAIN d
      PROVE  d[j].task \notin LoadTasks
  <2>1. j \in Nat /\ j <= n + m /\ 1 <= j
    BY <1>2
  <2>2. CASE j <= n
    <3>1. j \in DOMAIN q /\ d[j] = q[j]
      BY <1>2, <2>1, <2>2
    <3> QED
      BY <1>4, <3>1 DEF Loadless
  <2>3. CASE ~(j <= n)
    <3>1. j - n \in DOMAIN more /\ d[j] = more[j - n]
      BY <1>2, <2>1, <2>3
    <3> QED
      BY <1>4, <3>1 DEF Loadless
  <2> QED
    BY <2>2, <2>3
<1> QED
  BY <1>3, <1>4 DEF Orderly, Loadless

LEMMA ShiftOrderly ==
  ASSUME NEW q \in Seq(Tasks), q # <<>>, Orderly(q)
  PROVE  /\ Tail(q) \in Seq(Tasks) /\ Orderly(Tail(q))
         /\ Loadless(q) \/ Head(q).task = "close" => Loadless(Tail(q))
<1> DEFINE n == Len(q) - 1
           d == Tail(q)
<1>1. /\ n \in Nat /\ d \in Seq(Tasks) /\ DOMAIN q = 1 .. n + 1 /\ DOMAIN d = 1 .. n
      /\ \A i \in 1 .. n : d[i] = q[i + 1]
      /\ Head(q) = q[1]
  OBVIOUS
<1> HIDE DEF n, d
<1>2. \A i \in DOMAIN d : i \in Nat /\ i + 1 \in DOMAIN q /\ 1 \in DOMAIN q /\ 1 < i + 1
  BY <1>1
<1>3. Orderly(d)
  BY <1>1, <1>2 DEF Orderly
<1>4. ASSUME Loadless(q) \/ Head(q).task = "close"
      PROVE  Loadless(d)
  BY <1>1, <1>2, <1>4 DEF Orderly, Loadless
<1> QED
  BY <1>1, <1>3, <1>4 DEF d

\* No step but the end of the closing task closes the store, and none but a restart opens
\* a closed one.
LEMMA ClosedSteps ==
  ASSUME IInv, Caller \/ DBThread \/ CompleteLoadOnIOThread \/ TimerFires
  PROVE  IF CloseDatabase THEN Closed' ELSE Closed' <=> Closed
<1>1. CASE Caller \/ CompleteLoadOnIOThread \/ TimerFires
  BY <1>1, KeepsLoads, KeepsFlush, KeepsClose, KeepsBatchOperation, KeepsCompleteLoadOnIOThread,
     KeepsTimerFires, KeepsCloseDatabase DEF Caller
<1>2. CASE DBThread
  BY <1>2, KeepsOpenDatabase, KeepsInitializeFails, KeepsDatabaseTooNew,
     KeepsEnsureDatabaseVersion, KeepsReadKeys, KeepsLoadKey, KeepsChainLoadCookies, KeepsCommit,
     KeepsWriteBatch, KeepsCloseDatabase, KeepsKillDatabase, KeepsRunClosure DEF DBThread
<1> QED
  BY <1>1, <1>2

\* Only the DB thread opens or closes the file.
LEMMA OthersOpen ==
  ASSUME IInv, Caller \/ CompleteLoadOnIOThread \/ TimerFires
  PROVE  UNCHANGED backend.open
<1>1. CASE \/ Load \/ Flush \/ \E keep \in BOOLEAN : Close(keep)
           \/ \E k \in Keys : LoadCookiesForKey(k)
           \/ TimerFires
  BY <1>1, PostsDo
<1>2. CASE \E o \in Operations : BatchOperation(o)
  BY <1>2, SubmitDoes
<1>3. CASE CompleteLoadOnIOThread
  BY <1>3, AnswerDoes
<1> QED
  BY <1>1, <1>2, <1>3 DEF Caller

\* With no load in front, the file is not opened.
LEMMA Unopenable ==
  ASSUME IInv, DBThread, ~backend.open, Loadless(loops.db)
  PROVE  ~backend.open'
<1>1. loops.db # <<>> => Head(loops.db).task \notin LoadTasks
  <2>1. loops.db \in Seq(Tasks)
    BY DEF IInv, Typed
  <2>2. loops.db # <<>> => 1 \in DOMAIN loops.db /\ Head(loops.db) = loops.db[1]
    BY <2>1
  <2> QED
    BY <2>2 DEF Loadless
<1>2. ~(OpenDatabase \/ InitializeFails \/ DatabaseTooNew \/ EnsureDatabaseVersion \/ ReadKeys)
  BY <1>1, OpeningDoes, ReadingDoes DEF LoadTasks
<1>3. CASE LoadKey \/ ChainLoadCookies
  BY <1>3, LoadingDoes
<1>4. CASE Commit
  BY <1>4, CommitDoes
<1>5. CASE WriteBatch
  BY <1>5, WriteDoes
<1>6. CASE CloseDatabase \/ KillDatabase
  <2>1. \E s : backend' = [backend EXCEPT !.open = FALSE, !.step = s] \/ backend' = [backend EXCEPT !.open = FALSE]
    BY <1>6 DEF CloseDatabase, KillDatabase
  <2> QED
    BY <2>1 DEF IInv, Typed, Records, BackendFields
<1>7. CASE RunClosure
  BY <1>7 DEF RunClosure
<1> QED
  BY <1>2, <1>3, <1>4, <1>5, <1>6, <1>7 DEF DBThread

LEMMA StaysClosedStep ==
  ASSUME IInv, IInv', StaysClosed, [Next]_vars
  PROVE  StaysClosed'
<1>0. loops.db \in Seq(Tasks)
  BY DEF IInv, Typed
<1>1. CASE Caller \/ CompleteLoadOnIOThread \/ TimerFires
  <2>1. PICK more \in Seq(Tasks) :
           /\ loops.db' = loops.db \o more
           /\ \A j \in DOMAIN more :
                more[j].task \in {"load", "loadKey", "close"} => ~monster.gone /\ Len(more) = 1
    BY <1>1, OthersLeave
  <2>2. Closed' => Closed \/ CloseDatabase
    BY <1>1, ClosedSteps
  <2>3. ~monster.gone => \A i \in DOMAIN loops.db : loops.db[i].task # "close"
    BY DEF IInv, ClosedOnce, Has
  <2>4. \/ Loadless(more)
        \/ (\A i \in DOMAIN loops.db : loops.db[i].task # "close") /\ Len(more) = 1
    BY <2>1, <2>3 DEF Loadless, LoadTasks
  <2>5. Orderly(loops.db) /\ (Closed => Loadless(loops.db) /\ Loadless(more))
    BY <2>1 DEF StaysClosed, Closed, Loadless, LoadTasks
  <2> DEFINE d == loops.db'
  <2>6. d = loops.db \o more
    BY <2>1
  <2> HIDE DEF d
  <2>7. Orderly(d) /\ (Loadless(loops.db) /\ Loadless(more) => Loadless(d))
    BY ONLY <1>0, <2>4, <2>5, <2>6, GrowOrderly
  <2>8. Closed' => Closed
    BY <1>1, ClosedSteps, KeepsLoads, KeepsFlush, KeepsClose, KeepsBatchOperation,
       KeepsCompleteLoadOnIOThread, KeepsTimerFires DEF Caller
  <2> QED
    BY <1>1, <2>5, <2>7, <2>8, OthersOpen DEF StaysClosed, d, Orderly, Loadless
<1>2. CASE DBThread
  <2>1. PICK more \in Seq(Tasks) :
              /\ \A j \in DOMAIN more : more[j].task \in {"kill", "chain"}
              /\ \/ loops.db' = loops.db \o more
                 \/ loops.db' = Tail(loops.db) \o more /\ backend.step' = "start"
    BY <1>2, TasksLeave
  <2>2. loops.db # <<>> /\ Loadless(more) /\ Orderly(loops.db)
    BY <1>2, <2>1, TasksLeave DEF Loadless, LoadTasks, StaysClosed
  <2>3. PICK q \in Seq(Tasks) :
          /\ loops.db' = q \o more /\ Orderly(q)
          /\ q = loops.db \/ q = Tail(loops.db)
          /\ Loadless(loops.db) => Loadless(q)
    BY <1>0, <2>1, <2>2, ShiftOrderly
  <2> DEFINE d == loops.db'
  <2>4. d = q \o more
    BY <2>3
  <2> HIDE DEF d
  <2>5. Orderly(d) /\ (Loadless(q) => Loadless(d))
    BY <2>2, <2>3, <2>4, GrowOrderly
  <2>6. CASE Closed
    BY <1>2, <2>3, <2>5, <2>6, Unopenable DEF StaysClosed, d, Orderly, Loadless
  <2>7. CASE ~Closed /\ CloseDatabase
    <3>1. loops.db' = Tail(loops.db) /\ Head(loops.db).task = "close" /\ ~backend.open'
      <4>1. loops' = [loops EXCEPT !.db = Tail(@) \o <<>>, !.io = @ \o <<>>]
            /\ \E s : backend' = [backend EXCEPT !.open = FALSE, !.step = s]
        BY <2>7 DEF CloseDatabase, Ends
      <4>2. Tail(loops.db) \o <<>> = Tail(loops.db)
        BY <1>0, <2>2
      <4>3. loops.db' = Tail(loops.db) \o <<>> /\ ~backend.open'
        BY <4>1 DEF IInv, Typed, Records, LoopFields, BackendFields
      <4>4. Head(loops.db).task = "close"
        BY <2>7 DEF CloseDatabase, At
      <4> QED
        BY <4>2, <4>3, <4>4
    <3>2. Loadless(Tail(loops.db))
      BY <1>0, <2>2, <3>1, ShiftOrderly
    <3> QED
      BY <2>5, <3>1, <3>2 DEF StaysClosed, d, Orderly, Loadless
  <2>8. CASE ~Closed /\ ~CloseDatabase
    <3>1. ~Closed'
      BY <1>2, <2>8, ClosedSteps
    <3> QED
      BY <2>5, <3>1 DEF StaysClosed, d, Orderly
  <2> QED
    BY <2>6, <2>7, <2>8
<1>3. CASE Restart
  <2>1. loops.db' = <<>> /\ ~monster.gone'
    BY <1>3 DEF Restart, NewLoops, NewMonster
  <2> QED
    BY <2>1 DEF StaysClosed, Orderly, Closed
<1>4. CASE UNCHANGED vars
  BY <1>4 DEF vars, StaysClosed, Closed, Orderly, Loadless
<1> QED
  BY <1>1, <1>2, <1>3, <1>4 DEF Next

LEMMA StaysClosedInit == Init => StaysClosed
BY DEF Init, NewLoops, NewMonster, StaysClosed, Orderly, Closed

(**************************************************************************)
(* Loading: every cookie is read once, and an answered key has been loaded. *)
(**************************************************************************)
AnswersKey(q, k) == \E i \in DOMAIN q : q[i].task = "load" \/ q[i].key = k
Working == Healthy /\ ~Closed

\* The keys to load are known once the file is open and of the current version.
KeysKnown ==
  /\ backend.initialized => version = CurrentVersion
  /\ backend.step = "upgrade" => ~backend.initialized
  /\ ~backend.initialized => backend.keysToLoad = {} /\ backend.loaded = {}

\* A cookie that has been read is of a key that needs no more loading, and of one the
\* monster has not been answered; a cookie the monster knows although its key was not
\* answered has been read for another load, and is not read again.
ReadOnce ==
  /\ monster.handed \subseteq Cookies
  /\ \A p \in backend.loaded : KeyOf(p[1]) \notin backend.keysToLoad /\ Persists(p[1])
  /\ errors = 0 => \A p \in backend.loaded : KeyOf(p[1]) \notin monster.ready
  /\ \A c \in monster.handed : KeyOf(c) \notin monster.ready =>
       backend.initialized /\ KeyOf(c) \notin backend.keysToLoad /\ c \notin ReadCookies

\* An answer is given, or on its way, only for a key that has been loaded.
AnsweredLoaded ==
  Working => \A k \in Keys : k \in monster.ready \/ AnswersKey(loops.io, k) =>
               backend.initialized /\ k \notin backend.keysToLoad

Reading == KeysKnown /\ ReadOnce /\ AnsweredLoaded

\* The keys a queue answers, with one answer more and with one less.
LEMMA AnswerBehind ==
  ASSUME NEW q \in Seq(Tasks), NEW t \in Tasks, NEW d, d = q \o <<t>>, NEW k, AnswersKey(d, k)
  PROVE  AnswersKey(q, k) \/ t.task = "load" \/ t.key = k
<1>1. /\ <<t>> \in Seq(Tasks) /\ Len(<<t>>) = 1 /\ <<t>>[1] = t
  OBVIOUS
<1>2. /\ Len(q) \in Nat /\ DOMAIN q = 1 .. Len(q) /\ DOMAIN d = 1 .. Len(q) + 1
      /\ \A i \in 1 .. Len(q) + 1 : d[i] = IF i <= Len(q) THEN q[i] ELSE <<t>>[i - Len(q)]
  BY <1>1, Longer
<1>3. PICK i \in DOMAIN d : d[i].task = "load" \/ d[i].key = k
  BY DEF AnswersKey
<1>4. CASE i <= Len(q)
  BY <1>2, <1>3, <1>4 DEF AnswersKey
<1>5. CASE ~(i <= Len(q))
  <2>1. i - Len(q) = 1
    BY <1>2, <1>3, <1>5
  <2> QED
    BY <1>1, <1>2, <1>3, <1>5, <2>1
<1> QED
  BY <1>4, <1>5

LEMMA AnswerTaken ==
  ASSUME NEW q \in Seq(Tasks), q # <<>>, NEW k
  PROVE  /\ AnswersKey(Tail(q), k) => AnswersKey(q, k)
         /\ Head(q).task = "load" \/ Head(q).key = k => AnswersKey(q, k)
<1>1. /\ DOMAIN q = 1 .. Len(q) /\ Len(q) - 1 \in Nat /\ DOMAIN Tail(q) = 1 .. Len(q) - 1
      /\ \A i \in 1 .. Len(q) - 1 : Tail(q)[i] = q[i + 1] /\ i + 1 \in 1 .. Len(q)
      /\ Head(q) = q[1] /\ 1 \in 1 .. Len(q)
  OBVIOUS
<1> QED
  BY <1>1 DEF AnswersKey

\* A store that works has worked before.
LEMMA WorkingBefore ==
  ASSUME IInv, IInv', Caller \/ DBThread \/ CompleteLoadOnIOThread \/ TimerFires
  PROVE  /\ Working' => Working /\ errors' = errors
         /\ errors' = 0 => errors = 0
         /\ errors' = errors \/ errors' = errors + 1
         /\ version' = version \/ backend.step = "upgrade"
<1>1. errors \in Nat /\ version \in Nat /\ errors' \in Nat
  BY DEF IInv, Typed
<1>2. errors' = errors \/ errors' = errors + 1
  <2>1. CASE \/ Load \/ Flush \/ \E keep \in BOOLEAN : Close(keep)
             \/ \E k \in Keys : LoadCookiesForKey(k)
             \/ TimerFires
    BY <2>1, PostsDo
  <2>2. CASE \E o \in Operations : BatchOperation(o)
    BY <2>2, SubmitDoes
  <2>3. CASE CompleteLoadOnIOThread
    BY <2>3, AnswerDoes
  <2>4. CASE OpenDatabase \/ InitializeFails \/ DatabaseTooNew \/ EnsureDatabaseVersion
    BY <2>4, OpeningDoes
  <2>5. CASE ReadKeys
    BY <2>5, ReadingDoes
  <2>6. CASE LoadKey \/ ChainLoadCookies
    BY <2>6, LoadingDoes DEF RowsRead
  <2>7. CASE Commit
    BY <2>7, CommitDoes
  <2>8. CASE WriteBatch
    BY <2>8, WriteDoes
  <2>9. CASE CloseDatabase \/ KillDatabase \/ RunClosure
    BY <2>9, EndingDoes
  <2> QED
    BY <2>1, <2>2, <2>3, <2>4, <2>5, <2>6, <2>7, <2>8, <2>9 DEF Caller, DBThread
<1>3. \/ version' = version
      \/ EnsureDatabaseVersion
  BY DEF Caller, DBThread, Load, Flush, Close, LoadCookiesForKey, TimerFires, BatchOperation,
     CompleteLoadOnIOThread, OpenDatabase, InitializeFails, DatabaseTooNew, ReadKeys, LoadKey,
     ChainLoadCookies, Commit, WriteBatch, CloseDatabase, KillDatabase, RunClosure
<1>4. EnsureDatabaseVersion => version < CurrentVersion /\ backend.step = "upgrade"
  BY DEF EnsureDatabaseVersion, Loading, At
<1>5. Closed => Closed'
  BY ClosedSteps
<1> QED
  BY <1>1, <1>2, <1>3, <1>4, <1>5 DEF Working, Healthy, CurrentVersion

\* A load of a store that works comes after the keys are known.
LEMMA LoadingKnows ==
  ASSUME IInv, LoadKey \/ ChainLoadCookies, Healthy
  PROVE  backend.initialized
<1>1. loops.db \in Seq(Tasks)
  BY DEF IInv, Typed
<1>2. CASE At("chain", "start")
  <2>1. 1 \in DOMAIN loops.db /\ loops.db[1].task = "chain"
    BY <1>1, <1>2 DEF At
  <2> QED
    BY <2>1 DEF IInv, Failing, Has
<1>3. CASE ~MayInitialize
  BY <1>3 DEF MayInitialize, IInv, Failing
<1> QED
  BY <1>2, <1>3 DEF LoadKey, ChainLoadCookies

\* Opening the file answers only when it fails.
LEMMA OpeningAnswers ==
  ASSUME IInv, IInv', OpenDatabase \/ InitializeFails \/ DatabaseTooNew \/ EnsureDatabaseVersion, Working'
  PROVE  UNCHANGED loops.io
<1>1. errors \in Nat /\ version \in Nat
  BY DEF IInv, Typed
<1>2. ~InitializeFails
  <2>1. InitializeFails => errors' = errors + 1
    BY DEF InitializeFails, Error
  <2> QED
    BY <1>1, <2>1 DEF Working, Healthy
<1>3. ~DatabaseTooNew
  BY <1>1 DEF DatabaseTooNew, Working, Healthy, CurrentVersion
<1> QED
  BY <1>2, <1>3 DEF OpenDatabase, EnsureDatabaseVersion

\* Steps that leave loads, answers and the monster's cookies alone.
LEMMA ReadingKept ==
  ASSUME IInv, Reading, SameLoads, UNCHANGED <<version, backend.initialized, loops.io,
           monster.ready, monster.handed>>,
         backend.step' = "upgrade" => ~backend.initialized,
         Working' => Working, errors' = 0 => errors = 0
  PROVE  Reading'
<1>1. KeysKnown'
  BY DEF Reading, KeysKnown, SameLoads
<1>2. ReadOnce'
  BY DEF Reading, ReadOnce, SameLoads, ReadCookies
<1>3. AnsweredLoaded'
  BY DEF Reading, AnsweredLoaded, SameLoads, AnswersKey
<1> QED
  BY <1>1, <1>2, <1>3 DEF Reading

\* Reading, step by step.
LEMMA ReadingSubmit ==
  ASSUME IInv, IInv', Reading, \E o \in Operations : BatchOperation(o)
  PROVE  Reading'
<1>1. PICK o \in Operations : BatchOperation(o)
  OBVIOUS
<1>2. o.cookie \in Cookies /\ KeyOf(o.cookie) \in monster.ready
  <2>1. o \in Table!Ops
    BY DEF Operations
  <2> QED
    BY <1>1, <2>1 DEF Table!Ops, BatchOperation, Possible
<1>3. /\ SameLoads /\ monster.handed' = monster.handed \cup {o.cookie}
      /\ UNCHANGED <<version, errors, backend.initialized, backend.step, monster.ready, loops.io>>
  BY <1>1, SubmitDoes
<1>4. Working' => Working
  BY WorkingBefore DEF Caller
<1>5. KeysKnown'
  BY <1>3 DEF Reading, KeysKnown, SameLoads
<1>6. ReadOnce'
  BY <1>2, <1>3 DEF Reading, ReadOnce, SameLoads, ReadCookies
<1>7. AnsweredLoaded'
  BY <1>3, <1>4 DEF Reading, AnsweredLoaded, SameLoads, AnswersKey
<1> QED
  BY <1>5, <1>6, <1>7 DEF Reading

LEMMA ReadingAnswer ==
  ASSUME IInv, IInv', DataTyped, Reading, CompleteLoadOnIOThread
  PROVE  Reading'
<1>1. /\ loops.io # <<>> /\ loops.io' = Tail(loops.io)
      /\ backend.loaded' = {}
      /\ monster.handed' = monster.handed \cup ReadCookies
      /\ monster.ready' = IF Head(loops.io).task = "load" THEN Keys
                          ELSE monster.ready \cup {Head(loops.io).key}
      /\ UNCHANGED <<version, errors, backend.initialized, backend.step, backend.keysToLoad>>
  BY AnswerDoes
<1>2. Working' => Working
  BY WorkingBefore
<1>3. loops.io \in Seq(Tasks)
  BY DEF IInv, Typed
<1>4. KeysKnown'
  BY <1>1 DEF Reading, KeysKnown
<1>5. ReadOnce'
  <2>1. ReadCookies \subseteq Cookies /\ ReadCookies' = {}
    BY <1>1 DEF ReadCookies, DataTyped
  <2>2. monster.handed' \subseteq Cookies
    BY <1>1, <2>1 DEF Reading, ReadOnce
  <2>3. ASSUME NEW c \in monster.handed', KeyOf(c) \notin monster.ready'
        PROVE  backend.initialized /\ KeyOf(c) \notin backend.keysToLoad
    <3>1. KeyOf(c) \in Keys
      BY <2>2, StoreAssumption
    <3>2. KeyOf(c) \notin monster.ready
      BY <1>1, <2>3, <3>1
    <3>3. CASE c \in monster.handed
      BY <3>2, <3>3 DEF Reading, ReadOnce
    <3>4. CASE c \in ReadCookies
      <4>1. PICK p \in backend.loaded : c = p[1]
        BY <3>4 DEF ReadCookies
      <4> QED
        BY <4>1 DEF Reading, ReadOnce, KeysKnown
    <3> QED
      BY <1>1, <3>3, <3>4
  <2> QED
    BY <1>1, <2>1, <2>2, <2>3 DEF ReadOnce
<1>6. AnsweredLoaded'
  <2> SUFFICES ASSUME Working', NEW k \in Keys, k \in monster.ready' \/ AnswersKey(loops.io', k)
               PROVE  backend.initialized /\ k \notin backend.keysToLoad
    BY <1>1 DEF AnsweredLoaded, AnswersKey
  <2>1. k \in monster.ready \/ AnswersKey(loops.io, k)
    BY <1>1, <1>3, AnswerTaken
  <2> QED
    BY <1>2, <2>1 DEF Reading, AnsweredLoaded
<1> QED
  BY <1>4, <1>5, <1>6 DEF Reading

LEMMA ReadingOpening ==
  ASSUME IInv, IInv', Reading, OpenDatabase \/ InitializeFails \/ DatabaseTooNew \/ EnsureDatabaseVersion
  PROVE  Reading'
<1>1. /\ SameLoads /\ UNCHANGED <<monster, backend.initialized>> /\ ~backend.initialized
  BY OpeningDoes DEF Reading, KeysKnown
<1>2. /\ Working' => Working
      /\ errors' = 0 => errors = 0
  BY WorkingBefore DEF DBThread
<1>3. KeysKnown'
  BY <1>1 DEF Reading, KeysKnown, SameLoads
<1>4. ReadOnce'
  BY <1>1, <1>2 DEF Reading, ReadOnce, SameLoads, ReadCookies
<1>5. AnsweredLoaded'
  <2>1. Working' => UNCHANGED loops.io
    BY OpeningAnswers
  <2> QED
    BY <1>1, <1>2, <2>1 DEF Reading, AnsweredLoaded, SameLoads, AnswersKey
<1> QED
  BY <1>3, <1>4, <1>5 DEF Reading

LEMMA ReadingKeys ==
  ASSUME IInv, IInv', Reading, ReadKeys
  PROVE  Reading'
<1>1. /\ backend.step' = "start" /\ backend.initialized' /\ version = CurrentVersion
      /\ UNCHANGED <<version, monster, backend.loaded, loops.io>>
      /\ backend.loaded = {} /\ ~backend.initialized
  BY ReadingDoes DEF Reading, KeysKnown
<1>2. Working' => Working
  BY WorkingBefore DEF DBThread
<1>3. KeysKnown'
  BY <1>1 DEF KeysKnown
<1>4. ReadOnce'
  BY <1>1 DEF Reading, ReadOnce, ReadCookies
<1>5. AnsweredLoaded'
  BY <1>1, <1>2 DEF Reading, AnsweredLoaded, AnswersKey
<1> QED
  BY <1>3, <1>4, <1>5 DEF Reading

LEMMA ReadingLoads ==
  ASSUME IInv, IInv', DataTyped, StaysClosed, Reading, LoadKey \/ ChainLoadCookies
  PROVE  Reading'
<1>1. /\ \/ UNCHANGED <<backend, errors>>
         \/ backend.open /\ \E k \in backend.keysToLoad : \E rows : RowsRead(k, rows)
      /\ \/ loops.io' = loops.io
         \/ \E t \in Tasks : loops.io' = loops.io \o <<t>> /\ Answers(t)
      /\ backend.step' = "start"
      /\ UNCHANGED <<version, monster>>
  BY LoadingDoes
<1>2. /\ Working' => Working
      /\ errors' = 0 => errors = 0
  BY WorkingBefore DEF DBThread
<1>3. /\ UNCHANGED backend.initialized /\ backend.keysToLoad' \subseteq backend.keysToLoad
      /\ backend.keysToLoad = {} => UNCHANGED backend.loaded /\ UNCHANGED backend.keysToLoad
  BY <1>1 DEF RowsRead
<1>4. KeysKnown'
  BY <1>1, <1>3 DEF Reading, KeysKnown
<1>5. ReadOnce'
  <2>1. CASE UNCHANGED <<backend, errors>>
    BY <1>1, <2>1 DEF Reading, ReadOnce, ReadCookies
  <2>2. ASSUME backend.open, NEW k \in backend.keysToLoad, NEW rows, RowsRead(k, rows)
        PROVE  ReadOnce'
    <3>1. \A p \in rows : KeyOf(p[1]) = k /\ Persists(p[1])
      BY <2>2 DEF RowsRead, Rows
    <3>2. /\ backend.keysToLoad' = backend.keysToLoad \ {k}
          /\ backend.loaded' = backend.loaded \cup rows
      BY <2>2 DEF RowsRead
    <3>3. \A p \in backend.loaded' : KeyOf(p[1]) \notin backend.keysToLoad' /\ Persists(p[1])
      BY <3>1, <3>2 DEF Reading, ReadOnce
    <3>4. errors' = 0 => k \notin monster.ready
      <4>1. SUFFICES ASSUME errors' = 0 PROVE k \notin monster.ready
        OBVIOUS
      <4>2. errors = 0 /\ version = CurrentVersion /\ ~Closed
        BY <1>2, <2>2, <4>1 DEF Reading, KeysKnown, StaysClosed
      <4>3. Working /\ k \in Keys
        <5>1. k \in Keys
          BY <2>2 DEF DataTyped
        <5> QED
          BY <4>2, <5>1 DEF Working, Healthy, CurrentVersion
      <4> QED
        BY <4>3 DEF Reading, AnsweredLoaded
    <3>5. errors' = 0 => \A p \in backend.loaded' : KeyOf(p[1]) \notin monster.ready'
      BY <1>1, <1>2, <3>1, <3>2, <3>4 DEF Reading, ReadOnce
    <3>6. ASSUME NEW c \in monster.handed', KeyOf(c) \notin monster.ready'
          PROVE  backend.initialized' /\ KeyOf(c) \notin backend.keysToLoad' /\ c \notin ReadCookies'
      <4>1. backend.initialized /\ KeyOf(c) \notin backend.keysToLoad /\ c \notin ReadCookies
        BY <1>1, <3>6 DEF Reading, ReadOnce
      <4>2. \A p \in rows : p[1] # c
        BY <2>2, <3>1, <4>1
      <4> QED
        BY <1>3, <3>2, <4>1, <4>2 DEF ReadCookies
    <3> QED
      BY <1>1, <3>3, <3>5, <3>6 DEF Reading, ReadOnce
  <2> QED
    BY <1>1, <2>1, <2>2
<1>6. AnsweredLoaded'
  <2> SUFFICES ASSUME Working', NEW k \in Keys, k \in monster.ready' \/ AnswersKey(loops.io', k)
               PROVE  backend.initialized' /\ k \notin backend.keysToLoad'
    BY DEF AnsweredLoaded
  <2>1. backend.initialized' /\ backend.initialized
    BY <1>2, <1>3, LoadingKnows DEF Working
  <2>2. backend.open'
    BY <2>1 DEF IInv, Failing, Working
  <2>3. CASE k \in monster.ready \/ AnswersKey(loops.io, k)
    BY <1>2, <1>3, <2>1, <2>3 DEF Reading, AnsweredLoaded
  <2>4. CASE ~(k \in monster.ready \/ AnswersKey(loops.io, k))
    <3>1. AnswersKey(loops.io', k) /\ loops.io' # loops.io
      BY <1>1, <2>4
    <3>2. PICK t \in Tasks : loops.io' = loops.io \o <<t>> /\ Answers(t)
      BY <1>1, <3>1
    <3>3. loops.io \in Seq(Tasks)
      BY DEF IInv, Typed
    <3> DEFINE d == loops.io'
    <3>4. d = loops.io \o <<t>> /\ AnswersKey(d, k)
      BY <3>1, <3>2
    <3> HIDE DEF d
    <3>5. t.task = "load" \/ t.key = k
      BY <2>4, <3>3, <3>4, AnswerBehind
    <3> QED
      BY <2>1, <2>2, <3>2, <3>5 DEF Answers
  <2> QED
    BY <2>3, <2>4
<1> QED
  BY <1>4, <1>5, <1>6 DEF Reading

LEMMA ReadingStep ==
  ASSUME IInv, IInv', DataTyped, StaysClosed, Reading, [Next]_vars
  PROVE  Reading'
<1>1. CASE \/ Load \/ Flush \/ \E keep \in BOOLEAN : Close(keep)
           \/ \E k \in Keys : LoadCookiesForKey(k)
           \/ TimerFires
  <2>1. /\ SameLoads /\ SameView
        /\ UNCHANGED <<version, errors, backend.initialized, backend.step, loops.io>>
    BY <1>1, PostsDo
  <2>2. Working' => Working
    BY <1>1, WorkingBefore DEF Caller
  <2>3. backend.step' = "upgrade" => ~backend.initialized
    BY <2>1 DEF Reading, KeysKnown
  <2> QED
    BY <2>1, <2>2, <2>3, ReadingKept DEF SameView
<1>2. CASE Commit \/ WriteBatch \/ CloseDatabase \/ KillDatabase \/ RunClosure
  <2>1. Working' => Working /\ errors' = errors
    BY <1>2, WorkingBefore DEF DBThread
  <2>2. errors' = 0 => errors = 0
    BY <1>2, WorkingBefore DEF DBThread
  <2>3. backend.step' # "upgrade"
    BY <1>2, CommitDoes, WriteDoes, EndingDoes
  <2>4. UNCHANGED <<backend.keysToLoad, backend.loaded, version, monster, backend.initialized, loops.io>>
    BY <1>2, CommitDoes, WriteDoes, EndingDoes DEF SameLoads
  <2>5. KeysKnown'
    BY <2>3, <2>4 DEF Reading, KeysKnown
  <2>6. ReadOnce'
    BY <2>2, <2>4 DEF Reading, ReadOnce, ReadCookies
  <2>7. AnsweredLoaded'
    BY <2>1, <2>4 DEF Reading, AnsweredLoaded, AnswersKey
  <2> QED
    BY <2>5, <2>6, <2>7 DEF Reading
<1>3. CASE Restart
  <2>1. /\ backend.step' = "start" /\ ~backend.initialized' /\ backend.keysToLoad' = {}
        /\ backend.loaded' = {} /\ monster.handed' = {} /\ monster.ready' = {} /\ loops.io' = <<>>
    BY <1>3 DEF Restart, NewBackend, NewMonster, NewLoops
  <2> QED
    BY <2>1 DEF Reading, KeysKnown, ReadOnce, AnsweredLoaded, AnswersKey
<1>4. CASE UNCHANGED vars
  <2>1. (Working' <=> Working) /\ (errors' = 0 => errors = 0) /\ SameLoads
        /\ UNCHANGED <<version, backend.initialized, backend.step, loops.io, monster.ready, monster.handed>>
    BY <1>4 DEF vars, Working, Healthy, Closed, SameLoads
  <2>2. backend.step' = "upgrade" => ~backend.initialized
    BY <2>1 DEF Reading, KeysKnown
  <2> QED
    BY <2>1, <2>2, ReadingKept
<1> QED
  BY <1>1, <1>2, <1>3, <1>4, ReadingSubmit, ReadingAnswer, ReadingOpening, ReadingKeys, ReadingLoads
  DEF Next, Caller, DBThread

LEMMA ReadingInit == Init => Reading
<1> SUFFICES ASSUME Init PROVE Reading
  OBVIOUS
<1>1. /\ backend.step = "start" /\ ~backend.initialized /\ backend.keysToLoad = {}
      /\ backend.loaded = {} /\ monster.handed = {} /\ monster.ready = {} /\ loops.io = <<>>
  BY DEF Init, NewBackend, NewMonster, NewLoops
<1> QED
  BY <1>1 DEF Reading, KeysKnown, ReadOnce, AnsweredLoaded, AnswersKey

LEMMA ReadingHolds == Spec => [](IInv /\ DataTyped /\ StaysClosed /\ Reading)
<1>1. IInv /\ DataTyped /\ StaysClosed /\ Reading /\ [Next]_vars
        => IInv' /\ DataTyped' /\ StaysClosed' /\ Reading'
  BY NextIInv, DataStep, StaysClosedStep, ReadingStep
<1> QED
  BY <1>1, InitIInv, DataInit, StaysClosedInit, ReadingInit, PTL DEF Spec

\* As long as opening the file has not failed, what has been read is of no key that was
\* answered, and a key that was answered has been loaded, or can no longer be: only a
\* store that was never initialized opens the file again.
Opened ==
  /\ ~backend.openFailed =>
       /\ \A p \in backend.loaded : KeyOf(p[1]) \notin monster.ready
       /\ \A k \in Keys : k \in monster.ready \/ AnswersKey(loops.io, k) =>
            backend.initialized /\ (backend.open => k \notin backend.keysToLoad)
       /\ backend.corruption => backend.initialized
  /\ backend.step = "write" => backend.initialized

\* Steps that neither load nor answer nor open.
LEMMA OpenedKept ==
  ASSUME Opened, SameLoads,
         UNCHANGED <<backend.openFailed, backend.initialized, monster.ready, loops.io>>,
         backend.open' => backend.open,
         backend.corruption' => backend.corruption \/ backend.initialized,
         backend.step' = "write" => backend.initialized
  PROVE  Opened'
BY DEF Opened, SameLoads, AnswersKey

\* Steps that have nothing to do with opening the file.
LEMMA Untried ==
  ASSUME IInv,
         \/ Load \/ Flush \/ \E keep \in BOOLEAN : Close(keep)
         \/ \E k \in Keys : LoadCookiesForKey(k)
         \/ TimerFires \/ CompleteLoadOnIOThread
         \/ \E o \in Operations : BatchOperation(o)
         \/ EnsureDatabaseVersion \/ Commit
         \/ CloseDatabase \/ KillDatabase \/ RunClosure
  PROVE  /\ UNCHANGED <<backend.openFailed, backend.corruption>>
         /\ backend.open' => backend.open
<1>1. CASE \/ Load \/ Flush \/ \E keep \in BOOLEAN : Close(keep)
           \/ \E k \in Keys : LoadCookiesForKey(k)
           \/ TimerFires \/ CompleteLoadOnIOThread \/ EnsureDatabaseVersion \/ RunClosure
  <2>1. \/ backend' = backend
        \/ \E keep \in BOOLEAN : backend' = [backend EXCEPT !.forceKeep = keep]
        \/ backend' = [backend EXCEPT !.loaded = {}]
    BY <1>1 DEF Load, Flush, Close, LoadCookiesForKey, CompleteLoadOnIOThread, TimerFires,
       EnsureDatabaseVersion, RunClosure
  <2> QED
    BY <2>1 DEF IInv, Typed, Records, BackendFields
<1>2. CASE \E o \in Operations : BatchOperation(o)
  <2>1. PICK o \in Operations : backend' = [backend EXCEPT !.pending = Append(@, o),
                                                        !.numPending = backend.numPending + 1]
    BY <1>2, Zenon DEF BatchOperation
  <2> QED
    BY <2>1 DEF IInv, Typed, Records, BackendFields
<1>3. CASE Commit
  <2>1. \E b, s : backend' = [backend EXCEPT !.batch = b, !.pending = <<>>, !.numPending = 0, !.step = s]
    BY <1>3, Zenon DEF Commit
  <2> QED
    BY <2>1 DEF IInv, Typed, Records, BackendFields
<1>4. CASE CloseDatabase
  <2>1. backend' = [backend EXCEPT !.open = FALSE, !.step = "start"]
    BY <1>4 DEF CloseDatabase
  <2> QED
    BY <2>1 DEF IInv, Typed, Records, BackendFields
<1>5. CASE KillDatabase
  <2>1. backend' = [backend EXCEPT !.open = FALSE]
    BY <1>5 DEF KillDatabase
  <2> QED
    BY <2>1 DEF IInv, Typed, Records, BackendFields
<1> QED
  BY <1>1, <1>2, <1>3, <1>4, <1>5

LEMMA OpenedQuiet ==
  ASSUME IInv, IInv', Reading, Opened,
         \/ Load \/ Flush \/ \E keep \in BOOLEAN : Close(keep)
         \/ \E k \in Keys : LoadCookiesForKey(k)
         \/ TimerFires
         \/ \E o \in Operations : BatchOperation(o)
         \/ EnsureDatabaseVersion \/ Commit \/ WriteBatch
         \/ CloseDatabase \/ KillDatabase \/ RunClosure
  PROVE  Opened'
<1>1. CASE \/ Load \/ Flush \/ \E keep \in BOOLEAN : Close(keep)
           \/ \E k \in Keys : LoadCookiesForKey(k)
           \/ TimerFires
  <2>1. SameLoads /\ UNCHANGED <<backend.initialized, backend.step, monster.ready, loops.io>>
    BY <1>1, PostsDo DEF SameView
  <2>2. backend.step' = "write" => backend.initialized
    BY <2>1 DEF Opened
  <2>3. UNCHANGED <<backend.openFailed, backend.corruption>> /\ (backend.open' => backend.open)
    BY <1>1, Untried
  <2> QED
    BY <2>1, <2>2, <2>3, OpenedKept
<1>2. CASE \E o \in Operations : BatchOperation(o)
  <2>1. SameLoads /\ UNCHANGED <<backend.initialized, backend.step, monster.ready, loops.io>>
    BY <1>2, SubmitDoes
  <2>2. backend.step' = "write" => backend.initialized
    BY <2>1 DEF Opened
  <2>3. UNCHANGED <<backend.openFailed, backend.corruption>> /\ (backend.open' => backend.open)
    BY <1>2, Untried
  <2> QED
    BY <2>1, <2>2, <2>3, OpenedKept
<1>3. CASE EnsureDatabaseVersion
  <2>1. UNCHANGED <<backend, loops, monster>>
    BY <1>3 DEF EnsureDatabaseVersion
  <2>2. backend.step' = "write" => backend.initialized
    BY <2>1 DEF Opened
  <2> QED
    BY <2>1, <2>2, OpenedKept DEF SameLoads
<1>4. CASE Commit
  <2>1. /\ SameLoads /\ UNCHANGED <<backend.initialized, backend.open, monster.ready, loops.io>>
        /\ backend.step = "start"
        /\ IF backend.open /\ backend.pending # <<>>
             THEN backend.step' = "write" ELSE backend.step' \in {"start", "close"}
    BY <1>4, CommitDoes
  <2>2. backend.step' = "write" => backend.initialized
    BY <2>1 DEF IInv, Failing
  <2>3. UNCHANGED <<backend.openFailed, backend.corruption>> /\ (backend.open' => backend.open)
    BY <1>4, Untried
  <2> QED
    BY <2>1, <2>2, <2>3, OpenedKept
<1>5. CASE WriteBatch
  <2>1. /\ backend.step = "write" /\ backend.step' \in {"start", "close"}
        /\ UNCHANGED <<backend.initialized, backend.open, backend.keysToLoad, backend.loaded,
                       monster.ready, loops.io>>
    BY <1>5, WriteDoes
  <2>2. backend.initialized
    BY <2>1 DEF Opened
  <2>3. PICK corrupt, counts, s : backend' = [backend EXCEPT
             !.batch = <<>>, !.perOrigin = counts, !.corruption = @ \/ corrupt, !.step = s]
    BY <1>5, WriteCases, Zenon
  <2>4. UNCHANGED backend.openFailed
    BY <2>3 DEF IInv, Typed, Records, BackendFields
  <2> QED
    BY <2>1, <2>2, <2>4 DEF Opened, AnswersKey
<1>6. CASE CloseDatabase \/ KillDatabase \/ RunClosure
  <2>1. SameLoads /\ backend.step' = "start" /\ UNCHANGED <<backend.initialized, monster, loops.io>>
    BY <1>6, EndingDoes
  <2>2. UNCHANGED <<backend.openFailed, backend.corruption>> /\ (backend.open' => backend.open)
    BY <1>6, Untried
  <2> QED
    BY <2>1, <2>2, OpenedKept
<1> QED
  BY <1>1, <1>2, <1>3, <1>4, <1>5, <1>6

LEMMA OpenedAnswer ==
  ASSUME IInv, Opened, CompleteLoadOnIOThread
  PROVE  Opened'
<1>1. /\ loops.io # <<>> /\ loops.io' = Tail(loops.io) /\ loops.io \in Seq(Tasks)
      /\ backend.loaded' = {}
      /\ monster.ready' = IF Head(loops.io).task = "load" THEN Keys
                          ELSE monster.ready \cup {Head(loops.io).key}
      /\ UNCHANGED <<backend.initialized, backend.step, backend.keysToLoad>>
  BY AnswerDoes DEF IInv, Typed
<1>2. UNCHANGED <<backend.openFailed, backend.corruption>> /\ (backend.open' => backend.open)
  BY Untried
<1>3. \A k \in Keys : k \in monster.ready' \/ AnswersKey(loops.io', k)
                        => k \in monster.ready \/ AnswersKey(loops.io, k)
  BY <1>1, AnswerTaken
<1> QED
  BY <1>1, <1>2, <1>3 DEF Opened

\* Only a store that has answered no key, or has failed to open the file, opens it.
LEMMA OpenedOpening ==
  ASSUME IInv, IInv', Reading, Opened, OpenDatabase \/ InitializeFails \/ DatabaseTooNew
  PROVE  Opened'
<1>1. CASE OpenDatabase
  <2>1. /\ ~backend.initialized
        /\ backend' = [backend EXCEPT !.open = TRUE, !.step = "upgrade"]
        /\ UNCHANGED <<loops, monster>>
    BY <1>1 DEF OpenDatabase, MayInitialize
  <2>2. /\ UNCHANGED <<backend.openFailed, backend.corruption, backend.initialized, backend.loaded>>
        /\ backend.step' = "upgrade"
    BY <2>1 DEF IInv, Typed, Records, BackendFields
  <2> QED
    BY <2>1, <2>2 DEF Opened, AnswersKey
<1>2. CASE InitializeFails
  <2>1. \E c : backend' = [backend EXCEPT !.open = FALSE, !.step = "start", !.openFailed = TRUE,
                                         !.corruption = @ \/ c]
    BY <1>2 DEF InitializeFails
  <2>2. backend.openFailed' /\ backend.step' = "start"
    BY <2>1 DEF IInv, Typed, Records, BackendFields
  <2> QED
    BY <2>2 DEF Opened
<1>3. CASE DatabaseTooNew
  <2>1. backend' = [backend EXCEPT !.open = FALSE, !.step = "start", !.openFailed = TRUE]
    BY <1>3 DEF DatabaseTooNew
  <2>2. backend.openFailed' /\ backend.step' = "start"
    BY <2>1 DEF IInv, Typed, Records, BackendFields
  <2> QED
    BY <2>2 DEF Opened
<1> QED
  BY <1>1, <1>2, <1>3

LEMMA OpenedKeys ==
  ASSUME IInv, Reading, Opened, ReadKeys
  PROVE  Opened'
<1>1. /\ backend.step = "upgrade" /\ backend.step' = "start" /\ backend.initialized'
      /\ UNCHANGED <<monster, backend.loaded, loops.io>>
      /\ ~backend.initialized
  BY ReadingDoes DEF Reading, KeysKnown
<1>2. PICK ks, corrupt : backend' = [backend EXCEPT
               !.keysToLoad = ks, !.initialized = TRUE, !.step = "start",
               !.corruption = @ \/ corrupt]
  BY Zenon DEF ReadKeys
<1>3. UNCHANGED backend.openFailed
  BY <1>2 DEF IInv, Typed, Records, BackendFields
<1> QED
  BY <1>1, <1>3 DEF Opened, AnswersKey

LEMMA OpenedLoads ==
  ASSUME IInv, DataTyped, Reading, Opened, LoadKey \/ ChainLoadCookies
  PROVE  Opened'
<1>1. /\ \/ UNCHANGED <<backend, errors>>
         \/ backend.open /\ \E k \in backend.keysToLoad : \E rows : RowsRead(k, rows)
      /\ \/ loops.io' = loops.io
         \/ \E t \in Tasks : loops.io' = loops.io \o <<t>> /\ Answers(t)
      /\ backend.step = "start" /\ backend.step' = "start"
      /\ UNCHANGED monster
  BY LoadingDoes
<1>2. ASSUME NEW k, NEW success, NEW error, LoadCookiesForDomains(k, success, error)
      PROVE  UNCHANGED backend.openFailed
  <2>1. PICK rows : backend' = [backend EXCEPT
            !.keysToLoad = @ \ {k}, !.loaded = @ \cup rows, !.open = success,
            !.perOrigin[k] = @ + Cardinality(rows),
            !.corruption = @ \/ error = "catastrophic"]
    BY <1>2 DEF LoadCookiesForDomains
  <2> QED
    BY <2>1 DEF IInv, Typed, Records, BackendFields
<1>3. UNCHANGED backend.openFailed
  <2>1. CASE LoadKey
    <3>1. \/ \E success \in BOOLEAN, error \in Failures :
               LoadCookiesForDomains(Head(loops.db).key, success, error)
          \/ UNCHANGED <<backend, errors>>
      BY <2>1 DEF LoadKey
    <3> QED
      BY <1>2, <3>1
  <2>2. CASE ChainLoadCookies
    <3>1. \/ \E k \in backend.keysToLoad, success \in BOOLEAN, error \in Failures :
               LoadCookiesForDomains(k, success, error)
          \/ UNCHANGED <<backend, errors>>
      BY <2>2 DEF ChainLoadCookies
    <3> QED
      BY <1>2, <3>1
  <2> QED
    BY <2>1, <2>2
<1> SUFFICES ASSUME ~backend.openFailed PROVE Opened'
  BY <1>1, <1>3 DEF Opened
<1>4. backend.initialized /\ (backend.open' => backend.open)
  <2>1. backend.open => backend.initialized
    BY <1>1 DEF IInv, Failing
  <2>2. At("chain", "start") \/ ~MayInitialize
    BY DEF LoadKey, ChainLoadCookies
  <2>3. CASE At("chain", "start")
    <3>1. loops.db \in Seq(Tasks)
      BY DEF IInv, Typed
    <3>2. 1 \in DOMAIN loops.db /\ loops.db[1].task = "chain"
      BY <2>3, <3>1 DEF At
    <3> QED
      BY <1>1, <3>2 DEF IInv, Failing, Has
  <2>4. CASE ~MayInitialize
    BY <1>1, <2>4 DEF MayInitialize, Opened
  <2> QED
    BY <2>2, <2>3, <2>4
<1>5. UNCHANGED backend.initialized /\ backend.keysToLoad' \subseteq backend.keysToLoad
  BY <1>1 DEF RowsRead
<1>6. \A p \in backend.loaded' : KeyOf(p[1]) \notin monster.ready'
  <2>1. CASE UNCHANGED backend
    BY <1>1, <2>1 DEF Opened
  <2>2. ASSUME backend.open, NEW k \in backend.keysToLoad, NEW rows, RowsRead(k, rows)
        PROVE  \A p \in backend.loaded' : KeyOf(p[1]) \notin monster.ready'
    <3>1. \A p \in rows : KeyOf(p[1]) = k
      BY <2>2 DEF RowsRead, Rows
    <3>2. k \in Keys /\ backend.loaded' = backend.loaded \cup rows
      BY <2>2 DEF RowsRead, DataTyped
    <3>3. k \notin monster.ready
      BY <2>2, <3>2 DEF Opened
    <3> QED
      BY <1>1, <3>1, <3>2, <3>3 DEF Opened
  <2> QED
    BY <1>1, <2>1, <2>2
<1>7. ASSUME NEW k \in Keys, k \in monster.ready' \/ AnswersKey(loops.io', k), backend.open'
      PROVE  k \notin backend.keysToLoad'
  <2>1. CASE k \in monster.ready \/ AnswersKey(loops.io, k)
    BY <1>4, <1>5, <1>7, <2>1 DEF Opened
  <2>2. CASE ~(k \in monster.ready \/ AnswersKey(loops.io, k))
    <3>1. AnswersKey(loops.io', k) /\ loops.io' # loops.io
      BY <1>1, <1>7, <2>2
    <3>2. PICK t \in Tasks : loops.io' = loops.io \o <<t>> /\ Answers(t)
      BY <1>1, <3>1
    <3>3. loops.io \in Seq(Tasks)
      BY DEF IInv, Typed
    <3> DEFINE d == loops.io'
    <3>4. d = loops.io \o <<t>> /\ AnswersKey(d, k)
      BY <3>1, <3>2
    <3> HIDE DEF d
    <3>5. t.task = "load" \/ t.key = k
      BY <2>2, <3>3, <3>4, AnswerBehind
    <3> QED
      BY <1>7, <3>2, <3>5 DEF Answers
  <2> QED
    BY <2>1, <2>2
<1> QED
  BY <1>1, <1>4, <1>5, <1>6, <1>7 DEF Opened

LEMMA OpenedStep ==
  ASSUME IInv, IInv', DataTyped, Reading, Opened, [Next]_vars
  PROVE  Opened'
<1>1. CASE Restart
  <2>1. /\ backend.step' = "start" /\ backend.loaded' = {} /\ ~backend.corruption'
        /\ monster.ready' = {} /\ loops.io' = <<>>
    BY <1>1 DEF Restart, NewBackend, NewMonster, NewLoops
  <2> QED
    BY <2>1 DEF Opened, AnswersKey
<1>2. CASE UNCHANGED vars
  <2>1. UNCHANGED <<backend, loops, monster>>
    BY <1>2 DEF vars
  <2>2. backend.step' = "write" => backend.initialized
    BY <2>1 DEF Opened
  <2> QED
    BY <2>1, <2>2, OpenedKept DEF SameLoads
<1> QED
  BY <1>1, <1>2, OpenedQuiet, OpenedAnswer, OpenedOpening, OpenedKeys, OpenedLoads
  DEF Next, Caller, DBThread

LEMMA OpenedInit == Init => Opened
<1> SUFFICES ASSUME Init PROVE Opened
  OBVIOUS
<1>1. /\ backend.step = "start" /\ backend.loaded = {} /\ ~backend.corruption
      /\ monster.ready = {} /\ loops.io = <<>>
  BY DEF Init, NewBackend, NewMonster, NewLoops
<1> QED
  BY <1>1 DEF Opened, AnswersKey

\* No cookie reaches the monster twice, however the loads of keys, the chain and new
\* cookies overlap and whatever errors SQLite reports, unless opening the file has failed.
THEOREM NoneHandedTwice == Spec => []HandedOnce
<1>1. IInv /\ DataTyped /\ Reading /\ Opened => HandedOnce
  <2> SUFFICES ASSUME IInv, DataTyped, Reading, Opened PROVE HandedOnce
    OBVIOUS
  <2> DEFINE known == {c \in monster.handed : ~backend.openFailed \/ KeyOf(c) \notin monster.ready}
  <2>1. ASSUME NEW c \in ReadCookies, c \in known PROVE FALSE
    <3>1. PICK p \in backend.loaded : p[1] = c
      BY DEF ReadCookies
    <3>2. KeyOf(c) \notin monster.ready
      BY <2>1, <3>1 DEF Opened
    <3> QED
      BY <2>1, <3>2 DEF Reading, ReadOnce
  <2>2. ASSUME backend.open, NEW k \in backend.keysToLoad, NEW p \in Rows(k),
               p[1] \in ReadCookies \/ p[1] \in known
        PROVE  FALSE
    <3>1. p[1] \in Cookies /\ KeyOf(p[1]) = k /\ k \in Keys
      BY DEF Rows, DataTyped
    <3>2. CASE p[1] \in ReadCookies
      <4>1. PICK q \in backend.loaded : q[1] = p[1]
        BY <3>2 DEF ReadCookies
      <4> QED
        BY <3>1, <4>1 DEF Reading, ReadOnce
    <3>3. CASE p[1] \in known /\ k \notin monster.ready
      BY <3>1, <3>3 DEF Reading, ReadOnce
    <3>4. CASE ~backend.openFailed /\ k \in monster.ready
      BY <2>2, <3>1, <3>4 DEF Opened
    <3> QED
      BY <2>2, <3>1, <3>2, <3>3, <3>4
  <2> DEFINE read == {p[1] : p \in backend.loaded}
  <2>3. read = ReadCookies
    BY DEF ReadCookies
  <2>4. read \cap known = {}
    BY <2>1, <2>3
  <2>5. backend.open => \A k \in backend.keysToLoad : {p[1] : p \in Rows(k)} \cap (read \cup known) = {}
    <3> HIDE DEF read, known
    <3> QED
      BY <2>2, <2>3
  <2> QED
    BY <2>4, <2>5 DEF HandedOnce
<1>2. IInv /\ DataTyped /\ StaysClosed /\ Reading /\ Opened /\ [Next]_vars
        => IInv' /\ DataTyped' /\ StaysClosed' /\ Reading' /\ Opened'
  BY NextIInv, DataStep, StaysClosedStep, ReadingStep, OpenedStep
<1>3. Init => IInv /\ DataTyped /\ StaysClosed /\ Reading /\ Opened
  BY InitIInv, DataInit, StaysClosedInit, ReadingInit, OpenedInit
<1> QED
  BY <1>1, <1>2, <1>3, PTL DEF Spec

(**************************************************************************)
(* The file and what is on its way to it are what the monster sees.        *)
(**************************************************************************)
Expected == Table!Applied(table, Waiting)   \* the file once the operations on their way are in it

\* As long as the store works, operations are about cookies the monster knows, of keys it
\* was answered; what was read is as it is on disk; and the cookies of a loaded key that
\* are not on their way to the monster are in the file as the monster sees them.
Seen ==
  Working =>
    /\ \A i \in DOMAIN Waiting : /\ Waiting[i].cookie \in monster.handed
                                 /\ KeyOf(Waiting[i].cookie) \in monster.ready
    /\ \A c \in Cookies : c \notin monster.handed => monster.view[c] = Absent
    /\ \A p \in backend.loaded : p[2] = table[p[1]]
    /\ \A c \in Cookies :
         Persists(c) /\ backend.initialized /\ KeyOf(c) \notin backend.keysToLoad /\ c \notin ReadCookies
           => Expected[c] = monster.view[c]

Invariants == IInv /\ DataTyped /\ StaysClosed /\ Reading /\ Seen

\* What the invariants say of a cookie that is read, to be read, or known.
LEMMA Apart ==
  ASSUME Invariants, Working
  PROVE  /\ Waiting \in Seq(Table!Ops) /\ table \in Tables /\ Expected \in Tables
         /\ \A c \in Cookies : c \in ReadCookies \/ KeyOf(c) \in backend.keysToLoad
                                 => c \notin monster.handed
         /\ \A c \in Cookies : c \notin monster.handed => Expected[c] = table[c]
         /\ \A c \in Cookies : KeyOf(c) \in monster.ready =>
              backend.initialized /\ KeyOf(c) \notin backend.keysToLoad /\ c \notin ReadCookies
         /\ ~backend.initialized => monster.handed = {}
<1>1. Waiting \in Seq(Table!Ops)
  BY WaitingTyped DEF WaitingWell, Invariants
<1>2. table \in Tables
  BY DEF Invariants, DataTyped
<1>3. Expected \in Tables
  BY <1>1, <1>2, AppliedTyped DEF Expected
<1>4. \A c \in Cookies : KeyOf(c) \in Keys
  BY StoreAssumption
<1>5. errors = 0
  BY DEF Working, Healthy
<1>6. ASSUME NEW c \in Cookies, KeyOf(c) \in monster.ready
      PROVE  backend.initialized /\ KeyOf(c) \notin backend.keysToLoad /\ c \notin ReadCookies
  <2>1. backend.initialized /\ KeyOf(c) \notin backend.keysToLoad
    BY <1>4, <1>6 DEF Invariants, Reading, AnsweredLoaded
  <2>2. c \notin ReadCookies
    <3> SUFFICES ASSUME c \in ReadCookies PROVE FALSE
      OBVIOUS
    <3>1. PICK p \in backend.loaded : p[1] = c
      BY DEF ReadCookies
    <3> QED
      BY <1>5, <1>6, <3>1 DEF Invariants, Reading, ReadOnce
  <2> QED
    BY <2>1, <2>2
<1>7. \A c \in monster.handed : backend.initialized /\ KeyOf(c) \notin backend.keysToLoad /\ c \notin ReadCookies
  <2>1. monster.handed \subseteq Cookies
    BY DEF Invariants, Reading, ReadOnce
  <2>2. \A c \in monster.handed : KeyOf(c) \notin monster.ready =>
          backend.initialized /\ KeyOf(c) \notin backend.keysToLoad /\ c \notin ReadCookies
    BY DEF Invariants, Reading, ReadOnce
  <2> QED
    BY <1>6, <2>1, <2>2
<1>8. ASSUME NEW c \in Cookies, c \notin monster.handed
      PROVE  Expected[c] = table[c]
  <2>1. \A i \in DOMAIN Waiting : Waiting[i].cookie # c
    BY <1>8 DEF Invariants, Seen
  <2> QED
    BY <1>1, <1>2, <2>1, AppliedUntouched DEF Expected
<1> QED
  BY <1>1, <1>2, <1>3, <1>6, <1>7, <1>8

\* An operation touches its own cookie, and does so by that cookie alone.
LEMMA EffectHere ==
  ASSUME NEW t \in Tables, NEW u \in Tables, NEW o \in Table!Ops
  PROVE  \A c \in Cookies :
           /\ c # o.cookie => Table!Effect(t, o)[c] = t[c]
           /\ t[c] = u[c] => Table!Effect(t, o)[c] = Table!Effect(u, o)[c]
BY DEF Table!Ops, Table!Effect, Tables

\* Steps that change nothing of what Seen is about, or after which the store does not work.
LEMMA SeenKept ==
  ASSUME Seen, Working' => Working,
         Working' => /\ Waiting' = Waiting /\ table' = table
                     /\ UNCHANGED <<monster.handed, monster.ready, monster.view, backend.loaded,
                                    backend.initialized, backend.keysToLoad>>
  PROVE  Seen'
<1> SUFFICES ASSUME Working' PROVE Seen'
  BY DEF Seen
<1>1. Expected' = Expected
  BY DEF Expected
<1> QED
  BY <1>1 DEF Seen, ReadCookies

\* Seen, step by step.
LEMMA SeenSubmit ==
  ASSUME Invariants, IInv', \E o \in Operations : BatchOperation(o)
  PROVE  Seen'
<1>0. IInv /\ Reading
  BY DEF Invariants
<1> SUFFICES ASSUME Working' PROVE Seen'
  BY DEF Seen
<1>1. PICK o \in Operations : BatchOperation(o)
  OBVIOUS
<1>2. o \in Table!Ops /\ o.cookie \in Cookies /\ KeyOf(o.cookie) \in monster.ready
  <2>1. o \in Table!Ops
    BY DEF Operations
  <2> QED
    BY <1>1, <2>1 DEF Table!Ops, BatchOperation, Possible
<1>3. /\ backend.pending' = Append(backend.pending, o) /\ UNCHANGED <<table, backend.batch, backend.initialized>>
      /\ SameLoads /\ monster.handed' = monster.handed \cup {o.cookie}
      /\ monster.view' = Table!Effect(monster.view, o) /\ UNCHANGED monster.ready
  BY <1>0, <1>1, SubmitDoes
<1>4. Working
  BY <1>0, WorkingBefore DEF Caller
<1>5. /\ Waiting \in Seq(Table!Ops) /\ table \in Tables /\ Expected \in Tables
      /\ backend.initialized /\ KeyOf(o.cookie) \notin backend.keysToLoad /\ o.cookie \notin ReadCookies
  BY <1>2, <1>4, Apart
<1>6. Waiting' = Append(Waiting, o)
  <2>1. backend.pending \in Seq(Table!Ops) /\ backend.batch \in Seq(Table!Ops)
    BY <1>0 DEF IInv, Typed
  <2> DEFINE a == backend.batch
             b == backend.pending
  <2>2. a \in Seq(Table!Ops) /\ b \in Seq(Table!Ops) /\ o \in Table!Ops
    BY <1>2, <2>1
  <2>3. a \o Append(b, o) = Append(a \o b, o)
    <3> HIDE DEF a, b
    <3> QED
      BY ONLY <2>2, AppendBehind
  <2> QED
    BY <1>3, <2>3 DEF Waiting
<1>7. Expected' = Table!Effect(Expected, o)
  BY <1>2, <1>3, <1>5, <1>6, AppliedAppend DEF Expected
<1>8. monster.view \in Tables
  BY DEF Invariants, DataTyped
<1>9. \A i \in DOMAIN Waiting' : /\ Waiting'[i].cookie \in monster.handed'
                                 /\ KeyOf(Waiting'[i].cookie) \in monster.ready'
  <2>1. \A i \in DOMAIN Waiting : /\ Waiting[i].cookie \in monster.handed
                                  /\ KeyOf(Waiting[i].cookie) \in monster.ready
    BY <1>4 DEF Invariants, Seen
  <2>2. \A i \in DOMAIN Append(Waiting, o) :
           Append(Waiting, o)[i] = o \/ (i \in DOMAIN Waiting /\ Append(Waiting, o)[i] = Waiting[i])
    BY <1>2, <1>5
  <2> QED
    BY <1>2, <1>3, <1>6, <2>1, <2>2
<1>10. ASSUME NEW c \in Cookies, c \notin monster.handed'
       PROVE  monster.view'[c] = Absent
  <2>1. c # o.cookie /\ c \notin monster.handed
    BY <1>3, <1>10
  <2>2. monster.view[c] = Absent
    BY <1>4, <2>1 DEF Invariants, Seen
  <2> QED
    BY <1>2, <1>3, <1>8, <2>1, <2>2, EffectHere
<1>11. \A p \in backend.loaded' : p[2] = table'[p[1]]
  BY <1>3, <1>4 DEF Invariants, Seen, SameLoads
<1>12. ASSUME NEW c \in Cookies, Persists(c), backend.initialized', KeyOf(c) \notin backend.keysToLoad',
              c \notin ReadCookies'
       PROVE  Expected'[c] = monster.view'[c]
  <2>1. Expected[c] = monster.view[c]
    BY <1>3, <1>4, <1>12 DEF Invariants, Seen, SameLoads, ReadCookies
  <2> QED
    BY <1>2, <1>3, <1>5, <1>7, <1>8, <2>1, EffectHere
<1> QED
  BY <1>9, <1>10, <1>11, <1>12 DEF Seen

LEMMA SeenAnswer ==
  ASSUME Invariants, IInv', CompleteLoadOnIOThread
  PROVE  Seen'
<1>0. IInv /\ Reading
  BY DEF Invariants
<1> SUFFICES ASSUME Working' PROVE Seen'
  BY DEF Seen
<1>1. /\ backend.loaded' = {} /\ SameQueues
      /\ monster.handed' = monster.handed \cup ReadCookies
      /\ monster.ready' = IF Head(loops.io).task = "load" THEN Keys
                          ELSE monster.ready \cup {Head(loops.io).key}
      /\ UNCHANGED <<table, backend.initialized, backend.keysToLoad>>
  BY <1>0, AnswerDoes
<1>2. Working
  BY <1>0, WorkingBefore
<1>3. Waiting' = Waiting /\ Expected' = Expected
  BY <1>1 DEF SameQueues, Waiting, Expected
<1>4. /\ ReadCookies' = {} /\ ReadCookies \subseteq Cookies
  BY <1>1 DEF ReadCookies, Invariants, DataTyped
<1>5. ASSUME NEW c \in ReadCookies
      PROVE  monster.view'[c] = table[c]
  <2> DEFINE read == CHOOSE p \in backend.loaded : p[1] = c
  <2>1. monster.view' = [d \in Cookies |->
              IF d \in ReadCookies THEN (CHOOSE p \in backend.loaded : p[1] = d)[2]
                                   ELSE monster.view[d]]
    BY <1>0, AnswerDoes
  <2>2. read \in backend.loaded /\ read[1] = c
    BY DEF ReadCookies
  <2>3. read[2] = table[c]
    BY <1>2, <2>2 DEF Invariants, Seen
  <2>4. monster.view'[c] = read[2]
    BY <1>4, <2>1
  <2> QED
    BY <2>3, <2>4
<1>6. ASSUME NEW c \in Cookies, c \notin ReadCookies
      PROVE  monster.view'[c] = monster.view[c]
  <2>1. monster.view' = [d \in Cookies |->
              IF d \in ReadCookies THEN (CHOOSE p \in backend.loaded : p[1] = d)[2]
                                   ELSE monster.view[d]]
    BY <1>0, AnswerDoes
  <2> QED
    BY <1>6, <2>1
<1>7. \A i \in DOMAIN Waiting' : /\ Waiting'[i].cookie \in monster.handed'
                                 /\ KeyOf(Waiting'[i].cookie) \in monster.ready'
  <2>1. \A i \in DOMAIN Waiting : /\ Waiting[i].cookie \in monster.handed
                                  /\ KeyOf(Waiting[i].cookie) \in monster.ready
    BY <1>2 DEF Invariants, Seen
  <2>2. \A c \in monster.handed : KeyOf(c) \in Keys
    <3>1. monster.handed \subseteq Cookies
      BY <1>0 DEF Reading, ReadOnce
    <3> QED
      BY <3>1, StoreAssumption
  <2> QED
    BY <1>1, <1>3, <2>1, <2>2
<1>8. \A c \in Cookies : c \notin monster.handed' => monster.view'[c] = Absent
  BY <1>1, <1>2, <1>6 DEF Invariants, Seen
<1>9. ASSUME NEW c \in Cookies, Persists(c), backend.initialized', KeyOf(c) \notin backend.keysToLoad'
      PROVE  Expected'[c] = monster.view'[c]
  <2>1. CASE c \in ReadCookies
    <3>1. Expected[c] = table[c]
      BY <1>2, <2>1, Apart
    <3> QED
      BY <1>3, <1>5, <2>1, <3>1
  <2>2. CASE c \notin ReadCookies
    <3>1. Expected[c] = monster.view[c]
      BY <1>1, <1>2, <1>9, <2>2 DEF Invariants, Seen
    <3> QED
      BY <1>3, <1>6, <2>2, <3>1
  <2> QED
    BY <2>1, <2>2
<1> QED
  BY <1>1, <1>7, <1>8, <1>9 DEF Seen

LEMMA SeenKeys ==
  ASSUME Invariants, IInv', ReadKeys
  PROVE  Seen'
<1>0. IInv /\ Reading
  BY DEF Invariants
<1> SUFFICES ASSUME Working' PROVE Seen'
  BY DEF Seen
<1>1. Working /\ errors' = errors
  BY <1>0, WorkingBefore DEF DBThread
<1>2. /\ backend.step = "upgrade" /\ SameQueues /\ UNCHANGED <<table, monster, backend.loaded>>
      /\ backend.keysToLoad' = {KeyOf(c) : c \in {d \in Cookies : table[d] # Absent}}
  BY <1>0, <1>1, ReadingDoes
<1>3. ~backend.initialized /\ backend.loaded = {}
  BY <1>0, <1>2 DEF Reading, KeysKnown
<1>4. monster.handed = {}
  BY <1>1, <1>3, Apart
<1>5. Waiting' = Waiting /\ Expected' = Expected
  BY <1>2 DEF SameQueues, Waiting, Expected
<1>6. ASSUME NEW c \in Cookies, KeyOf(c) \notin backend.keysToLoad'
      PROVE  Expected'[c] = monster.view'[c]
  <2>1. table[c] = Absent
    BY <1>2, <1>6
  <2>2. Expected[c] = table[c]
    BY <1>1, <1>4, Apart
  <2>3. monster.view[c] = Absent
    BY <1>1, <1>4 DEF Invariants, Seen
  <2> QED
    BY <1>2, <1>5, <2>1, <2>2, <2>3
<1>7. \A i \in DOMAIN Waiting' : /\ Waiting'[i].cookie \in monster.handed'
                                 /\ KeyOf(Waiting'[i].cookie) \in monster.ready'
  BY <1>1, <1>2, <1>5 DEF Invariants, Seen
<1>8. \A c \in Cookies : c \notin monster.handed' => monster.view'[c] = Absent
  BY <1>1, <1>2 DEF Invariants, Seen
<1> QED
  BY <1>2, <1>3, <1>6, <1>7, <1>8 DEF Seen

LEMMA SeenLoads ==
  ASSUME Invariants, IInv', LoadKey \/ ChainLoadCookies
  PROVE  Seen'
<1>0. IInv /\ Reading
  BY DEF Invariants
<1> SUFFICES ASSUME Working' PROVE Seen'
  BY DEF Seen
<1>1. Working /\ errors' = errors
  BY <1>0, WorkingBefore DEF DBThread
<1>2. /\ \/ UNCHANGED <<backend, errors>>
         \/ backend.open /\ \E k \in backend.keysToLoad : \E rows : RowsRead(k, rows)
      /\ table' = table \/ table' = OnlyPersistent
      /\ UNCHANGED monster
  BY <1>0, LoadingDoes
<1>3. /\ Waiting \in Seq(Table!Ops) /\ table \in Tables
      /\ \A c \in Cookies : KeyOf(c) \in backend.keysToLoad => c \notin monster.handed
      /\ \A c \in Cookies : c \notin monster.handed => Expected[c] = table[c]
  BY <1>1, Apart
<1>4. table' \in Tables
  <2>1. OnlyPersistent \in Tables
    BY <1>3 DEF OnlyPersistent, Tables
  <2> QED
    BY <1>2, <1>3, <2>1
<1>5. Waiting' = Waiting
  BY <1>2 DEF RowsRead, SameQueues, Waiting
<1>6. \A c \in Cookies : Persists(c) => table'[c] = table[c]
  BY <1>2 DEF OnlyPersistent
<1>7. ASSUME NEW c \in Cookies, Persists(c)
      PROVE  Expected'[c] = Expected[c]
  <2> DEFINE t == table
             u == table'
             w == Waiting
  <2>1. t \in Tables /\ u \in Tables /\ w \in Seq(Table!Ops) /\ u[c] = t[c]
    BY <1>3, <1>4, <1>6, <1>7
  <2>2. Table!Applied(u, w)[c] = Table!Applied(t, w)[c]
    <3> HIDE DEF t, u, w
    <3> QED
      BY <2>1, AppliedLocal
  <2> QED
    BY <1>5, <2>2 DEF Expected
<1>8. PICK k, rows :
        /\ backend.keysToLoad' = backend.keysToLoad \ {k} /\ backend.loaded' = backend.loaded \cup rows
        /\ \/ rows = {} /\ UNCHANGED backend
           \/ k \in backend.keysToLoad /\ rows = Rows(k) /\ UNCHANGED backend.initialized
  <2>1. CASE UNCHANGED <<backend, errors>>
    <3> DEFINE none == CHOOSE k : k \notin backend.keysToLoad
    <3>1. none \notin backend.keysToLoad
      BY NoSetContainsEverything
    <3>2. backend.keysToLoad' = backend.keysToLoad \ {none} /\ backend.loaded' = backend.loaded \cup {}
      BY <2>1, <3>1
    <3> QED
      BY <2>1, <3>2
  <2>2. CASE \E k \in backend.keysToLoad : \E rows : RowsRead(k, rows)
    BY <1>1, <2>2 DEF RowsRead
  <2> QED
    BY <1>2, <2>1, <2>2
<1>9. \A p \in rows : p[1] \in Cookies /\ KeyOf(p[1]) = k /\ Persists(p[1]) /\ p[2] = table[p[1]]
  BY <1>8 DEF Rows
<1>10. \A p \in backend.loaded' : p[2] = table'[p[1]]
  <2>1. \A p \in backend.loaded : p[2] = table[p[1]] /\ p[1] \in Cookies /\ Persists(p[1])
    BY <1>1 DEF Invariants, Seen, DataTyped, Reading, ReadOnce
  <2> QED
    BY <1>6, <1>8, <1>9, <2>1
<1>11. ASSUME NEW c \in Cookies, Persists(c), backend.initialized', KeyOf(c) \notin backend.keysToLoad',
              c \notin ReadCookies'
       PROVE  Expected'[c] = monster.view'[c]
  <2>1. c \notin ReadCookies /\ \A p \in rows : p[1] # c
    BY <1>8, <1>11 DEF ReadCookies
  <2>2. backend.initialized
    BY <1>8, <1>11
  <2>3. CASE KeyOf(c) \notin backend.keysToLoad
    <3>1. Expected[c] = monster.view[c]
      BY <1>1, <1>11, <2>1, <2>2, <2>3 DEF Invariants, Seen
    <3> QED
      BY <1>2, <1>7, <1>11, <3>1
  <2>4. CASE KeyOf(c) \in backend.keysToLoad
    <3>1. KeyOf(c) = k /\ rows = Rows(k)
      BY <1>8, <1>11, <2>4
    <3>2. table[c] = Absent
      <4>1. <<c, table[c]>>[1] = c
        OBVIOUS
      <4>2. table[c] # Absent => <<c, table[c]>> \in Rows(k)
        BY <1>11, <3>1 DEF Rows
      <4> QED
        BY <2>1, <3>1, <4>1, <4>2
    <3>3. c \notin monster.handed
      BY <1>3, <2>4
    <3>4. monster.view[c] = Absent
      BY <1>1, <3>3 DEF Invariants, Seen
    <3> QED
      BY <1>2, <1>3, <1>7, <1>11, <3>2, <3>3, <3>4
  <2> QED
    BY <2>3, <2>4
<1>12. \A i \in DOMAIN Waiting' : /\ Waiting'[i].cookie \in monster.handed'
                                  /\ KeyOf(Waiting'[i].cookie) \in monster.ready'
  BY <1>1, <1>2, <1>5 DEF Invariants, Seen
<1>13. \A c \in Cookies : c \notin monster.handed' => monster.view'[c] = Absent
  BY <1>1, <1>2 DEF Invariants, Seen
<1> QED
  BY <1>10, <1>11, <1>12, <1>13 DEF Seen

LEMMA SeenCommit ==
  ASSUME Invariants, IInv', Commit
  PROVE  Seen'
<1>0. IInv
  BY DEF Invariants
<1>1. /\ backend.batch = <<>> /\ backend.pending' = <<>>
      /\ IF backend.open /\ backend.pending # <<>>
           THEN backend.batch' = backend.pending
           ELSE backend.batch' = <<>>
      /\ SameLoads /\ UNCHANGED <<table, monster, backend.initialized>>
  BY <1>0, CommitDoes
<1>2. Working' => Working
  BY <1>0, WorkingBefore DEF DBThread
<1>3. Working' => Waiting' = Waiting
  <2> SUFFICES ASSUME Working' PROVE Waiting' = Waiting
    OBVIOUS
  <2>1. backend.pending # <<>> => backend.open
    BY <1>0, <1>2 DEF IInv, Failing, Working
  <2>2. backend.pending \in Seq(Table!Ops)
    BY <1>0 DEF IInv, Typed
  <2>3. backend.batch' = backend.pending
    BY <1>1, <2>1
  <2> QED
    BY <1>1, <2>2, <2>3 DEF Waiting
<1>4. Seen
  BY DEF Invariants
<1> QED
  BY <1>1, <1>2, <1>3, <1>4, SeenKept DEF SameLoads

LEMMA SeenWrite ==
  ASSUME Invariants, IInv', WriteBatch
  PROVE  Seen'
<1>0. IInv /\ Reading
  BY DEF Invariants
<1> SUFFICES ASSUME Working' PROVE Seen'
  BY DEF Seen
<1>1. Working /\ errors' = errors /\ errors \in Nat
  BY <1>0, WorkingBefore DEF DBThread, IInv, Typed
<1>2. /\ backend.batch' = <<>> /\ table' = Table!Applied(table, backend.batch)
      /\ UNCHANGED <<monster, backend.pending, backend.initialized, backend.keysToLoad, backend.loaded>>
  BY <1>0, <1>1, WriteDoes
<1>3. /\ backend.batch \in Seq(Table!Ops) /\ backend.pending \in Seq(Table!Ops)
  BY <1>0 DEF IInv, Typed
<1>4. Waiting' = backend.pending
  BY <1>2, <1>3 DEF Waiting
<1>5. Expected' = Expected
  BY <1>2, <1>3, <1>4, AppliedConcat DEF Expected, Waiting
<1>6. /\ DOMAIN Waiting = 1 .. Len(backend.batch) + Len(backend.pending)
      /\ Len(backend.batch) \in Nat /\ Len(backend.pending) \in Nat
      /\ DOMAIN backend.batch = 1 .. Len(backend.batch)
      /\ DOMAIN backend.pending = 1 .. Len(backend.pending)
      /\ \A i \in 1 .. Len(backend.batch) + Len(backend.pending) :
           Waiting[i] = IF i <= Len(backend.batch) THEN backend.batch[i]
                        ELSE backend.pending[i - Len(backend.batch)]
  <2> DEFINE s == backend.batch
             m == backend.pending
             d == s \o m
  <2>1. s \in Seq(Table!Ops) /\ m \in Seq(Table!Ops) /\ d = s \o m
    BY <1>3
  <2> HIDE DEF s, m, d
  <2>2. /\ Len(s) \in Nat /\ Len(m) \in Nat
        /\ DOMAIN s = 1 .. Len(s) /\ DOMAIN m = 1 .. Len(m)
        /\ DOMAIN d = 1 .. Len(s) + Len(m)
        /\ \A i \in 1 .. Len(s) + Len(m) : d[i] = IF i <= Len(s) THEN s[i] ELSE m[i - Len(s)]
    BY ONLY <2>1, Longer
  <2> QED
    BY <2>2 DEF Waiting, s, m, d
<1> DEFINE n == Len(backend.batch)
           m == Len(backend.pending)
           Known(o) == o.cookie \in monster.handed /\ KeyOf(o.cookie) \in monster.ready
<1>7. \A i \in DOMAIN Waiting : Known(Waiting[i])
  BY <1>1 DEF Invariants, Seen
<1>8. /\ n \in Nat /\ m \in Nat /\ DOMAIN Waiting = 1 .. n + m
      /\ DOMAIN backend.batch = 1 .. n /\ DOMAIN backend.pending = 1 .. m
      /\ \A i \in 1 .. n + m : Waiting[i] = IF i <= n THEN backend.batch[i] ELSE backend.pending[i - n]
  BY <1>6
<1> HIDE DEF n, m, Known
<1>9. \A i \in DOMAIN backend.batch : Known(backend.batch[i])
  <2> SUFFICES ASSUME NEW i \in DOMAIN backend.batch PROVE Known(backend.batch[i])
    OBVIOUS
  <2>1. i \in 1 .. n + m /\ i <= n
    BY <1>8
  <2> QED
    BY <1>7, <1>8, <2>1
<1>10. \A i \in DOMAIN backend.pending : Known(backend.pending[i])
  <2> SUFFICES ASSUME NEW i \in DOMAIN backend.pending PROVE Known(backend.pending[i])
    OBVIOUS
  <2>1. n + i \in 1 .. n + m /\ ~(n + i <= n) /\ (n + i) - n = i
    BY <1>8
  <2>2. Waiting[n + i] = backend.pending[i]
    BY <1>8, <2>1
  <2> QED
    BY <1>7, <1>8, <2>1, <2>2
<1>11. \A p \in backend.loaded : p[2] = table'[p[1]]
  <2> SUFFICES ASSUME NEW p \in backend.loaded PROVE p[2] = table'[p[1]]
    OBVIOUS
  <2>1. p[1] \in Cookies /\ p[1] \in ReadCookies /\ p[2] = table[p[1]]
    BY <1>1 DEF Invariants, DataTyped, Seen, ReadCookies
  <2>2. p[1] \notin monster.handed
    BY <1>1, <2>1, Apart
  <2>3. \A i \in DOMAIN backend.batch : backend.batch[i].cookie # p[1]
    BY <1>9, <2>2 DEF Known
  <2>4. table \in Tables
    BY <1>1, Apart
  <2> QED
    BY <1>2, <1>3, <2>1, <2>3, <2>4, AppliedUntouched
<1>12. \A i \in DOMAIN Waiting' : /\ Waiting'[i].cookie \in monster.handed'
                                  /\ KeyOf(Waiting'[i].cookie) \in monster.ready'
  BY <1>2, <1>4, <1>10 DEF Known
<1>13. \A c \in Cookies : c \notin monster.handed' => monster.view'[c] = Absent
  BY <1>1, <1>2 DEF Invariants, Seen
<1>14. \A c \in Cookies :
         Persists(c) /\ backend.initialized' /\ KeyOf(c) \notin backend.keysToLoad' /\ c \notin ReadCookies'
           => Expected'[c] = monster.view'[c]
  BY <1>1, <1>2, <1>5 DEF Invariants, Seen, ReadCookies
<1> QED
  BY <1>2, <1>11, <1>12, <1>13, <1>14 DEF Seen

LEMMA SeenEnding ==
  ASSUME Invariants, IInv', CloseDatabase \/ KillDatabase \/ RunClosure
  PROVE  Seen'
<1>0. IInv /\ Seen
  BY DEF Invariants
<1>1. CASE CloseDatabase
  <2>1. Closed'
    BY <1>0, <1>1, ClosedSteps DEF DBThread
  <2> QED
    BY <2>1 DEF Seen, Working
<1>2. CASE KillDatabase
  <2>1. Has(loops.db, "kill")
    <3>1. loops.db \in Seq(Tasks) /\ loops.db # <<>> /\ Head(loops.db).task = "kill"
      BY <1>0, <1>2 DEF KillDatabase, At, IInv, Typed
    <3>2. 1 \in DOMAIN loops.db /\ Head(loops.db) = loops.db[1]
      BY <3>1
    <3> QED
      BY <3>1, <3>2 DEF Has
  <2>2. ~Working
    BY <1>0, <2>1 DEF IInv, Failing, Working
  <2>3. ~Working'
    BY <1>0, <1>2, <2>2, WorkingBefore DEF DBThread
  <2> QED
    BY <2>3 DEF Seen
<1>3. CASE RunClosure
  <2>1. UNCHANGED <<table, backend, monster>>
    BY <1>3 DEF RunClosure
  <2>2. Working' => Working
    BY <1>0, <1>3, WorkingBefore DEF DBThread
  <2>3. Waiting' = Waiting
    BY <2>1 DEF Waiting
  <2> QED
    BY <1>0, <2>1, <2>2, <2>3, SeenKept
<1> QED
  BY <1>1, <1>2, <1>3

LEMMA SeenOpening ==
  ASSUME Invariants, IInv', OpenDatabase \/ InitializeFails \/ DatabaseTooNew \/ EnsureDatabaseVersion
  PROVE  Seen'
<1>0. IInv /\ Reading
  BY DEF Invariants
<1> SUFFICES ASSUME Working' PROVE Seen'
  BY DEF Seen
<1>1. /\ SameLoads /\ SameQueues /\ UNCHANGED <<monster, backend.initialized>>
      /\ ~backend.initialized /\ backend.loaded = {}
  BY <1>0, OpeningDoes DEF Reading, KeysKnown
<1>2. Working
  BY <1>0, WorkingBefore DEF DBThread
<1>3. Waiting' = Waiting
  BY <1>1 DEF SameQueues, Waiting
<1>4. \A i \in DOMAIN Waiting' : /\ Waiting'[i].cookie \in monster.handed'
                                 /\ KeyOf(Waiting'[i].cookie) \in monster.ready'
  BY <1>1, <1>2, <1>3 DEF Invariants, Seen
<1>5. \A c \in Cookies : c \notin monster.handed' => monster.view'[c] = Absent
  BY <1>1, <1>2 DEF Invariants, Seen
<1> QED
  BY <1>1, <1>4, <1>5 DEF Seen, SameLoads

LEMMA SeenStep ==
  ASSUME Invariants, IInv', [Next]_vars
  PROVE  Seen'
<1>0. IInv /\ Seen
  BY DEF Invariants
<1>1. CASE \/ Load \/ Flush \/ \E keep \in BOOLEAN : Close(keep)
           \/ \E k \in Keys : LoadCookiesForKey(k)
           \/ TimerFires
  <2>1. /\ SameQueues /\ SameLoads /\ SameView /\ UNCHANGED <<table, backend.initialized>>
    BY <1>0, <1>1, PostsDo
  <2>2. Working' => Working
    BY <1>0, <1>1, WorkingBefore DEF Caller
  <2>3. Waiting' = Waiting
    BY <2>1 DEF SameQueues, Waiting
  <2> QED
    BY <1>0, <2>1, <2>2, <2>3, SeenKept DEF SameLoads, SameView
<1>2. CASE Restart
  <2>1. /\ ~backend.initialized' /\ backend.loaded' = {} /\ backend.pending' = <<>> /\ backend.batch' = <<>>
        /\ monster.handed' = {} /\ monster.view' = [c \in Cookies |-> Absent]
    BY <1>2 DEF Restart, NewBackend, NewMonster
  <2>2. Waiting' = <<>>
    BY <2>1 DEF Waiting
  <2>3. DOMAIN <<>> = {}
    OBVIOUS
  <2> QED
    BY <2>1, <2>2, <2>3 DEF Seen
<1>3. CASE UNCHANGED vars
  <2>1. Working' => Working
    BY <1>3 DEF vars, Working, Healthy, Closed
  <2> QED
    BY <1>0, <1>3, <2>1, SeenKept DEF vars, Waiting
<1> QED
  BY <1>1, <1>2, <1>3, SeenSubmit, SeenAnswer, SeenOpening, SeenKeys, SeenLoads, SeenCommit,
     SeenWrite, SeenEnding DEF Next, Caller, DBThread

LEMMA SeenInit == Init => Seen
<1> SUFFICES ASSUME Init PROVE Seen
  OBVIOUS
<1>1. /\ ~backend.initialized /\ backend.loaded = {} /\ backend.pending = <<>> /\ backend.batch = <<>>
      /\ monster.handed = {} /\ monster.view = [c \in Cookies |-> Absent]
  BY DEF Init, NewBackend, NewMonster
<1>2. Waiting = <<>> /\ DOMAIN <<>> = {}
  BY <1>1 DEF Waiting
<1> QED
  BY <1>1, <1>2 DEF Seen

LEMMA InvariantsHold == Spec => []Invariants
<1>1. Init => Invariants
  BY InitIInv, DataInit, StaysClosedInit, ReadingInit, SeenInit DEF Invariants
<1>2. Invariants /\ [Next]_vars => Invariants'
  <2> SUFFICES ASSUME Invariants, [Next]_vars PROVE Invariants'
    OBVIOUS
  <2>1. IInv /\ DataTyped /\ StaysClosed /\ Reading
    BY DEF Invariants
  <2>2. IInv' /\ DataTyped'
    BY <2>1, NextIInv, DataStep
  <2>3. StaysClosed' /\ Reading' /\ Seen'
    BY <2>1, <2>2, StaysClosedStep, ReadingStep, SeenStep
  <2> QED
    BY <2>2, <2>3 DEF Invariants
<1> QED
  BY <1>1, <1>2, PTL DEF Spec

\* While SQLite works, the file and the operations on their way to it amount to what the
\* monster sees, for any cookies, keys, batch size and interleaving of the threads.
THEOREM FileIsTheView == Spec => []FileMatchesView
<1>1. Invariants => FileMatchesView
  <2> SUFFICES ASSUME Invariants, errors = 0, ~Closed, NEW c \in Cookies,
                      KeyOf(c) \in monster.ready, Persists(c), version <= CurrentVersion
               PROVE  Table!Applied(table, backend.batch \o backend.pending)[c] = monster.view[c]
    BY DEF FileMatchesView
  <2>1. Working
    BY DEF Working, Healthy
  <2>2. backend.initialized /\ KeyOf(c) \notin backend.keysToLoad /\ c \notin ReadCookies
    BY <2>1, Apart
  <2>3. Expected[c] = monster.view[c]
    BY <2>1, <2>2 DEF Invariants, Seen
  <2> QED
    BY <2>3 DEF Expected, Waiting
<1> QED
  BY <1>1, InvariantsHold, PTL

(**************************************************************************)
(* What legal operations make of the number of cookies of a key.           *)
(**************************************************************************)
LEMMA LegalLocal ==
  ASSUME NEW t \in Tables, NEW u \in Tables, NEW ops \in Seq(Table!Ops), Legal(t, ops),
         \A i \in DOMAIN ops : t[ops[i].cookie] = u[ops[i].cookie]
  PROVE  Legal(u, ops)
<1>1. Len(ops) \in Nat /\ DOMAIN ops = 1 .. Len(ops) /\ Len(ops) <= Len(ops)
      /\ \A i \in DOMAIN ops : i - 1 \in 0 .. Len(ops)
  OBVIOUS
<1>2. PICK f : After(f, Len(ops), t, ops)
  BY <1>1, AfterExists
<1> SUFFICES ASSUME NEW g, After(g, Len(ops), u, ops), NEW i \in DOMAIN ops
             PROVE  Fits(g[i - 1], ops[i])
  BY DEF Legal
<1> DEFINE c == ops[i].cookie
<1>3. c \in Cookies
  <2>1. ops[i] \in Table!Ops
    OBVIOUS
  <2> QED
    BY <2>1 DEF Table!Ops
<1>4. \A n \in 0 .. Len(ops) : f[n][c] = g[n][c]
  <2>1. t[c] = u[c]
    OBVIOUS
  <2> HIDE DEF c
  <2> QED
    BY <1>1, <1>2, <1>3, <2>1, AfterLocal
<1>5. Fits(f[i - 1], ops[i])
  BY <1>2 DEF Legal
<1>6. f[i - 1][c] = g[i - 1][c]
  BY <1>1, <1>4
<1> QED
  BY <1>5, <1>6 DEF Fits

\* The cookies of a key that a table has, and the operations of a kind on them.
Present(v, k) == {c \in Cookies : KeyOf(c) = k /\ v[c] # Absent}
Up(ops, n, op, k) == {i \in 1 .. n : ops[i].op = op /\ KeyOf(ops[i].cookie) = k}
One01(b) == IF b THEN 1 ELSE 0

\* The number of cookies of a key is a number.
LEMMA PresentFinite ==
  ASSUME NEW v, NEW k
  PROVE  IsFiniteSet(Present(v, k)) /\ Cardinality(Present(v, k)) \in Nat
<1>1. Present(v, k) \subseteq Cookies /\ IsFiniteSet(Cookies)
  BY StoreAssumption DEF Present
<1>2. IsFiniteSet(Present(v, k))
  BY <1>1, FS_Subset
<1> QED
  BY <1>2, FS_CardinalityType

\* An operation that fits adds or takes away the one cookie it names.
LEMMA EffectCounts ==
  ASSUME NEW v \in Tables, NEW o \in Table!Ops, Fits(v, o), NEW k
  PROVE  Cardinality(Present(Table!Effect(v, o), k))
           = Cardinality(Present(v, k)) + One01(o.op = "add" /\ KeyOf(o.cookie) = k)
                                        - One01(o.op = "delete" /\ KeyOf(o.cookie) = k)
<1> DEFINE c == o.cookie
           w == Table!Effect(v, o)
<1>0. c \in Cookies /\ o.op \in {"add", "access", "delete"} /\ o.time \in Times /\ Absent \notin Times
  BY StoreAssumption DEF Table!Ops
<1>1. IsFiniteSet(Present(v, k)) /\ Cardinality(Present(v, k)) \in Nat
  BY PresentFinite
<1>2. \A d \in Cookies : d # c => w[d] = v[d]
  BY EffectHere
<1>3. w[c] = CASE o.op = "add"    -> o.time
               [] o.op = "delete" -> Absent
               [] o.op = "access" -> IF v[c] = Absent THEN v[c] ELSE o.time
  BY <1>0 DEF Table!Effect, Tables
<1> HIDE DEF w, c
<1>4. CASE o.op = "add" /\ KeyOf(c) = k
  <2>1. c \notin Present(v, k)
    BY <1>4 DEF Fits, Present, c
  <2>2. Present(w, k) = Present(v, k) \cup {c}
    BY <1>0, <1>2, <1>3, <1>4 DEF Present
  <2>3. Cardinality(Present(w, k)) = Cardinality(Present(v, k)) + 1
    BY <1>1, <2>1, <2>2, FS_AddElement
  <2> QED
    BY <1>1, <1>4, <2>3 DEF One01, w, c
<1>5. CASE o.op = "delete" /\ KeyOf(c) = k
  <2>1. c \in Present(v, k)
    BY <1>0, <1>5 DEF Fits, Present, c
  <2>2. Present(w, k) = Present(v, k) \ {c}
    BY <1>0, <1>2, <1>3, <1>5 DEF Present
  <2>3. Cardinality(Present(w, k)) = Cardinality(Present(v, k)) - 1
    BY <1>1, <2>1, <2>2, FS_RemoveElement
  <2> QED
    BY <1>1, <1>5, <2>3 DEF One01, w, c
<1>6. CASE o.op = "access" \/ KeyOf(c) # k
  <2>1. Present(w, k) = Present(v, k)
    BY <1>0, <1>2, <1>3, <1>6 DEF Present
  <2> QED
    BY <1>1, <1>6, <2>1 DEF One01, w, c
<1> QED
  BY <1>0, <1>4, <1>5, <1>6

\* The operations of a kind up to the n-th, from those before it.
LEMMA UpNext ==
  ASSUME NEW ops, NEW n \in Nat, n # 0, NEW op, NEW k
  PROVE  /\ IsFiniteSet(Up(ops, n, op, k))
         /\ Cardinality(Up(ops, n, op, k)) \in Nat /\ Cardinality(Up(ops, n - 1, op, k)) \in Nat
         /\ Cardinality(Up(ops, n, op, k))
              = Cardinality(Up(ops, n - 1, op, k)) + One01(ops[n].op = op /\ KeyOf(ops[n].cookie) = k)
<1> DEFINE U == Up(ops, n - 1, op, k)
           V == Up(ops, n, op, k)
           hit == ops[n].op = op /\ KeyOf(ops[n].cookie) = k
<1>1. n - 1 \in Nat /\ 1 .. n = (1 .. n - 1) \cup {n} /\ n \notin 1 .. n - 1
  OBVIOUS
<1>2. IsFiniteSet(1 .. n) /\ IsFiniteSet(1 .. n - 1)
  BY <1>1, FS_Interval
<1>3. IsFiniteSet(U) /\ IsFiniteSet(V)
  <2>1. U \subseteq 1 .. n - 1 /\ V \subseteq 1 .. n
    BY DEF Up
  <2> HIDE DEF U, V
  <2> QED
    BY <1>2, <2>1, FS_Subset
<1>4. n \notin U /\ V = IF hit THEN U \cup {n} ELSE U
  BY <1>1 DEF Up
<1>5. Cardinality(U) \in Nat /\ Cardinality(V) \in Nat
  BY <1>3, FS_CardinalityType
<1> HIDE DEF U, V, hit
<1>6. Cardinality(V) = Cardinality(U) + One01(hit)
  <2>1. CASE hit
    <3>1. Cardinality(V) = Cardinality(U) + 1
      BY <1>3, <1>4, <2>1, FS_AddElement
    <3> QED
      BY <2>1, <3>1 DEF One01
  <2>2. CASE ~hit
    BY <1>4, <1>5, <2>2 DEF One01
  <2> QED
    BY <2>1, <2>2
<1> QED
  BY <1>3, <1>5, <1>6 DEF U, V, hit

\* A legal sequence changes the number of cookies of a key by what it adds and deletes.
LEMMA LegalCounts ==
  ASSUME NEW t \in Tables, NEW ops \in Seq(Table!Ops), Legal(t, ops), NEW k
  PROVE  Cardinality(Present(Table!Applied(t, ops), k))
           = Cardinality(Present(t, k)) + Cardinality(Of(ops, "add", k))
                                        - Cardinality(Of(ops, "delete", k))
<1> DEFINE N == Len(ops)
<1>1. N \in Nat /\ DOMAIN ops = 1 .. N /\ N <= N /\ N \in 0 .. N
  OBVIOUS
<1>2. PICK f : After(f, N, t, ops) /\ Table!Applied(t, ops) = f[N]
  BY <1>1, AppliedIs
<1>3. \A i \in 1 .. N : Fits(f[i - 1], ops[i])
  BY <1>1, <1>2 DEF Legal
<1>4. \A n \in 0 .. N : f[n] \in Tables
  BY <1>1, <1>2, AfterTyped
<1>5. \A n \in 0 .. N : f[n] = IF n = 0 THEN t ELSE Table!Effect(f[n - 1], ops[n])
  BY <1>2 DEF After
<1> HIDE DEF N
<1> DEFINE Right(n) == Cardinality(Present(f[n], k))
                         = Cardinality(Present(t, k)) + Cardinality(Up(ops, n, "add", k))
                                                      - Cardinality(Up(ops, n, "delete", k))
           Bad == {n \in 0 .. N : ~Right(n)}
<1>6. Bad = {}
  <2> SUFFICES ASSUME Bad # {} PROVE FALSE
    OBVIOUS
  <2>1. PICK m \in Bad : \A n \in Bad : m <= n
    <3>1. Bad \in SUBSET Nat
      OBVIOUS
    <3> HIDE DEF Bad
    <3> QED
      BY <3>1, Least
  <2>2. m \in 0 .. N /\ ~Right(m)
    BY <2>1
  <2>3. m # 0
    <3> SUFFICES Right(0)
      BY <2>2
    <3>1. Up(ops, 0, "add", k) = {} /\ Up(ops, 0, "delete", k) = {} /\ f[0] = t
      BY <1>1, <1>5 DEF Up
    <3>2. Cardinality(Up(ops, 0, "add", k)) = 0 /\ Cardinality(Up(ops, 0, "delete", k)) = 0
      BY <3>1, FS_EmptySet
    <3> QED
      BY <3>1, <3>2, PresentFinite
  <2>4. m - 1 \in 0 .. N /\ m \in Nat /\ m \in 1 .. N /\ Right(m - 1)
    BY <1>1, <2>1, <2>2, <2>3
  <2> DEFINE v == f[m - 1]
             o == ops[m]
             a == Cardinality(Up(ops, m, "add", k))
             a1 == Cardinality(Up(ops, m - 1, "add", k))
             d == Cardinality(Up(ops, m, "delete", k))
             d1 == Cardinality(Up(ops, m - 1, "delete", k))
             p == Cardinality(Present(f[m], k))
             p1 == Cardinality(Present(v, k))
             z == Cardinality(Present(t, k))
             A == One01(o.op = "add" /\ KeyOf(o.cookie) = k)
             D == One01(o.op = "delete" /\ KeyOf(o.cookie) = k)
  <2>5. p = p1 + A - D
    <3>1. v \in Tables /\ o \in Table!Ops /\ Fits(v, o) /\ f[m] = Table!Effect(v, o)
      BY <1>1, <1>3, <1>4, <1>5, <2>3, <2>4
    <3> HIDE DEF v, o
    <3>2. Cardinality(Present(Table!Effect(v, o), k)) = p1 + A - D
      BY <3>1, EffectCounts
    <3> QED
      BY <3>1, <3>2
  <2>6. a = a1 + A /\ a1 \in Nat
    BY <2>3, <2>4, UpNext
  <2>7. d = d1 + D /\ d1 \in Nat
    BY <2>3, <2>4, UpNext
  <2>8. p1 = z + a1 - d1 /\ A \in {0, 1} /\ D \in {0, 1} /\ z \in Nat
    BY <2>4, PresentFinite DEF One01
  <2>9. p # z + a - d
    BY <2>2
  <2> HIDE DEF a, a1, d, d1, p, p1, z, A, D
  <2> QED
    BY <2>5, <2>6, <2>7, <2>8, <2>9
<1>7. Right(N)
  BY <1>1, <1>6
<1>8. Up(ops, N, "add", k) = Of(ops, "add", k) /\ Up(ops, N, "delete", k) = Of(ops, "delete", k)
  BY <1>1 DEF Up, Of
<1> QED
  BY <1>2, <1>7, <1>8

(**************************************************************************)
(* cookies_per_origin_ and the origins cleared on exit.                    *)
(**************************************************************************)
LoadedKey(k) == backend.initialized /\ k \notin backend.keysToLoad

\* The counts of the origins are right for X: the rows that were read and what the
\* operations written since have made of them.  Of session-only cookies the file may have
\* other rows, or have lost them; no operation on its way is wrong for X.
Counts(X) ==
  /\ X \in Tables
  /\ \A c \in Cookies : LoadedKey(KeyOf(c)) /\ Persists(c) => X[c] = table[c]
  /\ \A c \in Cookies : ~LoadedKey(KeyOf(c)) => X[c] = Absent
  /\ \A k \in Keys : backend.perOrigin[k] = Cardinality(Present(X, k))
  /\ \A c \in Cookies : LoadedKey(KeyOf(c)) /\ c \notin ReadCookies
                          => Table!Applied(X, Waiting)[c] = monster.view[c]
  /\ Legal(X, Waiting)
Counting == Working => \E X : Counts(X)

\* Steps that change nothing Counts is about, or after which the store does not work.
LEMMA CountingKept ==
  ASSUME Counting, Working' => Working,
         Working' => /\ backend.initialized => table' = table
                     /\ Waiting' = Waiting /\ SameLoads
                     /\ UNCHANGED <<monster.view, backend.initialized>>
  PROVE  Counting'
<1> SUFFICES ASSUME Working' PROVE \E X : Counts(X)'
  BY DEF Counting
<1>1. PICK X : Counts(X)
  BY DEF Counting
<1>2. Counts(X)'
  BY <1>1 DEF Counts, LoadedKey, SameLoads, ReadCookies
<1> QED
  BY <1>2

\* What the monster does not know is as it was read.
LEMMA CountsUntouched ==
  ASSUME Invariants, Working, NEW X, Counts(X), NEW c \in Cookies, c \notin monster.handed
  PROVE  Table!Applied(X, Waiting)[c] = X[c]
<1>1. Waiting \in Seq(Table!Ops) /\ X \in Tables
  BY Apart DEF Counts
<1>2. \A i \in DOMAIN Waiting : Waiting[i].cookie # c
  BY DEF Invariants, Seen
<1> QED
  BY <1>1, <1>2, AppliedUntouched

\* Counting, step by step: with the same table, ...
LEMMA CountingSubmit ==
  ASSUME Invariants, Counting, IInv', \E o \in Operations : BatchOperation(o)
  PROVE  Counting'
<1>0. IInv /\ Reading
  BY DEF Invariants
<1> SUFFICES ASSUME Working' PROVE \E X : Counts(X)'
  BY DEF Counting
<1>1. PICK o \in Operations : BatchOperation(o)
  OBVIOUS
<1>2. Working
  BY <1>0, WorkingBefore DEF Caller
<1>3. PICK X : Counts(X)
  BY <1>2 DEF Counting
<1>4. /\ backend.pending' = Append(backend.pending, o) /\ UNCHANGED <<table, backend.batch, backend.initialized>>
      /\ SameLoads /\ monster.view' = Table!Effect(monster.view, o)
  BY <1>0, <1>1, SubmitDoes
<1>5. o \in Table!Ops /\ o.cookie \in Cookies /\ KeyOf(o.cookie) \in monster.ready
  <2>1. o \in Table!Ops
    BY DEF Operations
  <2> QED
    BY <1>1, <2>1 DEF Table!Ops, BatchOperation, Possible
<1>6. /\ Waiting \in Seq(Table!Ops) /\ X \in Tables /\ monster.view \in Tables
      /\ LoadedKey(KeyOf(o.cookie)) /\ o.cookie \notin ReadCookies
  BY <1>2, <1>3, <1>5, Apart DEF LoadedKey, Counts, Invariants, DataTyped
<1>7. Waiting' = Append(Waiting, o)
  <2> DEFINE a == backend.batch
             b == backend.pending
  <2>1. a \in Seq(Table!Ops) /\ b \in Seq(Table!Ops) /\ o \in Table!Ops
    BY <1>0, <1>5 DEF IInv, Typed
  <2>2. a \o Append(b, o) = Append(a \o b, o)
    <3> HIDE DEF a, b
    <3> QED
      BY ONLY <2>1, AppendBehind
  <2> QED
    BY <1>4, <2>2 DEF Waiting
<1> DEFINE v == Table!Applied(X, Waiting)
<1>8. v \in Tables /\ v[o.cookie] = monster.view[o.cookie]
  BY <1>3, <1>5, <1>6, AppliedTyped DEF Counts
<1>9. Table!Applied(X, Append(Waiting, o)) = Table!Effect(v, o)
  BY <1>5, <1>6, AppliedAppend
<1>10. Fits(v, o)
  <2>1. o.op = "add" => monster.view[o.cookie] = Absent
    BY <1>1, <1>2, <1>5 DEF BatchOperation, Possible, Invariants, Seen
  <2>2. o.op = "delete" => monster.view[o.cookie] # Absent
    BY <1>1 DEF BatchOperation, Possible
  <2> QED
    BY <1>8, <2>1, <2>2 DEF Fits
<1>11. Legal(X, Append(Waiting, o))
  <2> DEFINE w == Waiting
             one == <<o>>
             d == Append(w, o)
  <2>1. w \in Seq(Table!Ops) /\ one \in Seq(Table!Ops) /\ d = w \o one
    BY <1>5, <1>6, AppendIsConcat
  <2>2. Legal(X, w) /\ Legal(Table!Applied(X, w), one)
    BY <1>3, <1>5, <1>8, <1>10, LegalOne DEF Counts
  <2>3. Legal(X, d)
    <3> HIDE DEF w, one, d
    <3> QED
      BY <2>1, <2>2, TwoParts
  <2> QED
    BY <2>3
<1> HIDE DEF v
<1>12. ASSUME NEW c \in Cookies, LoadedKey(KeyOf(c)), c \notin ReadCookies
       PROVE  Table!Effect(v, o)[c] = monster.view'[c]
  <2>1. v[c] = monster.view[c]
    BY <1>3, <1>12 DEF Counts, v
  <2> QED
    BY <1>4, <1>5, <1>6, <1>8, <2>1, EffectHere
<1>13. ReadCookies' = ReadCookies /\ \A k : LoadedKey(k)' <=> LoadedKey(k)
  BY <1>4 DEF SameLoads, ReadCookies, LoadedKey
<1>14. Counts(X)'
  BY <1>3, <1>4, <1>7, <1>9, <1>11, <1>12, <1>13 DEF Counts, SameLoads
<1> QED
  BY <1>14

LEMMA CountingAnswer ==
  ASSUME Invariants, Counting, IInv', CompleteLoadOnIOThread
  PROVE  Counting'
<1>0. IInv /\ Reading
  BY DEF Invariants
<1> SUFFICES ASSUME Working' PROVE \E X : Counts(X)'
  BY DEF Counting
<1>1. /\ backend.loaded' = {} /\ SameQueues
      /\ UNCHANGED <<table, backend.initialized, backend.keysToLoad, backend.perOrigin>>
  BY <1>0, AnswerDoes
<1>2. Working
  BY <1>0, WorkingBefore
<1>3. PICK X : Counts(X)
  BY <1>2 DEF Counting
<1>4. Waiting' = Waiting /\ \A k : LoadedKey(k)' <=> LoadedKey(k)
  BY <1>1 DEF SameQueues, Waiting, LoadedKey
<1>5. /\ ReadCookies \subseteq Cookies
      /\ monster.view' = [d \in Cookies |->
              IF d \in ReadCookies THEN (CHOOSE p \in backend.loaded : p[1] = d)[2]
                                   ELSE monster.view[d]]
  BY <1>0, AnswerDoes DEF ReadCookies, Invariants, DataTyped
<1>6. ASSUME NEW c \in Cookies, LoadedKey(KeyOf(c))
      PROVE  Table!Applied(X, Waiting)[c] = monster.view'[c]
  <2>1. CASE c \in ReadCookies
    <3> DEFINE read == CHOOSE p \in backend.loaded : p[1] = c
    <3>1. read \in backend.loaded /\ read[1] = c
      BY <2>1 DEF ReadCookies
    <3>2. read[2] = table[c] /\ Persists(c)
      BY <1>0, <1>2, <3>1 DEF Invariants, Seen, Reading, ReadOnce
    <3>3. monster.view'[c] = read[2]
      BY <1>5, <2>1
    <3>4. c \notin monster.handed
      BY <1>2, <2>1, Apart
    <3>5. Table!Applied(X, Waiting)[c] = X[c]
      BY <1>2, <1>3, <3>4, CountsUntouched
    <3> QED
      BY <1>3, <1>6, <3>2, <3>3, <3>5 DEF Counts
  <2>2. CASE c \notin ReadCookies
    <3>1. monster.view'[c] = monster.view[c]
      BY <1>5, <2>2
    <3> QED
      BY <1>3, <1>6, <2>2, <3>1 DEF Counts
  <2> QED
    BY <2>1, <2>2
<1>7. Counts(X)'
  BY <1>1, <1>3, <1>4, <1>6 DEF Counts
<1> QED
  BY <1>7

LEMMA CountingKeys ==
  ASSUME Invariants, Counting, IInv', ReadKeys
  PROVE  Counting'
<1>0. IInv /\ Reading
  BY DEF Invariants
<1> SUFFICES ASSUME Working' PROVE \E X : Counts(X)'
  BY DEF Counting
<1>1. Working /\ errors' = errors
  BY <1>0, WorkingBefore DEF DBThread
<1>2. /\ backend.step = "upgrade" /\ SameQueues /\ UNCHANGED <<table, monster, backend.loaded, backend.perOrigin>>
      /\ backend.keysToLoad' = {KeyOf(c) : c \in {d \in Cookies : table[d] # Absent}}
      /\ backend.initialized'
  BY <1>0, <1>1, ReadingDoes
<1>3. ~backend.initialized /\ backend.loaded = {}
  BY <1>0, <1>2 DEF Reading, KeysKnown
<1>4. monster.handed = {}
  BY <1>1, <1>3, Apart
<1>5. PICK X : Counts(X)
  BY <1>1 DEF Counting
<1>6. \A c \in Cookies : X[c] = Absent
  BY <1>3, <1>5 DEF Counts, LoadedKey
<1>7. Waiting' = Waiting
  BY <1>2 DEF SameQueues, Waiting
<1>8. \A c \in Cookies : LoadedKey(KeyOf(c))' => table[c] = Absent
  BY <1>2 DEF LoadedKey
<1>9. ASSUME NEW c \in Cookies
      PROVE  Table!Applied(X, Waiting)[c] = monster.view[c]
  <2>1. monster.view[c] = Absent
    BY <1>1, <1>4 DEF Invariants, Seen
  <2>2. Table!Applied(X, Waiting)[c] = X[c]
    BY <1>1, <1>4, <1>5, CountsUntouched
  <2> QED
    BY <1>6, <2>1, <2>2
<1>10. Counts(X)'
  BY <1>2, <1>5, <1>6, <1>7, <1>8, <1>9 DEF Counts
<1> QED
  BY <1>10

\* The operations on their way are about cookies of loaded keys.
LEMMA AboutLoaded ==
  ASSUME Invariants, Working
  PROVE  \A i \in DOMAIN Waiting : Waiting[i] \in Table!Ops /\ Waiting[i].cookie \in Cookies
                                   /\ LoadedKey(KeyOf(Waiting[i].cookie))
<1> SUFFICES ASSUME NEW i \in DOMAIN Waiting
             PROVE  Waiting[i] \in Table!Ops /\ Waiting[i].cookie \in Cookies
                    /\ LoadedKey(KeyOf(Waiting[i].cookie))
  OBVIOUS
<1>1. Waiting \in Seq(Table!Ops)
  BY Apart
<1>2. Waiting[i] \in Table!Ops
  BY <1>1
<1>3. Waiting[i].cookie \in Cookies
  BY <1>2 DEF Table!Ops
<1>4. KeyOf(Waiting[i].cookie) \in monster.ready
  BY DEF Invariants, Seen
<1> QED
  BY <1>2, <1>3, <1>4, Apart DEF LoadedKey

\* The table once the persistent cookies of key k have been read.
With(X, k) == [c \in Cookies |-> IF KeyOf(c) = k /\ Persists(c) THEN table[c] ELSE X[c]]

\* ... with the rows that were read in it, ...
LEMMA WithCounts ==
  ASSUME Invariants, Working, NEW X, Counts(X), NEW k \in backend.keysToLoad
  PROVE  /\ With(X, k) \in Tables /\ k \in Keys /\ backend.initialized
         /\ \A c \in Cookies : KeyOf(c) = k => X[c] = Absent
         /\ \A c \in Cookies : KeyOf(c) # k => With(X, k)[c] = X[c]
         /\ Cardinality(Present(With(X, k), k)) = backend.perOrigin[k] + Cardinality(Rows(k))
         /\ \A j \in Keys : j # k => Present(With(X, k), j) = Present(X, j)
         /\ Legal(With(X, k), Waiting)
<1> DEFINE Y == With(X, k)
<1>1. X \in Tables /\ table \in Tables /\ Waiting \in Seq(Table!Ops) /\ k \in Keys
  BY Apart DEF Counts, Invariants, DataTyped
<1>2. backend.initialized
  BY DEF Invariants, Reading, KeysKnown
<1>3. Y \in Tables
  BY <1>1 DEF With, Tables
<1>4. \A c \in Cookies : KeyOf(c) = k => X[c] = Absent
  BY DEF Counts, LoadedKey
<1>5. \A c \in Cookies : KeyOf(c) # k => Y[c] = X[c]
  BY DEF With
<1>6. \A j \in Keys : j # k => Present(Y, j) = Present(X, j)
  BY <1>5 DEF Present
<1> DEFINE D == {d \in Cookies : KeyOf(d) = k /\ table[d] # Absent /\ Persists(d)}
<1>7. Present(X, k) = {} /\ Present(Y, k) = D
  BY <1>4 DEF Present, With
<1>8. Cardinality(D) = Cardinality(Rows(k)) /\ Cardinality(D) \in Nat
  <2>1. IsFiniteSet(D)
    BY StoreAssumption, FS_Subset
  <2>2. Rows(k) = {<<c, table[c]>> : c \in D}
    BY DEF Rows
  <2> HIDE DEF D
  <2> QED
    BY <2>1, <2>2, Pairs, FS_CardinalityType
<1>9. backend.perOrigin[k] = 0
  BY <1>1, <1>7, FS_EmptySet DEF Counts
<1>10. Cardinality(Present(Y, k)) = backend.perOrigin[k] + Cardinality(Rows(k))
  <2> HIDE DEF D, Y
  <2> QED
    BY <1>7, <1>8, <1>9
<1>11. \A i \in DOMAIN Waiting : X[Waiting[i].cookie] = Y[Waiting[i].cookie]
  BY <1>5, AboutLoaded DEF LoadedKey
<1>12. Legal(Y, Waiting)
  <2>1. Legal(X, Waiting)
    BY DEF Counts
  <2> HIDE DEF Y
  <2> QED
    BY <1>1, <1>3, <1>11, <2>1, LegalLocal
<1> QED
  BY <1>1, <1>2, <1>3, <1>4, <1>5, <1>6, <1>10, <1>12

LEMMA CountingLoads ==
  ASSUME Invariants, Counting, IInv', LoadKey \/ ChainLoadCookies
  PROVE  Counting'
<1>0. IInv /\ Reading
  BY DEF Invariants
<1> SUFFICES ASSUME Working' PROVE \E X : Counts(X)'
  BY DEF Counting
<1>1. Working /\ errors' = errors /\ errors \in Nat
  BY <1>0, WorkingBefore DEF DBThread, IInv, Typed
<1>2. PICK X : Counts(X)
  BY <1>1 DEF Counting
<1>3. /\ \/ UNCHANGED <<backend, errors>>
         \/ backend.open /\ \E k \in backend.keysToLoad : \E rows : RowsRead(k, rows)
      /\ table' = table \/ table' = OnlyPersistent
      /\ UNCHANGED monster
  BY <1>0, LoadingDoes
<1>4. \A c \in Cookies : Persists(c) => table'[c] = table[c]
  BY <1>3 DEF OnlyPersistent
<1>5. Waiting' = Waiting
  BY <1>3 DEF RowsRead, SameQueues, Waiting
<1>6. CASE UNCHANGED backend
  <2>1. Counts(X)'
    BY <1>2, <1>3, <1>4, <1>5, <1>6 DEF Counts, LoadedKey, ReadCookies
  <2> QED
    BY <2>1
<1>7. CASE \E k \in backend.keysToLoad : \E rows : RowsRead(k, rows)
  <2>1. PICK k \in backend.keysToLoad : \E rows : RowsRead(k, rows)
    BY <1>7
  <2>2. /\ backend.keysToLoad' = backend.keysToLoad \ {k}
        /\ backend.loaded' = backend.loaded \cup Rows(k)
        /\ backend.perOrigin' = [backend.perOrigin EXCEPT ![k] = @ + Cardinality(Rows(k))]
        /\ backend.initialized' = backend.initialized
    BY <1>1, <2>1 DEF RowsRead
  <2> DEFINE Y == With(X, k)
  <2>3. /\ Y \in Tables /\ k \in Keys /\ backend.initialized
        /\ \A c \in Cookies : KeyOf(c) = k => X[c] = Absent
        /\ \A c \in Cookies : KeyOf(c) # k => Y[c] = X[c]
        /\ Cardinality(Present(Y, k)) = backend.perOrigin[k] + Cardinality(Rows(k))
        /\ \A j \in Keys : j # k => Present(Y, j) = Present(X, j)
        /\ Legal(Y, Waiting)
    BY <1>1, <1>2, WithCounts
  <2>4. \A j : LoadedKey(j)' <=> j = k \/ LoadedKey(j)
    BY <2>2, <2>3 DEF LoadedKey
  <2>5. \A c \in Cookies : KeyOf(c) = k /\ Persists(c) => Y[c] = table[c]
    BY DEF With
  <2>6. \A c \in Cookies : LoadedKey(KeyOf(c))' /\ Persists(c) => Y[c] = table'[c]
    BY <1>2, <1>4, <2>3, <2>4, <2>5 DEF Counts
  <2>7. \A c \in Cookies : ~LoadedKey(KeyOf(c))' => Y[c] = Absent
    BY <1>2, <2>3, <2>4 DEF Counts
  <2>8. \A j \in Keys : backend.perOrigin'[j] = Cardinality(Present(Y, j))
    <3>1. backend.perOrigin \in [Keys -> Int]
      BY DEF Invariants, DataTyped
    <3> HIDE DEF Y
    <3> QED
      BY <1>2, <2>2, <2>3, <3>1 DEF Counts
  <2>9. ASSUME NEW c \in Cookies, LoadedKey(KeyOf(c))', c \notin ReadCookies'
        PROVE  Table!Applied(Y, Waiting)[c] = monster.view'[c]
    <3>1. Waiting \in Seq(Table!Ops) /\ X \in Tables
      BY <1>1, <1>2, Apart DEF Counts
    <3>2. c \notin ReadCookies /\ \A p \in Rows(k) : p[1] # c
      BY <2>2, <2>9 DEF ReadCookies
    <3>3. CASE KeyOf(c) = k
      <4>1. c \notin monster.handed
        BY <1>1, <3>3, Apart
      <4>2. Persists(c) => table[c] = Absent
        <5>1. <<c, table[c]>>[1] = c
          OBVIOUS
        <5>2. Persists(c) /\ table[c] # Absent => <<c, table[c]>> \in Rows(k)
          BY <3>3 DEF Rows
        <5> QED
          BY <3>2, <5>1, <5>2
      <4>3. Y[c] = Absent
        BY <2>3, <3>3, <4>2 DEF With
      <4>4. \A i \in DOMAIN Waiting : Waiting[i].cookie # c
        BY <1>1, <4>1 DEF Invariants, Seen
      <4>5. Table!Applied(Y, Waiting)[c] = Y[c]
        <5> HIDE DEF Y
        <5> QED
          BY <2>3, <3>1, <4>4, AppliedUntouched
      <4>6. monster.view[c] = Absent
        BY <1>1, <4>1 DEF Invariants, Seen
      <4> QED
        BY <1>3, <4>3, <4>5, <4>6
    <3>4. CASE KeyOf(c) # k
      <4>1. Y[c] = X[c]
        BY <2>3, <3>4
      <4>2. Table!Applied(Y, Waiting)[c] = Table!Applied(X, Waiting)[c]
        <5> HIDE DEF Y
        <5> QED
          BY <2>3, <3>1, <4>1, AppliedLocal
      <4>3. LoadedKey(KeyOf(c))
        BY <2>4, <2>9, <3>4
      <4> QED
        BY <1>2, <1>3, <3>2, <4>2, <4>3 DEF Counts
    <3> QED
      BY <3>3, <3>4
  <2>10. PICK Z : Z = Y
    OBVIOUS
  <2>11. /\ Z \in Tables /\ Legal(Z, Waiting)
         /\ \A c \in Cookies : LoadedKey(KeyOf(c))' /\ Persists(c) => Z[c] = table'[c]
         /\ \A c \in Cookies : ~LoadedKey(KeyOf(c))' => Z[c] = Absent
         /\ \A j \in Keys : backend.perOrigin'[j] = Cardinality(Present(Z, j))
         /\ \A c \in Cookies : LoadedKey(KeyOf(c))' /\ c \notin ReadCookies'
                                 => Table!Applied(Z, Waiting)[c] = monster.view'[c]
    <3> HIDE DEF Y
    <3> QED
      BY <2>3, <2>6, <2>7, <2>8, <2>9, <2>10
  <2>12. Counts(Z)'
    BY <1>5, <2>11 DEF Counts
  <2> QED
    BY <2>12
<1>8. UNCHANGED backend \/ \E k \in backend.keysToLoad : \E rows : RowsRead(k, rows)
  BY <1>3
<1> QED
  BY <1>6, <1>7, <1>8

\* ... and with the batch that was written in it.
LEMMA CountingWrite ==
  ASSUME Invariants, Counting, IInv', WriteBatch
  PROVE  Counting'
<1>0. IInv /\ Reading
  BY DEF Invariants
<1> SUFFICES ASSUME Working' PROVE \E X : Counts(X)'
  BY DEF Counting
<1>1. Working /\ errors' = errors /\ errors \in Nat
  BY <1>0, WorkingBefore DEF DBThread, IInv, Typed
<1>2. PICK X : Counts(X)
  BY <1>1 DEF Counting
<1>3. /\ backend.batch' = <<>> /\ table' = Table!Applied(table, backend.batch)
      /\ backend.perOrigin' = Counted(backend.batch)
      /\ UNCHANGED <<monster, backend.pending, backend.initialized, backend.keysToLoad, backend.loaded>>
  BY <1>0, <1>1, WriteDoes
<1> DEFINE a == backend.batch
           b == backend.pending
<1>4. a \in Seq(Table!Ops) /\ b \in Seq(Table!Ops)
  BY <1>0 DEF IInv, Typed
<1>5. Waiting = a \o b /\ Waiting' = b
  BY <1>3, <1>4 DEF Waiting
<1>6. PICK Z : Z = Table!Applied(X, a)
  OBVIOUS
<1>7. X \in Tables /\ table \in Tables /\ Z \in Tables
  BY <1>1, <1>2, <1>4, <1>6, Apart, AppliedTyped DEF Counts
<1>8. /\ Table!Applied(X, Waiting) = Table!Applied(Z, b)
      /\ Legal(X, Waiting) <=> Legal(X, a) /\ Legal(Z, b)
  <2> DEFINE w == Waiting
  <2>1. w = a \o b
    BY <1>5
  <2> HIDE DEF a, b, w
  <2>2. Table!Applied(X, w) = Table!Applied(Table!Applied(X, a), b)
    BY <1>4, <2>1, TwoParts
  <2>3. Legal(X, w) <=> Legal(X, a) /\ Legal(Table!Applied(X, a), b)
    BY <1>4, <2>1, TwoParts
  <2> QED
    BY <1>6, <2>2, <2>3 DEF w
<1>9. Legal(X, a) /\ Legal(Z, b)
  BY <1>2, <1>8 DEF Counts
<1>10. \A i \in DOMAIN a : LoadedKey(KeyOf(a[i].cookie))
  <2> SUFFICES ASSUME NEW i \in DOMAIN a PROVE LoadedKey(KeyOf(a[i].cookie))
    OBVIOUS
  <2> DEFINE w == Waiting
  <2>1. w = a \o b
    BY <1>5
  <2>2. i \in DOMAIN w /\ w[i] = a[i]
    <3> HIDE DEF a, b, w
    <3>1. /\ Len(a) \in Nat /\ Len(b) \in Nat /\ DOMAIN a = 1 .. Len(a)
          /\ DOMAIN w = 1 .. Len(a) + Len(b)
          /\ \A j \in 1 .. Len(a) + Len(b) : w[j] = IF j <= Len(a) THEN a[j] ELSE b[j - Len(a)]
      BY ONLY <1>4, <2>1, Longer
    <3> DEFINE m == Len(a)
               n == Len(b)
    <3>2. m \in Nat /\ n \in Nat /\ i \in 1 .. m
      BY <3>1
    <3> HIDE DEF m, n
    <3>3. i \in 1 .. m + n /\ i <= m
      BY <3>2
    <3> QED
      BY <3>1, <3>3 DEF m, n
  <2> QED
    BY <1>1, <2>2, AboutLoaded
<1>11. \A k : LoadedKey(k)' <=> LoadedKey(k)
  BY <1>3 DEF LoadedKey
<1>12. ASSUME NEW c \in Cookies, LoadedKey(KeyOf(c)), Persists(c)
       PROVE  Z[c] = table'[c]
  <2>1. X[c] = table[c]
    BY <1>2, <1>12 DEF Counts
  <2> DEFINE t == table
  <2>2. Table!Applied(X, a)[c] = Table!Applied(t, a)[c]
    <3> HIDE DEF a
    <3> QED
      BY <1>4, <1>7, <2>1, AppliedLocal
  <2> QED
    BY <1>3, <1>6, <2>2
<1>13. ASSUME NEW c \in Cookies, ~LoadedKey(KeyOf(c))
       PROVE  Z[c] = Absent
  <2>1. X[c] = Absent
    BY <1>2, <1>13 DEF Counts
  <2>2. \A i \in DOMAIN a : a[i].cookie # c
    BY <1>10, <1>13
  <2> HIDE DEF a
  <2> QED
    BY <1>4, <1>6, <1>7, <2>1, <2>2, AppliedUntouched
<1>14. ASSUME NEW k \in Keys
       PROVE  backend.perOrigin'[k] = Cardinality(Present(Z, k))
  <2>1. backend.perOrigin'[k] = backend.perOrigin[k] + Cardinality(Of(a, "add", k))
                                                     - Cardinality(Of(a, "delete", k))
    BY <1>3, <1>4, KeyCount
  <2>2. Cardinality(Present(Z, k)) = Cardinality(Present(X, k)) + Cardinality(Of(a, "add", k))
                                                                - Cardinality(Of(a, "delete", k))
    <3> HIDE DEF a
    <3> QED
      BY <1>4, <1>6, <1>7, <1>9, LegalCounts
  <2>3. backend.perOrigin[k] = Cardinality(Present(X, k))
    BY <1>2 DEF Counts
  <2> QED
    BY <2>1, <2>2, <2>3
<1>15. ASSUME NEW c \in Cookies, LoadedKey(KeyOf(c)), c \notin ReadCookies
       PROVE  Table!Applied(Z, b)[c] = monster.view'[c]
  <2>1. Table!Applied(X, Waiting)[c] = monster.view[c]
    BY <1>2, <1>15 DEF Counts
  <2> QED
    BY <1>3, <1>8, <2>1
<1>16. ReadCookies' = ReadCookies
  BY <1>3 DEF ReadCookies
<1>17. Counts(Z)'
  BY <1>5, <1>7, <1>9, <1>11, <1>12, <1>13, <1>14, <1>15, <1>16, <1>3 DEF Counts
<1> QED
  BY <1>17

LEMMA CountingCommit ==
  ASSUME Invariants, Counting, IInv', Commit
  PROVE  Counting'
<1>0. IInv
  BY DEF Invariants
<1>1. /\ backend.batch = <<>> /\ backend.pending' = <<>>
      /\ IF backend.open /\ backend.pending # <<>>
           THEN backend.batch' = backend.pending
           ELSE backend.batch' = <<>>
      /\ SameLoads /\ UNCHANGED <<table, monster, backend.initialized>>
  BY <1>0, CommitDoes
<1>2. Working' => Working
  BY <1>0, WorkingBefore DEF DBThread
<1>3. Working' => Waiting' = Waiting
  <2> SUFFICES ASSUME Working' PROVE Waiting' = Waiting
    OBVIOUS
  <2>1. backend.pending # <<>> => backend.open
    BY <1>0, <1>2 DEF IInv, Failing, Working
  <2>2. backend.pending \in Seq(Table!Ops)
    BY <1>0 DEF IInv, Typed
  <2>3. backend.batch' = backend.pending
    BY <1>1, <2>1
  <2> QED
    BY <1>1, <2>2, <2>3 DEF Waiting
<1> QED
  BY <1>1, <1>2, <1>3, CountingKept

LEMMA CountingOpening ==
  ASSUME Invariants, Counting, IInv', OpenDatabase \/ InitializeFails \/ DatabaseTooNew \/ EnsureDatabaseVersion
  PROVE  Counting'
<1>0. IInv
  BY DEF Invariants
<1>1. /\ SameLoads /\ SameQueues /\ UNCHANGED <<monster, backend.initialized>>
      /\ ~backend.initialized
  BY <1>0, OpeningDoes DEF Reading, KeysKnown, Invariants
<1>2. Working' => Working
  BY <1>0, WorkingBefore DEF DBThread
<1>3. Waiting' = Waiting
  BY <1>1 DEF SameQueues, Waiting
<1> QED
  BY <1>1, <1>2, <1>3, CountingKept

LEMMA CountingEnding ==
  ASSUME Invariants, Counting, IInv', CloseDatabase \/ KillDatabase \/ RunClosure
  PROVE  Counting'
<1>0. IInv
  BY DEF Invariants
<1>1. CASE CloseDatabase
  <2>1. Closed'
    BY <1>0, <1>1, ClosedSteps DEF DBThread
  <2> QED
    BY <2>1 DEF Counting, Working
<1>2. CASE KillDatabase
  <2>1. Has(loops.db, "kill")
    <3>1. loops.db \in Seq(Tasks) /\ loops.db # <<>> /\ Head(loops.db).task = "kill"
      BY <1>0, <1>2 DEF KillDatabase, At, IInv, Typed
    <3>2. 1 \in DOMAIN loops.db /\ Head(loops.db) = loops.db[1]
      BY <3>1
    <3> QED
      BY <3>1, <3>2 DEF Has
  <2>2. ~Working
    BY <1>0, <2>1 DEF IInv, Failing, Working
  <2>3. ~Working'
    BY <1>0, <1>2, <2>2, WorkingBefore DEF DBThread
  <2> QED
    BY <2>3 DEF Counting
<1>3. CASE RunClosure
  <2>1. UNCHANGED <<table, backend, monster>>
    BY <1>3 DEF RunClosure
  <2>2. Working' => Working
    BY <1>0, <1>3, WorkingBefore DEF DBThread
  <2>3. Waiting' = Waiting /\ SameLoads
    BY <2>1 DEF Waiting, SameLoads
  <2> QED
    BY <2>1, <2>2, <2>3, CountingKept
<1> QED
  BY <1>1, <1>2, <1>3

NeverOpened == /\ ~backend.initialized /\ backend.pending = <<>> /\ backend.batch = <<>>
             /\ \A k \in Keys : backend.perOrigin[k] = 0

LEMMA NothingCounted == NeverOpened => Counting
<1> SUFFICES ASSUME NeverOpened PROVE \E X : Counts(X)
  BY DEF Counting
<1> DEFINE X == [c \in Cookies |-> Absent]
<1>1. Waiting = <<>>
  BY DEF Waiting, NeverOpened
<1>2. X \in Tables
  BY DEF Tables
<1>3. \A k : Present(X, k) = {}
  BY DEF Present
<1>4. Cardinality({}) = 0
  BY FS_EmptySet
<1>5. Counts(X)
  BY <1>1, <1>2, <1>3, <1>4, LegalNothing DEF Counts, LoadedKey, NeverOpened
<1> QED
  BY <1>5

LEMMA CountingStep ==
  ASSUME Invariants, Counting, IInv', [Next]_vars
  PROVE  Counting'
<1>0. IInv
  BY DEF Invariants
<1>1. CASE \/ Load \/ Flush \/ \E keep \in BOOLEAN : Close(keep)
           \/ \E k \in Keys : LoadCookiesForKey(k)
           \/ TimerFires
  <2>1. /\ SameQueues /\ SameLoads /\ SameView /\ UNCHANGED <<table, backend.initialized>>
    BY <1>0, <1>1, PostsDo
  <2>2. Working' => Working
    BY <1>0, <1>1, WorkingBefore DEF Caller
  <2>3. Waiting' = Waiting
    BY <2>1 DEF SameQueues, Waiting
  <2> QED
    BY <2>1, <2>2, <2>3, CountingKept DEF SameView
<1>2. CASE Restart
  <2>1. NeverOpened'
    BY <1>2 DEF Restart, NewBackend, NeverOpened
  <2> QED
    BY <2>1, NothingCounted, PTL
<1>3. CASE UNCHANGED vars
  <2>1. Working' => Working
    BY <1>3 DEF vars, Working, Healthy, Closed
  <2>2. Waiting' = Waiting /\ SameLoads
    BY <1>3 DEF vars, Waiting, SameLoads
  <2> QED
    BY <1>3, <2>1, <2>2, CountingKept DEF vars
<1> QED
  BY <1>1, <1>2, <1>3, CountingSubmit, CountingAnswer, CountingOpening, CountingKeys, CountingLoads,
     CountingCommit, CountingWrite, CountingEnding DEF Next, Caller, DBThread

LEMMA CountingInit == Init => Counting
<1>1. Init => NeverOpened
  BY DEF Init, NewBackend, NeverOpened
<1> QED
  BY <1>1, NothingCounted

\* The DB thread's task is one of its tasks.
LEMMA HeadTask ==
  ASSUME IInv, loops.db # <<>>
  PROVE  1 \in DOMAIN loops.db /\ Head(loops.db) = loops.db[1]
<1>1. loops.db \in Seq(Tasks)
  BY DEF IInv, Typed
<1> QED
  BY <1>1

\* Once the backend is closed nothing is read, written or counted any more.
LEMMA AfterTheEnd ==
  ASSUME IInv, StaysClosed, Closed, Caller \/ DBThread \/ CompleteLoadOnIOThread \/ TimerFires
  PROVE  /\ UNCHANGED <<table, version, backend.forceKeep, backend.initialized, backend.keysToLoad>>
         /\ errors' = errors
<1>1. /\ ~backend.open /\ Loadless(loops.db) /\ monster.gone
      /\ \A i \in DOMAIN loops.db : loops.db[i].task # "close"
  BY DEF StaysClosed, Closed
<1>2. loops.db # <<>> => Head(loops.db).task \notin {"load", "loadKey", "close"}
  BY <1>1, HeadTask DEF Loadless, LoadTasks
<1>3. backend.batch = <<>> /\ backend.step # "write"
  BY DEF IInv, Batches
<1>4. Records
  BY DEF IInv, Typed
<1>5. CASE Caller
  <2>1. ~(\E keep \in BOOLEAN : Close(keep)) /\ ~(\E o \in Operations : BatchOperation(o))
    BY <1>1 DEF Close, BatchOperation
  <2> QED
    BY <1>5, <2>1 DEF Caller, Load, Flush, LoadCookiesForKey
<1>6. CASE CompleteLoadOnIOThread
  <2>1. backend' = [backend EXCEPT !.loaded = {}] /\ UNCHANGED <<table, version, errors>>
    BY <1>6 DEF CompleteLoadOnIOThread
  <2> QED
    BY <1>4, <2>1 DEF Records, BackendFields
<1>7. CASE TimerFires
  BY <1>7 DEF TimerFires
<1>8. CASE DBThread
  <2>1. ~(OpenDatabase \/ InitializeFails \/ DatabaseTooNew \/ EnsureDatabaseVersion)
    BY <1>2, OpeningDoes
  <2>2. ~ReadKeys
    BY <1>2, ReadingDoes
  <2>3. CASE LoadKey \/ ChainLoadCookies
    <3>1. UNCHANGED <<backend, errors>> /\ table' = table /\ version' = version
      BY <1>1, <2>3, LoadingDoes
    <3> QED
      BY <3>1
  <2>4. ~WriteBatch
    BY <1>3, WriteDoes
  <2>5. ~CloseDatabase
    BY <1>2 DEF CloseDatabase, At
  <2>6. CASE Commit
    <3>1. \E b, s : backend' = [backend EXCEPT !.batch = b, !.pending = <<>>, !.numPending = 0, !.step = s]
      BY <2>6 DEF Commit
    <3>2. UNCHANGED <<table, version, errors>>
      BY <2>6 DEF Commit
    <3> QED
      BY <1>4, <3>1, <3>2 DEF Records, BackendFields
  <2>7. CASE KillDatabase
    <3>1. backend' = [backend EXCEPT !.open = FALSE] /\ UNCHANGED <<table, version, errors>>
      BY <1>1, <2>7 DEF KillDatabase
    <3> QED
      BY <1>4, <3>1 DEF Records, BackendFields
  <2>8. CASE RunClosure
    BY <2>8 DEF RunClosure
  <2> QED
    BY <1>8, <2>1, <2>2, <2>3, <2>4, <2>5, <2>6, <2>7, <2>8 DEF DBThread
<1> QED
  BY <1>5, <1>6, <1>7, <1>8

\* The origins to be cleared are looked up in counts that are right.
LEMMA ClosingClears ==
  ASSUME Invariants, Counting, IInv', CloseDatabase
  PROVE  ClearedOnExit'
<1> SUFFICES ASSUME Healthy', ~backend.forceKeep', backend.initialized', backend.keysToLoad' = {},
                    NEW c \in Cookies, KeyOf(c) \in ClearKeys, Persists(c)
             PROVE  table'[c] = Absent
  BY DEF ClearedOnExit
<1>0. IInv /\ Records /\ errors \in Nat /\ errors' \in Nat
  BY DEF Invariants, IInv, Typed
<1>1. /\ backend' = [backend EXCEPT !.open = FALSE, !.step = "start"]
      /\ version' = version
      /\ Head(loops.db).task = "close" /\ loops.db # <<>>
  BY DEF CloseDatabase, At
<1>2. UNCHANGED <<backend.forceKeep, backend.initialized, backend.keysToLoad>>
  BY <1>0, <1>1 DEF Records, BackendFields
<1>3. errors = 0 /\ errors' = 0 /\ Healthy
  <2>1. errors' = errors \/ errors' = errors + 1
    BY <1>0, EndingDoes
  <2> QED
    BY <1>0, <1>1, <2>1 DEF Healthy
<1>4. ~Closed
  BY <1>0, <1>1, HeadTask DEF Closed
<1>5. PICK X : Counts(X)
  BY <1>3, <1>4 DEF Counting, Working
<1>6. backend.open
  BY <1>0, <1>2, <1>3, <1>4 DEF IInv, Failing
<1>7. table' = [d \in Cookies |-> IF KeyOf(d) \in {k \in ClearKeys : backend.perOrigin[k] > 0}
                                    THEN Absent ELSE table[d]]
  <2>1. ~Error(FALSE)
    BY <1>3 DEF Error
  <2>2. ClearKeys # {} /\ ~backend.forceKeep
    BY <1>2
  <2> QED
    BY <1>6, <2>1, <2>2 DEF CloseDatabase
<1>8. CASE backend.perOrigin[KeyOf(c)] > 0
  BY <1>7, <1>8
<1>9. CASE ~(backend.perOrigin[KeyOf(c)] > 0)
  <2> DEFINE k == KeyOf(c)
             P == Present(X, k)
  <2>1. k \in Keys /\ LoadedKey(k)
    BY <1>2, StoreAssumption DEF LoadedKey
  <2>2. IsFiniteSet(P) /\ Cardinality(P) \in Nat
    BY PresentFinite
  <2>3. Cardinality(P) = 0
    <3>1. backend.perOrigin[k] = Cardinality(P)
      BY <1>5, <2>1 DEF Counts
    <3> HIDE DEF P
    <3> QED
      BY <1>9, <2>2, <3>1
  <2>4. P = {}
    <3> HIDE DEF P
    <3> QED
      BY <2>2, <2>3, FS_EmptySet
  <2>5. X[c] = Absent
    BY <2>4 DEF Present
  <2>6. table[c] = Absent
    BY <1>5, <2>1, <2>5 DEF Counts
  <2> QED
    BY <1>7, <2>6
<1> QED
  BY <1>8, <1>9

\* Nothing brings a cleared cookie back.
LEMMA ClearedStep ==
  ASSUME Invariants, Counting, ClearedOnExit, IInv', [Next]_vars
  PROVE  ClearedOnExit'
<1>0. IInv /\ StaysClosed
  BY DEF Invariants
<1>1. CASE CloseDatabase
  BY <1>1, ClosingClears
<1>2. CASE (Caller \/ DBThread \/ CompleteLoadOnIOThread \/ TimerFires) /\ ~CloseDatabase
  <2> SUFFICES ASSUME Closed' PROVE ClearedOnExit'
    BY DEF ClearedOnExit
  <2>1. Closed
    BY <1>0, <1>2, ClosedSteps
  <2>2. /\ UNCHANGED <<table, version, backend.forceKeep, backend.initialized, backend.keysToLoad>>
        /\ errors' = errors
    BY <1>0, <1>2, <2>1, AfterTheEnd
  <2> QED
    BY <2>1, <2>2 DEF ClearedOnExit, Healthy
<1>3. CASE Restart
  <2>1. ~Closed'
    BY <1>3 DEF Restart, NewMonster, Closed
  <2> QED
    BY <2>1 DEF ClearedOnExit
<1>4. CASE UNCHANGED vars
  BY <1>4 DEF vars, ClearedOnExit, Closed, Healthy
<1> QED
  BY <1>1, <1>2, <1>3, <1>4 DEF Next

\* A backend that is closed after it has read all keys leaves no cookie of an origin that is
\* to be cleared on exit, whatever was added, deleted and written since.
THEOREM Cleared == Spec => []ClearedOnExit
<1>1. Init => Counting /\ ClearedOnExit
  BY CountingInit DEF Init, NewMonster, ClearedOnExit, Closed
<1>2. Invariants /\ Invariants' /\ Counting /\ ClearedOnExit /\ [Next]_vars => (Counting /\ ClearedOnExit)'
  <2> SUFFICES ASSUME Invariants, Invariants', Counting, ClearedOnExit, [Next]_vars
               PROVE  (Counting /\ ClearedOnExit)'
    OBVIOUS
  <2>1. IInv'
    BY DEF Invariants
  <2> QED
    BY <2>1, CountingStep, ClearedStep
<1> QED
  BY <1>1, <1>2, InvariantsHold, PTL DEF Spec
=============================================================================
