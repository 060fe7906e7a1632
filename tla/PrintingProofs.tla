--------------------------- MODULE PrintingProofs ---------------------------
(***************************************************************************)
(* Printing keeps TypeOK, PreparedHasParams, SpooledInOrder,               *)
(* SuccessIsSpooled and TabJobIsTracked, for every value of the constants. *)
(*                                                                         *)
(* The inductive invariant IInv is about the renderer's helper h, the      *)
(* browser's state b and the counters u.  Its parts say how the waiting    *)
(* calls of Print are stacked and what they have asked for, that cookies   *)
(* are given out one after the other, that a document is printed once,     *)
(* that only queries that became jobs have something to do, how a worker   *)
(* stands to its job, that a count of pages and the pages it is about are  *)
(* sent and arrive in order, and that every success was earned.            *)
(*                                                                         *)
(* Winds(b, d) is the argument for the UI thread: everything it does when  *)
(* a job ends, with Cancel, Stop, Notify and ReleasePrintJob calling each  *)
(* other, is one relation that composes and keeps every part.  Enough      *)
(* bounds the cookies: a query is answered twice at most.                  *)
(***************************************************************************)
EXTENDS Printing, FiniteSetTheorems, SequenceTheorems, TLAPS

TaskNames   == {"cookie", "count", "page", "failed", "gone", "jobFailed", "docDone", "documentDone"}
JobTasks    == {"jobFailed", "docDone", "documentDone"}
WorkerTasks == {"doc", "start", "nodoc", "quit"}

UITasks  == [task : TaskNames, id : Nat, n : Nat]
Dones    == [task : {"done"}, id : Nat, n : {0, 1}]
Calls    == [at : {"default", "ask"}, cookie : Nat, query : Ids \cup {0}, replied : BOOLEAN]
Queries  == [at : {"unused", "asking", "queued", "released", "stopped", "job"}, cookie : Nat]
Tabs     == [cookie : Nat, number : PageCounts \cup {0}, job : Ids \cup {0}, succeeded : BOOLEAN,
             current : SUBSET Ids, quit : {"no", "stopping", "done"}, left : SUBSET Ids,
             flushing : Ids \cup {0}]
Jobs     == [pending : BOOLEAN, doc : BOOLEAN, count : PageCounts \cup {0}, pages : SUBSET Nat,
             listens : BOOLEAN]
Workers  == [thread : {"none", "running", "ended"}, stopping : BOOLEAN, tasks : Seq(WorkerTasks),
             doc : BOOLEAN, page : Nat, looping : BOOLEAN, retry : BOOLEAN, canceled : BOOLEAN,
             spooled : Seq(Nat)]
Queues   == [ui : Seq(UITasks), inbox : Seq(Dones), io : SUBSET Ids, pool : SUBSET Ids, polls : SUBSET Ids]
Browsers == [queries : [Ids -> Queries], tab : Tabs, jobs : [Ids -> Jobs], workers : [Ids -> Workers],
             loops : Queues]
Helpers  == [alive : BOOLEAN, params : Nat \cup {NoParams}, prep : Nat, stack : Seq(Calls)]
Uses     == [prints : Nat, cookies : Nat, faults : Nat]

Typed == helper \in Helpers /\ Browser \in Browsers /\ used \in Uses

\* A worker's tasks begin with its document and its start, if they are still there.
Starts(s) == \E i \in DOMAIN s : s[i] = "start"
Begins(s) ==
  /\ \A i \in DOMAIN s : s[i] = "doc" => i = 1 /\ 2 \in DOMAIN s /\ s[2] = "start"
  /\ \A i \in DOMAIN s : s[i] = "start" => i = 1 \/ (i = 2 /\ s[1] = "doc")

\* A worker that is told something more starts its job as before.
LEMMA Told ==
  ASSUME NEW s \in Seq(WorkerTasks), NEW t \in {"nodoc", "quit"}
  PROVE  /\ Append(s, t) \in Seq(WorkerTasks)
         /\ Begins(s) => Begins(Append(s, t))
         /\ Starts(Append(s, t)) <=> Starts(s)
<1> DEFINE d == Append(s, t)
           n == Len(s)
<1>1. /\ n \in Nat /\ DOMAIN s = 1 .. n /\ DOMAIN d = 1 .. n + 1
      /\ d[n + 1] = t /\ \A i \in 1 .. n : d[i] = s[i]
      /\ d \in Seq(WorkerTasks)
  BY DEF WorkerTasks
<1>2. t # "doc" /\ t # "start"
  OBVIOUS
<1> HIDE DEF d, n
<1>3. \A i \in DOMAIN d : d[i] \in {"doc", "start"} => i \in DOMAIN s /\ s[i] = d[i]
  BY <1>1, <1>2
<1>4. \A i \in DOMAIN s : i \in DOMAIN d /\ d[i] = s[i]
  BY <1>1
<1>5. Starts(d) <=> Starts(s)
  BY <1>3, <1>4 DEF Starts
<1>6. ASSUME Begins(s) PROVE Begins(d)
  <2>1. \A i \in DOMAIN d : d[i] = "doc" => i = 1 /\ 2 \in DOMAIN d /\ d[2] = "start"
    BY <1>3, <1>4, <1>6 DEF Begins
  <2>2. ASSUME NEW i \in DOMAIN d, d[i] = "start"
        PROVE  i = 1 \/ (i = 2 /\ d[1] = "doc")
    <3>1. i \in DOMAIN s /\ s[i] = "start"
      BY <1>3, <2>2
    <3>2. i = 1 \/ (i = 2 /\ s[1] = "doc")
      BY <1>6, <3>1 DEF Begins
    <3>3. i = 2 => 1 \in DOMAIN s
      BY <1>1, <3>1
    <3> QED
      BY <1>4, <3>2, <3>3
  <2> QED
    BY <2>1, <2>2 DEF Begins
<1> QED
  BY <1>1, <1>5, <1>6 DEF d

\* A worker that was told to drop its document, to end, or that it is cancelled.
Tells(w, v) ==
  /\ v \in Workers
  /\ v.thread = w.thread /\ v.doc = w.doc /\ v.page = w.page /\ v.looping = w.looping
  /\ v.retry = w.retry /\ v.spooled = w.spooled
  /\ Begins(w.tasks) => Begins(v.tasks)
  /\ Starts(v.tasks) <=> Starts(w.tasks)

\* A worker that is told nothing.
LEMMA TellsNothing ==
  ASSUME NEW w \in Workers
  PROVE  Tells(w, w)
BY DEF Tells

\* A worker may be told several things.
LEMMA TellsTwice ==
  ASSUME NEW w, NEW v, NEW u, Tells(w, v), Tells(v, u)
  PROVE  Tells(w, u)
BY DEF Tells

\* Dropping the document and stopping the thread are things a worker is told.
LEMMA TellsTask ==
  ASSUME NEW w \in Workers, NEW t \in {"nodoc", "quit"}
  PROVE  /\ Tells(w, [w EXCEPT !.tasks = Append(@, t)])
         /\ Tells(w, [w EXCEPT !.stopping = TRUE, !.tasks = Append(@, t)])
<1>1. w.tasks \in Seq(WorkerTasks)
  BY DEF Workers
<1>2. /\ Append(w.tasks, t) \in Seq(WorkerTasks)
      /\ Begins(w.tasks) => Begins(Append(w.tasks, t))
      /\ Starts(Append(w.tasks, t)) <=> Starts(w.tasks)
  BY <1>1, Told
<1> DEFINE v == [w EXCEPT !.tasks = Append(@, t)]
           u == [w EXCEPT !.stopping = TRUE, !.tasks = Append(@, t)]
<1>3. v \in Workers /\ u \in Workers
  BY <1>2 DEF Workers
<1>4. v.tasks = Append(w.tasks, t) /\ u.tasks = Append(w.tasks, t)
  BY DEF Workers
<1>5. /\ v.thread = w.thread /\ v.doc = w.doc /\ v.page = w.page /\ v.looping = w.looping
      /\ v.retry = w.retry /\ v.spooled = w.spooled
  BY DEF Workers
<1>6. /\ u.thread = w.thread /\ u.doc = w.doc /\ u.page = w.page /\ u.looping = w.looping
      /\ u.retry = w.retry /\ u.spooled = w.spooled
  BY DEF Workers
<1> HIDE DEF v, u
<1>7. Tells(w, v) /\ Tells(w, u)
  BY <1>2, <1>3, <1>4, <1>5, <1>6 DEF Tells
<1> QED
  BY <1>7 DEF v, u

\* Thread::StopSoon tells the worker at most to quit.
LEMMA StopSoonTells ==
  ASSUME NEW w \in Workers
  PROVE  Tells(w, StopSoon(w))
BY TellsNothing, TellsTask DEF StopSoon

\* What the UI thread does when a job ends: it tells the job's worker, forgets the job, and
\* lets the renderer know.
Winds(b, d) ==
  /\ d \in Browsers
  /\ d.queries = b.queries /\ d.loops.ui = b.loops.ui /\ d.loops.io = b.loops.io
  /\ \A q \in Ids : Tells(b.workers[q], d.workers[q])
  /\ \A q \in Ids : d.jobs[q].count = b.jobs[q].count /\ d.jobs[q].pages = b.jobs[q].pages
  /\ \A q \in Ids : b.queries[q].at # "job" => d.workers[q] = b.workers[q] /\ d.jobs[q] = b.jobs[q]
  /\ \A q \in d.loops.pool \cup d.loops.polls :
       q \in b.loops.pool \cup b.loops.polls \/ b.queries[q].at = "job"
  /\ d.tab.cookie = b.tab.cookie /\ d.tab.number = b.tab.number /\ d.tab.succeeded = b.tab.succeeded
  /\ d.tab.quit = b.tab.quit /\ d.tab.left = b.tab.left /\ d.tab.flushing = b.tab.flushing
  /\ d.tab.job \in {b.tab.job, 0} /\ d.tab.current \subseteq b.tab.current
  /\ \A i \in DOMAIN d.loops.inbox : d.loops.inbox[i].n = 1 =>
       \/ \E j \in DOMAIN b.loops.inbox : b.loops.inbox[j] = d.loops.inbox[i]
       \/ b.tab.succeeded /\ b.tab.job # 0 /\ d.loops.inbox[i].id = b.tab.job

\* Nothing need happen when a job ends.
LEMMA WindsNothing ==
  ASSUME NEW b \in Browsers
  PROVE  Winds(b, b)
<1>1. \A q \in Ids : b.workers[q] \in Workers
  BY DEF Browsers
<1>2. \A q \in Ids : Tells(b.workers[q], b.workers[q])
  BY <1>1, TellsNothing
<1>3. b.tab.current \subseteq b.tab.current
  OBVIOUS
<1> QED
  BY <1>2, <1>3 DEF Winds

\* Two parts of ending a job end it.
LEMMA WindsTwice ==
  ASSUME NEW b, NEW d, NEW e, Winds(b, d), Winds(d, e)
  PROVE  Winds(b, e)
<1>1. \A q \in Ids : Tells(b.workers[q], e.workers[q])
  BY TellsTwice DEF Winds
<1>2. \A q \in Ids : e.jobs[q].count = b.jobs[q].count /\ e.jobs[q].pages = b.jobs[q].pages
  BY DEF Winds
<1>3. \A q \in Ids : b.queries[q].at # "job" => e.workers[q] = b.workers[q] /\ e.jobs[q] = b.jobs[q]
  BY DEF Winds
<1>4. \A q \in e.loops.pool \cup e.loops.polls :
       q \in b.loops.pool \cup b.loops.polls \/ b.queries[q].at = "job"
  BY DEF Winds
<1>5. ASSUME NEW i \in DOMAIN e.loops.inbox, e.loops.inbox[i].n = 1
      PROVE  \/ \E j \in DOMAIN b.loops.inbox : b.loops.inbox[j] = e.loops.inbox[i]
             \/ b.tab.succeeded /\ b.tab.job # 0 /\ e.loops.inbox[i].id = b.tab.job
  <2>1. \/ \E j \in DOMAIN d.loops.inbox : d.loops.inbox[j] = e.loops.inbox[i]
        \/ d.tab.succeeded /\ d.tab.job # 0 /\ e.loops.inbox[i].id = d.tab.job
    BY <1>5 DEF Winds
  <2>2. CASE d.tab.succeeded /\ d.tab.job # 0 /\ e.loops.inbox[i].id = d.tab.job
    BY <2>2 DEF Winds
  <2>3. CASE \E j \in DOMAIN d.loops.inbox : d.loops.inbox[j] = e.loops.inbox[i]
    <3>1. PICK j \in DOMAIN d.loops.inbox : d.loops.inbox[j] = e.loops.inbox[i]
      BY <2>3
    <3> QED
      BY <1>5, <3>1 DEF Winds
  <2> QED
    BY <2>1, <2>2, <2>3
<1>6. e.tab.current \subseteq b.tab.current /\ e.tab.job \in {b.tab.job, 0}
  BY DEF Winds
<1>7. /\ e \in Browsers
      /\ e.queries = b.queries /\ e.loops.ui = b.loops.ui /\ e.loops.io = b.loops.io
      /\ e.tab.cookie = b.tab.cookie /\ e.tab.number = b.tab.number /\ e.tab.succeeded = b.tab.succeeded
      /\ e.tab.quit = b.tab.quit /\ e.tab.left = b.tab.left /\ e.tab.flushing = b.tab.flushing
  BY DEF Winds
<1> QED
  BY <1>1, <1>2, <1>3, <1>4, <1>5, <1>6, <1>7 DEF Winds

\* All that the browser does about the job q, short of what it tells the tab.
Ends(b, q, d) ==
  /\ d.queries = b.queries /\ d.tab = b.tab
  /\ d.loops.ui = b.loops.ui /\ d.loops.io = b.loops.io /\ d.loops.inbox = b.loops.inbox
  /\ d.loops.pool \subseteq b.loops.pool \cup {q} /\ d.loops.polls \subseteq b.loops.polls \cup {q}
  /\ \A r \in Ids : r # q => d.workers[r] = b.workers[r] /\ d.jobs[r] = b.jobs[r]
  /\ Tells(b.workers[q], d.workers[q])
  /\ d.jobs[q].count = b.jobs[q].count /\ d.jobs[q].pages = b.jobs[q].pages

\* A step ends a job when it only tells the job's worker and lets it be stopped.
LEMMA WindsBy ==
  ASSUME NEW b \in Browsers, NEW q \in Ids, b.queries[q].at = "job", NEW d \in Browsers, Ends(b, q, d)
  PROVE  Winds(b, d)
<1>0. /\ d.queries = b.queries /\ d.tab = b.tab
      /\ d.loops.ui = b.loops.ui /\ d.loops.io = b.loops.io /\ d.loops.inbox = b.loops.inbox
      /\ d.loops.pool \subseteq b.loops.pool \cup {q} /\ d.loops.polls \subseteq b.loops.polls \cup {q}
      /\ \A r \in Ids : r # q => d.workers[r] = b.workers[r] /\ d.jobs[r] = b.jobs[r]
      /\ Tells(b.workers[q], d.workers[q])
      /\ d.jobs[q].count = b.jobs[q].count /\ d.jobs[q].pages = b.jobs[q].pages
  BY DEF Ends
<1>1. /\ b.workers \in [Ids -> Workers] /\ b.jobs \in [Ids -> Jobs] /\ b.queries \in [Ids -> Queries]
      /\ b.tab \in Tabs
  BY DEF Browsers
<1>6. \A r \in Ids : Tells(b.workers[r], d.workers[r])
  <2> TAKE r \in Ids
  <2>1. CASE r = q
    BY <1>0, <2>1
  <2>2. CASE r # q
    BY <1>0, <1>1, <2>2, TellsNothing
  <2> QED
    BY <2>1, <2>2
<1>7. \A r \in Ids : d.jobs[r].count = b.jobs[r].count /\ d.jobs[r].pages = b.jobs[r].pages
  BY <1>0
<1>8. \A r \in Ids : b.queries[r].at # "job" => d.workers[r] = b.workers[r] /\ d.jobs[r] = b.jobs[r]
  BY <1>0
<1>9. \A r \in d.loops.pool \cup d.loops.polls :
       r \in b.loops.pool \cup b.loops.polls \/ b.queries[r].at = "job"
  BY <1>0
<1>10. \A i \in DOMAIN d.loops.inbox : \E k \in DOMAIN b.loops.inbox : b.loops.inbox[k] = d.loops.inbox[i]
  BY <1>0
<1>11. d.tab.current \subseteq b.tab.current
  BY <1>0
<1> QED
  BY <1>0, <1>6, <1>7, <1>8, <1>9, <1>10, <1>11 DEF Winds

\* UpdatePrintedDocument(NULL) is part of ending a job, and leaves the tab alone.
LEMMA DropWinds ==
  ASSUME NEW b \in Browsers, NEW q \in Ids, b.queries[q].at = "job"
  PROVE  /\ Winds(b, DropDocument(b, q))
         /\ DropDocument(b, q).tab = b.tab /\ DropDocument(b, q).loops = b.loops
<1> DEFINE d == DropDocument(b, q)
           tells == b.jobs[q].doc /\ b.workers[q].thread = "running"
           w == IF tells THEN [b.workers[q] EXCEPT !.tasks = Append(@, "nodoc")] ELSE b.workers[q]
           j == [b.jobs[q] EXCEPT !.doc = FALSE]
<1>1. /\ b.workers[q] \in Workers /\ b.jobs[q] \in Jobs
      /\ b.workers \in [Ids -> Workers] /\ b.jobs \in [Ids -> Jobs] /\ b.queries \in [Ids -> Queries]
      /\ b.tab \in Tabs /\ b.loops \in Queues
  BY DEF Browsers
<1>2. Tells(b.workers[q], w)
  BY <1>1, TellsNothing, TellsTask
<1>3. j \in Jobs /\ j.count = b.jobs[q].count /\ j.pages = b.jobs[q].pages
  BY <1>1 DEF Jobs
<1>4. /\ d.queries = b.queries /\ d.tab = b.tab /\ d.loops = b.loops
      /\ d.jobs = [b.jobs EXCEPT ![q] = j]
  BY DEF DropDocument, Browsers
<1>5. d.workers = [b.workers EXCEPT ![q] = w]
  BY <1>1 DEF DropDocument, Browsers, Workers
<1>6. d \in Browsers
  <2>1. w \in Workers
    BY <1>2 DEF Tells
  <2>2. [b.workers EXCEPT ![q] = w] \in [Ids -> Workers]
    BY <1>1, <2>1
  <2>3. [b.jobs EXCEPT ![q] = j] \in [Ids -> Jobs]
    BY <1>1, <1>3
  <2> HIDE DEF w, j
  <2> QED
    BY <1>4, <1>5, <2>2, <2>3, <1>1 DEF DropDocument, Browsers
<1>7. /\ \A r \in Ids : r # q => d.workers[r] = b.workers[r] /\ d.jobs[r] = b.jobs[r]
      /\ d.workers[q] = w /\ d.jobs[q] = j
  BY <1>1, <1>4, <1>5
<1> HIDE DEF d, w, j
<1>8. Winds(b, d)
  <2>1. Ends(b, q, d)
    BY <1>1, <1>2, <1>3, <1>4, <1>7 DEF Ends
  <2> QED
    BY <1>6, <2>1, WindsBy
<1> QED
  BY <1>4, <1>8 DEF d

\* So is handing the worker to the pool.
LEMMA ShutdownWinds ==
  ASSUME NEW b \in Browsers, NEW q \in Ids, b.queries[q].at = "job"
  PROVE  Winds(b, Shutdown(b, q)) /\ Shutdown(b, q).tab = b.tab
<1> DEFINE d == [b EXCEPT !.loops.pool = @ \cup {q},
                          !.jobs[q].pending = FALSE, !.jobs[q].listens = FALSE]
           j == [b.jobs[q] EXCEPT !.pending = FALSE, !.listens = FALSE]
<1>1. /\ b.workers[q] \in Workers /\ b.jobs[q] \in Jobs
      /\ b.workers \in [Ids -> Workers] /\ b.jobs \in [Ids -> Jobs] /\ b.queries \in [Ids -> Queries]
      /\ b.tab \in Tabs /\ b.loops \in Queues
  BY DEF Browsers
<1>2. j \in Jobs /\ j.count = b.jobs[q].count /\ j.pages = b.jobs[q].pages
  BY <1>1 DEF Jobs
<1>3. /\ d.queries = b.queries /\ d.tab = b.tab /\ d.workers = b.workers
      /\ d.loops = [b.loops EXCEPT !.pool = @ \cup {q}]
  BY DEF Browsers
<1>4. d.jobs = [b.jobs EXCEPT ![q] = j]
  BY <1>1 DEF Browsers, Jobs
<1>5. /\ d.loops \in Queues
      /\ d.loops.ui = b.loops.ui /\ d.loops.io = b.loops.io /\ d.loops.inbox = b.loops.inbox
      /\ d.loops.pool = b.loops.pool \cup {q} /\ d.loops.polls = b.loops.polls
  BY <1>1, <1>3 DEF Queues
<1>6. d \in Browsers
  <2>1. [b.jobs EXCEPT ![q] = j] \in [Ids -> Jobs]
    BY <1>1, <1>2
  <2> HIDE DEF j
  <2> QED
    BY <1>1, <1>3, <1>4, <1>5, <2>1 DEF Browsers
<1> HIDE DEF d, j
<1>7. /\ \A r \in Ids : r # q => d.workers[r] = b.workers[r] /\ d.jobs[r] = b.jobs[r]
      /\ d.jobs[q] = j
  BY <1>1, <1>3, <1>4
<1>8. Tells(b.workers[q], d.workers[q])
  BY <1>1, <1>3, TellsNothing
<1>9. Shutdown(b, q) = DropDocument(d, q)
  BY DEF Shutdown, d
<1>12. /\ d.loops.pool \subseteq b.loops.pool \cup {q} /\ d.loops.polls \subseteq b.loops.polls \cup {q}
       /\ d.jobs[q].count = b.jobs[q].count /\ d.jobs[q].pages = b.jobs[q].pages
  BY <1>2, <1>5, <1>7
<1>10. Winds(b, d)
  <2>1. Ends(b, q, d)
    BY <1>3, <1>5, <1>7, <1>8, <1>12 DEF Ends
  <2> QED
    BY <1>6, <2>1, WindsBy
<1>11. Winds(d, DropDocument(d, q)) /\ DropDocument(d, q).tab = d.tab
  BY <1>3, <1>6, DropWinds
<1> QED
  BY <1>3, <1>9, <1>10, <1>11, WindsTwice

\* So is PrintJob::Stop, with or without a thread, on Windows and elsewhere.
LEMMA StopWinds ==
  ASSUME NEW b \in Browsers, NEW q \in Ids, b.queries[q].at = "job"
  PROVE  Winds(b, Stop(b, q)) /\ Stop(b, q).tab = b.tab
<1>1. CASE b.workers[q].thread # "running"
  BY <1>1, DropWinds DEF Stop
<1>2. CASE b.workers[q].thread = "running" /\ ~windows
  BY <1>2, ShutdownWinds DEF Stop
<1>3. CASE b.workers[q].thread = "running" /\ windows
  <2> DEFINE w == StopSoon(b.workers[q])
             d == [b EXCEPT !.workers[q] = w, !.loops.polls = @ \cup {q}]
  <2>1. /\ b.workers[q] \in Workers /\ b.jobs[q] \in Jobs
        /\ b.workers \in [Ids -> Workers] /\ b.jobs \in [Ids -> Jobs] /\ b.queries \in [Ids -> Queries]
        /\ b.tab \in Tabs /\ b.loops \in Queues
    BY DEF Browsers
  <2>2. Tells(b.workers[q], w) /\ w \in Workers
    BY <2>1, StopSoonTells DEF Tells
  <2>3. Stop(b, q) = d
    BY <1>3 DEF Stop
  <2> HIDE DEF w
  <2>4. /\ d.queries = b.queries /\ d.tab = b.tab /\ d.jobs = b.jobs
        /\ d.loops = [b.loops EXCEPT !.polls = @ \cup {q}]
        /\ d.workers = [b.workers EXCEPT ![q] = w]
    BY DEF Browsers
  <2>5. /\ d.loops \in Queues
        /\ d.loops.ui = b.loops.ui /\ d.loops.io = b.loops.io /\ d.loops.inbox = b.loops.inbox
        /\ d.loops.pool = b.loops.pool /\ d.loops.polls = b.loops.polls \cup {q}
    BY <2>1, <2>4 DEF Queues
  <2>6. d \in Browsers
    <3>1. [b.workers EXCEPT ![q] = w] \in [Ids -> Workers]
      BY <2>1, <2>2
    <3> QED
      BY <2>1, <2>4, <2>5, <3>1 DEF Browsers
  <2>7. /\ \A r \in Ids : r # q => d.workers[r] = b.workers[r] /\ d.jobs[r] = b.jobs[r]
        /\ d.workers[q] = w
    BY <2>1, <2>4
  <2> HIDE DEF d
  <2>9. /\ d.loops.pool \subseteq b.loops.pool \cup {q} /\ d.loops.polls \subseteq b.loops.polls \cup {q}
        /\ Tells(b.workers[q], d.workers[q])
        /\ d.jobs[q].count = b.jobs[q].count /\ d.jobs[q].pages = b.jobs[q].pages
    BY <2>2, <2>4, <2>5, <2>7
  <2>8. Winds(b, d)
    <3>1. Ends(b, q, d)
      BY <2>4, <2>5, <2>7, <2>9 DEF Ends
    <3> QED
      BY <2>6, <3>1, WindsBy
  <2> QED
    BY <2>3, <2>4, <2>8
<1> QED
  BY <1>1, <1>2, <1>3

\* What the tab's hold on its job adds.
LEMMA ReleaseWinds ==
  ASSUME NEW b \in Browsers, helper.alive \in BOOLEAN
  PROVE  /\ Winds(b, ReleasePrintJob(b))
         /\ ReleasePrintJob(b).tab.job = 0
         /\ ReleasePrintJob(b).tab.current = b.tab.current
<1>1. /\ b.workers \in [Ids -> Workers] /\ b.jobs \in [Ids -> Jobs] /\ b.queries \in [Ids -> Queries]
      /\ b.tab \in Tabs /\ b.loops \in Queues
  BY DEF Browsers
<1>2. CASE b.tab.job = 0
  BY <1>2, WindsNothing DEF ReleasePrintJob
<1>3. CASE b.tab.job # 0
  <2> DEFINE m == Task("done", b.tab.job, IF b.tab.succeeded THEN 1 ELSE 0)
             box == IF helper.alive THEN Append(b.loops.inbox, m) ELSE b.loops.inbox
             d == [b EXCEPT !.tab.job = 0, !.loops.inbox = box]
  <2>1. ReleasePrintJob(b) = d
    BY <1>1, <1>3 DEF ReleasePrintJob, Queues
  <2>2. m \in Dones /\ m.id = b.tab.job /\ (m.n = 1 => b.tab.succeeded)
    BY <1>1, <1>3 DEF Task, Dones, Tabs, Ids
  <2>3. b.loops.inbox \in Seq(Dones)
    BY <1>1 DEF Queues
  <2> HIDE DEF m
  <2>4. /\ box \in Seq(Dones)
        /\ \A i \in DOMAIN box : (i \in DOMAIN b.loops.inbox /\ box[i] = b.loops.inbox[i]) \/ box[i] = m
    BY <2>2, <2>3
  <2> HIDE DEF box
  <2>5. /\ d.queries = b.queries /\ d.jobs = b.jobs /\ d.workers = b.workers
        /\ d.loops = [b.loops EXCEPT !.inbox = box] /\ d.tab = [b.tab EXCEPT !.job = 0]
    BY DEF Browsers
  <2> HIDE DEF d
  <2>6. /\ d.loops \in Queues
        /\ d.loops.ui = b.loops.ui /\ d.loops.io = b.loops.io /\ d.loops.inbox = box
        /\ d.loops.pool = b.loops.pool /\ d.loops.polls = b.loops.polls
    BY <1>1, <2>4, <2>5 DEF Queues
  <2>7. /\ d.tab \in Tabs
        /\ d.tab.cookie = b.tab.cookie /\ d.tab.number = b.tab.number
        /\ d.tab.succeeded = b.tab.succeeded /\ d.tab.job = 0 /\ d.tab.current = b.tab.current
        /\ d.tab.quit = b.tab.quit /\ d.tab.left = b.tab.left /\ d.tab.flushing = b.tab.flushing
    BY <1>1, <2>5 DEF Tabs
  <2>8. d \in Browsers
    BY <1>1, <2>5, <2>6, <2>7 DEF d, Browsers
  <2>9. \A i \in DOMAIN d.loops.inbox : d.loops.inbox[i].n = 1 =>
          \/ \E j \in DOMAIN b.loops.inbox : b.loops.inbox[j] = d.loops.inbox[i]
          \/ b.tab.succeeded /\ b.tab.job # 0 /\ d.loops.inbox[i].id = b.tab.job
    BY <1>3, <2>2, <2>4, <2>6
  <2>10. \A r \in Ids : Tells(b.workers[r], d.workers[r])
    BY <1>1, <2>5, TellsNothing
  <2>11. Winds(b, d)
    BY <2>5, <2>6, <2>7, <2>8, <2>9, <2>10 DEF Winds
  <2> QED
    BY <2>1, <2>7, <2>11
<1> QED
  BY <1>2, <1>3

\* So is that the manager forgets the job.
LEMMA UntrackWinds ==
  ASSUME NEW b \in Browsers, NEW q \in Ids
  PROVE  /\ Winds(b, Untrack(b, q))
         /\ Untrack(b, q).tab.job = b.tab.job /\ Untrack(b, q).tab.current = b.tab.current \ {q}
         /\ Untrack(b, q).jobs = b.jobs
<1>1. /\ b.workers \in [Ids -> Workers] /\ b.jobs \in [Ids -> Jobs] /\ b.queries \in [Ids -> Queries]
      /\ b.tab \in Tabs /\ b.loops \in Queues
  BY DEF Browsers
<1> DEFINE d == Untrack(b, q)
<1>2. /\ d.queries = b.queries /\ d.jobs = b.jobs /\ d.workers = b.workers
      /\ d.loops = b.loops /\ d.tab = [b.tab EXCEPT !.current = @ \ {q}]
  BY DEF Browsers, Untrack
<1>3. /\ d.tab \in Tabs
      /\ d.tab.cookie = b.tab.cookie /\ d.tab.number = b.tab.number
      /\ d.tab.succeeded = b.tab.succeeded /\ d.tab.job = b.tab.job
      /\ d.tab.current = b.tab.current \ {q}
      /\ d.tab.quit = b.tab.quit /\ d.tab.left = b.tab.left /\ d.tab.flushing = b.tab.flushing
  BY <1>1, <1>2 DEF Tabs
<1>4. d \in Browsers
  BY <1>1, <1>2, <1>3 DEF Browsers, Untrack
<1> HIDE DEF d
<1>5. \A r \in Ids : Tells(b.workers[r], d.workers[r])
  BY <1>1, <1>2, TellsNothing
<1>6. Winds(b, d)
  BY <1>2, <1>3, <1>4, <1>5 DEF Winds
<1> QED
  BY <1>2, <1>3, <1>6 DEF d

\* So is that the printer's context is made invalid.
LEMMA MarkWinds ==
  ASSUME NEW b \in Browsers, NEW q \in Ids, b.queries[q].at = "job"
  PROVE  LET d == [b EXCEPT !.workers[q].canceled = @ \/ b.workers[q].thread = "running"] IN
         Winds(b, d) /\ d.tab = b.tab /\ d.jobs = b.jobs
<1> DEFINE w == [b.workers[q] EXCEPT !.canceled = @ \/ b.workers[q].thread = "running"]
           d == [b EXCEPT !.workers[q].canceled = @ \/ b.workers[q].thread = "running"]
<1>1. /\ b.workers[q] \in Workers /\ b.jobs[q] \in Jobs
      /\ b.workers \in [Ids -> Workers] /\ b.jobs \in [Ids -> Jobs] /\ b.queries \in [Ids -> Queries]
      /\ b.tab \in Tabs /\ b.loops \in Queues
  BY DEF Browsers
<1>2. b.workers[q].canceled \in BOOLEAN
  BY <1>1 DEF Workers
<1>3. (b.workers[q].canceled \/ b.workers[q].thread = "running") \in BOOLEAN
  OBVIOUS
<1>4. w \in Workers
  BY <1>1, <1>3 DEF Workers
<1>5. Tells(b.workers[q], w)
  <2>1. /\ w.thread = b.workers[q].thread /\ w.doc = b.workers[q].doc /\ w.page = b.workers[q].page
        /\ w.looping = b.workers[q].looping /\ w.tasks = b.workers[q].tasks
        /\ w.retry = b.workers[q].retry /\ w.spooled = b.workers[q].spooled
    BY <1>1 DEF Workers
  <2> HIDE DEF w
  <2> QED
    BY <1>4, <2>1 DEF Tells
<1>6. /\ d.queries = b.queries /\ d.tab = b.tab /\ d.jobs = b.jobs /\ d.loops = b.loops
      /\ d.workers = [b.workers EXCEPT ![q] = w]
  BY <1>1 DEF Browsers, Workers
<1>7. d \in Browsers
  <2>1. [b.workers EXCEPT ![q] = w] \in [Ids -> Workers]
    BY <1>1, <1>4
  <2> HIDE DEF w
  <2> QED
    BY <1>1, <1>6, <2>1 DEF Browsers
<1>8. \A r \in Ids : r # q => d.workers[r] = b.workers[r] /\ d.jobs[r] = b.jobs[r]
  BY <1>1, <1>6
<1>9. d.workers[q] = w
  BY <1>1, <1>6
<1> HIDE DEF d, w
<1>10. /\ d.loops.pool \subseteq b.loops.pool \cup {q} /\ d.loops.polls \subseteq b.loops.polls \cup {q}
       /\ d.loops.ui = b.loops.ui /\ d.loops.io = b.loops.io /\ d.loops.inbox = b.loops.inbox
       /\ d.jobs[q].count = b.jobs[q].count /\ d.jobs[q].pages = b.jobs[q].pages
       /\ Tells(b.workers[q], d.workers[q])
  BY <1>5, <1>6, <1>9
<1>11. Winds(b, d)
  <2>1. Ends(b, q, d)
    BY <1>6, <1>8, <1>10 DEF Ends
  <2> QED
    BY <1>7, <2>1, WindsBy
<1> QED
  BY <1>6, <1>11 DEF d

\* PrintJob::Cancel, with the calls nested in it, ends the job and releases it if it is the tab's.
LEMMA CancelWinds ==
  ASSUME NEW b \in Browsers, NEW q \in Ids, b.queries[q].at = "job", helper.alive \in BOOLEAN
  PROVE  /\ Winds(b, Cancel(b, q))
         /\ Cancel(b, q).tab.job = IF b.tab.job = q THEN 0 ELSE b.tab.job
         /\ Cancel(b, q).tab.current = b.tab.current \ {q}
<1> DEFINE marked    == [b EXCEPT !.workers[q].canceled = @ \/ b.workers[q].thread = "running"]
           untracked == Untrack(marked, q)
           stopped   == IF b.jobs[q].listens THEN Stop(untracked, q) ELSE untracked
           released  == IF b.tab.job = q THEN ReleasePrintJob(stopped) ELSE stopped
           d == Stop(released, q)
<1>1. Winds(b, marked) /\ marked.tab = b.tab
  BY MarkWinds
<1>2. Cancel(b, q) = d
  BY DEF Cancel
<1> HIDE DEF marked
<1>3. marked \in Browsers /\ marked.queries[q].at = "job"
  BY <1>1 DEF Winds
<1>4. Winds(marked, untracked) /\ untracked.tab.job = b.tab.job
      /\ untracked.tab.current = b.tab.current \ {q}
  BY <1>1, <1>3, UntrackWinds
<1> HIDE DEF untracked
<1>5. untracked \in Browsers /\ untracked.queries[q].at = "job"
  BY <1>3, <1>4 DEF Winds
<1>6. Winds(untracked, stopped) /\ stopped.tab = untracked.tab
  BY <1>5, StopWinds, WindsNothing
<1> HIDE DEF stopped
<1>7. stopped \in Browsers /\ stopped.queries[q].at = "job"
  BY <1>5, <1>6 DEF Winds
<1>8. /\ Winds(stopped, released) /\ released.tab.current = stopped.tab.current
      /\ released.tab.job = IF b.tab.job = q THEN 0 ELSE stopped.tab.job
  BY <1>7, ReleaseWinds, WindsNothing
<1> HIDE DEF released
<1>9. released \in Browsers /\ released.queries[q].at = "job"
  BY <1>7, <1>8 DEF Winds
<1>10. Winds(released, d) /\ d.tab = released.tab
  BY <1>9, StopWinds
<1> HIDE DEF d
<1>11. Winds(b, untracked)
  BY <1>1, <1>4, WindsTwice
<1>12. Winds(b, stopped)
  BY <1>6, <1>11, WindsTwice
<1>13. Winds(b, released)
  BY <1>8, <1>12, WindsTwice
<1>14. Winds(b, d)
  BY <1>10, <1>13, WindsTwice
<1> QED
  BY <1>2, <1>4, <1>6, <1>8, <1>10, <1>14

\* TerminatePrintJob, of which a cancellation is part or not, leaves the tab without a job.
LEMMA TerminateWinds ==
  ASSUME NEW b \in Browsers, b.tab.job # 0 => b.queries[b.tab.job].at = "job", NEW cancel,
         helper.alive \in BOOLEAN
  PROVE  Winds(b, TerminatePrintJob(b, cancel)) /\ TerminatePrintJob(b, cancel).tab.job = 0
<1>1. CASE b.tab.job = 0
  BY <1>1, WindsNothing DEF TerminatePrintJob
<1>2. CASE b.tab.job # 0
  <2> DEFINE q == b.tab.job
             e == IF cancel THEN Cancel(b, b.tab.job) ELSE Stop(b, b.tab.job)
  <2>1. q \in Ids
    BY <1>2 DEF Browsers, Tabs
  <2>2. Winds(b, Cancel(b, q)) /\ Winds(b, Stop(b, q))
    BY <1>2, <2>1, CancelWinds, StopWinds
  <2>3. Winds(b, e)
    BY <2>2
  <2>4. TerminatePrintJob(b, cancel) = ReleasePrintJob(e)
    BY <1>2 DEF TerminatePrintJob
  <2> HIDE DEF e
  <2>5. e \in Browsers
    BY <2>3 DEF Winds
  <2> QED
    BY <2>3, <2>4, <2>5, ReleaseWinds, WindsTwice
<1> QED
  BY <1>1, <1>2

\* What a FAILED of the worker sets off ends the job.
LEMMA FailedWinds ==
  ASSUME NEW b \in Browsers, NEW q \in Ids, b.queries[q].at = "job",
         helper.alive \in BOOLEAN
  PROVE  /\ Winds(b, OnFailed(b, q))
         /\ OnFailed(b, q).tab.job = IF b.tab.job = q THEN 0 ELSE b.tab.job
         /\ b.tab.job # q => OnFailed(b, q).tab.current = b.tab.current \ {q}
<1> DEFINE untracked == Untrack(b, q)
           stopped   == IF b.jobs[q].listens THEN Stop(untracked, q) ELSE untracked
           d == IF b.tab.job = q THEN TerminatePrintJob(stopped, TRUE) ELSE stopped
<1>1. OnFailed(b, q) = d
  BY DEF OnFailed
<1>4. Winds(b, untracked) /\ untracked.tab.job = b.tab.job
      /\ untracked.tab.current = b.tab.current \ {q}
  BY UntrackWinds
<1> HIDE DEF untracked
<1>5. untracked \in Browsers /\ untracked.queries[q].at = "job"
  BY <1>4 DEF Winds
<1>6. Winds(untracked, stopped) /\ stopped.tab = untracked.tab
  BY <1>5, StopWinds, WindsNothing
<1> HIDE DEF stopped
<1>7. stopped \in Browsers /\ stopped.queries[q].at = "job" /\ stopped.tab.job = b.tab.job
  BY <1>4, <1>5, <1>6 DEF Winds
<1>8. Winds(b, stopped)
  BY <1>4, <1>6, WindsTwice
<1>9. CASE b.tab.job = q
  <2>1. Winds(stopped, d) /\ d.tab.job = 0
    BY <1>7, <1>9, TerminateWinds
  <2> HIDE DEF d
  <2>2. Winds(b, d)
    BY <1>8, <2>1, WindsTwice
  <2> QED
    BY <1>1, <1>9, <2>1, <2>2
<1>10. CASE b.tab.job # q
  <2>1. d = stopped
    BY <1>10
  <2> QED
    BY <1>1, <1>4, <1>6, <1>8, <1>10, <2>1
<1> QED
  BY <1>9, <1>10

\* The parts of the invariant, on the helper h, the browser b and the counters u.

\* The calls of Print that wait: only the last one may be asking for the default settings.
Stacked(h) ==
  /\ \A i \in DOMAIN h.stack : i # Len(h.stack) => h.stack[i].at = "ask"
  /\ h.stack # <<>> /\ h.stack[Len(h.stack)].at = "default" => h.prep = 0
  /\ h.prep # 0 => h.params = h.prep

\* The call f and the query it is about.
Asks(f, Q) ==
  /\ f.query # 0 => /\ Q[f.query].at # "unused"
                    /\ f.replied => Q[f.query].cookie = f.cookie
                    /\ ~f.replied => Q[f.query].at = "asking"
  /\ f.query = 0 => ~f.replied
  /\ f.at = "ask" /\ ~f.replied => f.cookie # 0
  /\ f.at = "default" /\ ~f.replied => f.cookie = 0

Apart(f, g) ==
  /\ f.query # 0 => f.query # g.query
  /\ f.cookie # 0 => f.cookie # g.cookie

AskedFor(h, b) ==
  /\ \A i \in DOMAIN h.stack : Asks(h.stack[i], b.queries)
  /\ \A i, j \in DOMAIN h.stack : i # j => Apart(h.stack[i], h.stack[j])
  /\ \A q \in Ids : b.queries[q].at \in {"queued", "job"} => b.queries[q].cookie # 0

\* Cookies are given out one after the other.
Given(h, b, u) ==
  /\ \A i \in DOMAIN h.stack : h.stack[i].cookie <= u.cookies
  /\ h.prep <= u.cookies /\ h.params <= u.cookies
  /\ \A q \in Ids : b.queries[q].cookie <= u.cookies
  /\ b.tab.cookie <= u.cookies
  /\ \A i \in DOMAIN b.loops.ui :
       b.loops.ui[i].task \in {"cookie", "count", "page", "failed"} => b.loops.ui[i].id <= u.cookies

\* A document is printed once: what the renderer has still to print has not been printed.
Prints(t, c) == t.task \in {"count", "page"} /\ t.id = c
Printed(b, c) == \/ \E i \in DOMAIN b.loops.ui : Prints(b.loops.ui[i], c)
                 \/ \E q \in Ids : b.queries[q].at = "job" /\ b.queries[q].cookie = c
Unspent(h, b) ==
  /\ \A i \in DOMAIN h.stack : h.stack[i].cookie # 0 =>
        ~Printed(b, h.stack[i].cookie) /\ h.stack[i].cookie # h.prep
  /\ h.prep # 0 => ~Printed(b, h.prep)

\* Only a query that has become a job has a worker with something to do, and is kept.
HeldJobs(b) ==
  /\ \A q \in b.tab.current \cup b.tab.left \cup b.loops.pool \cup b.loops.polls :
       b.queries[q].at = "job"
  /\ b.tab.flushing # 0 => b.queries[b.tab.flushing].at = "job"
  /\ b.tab.job # 0 => b.queries[b.tab.job].at = "job"
  /\ \A q \in b.loops.io : b.queries[q].at = "released"
TaskJobs(b) ==
  \A i \in DOMAIN b.loops.ui : b.loops.ui[i].task \in JobTasks =>
    b.loops.ui[i].id \in Ids /\ b.queries[b.loops.ui[i].id].at = "job"
InboxJobs(b) ==
  \A i \in DOMAIN b.loops.inbox : b.loops.inbox[i].n = 1 =>
    b.loops.inbox[i].id \in Ids /\ b.queries[b.loops.inbox[i].id].at = "job"
IdleQueries(b) ==
  \A q \in Ids : b.queries[q].at # "job" =>
       /\ b.jobs[q] = NewJob
       /\ b.workers[q].tasks = <<>> /\ ~b.workers[q].doc /\ b.workers[q].page = 0
       /\ ~b.workers[q].looping /\ ~b.workers[q].retry /\ b.workers[q].spooled = <<>>
OnlyJobs(b) == HeldJobs(b) /\ TaskJobs(b) /\ InboxJobs(b) /\ IdleQueries(b)

\* What a worker has put out, and where it is in its job.
WorkerOK(w, j) ==
  /\ w.looping => w.page # 0 /\ ~w.retry
  /\ w.retry => w.page # 0
  /\ w.page # 0 => w.doc /\ Len(w.spooled) = w.page - 1 /\ w.page <= j.count
  /\ w.page = 0 /\ w.doc => w.spooled = <<>>
  /\ Begins(w.tasks)
  /\ Starts(w.tasks) => w.page = 0 /\ w.spooled = <<>>
  /\ w.doc \/ Starts(w.tasks) => j.count # 0
  /\ Len(w.spooled) <= j.count
  /\ \A i \in DOMAIN w.spooled : w.spooled[i] = i /\ i \in j.pages
  /\ j.pages \subseteq 1 .. j.count
WorkersOK(b) == \A q \in Ids : WorkerOK(b.workers[q], b.jobs[q])

\* The pages on their way to the browser belong to a count before them, or to the
\* count that the browser has.
CountBefore(s, i) == \E k \in DOMAIN s : k < i /\ s[k].task = "count"
LastCount(s, i, j) == /\ j \in DOMAIN s /\ j < i /\ s[j].task = "count"
                      /\ \A k \in DOMAIN s : j < k /\ k < i => s[k].task # "count"
PageOK(b, i) ==
  LET s == b.loops.ui IN
  /\ s[i].n # 0
  /\ \A j \in DOMAIN s : LastCount(s, i, j) => s[j].id = s[i].id /\ s[i].n <= s[j].n
  /\ ~CountBefore(s, i) =>
       /\ s[i].n <= b.tab.number
       /\ \A q \in Ids : b.queries[q].at = "job" /\ b.queries[q].cookie = s[i].id
                           => s[i].n <= b.jobs[q].count
CountOK(b, j) ==
  LET s == b.loops.ui IN
  /\ s[j].n # 0 /\ s[j].n \in PageCounts
  /\ \A k \in DOMAIN s : k < j => ~Prints(s[k], s[j].id)
  /\ \A q \in Ids : b.queries[q].at = "job" => b.queries[q].cookie # s[j].id
Outputs(b) ==
  /\ \A i \in DOMAIN b.loops.ui : b.loops.ui[i].task = "page" => PageOK(b, i)
  /\ \A i \in DOMAIN b.loops.ui : b.loops.ui[i].task = "count" => CountOK(b, i)

\* Only a worker that has put out every page says so.
Full(b, q) == Len(b.workers[q].spooled) = b.jobs[q].count
Successes(b) ==
  /\ b.tab.job # 0 => ~b.tab.succeeded
  /\ \A i \in DOMAIN b.loops.ui :
       b.loops.ui[i].task \in {"docDone", "documentDone"} => Full(b, b.loops.ui[i].id)
  /\ \A i \in DOMAIN b.loops.inbox : b.loops.inbox[i].n = 1 => Full(b, b.loops.inbox[i].id)

Tracked(b) == b.tab.job # 0 /\ b.tab.quit = "no" => b.tab.job \in b.tab.current

Kept(b) == OnlyJobs(b) /\ WorkersOK(b) /\ Outputs(b) /\ Successes(b)

\* Nothing that OnlyJobs is about is added.
LEMMA OnlyJobsBy ==
  ASSUME NEW b, NEW d, OnlyJobs(b), d.queries = b.queries, d.tab.job = b.tab.job,
         d.tab.current \cup d.tab.left \subseteq b.tab.current \cup b.tab.left,
         d.tab.flushing \in {0, b.tab.flushing} \cup b.tab.left,
         d.loops.pool = b.loops.pool, d.loops.polls = b.loops.polls, d.loops.io = b.loops.io,
         d.loops.inbox = b.loops.inbox,
         \A i \in DOMAIN d.loops.ui : \E k \in DOMAIN b.loops.ui : d.loops.ui[i] = b.loops.ui[k],
         \A q \in Ids : b.queries[q].at # "job" => d.jobs[q] = b.jobs[q] /\ d.workers[q] = b.workers[q]
  PROVE  OnlyJobs(d)
<1>1. HeldJobs(b) /\ TaskJobs(b) /\ InboxJobs(b) /\ IdleQueries(b)
  BY DEF OnlyJobs
<1>2. HeldJobs(d)
  <2>1. \A q \in d.tab.current \cup d.tab.left \cup d.loops.pool \cup d.loops.polls :
          d.queries[q].at = "job"
    BY <1>1 DEF HeldJobs
  <2>2. d.tab.flushing # 0 => d.queries[d.tab.flushing].at = "job"
    BY <1>1 DEF HeldJobs
  <2>3. /\ d.tab.job # 0 => d.queries[d.tab.job].at = "job"
        /\ \A q \in d.loops.io : d.queries[q].at = "released"
    BY <1>1 DEF HeldJobs
  <2> QED
    BY <2>1, <2>2, <2>3 DEF HeldJobs
<1>3. TaskJobs(d)
  BY <1>1 DEF TaskJobs
<1>4. InboxJobs(d)
  BY <1>1 DEF InboxJobs
<1>5. IdleQueries(d)
  BY <1>1 DEF IdleQueries
<1> QED
  BY <1>2, <1>3, <1>4, <1>5 DEF OnlyJobs

\* A worker that is told something stands to its job as before.
LEMMA TellsWorker ==
  ASSUME NEW w, NEW v, Tells(w, v), NEW j, NEW k, k.count = j.count, k.pages = j.pages, WorkerOK(w, j)
  PROVE  WorkerOK(v, k)
BY DEF Tells, WorkerOK

\* Ending a job keeps that only jobs have something to do.
LEMMA WindsJobs ==
  ASSUME NEW b \in Browsers, NEW d, Winds(b, d), OnlyJobs(b)
  PROVE  OnlyJobs(d)
<1>1. \A q \in d.tab.current \cup d.tab.left \cup d.loops.pool \cup d.loops.polls :
        d.queries[q].at = "job"
  BY DEF Winds, OnlyJobs, HeldJobs
<1>2. /\ d.tab.flushing # 0 => d.queries[d.tab.flushing].at = "job"
      /\ d.tab.job # 0 => d.queries[d.tab.job].at = "job"
      /\ \A q \in d.loops.io : d.queries[q].at = "released"
  BY DEF Winds, OnlyJobs, HeldJobs
<1>3. \A i \in DOMAIN d.loops.ui : d.loops.ui[i].task \in JobTasks =>
        d.loops.ui[i].id \in Ids /\ d.queries[d.loops.ui[i].id].at = "job"
  BY DEF Winds, OnlyJobs, TaskJobs
<1>4. \A i \in DOMAIN d.loops.inbox : d.loops.inbox[i].n = 1 =>
        d.loops.inbox[i].id \in Ids /\ d.queries[d.loops.inbox[i].id].at = "job"
  <2> TAKE i \in DOMAIN d.loops.inbox
  <2>1. b.tab.job # 0 => b.tab.job \in Ids
    BY DEF Browsers, Tabs
  <2>2. ASSUME d.loops.inbox[i].n = 1
        PROVE  d.loops.inbox[i].id \in Ids /\ b.queries[d.loops.inbox[i].id].at = "job"
    BY <2>1, <2>2 DEF Winds, OnlyJobs, InboxJobs, HeldJobs
  <2> QED
    BY <2>2 DEF Winds
<1>5. ASSUME NEW q \in Ids, d.queries[q].at # "job"
      PROVE /\ d.jobs[q] = NewJob
            /\ d.workers[q].tasks = <<>> /\ ~d.workers[q].doc /\ d.workers[q].page = 0
            /\ ~d.workers[q].looping /\ ~d.workers[q].retry /\ d.workers[q].spooled = <<>>
  <2>1. b.queries[q].at # "job" /\ d.workers[q] = b.workers[q] /\ d.jobs[q] = b.jobs[q]
    BY <1>5 DEF Winds
  <2> QED
    BY <2>1 DEF OnlyJobs, IdleQueries
<1> QED
  BY <1>1, <1>2, <1>3, <1>4, <1>5 DEF OnlyJobs, HeldJobs, TaskJobs, InboxJobs, IdleQueries

\* Ending a job keeps how workers stand to their jobs.
LEMMA WindsWorkers ==
  ASSUME NEW b, NEW d, Winds(b, d), WorkersOK(b)
  PROVE  WorkersOK(d)
<1> SUFFICES ASSUME NEW q \in Ids PROVE WorkerOK(d.workers[q], d.jobs[q])
  BY DEF WorkersOK
<1>1. Tells(b.workers[q], d.workers[q]) /\ d.jobs[q].count = b.jobs[q].count /\ d.jobs[q].pages = b.jobs[q].pages
  BY DEF Winds
<1>2. WorkerOK(b.workers[q], b.jobs[q])
  BY DEF WorkersOK
<1> QED
  BY <1>1, <1>2, TellsWorker

\* Ending a job keeps what is known of the pages under way.
LEMMA WindsOutputs ==
  ASSUME NEW b, NEW d, Winds(b, d), Outputs(b)
  PROVE  Outputs(d)
<1>1. d.loops.ui = b.loops.ui /\ d.queries = b.queries /\ d.tab.number = b.tab.number
      /\ \A q \in Ids : d.jobs[q].count = b.jobs[q].count
  BY DEF Winds
<1>2. ASSUME NEW i \in DOMAIN d.loops.ui, d.loops.ui[i].task = "page" PROVE PageOK(d, i)
  <2>1. PageOK(b, i)
    BY <1>1, <1>2 DEF Outputs
  <2> QED
    BY <1>1, <2>1 DEF PageOK
<1>3. ASSUME NEW i \in DOMAIN d.loops.ui, d.loops.ui[i].task = "count" PROVE CountOK(d, i)
  <2>1. CountOK(b, i)
    BY <1>1, <1>3 DEF Outputs
  <2> QED
    BY <1>1, <2>1 DEF CountOK
<1> QED
  BY <1>2, <1>3 DEF Outputs

\* Ending a job keeps that every success was earned.
LEMMA WindsSuccesses ==
  ASSUME NEW b, NEW d, Winds(b, d), Successes(b), OnlyJobs(b)
  PROVE  Successes(d)
<1>1. \A q \in Ids : Full(b, q) <=> Full(d, q)
  BY DEF Winds, Tells, Full
<1>2. d.tab.job # 0 => ~d.tab.succeeded
  BY DEF Winds, Successes
<1>3. ASSUME NEW i \in DOMAIN d.loops.ui, d.loops.ui[i].task \in {"docDone", "documentDone"}
      PROVE  Full(d, d.loops.ui[i].id)
  <2>1. d.loops.ui = b.loops.ui
    BY DEF Winds
  <2>2. b.loops.ui[i].id \in Ids /\ Full(b, b.loops.ui[i].id)
    BY <1>3, <2>1 DEF Successes, OnlyJobs, HeldJobs, TaskJobs, InboxJobs, IdleQueries, JobTasks
  <2> QED
    BY <1>1, <2>1, <2>2
<1>4. ASSUME NEW i \in DOMAIN d.loops.inbox, d.loops.inbox[i].n = 1
      PROVE  Full(d, d.loops.inbox[i].id)
  <2>1. \E j \in DOMAIN b.loops.inbox : b.loops.inbox[j] = d.loops.inbox[i]
    BY <1>4 DEF Winds, Successes
  <2>2. d.loops.inbox[i].id \in Ids /\ Full(b, d.loops.inbox[i].id)
    BY <1>4, <2>1 DEF Successes, OnlyJobs, HeldJobs, TaskJobs, InboxJobs, IdleQueries
  <2> QED
    BY <1>1, <2>2
<1> QED
  BY <1>2, <1>3, <1>4 DEF Successes

\* Ending a job prints nothing.
LEMMA WindsPrinted ==
  ASSUME NEW b, NEW d, Winds(b, d), NEW c
  PROVE  Printed(d, c) <=> Printed(b, c)
BY DEF Winds, Printed

\* Ending a job keeps what the browser keeps.
LEMMA WindsKept ==
  ASSUME NEW b \in Browsers, NEW d, Winds(b, d), Kept(b)
  PROVE  Kept(d)
BY WindsJobs, WindsWorkers, WindsOutputs, WindsSuccesses DEF Kept

\* A queue without its first task.
LEMMA TailIs ==
  ASSUME NEW S, NEW s \in Seq(S), s # <<>>
  PROVE  /\ Tail(s) \in Seq(S) /\ Head(s) = s[1] /\ 1 \in DOMAIN s /\ s[1] \in S
         /\ \A i \in DOMAIN Tail(s) : i \in Nat \ {0} /\ i + 1 \in DOMAIN s /\ Tail(s)[i] = s[i + 1]
         /\ \A i \in DOMAIN s : i \in Nat \ {0} /\ (i # 1 => i - 1 \in DOMAIN Tail(s) /\ s[i] = Tail(s)[i - 1])
<1>1. Len(s) \in Nat /\ Len(s) # 0 /\ DOMAIN s = 1 .. Len(s)
  OBVIOUS
<1>2. Tail(s) \in Seq(S) /\ Head(s) = s[1] /\ 1 \in DOMAIN s /\ s[1] \in S
  BY <1>1
<1>3. Len(Tail(s)) = Len(s) - 1 /\ DOMAIN Tail(s) = 1 .. Len(s) - 1
      /\ \A i \in 1 .. Len(s) - 1 : Tail(s)[i] = s[i + 1]
  BY <1>1
<1> QED
  BY <1>1, <1>2, <1>3

\* A queue with tasks behind it.
LEMMA ConcatIs ==
  ASSUME NEW s \in Seq(UITasks), NEW m \in Seq(UITasks), NEW t, t = s \o m
  PROVE  /\ t \in Seq(UITasks) /\ Len(s) \in Nat
         /\ \A i \in DOMAIN s : i \in Nat \ {0} /\ i <= Len(s) /\ i \in DOMAIN t /\ t[i] = s[i]
         /\ \A k \in DOMAIN m : k \in Nat \ {0} /\ Len(s) + k \in DOMAIN t /\ t[Len(s) + k] = m[k]
         /\ \A i \in DOMAIN t : i \in DOMAIN s \/ (i - Len(s) \in DOMAIN m /\ i = Len(s) + (i - Len(s)))
<1>1. Len(s) \in Nat /\ DOMAIN s = 1 .. Len(s) /\ Len(m) \in Nat /\ DOMAIN m = 1 .. Len(m)
  OBVIOUS
<1>2. s \o m \in Seq(UITasks) /\ Len(s \o m) = Len(s) + Len(m) /\ DOMAIN (s \o m) = 1 .. Len(s) + Len(m)
  OBVIOUS
<1>3. \A i \in 1 .. Len(s) + Len(m) : (s \o m)[i] = IF i <= Len(s) THEN s[i] ELSE m[i - Len(s)]
  OBVIOUS
<1> DEFINE a == Len(s)
           z == Len(m)
<1> HIDE DEF a, z
<1>4. /\ a \in Nat /\ DOMAIN s = 1 .. a /\ z \in Nat /\ DOMAIN m = 1 .. z /\ DOMAIN t = 1 .. a + z
      /\ \A i \in 1 .. a + z : t[i] = IF i <= a THEN s[i] ELSE m[i - a]
  BY <1>1, <1>2, <1>3 DEF a, z
<1>5. \A k \in DOMAIN m : k \in Nat \ {0} /\ a + k \in DOMAIN t /\ t[a + k] = m[k]
  <2> TAKE k \in DOMAIN m
  <2>1. k \in Nat \ {0} /\ a + k \in 1 .. a + z /\ ~(a + k <= a) /\ (a + k) - a = k
    BY <1>4
  <2> QED
    BY <1>4, <2>1
<1>6. \A i \in DOMAIN s : i \in Nat \ {0} /\ i <= a /\ i \in DOMAIN t /\ t[i] = s[i]
  BY <1>4
<1>7. \A i \in DOMAIN t : i \in DOMAIN s \/ (i - a \in DOMAIN m /\ i = a + (i - a))
  BY <1>4
<1> QED
  BY <1>2, <1>4, <1>5, <1>6, <1>7 DEF a

\* The first task leaves the queue: d keeps the jobs, or makes one for that task.
LEMMA OutputsTail ==
  ASSUME NEW b, NEW d, b.loops.ui \in Seq(UITasks), b.loops.ui # <<>>, d.loops.ui = Tail(b.loops.ui),
         Outputs(b),
         d.tab.number = IF b.loops.ui[1].task = "count" THEN b.loops.ui[1].n ELSE b.tab.number,
         \A q \in Ids : d.queries[q].at = "job" =>
           /\ b.queries[q].at = "job" /\ b.queries[q].cookie = d.queries[q].cookie
           /\ b.jobs[q].count = d.jobs[q].count
  PROVE  Outputs(d)
<1> DEFINE s == b.loops.ui
           t == d.loops.ui
<1>9. s \in Seq(UITasks) /\ s # <<>>
  OBVIOUS
<1>0. /\ Tail(s) \in Seq(UITasks) /\ 1 \in DOMAIN s /\ s[1] \in UITasks
      /\ \A i \in DOMAIN Tail(s) : i \in Nat \ {0} /\ i + 1 \in DOMAIN s /\ Tail(s)[i] = s[i + 1]
      /\ \A i \in DOMAIN s : i \in Nat \ {0} /\ (i # 1 => i - 1 \in DOMAIN Tail(s) /\ s[i] = Tail(s)[i - 1])
  <2> HIDE DEF s
  <2> QED
    BY <1>9, TailIs
<1>1. /\ t \in Seq(UITasks) /\ 1 \in DOMAIN s /\ s[1] \in UITasks
      /\ \A i \in DOMAIN t : i \in Nat \ {0} /\ i + 1 \in DOMAIN s /\ t[i] = s[i + 1]
      /\ \A i \in DOMAIN s : i \in Nat \ {0} /\ (i # 1 => i - 1 \in DOMAIN t /\ s[i] = t[i - 1])
  BY <1>0
<1>2. ASSUME NEW i \in DOMAIN t, NEW j \in DOMAIN t, LastCount(t, i, j)
      PROVE  LastCount(s, i + 1, j + 1)
  <2>1. j + 1 \in DOMAIN s /\ j + 1 < i + 1 /\ s[j + 1].task = "count"
    BY <1>1, <1>2 DEF LastCount
  <2>2. ASSUME NEW k \in DOMAIN s, j + 1 < k, k < i + 1 PROVE s[k].task # "count"
    <3>2. i \in Nat /\ j \in Nat \ {0} /\ k \in Nat
      BY <1>1
    <3>3. k # 1 /\ j < k - 1 /\ k - 1 < i
      BY <2>2, <3>2
    <3>1. k - 1 \in DOMAIN t /\ s[k] = t[k - 1] /\ j < k - 1 /\ k - 1 < i
      BY <1>1, <3>3
    <3> QED
      BY <3>1, <1>2 DEF LastCount
  <2> HIDE DEF s, t
  <2> QED
    BY <2>1, <2>2 DEF LastCount
<1>3. ASSUME NEW i \in DOMAIN t, t[i].task = "page" PROVE PageOK(d, i)
  <2>1. i + 1 \in DOMAIN s /\ s[i + 1] = t[i] /\ i \in Nat \ {0}
    BY <1>1
  <2>2. PageOK(b, i + 1)
    BY <1>3, <2>1 DEF Outputs
  <2>3. t[i].n # 0
    BY <2>1, <2>2 DEF PageOK
  <2>4. ASSUME NEW j \in DOMAIN t, LastCount(t, i, j) PROVE t[j].id = t[i].id /\ t[i].n <= t[j].n
    <3>1. LastCount(s, i + 1, j + 1) /\ s[j + 1] = t[j] /\ j + 1 \in DOMAIN s
      BY <1>1, <1>2, <2>4
    <3> QED
      BY <2>1, <2>2, <3>1 DEF PageOK
  <2>5. ASSUME ~CountBefore(t, i)
        PROVE  /\ t[i].n <= d.tab.number
               /\ \A q \in Ids : d.queries[q].at = "job" /\ d.queries[q].cookie = t[i].id
                                  => t[i].n <= d.jobs[q].count
    <3>1. ASSUME NEW k \in DOMAIN s, k < i + 1, s[k].task = "count" PROVE k = 1
      <4>1. k \in Nat /\ i \in Nat /\ (k # 1 => k - 1 \in DOMAIN t /\ s[k] = t[k - 1])
        BY <1>1, <2>1
      <4>2. k - 1 < i
        BY <3>1, <4>1
      <4> QED
        BY <2>5, <3>1, <4>1, <4>2 DEF CountBefore
    <3>2. CASE s[1].task = "count"
      <4>1. LastCount(s, i + 1, 1)
        <5>1. 1 \in DOMAIN s /\ 1 < i + 1
          BY <1>1, <2>1
        <5>2. \A k \in DOMAIN s : 1 < k /\ k < i + 1 => s[k].task # "count"
          BY <3>1
        <5> QED
          BY <3>2, <5>1, <5>2 DEF LastCount
      <4>2. s[1].id = t[i].id /\ t[i].n <= s[1].n
        BY <1>1, <2>1, <2>2, <4>1 DEF PageOK
      <4>3. CountOK(b, 1)
        BY <1>1, <3>2 DEF Outputs
      <4>4. \A q \in Ids : d.queries[q].at = "job" => d.queries[q].cookie # t[i].id
        BY <4>2, <4>3 DEF CountOK
      <4> QED
        BY <3>2, <4>2, <4>4
    <3>3. CASE s[1].task # "count"
      <4>1. ~CountBefore(s, i + 1)
        BY <3>1, <3>3 DEF CountBefore
      <4>2. /\ s[i + 1].n <= b.tab.number
            /\ \A q \in Ids : b.queries[q].at = "job" /\ b.queries[q].cookie = s[i + 1].id
                               => s[i + 1].n <= b.jobs[q].count
        BY <2>2, <4>1 DEF PageOK
      <4> QED
        BY <2>1, <3>3, <4>2
    <3> QED
      BY <3>2, <3>3
  <2> QED
    BY <2>3, <2>4, <2>5 DEF PageOK
<1>4. ASSUME NEW i \in DOMAIN t, t[i].task = "count" PROVE CountOK(d, i)
  <2>1. i + 1 \in DOMAIN s /\ s[i + 1] = t[i] /\ i \in Nat \ {0}
    BY <1>1
  <2>2. CountOK(b, i + 1)
    BY <1>4, <2>1 DEF Outputs
  <2>3. t[i].n # 0 /\ t[i].n \in PageCounts
    BY <2>1, <2>2 DEF CountOK
  <2>4. ASSUME NEW k \in DOMAIN t, k < i PROVE ~Prints(t[k], t[i].id)
    <3>1. k + 1 \in DOMAIN s /\ s[k + 1] = t[k] /\ k + 1 < i + 1
      BY <1>1, <2>1, <2>4
    <3> QED
      BY <2>1, <2>2, <3>1 DEF CountOK
  <2>5. \A q \in Ids : d.queries[q].at = "job" => d.queries[q].cookie # t[i].id
    BY <2>1, <2>2 DEF CountOK
  <2> QED
    BY <2>3, <2>4, <2>5 DEF CountOK
<1> QED
  BY <1>3, <1>4 DEF Outputs

\* A message with pages has their count before them.
Prepares(m, c) ==
  /\ \A k \in DOMAIN m : m[k].task = "count" =>
       /\ m[k].id = c /\ m[k].n # 0 /\ m[k].n \in PageCounts
       /\ \A l \in DOMAIN m : l < k => m[l].task \notin {"count", "page"}
  /\ \A k \in DOMAIN m : m[k].task = "page" =>
       /\ m[k].id = c /\ m[k].n # 0
       /\ \E l \in DOMAIN m : l < k /\ m[l].task = "count" /\ m[k].n <= m[l].n

\* The order of a count and its pages in the queue survives what is sent behind it.
LEMMA OutputsSent ==
  ASSUME NEW b, NEW d, NEW m \in Seq(UITasks), b.loops.ui \in Seq(UITasks),
         d.loops.ui = b.loops.ui \o m, Outputs(b), d.tab.number = b.tab.number,
         d.queries = b.queries, \A q \in Ids : d.jobs[q].count = b.jobs[q].count,
         NEW c, Prepares(m, c), (\E k \in DOMAIN m : m[k].task = "count") => ~Printed(b, c)
  PROVE  Outputs(d)
<1> DEFINE s == b.loops.ui
           t == d.loops.ui
           a == Len(s)
<1>5. s \in Seq(UITasks) /\ t = s \o m
  OBVIOUS
<1>6. /\ Len(s) \in Nat
      /\ \A i \in DOMAIN s : i \in Nat \ {0} /\ i <= Len(s) /\ i \in DOMAIN t /\ t[i] = s[i]
      /\ \A k \in DOMAIN m : k \in Nat \ {0} /\ Len(s) + k \in DOMAIN t /\ t[Len(s) + k] = m[k]
      /\ \A i \in DOMAIN t : i \in DOMAIN s \/ (i - Len(s) \in DOMAIN m /\ i = Len(s) + (i - Len(s)))
  <2> HIDE DEF s, t
  <2> QED
    BY <1>5, ConcatIs
<1>1. /\ a \in Nat
      /\ \A i \in DOMAIN s : i \in Nat \ {0} /\ i <= a /\ i \in DOMAIN t /\ t[i] = s[i]
      /\ \A k \in DOMAIN m : k \in Nat \ {0} /\ a + k \in DOMAIN t /\ t[a + k] = m[k]
      /\ \A i \in DOMAIN t : i \in DOMAIN s \/ (i - a \in DOMAIN m /\ i = a + (i - a))
  BY <1>6
<1> HIDE DEF a
<1>2. ASSUME NEW i \in DOMAIN s, NEW j \in DOMAIN t, LastCount(t, i, j)
      PROVE  LastCount(s, i, j)
  <2>1. j \in DOMAIN s
    <3>1. j < i /\ i <= a /\ i \in Nat
      BY <1>1, <1>2 DEF LastCount
    <3>2. ASSUME j - a \in DOMAIN m, j = a + (j - a) PROVE FALSE
      <4>1. j - a \in Nat \ {0}
        BY <1>1, <3>2
      <4> QED
        BY <1>1, <3>1, <3>2, <4>1
    <3> QED
      BY <1>1, <3>2
  <2> QED
    BY <1>1, <1>2, <2>1 DEF LastCount
<1>3. ASSUME NEW i \in DOMAIN t, t[i].task = "page" PROVE PageOK(d, i)
  <2>1. CASE i \in DOMAIN s
    <3>1. PageOK(b, i) /\ t[i] = s[i]
      BY <1>1, <1>3, <2>1 DEF Outputs
    <3>2. \A j \in DOMAIN t : LastCount(t, i, j) => t[j].id = t[i].id /\ t[i].n <= t[j].n
      <4> SUFFICES ASSUME NEW j \in DOMAIN t, LastCount(t, i, j)
                   PROVE  t[j].id = t[i].id /\ t[i].n <= t[j].n
        OBVIOUS
      <4>1. LastCount(s, i, j)
        BY <1>2, <2>1
      <4>2. j \in DOMAIN s /\ t[j] = s[j]
        BY <1>1, <4>1 DEF LastCount
      <4> QED
        BY <3>1, <4>1, <4>2 DEF PageOK
    <3>3. ~CountBefore(t, i) => ~CountBefore(s, i)
      BY <1>1 DEF CountBefore
    <3> QED
      BY <3>1, <3>2, <3>3 DEF PageOK
  <2>2. CASE i \notin DOMAIN s
    <3> DEFINE k == i - a
    <3>1. k \in DOMAIN m /\ i = a + k /\ t[i] = m[k] /\ k \in Nat
      BY <1>1, <2>2
    <3> HIDE DEF k
    <3>2. m[k].id = c /\ m[k].n # 0
      BY <1>3, <3>1 DEF Prepares
    <3>3. PICK l \in DOMAIN m : l < k /\ m[l].task = "count" /\ m[k].n <= m[l].n
      BY <1>3, <3>1 DEF Prepares
    <3>4. m[l].id = c
      BY <3>3 DEF Prepares
    <3>5. a + l \in DOMAIN t /\ t[a + l] = m[l] /\ a + l < i /\ l \in Nat
      <4>1. l \in Nat /\ a + l \in DOMAIN t /\ t[a + l] = m[l]
        BY <1>1
      <4>2. a + l < i
        BY ONLY <1>1, <3>1, <3>3, <4>1
      <4> QED
        BY <4>1, <4>2
    <3>6. CountBefore(t, i)
      BY <3>3, <3>5 DEF CountBefore
    <3>7. ASSUME NEW j \in DOMAIN t, LastCount(t, i, j)
          PROVE  t[j].id = t[i].id /\ t[i].n <= t[j].n
      <4>1. j < i /\ t[j].task = "count" /\ ~(j < a + l)
        BY <3>3, <3>5, <3>7 DEF LastCount
      <4>2. j - a \in DOMAIN m /\ j = a + (j - a) /\ t[j] = m[j - a] /\ j - a \in Nat
        <5>1. j \notin DOMAIN s
          <6>1. j \in DOMAIN s => j <= a /\ j \in Nat
            BY <1>1
          <6>2. l \in Nat \ {0}
            BY <1>1, <3>3
          <6> QED
            BY <1>1, <4>1, <6>1, <6>2
        <5>2. j - a \in DOMAIN m /\ j = a + (j - a)
          BY <1>1, <5>1
        <5> QED
          BY <1>1, <5>2
      <4>3. ~(j - a < l) /\ m[j - a].task = "count"
        BY <1>1, <4>1, <4>2, <3>5
      <4>4. ~(l < j - a)
        BY <3>3, <4>2, <4>3 DEF Prepares
      <4>5. j - a = l
        BY <3>5, <4>2, <4>3, <4>4
      <4> QED
        BY <3>1, <3>2, <3>3, <3>4, <4>2, <4>5
    <3> QED
      BY <3>1, <3>2, <3>6, <3>7 DEF PageOK
  <2> QED
    BY <2>1, <2>2
<1>4. ASSUME NEW i \in DOMAIN t, t[i].task = "count" PROVE CountOK(d, i)
  <2>1. CASE i \in DOMAIN s
    <3>1. CountOK(b, i) /\ t[i] = s[i]
      BY <1>1, <1>4, <2>1 DEF Outputs
    <3>2. ASSUME NEW k \in DOMAIN t, k < i PROVE ~Prints(t[k], t[i].id)
      <4>1. k \in DOMAIN s
        <5>1. i \in Nat /\ i <= a
          BY <1>1, <2>1
        <5>2. ASSUME k - a \in DOMAIN m, k = a + (k - a) PROVE FALSE
          <6>1. k - a \in Nat \ {0}
            BY <1>1, <5>2
          <6> QED
            BY <1>1, <3>2, <5>1, <5>2, <6>1
        <5> QED
          BY <1>1, <5>2
      <4>2. t[k] = s[k]
        BY <1>1, <4>1
      <4> QED
        BY <3>1, <3>2, <4>1, <4>2 DEF CountOK
    <3> QED
      BY <3>1, <3>2 DEF CountOK
  <2>2. CASE i \notin DOMAIN s
    <3> DEFINE k == i - a
    <3>1. k \in DOMAIN m /\ i = a + k /\ t[i] = m[k] /\ k \in Nat
      BY <1>1, <2>2
    <3> HIDE DEF k
    <3>2. m[k].id = c /\ m[k].n # 0 /\ m[k].n \in PageCounts
      BY <1>4, <3>1 DEF Prepares
    <3>3. ~Printed(b, c)
      BY <1>4, <3>1
    <3>4. ASSUME NEW j \in DOMAIN t, j < i PROVE ~Prints(t[j], c)
      <4>1. CASE j \in DOMAIN s
        BY <1>1, <3>3, <4>1 DEF Printed
      <4>2. CASE j \notin DOMAIN s
        <5>1. j - a \in DOMAIN m /\ j = a + (j - a) /\ t[j] = m[j - a] /\ j - a \in Nat
          BY <1>1, <4>2
        <5>2. j - a < k
          BY <1>1, <3>1, <3>4, <5>1
        <5>3. m[j - a].task \notin {"count", "page"}
          BY <1>4, <3>1, <5>1, <5>2 DEF Prepares
        <5> QED
          BY <5>1, <5>3 DEF Prints
      <4> QED
        BY <4>1, <4>2
    <3>5. \A q \in Ids : d.queries[q].at = "job" => d.queries[q].cookie # c
      BY <3>3 DEF Printed
    <3> QED
      BY <3>1, <3>2, <3>4, <3>5 DEF CountOK
  <2> QED
    BY <2>1, <2>2
<1> QED
  BY <1>3, <1>4 DEF Outputs

Consistent(h, b, u) ==
  Stacked(h) /\ AskedFor(h, b) /\ Given(h, b, u) /\ Unspent(h, b) /\ Kept(b)

\* Ending a job keeps the invariant.
LEMMA WindsConsistent ==
  ASSUME NEW h, NEW u, NEW b \in Browsers, NEW d, Winds(b, d), Consistent(h, b, u)
  PROVE  Consistent(h, d, u)
<1>1. Kept(d)
  BY WindsKept DEF Consistent
<1>2. d.queries = b.queries /\ d.loops.ui = b.loops.ui /\ d.tab.cookie = b.tab.cookie
  BY DEF Winds
<1>3. AskedFor(h, d) /\ Given(h, d, u)
  BY <1>2 DEF Consistent, AskedFor, Given
<1>4. Unspent(h, d)
  BY WindsPrinted DEF Consistent, Unspent
<1> QED
  BY <1>1, <1>3, <1>4 DEF Consistent

\* Queries that are no jobs change.
LEMMA QueriesChange ==
  ASSUME NEW b, NEW d, Kept(b),
         d.tab.number = b.tab.number, d.tab.job = b.tab.job, d.tab.succeeded = b.tab.succeeded,
         d.tab.current = b.tab.current, d.tab.left = b.tab.left, d.tab.flushing = b.tab.flushing,
         d.jobs = b.jobs,
         d.loops.ui = b.loops.ui, d.loops.inbox = b.loops.inbox, d.loops.pool = b.loops.pool,
         d.loops.polls = b.loops.polls,
         0 \notin Ids, b.tab.job \in Ids \cup {0}, b.tab.flushing \in Ids \cup {0},
         b.tab.current \cup b.tab.left \cup b.loops.pool \cup b.loops.polls \subseteq Ids,
         \A q \in Ids : /\ b.queries[q].at = "job" <=> d.queries[q].at = "job"
                        /\ b.queries[q].at = "job" => d.queries[q] = b.queries[q]
                        /\ d.workers[q].tasks = b.workers[q].tasks
                        /\ d.workers[q].doc <=> b.workers[q].doc
                        /\ d.workers[q].page = b.workers[q].page
                        /\ d.workers[q].looping <=> b.workers[q].looping
                        /\ d.workers[q].retry <=> b.workers[q].retry
                        /\ d.workers[q].spooled = b.workers[q].spooled,
         \A q \in d.loops.io : d.queries[q].at = "released"
  PROVE  Kept(d) /\ \A c : Printed(d, c) <=> Printed(b, c)
<1>1. OnlyJobs(b) /\ WorkersOK(b) /\ Outputs(b) /\ Successes(b)
  BY DEF Kept
<1>2. OnlyJobs(d)
  <2>1. \A q \in d.tab.current \cup d.tab.left \cup d.loops.pool \cup d.loops.polls :
          d.queries[q].at = "job"
    BY <1>1 DEF OnlyJobs, HeldJobs
  <2>2. /\ d.tab.flushing # 0 => d.queries[d.tab.flushing].at = "job"
        /\ d.tab.job # 0 => d.queries[d.tab.job].at = "job"
    BY <1>1 DEF OnlyJobs, HeldJobs
  <2>3. \A i \in DOMAIN d.loops.ui : d.loops.ui[i].task \in JobTasks =>
          d.loops.ui[i].id \in Ids /\ d.queries[d.loops.ui[i].id].at = "job"
    <3> TAKE i \in DOMAIN d.loops.ui
    <3>1. b.loops.ui[i].task \in JobTasks => b.loops.ui[i].id \in Ids /\ b.queries[b.loops.ui[i].id].at = "job"
      BY <1>1 DEF OnlyJobs, TaskJobs
    <3> QED
      BY <3>1
  <2>4. \A i \in DOMAIN d.loops.inbox : d.loops.inbox[i].n = 1 =>
          d.loops.inbox[i].id \in Ids /\ d.queries[d.loops.inbox[i].id].at = "job"
    <3> TAKE i \in DOMAIN d.loops.inbox
    <3>1. b.loops.inbox[i].n = 1 => b.loops.inbox[i].id \in Ids /\ b.queries[b.loops.inbox[i].id].at = "job"
      BY <1>1 DEF OnlyJobs, InboxJobs
    <3> QED
      BY <3>1
  <2>5. ASSUME NEW q \in Ids, d.queries[q].at # "job"
        PROVE  /\ d.jobs[q] = NewJob
               /\ d.workers[q].tasks = <<>> /\ ~d.workers[q].doc /\ d.workers[q].page = 0
               /\ ~d.workers[q].looping /\ ~d.workers[q].retry /\ d.workers[q].spooled = <<>>
    BY <1>1, <2>5 DEF OnlyJobs, IdleQueries
  <2> QED
    BY <2>1, <2>2, <2>3, <2>4, <2>5 DEF OnlyJobs, HeldJobs, TaskJobs, InboxJobs, IdleQueries
<1>3. WorkersOK(d)
  <2> SUFFICES ASSUME NEW q \in Ids PROVE WorkerOK(d.workers[q], d.jobs[q])
    BY DEF WorkersOK
  <2>1. WorkerOK(b.workers[q], b.jobs[q])
    BY <1>1 DEF WorkersOK
  <2> QED
    BY <2>1 DEF WorkerOK
<1>4. Outputs(d)
  <2>1. ASSUME NEW i \in DOMAIN d.loops.ui, d.loops.ui[i].task = "page" PROVE PageOK(d, i)
    <3>1. PageOK(b, i)
      BY <1>1, <2>1 DEF Outputs
    <3> QED
      BY <3>1 DEF PageOK
  <2>2. ASSUME NEW i \in DOMAIN d.loops.ui, d.loops.ui[i].task = "count" PROVE CountOK(d, i)
    <3>1. CountOK(b, i)
      BY <1>1, <2>2 DEF Outputs
    <3> QED
      BY <3>1 DEF CountOK
  <2> QED
    BY <2>1, <2>2 DEF Outputs
<1>5. Successes(d)
  <2>1. \A q \in Ids : Full(b, q) <=> Full(d, q)
    BY DEF Full
  <2>2. \A i \in DOMAIN d.loops.ui :
          d.loops.ui[i].task \in {"docDone", "documentDone"} => Full(d, d.loops.ui[i].id)
    <3> TAKE i \in DOMAIN d.loops.ui
    <3>1. d.loops.ui[i].task \in JobTasks => d.loops.ui[i].id \in Ids
      BY <1>1 DEF OnlyJobs, TaskJobs
    <3>2. d.loops.ui[i].task \in {"docDone", "documentDone"} => Full(b, d.loops.ui[i].id)
      BY <1>1 DEF Successes
    <3> QED
      BY <2>1, <3>1, <3>2 DEF JobTasks
  <2>3. \A i \in DOMAIN d.loops.inbox : d.loops.inbox[i].n = 1 => Full(d, d.loops.inbox[i].id)
    <3> TAKE i \in DOMAIN d.loops.inbox
    <3>1. d.loops.inbox[i].n = 1 => d.loops.inbox[i].id \in Ids /\ Full(b, d.loops.inbox[i].id)
      BY <1>1 DEF OnlyJobs, InboxJobs, Successes
    <3> QED
      BY <2>1, <3>1
  <2>4. d.tab.job # 0 => ~d.tab.succeeded
    BY <1>1 DEF Successes
  <2> QED
    BY <2>2, <2>3, <2>4 DEF Successes
<1>6. ASSUME NEW c PROVE Printed(d, c) <=> Printed(b, c)
  BY DEF Printed
<1> QED
  BY <1>2, <1>3, <1>4, <1>5, <1>6 DEF Kept

\* What is known of the task at the head of the queue.
TaskOK(h, b, u, t) ==
  /\ t \in UITasks
  /\ t.task \in JobTasks => t.id \in Ids /\ b.queries[t.id].at = "job"
  /\ t.task \in {"docDone", "documentDone"} => Full(b, t.id)
  /\ t.task \in {"cookie", "count", "page", "failed"} => t.id <= u.cookies
  /\ t.task = "count" => t.n # 0 /\ t.n \in PageCounts
  /\ t.task = "page" =>
       /\ t.n # 0 /\ t.n <= b.tab.number
       /\ \A q \in Ids : b.queries[q].at = "job" /\ b.queries[q].cookie = t.id => t.n <= b.jobs[q].count
  /\ t.task \in {"count", "page"} =>
       /\ t.id # 0 => h.prep # t.id /\ \A i \in DOMAIN h.stack : h.stack[i].cookie # t.id
       /\ \A i \in DOMAIN Tail(b.loops.ui) :
            Tail(b.loops.ui)[i].task = "count" => Tail(b.loops.ui)[i].id # t.id

\* The task at the head of the queue has what the invariant says of it.
LEMMA TaskFacts ==
  ASSUME NEW h, NEW u, NEW b \in Browsers, Consistent(h, b, u), b.loops.ui # <<>>
  PROVE  TaskOK(h, b, u, Head(b.loops.ui))
<1> DEFINE s == b.loops.ui
           t == Head(s)
<1>1. b.loops.ui \in Seq(UITasks)
  BY DEF Browsers, Queues
<1>2. /\ t = s[1] /\ 1 \in DOMAIN s /\ s[1] \in UITasks
      /\ \A i \in DOMAIN Tail(s) : i \in Nat \ {0} /\ i + 1 \in DOMAIN s /\ Tail(s)[i] = s[i + 1]
      /\ \A i \in DOMAIN s : i \in Nat \ {0}
  BY <1>1, TailIs
<1>3. /\ AskedFor(h, b) /\ Given(h, b, u) /\ Unspent(h, b)
      /\ OnlyJobs(b) /\ WorkersOK(b) /\ Outputs(b) /\ Successes(b)
  BY DEF Consistent, Kept
<1> HIDE DEF t
<1>4. t.task \in JobTasks => t.id \in Ids /\ b.queries[t.id].at = "job"
  BY <1>2, <1>3 DEF OnlyJobs, TaskJobs
<1>5. t.task \in {"docDone", "documentDone"} => Full(b, t.id)
  BY <1>2, <1>3 DEF Successes
<1>6. t.task \in {"cookie", "count", "page", "failed"} => t.id <= u.cookies
  BY <1>2, <1>3 DEF Given
<1>7. t.task = "count" => t.n # 0 /\ t.n \in PageCounts
  BY <1>2, <1>3 DEF Outputs, CountOK
<1>8. ASSUME t.task = "page"
      PROVE  /\ t.n # 0 /\ t.n <= b.tab.number
             /\ \A q \in Ids : b.queries[q].at = "job" /\ b.queries[q].cookie = t.id => t.n <= b.jobs[q].count
  <2>1. PageOK(b, 1)
    BY <1>2, <1>3, <1>8 DEF Outputs
  <2>2. ~CountBefore(s, 1)
    BY <1>2 DEF CountBefore
  <2> QED
    BY <1>2, <2>1, <2>2 DEF PageOK
<1>9. ASSUME t.task \in {"count", "page"}
      PROVE  /\ t.id # 0 => h.prep # t.id /\ \A i \in DOMAIN h.stack : h.stack[i].cookie # t.id
             /\ \A i \in DOMAIN Tail(s) : Tail(s)[i].task = "count" => Tail(s)[i].id # t.id
  <2>1. Prints(s[1], t.id)
    BY <1>2, <1>9 DEF Prints
  <2>2. Printed(b, t.id)
    BY <1>2, <2>1 DEF Printed
  <2>3. t.id # 0 => h.prep # t.id /\ \A i \in DOMAIN h.stack : h.stack[i].cookie # t.id
    BY <1>3, <2>2 DEF Unspent
  <2>4. ASSUME NEW i \in DOMAIN Tail(s), Tail(s)[i].task = "count" PROVE Tail(s)[i].id # t.id
    <3>1. i + 1 \in DOMAIN s /\ Tail(s)[i] = s[i + 1] /\ 1 < i + 1
      BY <1>2
    <3>2. CountOK(b, i + 1)
      BY <1>3, <2>4, <3>1 DEF Outputs
    <3>3. ~Prints(s[1], s[i + 1].id)
      BY <1>2, <3>1, <3>2 DEF CountOK
    <3> QED
      BY <2>1, <3>1, <3>3
  <2> QED
    BY <2>3, <2>4
<1> QED
  BY <1>2, <1>4, <1>5, <1>6, <1>7, <1>8, <1>9 DEF TaskOK, t

\* Taking the task, with the tab's cookie or count of pages that it brings, keeps the invariant.
LEMMA TaskTaken ==
  ASSUME NEW h, NEW u, NEW b \in Browsers, Consistent(h, b, u), b.loops.ui # <<>>,
         NEW e, e.queries = b.queries, e.jobs = b.jobs, e.workers = b.workers,
         e.loops.ui = Tail(b.loops.ui), e.loops.inbox = b.loops.inbox, e.loops.io = b.loops.io,
         e.loops.pool = b.loops.pool, e.loops.polls = b.loops.polls,
         e.tab.job = b.tab.job, e.tab.succeeded = b.tab.succeeded, e.tab.flushing = b.tab.flushing,
         e.tab.current = b.tab.current, e.tab.left = b.tab.left,
         e.tab.cookie = IF Head(b.loops.ui).task = "cookie" THEN Head(b.loops.ui).id ELSE b.tab.cookie,
         e.tab.number = IF Head(b.loops.ui).task = "count" THEN Head(b.loops.ui).n ELSE b.tab.number
  PROVE  Consistent(h, e, u)
<1> DEFINE s == b.loops.ui
<1>1. b.loops.ui \in Seq(UITasks)
  BY DEF Browsers, Queues
<1>2. /\ Head(s) = s[1] /\ 1 \in DOMAIN s /\ s[1] \in UITasks
      /\ \A i \in DOMAIN e.loops.ui : i + 1 \in DOMAIN s /\ e.loops.ui[i] = s[i + 1]
  BY <1>1, TailIs
<1>3. /\ Stacked(h) /\ AskedFor(h, b) /\ Given(h, b, u) /\ Unspent(h, b)
      /\ OnlyJobs(b) /\ WorkersOK(b) /\ Outputs(b) /\ Successes(b)
  BY DEF Consistent, Kept
<1>4. AskedFor(h, e)
  BY <1>3 DEF AskedFor
<1>5. Given(h, e, u)
  <2>1. e.tab.cookie <= u.cookies
    <3>1. Head(s).task = "cookie" => Head(s).id <= u.cookies
      BY <1>2, <1>3 DEF Given
    <3>2. b.tab.cookie <= u.cookies
      BY <1>3 DEF Given
    <3> QED
      BY <3>1, <3>2
  <2>2. \A i \in DOMAIN e.loops.ui :
          e.loops.ui[i].task \in {"cookie", "count", "page", "failed"} => e.loops.ui[i].id <= u.cookies
    BY <1>2, <1>3 DEF Given
  <2> QED
    BY <1>3, <2>1, <2>2 DEF Given
<1>6. ASSUME NEW c, Printed(e, c) PROVE Printed(b, c)
  BY <1>2, <1>6 DEF Printed
<1>7. Unspent(h, e)
  BY <1>3, <1>6 DEF Unspent
<1>8. OnlyJobs(e)
  <2>1. \A i \in DOMAIN e.loops.ui : \E k \in DOMAIN b.loops.ui : e.loops.ui[i] = b.loops.ui[k]
    BY <1>2
  <2> QED
    BY <1>3, <2>1, OnlyJobsBy
<1>9. WorkersOK(e)
  BY <1>3 DEF WorkersOK
<1>10. Outputs(e)
  BY <1>1, <1>2, <1>3, OutputsTail
<1>11. Successes(e)
  BY <1>2, <1>3 DEF Successes, Full
<1> QED
  BY <1>3, <1>4, <1>5, <1>7, <1>8, <1>9, <1>10, <1>11 DEF Consistent, Kept

\* The tasks of a new job's worker are to take the document and to start.
LEMMA FirstTasks ==
  LET s == <<"doc", "start">> IN s \in Seq(WorkerTasks) /\ Begins(s) /\ Starts(s) /\ <<>> \o s = s
<1> DEFINE s == <<"doc", "start">>
<1>1. s \in Seq(WorkerTasks) /\ DOMAIN s = 1 .. 2 /\ s[1] = "doc" /\ s[2] = "start"
  BY DEF WorkerTasks
<1>2. <<>> \o s = s
  OBVIOUS
<1> HIDE DEF s
<1>3. Starts(s)
  BY <1>1 DEF Starts
<1>4. \A i \in DOMAIN s : i = 1 \/ i = 2
  BY <1>1
<1>5. Begins(s)
  BY <1>1, <1>4 DEF Begins
<1> QED
  BY <1>1, <1>2, <1>3, <1>5 DEF s

\* A job is made of a query.
Made(b, d, q) ==
  /\ d.queries = [b.queries EXCEPT ![q].at = "job"]
  /\ d.jobs = [b.jobs EXCEPT ![q] = [NewJob EXCEPT !.pending = TRUE, !.doc = TRUE, !.listens = TRUE,
                                                   !.count = b.tab.number]]
  /\ d.workers = [b.workers EXCEPT ![q].tasks = @ \o <<"doc", "start">>]
  /\ d.loops = b.loops
  /\ d.tab = [b.tab EXCEPT !.job = q, !.succeeded = FALSE, !.current = @ \cup {q}]

\* Making a job of a query keeps the types.
LEMMA MadeTyped ==
  ASSUME NEW b \in Browsers, NEW q \in Ids, NEW d, b.workers[q].tasks = <<>>,
         d = [b EXCEPT !.queries[q].at = "job",
                 !.jobs[q] = [NewJob EXCEPT !.pending = TRUE, !.doc = TRUE, !.listens = TRUE,
                                            !.count = b.tab.number],
                 !.workers[q].tasks = @ \o <<"doc", "start">>,
                 !.tab.job = q, !.tab.succeeded = FALSE, !.tab.current = @ \cup {q}]
  PROVE  d \in Browsers /\ Made(b, d, q)
<1>1. /\ b.workers[q] \in Workers /\ b.jobs[q] \in Jobs /\ b.queries[q] \in Queries
      /\ b.workers \in [Ids -> Workers] /\ b.jobs \in [Ids -> Jobs] /\ b.queries \in [Ids -> Queries]
      /\ b.tab \in Tabs /\ b.loops \in Queues
  BY DEF Browsers
<1> DEFINE j == [NewJob EXCEPT !.pending = TRUE, !.doc = TRUE, !.listens = TRUE, !.count = b.tab.number]
           w == [b.workers[q] EXCEPT !.tasks = @ \o <<"doc", "start">>]
           p == [b.queries[q] EXCEPT !.at = "job"]
           t == [b.tab EXCEPT !.job = q, !.succeeded = FALSE, !.current = @ \cup {q}]
<1>2. j \in Jobs
  BY <1>1 DEF Jobs, NewJob, Tabs
<1>3. w \in Workers
  <2>1. b.workers[q].tasks \o <<"doc", "start">> \in Seq(WorkerTasks)
    BY FirstTasks
  <2> QED
    BY <1>1, <2>1 DEF Workers
<1>4. p \in Queries
  BY <1>1 DEF Queries
<1>5. t \in Tabs
  BY <1>1 DEF Tabs
<1>6. Made(b, d, q)
  <2>1. d.queries = [b.queries EXCEPT ![q].at = "job"] /\ d.loops = b.loops
    BY DEF Browsers
  <2>2. d.jobs = [b.jobs EXCEPT ![q] = j]
    BY DEF Browsers
  <2>3. d.workers = [b.workers EXCEPT ![q].tasks = @ \o <<"doc", "start">>]
    BY DEF Browsers
  <2>4. d.tab = t
    BY DEF Browsers
  <2> QED
    BY <2>1, <2>2, <2>3, <2>4 DEF Made
<1>7. d.queries \in [Ids -> Queries]
  BY <1>1, <1>4, <1>6 DEF Made
<1>8. d.jobs \in [Ids -> Jobs]
  <2> HIDE DEF j
  <2>1. d.jobs = [b.jobs EXCEPT ![q] = j]
    BY <1>6 DEF Made, j
  <2> QED
    BY <1>1, <1>2, <2>1
<1>9. d.workers \in [Ids -> Workers]
  <2>1. d.workers = [b.workers EXCEPT ![q] = w]
    BY <1>1, <1>6 DEF Made
  <2> HIDE DEF w
  <2> QED
    BY <1>1, <1>3, <2>1
<1>10. d.tab \in Tabs /\ d.loops \in Queues
  <2> HIDE DEF t
  <2> QED
    BY <1>1, <1>5, <1>6 DEF Made, t
<1> HIDE DEF j, w, p, t
<1>11. d \in Browsers
  BY <1>7, <1>8, <1>9, <1>10 DEF Browsers
<1> QED
  BY <1>6, <1>11

MadeOf(b, d, q) ==
  /\ \A r \in Ids : r # q => /\ d.queries[r] = b.queries[r] /\ d.jobs[r] = b.jobs[r]
                             /\ d.workers[r] = b.workers[r]
  /\ d.queries[q].at = "job" /\ d.queries[q].cookie = b.queries[q].cookie
  /\ d.jobs[q].count = b.tab.number /\ d.jobs[q].pages = {}
  /\ d.workers[q].tasks = <<"doc", "start">>
  /\ d.workers[q].doc = b.workers[q].doc /\ d.workers[q].page = b.workers[q].page
  /\ d.workers[q].looping = b.workers[q].looping /\ d.workers[q].retry = b.workers[q].retry
  /\ d.workers[q].spooled = b.workers[q].spooled
  /\ d.loops = b.loops
  /\ d.tab.job = q /\ d.tab.succeeded = FALSE /\ d.tab.current = b.tab.current \cup {q}
  /\ d.tab.cookie = b.tab.cookie /\ d.tab.number = b.tab.number /\ d.tab.quit = b.tab.quit
  /\ d.tab.left = b.tab.left /\ d.tab.flushing = b.tab.flushing

\* What is different once the query q has become a job.
LEMMA MadeIs ==
  ASSUME NEW b \in Browsers, NEW q \in Ids, NEW d \in Browsers, Made(b, d, q), b.workers[q].tasks = <<>>
  PROVE  MadeOf(b, d, q)
<1>1. /\ b.workers[q] \in Workers /\ b.queries[q] \in Queries
      /\ b.workers \in [Ids -> Workers] /\ b.jobs \in [Ids -> Jobs] /\ b.queries \in [Ids -> Queries]
      /\ b.tab \in Tabs
  BY DEF Browsers
<1>2. \A r \in Ids : r # q => /\ d.queries[r] = b.queries[r] /\ d.jobs[r] = b.jobs[r]
                              /\ d.workers[r] = b.workers[r]
  BY <1>1 DEF Made
<1>3. d.queries[q].at = "job" /\ d.queries[q].cookie = b.queries[q].cookie
  BY <1>1 DEF Made, Queries
<1>4. d.jobs[q].count = b.tab.number /\ d.jobs[q].pages = {}
  BY <1>1 DEF Made, NewJob
<1>5. d.workers[q] = [b.workers[q] EXCEPT !.tasks = <<"doc", "start">>]
  BY <1>1, FirstTasks DEF Made
<1>6. /\ d.workers[q].tasks = <<"doc", "start">>
      /\ d.workers[q].doc = b.workers[q].doc /\ d.workers[q].page = b.workers[q].page
      /\ d.workers[q].looping = b.workers[q].looping /\ d.workers[q].retry = b.workers[q].retry
      /\ d.workers[q].spooled = b.workers[q].spooled
  BY <1>1, <1>5 DEF Workers
<1>7. /\ d.tab.job = q /\ d.tab.succeeded = FALSE /\ d.tab.current = b.tab.current \cup {q}
      /\ d.tab.cookie = b.tab.cookie /\ d.tab.number = b.tab.number /\ d.tab.quit = b.tab.quit
      /\ d.tab.left = b.tab.left /\ d.tab.flushing = b.tab.flushing
  BY <1>1 DEF Made, Tabs
<1>8. d.loops = b.loops
  BY DEF Made
<1> QED
  BY <1>2, <1>3, <1>4, <1>6, <1>7, <1>8 DEF MadeOf

\* A query whose cookie the renderer has no more use for may become a job.
LEMMA MadeConsistent ==
  ASSUME NEW h, NEW u, NEW b \in Browsers, Consistent(h, b, u), b.tab.number # 0,
         NEW q \in Ids, b.queries[q].at = "queued",
         h.prep # b.queries[q].cookie,
         \A i \in DOMAIN h.stack : h.stack[i].cookie # b.queries[q].cookie,
         \A i \in DOMAIN b.loops.ui :
           b.loops.ui[i].task = "count" => b.loops.ui[i].id # b.queries[q].cookie,
         NEW d \in Browsers, Made(b, d, q)
  PROVE  Consistent(h, d, u)
<1>1. /\ Stacked(h) /\ AskedFor(h, b) /\ Given(h, b, u) /\ Unspent(h, b)
      /\ OnlyJobs(b) /\ WorkersOK(b) /\ Outputs(b) /\ Successes(b)
  BY DEF Consistent, Kept
<1>2. /\ b.workers[q].tasks = <<>> /\ ~b.workers[q].doc /\ b.workers[q].page = 0
      /\ ~b.workers[q].looping /\ ~b.workers[q].retry /\ b.workers[q].spooled = <<>>
  BY <1>1 DEF OnlyJobs, IdleQueries
<1>12. MadeOf(b, d, q)
  BY <1>2, MadeIs
<1>3. /\ \A r \in Ids : r # q => /\ d.queries[r] = b.queries[r] /\ d.jobs[r] = b.jobs[r]
                                 /\ d.workers[r] = b.workers[r]
      /\ d.queries[q].at = "job" /\ d.queries[q].cookie = b.queries[q].cookie
      /\ d.jobs[q].count = b.tab.number /\ d.jobs[q].pages = {}
      /\ d.workers[q].tasks = <<"doc", "start">>
      /\ d.workers[q].doc = b.workers[q].doc /\ d.workers[q].page = b.workers[q].page
      /\ d.workers[q].looping = b.workers[q].looping /\ d.workers[q].retry = b.workers[q].retry
      /\ d.workers[q].spooled = b.workers[q].spooled
      /\ d.loops = b.loops
      /\ d.tab.job = q /\ d.tab.succeeded = FALSE /\ d.tab.current = b.tab.current \cup {q}
      /\ d.tab.cookie = b.tab.cookie /\ d.tab.number = b.tab.number /\ d.tab.quit = b.tab.quit
      /\ d.tab.left = b.tab.left /\ d.tab.flushing = b.tab.flushing
  BY <1>12 DEF MadeOf
<1> DEFINE Q == b.queries
           c == b.queries[q].cookie
<1>4. AskedFor(h, d)
  <2>1. ASSUME NEW i \in DOMAIN h.stack PROVE Asks(h.stack[i], d.queries)
    <3> DEFINE f == h.stack[i]
    <3>1. Asks(f, b.queries)
      BY <1>1 DEF AskedFor
    <3>2. CASE f.query = q
      <4>1. 0 # q
        BY DEF Ids
      <4>2. f.replied
        BY <3>1, <3>2, <4>1 DEF Asks
      <4>3. f.cookie = c
        BY <3>1, <3>2, <4>1, <4>2 DEF Asks
      <4> QED
        BY <4>3
    <3>3. CASE f.query # q /\ f.query \in Ids
      <4>1. d.queries[f.query] = b.queries[f.query]
        BY <1>3, <3>3
      <4> QED
        BY <3>1, <4>1 DEF Asks
    <3>4. CASE f.query \notin Ids
      <4>1. d.queries[f.query] = b.queries[f.query]
        BY <3>4 DEF Browsers, Made
      <4> QED
        BY <3>1, <4>1 DEF Asks
    <3> QED
      BY <3>2, <3>3, <3>4
  <2>2. \A i, j \in DOMAIN h.stack : i # j => Apart(h.stack[i], h.stack[j])
    BY <1>1 DEF AskedFor
  <2>3. \A r \in Ids : d.queries[r].at \in {"queued", "job"} => d.queries[r].cookie # 0
    BY <1>1, <1>3 DEF AskedFor
  <2> QED
    BY <2>1, <2>2, <2>3 DEF AskedFor
<1>5. Given(h, d, u)
  BY <1>1, <1>3 DEF Given
<1>6. \A x : Printed(d, x) => Printed(b, x) \/ x = c
  BY <1>3 DEF Printed
<1>7. Unspent(h, d)
  BY <1>1, <1>6 DEF Unspent
<1>8. OnlyJobs(d)
  <2>1. \A i \in DOMAIN d.loops.ui : d.loops.ui[i].task \in JobTasks =>
          d.loops.ui[i].id \in Ids /\ d.queries[d.loops.ui[i].id].at = "job"
    <3> TAKE i \in DOMAIN d.loops.ui
    <3>1. d.loops = b.loops
      BY <1>3
    <3>2. b.loops.ui[i].task \in JobTasks => b.loops.ui[i].id \in Ids /\ b.queries[b.loops.ui[i].id].at = "job"
      BY <1>1, <3>1 DEF OnlyJobs, TaskJobs
    <3> QED
      BY <1>3, <3>1, <3>2
  <2>2. \A i \in DOMAIN d.loops.inbox : d.loops.inbox[i].n = 1 =>
          d.loops.inbox[i].id \in Ids /\ d.queries[d.loops.inbox[i].id].at = "job"
    <3> TAKE i \in DOMAIN d.loops.inbox
    <3>1. d.loops = b.loops
      BY <1>3
    <3>2. b.loops.inbox[i].n = 1 => b.loops.inbox[i].id \in Ids /\ b.queries[b.loops.inbox[i].id].at = "job"
      BY <1>1, <3>1 DEF OnlyJobs, InboxJobs
    <3> QED
      BY <1>3, <3>1, <3>2
  <2>3. \A r \in Ids : d.queries[r].at # "job" =>
          /\ d.jobs[r] = NewJob
          /\ d.workers[r].tasks = <<>> /\ ~d.workers[r].doc /\ d.workers[r].page = 0
          /\ ~d.workers[r].looping /\ ~d.workers[r].retry /\ d.workers[r].spooled = <<>>
    BY <1>1, <1>3 DEF OnlyJobs, IdleQueries
  <2>4. b.tab.flushing \in Ids \cup {0} /\ b.loops.io \subseteq Ids
        /\ b.tab.current \cup b.tab.left \cup b.loops.pool \cup b.loops.polls \subseteq Ids
    BY DEF Browsers, Tabs, Queues
  <2>5. /\ \A r \in d.tab.current \cup d.tab.left \cup d.loops.pool \cup d.loops.polls :
             d.queries[r].at = "job"
        /\ d.tab.flushing # 0 => d.queries[d.tab.flushing].at = "job"
        /\ d.tab.job # 0 => d.queries[d.tab.job].at = "job"
    BY <1>1, <1>3, <2>4 DEF OnlyJobs, HeldJobs
  <2>6. \A r \in d.loops.io : d.queries[r].at = "released"
    BY <1>1, <1>3, <2>4 DEF OnlyJobs, HeldJobs
  <2> QED
    BY <2>1, <2>2, <2>3, <2>5, <2>6 DEF OnlyJobs, HeldJobs, TaskJobs, InboxJobs, IdleQueries
<1>9. WorkersOK(d)
  <2> SUFFICES ASSUME NEW r \in Ids PROVE WorkerOK(d.workers[r], d.jobs[r])
    BY DEF WorkersOK
  <2>1. CASE r # q
    BY <1>1, <1>3, <2>1 DEF WorkersOK
  <2>2. CASE r = q
    <3>1. Begins(d.workers[q].tasks)
      BY <1>3, FirstTasks
    <3>2. b.tab.number \in Nat /\ d.jobs[q].count # 0 /\ d.jobs[q].count \in Nat
      BY <1>3, PrintingAssumption DEF Browsers, Tabs
    <3>3. Len(d.workers[q].spooled) = 0 /\ DOMAIN d.workers[q].spooled = {}
      BY <1>2, <1>3
    <3>4. d.jobs[q].pages \subseteq 1 .. d.jobs[q].count
      BY <1>3
    <3>5. /\ ~d.workers[q].doc /\ d.workers[q].page = 0 /\ ~d.workers[q].looping /\ ~d.workers[q].retry
          /\ d.workers[q].spooled = <<>>
      BY <1>2, <1>3
    <3> QED
      BY <2>2, <3>1, <3>2, <3>3, <3>4, <3>5 DEF WorkerOK
  <2> QED
    BY <2>1, <2>2
<1>10. Outputs(d)
  <2>1. ASSUME NEW i \in DOMAIN d.loops.ui, d.loops.ui[i].task = "page" PROVE PageOK(d, i)
    <3> DEFINE s == b.loops.ui
    <3>1. PageOK(b, i) /\ d.loops.ui = s
      BY <1>1, <1>3, <2>1 DEF Outputs
    <3>2. s[i].n # 0 /\ \A j \in DOMAIN s : LastCount(s, i, j) => s[j].id = s[i].id /\ s[i].n <= s[j].n
      BY <3>1 DEF PageOK
    <3>3. ASSUME ~CountBefore(s, i)
          PROVE /\ s[i].n <= d.tab.number
                /\ \A r \in Ids : d.queries[r].at = "job" /\ d.queries[r].cookie = s[i].id
                                    => s[i].n <= d.jobs[r].count
      <4>1. /\ s[i].n <= b.tab.number
            /\ \A r \in Ids : b.queries[r].at = "job" /\ b.queries[r].cookie = s[i].id
                                => s[i].n <= b.jobs[r].count
        BY <3>1, <3>3 DEF PageOK
      <4> QED
        BY <1>3, <4>1
    <3> HIDE DEF s
    <3> QED
      BY <3>1, <3>2, <3>3 DEF PageOK
  <2>2. ASSUME NEW i \in DOMAIN d.loops.ui, d.loops.ui[i].task = "count" PROVE CountOK(d, i)
    <3>1. CountOK(b, i) /\ d.loops.ui = b.loops.ui
      BY <1>1, <1>3, <2>2 DEF Outputs
    <3>2. b.loops.ui[i].id # c
      BY <1>3, <2>2
    <3>3. \A r \in Ids : d.queries[r].at = "job" => d.queries[r].cookie # b.loops.ui[i].id
      BY <1>3, <3>1, <3>2 DEF CountOK
    <3> QED
      BY <3>1, <3>3 DEF CountOK
  <2> QED
    BY <2>1, <2>2 DEF Outputs
<1>11. Successes(d)
  <2>1. \A r \in Ids : b.queries[r].at = "job" => (Full(b, r) <=> Full(d, r))
    BY <1>3 DEF Full
  <2>2. \A i \in DOMAIN d.loops.ui :
          d.loops.ui[i].task \in {"docDone", "documentDone"} => Full(d, d.loops.ui[i].id)
    <3> TAKE i \in DOMAIN d.loops.ui
    <3>1. d.loops.ui = b.loops.ui
      BY <1>3
    <3>2. b.loops.ui[i].task \in JobTasks => b.loops.ui[i].id \in Ids /\ b.queries[b.loops.ui[i].id].at = "job"
      BY <1>1, <3>1 DEF OnlyJobs, TaskJobs
    <3>3. b.loops.ui[i].task \in {"docDone", "documentDone"} => Full(b, b.loops.ui[i].id)
      BY <1>1, <3>1 DEF Successes
    <3> QED
      BY <2>1, <3>1, <3>2, <3>3 DEF JobTasks
  <2>3. \A i \in DOMAIN d.loops.inbox : d.loops.inbox[i].n = 1 => Full(d, d.loops.inbox[i].id)
    <3> TAKE i \in DOMAIN d.loops.inbox
    <3>1. d.loops.inbox = b.loops.inbox
      BY <1>3
    <3>2. b.loops.inbox[i].n = 1 => /\ b.loops.inbox[i].id \in Ids /\ b.queries[b.loops.inbox[i].id].at = "job"
                                    /\ Full(b, b.loops.inbox[i].id)
      BY <1>1, <3>1 DEF OnlyJobs, InboxJobs, Successes
    <3> QED
      BY <2>1, <3>1, <3>2
  <2> QED
    BY <1>3, <2>2, <2>3 DEF Successes
<1> QED
  BY <1>1, <1>4, <1>5, <1>7, <1>8, <1>9, <1>10, <1>11 DEF Consistent, Kept

\* A count of pages is a number.
LEMMA CountIsNat ==
  ASSUME NEW n \in PageCounts \cup {0}
  PROVE  n \in Nat
BY PrintingAssumption

\* The waiting calls are calls.
LEMMA CallsTyped ==
  ASSUME NEW h \in Helpers
  PROVE  /\ h.stack \in Seq(Calls) /\ Len(h.stack) \in Nat /\ DOMAIN h.stack = 1 .. Len(h.stack)
         /\ \A i \in DOMAIN h.stack : h.stack[i] \in Calls
<1>1. h.stack \in Seq(Calls)
  BY DEF Helpers
<1> QED
  BY <1>1

\* OpportunisticallyCreatePrintJob keeps the invariant, for a cookie the renderer is done with.
LEMMA CreateJob ==
  ASSUME NEW h, NEW u, NEW b \in Browsers, Consistent(h, b, u), NEW c, b.tab.number # 0,
         c # 0 => h.prep # c /\ \A i \in DOMAIN h.stack : h.stack[i].cookie # c,
         \A i \in DOMAIN b.loops.ui : b.loops.ui[i].task = "count" => b.loops.ui[i].id # c
  PROVE  LET d == OpportunisticallyCreatePrintJob(b, c) IN
         /\ d \in Browsers /\ Consistent(h, d, u) /\ (Tracked(b) => Tracked(d))
         /\ d.tab.number = b.tab.number
         /\ \A q \in Ids : d.queries[q].at = "job" =>
              \/ d.jobs[q].count = b.tab.number
              \/ /\ b.queries[q].at = "job" /\ b.queries[q].cookie = d.queries[q].cookie
                 /\ d.jobs[q].count = b.jobs[q].count
<1> DEFINE found == {q \in Ids : b.queries[q].at = "queued" /\ b.queries[q].cookie = c}
           d == OpportunisticallyCreatePrintJob(b, c)
<1>1. CASE b.tab.job # 0 \/ found = {}
  <2>1. d = b
    BY <1>1 DEF OpportunisticallyCreatePrintJob
  <2> QED
    BY <2>1
<1>2. CASE ~(b.tab.job # 0 \/ found = {})
  <2> DEFINE q == CHOOSE r \in found : TRUE
  <2>1. q \in found
    BY <1>2
  <2>2. d = [b EXCEPT !.queries[q].at = "job",
                 !.jobs[q] = [NewJob EXCEPT !.pending = TRUE, !.doc = TRUE, !.listens = TRUE,
                                            !.count = b.tab.number],
                 !.workers[q].tasks = @ \o <<"doc", "start">>,
                 !.tab.job = q, !.tab.succeeded = FALSE, !.tab.current = @ \cup {q}]
    BY <1>2 DEF OpportunisticallyCreatePrintJob
  <2> HIDE DEF q
  <2>3. q \in Ids /\ b.queries[q].at = "queued" /\ b.queries[q].cookie = c
    BY <2>1
  <2> HIDE DEF d
  <2>4. b.workers[q].tasks = <<>> /\ c # 0
    BY <2>3 DEF Consistent, Kept, OnlyJobs, HeldJobs, TaskJobs, InboxJobs, IdleQueries, AskedFor
  <2>5. d \in Browsers /\ Made(b, d, q)
    BY <2>2, <2>3, <2>4, MadeTyped
  <2>6. MadeOf(b, d, q)
    BY <2>3, <2>4, <2>5, MadeIs
  <2>7. Consistent(h, d, u)
    BY <2>3, <2>4, <2>5, MadeConsistent
  <2>8. Tracked(d) /\ d.tab.number = b.tab.number
    BY <2>6 DEF MadeOf, Tracked
  <2>9. \A r \in Ids : d.queries[r].at = "job" =>
              \/ d.jobs[r].count = b.tab.number
              \/ /\ b.queries[r].at = "job" /\ b.queries[r].cookie = d.queries[r].cookie
                 /\ d.jobs[r].count = b.jobs[r].count
    BY <2>6 DEF MadeOf
  <2> QED
    BY <2>5, <2>7, <2>8, <2>9 DEF d
<1> QED
  BY <1>1, <1>2

\* A page that has arrived is one of its job's.
LEMMA PageArrives ==
  ASSUME NEW h, NEW u, NEW b \in Browsers, Consistent(h, b, u),
         NEW q \in Ids, b.queries[q].at = "job", NEW n \in Nat, n # 0, n <= b.jobs[q].count
  PROVE  LET d == [b EXCEPT !.jobs[q].pages = @ \cup {n}] IN
         d \in Browsers /\ Consistent(h, d, u) /\ (Tracked(b) => Tracked(d))
<1> DEFINE d == [b EXCEPT !.jobs[q].pages = @ \cup {n}]
           j == [b.jobs[q] EXCEPT !.pages = @ \cup {n}]
<1>1. /\ b.jobs[q] \in Jobs /\ b.jobs \in [Ids -> Jobs]
  BY DEF Browsers
<1>2. j \in Jobs /\ j.count = b.jobs[q].count /\ j.pages = b.jobs[q].pages \cup {n}
  BY <1>1 DEF Jobs
<1>3. /\ d.queries = b.queries /\ d.tab = b.tab /\ d.workers = b.workers /\ d.loops = b.loops
      /\ d.jobs = [b.jobs EXCEPT ![q] = j]
  BY DEF Browsers
<1> HIDE DEF j
<1>4. d.jobs \in [Ids -> Jobs]
  BY <1>1, <1>2, <1>3
<1>5. d \in Browsers
  BY <1>3, <1>4 DEF Browsers
<1>6. /\ \A r \in Ids : r # q => d.jobs[r] = b.jobs[r]
      /\ d.jobs[q] = j
      /\ \A r \in Ids : d.jobs[r].count = b.jobs[r].count
  BY <1>1, <1>2, <1>3
<1> HIDE DEF d
<1>7. /\ Stacked(h) /\ AskedFor(h, b) /\ Given(h, b, u) /\ Unspent(h, b)
      /\ OnlyJobs(b) /\ WorkersOK(b) /\ Outputs(b) /\ Successes(b)
  BY DEF Consistent, Kept
<1>8. AskedFor(h, d) /\ Given(h, d, u)
  BY <1>3, <1>7 DEF AskedFor, Given
<1>9. Unspent(h, d)
  BY <1>3, <1>7 DEF Unspent, Printed
<1>10. OnlyJobs(d)
  BY <1>3, <1>6, <1>7, OnlyJobsBy
<1>11. WorkersOK(d)
  <2> SUFFICES ASSUME NEW r \in Ids PROVE WorkerOK(d.workers[r], d.jobs[r])
    BY DEF WorkersOK
  <2>1. WorkerOK(b.workers[r], b.jobs[r])
    BY <1>7 DEF WorkersOK
  <2>2. CASE r # q
    BY <1>3, <1>6, <2>1, <2>2
  <2>3. CASE r = q
    <3>1. b.jobs[q].pages \subseteq 1 .. b.jobs[q].count
      BY <2>1, <2>3 DEF WorkerOK
    <3>2. b.jobs[q].count \in Nat
      <4>1. b.jobs[q].count \in PageCounts \cup {0}
        BY <1>1 DEF Jobs
      <4> QED
        BY <4>1, CountIsNat
    <3>3. n \in 1 .. b.jobs[q].count
      BY <3>2
    <3>4. j.pages \subseteq 1 .. j.count /\ b.jobs[q].pages \subseteq j.pages /\ j.count = b.jobs[q].count
      BY <1>2, <3>1, <3>3
    <3>5. d.workers[r] = b.workers[q] /\ d.jobs[r] = j
      BY <1>3, <1>6, <2>3
    <3> QED
      BY <2>1, <2>3, <3>4, <3>5 DEF WorkerOK
  <2> QED
    BY <2>2, <2>3
<1>12. Outputs(d)
  <2>1. ASSUME NEW i \in DOMAIN d.loops.ui, d.loops.ui[i].task = "page" PROVE PageOK(d, i)
    <3>1. PageOK(b, i)
      BY <1>3, <1>7, <2>1 DEF Outputs
    <3> QED
      BY <1>3, <1>6, <3>1 DEF PageOK
  <2>2. ASSUME NEW i \in DOMAIN d.loops.ui, d.loops.ui[i].task = "count" PROVE CountOK(d, i)
    <3>1. CountOK(b, i)
      BY <1>3, <1>7, <2>2 DEF Outputs
    <3> QED
      BY <1>3, <3>1 DEF CountOK
  <2> QED
    BY <2>1, <2>2 DEF Outputs
<1>13. Successes(d)
  <2>1. \A r \in Ids : Full(b, r) <=> Full(d, r)
    BY <1>3, <1>6 DEF Full
  <2>2. \A i \in DOMAIN d.loops.ui :
          d.loops.ui[i].task \in {"docDone", "documentDone"} => Full(d, d.loops.ui[i].id)
    BY <1>3, <1>7, <2>1 DEF Successes, OnlyJobs, TaskJobs, JobTasks
  <2>3. \A i \in DOMAIN d.loops.inbox : d.loops.inbox[i].n = 1 => Full(d, d.loops.inbox[i].id)
    BY <1>3, <1>7, <2>1 DEF Successes, OnlyJobs, InboxJobs
  <2> QED
    BY <1>3, <1>7, <2>2, <2>3 DEF Successes
<1>14. Tracked(b) => Tracked(d)
  BY <1>3 DEF Tracked
<1> QED
  BY <1>5, <1>7, <1>8, <1>9, <1>10, <1>11, <1>12, <1>13, <1>14 DEF Consistent, Kept, d

\* A query that waits in the queue is given up.
LEMMA QueryReleased ==
  ASSUME NEW h \in Helpers, NEW u \in Uses, NEW b \in Browsers, Consistent(h, b, u)
  PROVE  LET d == ReleasePrinterQuery(b) IN
         /\ d \in Browsers /\ Consistent(h, d, u) /\ (Tracked(b) => Tracked(d))
         /\ d.tab.job = b.tab.job /\ d.jobs = b.jobs
<1> DEFINE found == {q \in Ids : b.queries[q].at = "queued" /\ b.queries[q].cookie = b.tab.cookie}
           Q == [q \in Ids |-> IF q \in found THEN [b.queries[q] EXCEPT !.at = "released"] ELSE b.queries[q]]
           d == ReleasePrinterQuery(b)
<1>1. CASE b.tab.cookie = 0
  BY <1>1 DEF ReleasePrinterQuery
<1>2. CASE b.tab.cookie # 0
  <2>1. d = [b EXCEPT !.tab.cookie = 0, !.loops.io = @ \cup found, !.queries = Q]
    BY <1>2 DEF ReleasePrinterQuery
  <2>2. b.queries \in [Ids -> Queries] /\ b.tab \in Tabs /\ b.loops \in Queues
    BY DEF Browsers
  <2> HIDE DEF d, Q
  <2>3. /\ d.queries = Q /\ d.jobs = b.jobs /\ d.workers = b.workers
        /\ d.tab = [b.tab EXCEPT !.cookie = 0] /\ d.loops = [b.loops EXCEPT !.io = @ \cup found]
    BY <2>1 DEF Browsers
  <2>4. /\ d.tab \in Tabs /\ d.loops \in Queues /\ d.tab.cookie = 0
        /\ d.tab.number = b.tab.number /\ d.tab.job = b.tab.job /\ d.tab.succeeded = b.tab.succeeded
        /\ d.tab.current = b.tab.current /\ d.tab.left = b.tab.left
        /\ d.tab.flushing = b.tab.flushing /\ d.tab.quit = b.tab.quit
    <3>1. d.tab \in Tabs
      BY <2>2, <2>3 DEF Tabs
    <3>2. d.loops \in Queues
      <4>1. found \subseteq Ids
        OBVIOUS
      <4> HIDE DEF found
      <4> QED
        BY <2>2, <2>3, <4>1 DEF Queues
    <3>3. /\ d.tab.cookie = 0
          /\ d.tab.number = b.tab.number /\ d.tab.job = b.tab.job /\ d.tab.succeeded = b.tab.succeeded
          /\ d.tab.current = b.tab.current /\ d.tab.left = b.tab.left
          /\ d.tab.flushing = b.tab.flushing /\ d.tab.quit = b.tab.quit
      BY <2>2, <2>3 DEF Tabs
    <3> QED
      BY <3>1, <3>2, <3>3
  <2>5. /\ d.loops.ui = b.loops.ui /\ d.loops.inbox = b.loops.inbox /\ d.loops.pool = b.loops.pool
        /\ d.loops.polls = b.loops.polls /\ d.loops.io = b.loops.io \cup found
    BY <2>2, <2>3 DEF Queues
  <2>6. \A q \in Ids : /\ Q[q] \in Queries /\ Q[q].cookie = b.queries[q].cookie
                       /\ q \in found => Q[q].at = "released"
                       /\ q \notin found => Q[q] = b.queries[q]
    BY <2>2 DEF Q, Queries
  <2>7. Q \in [Ids -> Queries]
    BY <2>6 DEF Q
  <2>8. d \in Browsers
    BY <2>1, <2>3, <2>4, <2>7 DEF Browsers
  <2>9. /\ Stacked(h) /\ AskedFor(h, b) /\ Given(h, b, u) /\ Unspent(h, b) /\ Kept(b) /\ OnlyJobs(b)
    BY DEF Consistent, Kept
  <2>10. \A q \in d.loops.io : d.queries[q].at = "released"
    <3>1. \A q \in b.loops.io : q \in Ids /\ b.queries[q].at = "released"
      BY <2>2, <2>9 DEF OnlyJobs, HeldJobs, Queues
    <3> QED
      BY <2>3, <2>5, <2>6, <3>1
  <2>11. /\ 0 \notin Ids /\ b.tab.job \in Ids \cup {0} /\ b.tab.flushing \in Ids \cup {0}
         /\ b.tab.current \cup b.tab.left \cup b.loops.pool \cup b.loops.polls \subseteq Ids
    BY <2>2 DEF Tabs, Queues, Ids
  <2>12. \A q \in Ids : /\ b.queries[q].at = "job" <=> d.queries[q].at = "job"
                        /\ b.queries[q].at = "job" => d.queries[q] = b.queries[q]
    BY <2>3, <2>6
  <2>13. Kept(d) /\ \A c : Printed(d, c) <=> Printed(b, c)
    BY <2>3, <2>4, <2>5, <2>9, <2>10, <2>11, <2>12, QueriesChange
  <2>14. AskedFor(h, d)
    <3>1. ASSUME NEW i \in DOMAIN h.stack PROVE Asks(h.stack[i], d.queries)
      <4> DEFINE f == h.stack[i]
      <4>1. Asks(f, b.queries)
        BY <2>9 DEF AskedFor
      <4>2. CASE f.query # 0 /\ f.query \in Ids
        <5>1. d.queries[f.query].at # "unused"
          BY <2>3, <2>6, <4>1, <4>2 DEF Asks
        <5>2. f.replied => d.queries[f.query].cookie = f.cookie
          BY <2>3, <2>6, <4>1, <4>2 DEF Asks
        <5>3. ~f.replied => d.queries[f.query].at = "asking"
          BY <2>3, <2>6, <4>1, <4>2 DEF Asks
        <5> QED
          BY <4>1, <4>2, <5>1, <5>2, <5>3 DEF Asks
      <4>3. CASE f.query = 0
        BY <4>1, <4>3 DEF Asks
      <4>4. f.query \in Ids \cup {0}
        BY CallsTyped DEF Calls
      <4> QED
        BY <4>2, <4>3, <4>4
    <3>2. \A i, j \in DOMAIN h.stack : i # j => Apart(h.stack[i], h.stack[j])
      BY <2>9 DEF AskedFor
    <3>3. \A r \in Ids : d.queries[r].at \in {"queued", "job"} => d.queries[r].cookie # 0
      BY <2>3, <2>6, <2>9 DEF AskedFor
    <3> QED
      BY <3>1, <3>2, <3>3 DEF AskedFor
  <2>15. Given(h, d, u)
    BY <2>3, <2>4, <2>5, <2>6, <2>9 DEF Given, Uses
  <2>16. Unspent(h, d)
    BY <2>9, <2>13 DEF Unspent
  <2>17. Tracked(b) => Tracked(d)
    BY <2>4 DEF Tracked
  <2> QED
    BY <2>3, <2>4, <2>8, <2>9, <2>13, <2>14, <2>15, <2>16, <2>17 DEF Consistent, d
<1> QED
  BY <1>1, <1>2

\* Messages and tasks are sent to the UI thread.
SentOK(b, u, m, c) ==
  /\ m \in Seq(UITasks)
  /\ Prepares(m, c)
  /\ (\E k \in DOMAIN m : m[k].task = "count") => ~Printed(b, c)
  /\ \A k \in DOMAIN m :
       /\ m[k].task \in JobTasks => m[k].id \in Ids /\ b.queries[m[k].id].at = "job"
       /\ m[k].task \in {"docDone", "documentDone"} => Full(b, m[k].id)
       /\ m[k].task \in {"cookie", "count", "page", "failed"} => m[k].id <= u.cookies

\* Another queue of the UI thread, and nothing else.
LEMMA QueueIs ==
  ASSUME NEW b \in Browsers, NEW v \in Seq(UITasks)
  PROVE  LET d == [b EXCEPT !.loops.ui = v] IN
         /\ d \in Browsers
         /\ d.queries = b.queries /\ d.tab = b.tab /\ d.jobs = b.jobs /\ d.workers = b.workers
         /\ d.loops.ui = v
         /\ d.loops.inbox = b.loops.inbox /\ d.loops.io = b.loops.io
         /\ d.loops.pool = b.loops.pool /\ d.loops.polls = b.loops.polls
<1> DEFINE d == [b EXCEPT !.loops.ui = v]
<1>1. /\ d.queries = b.queries /\ d.tab = b.tab /\ d.jobs = b.jobs /\ d.workers = b.workers
      /\ d.loops = [b.loops EXCEPT !.ui = v]
  BY DEF Browsers
<1>2. b.loops \in Queues
  BY DEF Browsers
<1>3. d.loops \in Queues /\ d.loops.ui = v
  BY <1>1, <1>2 DEF Queues
<1>4. /\ d.loops.inbox = b.loops.inbox /\ d.loops.io = b.loops.io
      /\ d.loops.pool = b.loops.pool /\ d.loops.polls = b.loops.polls
  BY <1>1, <1>2 DEF Queues
<1>5. d \in Browsers
  BY <1>1, <1>3 DEF Browsers
<1> QED
  BY <1>1, <1>3, <1>4, <1>5

Sends(b, d, m) ==
  /\ d.queries = b.queries /\ d.tab = b.tab /\ d.jobs = b.jobs /\ d.workers = b.workers
  /\ d.loops.ui = b.loops.ui \o m
  /\ d.loops.inbox = b.loops.inbox /\ d.loops.io = b.loops.io
  /\ d.loops.pool = b.loops.pool /\ d.loops.polls = b.loops.polls
Counts(m) == \E k \in DOMAIN m : m[k].task = "count"
QueueGiven(b, u) ==
  \A i \in DOMAIN b.loops.ui :
    b.loops.ui[i].task \in {"cookie", "count", "page", "failed"} => b.loops.ui[i].id <= u.cookies

\* Sending tasks that say what is so keeps what the browser keeps, and prints at most what they print.
LEMMA SentKept ==
  ASSUME NEW u, NEW b \in Browsers, Kept(b), NEW c, NEW m, SentOK(b, u, m, c), NEW d, Sends(b, d, m)
  PROVE  /\ Kept(d)
         /\ \A x : Printed(d, x) => Printed(b, x) \/ (x = c /\ Counts(m))
         /\ QueueGiven(b, u) => QueueGiven(d, u)
<1>0. /\ d.queries = b.queries /\ d.tab = b.tab /\ d.jobs = b.jobs /\ d.workers = b.workers
      /\ d.loops.ui = b.loops.ui \o m
      /\ d.loops.inbox = b.loops.inbox /\ d.loops.io = b.loops.io
      /\ d.loops.pool = b.loops.pool /\ d.loops.polls = b.loops.polls
  BY DEF Sends
<1> DEFINE s == b.loops.ui
           t == d.loops.ui
<1>1. s \in Seq(UITasks) /\ m \in Seq(UITasks)
  BY DEF Browsers, Queues, SentOK
<1>6. /\ Len(s) \in Nat
      /\ \A i \in DOMAIN s : i \in DOMAIN t /\ t[i] = s[i]
      /\ \A k \in DOMAIN m : Len(s) + k \in DOMAIN t /\ t[Len(s) + k] = m[k]
      /\ \A i \in DOMAIN t : i \in DOMAIN s \/ (i - Len(s) \in DOMAIN m /\ i = Len(s) + (i - Len(s)))
  <2>1. t = s \o m
    BY <1>0
  <2> HIDE DEF s, t
  <2> QED
    BY <1>1, <2>1, ConcatIs
<1>7. \A i \in DOMAIN t : \/ i \in DOMAIN s /\ t[i] = s[i]
                          \/ \E k \in DOMAIN m : t[i] = m[k]
  BY <1>6
<1>8. OnlyJobs(b) /\ WorkersOK(b) /\ Outputs(b) /\ Successes(b)
  BY DEF Kept
<1> HIDE DEF s, t
<1>9. OnlyJobs(d)
  <2>1. \A i \in DOMAIN t : t[i].task \in JobTasks => t[i].id \in Ids /\ d.queries[t[i].id].at = "job"
    BY <1>0, <1>7, <1>8 DEF OnlyJobs, TaskJobs, SentOK, s
  <2>2. \A i \in DOMAIN d.loops.inbox : d.loops.inbox[i].n = 1 =>
          d.loops.inbox[i].id \in Ids /\ d.queries[d.loops.inbox[i].id].at = "job"
    BY <1>0, <1>8 DEF OnlyJobs, InboxJobs
  <2>3. \A r \in Ids : d.queries[r].at # "job" =>
          /\ d.jobs[r] = NewJob
          /\ d.workers[r].tasks = <<>> /\ ~d.workers[r].doc /\ d.workers[r].page = 0
          /\ ~d.workers[r].looping /\ ~d.workers[r].retry /\ d.workers[r].spooled = <<>>
    BY <1>0, <1>8 DEF OnlyJobs, IdleQueries
  <2>4. /\ \A q \in d.tab.current \cup d.tab.left \cup d.loops.pool \cup d.loops.polls :
             d.queries[q].at = "job"
        /\ d.tab.flushing # 0 => d.queries[d.tab.flushing].at = "job"
        /\ d.tab.job # 0 => d.queries[d.tab.job].at = "job"
        /\ \A q \in d.loops.io : d.queries[q].at = "released"
    BY <1>0, <1>8 DEF OnlyJobs, HeldJobs
  <2> QED
    BY <1>0, <2>1, <2>2, <2>3, <2>4 DEF OnlyJobs, HeldJobs, TaskJobs, InboxJobs, IdleQueries, t
<1>10. WorkersOK(d)
  BY <1>0, <1>8 DEF WorkersOK
<1>11. Outputs(d)
  <2>1. Prepares(m, c) /\ ((\E k \in DOMAIN m : m[k].task = "count") => ~Printed(b, c))
    BY <1>0 DEF SentOK
  <2> QED
    BY <1>0, <1>1, <1>8, <2>1, OutputsSent DEF s
<1>12. Successes(d)
  <2>1. \A r : Full(b, r) <=> Full(d, r)
    BY <1>0 DEF Full
  <2>2. \A i \in DOMAIN t : t[i].task \in {"docDone", "documentDone"} => Full(d, t[i].id)
    BY <1>0, <1>7, <1>8, <2>1 DEF Successes, SentOK, s
  <2>3. \A i \in DOMAIN d.loops.inbox : d.loops.inbox[i].n = 1 => Full(d, d.loops.inbox[i].id)
    BY <1>0, <1>8, <2>1 DEF Successes
  <2> QED
    BY <1>0, <1>8, <2>2, <2>3 DEF Successes, t
<1>13. ASSUME NEW x, Printed(d, x)
       PROVE  Printed(b, x) \/ (x = c /\ \E k \in DOMAIN m : m[k].task = "count")
  <2>1. CASE \E i \in DOMAIN t : Prints(t[i], x)
    <3>1. PICK i \in DOMAIN t : Prints(t[i], x)
      BY <1>0, <2>1
    <3>2. CASE i \in DOMAIN s /\ t[i] = s[i]
      BY <1>0, <3>1, <3>2 DEF Printed, s
    <3>3. CASE \E k \in DOMAIN m : t[i] = m[k]
      <4>1. PICK k \in DOMAIN m : t[i] = m[k]
        BY <1>0, <3>3
      <4>2. m[k].task \in {"count", "page"} /\ m[k].id = x
        BY <1>0, <3>1, <4>1 DEF Prints
      <4>3. m[k].id = c /\ \E l \in DOMAIN m : m[l].task = "count"
        BY <1>0, <4>2 DEF SentOK, Prepares
      <4> QED
        BY <1>0, <4>2, <4>3
    <3> QED
      BY <1>0, <1>7, <3>2, <3>3
  <2>2. CASE \E q \in Ids : d.queries[q].at = "job" /\ d.queries[q].cookie = x
    BY <1>0, <2>2 DEF Printed
  <2> QED
    BY <1>0, <1>13, <2>1, <2>2 DEF Printed, t
<1>14. ASSUME \A i \in DOMAIN s : s[i].task \in {"cookie", "count", "page", "failed"} => s[i].id <= u.cookies
       PROVE  \A i \in DOMAIN t : t[i].task \in {"cookie", "count", "page", "failed"} => t[i].id <= u.cookies
  BY <1>0, <1>7, <1>14 DEF SentOK
<1> QED
  BY <1>9, <1>10, <1>11, <1>12, <1>13, <1>14 DEF Kept, QueueGiven, Counts, s, t

\* A task that is no output.
LEMMA OneSent ==
  ASSUME NEW b, NEW u, NEW t \in UITasks, t.task \notin {"count", "page"},
         t.task \in JobTasks => t.id \in Ids /\ b.queries[t.id].at = "job",
         t.task \in {"docDone", "documentDone"} => Full(b, t.id),
         t.task \in {"cookie", "failed"} => t.id <= u.cookies
  PROVE  \A c : SentOK(b, u, <<t>>, c)
<1> TAKE c
<1> DEFINE m == <<t>>
<1>1. m \in Seq(UITasks) /\ \A k \in DOMAIN m : m[k] = t
  OBVIOUS
<1> HIDE DEF m
<1>2. Prepares(m, c)
  BY <1>1 DEF Prepares
<1> QED
  BY <1>1, <1>2 DEF SentOK, m

\* Sending one task that is no output keeps the invariant.
LEMMA SentConsistent ==
  ASSUME NEW h, NEW u, NEW b \in Browsers, Consistent(h, b, u), Tracked(b), NEW t \in UITasks,
         t.task \notin {"count", "page"},
         t.task \in JobTasks => t.id \in Ids /\ b.queries[t.id].at = "job",
         t.task \in {"docDone", "documentDone"} => Full(b, t.id),
         t.task \in {"cookie", "failed"} => t.id <= u.cookies
  PROVE  LET d == [b EXCEPT !.loops.ui = Append(@, t)] IN
         d \in Browsers /\ Consistent(h, d, u) /\ Tracked(d)
<1> DEFINE m == <<t>>
           v == Append(b.loops.ui, t)
<1>1. SentOK(b, u, m, 0)
  BY OneSent
<1>2. ~Counts(m)
  BY DEF Counts
<1>3. v \in Seq(UITasks) /\ v = b.loops.ui \o m
  BY DEF Browsers, Queues
<1> HIDE DEF m, v
<1>4. PICK e : e = [b EXCEPT !.loops.ui = v]
  OBVIOUS
<1>5. Kept(b)
  BY DEF Consistent
<1>6. e \in Browsers /\ Sends(b, e, m)
  BY <1>3, <1>4, QueueIs DEF Sends
<1>7. /\ Kept(e)
      /\ \A x : Printed(e, x) => Printed(b, x) \/ (x = 0 /\ Counts(m))
      /\ QueueGiven(b, u) => QueueGiven(e, u)
  BY <1>1, <1>5, <1>6, SentKept
<1>8. AskedFor(h, e) /\ Given(h, e, u) /\ Unspent(h, e)
  BY <1>2, <1>6, <1>7 DEF Consistent, AskedFor, Given, QueueGiven, Unspent, Sends
<1>9. Tracked(e)
  BY <1>6 DEF Tracked, Sends
<1>10. [b EXCEPT !.loops.ui = Append(@, t)] = e
  BY <1>4 DEF v
<1> QED
  BY <1>6, <1>7, <1>8, <1>9, <1>10 DEF Consistent

\* The tab notes a success.
LEMMA SucceededTab ==
  ASSUME NEW t \in Tabs
  PROVE  LET v == [t EXCEPT !.succeeded = TRUE] IN
         /\ v \in Tabs
         /\ v.cookie = t.cookie /\ v.number = t.number /\ v.job = t.job /\ v.current = t.current
         /\ v.quit = t.quit /\ v.left = t.left /\ v.flushing = t.flushing
<1> DEFINE v == [t EXCEPT !.succeeded = TRUE]
<1>1. v \in Tabs
  BY DEF Tabs
<1>2. /\ v.cookie = t.cookie /\ v.number = t.number /\ v.job = t.job /\ v.current = t.current
      /\ v.quit = t.quit /\ v.left = t.left /\ v.flushing = t.flushing
  BY DEF Tabs
<1> QED
  BY <1>1, <1>2

\* A job may be released as a success when its worker has put out every page.
LEMMA ReleaseSucceeded ==
  ASSUME NEW h, NEW u, NEW b \in Browsers, Consistent(h, b, u), b.tab.job # 0, Full(b, b.tab.job),
         helper.alive \in BOOLEAN
  PROVE  LET d == ReleasePrintJob([b EXCEPT !.tab.succeeded = TRUE]) IN
         d \in Browsers /\ Consistent(h, d, u) /\ Tracked(d)
<1> DEFINE e == [b EXCEPT !.tab.succeeded = TRUE]
           d == ReleasePrintJob(e)
<1>1. b.tab \in Tabs
  BY DEF Browsers
<1>2. /\ e.queries = b.queries /\ e.jobs = b.jobs /\ e.workers = b.workers /\ e.loops = b.loops
      /\ e.tab = [b.tab EXCEPT !.succeeded = TRUE]
  BY DEF Browsers
<1>3. /\ e.tab \in Tabs
      /\ e.tab.cookie = b.tab.cookie /\ e.tab.number = b.tab.number
      /\ e.tab.job = b.tab.job /\ e.tab.current = b.tab.current
      /\ e.tab.quit = b.tab.quit /\ e.tab.left = b.tab.left /\ e.tab.flushing = b.tab.flushing
  BY <1>1, <1>2, SucceededTab
<1>4. e \in Browsers
  BY <1>2, <1>3 DEF Browsers
<1> HIDE DEF e
<1>5. Winds(e, d) /\ d.tab.job = 0
  BY <1>4, ReleaseWinds
<1> HIDE DEF d
<1>6. /\ Stacked(h) /\ AskedFor(h, b) /\ Given(h, b, u) /\ Unspent(h, b)
      /\ OnlyJobs(b) /\ WorkersOK(b) /\ Outputs(b) /\ Successes(b)
  BY DEF Consistent, Kept
<1>7. OnlyJobs(e)
  BY <1>2, <1>3, <1>6, OnlyJobsBy
<1>8. WorkersOK(e)
  BY <1>2, <1>6 DEF WorkersOK
<1>9. Outputs(e)
  <2>1. ASSUME NEW i \in DOMAIN e.loops.ui, e.loops.ui[i].task = "page" PROVE PageOK(e, i)
    <3>1. PageOK(b, i)
      BY <1>2, <1>6, <2>1 DEF Outputs
    <3> QED
      BY <1>2, <1>3, <3>1 DEF PageOK
  <2>2. ASSUME NEW i \in DOMAIN e.loops.ui, e.loops.ui[i].task = "count" PROVE CountOK(e, i)
    <3>1. CountOK(b, i)
      BY <1>2, <1>6, <2>2 DEF Outputs
    <3> QED
      BY <1>2, <3>1 DEF CountOK
  <2> QED
    BY <2>1, <2>2 DEF Outputs
<1>10. OnlyJobs(d) /\ WorkersOK(d) /\ Outputs(d)
  BY <1>4, <1>5, <1>7, <1>8, <1>9, WindsJobs, WindsWorkers, WindsOutputs
<1>11. Successes(d)
  <2>1. \A q \in Ids : Full(b, q) <=> Full(d, q)
    BY <1>2, <1>5 DEF Winds, Tells, Full
  <2>2. \A i \in DOMAIN d.loops.ui :
          d.loops.ui[i].task \in {"docDone", "documentDone"} => Full(d, d.loops.ui[i].id)
    <3> TAKE i \in DOMAIN d.loops.ui
    <3>1. d.loops.ui = b.loops.ui
      BY <1>2, <1>5 DEF Winds
    <3>2. b.loops.ui[i].task \in JobTasks => b.loops.ui[i].id \in Ids
      BY <1>6, <3>1 DEF OnlyJobs, TaskJobs
    <3>3. b.loops.ui[i].task \in {"docDone", "documentDone"} => Full(b, b.loops.ui[i].id)
      BY <1>6, <3>1 DEF Successes
    <3> QED
      BY <2>1, <3>1, <3>2, <3>3 DEF JobTasks
  <2>3. ASSUME NEW i \in DOMAIN d.loops.inbox, d.loops.inbox[i].n = 1
        PROVE  Full(d, d.loops.inbox[i].id)
    <3>1. \/ \E j \in DOMAIN e.loops.inbox : e.loops.inbox[j] = d.loops.inbox[i]
          \/ d.loops.inbox[i].id = e.tab.job
      BY <1>5, <2>3 DEF Winds
    <3>2. d.loops.inbox[i].id \in Ids
      BY <1>10, <2>3 DEF OnlyJobs, InboxJobs
    <3>3. Full(b, d.loops.inbox[i].id)
      BY <1>2, <1>3, <1>6, <2>3, <3>1 DEF Successes
    <3> QED
      BY <2>1, <3>2, <3>3
  <2> QED
    BY <1>5, <2>2, <2>3 DEF Successes
<1>12. d.queries = b.queries /\ d.loops.ui = b.loops.ui /\ d.tab.cookie = b.tab.cookie /\ d \in Browsers
  BY <1>2, <1>3, <1>5 DEF Winds
<1>13. AskedFor(h, d) /\ Given(h, d, u) /\ Unspent(h, d)
  BY <1>6, <1>12 DEF AskedFor, Given, Unspent, Printed
<1>14. Tracked(d)
  BY <1>5 DEF Tracked
<1> QED
  BY <1>6, <1>10, <1>11, <1>12, <1>13, <1>14 DEF Consistent, Kept, d, e

\* OnDocumentDone keeps the invariant, for a job whose worker has put out every page.
LEMMA DocumentDone ==
  ASSUME NEW h, NEW u, NEW b \in Browsers, Consistent(h, b, u), Tracked(b),
         NEW q \in Ids, b.queries[q].at = "job", Full(b, q), helper.alive \in BOOLEAN
  PROVE  LET d == OnDocumentDone(b, q) IN
         d \in Browsers /\ Consistent(h, d, u) /\ Tracked(d)
<1> DEFINE e == Stop(b, q)
           f == Untrack(e, q)
           d == OnDocumentDone(b, q)
<1>1. Winds(b, e) /\ e.tab = b.tab
  BY StopWinds
<1> HIDE DEF e
<1>2. e \in Browsers
  BY <1>1 DEF Winds
<1>3. Winds(e, f) /\ f.tab.job = e.tab.job /\ f.tab.current = e.tab.current \ {q}
  BY <1>2, UntrackWinds
<1>4. d = IF b.tab.job = q THEN ReleasePrintJob([f EXCEPT !.tab.succeeded = TRUE]) ELSE f
  BY DEF OnDocumentDone, e
<1> HIDE DEF f, d
<1>9. Winds(b, f)
  BY <1>1, <1>3, WindsTwice
<1>5. Winds(b, f) /\ f \in Browsers
  BY <1>9 DEF Winds
<1>6. Consistent(h, f, u)
  BY <1>5, WindsConsistent
<1>7. CASE b.tab.job = q
  <2>1. f.tab.job = q /\ q # 0
    BY <1>1, <1>3, <1>7 DEF Ids
  <2>2. Full(f, q)
    BY <1>5 DEF Winds, Tells, Full
  <2> QED
    BY <1>4, <1>5, <1>6, <1>7, <2>1, <2>2, ReleaseSucceeded DEF d
<1>8. CASE b.tab.job # q
  <2>1. Tracked(f)
    BY <1>1, <1>3, <1>5, <1>8 DEF Tracked, Winds
  <2> QED
    BY <1>4, <1>5, <1>6, <1>8, <2>1 DEF d
<1> QED
  BY <1>7, <1>8

\* RenderProcessGone keeps the invariant.
LEMMA RendererGone ==
  ASSUME NEW h \in Helpers, NEW u \in Uses, NEW b \in Browsers, Consistent(h, b, u), Tracked(b),
         helper.alive \in BOOLEAN
  PROVE  LET d == RenderProcessGone(b) IN
         d \in Browsers /\ Consistent(h, d, u) /\ Tracked(d)
<1> DEFINE c == ReleasePrinterQuery(b)
           d == RenderProcessGone(b)
           e == TerminatePrintJob(c, ~Complete(c.jobs[c.tab.job]))
<1>1. c \in Browsers /\ Consistent(h, c, u) /\ Tracked(c)
  BY QueryReleased
<1>2. d = IF c.tab.job = 0 \/ ~c.jobs[c.tab.job].doc THEN c ELSE e
  BY DEF RenderProcessGone
<1> HIDE DEF c, d
<1>3. c.tab.job # 0 => c.queries[c.tab.job].at = "job"
  BY <1>1 DEF Consistent, Kept, OnlyJobs, HeldJobs, TaskJobs, InboxJobs, IdleQueries
<1>4. Winds(c, e) /\ e.tab.job = 0
  BY <1>1, <1>3, TerminateWinds
<1> HIDE DEF e
<1>5. e \in Browsers /\ Consistent(h, e, u) /\ Tracked(e)
  BY <1>1, <1>4, WindsConsistent DEF Winds, Tracked
<1> QED
  BY <1>1, <1>2, <1>5 DEF d

\* A FAILED keeps the invariant.
LEMMA JobFails ==
  ASSUME NEW h, NEW u, NEW b \in Browsers, Consistent(h, b, u), Tracked(b),
         NEW q \in Ids, b.queries[q].at = "job", helper.alive \in BOOLEAN
  PROVE  LET d == OnFailed(b, q) IN
         d \in Browsers /\ Consistent(h, d, u) /\ Tracked(d)
<1> DEFINE d == OnFailed(b, q)
<1>1. /\ Winds(b, d)
      /\ d.tab.job = IF b.tab.job = q THEN 0 ELSE b.tab.job
      /\ b.tab.job # q => d.tab.current = b.tab.current \ {q}
  BY FailedWinds
<1> HIDE DEF d
<1>2. d \in Browsers /\ Consistent(h, d, u)
  BY <1>1, WindsConsistent DEF Winds
<1>3. Tracked(d)
  BY <1>1 DEF Tracked, Winds
<1> QED
  BY <1>2, <1>3 DEF d

\* OnDidPrintPage keeps the invariant: the page is one of its job's.
LEMMA CountArrives ==
  ASSUME NEW h, NEW u, NEW b \in Browsers, Consistent(h, b, u), Tracked(b), NEW c, b.tab.number # 0,
         c # 0 => h.prep # c /\ \A i \in DOMAIN h.stack : h.stack[i].cookie # c,
         \A i \in DOMAIN b.loops.ui : b.loops.ui[i].task = "count" => b.loops.ui[i].id # c,
         NEW n \in Nat, n # 0, n <= b.tab.number,
         \A q \in Ids : b.queries[q].at = "job" /\ b.queries[q].cookie = c => n <= b.jobs[q].count
  PROVE  LET d == OnDidPrintPage(b, c, n) IN
         d \in Browsers /\ Consistent(h, d, u) /\ Tracked(d)
<1> DEFINE e == OpportunisticallyCreatePrintJob(b, c)
           q == e.tab.job
           f == [e EXCEPT !.jobs[q].pages = @ \cup {n}]
           d == OnDidPrintPage(b, c, n)
<1>1. /\ e \in Browsers /\ Consistent(h, e, u) /\ Tracked(e)
      /\ e.tab.number = b.tab.number
      /\ \A r \in Ids : e.queries[r].at = "job" =>
           \/ e.jobs[r].count = b.tab.number
           \/ /\ b.queries[r].at = "job" /\ b.queries[r].cookie = e.queries[r].cookie
              /\ e.jobs[r].count = b.jobs[r].count
  BY CreateJob
<1>2. d = IF e.tab.job # 0 /\ e.jobs[e.tab.job].doc /\ e.queries[e.tab.job].cookie = c THEN f ELSE e
  BY DEF OnDidPrintPage
<1> HIDE DEF e, d
<1>3. CASE ~(e.tab.job # 0 /\ e.jobs[e.tab.job].doc /\ e.queries[e.tab.job].cookie = c)
  BY <1>1, <1>2, <1>3 DEF d
<1>4. CASE e.tab.job # 0 /\ e.jobs[e.tab.job].doc /\ e.queries[e.tab.job].cookie = c
  <2>1. q \in Ids
    BY <1>1, <1>4 DEF Browsers, Tabs
  <2>2. e.queries[q].at = "job"
    BY <1>1, <1>4 DEF Consistent, Kept, OnlyJobs, HeldJobs, TaskJobs, InboxJobs, IdleQueries
  <2>3. n <= e.jobs[q].count
    BY <1>1, <1>4, <2>1, <2>2
  <2> HIDE DEF q
  <2>4. f \in Browsers /\ Consistent(h, f, u) /\ Tracked(f)
    BY <1>1, <2>1, <2>2, <2>3, PageArrives
  <2> QED
    BY <1>2, <1>4, <2>4 DEF d
<1> QED
  BY <1>3, <1>4

\* What the UI thread does with a task.
LEMMA HandleKeeps ==
  ASSUME NEW h \in Helpers, NEW u \in Uses, NEW b \in Browsers, Consistent(h, b, u), Tracked(b),
         b.loops.ui # <<>>, helper.alive \in BOOLEAN
  PROVE  LET d == Handle([b EXCEPT !.loops.ui = Tail(@)], Head(b.loops.ui)) IN
         d \in Browsers /\ Consistent(h, d, u) /\ Tracked(d)
<1> DEFINE t == Head(b.loops.ui)
           v == Tail(b.loops.ui)
           e == [b EXCEPT !.loops.ui = v]
           d == Handle([b EXCEPT !.loops.ui = Tail(@)], Head(b.loops.ui))
<1>1. TaskOK(h, b, u, t)
  BY TaskFacts
<1>2. v \in Seq(UITasks)
  <2>1. b.loops.ui \in Seq(UITasks)
    BY DEF Browsers, Queues
  <2> QED
    BY <2>1, TailIs
<1>3. d = Handle(e, t)
  OBVIOUS
<1> HIDE DEF v, t
<1>4. /\ e \in Browsers
      /\ e.queries = b.queries /\ e.tab = b.tab /\ e.jobs = b.jobs /\ e.workers = b.workers
      /\ e.loops.ui = v
      /\ e.loops.inbox = b.loops.inbox /\ e.loops.io = b.loops.io
      /\ e.loops.pool = b.loops.pool /\ e.loops.polls = b.loops.polls
  BY <1>2, QueueIs
<1> HIDE DEF e, d
<1>5. t \in UITasks /\ t.task \in TaskNames /\ t.id \in Nat /\ t.n \in Nat
  BY <1>1 DEF TaskOK, UITasks
<1>6. b.tab \in Tabs
  BY DEF Browsers
<1>7. t.task \notin {"cookie", "count"} => Consistent(h, e, u) /\ Tracked(e)
  <2>1. t.task \notin {"cookie", "count"} => Consistent(h, e, u)
    BY <1>4, TaskTaken DEF t, v
  <2> QED
    BY <1>4, <2>1 DEF Tracked
<1>8. CASE t.task = "cookie"
  <2> DEFINE f == [e EXCEPT !.tab.cookie = t.id]
  <2>1. d = f
    BY <1>3, <1>8 DEF Handle
  <2>2. /\ f.queries = b.queries /\ f.jobs = b.jobs /\ f.workers = b.workers /\ f.loops = e.loops
        /\ f.tab = [b.tab EXCEPT !.cookie = t.id]
    BY <1>4 DEF Browsers
  <2>3. f.tab \in Tabs
    BY <1>5, <1>6, <2>2 DEF Tabs
  <2>4. /\ f.tab.cookie = t.id /\ f.tab.number = b.tab.number /\ f.tab.succeeded = b.tab.succeeded
        /\ f.tab.job = b.tab.job /\ f.tab.current = b.tab.current
        /\ f.tab.quit = b.tab.quit /\ f.tab.left = b.tab.left /\ f.tab.flushing = b.tab.flushing
    BY <1>6, <2>2 DEF Tabs
  <2>5. f \in Browsers
    BY <1>4, <2>2, <2>3 DEF Browsers
  <2> HIDE DEF f
  <2>6. Consistent(h, f, u)
    BY <1>4, <1>8, <2>2, <2>4, TaskTaken DEF t, v
  <2>7. Tracked(f)
    BY <2>4 DEF Tracked
  <2> QED
    BY <2>1, <2>5, <2>6, <2>7 DEF d
<1>9. CASE t.task = "count"
  <2> DEFINE f == [e EXCEPT !.tab.number = t.n]
  <2>1. d = OpportunisticallyCreatePrintJob(f, t.id)
    BY <1>3, <1>9 DEF Handle, OnDidGetPrintedPagesCount
  <2>2. /\ f.queries = b.queries /\ f.jobs = b.jobs /\ f.workers = b.workers /\ f.loops = e.loops
        /\ f.tab = [b.tab EXCEPT !.number = t.n]
    BY <1>4 DEF Browsers
  <2>10. t.n \in PageCounts /\ t.n # 0
    BY <1>1, <1>9 DEF TaskOK
  <2>3. f.tab \in Tabs
    BY <2>10, <1>6, <2>2 DEF Tabs
  <2>4. /\ f.tab.cookie = b.tab.cookie /\ f.tab.number = t.n /\ f.tab.succeeded = b.tab.succeeded
        /\ f.tab.job = b.tab.job /\ f.tab.current = b.tab.current
        /\ f.tab.quit = b.tab.quit /\ f.tab.left = b.tab.left /\ f.tab.flushing = b.tab.flushing
    BY <1>6, <2>2 DEF Tabs
  <2>5. f \in Browsers
    BY <1>4, <2>2, <2>3 DEF Browsers
  <2> HIDE DEF f
  <2>6. Consistent(h, f, u)
    BY <1>4, <1>9, <2>2, <2>4, TaskTaken DEF t, v
  <2>7. Tracked(f)
    BY <2>4 DEF Tracked
  <2>8. /\ t.id # 0 => h.prep # t.id /\ \A i \in DOMAIN h.stack : h.stack[i].cookie # t.id
        /\ \A i \in DOMAIN f.loops.ui : f.loops.ui[i].task = "count" => f.loops.ui[i].id # t.id
    <3>1. f.loops.ui = Tail(b.loops.ui)
      BY <1>4, <2>2 DEF v
    <3>2. /\ t.id # 0 => h.prep # t.id /\ \A i \in DOMAIN h.stack : h.stack[i].cookie # t.id
          /\ \A i \in DOMAIN Tail(b.loops.ui) :
               Tail(b.loops.ui)[i].task = "count" => Tail(b.loops.ui)[i].id # t.id
      BY <1>1, <1>9 DEF TaskOK
    <3> QED
      BY <3>1, <3>2
  <2>9. f.tab.number # 0
    BY <2>4, <2>10
  <2> QED
    BY <2>1, <2>5, <2>6, <2>7, <2>8, <2>9, CreateJob DEF d
<1>10. CASE t.task = "page"
  <2>1. d = OnDidPrintPage(e, t.id, t.n)
    BY <1>3, <1>10 DEF Handle
  <2>2. /\ t.id # 0 => h.prep # t.id /\ \A i \in DOMAIN h.stack : h.stack[i].cookie # t.id
        /\ \A i \in DOMAIN e.loops.ui : e.loops.ui[i].task = "count" => e.loops.ui[i].id # t.id
    BY <1>1, <1>4, <1>10 DEF TaskOK, v
  <2>3. /\ t.n # 0 /\ t.n <= e.tab.number
        /\ \A q \in Ids : e.queries[q].at = "job" /\ e.queries[q].cookie = t.id => t.n <= e.jobs[q].count
    BY <1>1, <1>4, <1>10 DEF TaskOK
  <2>4. e.tab.number # 0
    <3>1. e.tab.number \in PageCounts \cup {0}
      BY <1>4, <1>6 DEF Tabs
    <3>2. e.tab.number \in Nat
      BY <3>1, CountIsNat
    <3> QED
      BY <1>5, <2>3, <3>2
  <2> QED
    BY <1>4, <1>5, <1>7, <1>10, <2>1, <2>2, <2>3, <2>4, CountArrives DEF d
<1>11. CASE t.task = "failed"
  <2>1. d = IF t.id = e.tab.cookie THEN ReleasePrinterQuery(e) ELSE e
    BY <1>3, <1>11 DEF Handle, OnPrintingFailed
  <2> QED
    BY <1>4, <1>7, <1>11, <2>1, QueryReleased DEF d
<1>12. CASE t.task = "gone"
  <2>1. d = RenderProcessGone(e)
    BY <1>3, <1>12 DEF Handle
  <2> QED
    BY <1>4, <1>7, <1>12, <2>1, RendererGone DEF d
<1>13. t.task \in JobTasks => t.id \in Ids /\ e.queries[t.id].at = "job"
  BY <1>1, <1>4 DEF TaskOK
<1>14. t.task \in {"docDone", "documentDone"} => Full(e, t.id)
  BY <1>1, <1>4 DEF TaskOK, Full
<1>15. CASE t.task = "jobFailed"
  <2>1. d = OnFailed(e, t.id)
    BY <1>3, <1>15 DEF Handle
  <2> QED
    BY <1>4, <1>7, <1>13, <1>15, <2>1, JobFails DEF d, JobTasks
<1>16. CASE t.task = "documentDone"
  <2>1. d = OnDocumentDone(e, t.id)
    BY <1>3, <1>16 DEF Handle
  <2> QED
    BY <1>4, <1>7, <1>13, <1>14, <1>16, <2>1, DocumentDone DEF d, JobTasks
<1>17. CASE t.task = "docDone"
  <2> DEFINE s == Task("documentDone", t.id, 0)
  <2>1. d = IF e.jobs[t.id].listens THEN [e EXCEPT !.loops.ui = Append(@, s)] ELSE e
    BY <1>3, <1>17 DEF Handle, OnDocDone
  <2>2. s \in UITasks /\ s.task = "documentDone" /\ s.id = t.id
    BY <1>5 DEF Task, UITasks, TaskNames
  <2> HIDE DEF s
  <2>3. t.id \in Ids /\ e.queries[t.id].at = "job" /\ Full(e, t.id)
    BY <1>13, <1>14, <1>17 DEF JobTasks
  <2>4. LET f == [e EXCEPT !.loops.ui = Append(@, s)] IN
        f \in Browsers /\ Consistent(h, f, u) /\ Tracked(f)
    BY <1>4, <1>7, <1>17, <2>2, <2>3, SentConsistent
  <2> QED
    BY <1>4, <1>7, <1>17, <2>1, <2>4 DEF d
<1> QED
  BY <1>5, <1>8, <1>9, <1>10, <1>11, <1>12, <1>15, <1>16, <1>17 DEF TaskNames

\* The inductive invariant.
IInv == /\ helper \in Helpers /\ Browser \in Browsers /\ used \in Uses
        /\ Consistent(helper, Browser, used) /\ Tracked(Browser)

\* The browser becomes what the task makes of it.
LEMMA BecomesIs ==
  ASSUME NEW d \in Browsers, Becomes(d)
  PROVE  Browser' = d
BY DEF Becomes, Browser, Browsers

\* A step of the UI thread alone keeps the invariant when its result has it.
LEMMA BecomesKeeps ==
  ASSUME NEW d \in Browsers, Becomes(d), UNCHANGED <<helper, used>>, helper \in Helpers, used \in Uses,
         Consistent(helper, d, used), Tracked(d)
  PROVE  IInv'
<1>1. Browser' = d
  BY BecomesIs
<1> QED
  BY <1>1 DEF IInv

\* Quitting moves jobs between the tab's sets, and the invariant does not mind.
LEMMA TabMoves ==
  ASSUME NEW h, NEW u, NEW b, NEW d, Consistent(h, b, u),
         d.queries = b.queries, d.jobs = b.jobs, d.workers = b.workers, d.loops = b.loops,
         d.tab.cookie = b.tab.cookie, d.tab.number = b.tab.number, d.tab.job = b.tab.job,
         d.tab.succeeded = b.tab.succeeded,
         d.tab.current \cup d.tab.left \subseteq b.tab.current \cup b.tab.left,
         d.tab.flushing \in {0, b.tab.flushing} \cup b.tab.left
  PROVE  Consistent(h, d, u)
<1>1. /\ Stacked(h) /\ AskedFor(h, b) /\ Given(h, b, u) /\ Unspent(h, b)
      /\ OnlyJobs(b) /\ WorkersOK(b) /\ Outputs(b) /\ Successes(b)
  BY DEF Consistent, Kept
<1>2. AskedFor(h, d) /\ Given(h, d, u) /\ Unspent(h, d)
  BY <1>1 DEF AskedFor, Given, Unspent, Printed
<1>3. OnlyJobs(d)
  BY <1>1, OnlyJobsBy
<1>4. WorkersOK(d) /\ Successes(d)
  BY <1>1 DEF WorkersOK, Successes, Full
<1>5. Outputs(d)
  <2>1. \A i : PageOK(b, i) => PageOK(d, i)
    BY DEF PageOK
  <2>2. \A i : CountOK(b, i) => CountOK(d, i)
    BY DEF CountOK
  <2> QED
    BY <1>1, <2>1, <2>2 DEF Outputs
<1> QED
  BY <1>1, <1>2, <1>3, <1>4, <1>5 DEF Consistent, Kept

\* Every task of the UI thread keeps the invariant.
LEMMA UITaskKeeps == IInv /\ UITask => IInv'
<1> SUFFICES ASSUME IInv, UITask PROVE IInv'
  OBVIOUS
<1> DEFINE d == Handle([Browser EXCEPT !.loops.ui = Tail(@)], Head(Browser.loops.ui))
<1>1. /\ helper \in Helpers /\ Browser \in Browsers /\ used \in Uses
      /\ Consistent(helper, Browser, used) /\ Tracked(Browser) /\ helper.alive \in BOOLEAN
  BY DEF IInv, Helpers
<1>2. Browser.loops = loops
  BY DEF Browser
<1>3. Browser.loops.ui # <<>> /\ Becomes(d)
  BY <1>2 DEF UITask
<1>4. d \in Browsers /\ Consistent(helper, d, used) /\ Tracked(d)
  BY <1>1, <1>3, HandleKeeps
<1> HIDE DEF d
<1> QED
  BY <1>1, <1>3, <1>4, BecomesKeeps DEF UITask

\* NavigationStopped keeps the invariant.
LEMMA NavigationKeeps == IInv /\ NavigationStopped => IInv'
<1> SUFFICES ASSUME IInv, NavigationStopped PROVE IInv'
  OBVIOUS
<1> DEFINE d == TerminatePrintJob(Browser, TRUE)
<1>1. /\ helper \in Helpers /\ Browser \in Browsers /\ used \in Uses
      /\ Consistent(helper, Browser, used) /\ Tracked(Browser) /\ helper.alive \in BOOLEAN
  BY DEF IInv, Helpers
<1>2. Browser.tab.job # 0 => Browser.queries[Browser.tab.job].at = "job"
  BY <1>1 DEF Consistent, Kept, OnlyJobs, HeldJobs, TaskJobs, InboxJobs, IdleQueries
<1>3. Winds(Browser, d) /\ d.tab.job = 0
  BY <1>1, <1>2, TerminateWinds
<1>4. Becomes(d) /\ helper' = helper /\ used' = [used EXCEPT !.faults = @ + 1]
  BY DEF NavigationStopped
<1> HIDE DEF d
<1>5. d \in Browsers /\ Consistent(helper, d, used) /\ Tracked(d)
  BY <1>1, <1>3, WindsConsistent DEF Winds, Tracked
<1>6. Browser' = d
  BY <1>4, <1>5, BecomesIs
<1>7. used' \in Uses /\ used'.cookies = used.cookies
  BY <1>1, <1>4 DEF Uses
<1>8. Consistent(helper, d, used')
  BY <1>5, <1>7 DEF Consistent, Given
<1> QED
  BY <1>1, <1>4, <1>5, <1>6, <1>7, <1>8 DEF IInv

\* The polling of ControlledWorkerShutdown on Windows keeps the invariant.
LEMMA PollsKeep == ASSUME NEW q \in Ids PROVE IInv /\ Poll(q) => IInv'
<1> SUFFICES ASSUME IInv, Poll(q) PROVE IInv'
  OBVIOUS
<1> DEFINE b == Browser
           e == [b EXCEPT !.loops.polls = @ \ {q}]
           d == Shutdown(e, q)
<1>1. /\ helper \in Helpers /\ b \in Browsers /\ used \in Uses
      /\ Consistent(helper, b, used) /\ Tracked(b)
  BY DEF IInv
<1>2. b.loops = loops
  BY DEF Browser
<1>3. q \in b.loops.polls /\ Becomes(d)
  BY <1>2 DEF Poll
<1>4. b.queries[q].at = "job"
  BY <1>1, <1>3 DEF Consistent, Kept, OnlyJobs, HeldJobs, TaskJobs, InboxJobs, IdleQueries
<1> HIDE DEF b
<1>5. /\ e.queries = b.queries /\ e.tab = b.tab /\ e.jobs = b.jobs /\ e.workers = b.workers
      /\ e.loops = [b.loops EXCEPT !.polls = @ \ {q}]
  BY <1>1 DEF Browsers
<1>6. b.loops \in Queues /\ b.workers \in [Ids -> Workers]
  BY <1>1 DEF Browsers
<1>7. /\ e.loops \in Queues /\ e.loops.ui = b.loops.ui /\ e.loops.inbox = b.loops.inbox
      /\ e.loops.io = b.loops.io /\ e.loops.pool = b.loops.pool /\ e.loops.polls = b.loops.polls \ {q}
  BY <1>5, <1>6 DEF Queues
<1>8. e \in Browsers
  BY <1>1, <1>5, <1>7 DEF Browsers
<1> HIDE DEF e
<1>9. \A r \in Ids : Tells(b.workers[r], e.workers[r])
  BY <1>5, <1>6, TellsNothing
<1>10. Winds(b, e)
  BY <1>5, <1>7, <1>8, <1>9 DEF Winds
<1>11. Winds(e, d) /\ d.tab = e.tab
  BY <1>4, <1>5, <1>8, ShutdownWinds
<1> HIDE DEF d
<1>12. Winds(b, d)
  BY <1>10, <1>11, WindsTwice
<1>13. d \in Browsers /\ Consistent(helper, d, used) /\ Tracked(d)
  BY <1>1, <1>5, <1>11, <1>12, WindsConsistent DEF Winds, Tracked
<1> QED
  BY <1>1, <1>3, <1>13, BecomesKeeps DEF Poll

\* Stopping a worker from the pool keeps the invariant.
LEMMA PoolKeeps == ASSUME NEW q \in Ids PROVE IInv /\ PoolStops(q) => IInv'
<1> SUFFICES ASSUME IInv, PoolStops(q) PROVE IInv'
  OBVIOUS
<1> DEFINE b == Browser
           d == Browser'
<1>1. /\ helper \in Helpers /\ b \in Browsers /\ used \in Uses
      /\ Consistent(helper, b, used) /\ Tracked(b)
  BY DEF IInv
<1>2. q \in b.loops.pool
  BY DEF Browser, PoolStops
<1>3. b.queries[q].at = "job"
  BY <1>1, <1>2 DEF Consistent, Kept, OnlyJobs, HeldJobs, TaskJobs, InboxJobs, IdleQueries
<1>4. /\ b.loops \in Queues /\ b.workers \in [Ids -> Workers] /\ b.workers[q] \in Workers
      /\ b.queries \in [Ids -> Queries] /\ b.tab \in Tabs /\ b.jobs \in [Ids -> Jobs]
  BY <1>1 DEF Browsers
<1>5. /\ d.queries = b.queries /\ d.tab = b.tab /\ d.jobs = b.jobs
      /\ d.workers = [b.workers EXCEPT ![q] = StopSoon(@)]
      /\ d.loops = [b.loops EXCEPT !.pool = @ \ {q}]
  BY DEF Browser, PoolStops
<1>6. /\ d = [queries |-> d.queries, tab |-> d.tab, jobs |-> d.jobs, workers |-> d.workers, loops |-> d.loops]
      /\ helper' = helper /\ used' = used
  BY DEF Browser, PoolStops
<1> HIDE DEF b, d
<1>7. /\ d.loops \in Queues /\ d.loops.ui = b.loops.ui /\ d.loops.inbox = b.loops.inbox
      /\ d.loops.io = b.loops.io /\ d.loops.pool = b.loops.pool \ {q} /\ d.loops.polls = b.loops.polls
  BY <1>4, <1>5 DEF Queues
<1>8. Tells(b.workers[q], StopSoon(b.workers[q])) /\ StopSoon(b.workers[q]) \in Workers
  BY <1>4, StopSoonTells DEF Tells
<1>9. /\ d.workers \in [Ids -> Workers] /\ d.workers[q] = StopSoon(b.workers[q])
      /\ \A r \in Ids : r # q => d.workers[r] = b.workers[r]
  BY <1>4, <1>5, <1>8
<1>10. d \in Browsers
  BY <1>4, <1>5, <1>6, <1>7, <1>9 DEF Browsers
<1>11. /\ d.loops.pool \subseteq b.loops.pool \cup {q} /\ d.loops.polls \subseteq b.loops.polls \cup {q}
       /\ \A r \in Ids : r # q => d.workers[r] = b.workers[r] /\ d.jobs[r] = b.jobs[r]
       /\ Tells(b.workers[q], d.workers[q])
       /\ d.jobs[q].count = b.jobs[q].count /\ d.jobs[q].pages = b.jobs[q].pages
  BY <1>5, <1>7, <1>8, <1>9
<1>12. Winds(b, d)
  <2>1. Ends(b, q, d)
    BY <1>5, <1>7, <1>11 DEF Ends
  <2> QED
    BY <1>1, <1>3, <1>10, <2>1, WindsBy
<1>13. Consistent(helper, d, used) /\ Tracked(d)
  BY <1>1, <1>5, <1>12, WindsConsistent DEF Tracked
<1> QED
  BY <1>1, <1>6, <1>10, <1>13 DEF IInv, d

\* FlushJob keeps the invariant.
LEMMA FlushesKeep == ASSUME NEW q \in Ids PROVE IInv /\ FlushJob(q) => IInv'
<1> SUFFICES ASSUME IInv, FlushJob(q) PROVE IInv'
  OBVIOUS
<1> DEFINE b == Browser
           d == Browser'
<1>1. /\ helper \in Helpers /\ b \in Browsers /\ used \in Uses
      /\ Consistent(helper, b, used) /\ b.tab \in Tabs
  BY DEF IInv, Browsers
<1>2. /\ d.queries = b.queries /\ d.jobs = b.jobs /\ d.workers = b.workers /\ d.loops = b.loops
      /\ d.tab = [b.tab EXCEPT !.flushing = q, !.left = @ \ {q}]
      /\ b.tab.quit = "stopping" /\ q \in b.tab.left
  BY DEF Browser, FlushJob
<1>3. /\ d = [queries |-> d.queries, tab |-> d.tab, jobs |-> d.jobs, workers |-> d.workers, loops |-> d.loops]
      /\ helper' = helper /\ used' = used
  BY DEF Browser, FlushJob
<1> HIDE DEF b, d
<1>4. d.tab \in Tabs
  BY <1>1, <1>2 DEF Tabs
<1>5. /\ d.tab.cookie = b.tab.cookie /\ d.tab.number = b.tab.number /\ d.tab.job = b.tab.job
      /\ d.tab.succeeded = b.tab.succeeded /\ d.tab.current = b.tab.current
      /\ d.tab.left = b.tab.left \ {q} /\ d.tab.flushing = q /\ d.tab.quit = b.tab.quit
  BY <1>1, <1>2 DEF Tabs
<1>6. d \in Browsers
  BY <1>1, <1>2, <1>3, <1>4 DEF Browsers
<1>7. Consistent(helper, d, used)
  BY <1>1, <1>2, <1>5, TabMoves
<1>8. Tracked(d)
  BY <1>2, <1>5 DEF Tracked
<1> QED
  BY <1>1, <1>3, <1>6, <1>7, <1>8 DEF IInv, d

\* The begin and the end of OnQuit keep the invariant.
LEMMA QuitsKeep == IInv /\ (OnQuit \/ QuitDone) => IInv'
<1> SUFFICES ASSUME IInv, OnQuit \/ QuitDone PROVE IInv'
  OBVIOUS
<1> DEFINE b == Browser
           d == Browser'
<1>1. /\ helper \in Helpers /\ b \in Browsers /\ used \in Uses
      /\ Consistent(helper, b, used) /\ b.tab \in Tabs
  BY DEF IInv, Browsers
<1>2. /\ d.queries = b.queries /\ d.jobs = b.jobs /\ d.workers = b.workers /\ d.loops = b.loops
      /\ \/ d.tab = [b.tab EXCEPT !.quit = "stopping", !.left = b.tab.current, !.current = {}]
         \/ d.tab = [b.tab EXCEPT !.quit = "done"]
  BY DEF Browser, OnQuit, QuitDone
<1>3. /\ d = [queries |-> d.queries, tab |-> d.tab, jobs |-> d.jobs, workers |-> d.workers, loops |-> d.loops]
      /\ helper' = helper
      /\ used' = used \/ used' = [used EXCEPT !.faults = @ + 1]
  BY DEF Browser, OnQuit, QuitDone
<1> HIDE DEF b, d
<1>4. d.tab \in Tabs
  BY <1>1, <1>2 DEF Tabs
<1>5. /\ d.tab.cookie = b.tab.cookie /\ d.tab.number = b.tab.number /\ d.tab.job = b.tab.job
      /\ d.tab.succeeded = b.tab.succeeded
      /\ d.tab.current \cup d.tab.left \subseteq b.tab.current \cup b.tab.left
      /\ d.tab.flushing = b.tab.flushing /\ d.tab.quit # "no"
  <2>1. CASE d.tab = [b.tab EXCEPT !.quit = "stopping", !.left = b.tab.current, !.current = {}]
    BY <1>1, <2>1 DEF Tabs
  <2>2. CASE d.tab = [b.tab EXCEPT !.quit = "done"]
    BY <1>1, <2>2 DEF Tabs
  <2> QED
    BY <1>2, <2>1, <2>2
<1>6. d \in Browsers
  BY <1>1, <1>2, <1>3, <1>4 DEF Browsers
<1>7. Consistent(helper, d, used)
  BY <1>1, <1>2, <1>5, TabMoves
<1>8. Tracked(d)
  BY <1>5 DEF Tracked
<1>9. used' \in Uses /\ used'.cookies = used.cookies
  BY <1>1, <1>3 DEF Uses
<1>10. Consistent(helper, d, used')
  BY <1>7, <1>9 DEF Consistent, Given
<1> QED
  BY <1>1, <1>3, <1>6, <1>8, <1>9, <1>10 DEF IInv, d

\* The end of FlushJob's loop keeps the invariant.
LEMMA FlushedKeeps == IInv /\ Flushed => IInv'
<1> SUFFICES ASSUME IInv, Flushed PROVE IInv'
  OBVIOUS
<1> DEFINE b == Browser
           q == tab.flushing
           e == [b EXCEPT !.tab.flushing = 0]
           d == Stop(e, q)
<1>1. /\ helper \in Helpers /\ b \in Browsers /\ used \in Uses
      /\ Consistent(helper, b, used) /\ b.tab \in Tabs
  BY DEF IInv, Browsers
<1>2. b.tab = tab
  BY DEF Browser
<1>3. Becomes(d) /\ q # 0 /\ b.tab.quit = "stopping" /\ b.tab.flushing = q
  BY <1>2 DEF Flushed
<1>4. q \in Ids /\ b.queries[q].at = "job"
  BY <1>1, <1>3 DEF Consistent, Kept, OnlyJobs, HeldJobs, TaskJobs, InboxJobs, IdleQueries, Tabs
<1> HIDE DEF b, q
<1>5. /\ e.queries = b.queries /\ e.workers = b.workers /\ e.jobs = b.jobs /\ e.loops = b.loops
      /\ e.tab = [b.tab EXCEPT !.flushing = 0]
  BY <1>1 DEF Browsers
<1>6. e.tab \in Tabs
  BY <1>1, <1>5 DEF Tabs
<1>7. /\ e.tab.cookie = b.tab.cookie /\ e.tab.number = b.tab.number /\ e.tab.job = b.tab.job
      /\ e.tab.succeeded = b.tab.succeeded /\ e.tab.current = b.tab.current
      /\ e.tab.left = b.tab.left /\ e.tab.flushing = 0 /\ e.tab.quit = b.tab.quit
  BY <1>1, <1>5 DEF Tabs
<1>8. e \in Browsers
  BY <1>1, <1>5, <1>6 DEF Browsers
<1> HIDE DEF e
<1>9. Consistent(helper, e, used)
  BY <1>1, <1>5, <1>7, TabMoves
<1>10. Winds(e, d) /\ d.tab = e.tab
  BY <1>4, <1>5, <1>8, StopWinds
<1> HIDE DEF d
<1>11. d \in Browsers /\ Consistent(helper, d, used)
  BY <1>8, <1>9, <1>10, WindsConsistent DEF Winds
<1>12. Tracked(d)
  BY <1>3, <1>7, <1>10 DEF Tracked
<1> QED
  BY <1>1, <1>3, <1>11, <1>12, BecomesKeeps DEF Flushed

\* A worker that stands to its job as it should, and has put out no page once it was full, keeps the invariant.
LEMMA WorkerMoves ==
  ASSUME NEW h, NEW u, NEW b \in Browsers, Consistent(h, b, u), NEW q \in Ids, b.queries[q].at = "job",
         NEW w, WorkerOK(w, b.jobs[q]), w.spooled = b.workers[q].spooled \/ b.workers[q].page # 0,
         NEW d, d.queries = b.queries, d.tab = b.tab, d.jobs = b.jobs, d.loops = b.loops,
         d.workers = [b.workers EXCEPT ![q] = w]
  PROVE  Consistent(h, d, u)
<1>1. /\ Stacked(h) /\ AskedFor(h, b) /\ Given(h, b, u) /\ Unspent(h, b)
      /\ OnlyJobs(b) /\ WorkersOK(b) /\ Outputs(b) /\ Successes(b)
  BY DEF Consistent, Kept
<1>2. d.workers[q] = w /\ \A r \in Ids : r # q => d.workers[r] = b.workers[r]
  BY DEF Browsers
<1>3. AskedFor(h, d) /\ Given(h, d, u) /\ Unspent(h, d)
  BY <1>1 DEF AskedFor, Given, Unspent, Printed
<1>4. OnlyJobs(d)
  BY <1>1, <1>2, OnlyJobsBy
<1>5. WorkersOK(d)
  BY <1>1, <1>2 DEF WorkersOK
<1>6. Outputs(d)
  <2>1. \A i : PageOK(b, i) => PageOK(d, i)
    BY DEF PageOK
  <2>2. \A i : CountOK(b, i) => CountOK(d, i)
    BY DEF CountOK
  <2> QED
    BY <1>1, <2>1, <2>2 DEF Outputs
<1>7. \A r \in Ids : Full(b, r) => Full(d, r)
  <2> TAKE r \in Ids
  <2>1. CASE r # q
    BY <1>2, <2>1 DEF Full
  <2>2. CASE r = q /\ b.workers[q].page = 0
    BY <1>2, <2>2 DEF Full
  <2>3. CASE r = q /\ b.workers[q].page # 0
    <3>1. Len(b.workers[q].spooled) = b.workers[q].page - 1 /\ b.workers[q].page <= b.jobs[q].count
      BY <1>1, <2>3 DEF WorkersOK, WorkerOK
    <3>2. b.workers[q].page \in Nat
      BY DEF Browsers, Workers
    <3>3. b.jobs[q].count \in PageCounts \cup {0}
      BY DEF Browsers, Jobs
    <3>4. b.jobs[q].count \in Nat
      BY <3>3, CountIsNat
    <3>5. ~Full(b, q)
      BY <3>1, <3>2, <3>4 DEF Full
    <3> QED
      BY <2>3, <3>5
  <2> QED
    BY <2>1, <2>2, <2>3
<1>8. Successes(d)
  <2>1. \A i \in DOMAIN d.loops.ui :
          d.loops.ui[i].task \in {"docDone", "documentDone"} => Full(d, d.loops.ui[i].id)
    <3> TAKE i \in DOMAIN d.loops.ui
    <3>1. b.loops.ui[i].task \in JobTasks => b.loops.ui[i].id \in Ids
      BY <1>1 DEF OnlyJobs, TaskJobs
    <3>2. b.loops.ui[i].task \in {"docDone", "documentDone"} => Full(b, b.loops.ui[i].id)
      BY <1>1 DEF Successes
    <3> QED
      BY <1>7, <3>1, <3>2 DEF JobTasks
  <2>2. \A i \in DOMAIN d.loops.inbox : d.loops.inbox[i].n = 1 => Full(d, d.loops.inbox[i].id)
    <3> TAKE i \in DOMAIN d.loops.inbox
    <3>1. b.loops.inbox[i].n = 1 => b.loops.inbox[i].id \in Ids /\ Full(b, b.loops.inbox[i].id)
      BY <1>1 DEF OnlyJobs, InboxJobs, Successes
    <3> QED
      BY <1>7, <3>1
  <2>3. d.tab.job # 0 => ~d.tab.succeeded
    BY <1>1 DEF Successes
  <2> QED
    BY <2>1, <2>2, <2>3 DEF Successes
<1> QED
  BY <1>1, <1>3, <1>4, <1>5, <1>6, <1>8 DEF Consistent, Kept

\* A step of the worker q, which may tell the UI thread of its job.
WorkerSteps(q, w, m) ==
  /\ q \in Ids /\ queries[q].at = "job" /\ w \in Workers /\ WorkerOK(w, jobs[q])
  /\ w.spooled = workers[q].spooled \/ workers[q].page # 0
  /\ workers' = [workers EXCEPT ![q] = w]
  /\ UNCHANGED <<helper, queries, tab, jobs>>
  /\ used' \in Uses /\ used'.cookies = used.cookies
  /\ m \in Seq(UITasks) /\ loops' = [loops EXCEPT !.ui = @ \o m]
  /\ \A k \in DOMAIN m : /\ m[k].task \in {"jobFailed", "docDone"} /\ m[k].id = q
                         /\ m[k].task = "docDone" => Len(w.spooled) = jobs[q].count

\* A step of a worker that reports what is so keeps the invariant.
LEMMA WorkerKeeps ==
  ASSUME NEW q, NEW w, NEW m, IInv, WorkerSteps(q, w, m)
  PROVE  IInv'
<1> DEFINE b == Browser
           e == [b EXCEPT !.workers[q] = w]
           d == Browser'
<1>1. /\ helper \in Helpers /\ b \in Browsers /\ used \in Uses
      /\ Consistent(helper, b, used) /\ Tracked(b)
  BY DEF IInv
<1>2. /\ b.queries = queries /\ b.jobs = jobs /\ b.workers = workers /\ b.tab = tab /\ b.loops = loops
  BY DEF Browser
<1>3. /\ d.queries = b.queries /\ d.jobs = b.jobs /\ d.tab = b.tab
      /\ d.workers = [b.workers EXCEPT ![q] = w]
      /\ d.loops = [b.loops EXCEPT !.ui = @ \o m]
      /\ d = [queries |-> d.queries, tab |-> d.tab, jobs |-> d.jobs, workers |-> d.workers, loops |-> d.loops]
  BY <1>2 DEF Browser, WorkerSteps
<1>4. /\ q \in Ids /\ b.queries[q].at = "job" /\ w \in Workers /\ WorkerOK(w, b.jobs[q])
      /\ w.spooled = b.workers[q].spooled \/ b.workers[q].page # 0
      /\ m \in Seq(UITasks)
      /\ \A k \in DOMAIN m : /\ m[k].task \in {"jobFailed", "docDone"} /\ m[k].id = q
                             /\ m[k].task = "docDone" => Len(w.spooled) = b.jobs[q].count
  BY <1>2 DEF WorkerSteps
<1>5. helper' = helper /\ used' \in Uses /\ used'.cookies = used.cookies
  BY DEF WorkerSteps
<1> HIDE DEF b, d
<1>6. /\ e.queries = b.queries /\ e.jobs = b.jobs /\ e.tab = b.tab /\ e.loops = b.loops
      /\ e.workers = [b.workers EXCEPT ![q] = w]
  BY <1>1 DEF Browsers
<1>7. /\ b.workers \in [Ids -> Workers] /\ b.loops \in Queues /\ b.tab \in Tabs
      /\ b.queries \in [Ids -> Queries] /\ b.jobs \in [Ids -> Jobs]
  BY <1>1 DEF Browsers
<1>8. [b.workers EXCEPT ![q] = w] \in [Ids -> Workers]
  BY <1>4, <1>7
<1>9. e \in Browsers
  BY <1>1, <1>6, <1>7, <1>8 DEF Browsers
<1> HIDE DEF e
<1>10. Consistent(helper, e, used)
  BY <1>1, <1>4, <1>6, WorkerMoves
<1>11. b.loops.ui \in Seq(UITasks)
  BY <1>7 DEF Queues
<1>12. b.loops.ui \o m \in Seq(UITasks)
  BY <1>4, <1>11, ConcatIs
<1>13. /\ d.loops \in Queues /\ d.loops.ui = b.loops.ui \o m
       /\ d.loops.inbox = b.loops.inbox /\ d.loops.io = b.loops.io
       /\ d.loops.pool = b.loops.pool /\ d.loops.polls = b.loops.polls
  <2> DEFINE v == b.loops.ui \o m
  <2>1. d.loops = [b.loops EXCEPT !.ui = v] /\ v \in Seq(UITasks)
    BY <1>3, <1>12
  <2> HIDE DEF v
  <2>2. d.loops \in Queues /\ d.loops.ui = v
    BY <1>7, <2>1 DEF Queues
  <2>3. /\ d.loops.inbox = b.loops.inbox /\ d.loops.io = b.loops.io
        /\ d.loops.pool = b.loops.pool /\ d.loops.polls = b.loops.polls
    BY <1>7, <2>1 DEF Queues
  <2> QED
    BY <2>2, <2>3 DEF v
<1>14. d \in Browsers
  BY <1>3, <1>7, <1>8, <1>13 DEF Browsers
<1>15. Sends(e, d, m)
  BY <1>3, <1>6, <1>13 DEF Sends
<1>16. e.workers[q] = w
  BY <1>4, <1>6, <1>7
<1>17. SentOK(e, used, m, 0) /\ ~Counts(m)
  <2>1. Prepares(m, 0) /\ ~Counts(m)
    BY <1>4 DEF Prepares, Counts
  <2>2. \A k \in DOMAIN m : m[k].task = "docDone" => Full(e, q)
    BY <1>4, <1>6, <1>16 DEF Full
  <2>3. \A k \in DOMAIN m :
          /\ m[k].task \in JobTasks => m[k].id \in Ids /\ e.queries[m[k].id].at = "job"
          /\ m[k].task \in {"docDone", "documentDone"} => Full(e, m[k].id)
          /\ m[k].task \notin {"cookie", "count", "page", "failed"}
    BY <1>4, <1>6, <2>2
  <2> QED
    BY <1>4, <2>1, <2>3 DEF SentOK, Counts
<1>18. /\ Kept(d)
       /\ \A x : Printed(d, x) => Printed(e, x) \/ (x = 0 /\ Counts(m))
       /\ QueueGiven(e, used) => QueueGiven(d, used)
  <2>1. Kept(e)
    BY <1>10 DEF Consistent
  <2> QED
    BY <1>9, <1>15, <1>17, <2>1, SentKept
<1>19. d.queries = e.queries /\ d.tab = e.tab
  BY <1>15 DEF Sends
<1>20. AskedFor(helper, d) /\ Unspent(helper, d) /\ Stacked(helper)
  BY <1>10, <1>17, <1>18, <1>19 DEF Consistent, AskedFor, Unspent
<1>21. Given(helper, d, used)
  <2>1. QueueGiven(e, used)
    BY <1>10 DEF Consistent, Given, QueueGiven
  <2>2. QueueGiven(d, used)
    BY <1>18, <2>1
  <2> QED
    BY <1>10, <1>19, <2>2 DEF Consistent, Given, QueueGiven
<1>22. Given(helper, d, used')
  BY <1>5, <1>21 DEF Given
<1>23. Tracked(d)
  BY <1>1, <1>3 DEF Tracked
<1> QED
  BY <1>1, <1>5, <1>14, <1>18, <1>20, <1>22, <1>23 DEF IInv, Consistent, d

\* The worker q goes on to w.
Advances(q, w) ==
  /\ q \in Ids /\ queries[q].at = "job" /\ w \in Workers /\ WorkerOK(w, jobs[q])
  /\ w.spooled = workers[q].spooled \/ workers[q].page # 0
  /\ workers' = [workers EXCEPT ![q] = w]
  /\ UNCHANGED <<helper, queries, tab, jobs>>
  /\ used' \in Uses /\ used'.cookies = used.cookies

\* The UI thread's queue is one.
LEMMA UIQueue ==
  ASSUME IInv
  PROVE  loops \in Queues /\ loops.ui \in Seq(UITasks)
<1>1. loops \in Queues
  BY DEF IInv, Browser, Browsers
<1> QED
  BY <1>1 DEF Queues

\* A worker may go on without a report.
LEMMA AdvancesSilently ==
  ASSUME NEW q, NEW w, IInv, Advances(q, w), UNCHANGED loops
  PROVE  IInv'
<1>1. loops \in Queues /\ loops.ui \in Seq(UITasks)
  BY UIQueue
<1> DEFINE m == <<>>
<1>2. loops.ui \o m = loops.ui /\ m \in Seq(UITasks)
  BY <1>1
<1>3. \A k \in DOMAIN m : FALSE
  OBVIOUS
<1> HIDE DEF m
<1>4. [loops EXCEPT !.ui = @ \o m] = loops
  BY <1>1, <1>2 DEF Queues
<1>5. WorkerSteps(q, w, m)
  BY <1>2, <1>3, <1>4 DEF WorkerSteps, Advances
<1> QED
  BY <1>5, WorkerKeeps

\* A worker may report a failure, or that the document is done when every page is out.
LEMMA AdvancesAndTells ==
  ASSUME NEW q, NEW w, NEW t \in {"jobFailed", "docDone"}, IInv, Advances(q, w),
         t = "docDone" => Len(w.spooled) = jobs[q].count,
         loops' = [loops EXCEPT !.ui = Append(@, Task(t, q, 0))]
  PROVE  IInv'
<1>1. loops \in Queues /\ loops.ui \in Seq(UITasks)
  BY UIQueue
<1>2. q \in Nat
  BY PrintingAssumption DEF Advances, Ids
<1> DEFINE m == <<Task(t, q, 0)>>
<1>3. Task(t, q, 0) \in UITasks
  BY <1>2 DEF Task, UITasks, TaskNames
<1>4. loops.ui \o m = Append(loops.ui, Task(t, q, 0)) /\ m \in Seq(UITasks)
  BY <1>1, <1>3
<1>5. \A k \in DOMAIN m : m[k].task = t /\ m[k].id = q
  BY DEF Task
<1> HIDE DEF m
<1>6. loops' = [loops EXCEPT !.ui = @ \o m]
  BY <1>4
<1>7. WorkerSteps(q, w, m)
  BY <1>4, <1>5, <1>6 DEF WorkerSteps, Advances
<1> QED
  BY <1>7, WorkerKeeps

\* A worker may report the failure of a page and of the document.
LEMMA AdvancesAndFails ==
  ASSUME NEW q, NEW w, IInv, Advances(q, w), loops' = [loops EXCEPT !.ui = @ \o <<JobFailed(q), JobFailed(q)>>]
  PROVE  IInv'
<1>1. q \in Nat
  BY PrintingAssumption DEF Advances, Ids
<1> DEFINE m == <<JobFailed(q), JobFailed(q)>>
<1>2. JobFailed(q) \in UITasks
  BY <1>1 DEF JobFailed, Task, UITasks, TaskNames
<1>3. m \in Seq(UITasks)
  BY <1>2
<1>4. \A k \in DOMAIN m : m[k].task = "jobFailed" /\ m[k].id = q
  BY DEF Task, JobFailed
<1>5. loops' = [loops EXCEPT !.ui = @ \o m]
  OBVIOUS
<1> HIDE DEF m
<1>6. WorkerSteps(q, w, m)
  BY <1>3, <1>4, <1>5 DEF WorkerSteps, Advances
<1> QED
  BY <1>6, WorkerKeeps

\* The rest of a worker's tasks.
LEMMA TailBegins ==
  ASSUME NEW s \in Seq(WorkerTasks), s # <<>>, Begins(s)
  PROVE  /\ Tail(s) \in Seq(WorkerTasks) /\ Begins(Tail(s))
         /\ Starts(Tail(s)) => Starts(s)
         /\ Head(s) = "start" => ~Starts(Tail(s))
         /\ Head(s) = "doc" => Starts(s)
<1> DEFINE d == Tail(s)
           n == Len(s)
<1>1. /\ n \in Nat /\ n # 0 /\ DOMAIN s = 1 .. n /\ DOMAIN d = 1 .. n - 1 /\ Head(s) = s[1]
      /\ d \in Seq(WorkerTasks)
      /\ \A i \in 1 .. n - 1 : d[i] = s[i + 1]
  BY DEF WorkerTasks
<1> HIDE DEF d, n
<1>2. \A i \in DOMAIN d : i \in Nat /\ i + 1 \in DOMAIN s /\ i + 1 # 1 /\ d[i] = s[i + 1]
  BY <1>1
<1>3. \A i \in DOMAIN d : d[i] # "doc"
  BY <1>2 DEF Begins
<1>4. ASSUME NEW i \in DOMAIN d, d[i] = "start" PROVE i = 1 /\ s[1] = "doc"
  BY <1>2, <1>4 DEF Begins
<1>5. Begins(d)
  BY <1>3, <1>4 DEF Begins
<1>6. Starts(d) => Starts(s) /\ s[1] = "doc"
  BY <1>2, <1>4 DEF Starts
<1>7. s[1] = "doc" => Starts(s)
  BY <1>1 DEF Starts, Begins
<1> QED
  BY <1>1, <1>5, <1>6, <1>7 DEF d

\* A worker that does something is a job's.
LEMMA WorkerFacts ==
  ASSUME NEW q \in Ids, IInv
  PROVE  /\ workers[q] \in Workers /\ jobs[q] \in Jobs /\ WorkerOK(workers[q], jobs[q])
         /\ used \in Uses /\ jobs[q].count \in Nat /\ jobs[q].count \in PageCounts \cup {0}
         /\ workers[q].tasks # <<>> \/ workers[q].looping \/ workers[q].retry => queries[q].at = "job"
<1>1. Browser \in Browsers /\ used \in Uses /\ OnlyJobs(Browser) /\ WorkersOK(Browser)
  BY DEF IInv, Consistent, Kept
<1>2. /\ Browser.workers = workers /\ Browser.jobs = jobs /\ Browser.queries = queries
  BY DEF Browser
<1>3. workers[q] \in Workers /\ jobs[q] \in Jobs /\ WorkerOK(workers[q], jobs[q])
  BY <1>1, <1>2 DEF Browsers, WorkersOK
<1>4. jobs[q].count \in PageCounts \cup {0}
  BY <1>3 DEF Jobs
<1>5. jobs[q].count \in Nat
  BY <1>4, CountIsNat
<1>6. workers[q].tasks # <<>> \/ workers[q].looping \/ workers[q].retry => queries[q].at = "job"
  BY <1>1, <1>2 DEF OnlyJobs, IdleQueries
<1> QED
  BY <1>1, <1>3, <1>4, <1>5, <1>6

\* OnDocumentChanged keeps the invariant.
LEMMA DocumentChangedKeeps ==
  ASSUME NEW q \in Ids, NEW doc \in BOOLEAN, IInv, OnDocumentChanged(q, doc)
  PROVE  IInv'
<1> DEFINE v == workers[q]
           s == Tail(v.tasks)
           w == [Rest(q) EXCEPT !.doc = IF v.page = 0 THEN doc ELSE @]
<1>1. /\ v \in Workers /\ WorkerOK(v, jobs[q]) /\ used \in Uses /\ v.tasks # <<>>
      /\ queries[q].at = "job" /\ v.tasks \in Seq(WorkerTasks)
      /\ Head(v.tasks) = (IF doc THEN "doc" ELSE "nodoc") /\ ~v.looping
  <2>1. v.tasks # <<>> /\ Head(v.tasks) = (IF doc THEN "doc" ELSE "nodoc") /\ ~v.looping
    BY DEF OnDocumentChanged, Ready
  <2> QED
    BY <2>1, WorkerFacts DEF Workers
<1>2. Begins(v.tasks)
  BY <1>1 DEF WorkerOK
<1>3. /\ s \in Seq(WorkerTasks) /\ Begins(s) /\ (Starts(s) => Starts(v.tasks))
      /\ doc => Starts(v.tasks)
  BY <1>1, <1>2, TailBegins
<1> HIDE DEF s
<1>4. Rest(q) = [v EXCEPT !.tasks = s]
  BY DEF Rest, s
<1>5. w = [v EXCEPT !.tasks = s, !.doc = IF v.page = 0 THEN doc ELSE @]
  BY <1>1, <1>4 DEF Workers
<1>6. workers' = [workers EXCEPT ![q] = w] /\ UNCHANGED <<helper, queries, tab, jobs, loops, used>>
  BY DEF OnDocumentChanged
<1> HIDE DEF v, w
<1>7. /\ w.tasks = s /\ w.doc = (IF v.page = 0 THEN doc ELSE v.doc) /\ w.page = v.page
      /\ w.spooled = v.spooled /\ w.looping = v.looping /\ w.retry = v.retry
  BY <1>1, <1>5 DEF Workers
<1>8. w \in Workers
  BY <1>1, <1>3, <1>5 DEF Workers
<1>9. WorkerOK(w, jobs[q])
  BY <1>1, <1>3, <1>7 DEF WorkerOK
<1>10. Advances(q, w)
  BY <1>1, <1>6, <1>7, <1>8, <1>9 DEF Advances, v
<1> QED
  BY <1>6, <1>10, AdvancesSilently

\* A failed worker has no document and no page.
LEMMA FailedOK ==
  ASSUME NEW w \in Workers, NEW j, ~w.retry,
         Begins(w.tasks) /\ ~Starts(w.tasks), Len(w.spooled) <= j.count, j.pages \subseteq 1 .. j.count,
         \A i \in DOMAIN w.spooled : w.spooled[i] = i /\ i \in j.pages
  PROVE  LET x == FailedWorker(w) IN x \in Workers /\ WorkerOK(x, j) /\ x.spooled = w.spooled
<1> DEFINE x == FailedWorker(w)
<1>1. /\ x \in Workers /\ ~x.doc /\ x.page = 0 /\ ~x.looping /\ x.retry = w.retry /\ x.tasks = w.tasks
      /\ x.spooled = w.spooled
  BY DEF FailedWorker, Workers
<1> HIDE DEF x
<1>2. WorkerOK(x, j)
  BY <1>1 DEF WorkerOK
<1> QED
  BY <1>1, <1>2 DEF x

\* StartPrinting keeps the invariant, on success, failure and a forgotten cancellation.
LEMMA StartPrintingKeeps ==
  ASSUME NEW q \in Ids, NEW forgets \in BOOLEAN, NEW fails \in BOOLEAN, IInv, StartPrinting(q, forgets, fails)
  PROVE  IInv'
<1> DEFINE v == workers[q]
           s == Tail(v.tasks)
           r == Rest(q)
           w == [r EXCEPT !.canceled = @ /\ ~forgets]
<1>1. /\ v \in Workers /\ WorkerOK(v, jobs[q]) /\ used \in Uses /\ v.tasks # <<>>
      /\ queries[q].at = "job" /\ v.tasks \in Seq(WorkerTasks)
      /\ Head(v.tasks) = "start" /\ ~v.looping /\ jobs[q].count \in Nat
  <2>1. v.tasks # <<>> /\ Head(v.tasks) = "start" /\ ~v.looping
    BY DEF StartPrinting, Ready
  <2> QED
    BY <2>1, WorkerFacts DEF Workers
<1>2. Begins(v.tasks)
  BY <1>1 DEF WorkerOK
<1>3. /\ s \in Seq(WorkerTasks) /\ Begins(s) /\ ~Starts(s)
  BY <1>1, <1>2, TailBegins
<1>4. Starts(v.tasks) /\ v.page = 0 /\ v.spooled = <<>> /\ ~v.retry /\ jobs[q].count # 0
  <2>1. 1 \in DOMAIN v.tasks /\ Head(v.tasks) = v.tasks[1]
    BY <1>1
  <2>2. Starts(v.tasks)
    BY <1>1, <2>1 DEF Starts
  <2> QED
    BY <1>1, <2>2 DEF WorkerOK
<1> HIDE DEF s
<1>5. r = [v EXCEPT !.tasks = s]
  BY DEF Rest, s
<1>6. \/ workers' = [workers EXCEPT ![q] = r] /\ UNCHANGED <<loops, used>>
      \/ /\ used' = [used EXCEPT !.faults = IF fails /\ ~w.canceled THEN @ + 1 ELSE @]
         /\ fails /\ workers' = [workers EXCEPT ![q] = FailedWorker(w)]
         /\ loops' = [loops EXCEPT !.ui = Append(@, JobFailed(q))]
      \/ /\ used' = [used EXCEPT !.faults = IF fails /\ ~w.canceled THEN @ + 1 ELSE @]
         /\ w.doc /\ workers' = [workers EXCEPT ![q] = OnNewPage(w)] /\ UNCHANGED loops
  BY DEF StartPrinting
<1>7. UNCHANGED <<helper, queries, tab, jobs>>
  BY DEF StartPrinting
<1> HIDE DEF r, v
<1>8. /\ r \in Workers /\ r.tasks = s /\ r.doc = v.doc /\ r.page = 0 /\ r.spooled = v.spooled
      /\ ~r.looping /\ ~r.retry
  BY <1>1, <1>3, <1>4, <1>5 DEF Workers
<1>9. /\ w \in Workers /\ w.tasks = s /\ w.doc = v.doc /\ w.page = 0 /\ w.spooled = v.spooled
      /\ ~w.looping /\ ~w.retry
  BY <1>8 DEF Workers
<1> HIDE DEF w
<1>10. WorkerOK(r, jobs[q])
  BY <1>1, <1>3, <1>4, <1>8 DEF WorkerOK
<1>11. CASE workers' = [workers EXCEPT ![q] = r] /\ UNCHANGED <<loops, used>>
  <2>1. Advances(q, r)
    BY <1>1, <1>7, <1>8, <1>10, <1>11 DEF Advances, v
  <2> QED
    BY <1>11, <2>1, AdvancesSilently
<1>12. used' = [used EXCEPT !.faults = IF fails /\ ~w.canceled THEN @ + 1 ELSE @] =>
         used' \in Uses /\ used'.cookies = used.cookies
  BY <1>1 DEF Uses
<1>13. /\ Len(w.spooled) <= jobs[q].count /\ jobs[q].pages \subseteq 1 .. jobs[q].count
       /\ \A i \in DOMAIN w.spooled : w.spooled[i] = i /\ i \in jobs[q].pages
  BY <1>1, <1>9 DEF WorkerOK
<1>14. CASE /\ used' = [used EXCEPT !.faults = IF fails /\ ~w.canceled THEN @ + 1 ELSE @]
            /\ fails /\ workers' = [workers EXCEPT ![q] = FailedWorker(w)]
            /\ loops' = [loops EXCEPT !.ui = Append(@, JobFailed(q))]
  <2> DEFINE x == FailedWorker(w)
  <2>1. x \in Workers /\ WorkerOK(x, jobs[q]) /\ x.spooled = w.spooled
    BY <1>3, <1>9, <1>13, FailedOK
  <2>2. workers' = [workers EXCEPT ![q] = x]
    BY <1>14
  <2> HIDE DEF x
  <2>3. Advances(q, x)
    BY <1>1, <1>7, <1>9, <1>12, <1>14, <2>1, <2>2 DEF Advances, v
  <2> QED
    BY <1>14, <2>3, AdvancesAndTells DEF JobFailed
<1>15. CASE /\ used' = [used EXCEPT !.faults = IF fails /\ ~w.canceled THEN @ + 1 ELSE @]
            /\ w.doc /\ workers' = [workers EXCEPT ![q] = OnNewPage(w)] /\ UNCHANGED loops
  <2> DEFINE x == OnNewPage(w)
  <2>1. x = [w EXCEPT !.looping = TRUE, !.page = 1]
    BY <1>9, <1>15 DEF OnNewPage
  <2>2. workers' = [workers EXCEPT ![q] = x]
    BY <1>15
  <2> HIDE DEF x
  <2>3. /\ x \in Workers /\ x.tasks = s /\ x.doc = w.doc /\ x.page = 1 /\ x.spooled = w.spooled
        /\ x.looping /\ ~x.retry
    BY <1>9, <2>1 DEF Workers
  <2>4. Len(x.spooled) = 0
    BY <1>4, <1>9, <2>3
  <2>5. WorkerOK(x, jobs[q])
    BY <1>1, <1>3, <1>4, <1>9, <1>13, <1>15, <2>3, <2>4 DEF WorkerOK
  <2>6. Advances(q, x)
    BY <1>1, <1>7, <1>9, <1>12, <1>15, <2>2, <2>3, <2>5 DEF Advances, v
  <2> QED
    BY <1>15, <2>6, AdvancesSilently
<1> QED
  BY <1>6, <1>11, <1>14, <1>15

\* Trying a missing page again keeps the invariant.
LEMMA RetryKeeps ==
  ASSUME NEW q \in Ids, IInv, Retry(q)
  PROVE  IInv'
<1> DEFINE v == workers[q]
           w == [v EXCEPT !.retry = FALSE]
           x == OnNewPage(w)
<1>1. /\ v \in Workers /\ WorkerOK(v, jobs[q]) /\ used \in Uses /\ v.retry /\ ~v.looping
      /\ queries[q].at = "job"
  <2>1. v.retry /\ ~v.looping
    BY DEF Retry
  <2> QED
    BY <2>1, WorkerFacts
<1>2. v.page # 0 /\ v.doc
  BY <1>1 DEF WorkerOK
<1>3. workers' = [workers EXCEPT ![q] = x] /\ UNCHANGED <<helper, queries, tab, jobs, loops, used>>
  <2>1. OnNewPage([workers[q] EXCEPT !.retry = FALSE]) = x
    OBVIOUS
  <2> QED
    BY <2>1 DEF Retry
<1>4. /\ w.page = v.page /\ w.doc = v.doc /\ w \in Workers
  BY <1>1 DEF Workers
<1>5. x = [w EXCEPT !.looping = TRUE]
  BY <1>2, <1>4 DEF OnNewPage, Workers
<1> HIDE DEF x, v
<1>6. /\ x \in Workers /\ x.tasks = v.tasks /\ x.doc = v.doc /\ x.page = v.page
      /\ x.spooled = v.spooled /\ x.looping /\ ~x.retry
  BY <1>1, <1>5 DEF Workers
<1> HIDE DEF w
<1>7. WorkerOK(x, jobs[q])
  BY <1>1, <1>2, <1>6 DEF WorkerOK
<1>8. Advances(q, x)
  BY <1>1, <1>3, <1>6, <1>7 DEF Advances, v
<1> QED
  BY <1>3, <1>8, AdvancesSilently

\* The end of a worker's thread keeps the invariant.
LEMMA ThreadEndsKeeps ==
  ASSUME NEW q \in Ids, IInv, ThreadEnds(q)
  PROVE  IInv'
<1> DEFINE v == workers[q]
           x == [v EXCEPT !.thread = "ended", !.tasks = <<>>, !.retry = FALSE]
<1>1. /\ v \in Workers /\ WorkerOK(v, jobs[q]) /\ used \in Uses /\ v.tasks # <<>>
      /\ queries[q].at = "job"
  <2>1. v.tasks # <<>>
    BY DEF ThreadEnds, Ready
  <2> QED
    BY <2>1, WorkerFacts
<1>2. workers \in [Ids -> Workers]
  BY DEF IInv, Browser, Browsers
<1>3. workers' = [workers EXCEPT ![q] = x] /\ UNCHANGED <<helper, queries, tab, jobs, loops, used>>
  BY <1>2 DEF ThreadEnds
<1> HIDE DEF v
<1>4. /\ x.tasks = <<>> /\ x.doc = v.doc /\ x.page = v.page
      /\ x.spooled = v.spooled /\ x.looping = v.looping /\ ~x.retry
  BY <1>1 DEF Workers
<1>5. <<>> \in Seq(WorkerTasks) /\ DOMAIN (<<>>) = {} 
  OBVIOUS
<1>6. x \in Workers
  BY <1>1, <1>5 DEF Workers
<1> HIDE DEF x
<1>7. ~Starts(x.tasks) /\ Begins(x.tasks)
  BY <1>4, <1>5 DEF Starts, Begins
<1>8. WorkerOK(x, jobs[q])
  BY <1>1, <1>4, <1>7 DEF WorkerOK
<1>9. Advances(q, x)
  BY <1>1, <1>3, <1>4, <1>6, <1>8 DEF Advances, v
<1> QED
  BY <1>3, <1>9, AdvancesSilently

\* One page more has been put out.
LEMMA OneSpooled ==
  ASSUME NEW s \in Seq(Nat), NEW p \in Nat, Len(s) = p - 1, NEW P, p \in P,
         \A i \in DOMAIN s : s[i] = i /\ i \in P
  PROVE  /\ Append(s, p) \in Seq(Nat) /\ Len(Append(s, p)) = p
         /\ \A i \in DOMAIN Append(s, p) : Append(s, p)[i] = i /\ i \in P
<1> DEFINE d == Append(s, p)
           n == Len(s)
<1>1. /\ n \in Nat /\ p = n + 1 /\ DOMAIN s = 1 .. n /\ DOMAIN d = 1 .. n + 1 /\ Len(d) = n + 1
      /\ d \in Seq(Nat) /\ d[n + 1] = p /\ \A i \in 1 .. n : d[i] = s[i]
  OBVIOUS
<1> HIDE DEF d, n
<1>2. ASSUME NEW i \in DOMAIN d PROVE d[i] = i /\ i \in P
  <2>1. i \in 1 .. n \/ i = n + 1
    BY <1>1, <1>2
  <2> QED
    BY <1>1, <2>1
<1> QED
  BY <1>1, <1>2 DEF d

\* A round of OnNewPage's loop keeps the invariant: the pages go out in order.
LEMMA SpoolPageKeeps ==
  ASSUME NEW q \in Ids, NEW fails \in BOOLEAN, IInv, SpoolPage(q, fails)
  PROVE  IInv'
<1> DEFINE v == workers[q]
           p == v.page
           j == jobs[q]
           s == Append(v.spooled, p)
<1>1. /\ v \in Workers /\ WorkerOK(v, j) /\ used \in Uses /\ v.looping
      /\ queries[q].at = "job" /\ j.count \in Nat
  <2>1. v.looping
    BY DEF SpoolPage
  <2> QED
    BY <2>1, WorkerFacts
<1>2. /\ p \in Nat /\ p # 0 /\ v.doc /\ ~v.retry /\ Len(v.spooled) = p - 1 /\ p <= j.count
      /\ Begins(v.tasks) /\ ~Starts(v.tasks) /\ j.pages \subseteq 1 .. j.count
      /\ v.spooled \in Seq(Nat) /\ v.tasks \in Seq(WorkerTasks)
      /\ \A i \in DOMAIN v.spooled : v.spooled[i] = i /\ i \in j.pages
  <2>1. v.page \in Nat /\ v.spooled \in Seq(Nat) /\ v.tasks \in Seq(WorkerTasks)
    BY <1>1 DEF Workers
  <2> QED
    BY <1>1, <2>1 DEF WorkerOK
<1>3. UNCHANGED <<helper, queries, tab, jobs>>
  BY DEF SpoolPage
<1>4. workers \in [Ids -> Workers]
  BY DEF IInv, Browser, Browsers
<1>5. \/ /\ workers' = [workers EXCEPT ![q].looping = FALSE, ![q].retry = TRUE]
         /\ UNCHANGED <<loops, used>>
      \/ /\ p \in j.pages /\ MayFail(q, fails)
         /\ \/ /\ workers' = [workers EXCEPT ![q] = FailedWorker(v)]
               /\ loops' = [loops EXCEPT !.ui = @ \o <<JobFailed(q), JobFailed(q)>>]
            \/ /\ p = j.count
               /\ workers' = [workers EXCEPT ![q] = FailedWorker([v EXCEPT !.spooled = s])]
               /\ loops' = [loops EXCEPT !.ui = Append(@, JobFailed(q))]
            \/ /\ p # j.count
               /\ workers' = [workers EXCEPT ![q].page = p + 1, ![q].spooled = s]
               /\ UNCHANGED loops
            \/ /\ p = j.count
               /\ workers' = [workers EXCEPT ![q] = [v EXCEPT !.page = 0, !.doc = FALSE,
                                !.looping = FALSE, !.spooled = s]]
               /\ loops' = [loops EXCEPT !.ui = Append(@, Task("docDone", q, 0))]
  BY <1>4, Zenon DEF SpoolPage
<1>6. MayFail(q, fails) => used' \in Uses /\ used'.cookies = used.cookies
  BY <1>1 DEF MayFail, Uses
<1> HIDE DEF v, p, j
<1>7. p \in j.pages => /\ s \in Seq(Nat) /\ Len(s) = p
                       /\ \A i \in DOMAIN s : s[i] = i /\ i \in j.pages
  BY <1>2, OneSpooled
<1> HIDE DEF s
<1>8. v.page = p /\ v = workers[q] /\ j = jobs[q]
  BY DEF v, p, j
<1>9. CASE /\ workers' = [workers EXCEPT ![q].looping = FALSE, ![q].retry = TRUE]
           /\ UNCHANGED <<loops, used>>
  <2> DEFINE x == [v EXCEPT !.looping = FALSE, !.retry = TRUE]
  <2>1. workers' = [workers EXCEPT ![q] = x]
    BY <1>4, <1>8, <1>9
  <2>2. /\ x \in Workers /\ x.tasks = v.tasks /\ x.doc = v.doc /\ x.page = p
        /\ x.spooled = v.spooled /\ ~x.looping /\ x.retry
    BY <1>1, <1>8 DEF Workers
  <2> HIDE DEF x
  <2>3. WorkerOK(x, j)
    BY <1>1, <1>2, <2>2 DEF WorkerOK
  <2>4. Advances(q, x)
    BY <1>1, <1>3, <1>8, <1>9, <2>1, <2>2, <2>3 DEF Advances
  <2> QED
    BY <1>9, <2>4, AdvancesSilently
<1>10. CASE /\ p \in j.pages /\ MayFail(q, fails)
            /\ workers' = [workers EXCEPT ![q] = FailedWorker(v)]
            /\ loops' = [loops EXCEPT !.ui = @ \o <<JobFailed(q), JobFailed(q)>>]
  <2> DEFINE x == FailedWorker(v)
  <2>1. Len(v.spooled) <= j.count
    BY <1>1, <1>2
  <2>2. x \in Workers /\ WorkerOK(x, j) /\ x.spooled = v.spooled
    BY <1>1, <1>2, <2>1, FailedOK
  <2>3. workers' = [workers EXCEPT ![q] = x]
    BY <1>10
  <2> HIDE DEF x
  <2>4. Advances(q, x)
    BY <1>1, <1>3, <1>6, <1>8, <1>10, <2>2, <2>3 DEF Advances
  <2> QED
    BY <1>10, <2>4, AdvancesAndFails
<1>11. CASE /\ p \in j.pages /\ MayFail(q, fails) /\ p = j.count
            /\ workers' = [workers EXCEPT ![q] = FailedWorker([v EXCEPT !.spooled = s])]
            /\ loops' = [loops EXCEPT !.ui = Append(@, JobFailed(q))]
  <2> DEFINE w == [v EXCEPT !.spooled = s]
             x == FailedWorker(w)
  <2>1. /\ w \in Workers /\ w.spooled = s /\ ~w.retry /\ w.tasks = v.tasks
    BY <1>1, <1>2, <1>7, <1>11 DEF Workers
  <2> HIDE DEF w
  <2>2. Len(w.spooled) <= j.count /\ \A i \in DOMAIN w.spooled : w.spooled[i] = i /\ i \in j.pages
    BY <1>2, <1>7, <1>11, <2>1
  <2>3. x \in Workers /\ WorkerOK(x, j) /\ x.spooled = w.spooled
    BY <1>2, <2>1, <2>2, FailedOK
  <2>4. workers' = [workers EXCEPT ![q] = x]
    BY <1>11 DEF w
  <2> HIDE DEF x
  <2>5. Advances(q, x)
    BY <1>1, <1>2, <1>3, <1>6, <1>8, <1>11, <2>3, <2>4 DEF Advances
  <2> QED
    BY <1>11, <2>5, AdvancesAndTells DEF JobFailed
<1>12. CASE /\ p \in j.pages /\ MayFail(q, fails) /\ p # j.count
            /\ workers' = [workers EXCEPT ![q].page = p + 1, ![q].spooled = s]
            /\ UNCHANGED loops
  <2> DEFINE x == [v EXCEPT !.page = p + 1, !.spooled = s]
  <2>1. workers' = [workers EXCEPT ![q] = x]
    BY <1>4, <1>8, <1>12
  <2>2. /\ x \in Workers /\ x.tasks = v.tasks /\ x.doc = v.doc /\ x.page = p + 1
        /\ x.spooled = s /\ x.looping = v.looping /\ x.retry = v.retry
    <3> DEFINE n == p + 1
    <3>1. n \in Nat /\ s \in Seq(Nat) /\ x = [v EXCEPT !.page = n, !.spooled = s]
      BY <1>2, <1>7, <1>12
    <3> HIDE DEF n, x
    <3>2. x \in Workers
      BY <1>1, <3>1 DEF Workers
    <3>3. /\ x.tasks = v.tasks /\ x.doc = v.doc /\ x.page = n /\ x.spooled = s
          /\ x.looping = v.looping /\ x.retry = v.retry
      BY <1>1, <3>1 DEF Workers
    <3> QED
      BY <3>2, <3>3 DEF n
  <2> HIDE DEF x
  <2>3. Len(x.spooled) = x.page - 1 /\ x.page <= j.count /\ x.page # 0 /\ Len(x.spooled) <= j.count
    BY <1>1, <1>2, <1>7, <1>12, <2>2
  <2>4. WorkerOK(x, j)
    BY <1>1, <1>2, <1>7, <1>12, <2>2, <2>3 DEF WorkerOK
  <2>5. Advances(q, x)
    BY <1>1, <1>2, <1>3, <1>6, <1>8, <1>12, <2>1, <2>2, <2>4 DEF Advances
  <2> QED
    BY <1>12, <2>5, AdvancesSilently
<1>13. CASE /\ p \in j.pages /\ MayFail(q, fails) /\ p = j.count
            /\ workers' = [workers EXCEPT ![q] = [v EXCEPT !.page = 0, !.doc = FALSE,
                                !.looping = FALSE, !.spooled = s]]
            /\ loops' = [loops EXCEPT !.ui = Append(@, Task("docDone", q, 0))]
  <2> DEFINE x == [v EXCEPT !.page = 0, !.doc = FALSE, !.looping = FALSE, !.spooled = s]
  <2>1. workers' = [workers EXCEPT ![q] = x]
    BY <1>13
  <2>2. /\ x \in Workers /\ x.tasks = v.tasks /\ ~x.doc /\ x.page = 0
        /\ x.spooled = s /\ ~x.looping /\ ~x.retry
    BY <1>1, <1>2, <1>7, <1>13 DEF Workers
  <2> HIDE DEF x
  <2>3. Len(x.spooled) = j.count /\ Len(x.spooled) <= j.count
    BY <1>1, <1>2, <1>7, <1>13, <2>2
  <2>4. WorkerOK(x, j)
    BY <1>2, <1>7, <1>13, <2>2, <2>3 DEF WorkerOK
  <2>5. Advances(q, x)
    BY <1>1, <1>2, <1>3, <1>6, <1>8, <1>13, <2>1, <2>2, <2>4 DEF Advances
  <2> QED
    BY <1>8, <1>13, <2>3, <2>5, AdvancesAndTells
<1> QED
  BY <1>5, <1>9, <1>10, <1>11, <1>12, <1>13

\* Every step of a worker's thread keeps the invariant.
LEMMA WorkerThreadKeeps ==
  ASSUME NEW q \in Ids, IInv, WorkerThread(q)
  PROVE  IInv'
BY DocumentChangedKeeps, StartPrintingKeeps, SpoolPageKeeps, RetryKeeps, ThreadEndsKeeps DEF WorkerThread

\* What the renderer sends of the document c, with its count of n pages at a.
OutputAt(m, c, n, a) ==
  \A i \in DOMAIN m :
    /\ m[i].id = c
    /\ \/ m[i].task \in {"cookie", "failed"}
       \/ m[i].task = "count" /\ i = a /\ m[i].n = n /\ n # 0
       \/ m[i].task = "page" /\ a < i /\ a \in DOMAIN m /\ m[a].task = "count" /\ m[a].n = n
            /\ m[i].n # 0 /\ m[i].n <= n

\* The output of a print is a count followed by pages within it.
LEMMA OutputPrepares ==
  ASSUME NEW m \in Seq(UITasks), NEW c, NEW n \in PageCounts, NEW a \in Nat, OutputAt(m, c, n, a)
  PROVE  Prepares(m, c)
<1>1. \A k \in DOMAIN m : k \in Nat
  BY SeqDef
<1> QED
  BY <1>1 DEF OutputAt, Prepares

\* The output may follow the notice of the cookie.
LEMMA CookieFirst ==
  ASSUME NEW m \in Seq(UITasks), NEW c \in Nat, NEW n, NEW a \in Nat, OutputAt(m, c, n, a)
  PROVE  LET t == <<CookieIs(c)>> \o m IN t \in Seq(UITasks) /\ OutputAt(t, c, n, a + 1)
<1> DEFINE s == <<CookieIs(c)>>
           t == s \o m
<1>1. /\ s \in Seq(UITasks) /\ Len(s) = 1 /\ DOMAIN s = 1 .. 1
      /\ s[1].task = "cookie" /\ s[1].id = c
  BY DEF CookieIs, Task, UITasks, TaskNames
<1> HIDE DEF s
<1>2. /\ t \in Seq(UITasks)
      /\ \A i \in DOMAIN s : i \in DOMAIN t /\ t[i] = s[i]
      /\ \A k \in DOMAIN m : k \in Nat \ {0} /\ Len(s) + k \in DOMAIN t /\ t[Len(s) + k] = m[k]
      /\ \A i \in DOMAIN t : i \in DOMAIN s \/ (i - Len(s) \in DOMAIN m /\ i = Len(s) + (i - Len(s)))
  <2>1. t = s \o m
    OBVIOUS
  <2> HIDE DEF t
  <2>2. s \in Seq(UITasks) /\ m \in Seq(UITasks)
    BY <1>1
  <2> QED
    BY <2>1, <2>2, ConcatIs
<1> HIDE DEF t
<1>3. ASSUME NEW k \in DOMAIN m
      PROVE  /\ m[k].id = c
             /\ \/ m[k].task \in {"cookie", "failed"}
                \/ m[k].task = "count" /\ 1 + k = a + 1 /\ m[k].n = n /\ n # 0
                \/ /\ m[k].task = "page" /\ a + 1 < 1 + k /\ a + 1 \in DOMAIN t
                   /\ t[a + 1].task = "count" /\ t[a + 1].n = n /\ m[k].n # 0 /\ m[k].n <= n
  <2>1. /\ m[k].id = c
        /\ \/ m[k].task \in {"cookie", "failed"}
           \/ m[k].task = "count" /\ k = a /\ m[k].n = n /\ n # 0
           \/ m[k].task = "page" /\ a < k /\ a \in DOMAIN m /\ m[a].task = "count" /\ m[a].n = n
                /\ m[k].n # 0 /\ m[k].n <= n
    BY <1>3 DEF OutputAt
  <2>2. a \in DOMAIN m => 1 + a \in DOMAIN t /\ t[1 + a] = m[a]
    BY <1>1, <1>2
  <2>3. k \in Nat /\ 1 + a = a + 1
    BY <1>2, <1>3
  <2> QED
    BY <2>1, <2>2, <2>3
<1>4. ASSUME NEW i \in DOMAIN t, i \notin DOMAIN s
      PROVE  /\ t[i].id = c
             /\ \/ t[i].task \in {"cookie", "failed"}
                \/ t[i].task = "count" /\ i = a + 1 /\ t[i].n = n /\ n # 0
                \/ /\ t[i].task = "page" /\ a + 1 < i /\ a + 1 \in DOMAIN t
                   /\ t[a + 1].task = "count" /\ t[a + 1].n = n /\ t[i].n # 0 /\ t[i].n <= n
  <2>1. PICK k \in DOMAIN m : i = 1 + k
    BY <1>1, <1>2, <1>4
  <2>2. t[i] = m[k]
    BY <1>1, <1>2, <2>1
  <2> QED
    BY <1>3, <2>1, <2>2
<1>5. \A i \in DOMAIN t : i \in DOMAIN s => t[i].id = c /\ t[i].task = "cookie"
  BY <1>1, <1>2
<1>6. OutputAt(t, c, n, a + 1)
  BY <1>4, <1>5 DEF OutputAt
<1> QED
  BY <1>2, <1>6 DEF s, t

\* The count and the pages.
LEMMA CountFirst ==
  ASSUME NEW m \in Seq(UITasks), NEW c \in Nat, NEW n \in Nat \ {0},
         \A i \in DOMAIN m : /\ m[i].id = c
                             /\ \/ m[i].task = "failed"
                                \/ m[i].task = "page" /\ m[i].n # 0 /\ m[i].n <= n
  PROVE  LET t == <<Task("count", c, n)>> \o m IN t \in Seq(UITasks) /\ OutputAt(t, c, n, 1)
<1> DEFINE s == <<Task("count", c, n)>>
           t == s \o m
<1>1. /\ s \in Seq(UITasks) /\ Len(s) = 1 /\ DOMAIN s = 1 .. 1
      /\ s[1].task = "count" /\ s[1].id = c /\ s[1].n = n
  BY DEF Task, UITasks, TaskNames
<1> HIDE DEF s
<1>2. /\ t \in Seq(UITasks)
      /\ \A i \in DOMAIN s : i \in DOMAIN t /\ t[i] = s[i]
      /\ \A k \in DOMAIN m : k \in Nat \ {0} /\ Len(s) + k \in DOMAIN t /\ t[Len(s) + k] = m[k]
      /\ \A i \in DOMAIN t : i \in DOMAIN s \/ (i - Len(s) \in DOMAIN m /\ i = Len(s) + (i - Len(s)))
  <2>1. t = s \o m
    OBVIOUS
  <2> HIDE DEF t
  <2>2. s \in Seq(UITasks) /\ m \in Seq(UITasks)
    BY <1>1
  <2> QED
    BY <2>1, <2>2, ConcatIs
<1> HIDE DEF t
<1>3. 1 \in DOMAIN t /\ t[1].task = "count" /\ t[1].n = n /\ t[1].id = c
  BY <1>1, <1>2
<1>4. ASSUME NEW i \in DOMAIN t, i \notin DOMAIN s
      PROVE  /\ t[i].id = c
             /\ \/ t[i].task = "failed"
                \/ t[i].task = "page" /\ 1 < i /\ t[i].n # 0 /\ t[i].n <= n
  <2>1. PICK k \in DOMAIN m : i = 1 + k
    BY <1>1, <1>2, <1>4
  <2>2. t[i] = m[k] /\ 1 < i
    BY <1>1, <1>2, <2>1
  <2> QED
    BY <2>2
<1>5. \A i \in DOMAIN t : i \in DOMAIN s => i = 1
  BY <1>1, <1>2
<1>6. OutputAt(t, c, n, 1)
  BY <1>3, <1>4, <1>5 DEF OutputAt
<1> QED
  BY <1>2, <1>6 DEF s, t

\* PrintPages sends an output.
LEMMA OutputIs ==
  ASSUME NEW c \in Nat, NEW n \in PageCounts, NEW error \in BOOLEAN
  PROVE  Output(c, n, error) \in Seq(UITasks) /\ \E a \in Nat : OutputAt(Output(c, n, error), c, n, a)
<1>1. n \in Nat
  BY CountIsNat
<1>2. /\ Failed(c) \in Seq(UITasks)
      /\ \A i \in DOMAIN Failed(c) : Failed(c)[i].id = c /\ Failed(c)[i].task = "failed"
  BY DEF Failed, Task, UITasks, TaskNames
<1>3. CASE n = 0
  BY <1>2, <1>3 DEF Output, OutputAt
<1>4. CASE n # 0
  <2> DEFINE p == IF error THEN Failed(c) ELSE [i \in 1 .. n |-> Task("page", c, i)]
             g == [i \in 1 .. n |-> Task("page", c, i)]
  <2>1. g \in Seq(UITasks) /\ \A i \in DOMAIN g : g[i].id = c /\ g[i].task = "page" /\ g[i].n # 0 /\ g[i].n <= n
    <3>1. DOMAIN g = 1 .. n /\ \A i \in 1 .. n : g[i] \in UITasks
      BY <1>1 DEF Task, UITasks, TaskNames
    <3>2. g \in [1 .. n -> UITasks]
      BY <3>1
    <3>3. g \in Seq(UITasks)
      BY <1>1, <3>2, SeqDef
    <3>4. \A i \in 1 .. n : g[i].id = c /\ g[i].task = "page" /\ g[i].n # 0 /\ g[i].n <= n
      BY <1>1 DEF Task
    <3> QED
      BY <3>1, <3>3, <3>4
  <2> HIDE DEF g
  <2>2. p = IF error THEN Failed(c) ELSE g
    BY DEF g
  <2>3. p \in Seq(UITasks) /\ \A i \in DOMAIN p : /\ p[i].id = c
                                 /\ \/ p[i].task = "failed"
                                    \/ p[i].task = "page" /\ p[i].n # 0 /\ p[i].n <= n
    BY <1>2, <2>1, <2>2
  <2>4. Output(c, n, error) = <<Task("count", c, n)>> \o p
    BY <1>4 DEF Output
  <2> HIDE DEF p
  <2>5. /\ <<Task("count", c, n)>> \o p \in Seq(UITasks)
        /\ OutputAt(<<Task("count", c, n)>> \o p, c, n, 1)
    BY <1>1, <1>4, <2>3, CountFirst
  <2> QED
    BY <2>4, <2>5
<1> QED
  BY <1>3, <1>4

\* It may be sent, with and without the cookie before it.
LEMMA OutputSent ==
  ASSUME NEW c \in Nat, NEW n \in PageCounts, NEW error \in BOOLEAN, NEW b, NEW u,
         c <= u.cookies, ~Printed(b, c)
  PROVE  /\ SentOK(b, u, Output(c, n, error), c)
         /\ SentOK(b, u, <<CookieIs(c)>> \o Output(c, n, error), c)
<1> DEFINE m == Output(c, n, error)
           t == <<CookieIs(c)>> \o m
<1>1. PICK a \in Nat : m \in Seq(UITasks) /\ OutputAt(m, c, n, a)
  BY OutputIs
<1> HIDE DEF m
<1>2. t \in Seq(UITasks) /\ OutputAt(t, c, n, a + 1)
  BY <1>1, CookieFirst
<1> HIDE DEF t
<1>3. Prepares(m, c) /\ Prepares(t, c)
  BY <1>1, <1>2, OutputPrepares
<1>4. /\ \A k \in DOMAIN m : m[k].id = c /\ m[k].task \in {"cookie", "failed", "count", "page"}
      /\ \A k \in DOMAIN t : t[k].id = c /\ t[k].task \in {"cookie", "failed", "count", "page"}
  BY <1>1, <1>2 DEF OutputAt
<1>5. SentOK(b, u, m, c)
  BY <1>1, <1>3, <1>4 DEF SentOK, JobTasks
<1>6. SentOK(b, u, t, c)
  BY <1>2, <1>3, <1>4 DEF SentOK, JobTasks
<1> QED
  BY <1>5, <1>6 DEF m, t

\* The notice of a cookie and of a failure may always be sent.
LEMMA NoticesSent ==
  ASSUME NEW c \in Nat, NEW d, NEW b, NEW u, c <= u.cookies
  PROVE  /\ SentOK(b, u, <<>>, d) /\ ~Counts(<<>>)
         /\ SentOK(b, u, <<CookieIs(c)>>, d) /\ ~Counts(<<CookieIs(c)>>)
         /\ SentOK(b, u, <<CookieIs(c)>> \o Failed(c), d) /\ ~Counts(<<CookieIs(c)>> \o Failed(c))
         /\ <<CookieIs(c)>> \o <<>> = <<CookieIs(c)>>
<1> DEFINE m == <<CookieIs(c)>>
           t == <<CookieIs(c)>> \o Failed(c)
           e == <<>>
<1>1. /\ CookieIs(c) \in UITasks /\ CookieIs(c).task = "cookie" /\ CookieIs(c).id = c
      /\ Task("failed", c, 0) \in UITasks /\ Task("failed", c, 0).task = "failed"
      /\ Task("failed", c, 0).id = c
  BY DEF CookieIs, Task, UITasks, TaskNames
<1>2. m \in Seq(UITasks) /\ \A k \in DOMAIN m : m[k].id = c /\ m[k].task \in {"cookie", "failed"}
  BY <1>1
<1>3. /\ Failed(c) \in Seq(UITasks)
      /\ \A k \in DOMAIN Failed(c) : Failed(c)[k].id = c /\ Failed(c)[k].task \in {"cookie", "failed"}
  BY <1>1 DEF Failed
<1>4. t \in Seq(UITasks) /\ \A k \in DOMAIN t : t[k].id = c /\ t[k].task \in {"cookie", "failed"}
  <2> DEFINE g == Failed(c)
  <2>1. t = m \o g
    OBVIOUS
  <2>2. g \in Seq(UITasks) /\ \A k \in DOMAIN g : g[k].id = c /\ g[k].task \in {"cookie", "failed"}
    BY <1>3
  <2> HIDE DEF t, m, g
  <2>3. /\ t \in Seq(UITasks)
        /\ \A i \in DOMAIN m : t[i] = m[i]
        /\ \A k \in DOMAIN g : t[Len(m) + k] = g[k]
        /\ \A i \in DOMAIN t : i \in DOMAIN m \/ (i - Len(m) \in DOMAIN g /\ i = Len(m) + (i - Len(m)))
    BY <1>2, <2>1, <2>2, ConcatIs
  <2> QED
    BY <1>2, <2>2, <2>3
<1>5. e \in Seq(UITasks) /\ \A k \in DOMAIN e : FALSE
  OBVIOUS
<1>6. m \o <<>> = m
  BY <1>2
<1> HIDE DEF m, t, e
<1>7. \A s \in Seq(UITasks) : (\A k \in DOMAIN s : s[k].id = c /\ s[k].task \in {"cookie", "failed"})
                              => SentOK(b, u, s, d) /\ ~Counts(s)
  BY DEF SentOK, Counts, Prepares, JobTasks
<1>8. SentOK(b, u, m, d) /\ ~Counts(m)
  BY <1>2, <1>7
<1>9. SentOK(b, u, t, d) /\ ~Counts(t)
  BY <1>4, <1>7
<1>10. SentOK(b, u, e, d) /\ ~Counts(e)
  BY <1>5, <1>7
<1> QED
  BY <1>6, <1>8, <1>9, <1>10 DEF m, t, e

\* The helper becomes k, and m, which may put out the document c, is sent to the browser.
HelperOK(k, m, c) ==
  /\ k \in Helpers /\ Stacked(k) /\ AskedFor(k, Browser)
  /\ \A i \in DOMAIN k.stack : k.stack[i].cookie <= used.cookies
  /\ k.prep <= used.cookies /\ k.params <= used.cookies
  /\ \A i \in DOMAIN k.stack : k.stack[i].cookie # 0 =>
       /\ ~Printed(Browser, k.stack[i].cookie) /\ k.stack[i].cookie # k.prep
       /\ Counts(m) => k.stack[i].cookie # c
  /\ k.prep # 0 => ~Printed(Browser, k.prep) /\ (Counts(m) => k.prep # c)
RendererSteps(m, c) ==
  /\ UNCHANGED <<queries, tab, jobs, workers>>
  /\ used' \in Uses /\ used'.cookies = used.cookies
  /\ loops' \in Queues /\ loops'.ui = loops.ui \o m
  /\ loops'.io = loops.io /\ loops'.pool = loops.pool /\ loops'.polls = loops.polls
  /\ \A i \in DOMAIN loops'.inbox : \E j \in DOMAIN loops.inbox : loops.inbox[j] = loops'.inbox[i]
  /\ SentOK(Browser, used, m, c)
  /\ HelperOK(helper', m, c)

\* Messages to the renderer are taken.
LEMMA InboxTaken ==
  ASSUME NEW b \in Browsers, Kept(b), NEW x \in Seq(Dones), NEW e,
         \A i \in DOMAIN x : \E j \in DOMAIN b.loops.inbox : b.loops.inbox[j] = x[i],
         e.queries = b.queries, e.tab = b.tab, e.jobs = b.jobs, e.workers = b.workers,
         e.loops.ui = b.loops.ui, e.loops.inbox = x, e.loops.io = b.loops.io,
         e.loops.pool = b.loops.pool, e.loops.polls = b.loops.polls
  PROVE  Kept(e)
<1>1. OnlyJobs(b) /\ WorkersOK(b) /\ Outputs(b) /\ Successes(b)
  BY DEF Kept
<1>2. OnlyJobs(e)
  <2>1. \A i \in DOMAIN e.loops.inbox : e.loops.inbox[i].n = 1 =>
          e.loops.inbox[i].id \in Ids /\ e.queries[e.loops.inbox[i].id].at = "job"
    BY <1>1 DEF OnlyJobs, InboxJobs
  <2>2. /\ \A i \in DOMAIN e.loops.ui : e.loops.ui[i].task \in JobTasks =>
             e.loops.ui[i].id \in Ids /\ e.queries[e.loops.ui[i].id].at = "job"
        /\ \A q \in Ids : e.queries[q].at # "job" =>
             /\ e.jobs[q] = NewJob
             /\ e.workers[q].tasks = <<>> /\ ~e.workers[q].doc /\ e.workers[q].page = 0
             /\ ~e.workers[q].looping /\ ~e.workers[q].retry /\ e.workers[q].spooled = <<>>
    BY <1>1 DEF OnlyJobs, TaskJobs, IdleQueries
  <2>3. /\ \A q \in e.tab.current \cup e.tab.left \cup e.loops.pool \cup e.loops.polls :
             e.queries[q].at = "job"
        /\ e.tab.flushing # 0 => e.queries[e.tab.flushing].at = "job"
        /\ e.tab.job # 0 => e.queries[e.tab.job].at = "job"
        /\ \A q \in e.loops.io : e.queries[q].at = "released"
    BY <1>1 DEF OnlyJobs, HeldJobs
  <2> QED
    BY <2>1, <2>2, <2>3 DEF OnlyJobs, HeldJobs, TaskJobs, InboxJobs, IdleQueries
<1>3. WorkersOK(e)
  BY <1>1 DEF WorkersOK
<1>4. Outputs(e)
  <2>1. \A i : PageOK(b, i) => PageOK(e, i)
    BY DEF PageOK
  <2>2. \A i : CountOK(b, i) => CountOK(e, i)
    BY DEF CountOK
  <2> QED
    BY <1>1, <2>1, <2>2 DEF Outputs
<1>5. Successes(e)
  <2>1. \A r : Full(b, r) <=> Full(e, r)
    BY DEF Full
  <2> QED
    BY <1>1, <2>1 DEF Successes
<1> QED
  BY <1>2, <1>3, <1>4, <1>5 DEF Kept

\* A step of the renderer whose messages and calls are in order keeps the invariant.
LEMMA RendererKeeps ==
  ASSUME NEW m, NEW c, IInv, RendererSteps(m, c)
  PROVE  IInv'
<1> DEFINE b == Browser
           d == Browser'
           x == loops'.inbox
           e == [b EXCEPT !.loops.inbox = x]
           k == helper'
<1>1. /\ helper \in Helpers /\ b \in Browsers /\ used \in Uses
      /\ Consistent(helper, b, used) /\ Tracked(b) /\ Kept(b)
  BY DEF IInv, Consistent
<1>2. /\ b.queries = queries /\ b.jobs = jobs /\ b.workers = workers /\ b.tab = tab /\ b.loops = loops
  BY DEF Browser
<1>3. /\ d.queries = b.queries /\ d.jobs = b.jobs /\ d.tab = b.tab /\ d.workers = b.workers
      /\ d.loops = loops' /\ d.loops \in Queues
      /\ d.loops.ui = b.loops.ui \o m /\ d.loops.inbox = x
      /\ d.loops.io = b.loops.io /\ d.loops.pool = b.loops.pool /\ d.loops.polls = b.loops.polls
      /\ d = [queries |-> d.queries, tab |-> d.tab, jobs |-> d.jobs, workers |-> d.workers, loops |-> d.loops]
  BY <1>2 DEF Browser, RendererSteps
<1>4. /\ \A i \in DOMAIN x : \E j \in DOMAIN b.loops.inbox : b.loops.inbox[j] = x[i]
      /\ SentOK(b, used, m, c) /\ HelperOK(k, m, c)
      /\ used' \in Uses /\ used'.cookies = used.cookies
  BY <1>2 DEF RendererSteps
<1>5. /\ k \in Helpers /\ Stacked(k) /\ AskedFor(k, b)
      /\ \A i \in DOMAIN k.stack : k.stack[i].cookie <= used.cookies
      /\ k.prep <= used.cookies /\ k.params <= used.cookies
      /\ \A i \in DOMAIN k.stack : k.stack[i].cookie # 0 =>
           /\ ~Printed(b, k.stack[i].cookie) /\ k.stack[i].cookie # k.prep
           /\ Counts(m) => k.stack[i].cookie # c
      /\ k.prep # 0 => ~Printed(b, k.prep) /\ (Counts(m) => k.prep # c)
  BY <1>4 DEF HelperOK
<1>6. helper' = k
  OBVIOUS
<1> HIDE DEF b, d, k
<1>7. x \in Seq(Dones)
  BY <1>3 DEF Queues
<1> HIDE DEF x
<1>8. /\ b.workers \in [Ids -> Workers] /\ b.loops \in Queues /\ b.tab \in Tabs
      /\ b.queries \in [Ids -> Queries] /\ b.jobs \in [Ids -> Jobs]
  BY <1>1 DEF Browsers
<1>9. /\ e.queries = b.queries /\ e.jobs = b.jobs /\ e.tab = b.tab /\ e.workers = b.workers
      /\ e.loops = [b.loops EXCEPT !.inbox = x]
  BY <1>1 DEF Browsers
<1>10. /\ e.loops \in Queues /\ e.loops.inbox = x /\ e.loops.ui = b.loops.ui
       /\ e.loops.io = b.loops.io /\ e.loops.pool = b.loops.pool /\ e.loops.polls = b.loops.polls
  <2> HIDE DEF e
  <2>1. e.loops \in Queues
    BY <1>7, <1>8, <1>9 DEF Queues
  <2>2. /\ e.loops.inbox = x /\ e.loops.ui = b.loops.ui
        /\ e.loops.io = b.loops.io /\ e.loops.pool = b.loops.pool /\ e.loops.polls = b.loops.polls
    BY <1>8, <1>9 DEF Queues
  <2> QED
    BY <2>1, <2>2
<1>11. e \in Browsers
  BY <1>1, <1>9, <1>10 DEF Browsers
<1> HIDE DEF e
<1>12. Kept(e)
  BY <1>1, <1>4, <1>7, <1>9, <1>10, InboxTaken
<1>13. \A y : Printed(e, y) <=> Printed(b, y)
  BY <1>9, <1>10 DEF Printed
<1>14. SentOK(e, used, m, c)
  <2>1. \A r : Full(e, r) <=> Full(b, r)
    BY <1>9 DEF Full
  <2> QED
    BY <1>4, <1>9, <1>13, <2>1 DEF SentOK
<1>15. Sends(e, d, m)
  BY <1>3, <1>9, <1>10 DEF Sends
<1>16. /\ Kept(d)
       /\ \A y : Printed(d, y) => Printed(e, y) \/ (y = c /\ Counts(m))
       /\ QueueGiven(e, used) => QueueGiven(d, used)
  BY <1>11, <1>12, <1>14, <1>15, SentKept
<1>17. d \in Browsers
  BY <1>3, <1>8 DEF Browsers
<1>18. AskedFor(k, d)
  BY <1>3, <1>5 DEF AskedFor
<1>19. Unspent(k, d)
  BY <1>5, <1>13, <1>16 DEF Unspent
<1>20. Given(k, d, used')
  <2>1. QueueGiven(e, used)
    BY <1>1, <1>10 DEF Consistent, Given, QueueGiven
  <2>2. QueueGiven(d, used)
    BY <1>16, <2>1
  <2>3. (\A q \in Ids : d.queries[q].cookie <= used.cookies) /\ d.tab.cookie <= used.cookies
    BY <1>1, <1>3 DEF Consistent, Given
  <2> QED
    BY <1>4, <1>5, <2>2, <2>3 DEF Given, QueueGiven
<1>21. Tracked(d)
  BY <1>1, <1>3 DEF Tracked
<1> QED
  BY <1>4, <1>5, <1>6, <1>16, <1>17, <1>18, <1>19, <1>20, <1>21 DEF IInv, Consistent, d

\* With only calls that it had before.
LEMMA FewerCalls ==
  ASSUME IInv, NEW k \in Helpers, NEW m, NEW c, Stacked(k),
         \A i \in DOMAIN k.stack : i \in DOMAIN helper.stack /\ k.stack[i] = helper.stack[i],
         k.prep <= used.cookies, k.params <= used.cookies,
         k.prep # 0 => /\ ~Printed(Browser, k.prep) /\ (Counts(m) => k.prep # c)
                       /\ \A i \in DOMAIN k.stack : k.stack[i].cookie # k.prep,
         Counts(m) => \A i \in DOMAIN k.stack : k.stack[i].cookie # 0 => k.stack[i].cookie # c
  PROVE  HelperOK(k, m, c)
<1>1. AskedFor(helper, Browser) /\ Given(helper, Browser, used) /\ Unspent(helper, Browser)
  BY DEF IInv, Consistent
<1>2. AskedFor(k, Browser)
  <2>1. \A i \in DOMAIN k.stack : Asks(k.stack[i], Browser.queries)
    BY <1>1 DEF AskedFor
  <2>2. \A i, j \in DOMAIN k.stack : i # j => Apart(k.stack[i], k.stack[j])
    BY <1>1 DEF AskedFor
  <2> QED
    BY <1>1, <2>1, <2>2 DEF AskedFor
<1>3. \A i \in DOMAIN k.stack : k.stack[i].cookie <= used.cookies
  BY <1>1 DEF Given
<1>4. \A i \in DOMAIN k.stack : k.stack[i].cookie # 0 => ~Printed(Browser, k.stack[i].cookie)
  BY <1>1 DEF Unspent
<1>5. \A i \in DOMAIN k.stack : k.stack[i].cookie # 0 => k.stack[i].cookie # k.prep
  <2>1. CASE k.prep = 0
    BY <2>1
  <2>2. CASE k.prep # 0
    BY <2>2
  <2> QED
    BY <2>1, <2>2
<1> QED
  BY <1>2, <1>3, <1>4, <1>5 DEF HelperOK

\* What the invariant says of the renderer.
LEMMA HelperFacts ==
  ASSUME IInv
  PROVE  /\ helper \in Helpers /\ used \in Uses /\ used.cookies \in Nat /\ helper.prep \in Nat
         /\ helper.prep <= used.cookies /\ helper.params <= used.cookies /\ NoParams <= used.cookies
         /\ Stacked(helper) /\ AskedFor(helper, Browser) /\ Unspent(helper, Browser)
         /\ \A i \in DOMAIN helper.stack : helper.stack[i].cookie <= used.cookies
         /\ helper.stack \in Seq(Calls) /\ helper.alive \in BOOLEAN
         /\ loops \in Queues /\ loops.ui \in Seq(UITasks) /\ loops.inbox \in Seq(Dones)
<1>1. /\ helper \in Helpers /\ used \in Uses
      /\ Stacked(helper) /\ AskedFor(helper, Browser) /\ Unspent(helper, Browser)
      /\ Given(helper, Browser, used)
  BY DEF IInv, Consistent
<1>2. used.cookies \in Nat
  BY <1>1 DEF Uses
<1>3. helper.prep \in Nat /\ helper.alive \in BOOLEAN /\ helper.stack \in Seq(Calls)
  BY <1>1 DEF Helpers
<1>4. NoParams <= used.cookies
  BY <1>2 DEF NoParams
<1>5. loops \in Queues
  BY DEF IInv, Browser, Browsers
<1>6. loops.ui \in Seq(UITasks) /\ loops.inbox \in Seq(Dones)
  BY <1>5 DEF Queues
<1> QED
  BY <1>1, <1>2, <1>3, <1>4, <1>5, <1>6 DEF Given

\* So does one that sends messages and takes none.
LEMMA SendKeeps ==
  ASSUME NEW m, NEW c, IInv, Send(m), UNCHANGED <<queries, tab, jobs, workers>>,
         used' \in Uses, used'.cookies = used.cookies,
         SentOK(Browser, used, m, c), HelperOK(helper', m, c)
  PROVE  IInv'
<1>1. loops \in Queues /\ loops.ui \in Seq(UITasks) /\ m \in Seq(UITasks)
  BY HelperFacts DEF SentOK
<1> DEFINE v == loops.ui \o m
<1>2. v \in Seq(UITasks) /\ loops' = [loops EXCEPT !.ui = v]
  BY <1>1, ConcatIs DEF Send
<1> HIDE DEF v
<1>3. loops' \in Queues /\ loops'.ui = v
  BY <1>1, <1>2 DEF Queues
<1>4. /\ loops'.inbox = loops.inbox /\ loops'.io = loops.io /\ loops'.pool = loops.pool
      /\ loops'.polls = loops.polls
  BY <1>1, <1>2 DEF Queues
<1>5. RendererSteps(m, c)
  BY <1>3, <1>4 DEF RendererSteps, v
<1> QED
  BY <1>5, RendererKeeps

\* The call of Print on top of the others.
LEMMA TopFacts ==
  ASSUME IInv, helper.stack # <<>>
  PROVE  /\ Top \in Calls /\ Len(helper.stack) \in DOMAIN helper.stack /\ Top = helper.stack[Len(helper.stack)]
         /\ Top.cookie \in Nat /\ Top.cookie <= used.cookies
         /\ Top.cookie # 0 => ~Printed(Browser, Top.cookie) /\ Top.cookie # helper.prep
         /\ Top.at = "default" => helper.prep = 0
         /\ Asks(Top, Browser.queries)
         /\ Popped \in Seq(Calls) /\ Len(Popped) + 1 = Len(helper.stack) /\ Len(Popped) \in Nat
         /\ DOMAIN Popped = 1 .. Len(Popped)
         /\ \A i \in DOMAIN Popped :
              /\ i \in DOMAIN helper.stack /\ Popped[i] = helper.stack[i] /\ Popped[i].at = "ask"
              /\ Apart(Top, Popped[i]) /\ Apart(Popped[i], Top)
<1> DEFINE s == helper.stack
           n == Len(s)
           p == SubSeq(s, 1, n - 1)
<1>1. /\ s \in Seq(Calls) /\ Stacked(helper) /\ AskedFor(helper, Browser) /\ Unspent(helper, Browser)
      /\ \A i \in DOMAIN s : s[i].cookie <= used.cookies
  BY HelperFacts
<1>2. /\ n \in Nat /\ n # 0 /\ DOMAIN s = 1 .. n /\ n \in DOMAIN s /\ s[n] \in Calls
      /\ p \in Seq(Calls) /\ Len(p) = n - 1 /\ DOMAIN p = 1 .. n - 1
      /\ \A i \in 1 .. n - 1 : p[i] = s[i] /\ i \in DOMAIN s /\ i # n
  <2>1. s # <<>> /\ s \in Seq(Calls)
    BY <1>1
  <2> HIDE DEF s
  <2>2. /\ n \in Nat /\ n # 0 /\ DOMAIN s = 1 .. n /\ n \in DOMAIN s
    BY <2>1
  <2>3. s[n] \in Calls
    BY <2>1, <2>2
  <2>4. n - 1 \in Nat
    BY <2>2
  <2>5. p \in Seq(Calls) /\ Len(p) = n - 1 /\ \A i \in 1 .. n - 1 : p[i] = s[i]
    BY <2>1, <2>2, <2>4
  <2>6. DOMAIN p = 1 .. n - 1
    BY <2>5
  <2>7. \A i \in 1 .. n - 1 : i \in DOMAIN s /\ i # n
    <3>1. n \in Nat /\ DOMAIN s = 1 .. n
      BY <2>2
    <3> HIDE DEF n
    <3>2. \A i \in 1 .. n - 1 : i \in 1 .. n /\ i # n
      BY <3>1
    <3> QED
      BY <3>1, <3>2
  <2> QED
    BY <2>2, <2>3, <2>5, <2>6, <2>7
<1>3. Top = s[n] /\ Popped = p
  BY DEF Top, Popped
<1>4. s[n].cookie \in Nat
  BY <1>2 DEF Calls
<1>5. /\ s[n].cookie <= used.cookies
      /\ s[n].cookie # 0 => ~Printed(Browser, s[n].cookie) /\ s[n].cookie # helper.prep
      /\ s[n].at = "default" => helper.prep = 0
      /\ Asks(s[n], Browser.queries)
  <2>1. s[n].cookie # 0 => ~Printed(Browser, s[n].cookie) /\ s[n].cookie # helper.prep
    BY <1>1, <1>2 DEF Unspent
  <2>2. s[n].at = "default" => helper.prep = 0
    BY <1>1, <1>2 DEF Stacked
  <2>3. Asks(s[n], Browser.queries)
    BY <1>1, <1>2 DEF AskedFor
  <2> QED
    BY <1>1, <1>2, <2>1, <2>2, <2>3
<1>6. \A i \in 1 .. n - 1 : s[i].at = "ask" /\ Apart(s[n], s[i]) /\ Apart(s[i], s[n])
  <2>1. \A i \in DOMAIN s : i # n => s[i].at = "ask"
    BY <1>1 DEF Stacked
  <2>2. \A i, j \in DOMAIN s : i # j => Apart(s[i], s[j])
    BY <1>1 DEF AskedFor
  <2> QED
    BY <1>2, <2>1, <2>2
<1> HIDE DEF s, n, p
<1>7. Len(p) + 1 = n /\ Len(p) \in Nat /\ DOMAIN p = 1 .. Len(p)
  BY <1>2
<1> QED
  BY <1>2, <1>3, <1>4, <1>5, <1>6, <1>7 DEF s, n

\* A call is over: with the helper's new parameters.
LEMMA CallEnds ==
  ASSUME IInv, helper.stack # <<>>, NEW k, NEW m, NEW c,
         NEW params \in {NoParams, Top.cookie}, NEW prep \in {0, Top.cookie},
         k = [helper EXCEPT !.params = params, !.prep = prep, !.stack = Popped],
         prep # 0 => params = prep /\ ~Counts(m),
         Counts(m) => c = Top.cookie
  PROVE  HelperOK(k, m, c)
<1>1. /\ helper \in Helpers /\ NoParams <= used.cookies /\ used.cookies \in Nat
  BY HelperFacts
<1>2. /\ Top.cookie \in Nat /\ Top.cookie <= used.cookies
      /\ Top.cookie # 0 => ~Printed(Browser, Top.cookie) /\ Top.cookie # helper.prep
      /\ Popped \in Seq(Calls)
      /\ \A i \in DOMAIN Popped :
              /\ i \in DOMAIN helper.stack /\ Popped[i] = helper.stack[i] /\ Popped[i].at = "ask"
              /\ Apart(Top, Popped[i])
  BY TopFacts
<1>3. k.stack = Popped /\ k.prep = prep /\ k.params = params /\ k \in Helpers
  <2> DEFINE p == Popped
  <2>1. p \in Seq(Calls) /\ prep \in Nat /\ params \in Nat \cup {NoParams}
    BY <1>2
  <2>2. k = [helper EXCEPT !.params = params, !.prep = prep, !.stack = p]
    OBVIOUS
  <2> HIDE DEF p
  <2>3. k \in Helpers
    BY <1>1, <2>1, <2>2 DEF Helpers
  <2>4. k.stack = p /\ k.prep = prep /\ k.params = params
    BY <1>1, <2>2 DEF Helpers
  <2> QED
    BY <2>3, <2>4 DEF p
<1>4. \A i \in DOMAIN k.stack : i \in DOMAIN helper.stack /\ k.stack[i] = helper.stack[i] /\ k.stack[i].at = "ask"
  BY <1>2, <1>3
<1>5. Stacked(k)
  <2>1. k.stack # <<>> => Len(k.stack) \in DOMAIN k.stack
    BY <1>2, <1>3
  <2> QED
    BY <1>3, <1>4, <2>1 DEF Stacked
<1>6. \A i \in DOMAIN k.stack : Top.cookie # 0 => k.stack[i].cookie # Top.cookie
  BY <1>2, <1>3 DEF Apart
<1>7. k.prep <= used.cookies /\ k.params <= used.cookies
  BY <1>1, <1>2, <1>3
<1>8. k.prep # 0 => /\ ~Printed(Browser, k.prep) /\ ~Counts(m)
                    /\ \A i \in DOMAIN k.stack : k.stack[i].cookie # k.prep
  BY <1>2, <1>3, <1>6
<1>9. Counts(m) => \A i \in DOMAIN k.stack : k.stack[i].cookie # 0 => k.stack[i].cookie # c
  BY <1>6
<1> QED
  BY <1>3, <1>4, <1>5, <1>7, <1>8, <1>9, FewerCalls

\* The user's answer, or that there is none, keeps the invariant.
LEMMA SettingsFromUserKeeps ==
  ASSUME IInv, NEW lost, NEW selection, NEW n \in PageCounts, NEW error \in BOOLEAN,
         SettingsFromUser(lost, selection, n, error)
  PROVE  IInv'
<1> DEFINE c == Top.cookie
<1>1. helper.stack # <<>> /\ UNCHANGED <<queries, tab, jobs, workers, used>>
  BY DEF SettingsFromUser
<1>2. /\ helper \in Helpers /\ used \in Uses /\ helper.prep \in Nat
  BY HelperFacts
<1>3. c \in Nat /\ c <= used.cookies /\ (c # 0 => ~Printed(Browser, c))
  BY <1>1, TopFacts
<1>4. \/ helper' = Finished(Popped) /\ Send(<<CookieIs(c)>>)
      \/ helper' = Finished(Popped) /\ Send(<<CookieIs(c)>> \o Failed(c))
      \/ /\ helper' = [helper EXCEPT !.params = c, !.prep = c, !.stack = Popped]
         /\ Send(<<CookieIs(c)>>)
      \/ /\ c # 0 /\ helper.prep = 0
         /\ helper' = IF error \/ n = 0 THEN Finished(Popped)
                      ELSE [helper EXCEPT !.params = c, !.stack = Popped]
         /\ Send(<<CookieIs(c)>> \o Output(c, n, error))
  BY Zenon DEF SettingsFromUser
<1>5. Finished(Popped) = [helper EXCEPT !.params = NoParams, !.prep = 0, !.stack = Popped]
  BY DEF Finished
<1>6. helper.prep = 0 => [helper EXCEPT !.params = c, !.stack = Popped]
                         = [helper EXCEPT !.params = c, !.prep = 0, !.stack = Popped]
  BY <1>2 DEF Helpers
<1> HIDE DEF c
<1>7. c = Top.cookie
  BY DEF c
<1>8. ASSUME NEW m, ~Counts(m), SentOK(Browser, used, m, c), Send(m),
             \/ helper' = Finished(Popped)
             \/ helper' = [helper EXCEPT !.params = c, !.prep = c, !.stack = Popped]
      PROVE  IInv'
  <2>1. HelperOK(helper', m, c)
    <3>1. CASE helper' = Finished(Popped)
      BY <1>1, <1>5, <1>8, <3>1, CallEnds
    <3>2. CASE helper' = [helper EXCEPT !.params = c, !.prep = c, !.stack = Popped]
      BY <1>1, <1>7, <1>8, <3>2, CallEnds
    <3> QED
      BY <1>8, <3>1, <3>2
  <2> QED
    BY <1>1, <1>2, <1>8, <2>1, SendKeeps
<1>9. /\ SentOK(Browser, used, <<CookieIs(c)>>, c) /\ ~Counts(<<CookieIs(c)>>)
      /\ SentOK(Browser, used, <<CookieIs(c)>> \o Failed(c), c) /\ ~Counts(<<CookieIs(c)>> \o Failed(c))
  BY <1>3, NoticesSent
<1>10. CASE helper' = Finished(Popped) /\ Send(<<CookieIs(c)>>)
  BY <1>8, <1>9, <1>10
<1>11. CASE helper' = Finished(Popped) /\ Send(<<CookieIs(c)>> \o Failed(c))
  BY <1>8, <1>9, <1>11
<1>12. CASE /\ helper' = [helper EXCEPT !.params = c, !.prep = c, !.stack = Popped]
            /\ Send(<<CookieIs(c)>>)
  BY <1>8, <1>9, <1>12
<1>13. CASE /\ c # 0 /\ helper.prep = 0
            /\ helper' = IF error \/ n = 0 THEN Finished(Popped)
                         ELSE [helper EXCEPT !.params = c, !.stack = Popped]
            /\ Send(<<CookieIs(c)>> \o Output(c, n, error))
  <2> DEFINE m == <<CookieIs(c)>> \o Output(c, n, error)
  <2>1. SentOK(Browser, used, m, c) /\ Send(m)
    BY <1>3, <1>13, OutputSent
  <2> HIDE DEF m
  <2>2. HelperOK(helper', m, c)
    <3>1. CASE error \/ n = 0
      BY <1>1, <1>5, <1>7, <1>13, <3>1, CallEnds
    <3>2. CASE ~(error \/ n = 0)
      BY <1>1, <1>6, <1>7, <1>13, <3>2, CallEnds
    <3> QED
      BY <3>1, <3>2
  <2> QED
    BY <1>1, <1>2, <2>1, <2>2, SendKeeps
<1> QED
  BY <1>4, <1>7, <1>10, <1>11, <1>12, <1>13

\* The helper's parameters change while its calls wait.
LEMMA CallsStay ==
  ASSUME IInv, NEW k, NEW m, NEW c,
         \/ k = [helper EXCEPT !.prep = 0]
         \/ k = [helper EXCEPT !.params = NoParams, !.prep = 0, !.stack = helper.stack]
         \/ k = [NewHelper EXCEPT !.alive = FALSE],
         Counts(m) => c = 0 \/ c = helper.prep
  PROVE  HelperOK(k, m, c)
<1>1. /\ helper \in Helpers /\ NoParams <= used.cookies /\ used.cookies \in Nat
      /\ helper.params <= used.cookies /\ Stacked(helper) /\ Unspent(helper, Browser)
  BY HelperFacts
<1>2. /\ k \in Helpers /\ k.prep = 0 /\ k.params \in {helper.params, NoParams}
      /\ k.stack = helper.stack \/ k.stack = <<>>
  <2>1. CASE k = [helper EXCEPT !.prep = 0]
    BY <1>1, <2>1 DEF Helpers
  <2>2. CASE k = [helper EXCEPT !.params = NoParams, !.prep = 0, !.stack = helper.stack]
    BY <1>1, <2>2 DEF Helpers
  <2>3. CASE k = [NewHelper EXCEPT !.alive = FALSE]
    <3> DEFINE e == <<>>
    <3>1. e \in Seq(Calls)
      OBVIOUS
    <3>2. NewHelper = [alive |-> TRUE, params |-> NoParams, prep |-> 0, stack |-> e]
      BY DEF NewHelper
    <3> HIDE DEF e
    <3>3. NewHelper \in Helpers
      BY <3>1, <3>2 DEF Helpers
    <3>4. NewHelper.prep = 0 /\ NewHelper.params = NoParams /\ NewHelper.stack = e
      BY <3>2
    <3>5. k \in Helpers /\ k.prep = 0 /\ k.params = NoParams /\ k.stack = e
      BY <2>3, <3>3, <3>4 DEF Helpers
    <3> QED
      BY <3>5 DEF e
  <2> QED
    BY <2>1, <2>2, <2>3
<1>3. \A i \in DOMAIN k.stack : i \in DOMAIN helper.stack /\ k.stack[i] = helper.stack[i]
  BY <1>2
<1>4. Stacked(k)
  BY <1>1, <1>2 DEF Stacked
<1>5. k.prep <= used.cookies /\ k.params <= used.cookies
  BY <1>1, <1>2
<1>6. Counts(m) => \A i \in DOMAIN k.stack : k.stack[i].cookie # 0 => k.stack[i].cookie # c
  BY <1>1, <1>3 DEF Unspent
<1> QED
  BY <1>2, <1>3, <1>4, <1>5, <1>6, FewerCalls

\* OnFramePreparedForPrintPages keeps the invariant.
LEMMA FramePreparedKeeps ==
  ASSUME IInv, NEW n \in PageCounts, NEW error \in BOOLEAN, FramePrepared(n, error)
  PROVE  IInv'
<1> DEFINE c == helper.params
           m == Output(c, n, error)
<1>1. /\ helper.prep # 0 /\ UNCHANGED <<queries, tab, jobs, workers, used>> /\ Send(m)
      /\ helper' = IF error \/ n = 0 THEN Finished(helper.stack) ELSE [helper EXCEPT !.prep = 0]
  BY DEF FramePrepared
<1>2. /\ helper \in Helpers /\ used \in Uses /\ helper.prep \in Nat /\ helper.prep <= used.cookies
      /\ Stacked(helper) /\ Unspent(helper, Browser)
  BY HelperFacts
<1>3. c = helper.prep /\ ~Printed(Browser, c)
  BY <1>1, <1>2 DEF Stacked, Unspent
<1>4. SentOK(Browser, used, m, c)
  BY <1>2, <1>3, OutputSent
<1> HIDE DEF c, m
<1>5. HelperOK(helper', m, c)
  <2>1. CASE error \/ n = 0
    <3>1. helper' = [helper EXCEPT !.params = NoParams, !.prep = 0, !.stack = helper.stack]
      BY <1>1, <2>1 DEF Finished
    <3> QED
      BY <1>3, <3>1, CallsStay
  <2>2. CASE ~(error \/ n = 0)
    BY <1>1, <1>3, <2>2, CallsStay
  <2> QED
    BY <2>1, <2>2
<1> QED
  BY <1>1, <1>2, <1>4, <1>5, SendKeeps

\* OnPrintingDone keeps the invariant, whichever print it is about.
LEMMA PrintingDoneKeeps ==
  ASSUME IInv, PrintingDone
  PROVE  IInv'
<1> DEFINE m == <<>>
           x == Tail(loops.inbox)
<1>1. /\ loops.inbox # <<>> /\ UNCHANGED <<queries, tab, jobs, workers, used>>
      /\ helper' = [helper EXCEPT !.params = NoParams, !.prep = 0, !.stack = helper.stack]
      /\ loops' = [loops EXCEPT !.inbox = x]
  BY DEF PrintingDone, Finished
<1>2. used \in Uses /\ loops \in Queues /\ loops.ui \in Seq(UITasks) /\ loops.inbox \in Seq(Dones)
      /\ used.cookies \in Nat
  BY HelperFacts
<1>3. SentOK(Browser, used, m, 0) /\ ~Counts(m)
  <2>1. 0 \in Nat /\ 0 <= used.cookies
    BY <1>2
  <2> QED
    BY <2>1, NoticesSent
<1>4. loops.ui = loops.ui \o m
  BY <1>2
<1>5. x \in Seq(Dones) /\ \A i \in DOMAIN x : \E j \in DOMAIN loops.inbox : loops.inbox[j] = x[i]
  BY <1>1, <1>2, TailIs
<1> HIDE DEF m, x
<1>6. HelperOK(helper', m, 0)
  BY <1>1, <1>3, CallsStay
<1>7. loops' \in Queues
  BY <1>1, <1>2, <1>5 DEF Queues
<1>8. /\ loops'.ui = loops.ui /\ loops'.inbox = x /\ loops'.io = loops.io /\ loops'.pool = loops.pool
      /\ loops'.polls = loops.polls
  BY <1>1, <1>2 DEF Queues
<1>9. RendererSteps(m, 0)
  BY <1>1, <1>2, <1>3, <1>4, <1>5, <1>6, <1>7, <1>8 DEF RendererSteps
<1> QED
  BY <1>9, RendererKeeps

\* The death of the renderer keeps the invariant.
LEMMA DiesKeeps ==
  ASSUME IInv, Dies
  PROVE  IInv'
<1> DEFINE t == Task("gone", 0, 0)
           m == <<t>>
           v == Append(loops.ui, t)
           e == <<>>
<1>1. /\ UNCHANGED <<queries, tab, jobs, workers>> /\ used' = [used EXCEPT !.faults = @ + 1]
      /\ helper' = [NewHelper EXCEPT !.alive = FALSE]
      /\ loops' = [loops EXCEPT !.ui = v, !.inbox = e]
  BY DEF Dies
<1>2. used \in Uses /\ loops \in Queues /\ loops.ui \in Seq(UITasks)
  BY HelperFacts
<1>3. t \in UITasks /\ t.task = "gone"
  BY DEF Task, UITasks, TaskNames
<1> HIDE DEF t
<1>4. SentOK(Browser, used, m, 0) /\ ~Counts(m)
  <2>1. SentOK(Browser, used, m, 0)
    BY <1>3, OneSent DEF JobTasks
  <2> QED
    BY <1>3, <2>1 DEF Counts
<1>5. v = loops.ui \o m /\ v \in Seq(UITasks) /\ e \in Seq(Dones) /\ DOMAIN e = {}
  BY <1>2, <1>3
<1> HIDE DEF m, v, e
<1>6. HelperOK(helper', m, 0)
  BY <1>1, <1>4, CallsStay
<1>7. loops' \in Queues
  BY <1>1, <1>2, <1>5 DEF Queues
<1>8. /\ loops'.ui = v /\ loops'.inbox = e /\ loops'.io = loops.io /\ loops'.pool = loops.pool
      /\ loops'.polls = loops.polls
  BY <1>1, <1>2 DEF Queues
<1>9. \A i \in DOMAIN loops'.inbox : \E j \in DOMAIN loops.inbox : loops.inbox[j] = loops'.inbox[i]
  BY <1>5, <1>8
<1>10. used' \in Uses /\ used'.cookies = used.cookies
  BY <1>1, <1>2 DEF Uses
<1>11. RendererSteps(m, 0)
  BY <1>1, <1>4, <1>5, <1>6, <1>7, <1>8, <1>9, <1>10 DEF RendererSteps
<1> QED
  BY <1>11, RendererKeeps

\* A call of Print begins to wait on top of others.
LEMMA CallBegins ==
  ASSUME IInv, NEW m, ~Counts(m), NEW s \in Seq(Calls), NEW f \in Calls, NEW k,
         \A i \in DOMAIN s : /\ i \in DOMAIN helper.stack /\ s[i] = helper.stack[i] /\ s[i].at = "ask"
                             /\ Apart(f, s[i]) /\ Apart(s[i], f),
         Asks(f, Browser.queries), f.cookie <= used.cookies, f.cookie # 0 => ~Printed(Browser, f.cookie),
         helper.prep = 0,
         NEW params \in {NoParams, helper.params},
         k = [helper EXCEPT !.params = params, !.stack = Append(s, f)]
  PROVE  HelperOK(k, m, 0)
<1> DEFINE t == Append(s, f)
           n == Len(s)
<1>1. /\ helper \in Helpers /\ NoParams <= used.cookies /\ helper.params <= used.cookies
      /\ Unspent(helper, Browser) /\ AskedFor(helper, Browser)
      /\ \A i \in DOMAIN helper.stack : helper.stack[i].cookie <= used.cookies
  BY HelperFacts
<1>2. /\ n \in Nat /\ t \in Seq(Calls) /\ Len(t) = n + 1 /\ DOMAIN t = 1 .. n + 1 /\ DOMAIN s = 1 .. n
      /\ t[n + 1] = f /\ \A i \in 1 .. n : t[i] = s[i]
  OBVIOUS
<1> HIDE DEF t, n
<1>3. k.stack = t /\ k.params = params /\ k.prep = 0 /\ k \in Helpers
  <2>1. k = [helper EXCEPT !.params = params, !.stack = t] /\ params \in Nat \cup {NoParams}
    BY <1>1 DEF t, Helpers
  <2>2. k \in Helpers
    BY <1>1, <1>2, <2>1 DEF Helpers
  <2>3. k.stack = t /\ k.params = params /\ k.prep = helper.prep
    BY <1>1, <2>1 DEF Helpers
  <2> QED
    BY <2>2, <2>3
<1>4. \A i \in DOMAIN t : \/ i = n + 1 /\ t[i] = f
                          \/ i \in DOMAIN s /\ i # n + 1 /\ t[i] = s[i]
  BY <1>2
<1>5. \A i \in DOMAIN t : i # Len(t) => t[i].at = "ask"
  BY <1>2, <1>4
<1>6. Stacked(k)
  BY <1>3, <1>5 DEF Stacked
<1>7. AskedFor(k, Browser)
  <2>1. \A i \in DOMAIN t : Asks(t[i], Browser.queries)
    BY <1>1, <1>4 DEF AskedFor
  <2>2. ASSUME NEW i \in DOMAIN t, NEW j \in DOMAIN t, i # j PROVE Apart(t[i], t[j])
    <3>1. CASE i = n + 1
      BY <1>4, <2>2, <3>1
    <3>2. CASE j = n + 1
      BY <1>4, <2>2, <3>2
    <3>3. CASE i # n + 1 /\ j # n + 1
      <4>1. t[i] = helper.stack[i] /\ t[j] = helper.stack[j] /\ i \in DOMAIN helper.stack /\ j \in DOMAIN helper.stack
        BY <1>4, <2>2, <3>3
      <4> QED
        BY <1>1, <2>2, <4>1 DEF AskedFor
    <3> QED
      BY <3>1, <3>2, <3>3
  <2> QED
    BY <1>1, <1>3, <2>1, <2>2 DEF AskedFor
<1>8. \A i \in DOMAIN t : t[i].cookie <= used.cookies
  BY <1>1, <1>4
<1>9. \A i \in DOMAIN t : t[i].cookie # 0 => ~Printed(Browser, t[i].cookie)
  BY <1>1, <1>4 DEF Unspent
<1>10. 0 <= used.cookies
  BY HelperFacts
<1> QED
  BY <1>1, <1>3, <1>6, <1>7, <1>8, <1>9, <1>10 DEF HelperOK

\* Print keeps the invariant, also when it is entered from the pumping of another.
LEMMA PrintFrameKeeps ==
  ASSUME IInv, PrintFrame
  PROVE  IInv'
<1> DEFINE m == <<>>
           s == helper.stack
           f == Call("default", 0)
<1>1. /\ UNCHANGED <<queries, tab, jobs, workers, loops>> /\ used' = [used EXCEPT !.prints = @ + 1]
      /\ helper' = [helper EXCEPT !.stack = Append(s, f)] /\ helper.prep = 0 /\ Pumping
  BY DEF PrintFrame
<1>2. /\ helper \in Helpers /\ used \in Uses /\ used.cookies \in Nat /\ loops \in Queues
      /\ loops.ui \in Seq(UITasks) /\ s \in Seq(Calls) /\ Stacked(helper)
  BY HelperFacts
<1>3. SentOK(Browser, used, m, 0) /\ ~Counts(m)
  <2>1. 0 \in Nat /\ 0 <= used.cookies
    BY <1>2
  <2> QED
    BY <2>1, NoticesSent
<1>4. loops.ui = loops.ui \o m
  BY <1>2
<1> HIDE DEF m
<1>5. /\ f \in Calls /\ f.at = "default" /\ f.cookie = 0 /\ f.query = 0 /\ ~f.replied
  BY DEF Call, Calls
<1>6. helper.params \in {NoParams, helper.params}
  OBVIOUS
<1>7. helper' = [helper EXCEPT !.params = helper.params, !.stack = Append(s, f)]
  BY <1>1, <1>2 DEF Helpers
<1> HIDE DEF f
<1>8. Asks(f, Browser.queries)
  BY <1>5 DEF Asks
<1>9. \A i \in DOMAIN s : s[i].at = "ask" /\ Apart(f, s[i]) /\ Apart(s[i], f)
  <2>1. \A i \in DOMAIN s : s[i].at = "ask"
    BY <1>1, <1>2 DEF Stacked, Pumping, Top
  <2> QED
    BY <1>5, <2>1 DEF Apart
<1>10. 0 <= used.cookies
  BY <1>2
<1>11. HelperOK(helper', m, 0)
  <2>1. \A i \in DOMAIN s : /\ i \in DOMAIN helper.stack /\ s[i] = helper.stack[i] /\ s[i].at = "ask"
                            /\ Apart(f, s[i]) /\ Apart(s[i], f)
    BY <1>9
  <2>2. f.cookie <= used.cookies /\ (f.cookie # 0 => ~Printed(Browser, f.cookie)) /\ helper.prep = 0
    BY <1>1, <1>5, <1>10
  <2>3. ~Counts(m) /\ s \in Seq(Calls) /\ f \in Calls
    BY <1>2, <1>3, <1>5
  <2> HIDE DEF s
  <2> QED
    BY <1>6, <1>7, <1>8, <2>1, <2>2, <2>3, CallBegins
<1>12. used' \in Uses /\ used'.cookies = used.cookies
  BY <1>1, <1>2 DEF Uses
<1>13. RendererSteps(m, 0)
  BY <1>1, <1>2, <1>3, <1>4, <1>11, <1>12 DEF RendererSteps
<1> QED
  BY <1>13, RendererKeeps

\* The answer to the first question keeps the invariant.
LEMMA DefaultSettingsKeeps ==
  ASSUME IInv, NEW pages \in PageCounts, DefaultSettings(pages)
  PROVE  IInv'
<1> DEFINE c == Top.cookie
<1>1. helper.stack # <<>> /\ Top.at = "default" /\ UNCHANGED <<queries, tab, jobs, workers, used>>
  BY DEF DefaultSettings
<1>2. /\ helper \in Helpers /\ used \in Uses
  BY HelperFacts
<1>3. /\ c \in Nat /\ c <= used.cookies /\ (c # 0 => ~Printed(Browser, c)) /\ helper.prep = 0
      /\ Popped \in Seq(Calls) /\ Top \in Calls
      /\ \A i \in DOMAIN Popped :
              /\ i \in DOMAIN helper.stack /\ Popped[i] = helper.stack[i] /\ Popped[i].at = "ask"
              /\ Apart(Top, Popped[i]) /\ Apart(Popped[i], Top)
  BY <1>1, TopFacts
<1>4. /\ <<CookieIs(c)>> \o <<>> = <<CookieIs(c)>>
      /\ SentOK(Browser, used, <<CookieIs(c)>>, 0) /\ ~Counts(<<CookieIs(c)>>)
      /\ SentOK(Browser, used, <<CookieIs(c)>> \o Failed(c), 0) /\ ~Counts(<<CookieIs(c)>> \o Failed(c))
  BY <1>3, NoticesSent
<1>5. \/ /\ helper' = Finished(Popped)
         /\ Send(<<CookieIs(c)>>) \/ Send(<<CookieIs(c)>> \o Failed(c))
      \/ /\ c # 0 /\ Send(<<CookieIs(c)>>)
         /\ helper' = [helper EXCEPT !.params = NoParams, !.stack = Append(Popped, Call("ask", c))]
  BY <1>4, Zenon DEF DefaultSettings
<1>6. Finished(Popped) = [helper EXCEPT !.params = NoParams, !.prep = 0, !.stack = Popped]
  BY DEF Finished
<1>7. CASE /\ helper' = Finished(Popped)
           /\ Send(<<CookieIs(c)>>) \/ Send(<<CookieIs(c)>> \o Failed(c))
  <2>1. PICK m : Send(m) /\ ~Counts(m) /\ SentOK(Browser, used, m, 0)
    BY <1>4, <1>7
  <2>2. HelperOK(helper', m, 0)
    BY <1>1, <1>6, <1>7, <2>1, CallEnds
  <2> QED
    BY <1>1, <1>2, <2>1, <2>2, SendKeeps
<1>8. CASE /\ c # 0 /\ Send(<<CookieIs(c)>>)
           /\ helper' = [helper EXCEPT !.params = NoParams, !.stack = Append(Popped, Call("ask", c))]
  <2> DEFINE m == <<CookieIs(c)>>
             f == Call("ask", c)
             s == Popped
  <2>1. f \in Calls /\ f.at = "ask" /\ f.cookie = c /\ f.query = 0 /\ ~f.replied
    BY <1>3 DEF Call, Calls
  <2>2. Send(m) /\ ~Counts(m) /\ SentOK(Browser, used, m, 0)
    BY <1>4, <1>8
  <2>3. helper' = [helper EXCEPT !.params = NoParams, !.stack = Append(s, f)] /\ s \in Seq(Calls)
    BY <1>3, <1>8
  <2> HIDE DEF f, m
  <2>4. Asks(f, Browser.queries)
    BY <1>8, <2>1 DEF Asks
  <2>5. \A i \in DOMAIN s : Apart(f, s[i]) /\ Apart(s[i], f)
    BY <1>3, <2>1 DEF Apart
  <2>6. \A i \in DOMAIN s : /\ i \in DOMAIN helper.stack /\ s[i] = helper.stack[i] /\ s[i].at = "ask"
                            /\ Apart(f, s[i]) /\ Apart(s[i], f)
    BY <1>3, <2>5
  <2>7. f.cookie <= used.cookies /\ (f.cookie # 0 => ~Printed(Browser, f.cookie)) /\ helper.prep = 0
    BY <1>3, <2>1
  <2>8. NoParams \in {NoParams, helper.params}
    OBVIOUS
  <2> HIDE DEF s
  <2>9. HelperOK(helper', m, 0)
    BY <2>1, <2>2, <2>3, <2>4, <2>6, <2>7, <2>8, CallBegins
  <2> QED
    BY <1>1, <1>2, <2>2, <2>9, SendKeeps
<1> QED
  BY <1>5, <1>7, <1>8

\* Every step of the renderer keeps the invariant.
LEMMA RendererActsKeep ==
  ASSUME IInv, Renderer
  PROVE  IInv'
BY PrintFrameKeeps, PrintingDoneKeeps, DiesKeeps, DefaultSettingsKeeps, SettingsFromUserKeeps,
   FramePreparedKeeps DEF Renderer

\* What the IO thread does with the query q.
IOSteps(q, at, cookie, thread) ==
  /\ q \in Ids /\ queries[q].at # "job" /\ at \in {"asking", "queued", "stopped"} /\ cookie \in Nat
  /\ thread \in {"none", "running", "ended"}
  /\ queries' = [queries EXCEPT ![q] = [at |-> at, cookie |-> cookie]]
  /\ workers' = [workers EXCEPT ![q].thread = thread]
  /\ UNCHANGED <<tab, jobs>>
  /\ loops' \in Queues /\ loops'.ui = loops.ui /\ loops'.inbox = loops.inbox
  /\ loops'.pool = loops.pool /\ loops'.polls = loops.polls
  /\ loops'.io \subseteq loops.io /\ q \notin loops'.io

\* What the IO thread does with a query that is no job keeps what the browser keeps.
LEMMA IOKeeps ==
  ASSUME IInv, NEW q, NEW at, NEW cookie, NEW thread, IOSteps(q, at, cookie, thread)
  PROVE  /\ Browser' \in Browsers /\ Kept(Browser') /\ Tracked(Browser')
         /\ \A c : Printed(Browser', c) <=> Printed(Browser, c)
         /\ Browser'.queries[q].at = at /\ Browser'.queries[q].cookie = cookie
         /\ \A r \in Ids : r # q => Browser'.queries[r] = Browser.queries[r]
         /\ Browser'.tab = Browser.tab /\ Browser'.loops.ui = Browser.loops.ui
<1> DEFINE b == Browser
           d == Browser'
<1>1. b \in Browsers /\ Kept(b) /\ Tracked(b)
  BY DEF IInv, Consistent
<1>2. /\ b.queries = queries /\ b.jobs = jobs /\ b.workers = workers /\ b.tab = tab /\ b.loops = loops
  BY DEF Browser
<1>3. /\ d.queries = [b.queries EXCEPT ![q] = [at |-> at, cookie |-> cookie]]
      /\ d.workers = [b.workers EXCEPT ![q].thread = thread]
      /\ d.jobs = b.jobs /\ d.tab = b.tab
      /\ d.loops \in Queues /\ d.loops.ui = b.loops.ui /\ d.loops.inbox = b.loops.inbox
      /\ d.loops.pool = b.loops.pool /\ d.loops.polls = b.loops.polls
      /\ d.loops.io \subseteq b.loops.io /\ q \notin d.loops.io
      /\ d = [queries |-> d.queries, tab |-> d.tab, jobs |-> d.jobs, workers |-> d.workers, loops |-> d.loops]
  BY <1>2 DEF Browser, IOSteps
<1>4. /\ q \in Ids /\ b.queries[q].at # "job" /\ at \in {"asking", "queued", "stopped"} /\ cookie \in Nat
      /\ thread \in {"none", "running", "ended"}
  BY <1>2 DEF IOSteps
<1> HIDE DEF b, d
<1>5. /\ b.workers \in [Ids -> Workers] /\ b.loops \in Queues /\ b.tab \in Tabs
      /\ b.queries \in [Ids -> Queries] /\ b.jobs \in [Ids -> Jobs]
  BY <1>1 DEF Browsers
<1>6. /\ d.queries[q].at = at /\ d.queries[q].cookie = cookie
      /\ \A r \in Ids : r # q => d.queries[r] = b.queries[r]
      /\ d.queries \in [Ids -> Queries]
  <2>1. [at |-> at, cookie |-> cookie] \in Queries
    BY <1>4 DEF Queries
  <2> QED
    BY <1>3, <1>4, <1>5, <2>1
<1> DEFINE w == [b.workers[q] EXCEPT !.thread = thread]
<1>7. /\ w \in Workers /\ w.tasks = b.workers[q].tasks /\ w.doc = b.workers[q].doc
      /\ w.page = b.workers[q].page /\ w.looping = b.workers[q].looping
      /\ w.retry = b.workers[q].retry /\ w.spooled = b.workers[q].spooled
  <2>1. b.workers[q] \in Workers
    BY <1>4, <1>5
  <2> QED
    BY <1>4, <2>1 DEF Workers
<1>8. d.workers = [b.workers EXCEPT ![q] = w]
  BY <1>3, <1>4, <1>5
<1> HIDE DEF w
<1>9. d.workers \in [Ids -> Workers] /\ d.workers[q] = w /\ \A r \in Ids : r # q => d.workers[r] = b.workers[r]
  BY <1>4, <1>5, <1>7, <1>8
<1>10. d \in Browsers
  BY <1>3, <1>5, <1>6, <1>9 DEF Browsers
<1>11. \A r \in Ids :
         /\ b.queries[r].at = "job" <=> d.queries[r].at = "job"
         /\ b.queries[r].at = "job" => d.queries[r] = b.queries[r]
         /\ d.workers[r].tasks = b.workers[r].tasks
         /\ d.workers[r].doc <=> b.workers[r].doc
         /\ d.workers[r].page = b.workers[r].page
         /\ d.workers[r].looping <=> b.workers[r].looping
         /\ d.workers[r].retry <=> b.workers[r].retry
         /\ d.workers[r].spooled = b.workers[r].spooled
  <2> TAKE r \in Ids
  <2>1. CASE r = q
    BY <1>4, <1>6, <1>7, <1>9, <2>1
  <2>2. CASE r # q
    BY <1>6, <1>9, <2>2
  <2> QED
    BY <2>1, <2>2
<1>12. \A r \in d.loops.io : d.queries[r].at = "released"
  <2>1. \A r \in b.loops.io : b.queries[r].at = "released" /\ r \in Ids
    BY <1>1, <1>5 DEF Kept, OnlyJobs, HeldJobs, TaskJobs, InboxJobs, IdleQueries, Queues
  <2> QED
    BY <1>3, <1>6, <2>1
<1>13. /\ 0 \notin Ids /\ b.tab.job \in Ids \cup {0} /\ b.tab.flushing \in Ids \cup {0}
       /\ b.tab.current \cup b.tab.left \cup b.loops.pool \cup b.loops.polls \subseteq Ids
  <2>1. 0 \notin Ids
    BY DEF Ids
  <2>2. /\ b.tab.job \in Ids \cup {0} /\ b.tab.flushing \in Ids \cup {0}
        /\ b.tab.current \subseteq Ids /\ b.tab.left \subseteq Ids
    BY <1>5 DEF Tabs
  <2>3. b.loops.pool \subseteq Ids /\ b.loops.polls \subseteq Ids
    BY <1>5 DEF Queues
  <2> QED
    BY <2>1, <2>2, <2>3
<1>14. Kept(d) /\ \A c : Printed(d, c) <=> Printed(b, c)
  <2>1. d.tab.number = b.tab.number /\ d.tab.job = b.tab.job /\ d.tab.succeeded = b.tab.succeeded
    BY <1>3
  <2>2. d.tab.current = b.tab.current /\ d.tab.left = b.tab.left /\ d.tab.flushing = b.tab.flushing
    BY <1>3
  <2> QED
    BY <1>1, <1>3, <1>11, <1>12, <1>13, <2>1, <2>2, QueriesChange
<1>15. Tracked(d)
  BY <1>1, <1>3 DEF Tracked
<1> QED
  BY <1>3, <1>6, <1>10, <1>14, <1>15 DEF b, d

\* The waiting calls change, but not what they wait for.
LEMMA StackChanges ==
  ASSUME NEW h \in Helpers, Stacked(h), NEW t \in [DOMAIN h.stack -> Calls],
         \A i \in DOMAIN t : t[i].at = h.stack[i].at,
         NEW k, k = [h EXCEPT !.stack = t]
  PROVE  k \in Helpers /\ k.stack = t /\ k.prep = h.prep /\ k.params = h.params /\ Stacked(k)
<1>1. h.stack \in Seq(Calls) /\ Len(h.stack) \in Nat /\ DOMAIN h.stack = 1 .. Len(h.stack)
  BY CallsTyped
<1> DEFINE n == Len(h.stack)
<1>2. n \in Nat /\ t \in [1 .. n -> Calls] /\ DOMAIN t = 1 .. n
  BY <1>1
<1>3. t \in Seq(Calls)
  BY <1>2, SeqDef
<1>4. Len(t) = n
  BY <1>2, <1>3
<1>5. k \in Helpers
  BY <1>3 DEF Helpers
<1>6. k.stack = t /\ k.prep = h.prep /\ k.params = h.params
  BY DEF Helpers
<1>7. t # <<>> => h.stack # <<>> /\ n \in DOMAIN t
  BY <1>1, <1>2, <1>3, <1>4
<1>8. Stacked(k)
  BY <1>1, <1>2, <1>4, <1>6, <1>7 DEF Stacked
<1> QED
  BY <1>5, <1>6, <1>8

\* Stopping the worker of a released query keeps the invariant.
LEMMA StopWorkerKeeps ==
  ASSUME IInv, NEW q \in Ids, StopWorker(q)
  PROVE  IInv'
<1>1. /\ q \in loops.io /\ loops' = [loops EXCEPT !.io = @ \ {q}]
      /\ queries' = [queries EXCEPT ![q].at = "stopped"]
      /\ workers' = [workers EXCEPT ![q].thread = "ended"]
      /\ UNCHANGED <<helper, tab, jobs, used>>
  BY DEF StopWorker
<1>2. /\ helper \in Helpers /\ used \in Uses /\ Consistent(helper, Browser, used) /\ loops \in Queues
      /\ Browser \in Browsers
  BY HelperFacts DEF IInv
<1>3. Browser.queries = queries /\ Browser.loops = loops /\ queries \in [Ids -> Queries]
  BY <1>2 DEF Browser, Browsers
<1>4. queries[q].at = "released" /\ queries[q] \in Queries
  BY <1>1, <1>2, <1>3 DEF Consistent, Kept, OnlyJobs, HeldJobs, TaskJobs, InboxJobs, IdleQueries
<1> DEFINE c == queries[q].cookie
<1>5. c \in Nat
  BY <1>4 DEF Queries
<1>6. queries' = [queries EXCEPT ![q] = [at |-> "stopped", cookie |-> c]]
  <2>1. [queries[q] EXCEPT !.at = "stopped"] = [at |-> "stopped", cookie |-> c]
    BY <1>4 DEF Queries
  <2> QED
    BY <1>1, <1>3, <2>1
<1>7. /\ loops' \in Queues /\ loops'.ui = loops.ui /\ loops'.inbox = loops.inbox
      /\ loops'.pool = loops.pool /\ loops'.polls = loops.polls
      /\ loops'.io = loops.io \ {q}
  BY <1>1, <1>2 DEF Queues
<1>8. IOSteps(q, "stopped", c, "ended")
  BY <1>1, <1>4, <1>5, <1>6, <1>7 DEF IOSteps
<1>9. /\ Browser' \in Browsers /\ Kept(Browser') /\ Tracked(Browser')
      /\ \A x : Printed(Browser', x) <=> Printed(Browser, x)
      /\ Browser'.queries[q].at = "stopped" /\ Browser'.queries[q].cookie = c
      /\ \A r \in Ids : r # q => Browser'.queries[r] = Browser.queries[r]
      /\ Browser'.tab = Browser.tab /\ Browser'.loops.ui = Browser.loops.ui
  BY <1>8, IOKeeps
<1> DEFINE b == Browser
           d == Browser'
<1>10. b.queries[q].at = "released" /\ b.queries[q].cookie = c /\ b \in Browsers
  BY <1>2, <1>3, <1>4
<1>11. Consistent(helper, b, used)
  BY <1>2
<1>12. /\ Kept(d)
       /\ \A x : Printed(d, x) <=> Printed(b, x)
       /\ d.queries[q].at = "stopped" /\ d.queries[q].cookie = c
       /\ \A r \in Ids : r # q => d.queries[r] = b.queries[r]
       /\ d.tab = b.tab /\ d.loops.ui = b.loops.ui
  BY <1>9
<1> HIDE DEF b, d, c
<1>13. AskedFor(helper, d)
  <2>1. ASSUME NEW i \in DOMAIN helper.stack PROVE Asks(helper.stack[i], d.queries)
    <3> DEFINE f == helper.stack[i]
    <3>1. Asks(f, b.queries)
      BY <1>11 DEF Consistent, AskedFor
    <3>2. f.query \in Ids \cup {0}
      BY <1>2, CallsTyped DEF Calls
    <3>3. CASE f.query = q
      BY <1>10, <1>12, <3>1, <3>3 DEF Asks
    <3>4. CASE f.query # q
      BY <1>12, <3>1, <3>2, <3>4 DEF Asks
    <3> QED
      BY <3>3, <3>4
  <2>2. \A r \in Ids : d.queries[r].at \in {"queued", "job"} => d.queries[r].cookie # 0
    BY <1>11, <1>12 DEF Consistent, AskedFor
  <2> QED
    BY <1>11, <2>1, <2>2 DEF Consistent, AskedFor
<1>14. Given(helper, d, used)
  BY <1>10, <1>11, <1>12 DEF Consistent, Given
<1>15. Unspent(helper, d) /\ Stacked(helper)
  BY <1>11, <1>12 DEF Consistent, Unspent
<1>16. Consistent(helper, d, used)
  BY <1>12, <1>13, <1>14, <1>15 DEF Consistent
<1> QED
  BY <1>1, <1>2, <1>9, <1>16 DEF IInv, d

\* The printer is asked for settings.
LEMMA GetSettingsKeeps ==
  ASSUME IInv, GetSettings
  PROVE  IInv'
<1> DEFINE n == Len(helper.stack)
           old == IF Top.at = "default" THEN Queued(0) ELSE Queued(Top.cookie)
           new == {r \in Ids : queries[r].at = "unused"}
<1>1. /\ helper.stack # <<>> /\ Top.query = 0 /\ UNCHANGED <<tab, jobs, loops, windows, used>>
  BY DEF GetSettings
<1>2. PICK q \in IF old # {} THEN old ELSE new :
        Ask(q) /\ helper' = [helper EXCEPT !.stack[n].query = q]
  BY DEF GetSettings
<1>3. /\ q \in Ids
      /\ \/ queries[q].at = "unused"
         \/ /\ queries[q].at = "queued"
            /\ queries[q].cookie = (IF Top.at = "default" THEN 0 ELSE Top.cookie)
  BY DEF Queued
<1> HIDE DEF old, new
<1>4. /\ helper \in Helpers /\ used \in Uses /\ Consistent(helper, Browser, used) /\ loops \in Queues
      /\ Browser \in Browsers /\ Stacked(helper) /\ AskedFor(helper, Browser) /\ Unspent(helper, Browser)
      /\ Given(helper, Browser, used) /\ helper.stack \in Seq(Calls)
  BY HelperFacts DEF IInv, Consistent
<1>5. Browser.queries = queries /\ queries \in [Ids -> Queries]
  BY <1>4 DEF Browser, Browsers
<1>6. queries[q] \in Queries
  BY <1>3, <1>5
<1> DEFINE c == queries[q].cookie
<1>7. c \in Nat
  BY <1>6 DEF Queries
<1>8. queries' = [queries EXCEPT ![q] = [at |-> "asking", cookie |-> c]]
  <2>1. [queries[q] EXCEPT !.at = "asking"] = [at |-> "asking", cookie |-> c]
    BY <1>6 DEF Queries
  <2> QED
    BY <1>2, <1>5, <2>1 DEF Ask
<1>9. workers' = [workers EXCEPT ![q].thread = "running"]
  BY <1>2 DEF Ask
<1>10. q \notin loops.io
  <2>1. \A r \in Browser.loops.io : Browser.queries[r].at = "released"
    BY <1>4 DEF Consistent, Kept, OnlyJobs, HeldJobs, TaskJobs, InboxJobs, IdleQueries
  <2>2. Browser.loops = loops
    BY DEF Browser
  <2> QED
    BY <1>3, <1>5, <2>1, <2>2
<1>11. IOSteps(q, "asking", c, "running")
  BY <1>1, <1>3, <1>4, <1>7, <1>8, <1>9, <1>10 DEF IOSteps
<1>12. /\ Browser' \in Browsers /\ Kept(Browser') /\ Tracked(Browser')
       /\ \A x : Printed(Browser', x) <=> Printed(Browser, x)
       /\ Browser'.queries[q].at = "asking" /\ Browser'.queries[q].cookie = c
       /\ \A r \in Ids : r # q => Browser'.queries[r] = Browser.queries[r]
       /\ Browser'.tab = Browser.tab /\ Browser'.loops.ui = Browser.loops.ui
  BY <1>11, IOKeeps
<1> DEFINE b == Browser
           d == Browser'
           s == helper.stack
           f == [s[n] EXCEPT !.query = q]
           t == [s EXCEPT ![n] = f]
<1>13. /\ b.queries[q].cookie = c /\ q \in Ids
       /\ \/ b.queries[q].at = "unused"
          \/ b.queries[q].at = "queued" /\ c = (IF s[n].at = "default" THEN 0 ELSE s[n].cookie)
  BY <1>3, <1>5 DEF Top
<1>14. /\ s \in Seq(Calls) /\ n \in Nat /\ DOMAIN s = 1 .. n /\ n \in DOMAIN s
       /\ \A i \in DOMAIN s : s[i] \in Calls
  BY <1>1, <1>4, CallsTyped
<1>15. s[n] \in Calls /\ s[n].query = 0
  BY <1>1, <1>14 DEF Top
<1>16. /\ f \in Calls /\ f.query = q /\ f.at = s[n].at /\ f.cookie = s[n].cookie /\ f.replied = s[n].replied
  BY <1>3, <1>15 DEF Calls
<1>17. helper' = [helper EXCEPT !.stack = t]
  <2>1. helper' = [helper EXCEPT !.stack[n].query = q]
    BY <1>2
  <2> QED
    BY <1>4, <1>14, <1>15, <2>1 DEF Helpers
<1>18. /\ AskedFor(helper, b) /\ Unspent(helper, b) /\ Given(helper, b, used)
       /\ helper.stack = s /\ Stacked(helper)
  BY <1>4
<1>19. /\ Kept(d)
       /\ \A x : Printed(d, x) <=> Printed(b, x)
       /\ d.queries[q].at = "asking" /\ d.queries[q].cookie = c
       /\ \A r \in Ids : r # q => d.queries[r] = b.queries[r]
       /\ d.tab = b.tab /\ d.loops.ui = b.loops.ui
  BY <1>12
<1> HIDE DEF f
<1>20. t \in [DOMAIN s -> Calls] /\ t[n] = f /\ \A i \in DOMAIN s : i # n => t[i] = s[i]
  BY <1>14, <1>16
<1>21. \A i \in DOMAIN t : t[i].at = s[i].at /\ t[i].cookie = s[i].cookie
  BY <1>16, <1>20
<1> HIDE DEF b, d, s, t, n, c
<1>22. /\ helper' \in Helpers /\ helper'.stack = t /\ helper'.prep = helper.prep
       /\ helper'.params = helper.params /\ Stacked(helper')
  BY <1>4, <1>17, <1>18, <1>20, <1>21, StackChanges
<1>23. ASSUME NEW i \in DOMAIN s, i # n
       PROVE  s[i].query # q /\ Asks(s[i], d.queries)
  <2>1. Asks(s[i], b.queries) /\ Apart(s[i], s[n])
    BY <1>14, <1>18, <1>23 DEF AskedFor
  <2>2. s[i].query # q
    <3> SUFFICES ASSUME s[i].query = q PROVE FALSE
      OBVIOUS
    <3>1. q # 0
      BY <1>13 DEF Ids
    <3>2. b.queries[q].at = "queued" /\ s[i].replied /\ c = s[i].cookie
      BY <1>13, <2>1, <3>1 DEF Asks
    <3>3. c # 0
      BY <1>13, <1>18, <3>2 DEF AskedFor
    <3>4. c = s[n].cookie
      BY <1>13, <3>2, <3>3
    <3> QED
      BY <2>1, <3>2, <3>3, <3>4 DEF Apart
  <2>3. s[i].query \in Ids \cup {0}
    BY <1>14 DEF Calls
  <2>4. Asks(s[i], d.queries)
    BY <1>19, <2>1, <2>2, <2>3 DEF Asks
  <2> QED
    BY <2>2, <2>4
<1>24. Asks(f, d.queries)
  <2>1. Asks(s[n], b.queries)
    BY <1>14, <1>18 DEF AskedFor
  <2>2. ~f.replied
    BY <1>15, <1>16, <2>1 DEF Asks
  <2>3. q # 0
    BY <1>13 DEF Ids
  <2> QED
    BY <1>15, <1>16, <1>19, <2>1, <2>2, <2>3 DEF Asks
<1>25. AskedFor(helper', d)
  <2>1. \A i \in DOMAIN t : Asks(t[i], d.queries)
    BY <1>20, <1>23, <1>24
  <2>2. ASSUME NEW i \in DOMAIN t, NEW j \in DOMAIN t, i # j PROVE Apart(t[i], t[j])
    <3>1. Apart(s[i], s[j])
      BY <1>18, <1>20, <2>2 DEF AskedFor
    <3>2. t[i].cookie = s[i].cookie /\ t[j].cookie = s[j].cookie
      BY <1>21, <2>2
    <3>3. t[i].query # 0 => t[i].query # t[j].query
      <4>1. CASE i = n
        BY <1>16, <1>20, <1>23, <2>2, <4>1
      <4>2. CASE j = n
        BY <1>16, <1>20, <1>23, <2>2, <4>2
      <4>3. CASE i # n /\ j # n
        BY <1>20, <2>2, <3>1, <4>3 DEF Apart
      <4> QED
        BY <4>1, <4>2, <4>3
    <3> QED
      BY <3>1, <3>2, <3>3 DEF Apart
  <2>3. \A r \in Ids : d.queries[r].at \in {"queued", "job"} => d.queries[r].cookie # 0
    BY <1>18, <1>19 DEF AskedFor
  <2> QED
    BY <1>22, <2>1, <2>2, <2>3 DEF AskedFor
<1>26. Given(helper', d, used)
  <2>1. \A i \in DOMAIN t : t[i].cookie <= used.cookies
    BY <1>18, <1>20, <1>21 DEF Given
  <2>2. \A r \in Ids : d.queries[r].cookie <= used.cookies
    BY <1>13, <1>18, <1>19 DEF Given
  <2> QED
    BY <1>18, <1>19, <1>22, <2>1, <2>2 DEF Given
<1>27. Unspent(helper', d)
  <2>1. \A i \in DOMAIN t : t[i].cookie # 0 => ~Printed(d, t[i].cookie) /\ t[i].cookie # helper.prep
    BY <1>18, <1>19, <1>20, <1>21 DEF Unspent
  <2> QED
    BY <1>18, <1>19, <1>22, <2>1 DEF Unspent
<1>28. Consistent(helper', d, used)
  BY <1>19, <1>22, <1>25, <1>26, <1>27 DEF Consistent
<1>29. used' = used
  BY <1>1
<1> QED
  BY <1>4, <1>12, <1>22, <1>28, <1>29 DEF IInv, d

\* What has been printed has a cookie that was given out.
LEMMA PrintedGiven ==
  ASSUME NEW h, NEW b \in Browsers, NEW u, Given(h, b, u), NEW c, Printed(b, c)
  PROVE  c <= u.cookies
BY DEF Given, Printed, Prints

\* The settings have come, or there are none.
LEMMA GetSettingsDoneKeeps ==
  ASSUME IInv, NEW q \in Ids, NEW ok \in BOOLEAN, GetSettingsDone(q, ok)
  PROVE  IInv'
<1> DEFINE c == NewCookie(ok)
           reply(f) == IF f.query = q THEN [f EXCEPT !.replied = TRUE, !.cookie = c] ELSE f
           s == helper.stack
           t == [i \in DOMAIN s |-> reply(s[i])]
           at == IF ok THEN "queued" ELSE "stopped"
           thread == IF ok THEN workers[q].thread ELSE "ended"
<1>1. /\ queries[q].at = "asking"
      /\ queries' = [queries EXCEPT ![q] = [at |-> at, cookie |-> c]]
      /\ used' = [used EXCEPT !.cookies = IF ok THEN c ELSE @]
      /\ workers' = [workers EXCEPT ![q].thread = IF ok THEN @ ELSE "ended"]
      /\ helper' = [helper EXCEPT !.stack = t]
      /\ UNCHANGED <<tab, jobs, loops, windows>>
  BY DEF GetSettingsDone
<1>2. /\ helper \in Helpers /\ used \in Uses /\ Consistent(helper, Browser, used) /\ loops \in Queues
      /\ Browser \in Browsers /\ Stacked(helper) /\ AskedFor(helper, Browser) /\ Unspent(helper, Browser)
      /\ Given(helper, Browser, used) /\ s \in Seq(Calls) /\ used.cookies \in Nat /\ helper.prep \in Nat
      /\ helper.prep <= used.cookies /\ helper.params <= used.cookies
  BY HelperFacts DEF IInv, Consistent
<1>3. /\ Browser.queries = queries /\ queries \in [Ids -> Queries]
      /\ Browser.workers = workers /\ workers \in [Ids -> Workers] /\ Browser.loops = loops
  BY <1>2 DEF Browser, Browsers
<1>4. /\ c \in Nat
      /\ ok => c = used.cookies + 1
      /\ ~ok => c = 0
  BY <1>2 DEF NewCookie
<1> HIDE DEF c
<1>5. /\ used' \in Uses /\ used'.cookies = (IF ok THEN c ELSE used.cookies)
      /\ used'.cookies \in Nat /\ used.cookies <= used'.cookies /\ c <= used'.cookies
  <2>1. used' \in Uses /\ used'.cookies = (IF ok THEN c ELSE used.cookies)
    <3> DEFINE v == IF ok THEN c ELSE used.cookies
    <3>1. used' = [used EXCEPT !.cookies = v] /\ v \in Nat
      BY <1>1, <1>2, <1>4
    <3> HIDE DEF v
    <3>2. used' \in Uses /\ used'.cookies = v
      BY <1>2, <3>1 DEF Uses
    <3> QED
      BY <3>2 DEF v
  <2>2. used'.cookies \in Nat /\ used.cookies <= used'.cookies /\ c <= used'.cookies
    <3>1. CASE ok
      BY <1>2, <1>4, <2>1, <3>1
    <3>2. CASE ~ok
      BY <1>2, <1>4, <2>1, <3>2
    <3> QED
      BY <3>1, <3>2
  <2> QED
    BY <2>1, <2>2
<1>6. at \in {"asking", "queued", "stopped"} /\ at # "unused" /\ (at = "queued" => ok) /\ at # "job"
  OBVIOUS
<1>7. thread \in {"none", "running", "ended"} /\ workers' = [workers EXCEPT ![q].thread = thread]
  <2>1. workers[q] \in Workers
    BY <1>3
  <2>2. thread \in {"none", "running", "ended"}
    BY <2>1 DEF Workers
  <2> QED
    BY <1>1, <2>2
<1>8. q \notin loops.io
  <2>1. \A r \in Browser.loops.io : Browser.queries[r].at = "released"
    BY <1>2 DEF Consistent, Kept, OnlyJobs, HeldJobs, TaskJobs, InboxJobs, IdleQueries
  <2> QED
    BY <1>1, <1>3, <2>1
<1> HIDE DEF at, thread
<1>9. IOSteps(q, at, c, thread)
  <2>1. queries[q].at # "job" /\ at \in {"asking", "queued", "stopped"}
    BY <1>1, <1>6
  <2>2. /\ queries' = [queries EXCEPT ![q] = [at |-> at, cookie |-> c]]
        /\ UNCHANGED <<tab, jobs>> /\ loops' = loops
    BY <1>1
  <2>3. /\ loops' \in Queues /\ loops'.ui = loops.ui /\ loops'.inbox = loops.inbox
        /\ loops'.pool = loops.pool /\ loops'.polls = loops.polls
        /\ loops'.io \subseteq loops.io /\ q \notin loops'.io
    BY <1>2, <1>8, <2>2
  <2> QED
    BY <1>4, <1>7, <2>1, <2>2, <2>3 DEF IOSteps
<1>10. /\ Browser' \in Browsers /\ Kept(Browser') /\ Tracked(Browser')
       /\ \A x : Printed(Browser', x) <=> Printed(Browser, x)
       /\ Browser'.queries[q].at = at /\ Browser'.queries[q].cookie = c
       /\ \A r \in Ids : r # q => Browser'.queries[r] = Browser.queries[r]
       /\ Browser'.tab = Browser.tab /\ Browser'.loops.ui = Browser.loops.ui
  BY <1>9, IOKeeps
<1> DEFINE b == Browser
           d == Browser'
<1>11. /\ Kept(d) /\ b \in Browsers
       /\ \A x : Printed(d, x) <=> Printed(b, x)
       /\ d.queries[q].at = at /\ d.queries[q].cookie = c
       /\ \A r \in Ids : r # q => d.queries[r] = b.queries[r]
       /\ d.tab = b.tab /\ d.loops.ui = b.loops.ui
  BY <1>2, <1>10
<1>12. /\ AskedFor(helper, b) /\ Unspent(helper, b) /\ Given(helper, b, used)
       /\ helper.stack = s /\ Stacked(helper)
  BY <1>2
<1>13. \A i \in DOMAIN s : s[i] \in Calls /\ s[i].query \in Ids \cup {0} /\ s[i].cookie \in Nat
  <2>1. \A i \in DOMAIN s : s[i] \in Calls
    BY <1>2, CallsTyped
  <2> QED
    BY <2>1 DEF Calls
<1>14. ASSUME NEW f \in Calls
       PROVE  /\ reply(f) \in Calls /\ reply(f).at = f.at /\ reply(f).query = f.query
              /\ f.query # q => reply(f) = f
              /\ f.query = q => reply(f).replied /\ reply(f).cookie = c
  <2>1. CASE f.query = q
    <3>1. reply(f) = [f EXCEPT !.replied = TRUE, !.cookie = c]
      BY <2>1
    <3> HIDE DEF reply
    <3>2. reply(f) \in Calls
      BY <1>4, <1>14, <3>1 DEF Calls
    <3>3. reply(f).at = f.at /\ reply(f).query = f.query /\ reply(f).replied /\ reply(f).cookie = c
      BY <1>14, <3>1 DEF Calls
    <3> QED
      BY <2>1, <3>2, <3>3
  <2>2. CASE f.query # q
    BY <1>14, <2>2
  <2> QED
    BY <2>1, <2>2
<1>15. /\ t \in [DOMAIN s -> Calls] /\ DOMAIN t = DOMAIN s
       /\ \A i \in DOMAIN s : /\ t[i].at = s[i].at /\ t[i].query = s[i].query
                              /\ s[i].query # q => t[i] = s[i]
                              /\ s[i].query = q => t[i].replied /\ t[i].cookie = c
  BY <1>13, <1>14
<1> HIDE DEF b, d, s, t, reply
<1>16. /\ helper' \in Helpers /\ helper'.stack = t /\ helper'.prep = helper.prep
       /\ helper'.params = helper.params /\ Stacked(helper')
  BY <1>1, <1>2, <1>12, <1>15, StackChanges
<1>17. q # 0
  BY DEF Ids
<1>18. AskedFor(helper', d)
  <2>1. ASSUME NEW i \in DOMAIN s PROVE Asks(t[i], d.queries)
    <3>1. Asks(s[i], b.queries)
      BY <1>12, <2>1 DEF AskedFor
    <3>2. CASE s[i].query = q
      BY <1>6, <1>11, <1>15, <1>17, <2>1, <3>2 DEF Asks
    <3>3. CASE s[i].query # q
      BY <1>11, <1>13, <1>15, <2>1, <3>1, <3>3 DEF Asks
    <3> QED
      BY <3>2, <3>3
  <2>2. ASSUME NEW i \in DOMAIN s, NEW j \in DOMAIN s, i # j PROVE Apart(t[i], t[j])
    <3>1. Apart(s[i], s[j]) /\ Apart(s[j], s[i])
      BY <1>12, <2>2 DEF AskedFor
    <3>2. ~(s[i].query = q /\ s[j].query = q)
      BY <1>17, <3>1 DEF Apart
    <3>3. s[i].cookie <= used.cookies /\ s[j].cookie <= used.cookies
      BY <1>12, <2>2 DEF Given
    <3>4. t[i].query # 0 => t[i].query # t[j].query
      BY <1>15, <2>2, <3>1 DEF Apart
    <3>5. t[i].cookie # 0 => t[i].cookie # t[j].cookie
      <4>1. CASE s[i].query = q
        BY <1>2, <1>4, <1>13, <1>15, <2>2, <3>2, <3>3, <4>1
      <4>2. CASE s[j].query = q
        BY <1>2, <1>4, <1>13, <1>15, <2>2, <3>2, <3>3, <4>2
      <4>3. CASE s[i].query # q /\ s[j].query # q
        BY <1>15, <2>2, <3>1, <4>3 DEF Apart
      <4> QED
        BY <4>1, <4>2, <4>3
    <3> QED
      BY <3>4, <3>5 DEF Apart
  <2>3. \A r \in Ids : d.queries[r].at \in {"queued", "job"} => d.queries[r].cookie # 0
    <3> TAKE r \in Ids
    <3>1. CASE r = q
      BY <1>2, <1>4, <1>6, <1>11, <3>1
    <3>2. CASE r # q
      BY <1>11, <1>12, <3>2 DEF AskedFor
    <3> QED
      BY <3>1, <3>2
  <2> QED
    BY <1>15, <1>16, <2>1, <2>2, <2>3 DEF AskedFor
<1>19. \A x : x \in Nat \cup {NoParams} /\ x <= used.cookies => x <= used'.cookies
  <2>1. NoParams <= used'.cookies
    BY <1>5 DEF NoParams
  <2>2. \A x \in Nat : x <= used.cookies => x <= used'.cookies
    BY <1>2, <1>5
  <2> QED
    BY <2>1, <2>2
<1>20. \A i \in DOMAIN s : t[i].cookie \in {s[i].cookie, c}
  BY <1>15
<1>21. Given(helper', d, used')
  <2>1. \A i \in DOMAIN t : t[i].cookie <= used'.cookies
    BY <1>5, <1>12, <1>13, <1>15, <1>19, <1>20 DEF Given
  <2>2. \A r \in Ids : d.queries[r].cookie <= used'.cookies
    <3> TAKE r \in Ids
    <3>1. CASE r = q
      BY <1>5, <1>11, <3>1
    <3>2. CASE r # q
      <4>1. b.queries[r].cookie <= used.cookies
        BY <1>12 DEF Given
      <4>2. b.queries[r].cookie \in Nat
        BY <1>11 DEF Browsers, Queries
      <4> QED
        BY <1>11, <1>19, <3>2, <4>1, <4>2
    <3> QED
      BY <3>1, <3>2
  <2>3. d.tab.cookie <= used'.cookies
    <3>1. b.tab.cookie <= used.cookies
      BY <1>12 DEF Given
    <3>2. b.tab.cookie \in Nat
      BY <1>11 DEF Browsers, Tabs
    <3> QED
      BY <1>11, <1>19, <3>1, <3>2
  <2>4. \A i \in DOMAIN d.loops.ui : d.loops.ui[i].task \in {"cookie", "count", "page", "failed"} =>
          d.loops.ui[i].id <= used'.cookies
    <3>1. b.loops.ui \in Seq(UITasks)
      BY <1>11 DEF Browsers, Queues
    <3>2. \A i \in DOMAIN b.loops.ui : b.loops.ui[i].id \in Nat
      <4>1. \A i \in DOMAIN b.loops.ui : b.loops.ui[i] \in UITasks
        BY <3>1
      <4> QED
        BY <4>1 DEF UITasks
    <3>3. \A i \in DOMAIN b.loops.ui : b.loops.ui[i].task \in {"cookie", "count", "page", "failed"} =>
            b.loops.ui[i].id <= used.cookies
      BY <1>12 DEF Given
    <3> QED
      BY <1>11, <1>19, <3>2, <3>3
  <2>5. helper'.prep <= used'.cookies /\ helper'.params <= used'.cookies
    <3>1. helper.params \in Nat \cup {NoParams}
      BY <1>2 DEF Helpers
    <3> QED
      BY <1>2, <1>16, <1>19, <3>1
  <2> QED
    BY <1>16, <2>1, <2>2, <2>3, <2>4, <2>5 DEF Given
<1>22. ~Printed(b, c) \/ c = 0
  <2>1. CASE ok
    <3>1. Printed(b, c) => c <= used.cookies
      BY <1>11, <1>12, PrintedGiven
    <3>2. ~(c <= used.cookies)
      BY <1>2, <1>4, <2>1
    <3> QED
      BY <3>1, <3>2
  <2>2. CASE ~ok
    BY <1>4, <2>2
  <2> QED
    BY <2>1, <2>2
<1>23. c = 0 \/ c # helper.prep
  BY <1>2, <1>4
<1>24. Unspent(helper', d)
  <2>1. \A i \in DOMAIN t : t[i].cookie # 0 => ~Printed(d, t[i].cookie) /\ t[i].cookie # helper.prep
    <3> TAKE i \in DOMAIN t
    <3>1. s[i].cookie # 0 => ~Printed(b, s[i].cookie) /\ s[i].cookie # helper.prep
      BY <1>12, <1>15 DEF Unspent
    <3>2. t[i].cookie \in {s[i].cookie, c}
      BY <1>15, <1>20
    <3> QED
      BY <1>11, <1>22, <1>23, <3>1, <3>2
  <2> QED
    BY <1>11, <1>12, <1>16, <2>1 DEF Unspent
<1>25. Consistent(helper', d, used')
  BY <1>11, <1>16, <1>18, <1>21, <1>24 DEF Consistent
<1> QED
  BY <1>5, <1>10, <1>16, <1>25 DEF IInv, d

\* Every step of the IO thread keeps the invariant.
LEMMA IOThreadKeeps ==
  ASSUME IInv, IOThread
  PROVE  IInv'
BY GetSettingsKeeps, StopWorkerKeeps, GetSettingsDoneKeeps DEF IOThread

\* The renderer at the begin.
LEMMA InitHelper ==
  NewHelper \in Helpers /\ NewHelper.stack = <<>> /\ NewHelper.prep = 0 /\ NewHelper.params = NoParams
<1> DEFINE e == <<>>
<1>1. NewHelper = [alive |-> TRUE, params |-> NoParams, prep |-> 0, stack |-> e] /\ e \in Seq(Calls)
  BY DEF NewHelper
<1> HIDE DEF e
<1>2. NewHelper \in Helpers
  BY <1>1 DEF Helpers
<1> QED
  BY <1>1, <1>2 DEF e

\* A worker at the begin.
LEMMA InitWorker ==
  /\ NewWorker \in Workers /\ NewWorker.tasks = <<>> /\ NewWorker.spooled = <<>>
  /\ ~NewWorker.doc /\ NewWorker.page = 0 /\ ~NewWorker.looping /\ ~NewWorker.retry
<1> DEFINE e == <<>>
<1>1. NewWorker = [thread |-> "none", stopping |-> FALSE, tasks |-> e, doc |-> FALSE, page |-> 0,
                   looping |-> FALSE, retry |-> FALSE, canceled |-> FALSE, spooled |-> e]
  BY DEF NewWorker
<1>2. e \in Seq(WorkerTasks) /\ e \in Seq(Nat)
  OBVIOUS
<1> HIDE DEF e
<1>3. NewWorker \in Workers
  BY <1>1, <1>2 DEF Workers
<1> QED
  BY <1>1, <1>3 DEF e

\* The queues at the begin.
LEMMA InitLoops ==
  /\ NewLoops \in Queues /\ NewLoops.ui = <<>> /\ NewLoops.inbox = <<>> /\ NewLoops.io = {}
  /\ NewLoops.pool = {} /\ NewLoops.polls = {}
<1> DEFINE e == <<>>
<1>1. NewLoops = [ui |-> e, inbox |-> e, io |-> {}, pool |-> {}, polls |-> {}]
  BY DEF NewLoops
<1>2. e \in Seq(UITasks) /\ e \in Seq(Dones)
  OBVIOUS
<1> HIDE DEF e
<1>3. NewLoops \in Queues
  BY <1>1, <1>2 DEF Queues
<1> QED
  BY <1>1, <1>3 DEF e

\* The invariant holds at the begin.
LEMMA InitIInv == Init => IInv
<1> SUFFICES ASSUME Init PROVE IInv
  OBVIOUS
<1> DEFINE b == Browser
<1>1. /\ helper = NewHelper /\ used = [prints |-> 0, cookies |-> 0, faults |-> 0]
      /\ b.tab = NewTab /\ b.loops = NewLoops
      /\ b.queries = [q \in Ids |-> NewQuery] /\ b.jobs = [q \in Ids |-> NewJob]
      /\ b.workers = [q \in Ids |-> NewWorker]
      /\ b = [queries |-> b.queries, tab |-> b.tab, jobs |-> b.jobs, workers |-> b.workers, loops |-> b.loops]
  BY DEF Init, Browser
<1> HIDE DEF b
<1>2. /\ helper \in Helpers /\ helper.stack = <<>> /\ helper.prep = 0 /\ helper.params = NoParams
  BY <1>1, InitHelper
<1>3. used \in Uses /\ used.cookies = 0
  BY <1>1 DEF Uses
<1>4. /\ b.tab \in Tabs /\ b.tab.cookie = 0 /\ b.tab.number = 0 /\ b.tab.job = 0 /\ b.tab.current = {}
      /\ b.tab.left = {} /\ b.tab.flushing = 0
  BY <1>1 DEF NewTab, Tabs
<1>5. NewQuery \in Queries /\ NewJob \in Jobs /\ NewQuery.at = "unused" /\ NewQuery.cookie = 0
      /\ NewJob.count = 0 /\ NewJob.pages = {}
  BY DEF NewQuery, NewJob, Queries, Jobs
<1>6. \A q \in Ids : b.queries[q] = NewQuery /\ b.jobs[q] = NewJob /\ b.workers[q] = NewWorker
  BY <1>1
<1>7. /\ b.queries \in [Ids -> Queries] /\ b.jobs \in [Ids -> Jobs] /\ b.workers \in [Ids -> Workers]
  BY <1>1, <1>5, InitWorker
<1>8. /\ b.loops \in Queues /\ b.loops.ui = <<>> /\ b.loops.inbox = <<>> /\ b.loops.io = {}
      /\ b.loops.pool = {} /\ b.loops.polls = {}
  BY <1>1, InitLoops
<1>9. b \in Browsers
  BY <1>1, <1>4, <1>7, <1>8 DEF Browsers
<1>10. DOMAIN helper.stack = {} /\ DOMAIN b.loops.ui = {} /\ DOMAIN b.loops.inbox = {}
  BY <1>2, <1>8
<1>11. Stacked(helper) /\ Unspent(helper, b)
  BY <1>2, <1>10 DEF Stacked, Unspent
<1>12. AskedFor(helper, b)
  BY <1>5, <1>6, <1>10 DEF AskedFor
<1>13. Given(helper, b, used)
  <2>1. NoParams <= 0
    BY DEF NoParams
  <2> QED
    BY <1>2, <1>3, <1>4, <1>5, <1>6, <1>10, <2>1 DEF Given
<1>14. OnlyJobs(b)
  BY <1>4, <1>5, <1>6, <1>8, <1>10, InitWorker DEF OnlyJobs, HeldJobs, TaskJobs, InboxJobs, IdleQueries
<1>15. WorkersOK(b)
  <2> SUFFICES ASSUME NEW q \in Ids PROVE WorkerOK(NewWorker, NewJob)
    BY <1>6 DEF WorkersOK
  <2>1. DOMAIN NewWorker.tasks = {} /\ DOMAIN NewWorker.spooled = {} /\ Len(NewWorker.spooled) = 0
    BY InitWorker
  <2>2. Begins(NewWorker.tasks) /\ ~Starts(NewWorker.tasks)
    BY <2>1 DEF Begins, Starts
  <2> QED
    BY <1>5, <2>1, <2>2, InitWorker DEF WorkerOK
<1>16. Outputs(b)
  BY <1>10 DEF Outputs
<1>17. Successes(b) /\ Tracked(b)
  BY <1>4, <1>10 DEF Successes, Tracked
<1> QED
  BY <1>2, <1>3, <1>9, <1>11, <1>12, <1>13, <1>14, <1>15, <1>16, <1>17 DEF IInv, Consistent, Kept, b

\* Every step keeps the invariant.
LEMMA NextIInv == IInv /\ [Next]_vars => IInv'
<1> SUFFICES ASSUME IInv, [Next]_vars PROVE IInv'
  OBVIOUS
<1>1. CASE UITask \/ Flushed \/ QuitDone \/ OnQuit
  BY <1>1, UITaskKeeps, FlushedKeeps, QuitsKeep
<1>2. CASE \E q \in Ids : FlushJob(q) \/ Poll(q) \/ PoolStops(q)
  BY <1>2, FlushesKeep, PollsKeep, PoolKeeps
<1>3. CASE \E q \in Ids : WorkerThread(q)
  BY <1>3, WorkerThreadKeeps
<1>4. CASE Renderer
  BY <1>4, RendererActsKeep
<1>5. CASE IOThread
  BY <1>5, IOThreadKeeps
<1>6. CASE NavigationStopped
  BY <1>6, NavigationKeeps
<1>7. CASE UNCHANGED vars
  <2>1. Browser' = Browser /\ helper' = helper /\ used' = used
    BY <1>7 DEF vars, Browser
  <2> QED
    BY <2>1 DEF IInv
<1> QED
  BY <1>1, <1>2, <1>3, <1>4, <1>5, <1>6, <1>7 DEF Next, Threads, UIThread

\* The inductive invariant holds of every behaviour, for every number of queries, of pages, of
\* prints and of faults, on Windows and elsewhere.
THEOREM Invariant == Spec => []IInv
BY InitIInv, NextIInv, PTL DEF Spec

\* What the renderer prepares has its parameters: OnFramePreparedForPrintPages hands PrintPages the
\* settings of its own print, also when another print came while the dialog was open.
THEOREM Prepared == Spec => []PreparedHasParams
<1>1. IInv => PreparedHasParams
  BY DEF IInv, Consistent, Stacked, PreparedHasParams
<1> QED
  BY <1>1, Invariant, PTL

\* The tab's job is one that PrintJobManager knows until quitting begins: OnQuit waits for it.
THEOREM JobIsTracked == Spec => []TabJobIsTracked
<1>1. IInv => TabJobIsTracked
  BY DEF IInv, Tracked, TabJobIsTracked, Browser
<1> QED
  BY <1>1, Invariant, PTL

\* A worker puts out the pages of its job one after the other from the first, each only after it
\* has arrived, however SpoolPage, retries, failures and the end of the job follow each other.
THEOREM InOrder == Spec => []SpooledInOrder
<1>1. IInv => SpooledInOrder
  BY WorkerFacts DEF WorkerOK, SpooledInOrder
<1> QED
  BY <1>1, Invariant, PTL

\* The renderer is told of a success only if the printer took every page: no cancellation, failure
\* or quit makes ReleasePrintJob report one that was not.
THEOREM SuccessSpooled == Spec => []SuccessIsSpooled
<1>1. IInv => SuccessIsSpooled
  BY DEF IInv, Consistent, Kept, Successes, Full, SuccessIsSpooled, Browser
<1> QED
  BY <1>1, Invariant, PTL

\* The call f may have the query q asked once more, after the answer it has or waits for.
MayAsk(f, Q, q) ==
  \/ Q[q].at = "asking" /\ f.query = q /\ f.at = "default"
  \/ /\ Q[q].at = "queued" /\ Q[q].cookie = f.cookie
     /\ IF f.at = "default" THEN f.replied ELSE f.query = 0

\* A query is answered twice at most: for the default settings and for the user's.  Cookies
\* are still to be given to those that ask, and to those that may be asked again.
Unused(Q)   == {q \in Ids : Q[q].at = "unused"}
Asking(Q)   == {q \in Ids : Q[q].at = "asking"}
Again(Q, s) == {q \in Ids : Q[q].at = "unused" \/ \E i \in DOMAIN s : MayAsk(s[i], Q, q)}
Spare(Q, s) == Cardinality(Unused(Q)) + Cardinality(Again(Q, s)) + Cardinality(Asking(Q))
Enough == used.cookies + Spare(queries, helper.stack) <= 2 * MaxQueries

\* There are MaxQueries queries.
LEMMA IdsFinite == IsFiniteSet(Ids) /\ Cardinality(Ids) = MaxQueries
<1>1. MaxQueries \in Nat /\ 1 \in Int /\ MaxQueries \in Int
  BY PrintingAssumption
<1>2. IsFiniteSet(1 .. MaxQueries) /\ Cardinality(1 .. MaxQueries) = IF 1 > MaxQueries THEN 0 ELSE MaxQueries - 1 + 1
  BY <1>1, FS_Interval
<1>3. Cardinality(1 .. MaxQueries) = MaxQueries
  BY <1>1, <1>2
<1> QED
  BY <1>2, <1>3 DEF Ids

\* How many queries a set has.
LEMMA SetSizes ==
  ASSUME NEW S \in SUBSET Ids, NEW T \in SUBSET Ids, NEW q
  PROVE  /\ Cardinality(S) \in Nat /\ Cardinality(T) \in Nat
         /\ T \subseteq S => Cardinality(T) <= Cardinality(S)
         /\ q \in S /\ T \subseteq S \ {q} => Cardinality(T) + 1 <= Cardinality(S)
         /\ T \subseteq S \cup {q} => Cardinality(T) <= Cardinality(S) + 1
<1>1. IsFiniteSet(S) /\ IsFiniteSet(T)
  BY IdsFinite, FS_Subset
<1>2. Cardinality(S) \in Nat /\ Cardinality(T) \in Nat
  BY <1>1, FS_CardinalityType
<1>3. T \subseteq S => Cardinality(T) <= Cardinality(S)
  BY <1>1, FS_Subset
<1>4. ASSUME q \in S, T \subseteq S \ {q} PROVE Cardinality(T) + 1 <= Cardinality(S)
  <2>1. IsFiniteSet(S \ {q}) /\ Cardinality(S \ {q}) = Cardinality(S) - 1
    BY <1>1, <1>4, FS_RemoveElement
  <2>2. Cardinality(T) <= Cardinality(S \ {q})
    BY <1>4, <2>1, FS_Subset
  <2> QED
    BY <1>2, <2>1, <2>2
<1>5. ASSUME T \subseteq S \cup {q} PROVE Cardinality(T) <= Cardinality(S) + 1
  <2>1. IsFiniteSet(S \cup {q}) /\ (Cardinality(S \cup {q}) = Cardinality(S) \/ Cardinality(S \cup {q}) = Cardinality(S) + 1)
    BY <1>1, FS_AddElement
  <2>2. Cardinality(T) <= Cardinality(S \cup {q})
    BY <1>5, <2>1, FS_Subset
  <2> QED
    BY <1>2, <2>1, <2>2
<1> QED
  BY <1>2, <1>3, <1>4, <1>5

\* What is still to be given is a number.
LEMMA SpareIsNat ==
  ASSUME NEW Q, NEW s
  PROVE  /\ Cardinality(Unused(Q)) \in Nat /\ Cardinality(Again(Q, s)) \in Nat
         /\ Cardinality(Asking(Q)) \in Nat /\ Spare(Q, s) \in Nat
<1>1. Unused(Q) \in SUBSET Ids /\ Again(Q, s) \in SUBSET Ids /\ Asking(Q) \in SUBSET Ids
  BY DEF Unused, Again, Asking
<1>2. Cardinality(Unused(Q)) \in Nat /\ Cardinality(Again(Q, s)) \in Nat /\ Cardinality(Asking(Q)) \in Nat
  BY <1>1, SetSizes
<1> QED
  BY <1>2 DEF Spare

\* Nothing is asked, a query is asked, and a query is answered.
LEMMA SpareChanges ==
  ASSUME NEW Q, NEW s, NEW P, NEW t, NEW q,
         Unused(P) \subseteq Unused(Q), Again(P, t) \subseteq Again(Q, s)
  PROVE  /\ Asking(P) \subseteq Asking(Q) => Spare(P, t) <= Spare(Q, s)
         /\ /\ Asking(P) \subseteq Asking(Q) \cup {q}
            /\ q \in Unused(Q) \ Unused(P) \/ q \in Again(Q, s) \ Again(P, t)
            => Spare(P, t) <= Spare(Q, s)
         /\ Asking(P) \subseteq Asking(Q) /\ q \in Asking(Q) \ Asking(P) => Spare(P, t) + 1 <= Spare(Q, s)
<1> DEFINE u == Cardinality(Unused(Q))  
           v == Cardinality(Unused(P))
           g == Cardinality(Again(Q, s))
           h == Cardinality(Again(P, t))
           k == Cardinality(Asking(Q))
           l == Cardinality(Asking(P))
<1>1. /\ Unused(Q) \in SUBSET Ids /\ Again(Q, s) \in SUBSET Ids /\ Asking(Q) \in SUBSET Ids
      /\ Unused(P) \in SUBSET Ids /\ Again(P, t) \in SUBSET Ids /\ Asking(P) \in SUBSET Ids
  BY DEF Unused, Again, Asking
<1>2. u \in Nat /\ v \in Nat /\ v <= u /\ (q \in Unused(Q) \ Unused(P) => v + 1 <= u)
  <2>1. q \in Unused(Q) \ Unused(P) => q \in Unused(Q) /\ Unused(P) \subseteq Unused(Q) \ {q}
    OBVIOUS
  <2> QED
    BY <1>1, <2>1, SetSizes
<1>3. g \in Nat /\ h \in Nat /\ h <= g /\ (q \in Again(Q, s) \ Again(P, t) => h + 1 <= g)
  <2>1. q \in Again(Q, s) \ Again(P, t) => q \in Again(Q, s) /\ Again(P, t) \subseteq Again(Q, s) \ {q}
    OBVIOUS
  <2> QED
    BY <1>1, <2>1, SetSizes
<1>4. /\ k \in Nat /\ l \in Nat
      /\ Asking(P) \subseteq Asking(Q) => l <= k
      /\ Asking(P) \subseteq Asking(Q) \cup {q} => l <= k + 1
      /\ Asking(P) \subseteq Asking(Q) /\ q \in Asking(Q) \ Asking(P) => l + 1 <= k
  <2>1. Asking(P) \subseteq Asking(Q) /\ q \in Asking(Q) \ Asking(P)
          => q \in Asking(Q) /\ Asking(P) \subseteq Asking(Q) \ {q}
    OBVIOUS
  <2> QED
    BY <1>1, <2>1, SetSizes
<1>5. Spare(Q, s) = u + g + k /\ Spare(P, t) = v + h + l
  BY DEF Spare
<1> HIDE DEF u, v, g, h, k, l
<1>6. Asking(P) \subseteq Asking(Q) => Spare(P, t) <= Spare(Q, s)
  BY <1>2, <1>3, <1>4, <1>5
<1>7. /\ Asking(P) \subseteq Asking(Q) \cup {q}
      /\ q \in Unused(Q) \ Unused(P) \/ q \in Again(Q, s) \ Again(P, t)
      => Spare(P, t) <= Spare(Q, s)
  BY <1>2, <1>3, <1>4, <1>5
<1>8. Asking(P) \subseteq Asking(Q) /\ q \in Asking(Q) \ Asking(P) => Spare(P, t) + 1 <= Spare(Q, s)
  BY <1>2, <1>3, <1>4, <1>5
<1> QED
  BY <1>6, <1>7, <1>8

\* Queries may go from the queue to a job, or be given up.
Settles(Q, P) ==
  \A q \in Ids : \/ P[q] = Q[q]
                 \/ P[q].at \notin {"unused", "asking", "queued"}

\* Neither the queries nor the calls can ask more.
LEMMA NothingAsked ==
  ASSUME NEW n \in Nat, NEW Q, NEW s, n + Spare(Q, s) <= 2 * MaxQueries, NEW P, Settles(Q, P), NEW t,
         \A i \in DOMAIN t, q \in Ids : MayAsk(t[i], Q, q) => \E j \in DOMAIN s : MayAsk(s[j], Q, q)
  PROVE  n + Spare(P, t) <= 2 * MaxQueries
<1>1. Unused(P) \subseteq Unused(Q) /\ Asking(P) \subseteq Asking(Q)
  BY DEF Unused, Asking, Settles
<1>2. Again(P, t) \subseteq Again(Q, s)
  <2> SUFFICES ASSUME NEW q \in Again(P, t) PROVE q \in Again(Q, s)
    OBVIOUS
  <2>1. q \in Ids /\ (P[q].at = "unused" \/ \E i \in DOMAIN t : MayAsk(t[i], P, q))
    BY DEF Again
  <2>2. P[q] = Q[q]
    BY <2>1 DEF MayAsk, Settles
  <2>3. \A f : MayAsk(f, P, q) => MayAsk(f, Q, q)
    BY <2>2 DEF MayAsk
  <2> QED
    BY <2>1, <2>2, <2>3 DEF Again
<1>3. Spare(P, t) <= Spare(Q, s)
  BY <1>1, <1>2, SpareChanges
<1>4. Spare(P, t) \in Nat /\ Spare(Q, s) \in Nat /\ MaxQueries \in Nat
  BY SpareIsNat, PrintingAssumption
<1> QED
  BY <1>3, <1>4

\* Queries settle in several steps.
LEMMA SettlesTwice ==
  ASSUME NEW Q, NEW P, NEW R, Settles(Q, P), Settles(P, R)
  PROVE  Settles(Q, R)
BY DEF Settles

\* A query settles when it becomes a job.
LEMMA CreateSettles ==
  ASSUME NEW b \in Browsers, NEW c
  PROVE  Settles(b.queries, OpportunisticallyCreatePrintJob(b, c).queries)
<1> DEFINE found == {q \in Ids : b.queries[q].at = "queued" /\ b.queries[q].cookie = c}
           d == OpportunisticallyCreatePrintJob(b, c)
<1>1. CASE b.tab.job # 0 \/ found = {}
  BY <1>1 DEF OpportunisticallyCreatePrintJob, Settles
<1>2. CASE ~(b.tab.job # 0 \/ found = {})
  <2> DEFINE q == CHOOSE r \in found : TRUE
  <2>1. q \in found
    BY <1>2
  <2>2. d = [b EXCEPT !.queries[q].at = "job",
                 !.jobs[q] = [NewJob EXCEPT !.pending = TRUE, !.doc = TRUE, !.listens = TRUE,
                                            !.count = b.tab.number],
                 !.workers[q].tasks = @ \o <<"doc", "start">>,
                 !.tab.job = q, !.tab.succeeded = FALSE, !.tab.current = @ \cup {q}]
    BY <1>2 DEF OpportunisticallyCreatePrintJob
  <2> HIDE DEF q
  <2>3. q \in Ids
    BY <2>1
  <2> HIDE DEF d
  <2>4. d.queries = [b.queries EXCEPT ![q].at = "job"]
    BY <2>2 DEF Browsers
  <2>5. b.queries \in [Ids -> Queries] /\ b.queries[q] \in Queries
    BY <2>3 DEF Browsers
  <2>6. d.queries[q].at = "job" /\ \A r \in Ids : r # q => d.queries[r] = b.queries[r]
    BY <2>3, <2>4, <2>5 DEF Queries
  <2>7. Settles(b.queries, d.queries)
    BY <2>6 DEF Settles
  <2> QED
    BY <2>7 DEF d
<1> QED
  BY <1>1, <1>2

\* The arrival of a page makes at most a job of a query.
LEMMA PageSettles ==
  ASSUME NEW b \in Browsers, NEW c, NEW n
  PROVE  Settles(b.queries, OnDidPrintPage(b, c, n).queries)
<1> DEFINE e == OpportunisticallyCreatePrintJob(b, c)
           f == [e EXCEPT !.jobs[e.tab.job].pages = @ \cup {n}]
           d == OnDidPrintPage(b, c, n)
<1>1. Settles(b.queries, e.queries)
  BY CreateSettles
<1>2. d = f \/ d = e
  BY DEF OnDidPrintPage
<1> HIDE DEF d
<1>3. f.queries = e.queries
  <2> HIDE DEF e
  <2> QED
    OBVIOUS
<1> HIDE DEF e, f
<1>4. d.queries = e.queries
  BY <1>2, <1>3
<1> QED
  BY <1>1, <1>4 DEF d

\* ReleasePrinterQuery settles what is in the queue.
LEMMA ReleaseSettles ==
  ASSUME NEW b \in Browsers
  PROVE  Settles(b.queries, ReleasePrinterQuery(b).queries)
<1> DEFINE found == {q \in Ids : b.queries[q].at = "queued" /\ b.queries[q].cookie = b.tab.cookie}
           Q == [q \in Ids |-> IF q \in found THEN [b.queries[q] EXCEPT !.at = "released"] ELSE b.queries[q]]
           d == ReleasePrinterQuery(b)
<1>1. CASE b.tab.cookie = 0
  BY <1>1 DEF ReleasePrinterQuery, Settles
<1>2. CASE b.tab.cookie # 0
  <2>1. d = [b EXCEPT !.tab.cookie = 0, !.loops.io = @ \cup found, !.queries = Q]
    BY <1>2 DEF ReleasePrinterQuery
  <2>2. b.queries \in [Ids -> Queries]
    BY DEF Browsers
  <2> HIDE DEF d, Q
  <2>3. d.queries = Q
    BY <2>1 DEF Browsers
  <2>4. \A q \in Ids : /\ q \in found => Q[q].at = "released"
                       /\ q \notin found => Q[q] = b.queries[q]
    BY <2>2 DEF Q, Queries
  <2>5. Settles(b.queries, d.queries)
    BY <2>3, <2>4 DEF Settles
  <2> QED
    BY <2>5 DEF d
<1> QED
  BY <1>1, <1>2

\* Ending a job leaves the queries alone.
LEMMA WindsSettle ==
  ASSUME NEW b, NEW d, Winds(b, d)
  PROVE  Settles(b.queries, d.queries)
BY DEF Winds, Settles

\* So does OnDocumentDone.
LEMMA DocumentDoneSettles ==
  ASSUME NEW b \in Browsers, NEW q \in Ids, b.queries[q].at = "job", helper.alive \in BOOLEAN
  PROVE  Settles(b.queries, OnDocumentDone(b, q).queries)
<1> DEFINE e == Stop(b, q)
           f == Untrack(e, q)
           g == [f EXCEPT !.tab.succeeded = TRUE]
           d == OnDocumentDone(b, q)
<1>1. Winds(b, e) /\ e \in Browsers
  BY StopWinds DEF Winds
<1> HIDE DEF e
<1>10. Winds(e, f)
  BY <1>1, UntrackWinds
<1>3. d = IF b.tab.job = q THEN ReleasePrintJob(g) ELSE f
  BY DEF OnDocumentDone, e
<1> HIDE DEF f, d
<1>2. Winds(e, f) /\ f \in Browsers
  BY <1>10 DEF Winds
<1>4. f.tab \in Tabs
  BY <1>2 DEF Browsers
<1>5. /\ g.queries = f.queries /\ g.jobs = f.jobs /\ g.workers = f.workers /\ g.loops = f.loops
      /\ g.tab = [f.tab EXCEPT !.succeeded = TRUE]
  BY <1>2 DEF Browsers
<1>6. g.tab \in Tabs
  BY <1>4, <1>5, SucceededTab
<1>7. g \in Browsers
  BY <1>2, <1>5, <1>6 DEF Browsers
<1> HIDE DEF g
<1>8. Winds(g, ReleasePrintJob(g))
  BY <1>7, ReleaseWinds
<1>9. d.queries = b.queries
  BY <1>1, <1>2, <1>3, <1>5, <1>8 DEF Winds
<1> QED
  BY <1>9 DEF Settles, d

\* The death of the renderer settles the queries it waited for.
LEMMA GoneSettles ==
  ASSUME NEW h \in Helpers, NEW u \in Uses, NEW b \in Browsers, Consistent(h, b, u),
         helper.alive \in BOOLEAN
  PROVE  Settles(b.queries, RenderProcessGone(b).queries)
<1> DEFINE c == ReleasePrinterQuery(b)
           d == RenderProcessGone(b)
           e == TerminatePrintJob(c, ~Complete(c.jobs[c.tab.job]))
<1>1. c \in Browsers /\ Consistent(h, c, u) /\ Settles(b.queries, c.queries)
  BY QueryReleased, ReleaseSettles
<1>2. d = IF c.tab.job = 0 \/ ~c.jobs[c.tab.job].doc THEN c ELSE e
  BY DEF RenderProcessGone
<1> HIDE DEF c, d
<1>3. c.tab.job # 0 => c.queries[c.tab.job].at = "job"
  BY <1>1 DEF Consistent, Kept, OnlyJobs, HeldJobs, TaskJobs, InboxJobs, IdleQueries
<1>4. Winds(c, e)
  BY <1>1, <1>3, TerminateWinds
<1> HIDE DEF e
<1>5. d.queries = c.queries
  BY <1>2, <1>4 DEF Winds
<1> QED
  BY <1>1, <1>5 DEF d

\* Every task of the UI thread at most settles queries.
LEMMA HandleSettles ==
  ASSUME NEW h \in Helpers, NEW u \in Uses, NEW b \in Browsers, Consistent(h, b, u),
         b.loops.ui # <<>>, helper.alive \in BOOLEAN
  PROVE  Settles(b.queries, Handle([b EXCEPT !.loops.ui = Tail(@)], Head(b.loops.ui)).queries)
<1> DEFINE t == Head(b.loops.ui)
           v == Tail(b.loops.ui)
           e == [b EXCEPT !.loops.ui = v]
           d == Handle([b EXCEPT !.loops.ui = Tail(@)], Head(b.loops.ui))
<1>1. TaskOK(h, b, u, t)
  BY TaskFacts
<1>2. v \in Seq(UITasks)
  <2>1. b.loops.ui \in Seq(UITasks)
    BY DEF Browsers, Queues
  <2> QED
    BY <2>1, TailIs
<1>3. d = Handle(e, t)
  OBVIOUS
<1> HIDE DEF v, t
<1>4. /\ e \in Browsers
      /\ e.queries = b.queries /\ e.tab = b.tab /\ e.jobs = b.jobs /\ e.workers = b.workers
      /\ e.loops.ui = v
      /\ e.loops.inbox = b.loops.inbox /\ e.loops.io = b.loops.io
      /\ e.loops.pool = b.loops.pool /\ e.loops.polls = b.loops.polls
  BY <1>2, QueueIs
<1> HIDE DEF e, d
<1>5. t.task \in TaskNames
  BY <1>1 DEF TaskOK, UITasks
<1>6. t.task \notin {"cookie", "count"} => Consistent(h, e, u)
  BY <1>4, TaskTaken DEF t, v
<1>7. t.task \in JobTasks => t.id \in Ids /\ e.queries[t.id].at = "job"
  BY <1>1, <1>4 DEF TaskOK
<1>8. CASE t.task = "cookie"
  <2>1. d = [e EXCEPT !.tab.cookie = t.id]
    BY <1>3, <1>8 DEF Handle
  <2>2. d.queries = e.queries
    BY <1>4, <2>1 DEF Browsers
  <2> QED
    BY <1>4, <2>2 DEF Settles, d
<1>9. CASE t.task = "count"
  <2> DEFINE f == [e EXCEPT !.tab.number = t.n]
  <2>1. d = OpportunisticallyCreatePrintJob(f, t.id)
    BY <1>3, <1>9 DEF Handle, OnDidGetPrintedPagesCount
  <2>2. /\ f.queries = b.queries /\ f.jobs = b.jobs /\ f.workers = b.workers /\ f.loops = e.loops
        /\ f.tab = [b.tab EXCEPT !.number = t.n]
    BY <1>4 DEF Browsers
  <2>3. t.n \in PageCounts /\ b.tab \in Tabs
    BY <1>1, <1>9 DEF TaskOK, Browsers
  <2>4. f.tab \in Tabs
    BY <2>2, <2>3 DEF Tabs
  <2>5. f \in Browsers
    BY <1>4, <2>2, <2>4 DEF Browsers
  <2> HIDE DEF f
  <2> QED
    BY <2>1, <2>2, <2>5, CreateSettles DEF d
<1>10. CASE t.task = "page"
  <2>1. d = OnDidPrintPage(e, t.id, t.n)
    BY <1>3, <1>10 DEF Handle
  <2> QED
    BY <1>4, <2>1, PageSettles DEF d
<1>11. CASE t.task = "failed"
  <2>1. d = IF t.id = e.tab.cookie THEN ReleasePrinterQuery(e) ELSE e
    BY <1>3, <1>11 DEF Handle, OnPrintingFailed
  <2>2. Settles(e.queries, e.queries)
    BY DEF Settles
  <2> QED
    BY <1>4, <2>1, <2>2, ReleaseSettles DEF d
<1>12. CASE t.task = "gone"
  <2>1. d = RenderProcessGone(e)
    BY <1>3, <1>12 DEF Handle
  <2> QED
    BY <1>4, <1>6, <1>12, <2>1, GoneSettles DEF d
<1>13. CASE t.task = "jobFailed"
  <2>1. d = OnFailed(e, t.id)
    BY <1>3, <1>13 DEF Handle
  <2>2. t.id \in Ids /\ e.queries[t.id].at = "job"
    BY <1>7, <1>13 DEF JobTasks
  <2>3. Winds(e, OnFailed(e, t.id))
    BY <1>4, <2>2, FailedWinds
  <2> QED
    BY <1>4, <2>1, <2>3, WindsSettle DEF d
<1>14. CASE t.task = "documentDone"
  <2>1. d = OnDocumentDone(e, t.id)
    BY <1>3, <1>14 DEF Handle
  <2>2. t.id \in Ids /\ e.queries[t.id].at = "job"
    BY <1>7, <1>14 DEF JobTasks
  <2> QED
    BY <1>4, <2>1, <2>2, DocumentDoneSettles DEF d
<1>15. CASE t.task = "docDone"
  <2>1. d = IF e.jobs[t.id].listens THEN [e EXCEPT !.loops.ui = Append(@, Task("documentDone", t.id, 0))] ELSE e
    BY <1>3, <1>15 DEF Handle, OnDocDone
  <2>2. d.queries = e.queries
    BY <1>4, <2>1 DEF Browsers
  <2> QED
    BY <1>4, <2>2 DEF Settles, d
<1> QED
  BY <1>5, <1>8, <1>9, <1>10, <1>11, <1>12, <1>13, <1>14, <1>15 DEF TaskNames

\* Where nothing more can be asked, there are cookies enough as before.
LEMMA EnoughStays ==
  ASSUME IInv, Enough, used'.cookies = used.cookies, Settles(queries, queries'),
         \A i \in DOMAIN helper'.stack, q \in Ids : MayAsk(helper'.stack[i], queries, q)
             => \E j \in DOMAIN helper.stack : MayAsk(helper.stack[j], queries, q)
  PROVE  Enough'
<1>1. used.cookies \in Nat /\ used.cookies + Spare(queries, helper.stack) <= 2 * MaxQueries
  BY HelperFacts DEF Enough
<1> DEFINE n == used.cookies
           s == helper.stack
           t == helper'.stack
           P == queries'
<1>2. n \in Nat /\ n + Spare(queries, s) <= 2 * MaxQueries
  BY <1>1
<1>3. /\ Settles(queries, P)
      /\ \A i \in DOMAIN t, q \in Ids : MayAsk(t[i], queries, q) => \E j \in DOMAIN s : MayAsk(s[j], queries, q)
  OBVIOUS
<1> HIDE DEF n, s, t, P
<1>4. n + Spare(P, t) <= 2 * MaxQueries
  BY <1>2, <1>3, NothingAsked
<1> QED
  BY <1>4 DEF Enough, n, t, P

\* The UI thread and the workers leave the renderer's calls alone.
LEMMA BrowserEnough ==
  ASSUME IInv, Enough, helper' = helper, used'.cookies = used.cookies, Settles(queries, queries')
  PROVE  Enough'
BY EnoughStays

\* No query need settle.
LEMMA SameQueries == ASSUME queries' = queries PROVE Settles(queries, queries')
BY DEF Settles

\* The queries are those that the task leaves.
LEMMA BecomesSettles ==
  ASSUME NEW d, Becomes(d), Settles(Browser.queries, d.queries)
  PROVE  Settles(queries, queries')
BY DEF Becomes, Browser

\* Tasks of the UI thread leave cookies enough.
LEMMA UITaskEnough == ASSUME IInv, Enough, UITask PROVE Enough'
<1> DEFINE d == Handle([Browser EXCEPT !.loops.ui = Tail(@)], Head(Browser.loops.ui))
<1>1. /\ helper \in Helpers /\ Browser \in Browsers /\ used \in Uses
      /\ Consistent(helper, Browser, used) /\ helper.alive \in BOOLEAN
  BY DEF IInv, Helpers
<1>2. Browser.loops = loops
  BY DEF Browser
<1>3. Browser.loops.ui # <<>> /\ Becomes(d) /\ UNCHANGED <<helper, used>>
  BY <1>2 DEF UITask
<1>4. Settles(Browser.queries, d.queries)
  BY <1>1, <1>3, HandleSettles
<1> HIDE DEF d
<1> QED
  BY <1>3, <1>4, BecomesSettles, BrowserEnough

\* So does NavigationStopped.
LEMMA NavigationEnough == ASSUME IInv, Enough, NavigationStopped PROVE Enough'
<1> DEFINE d == TerminatePrintJob(Browser, TRUE)
<1>1. /\ Browser \in Browsers /\ used \in Uses /\ Consistent(helper, Browser, used) /\ helper.alive \in BOOLEAN
  BY DEF IInv, Helpers
<1>2. Browser.tab.job # 0 => Browser.queries[Browser.tab.job].at = "job"
  BY <1>1 DEF Consistent, Kept, OnlyJobs, HeldJobs, TaskJobs, InboxJobs, IdleQueries
<1>3. Winds(Browser, d)
  BY <1>1, <1>2, TerminateWinds
<1>4. Becomes(d) /\ helper' = helper /\ used' = [used EXCEPT !.faults = @ + 1]
  BY DEF NavigationStopped
<1> HIDE DEF d
<1>5. Settles(queries, queries')
  BY <1>3, <1>4, WindsSettle, BecomesSettles
<1>6. used'.cookies = used.cookies
  BY <1>1, <1>4 DEF Uses
<1> QED
  BY <1>4, <1>5, <1>6, BrowserEnough

\* So does polling on Windows.
LEMMA PollEnough == ASSUME IInv, Enough, NEW q \in Ids, Poll(q) PROVE Enough'
<1> DEFINE b == Browser
           e == [b EXCEPT !.loops.polls = @ \ {q}]
           d == Shutdown(e, q)
<1>1. b \in Browsers /\ Consistent(helper, b, used)
  BY DEF IInv
<1>2. b.loops = loops
  BY DEF Browser
<1>3. q \in b.loops.polls /\ Becomes(d) /\ UNCHANGED <<helper, used>>
  BY <1>2 DEF Poll
<1>4. b.queries[q].at = "job"
  BY <1>1, <1>3 DEF Consistent, Kept, OnlyJobs, HeldJobs, TaskJobs, InboxJobs, IdleQueries
<1> HIDE DEF b
<1>5. /\ e.queries = b.queries /\ e.tab = b.tab /\ e.jobs = b.jobs /\ e.workers = b.workers
      /\ e.loops = [b.loops EXCEPT !.polls = @ \ {q}]
  BY <1>1 DEF Browsers
<1>6. b.loops \in Queues
  BY <1>1 DEF Browsers
<1>7. /\ e.loops \in Queues /\ e.loops.ui = b.loops.ui /\ e.loops.inbox = b.loops.inbox
      /\ e.loops.io = b.loops.io /\ e.loops.pool = b.loops.pool /\ e.loops.polls = b.loops.polls \ {q}
  BY <1>5, <1>6 DEF Queues
<1>8. e \in Browsers
  BY <1>1, <1>5, <1>7 DEF Browsers
<1> HIDE DEF e
<1>9. Winds(e, d)
  BY <1>4, <1>5, <1>8, ShutdownWinds
<1> HIDE DEF d
<1>10. Settles(b.queries, d.queries)
  BY <1>5, <1>9, WindsSettle
<1> QED
  BY <1>3, <1>10, BecomesSettles, BrowserEnough DEF b

\* So does the end of FlushJob.
LEMMA FlushedEnough == ASSUME IInv, Enough, Flushed PROVE Enough'
<1> DEFINE b == Browser
           q == tab.flushing
           e == [b EXCEPT !.tab.flushing = 0]
           d == Stop(e, q)
<1>1. b \in Browsers /\ Consistent(helper, b, used) /\ b.tab \in Tabs
  BY DEF IInv, Browsers
<1>2. b.tab = tab
  BY DEF Browser
<1>3. Becomes(d) /\ q # 0 /\ b.tab.flushing = q /\ UNCHANGED <<helper, used>>
  BY <1>2 DEF Flushed
<1>4. q \in Ids /\ b.queries[q].at = "job"
  BY <1>1, <1>3 DEF Consistent, Kept, OnlyJobs, HeldJobs, TaskJobs, InboxJobs, IdleQueries, Tabs
<1> HIDE DEF b, q
<1>5. /\ e.queries = b.queries /\ e.workers = b.workers /\ e.jobs = b.jobs /\ e.loops = b.loops
      /\ e.tab = [b.tab EXCEPT !.flushing = 0]
  BY <1>1 DEF Browsers
<1>6. e.tab \in Tabs
  BY <1>1, <1>5 DEF Tabs
<1>7. e \in Browsers
  BY <1>1, <1>5, <1>6 DEF Browsers
<1> HIDE DEF e
<1>8. Winds(e, d)
  BY <1>4, <1>5, <1>7, StopWinds
<1> HIDE DEF d
<1>9. Settles(b.queries, d.queries)
  BY <1>5, <1>8, WindsSettle
<1> QED
  BY <1>3, <1>9, BecomesSettles, BrowserEnough DEF b

\* Steps that no query notices.
LEMMA QuietEnough ==
  ASSUME IInv, Enough,
         OnQuit \/ QuitDone \/ \E q \in Ids : FlushJob(q) \/ PoolStops(q) \/ WorkerThread(q)
  PROVE  Enough'
<1>1. used \in Uses
  BY DEF IInv
<1>2. helper' = helper /\ queries' = queries
  <2>1. CASE OnQuit \/ QuitDone
    BY <2>1 DEF OnQuit, QuitDone
  <2>2. ASSUME NEW q \in Ids, FlushJob(q) \/ PoolStops(q) PROVE helper' = helper /\ queries' = queries
    BY <2>2 DEF FlushJob, PoolStops
  <2>3. ASSUME NEW q \in Ids, WorkerThread(q) PROVE helper' = helper /\ queries' = queries
    <3>1. CASE \E f, g \in BOOLEAN : StartPrinting(q, f, g)
      BY <3>1 DEF StartPrinting
    <3>2. CASE \E f \in BOOLEAN : SpoolPage(q, f)
      BY <3>2 DEF SpoolPage
    <3>3. CASE Retry(q) \/ ThreadEnds(q)
      BY <3>3 DEF Retry, ThreadEnds
    <3>4. CASE \E d \in BOOLEAN : OnDocumentChanged(q, d)
      BY <3>4 DEF OnDocumentChanged
    <3> QED
      BY <2>3, <3>1, <3>2, <3>3, <3>4 DEF WorkerThread
  <2> QED
    BY <2>1, <2>2, <2>3
<1>3. used' = used \/ used' = [used EXCEPT !.faults = @ + 1]
  <2>1. OnQuit \/ QuitDone \/ (\E q \in Ids : FlushJob(q) \/ PoolStops(q)) \/ \E q \in Ids : WorkerThread(q)
    OBVIOUS
  <2>2. CASE OnQuit \/ QuitDone \/ \E q \in Ids : FlushJob(q) \/ PoolStops(q)
    BY <2>2 DEF OnQuit, QuitDone, FlushJob, PoolStops
  <2>3. ASSUME NEW q \in Ids, WorkerThread(q) PROVE used' = used \/ used' = [used EXCEPT !.faults = @ + 1]
    <3>0. [used EXCEPT !.faults = used.faults] = used
      BY <1>1 DEF Uses
    <3>1. CASE \E f, g \in BOOLEAN : StartPrinting(q, f, g)
      BY <3>0, <3>1 DEF StartPrinting
    <3>2. CASE \E f \in BOOLEAN : SpoolPage(q, f)
      BY <3>0, <3>2 DEF SpoolPage, MayFail
    <3>3. CASE Retry(q) \/ ThreadEnds(q) \/ \E d \in BOOLEAN : OnDocumentChanged(q, d)
      BY <3>3 DEF Retry, ThreadEnds, OnDocumentChanged
    <3> QED
      BY <2>3, <3>1, <3>2, <3>3 DEF WorkerThread
  <2> QED
    BY <2>1, <2>2, <2>3
<1>4. used'.cookies = used.cookies
  BY <1>1, <1>3 DEF Uses
<1> QED
  BY <1>2, <1>4, SameQueries, BrowserEnough

\* The renderer asks the browser nothing by itself.
LEMMA RendererEnough ==
  ASSUME IInv, Enough, UNCHANGED queries, used'.cookies = used.cookies, NEW t, helper'.stack = t,
         \A i \in DOMAIN t :
           \/ \E j \in DOMAIN helper.stack : t[i] = helper.stack[j]
           \/ t[i].query = 0 /\ t[i].at = "default" /\ ~t[i].replied
           \/ /\ helper.stack # <<>> /\ Top.at = "default" /\ Top.replied
              /\ t[i].at = "ask" /\ t[i].cookie = Top.cookie
  PROVE  Enough'
<1>1. ASSUME NEW i \in DOMAIN t, NEW q \in Ids, MayAsk(t[i], queries, q)
      PROVE  \E j \in DOMAIN helper.stack : MayAsk(helper.stack[j], queries, q)
  <2>1. CASE \E j \in DOMAIN helper.stack : t[i] = helper.stack[j]
    BY <1>1, <2>1
  <2>2. CASE t[i].query = 0 /\ t[i].at = "default" /\ ~t[i].replied
    <3>1. q # 0
      BY DEF Ids
    <3> QED
      BY <1>1, <2>2, <3>1 DEF MayAsk
  <2>3. CASE /\ helper.stack # <<>> /\ Top.at = "default" /\ Top.replied
             /\ t[i].at = "ask" /\ t[i].cookie = Top.cookie
    <3>1. Len(helper.stack) \in DOMAIN helper.stack /\ Top = helper.stack[Len(helper.stack)]
      BY <2>3, TopFacts
    <3>2. queries[q].at = "queued" /\ queries[q].cookie = Top.cookie
      BY <1>1, <2>3 DEF MayAsk
    <3>3. MayAsk(Top, queries, q)
      BY <2>3, <3>2 DEF MayAsk
    <3> QED
      BY <3>1, <3>3
  <2> QED
    BY <2>1, <2>2, <2>3
<1>2. Settles(queries, queries')
  BY DEF Settles
<1> QED
  BY <1>1, <1>2, EnoughStays

\* A call of Print has first to be answered.
LEMMA PrintFrameEnough == ASSUME IInv, Enough, PrintFrame PROVE Enough'
<1> DEFINE s == helper.stack
           f == Call("default", 0)
           t == Append(s, f)
<1>1. /\ UNCHANGED queries /\ used' = [used EXCEPT !.prints = @ + 1]
      /\ helper' = [helper EXCEPT !.stack = t]
  BY DEF PrintFrame
<1>2. /\ helper \in Helpers /\ used \in Uses /\ s \in Seq(Calls)
  BY HelperFacts
<1>3. f.at = "default" /\ f.query = 0 /\ ~f.replied
  BY DEF Call
<1> HIDE DEF f
<1>4. \A i \in DOMAIN t : (i \in DOMAIN s /\ t[i] = s[i]) \/ t[i] = f
  BY <1>2
<1> HIDE DEF t
<1>5. helper'.stack = t
  BY <1>1, <1>2 DEF Helpers
<1>6. used'.cookies = used.cookies
  BY <1>1, <1>2 DEF Uses
<1>7. \A i \in DOMAIN t :
        \/ \E j \in DOMAIN helper.stack : t[i] = helper.stack[j]
        \/ t[i].query = 0 /\ t[i].at = "default" /\ ~t[i].replied
  BY <1>3, <1>4
<1> QED
  BY <1>1, <1>5, <1>6, <1>7, RendererEnough

\* The question to the user is the second answer that was counted.
LEMMA DefaultSettingsEnough ==
  ASSUME IInv, Enough, NEW pages \in PageCounts, DefaultSettings(pages) PROVE Enough'
<1> DEFINE c == Top.cookie
           f == Call("ask", c)
<1>1. /\ helper.stack # <<>> /\ Top.at = "default" /\ Top.replied /\ UNCHANGED <<queries, used>>
  BY DEF DefaultSettings
<1>2. helper \in Helpers
  BY HelperFacts
<1>3. /\ Popped \in Seq(Calls)
      /\ \A i \in DOMAIN Popped : i \in DOMAIN helper.stack /\ Popped[i] = helper.stack[i]
  BY <1>1, TopFacts
<1>4. \/ helper' = Finished(Popped)
      \/ helper' = [helper EXCEPT !.params = NoParams, !.stack = Append(Popped, f)]
  BY DEF DefaultSettings
<1>5. f.at = "ask" /\ f.cookie = c
  BY DEF Call
<1> HIDE DEF f
<1>6. PICK t \in {Popped, Append(Popped, f)} : helper'.stack = t
  BY <1>2, <1>4 DEF Finished, Helpers
<1>7. \A i \in DOMAIN t : (i \in DOMAIN Popped /\ t[i] = Popped[i]) \/ t[i] = f
  <2> DEFINE p == Popped
  <2>1. p \in Seq(Calls) /\ t \in {p, Append(p, f)}
    BY <1>3
  <2> HIDE DEF p
  <2>2. \A i \in DOMAIN t : (i \in DOMAIN p /\ t[i] = p[i]) \/ t[i] = f
    BY <2>1
  <2> QED
    BY <2>2 DEF p
<1>8. \A i \in DOMAIN t :
        \/ \E j \in DOMAIN helper.stack : t[i] = helper.stack[j]
        \/ /\ helper.stack # <<>> /\ Top.at = "default" /\ Top.replied
           /\ t[i].at = "ask" /\ t[i].cookie = Top.cookie
  BY <1>1, <1>3, <1>5, <1>7
<1> QED
  BY <1>1, <1>6, <1>8, RendererEnough

\* A call ends, or the renderer does something else, or dies.
LEMMA OtherRendererEnough ==
  ASSUME IInv, Enough,
         \/ PrintingDone \/ Dies
         \/ \E n \in PageCounts, lost, selection, error \in BOOLEAN : SettingsFromUser(lost, selection, n, error)
         \/ \E n \in PageCounts, error \in BOOLEAN : FramePrepared(n, error)
  PROVE  Enough'
<1>1. helper \in Helpers /\ used \in Uses
  BY HelperFacts
<1>2. UNCHANGED queries /\ (used' = used \/ used' = [used EXCEPT !.faults = @ + 1])
  BY DEF PrintingDone, Dies, SettingsFromUser, FramePrepared
<1>3. used'.cookies = used.cookies
  BY <1>1, <1>2 DEF Uses
<1>4. CASE PrintingDone \/ \E n \in PageCounts, error \in BOOLEAN : FramePrepared(n, error)
  <2>1. helper' = Finished(helper.stack) \/ helper' = [helper EXCEPT !.prep = 0]
    BY <1>4 DEF PrintingDone, FramePrepared
  <2>2. helper'.stack = helper.stack
    BY <1>1, <2>1 DEF Finished, Helpers
  <2> QED
    BY <1>2, <1>3, <2>2, RendererEnough
<1>5. CASE Dies
  <2>1. helper'.stack = <<>>
    BY <1>5 DEF Dies, NewHelper
  <2> QED
    BY <1>2, <1>3, <2>1, RendererEnough
<1>6. CASE \E n \in PageCounts, lost, selection, error \in BOOLEAN : SettingsFromUser(lost, selection, n, error)
  <2>1. PICK n \in PageCounts, lost \in BOOLEAN, selection \in BOOLEAN, error \in BOOLEAN :
          SettingsFromUser(lost, selection, n, error)
    BY <1>6
  <2>2. /\ helper.stack # <<>>
        /\ \/ helper' = Finished(Popped)
           \/ helper' = [helper EXCEPT !.params = Top.cookie, !.prep = Top.cookie, !.stack = Popped]
           \/ helper' = [helper EXCEPT !.params = Top.cookie, !.stack = Popped]
    BY <2>1 DEF SettingsFromUser
  <2>3. helper'.stack = Popped
    BY <1>1, <2>2 DEF Finished, Helpers
  <2>4. \A i \in DOMAIN Popped : \E j \in DOMAIN helper.stack : Popped[i] = helper.stack[j]
    BY <2>2, TopFacts
  <2> QED
    BY <1>2, <1>3, <2>3, <2>4, RendererEnough
<1> QED
  BY <1>4, <1>5, <1>6

\* A query that is being given up is asked no more.
LEMMA StopWorkerEnough == ASSUME IInv, Enough, NEW q \in Ids, StopWorker(q) PROVE Enough'
<1>1. Browser.queries = queries /\ queries \in [Ids -> Queries]
  BY DEF IInv, Browser, Browsers
<1>2. /\ queries' = [queries EXCEPT ![q].at = "stopped"] /\ UNCHANGED <<helper, used>>
  BY DEF StopWorker
<1>3. queries'[q].at = "stopped" /\ \A r \in Ids : r # q => queries'[r] = queries[r]
  BY <1>1, <1>2 DEF Queries
<1>4. Settles(queries, queries')
  BY <1>3 DEF Settles
<1> QED
  BY <1>2, <1>4, BrowserEnough

\* A query that is asked was unused, or one that could be asked again and then cannot.
LEMMA GetSettingsEnough == ASSUME IInv, Enough, GetSettings PROVE Enough'
<1> DEFINE s == helper.stack
           n == Len(s)
           old == IF Top.at = "default" THEN Queued(0) ELSE Queued(Top.cookie)
           new == {r \in Ids : queries[r].at = "unused"}
<1>1. s # <<>> /\ Top.query = 0 /\ used' = used
  BY DEF GetSettings
<1>2. PICK q \in IF old # {} THEN old ELSE new :
        Ask(q) /\ helper' = [helper EXCEPT !.stack[n].query = q]
  BY DEF GetSettings
<1>3. /\ q \in Ids
      /\ \/ queries[q].at = "unused"
         \/ /\ queries[q].at = "queued"
            /\ queries[q].cookie = (IF Top.at = "default" THEN 0 ELSE Top.cookie)
  BY DEF Queued
<1> HIDE DEF old, new
<1>4. /\ helper \in Helpers /\ s \in Seq(Calls) /\ used.cookies \in Nat
      /\ Stacked(helper) /\ AskedFor(helper, Browser)
  BY HelperFacts
<1>5. Browser.queries = queries /\ queries \in [Ids -> Queries]
  BY DEF IInv, Browser, Browsers
<1>6. /\ n \in DOMAIN s /\ Top = s[n] /\ Top \in Calls
  BY <1>1, TopFacts
<1> DEFINE P == queries'
           t == helper'.stack
<1>7. P[q].at = "asking" /\ \A r \in Ids : r # q => P[r] = queries[r]
  BY <1>2, <1>3, <1>5 DEF Ask, Queries
<1> DEFINE f == [s[n] EXCEPT !.query = q]
<1>8. f.query = q /\ f.at = s[n].at /\ f.cookie = s[n].cookie /\ f.replied = s[n].replied
  BY <1>3, <1>6 DEF Calls
<1>9. t = [s EXCEPT ![n] = f]
  BY <1>2, <1>4, <1>6 DEF Helpers
<1>10. DOMAIN t = DOMAIN s /\ t[n] = f /\ \A i \in DOMAIN s : i # n => t[i] = s[i]
  BY <1>4, <1>6, <1>9
<1>11. q # 0
  BY <1>3 DEF Ids
<1>12. s[n].query = 0 /\ \A i \in DOMAIN s : i # n => s[i].at = "ask"
  BY <1>1, <1>4, <1>6 DEF Stacked
<1>13. queries[q].at = "queued" => queries[q].cookie = s[n].cookie /\ s[n].at = "ask"
  <2>1. queries[q].at = "queued" => queries[q].cookie # 0
    BY <1>3, <1>4, <1>5 DEF AskedFor
  <2>2. Top.at \in {"default", "ask"}
    BY <1>6 DEF Calls
  <2> QED
    BY <1>3, <1>6, <2>1, <2>2
<1> HIDE DEF s, n, t, P, f
<1>14. Unused(P) \subseteq Unused(queries) /\ Asking(P) \subseteq Asking(queries) \cup {q} /\ q \notin Unused(P)
  BY <1>7 DEF Unused, Asking
<1>15. ASSUME NEW r \in Again(P, t), r # q PROVE r \in Again(queries, s)
  <2>1. r \in Ids /\ P[r] = queries[r] /\ (P[r].at = "unused" \/ \E i \in DOMAIN t : MayAsk(t[i], P, r))
    BY <1>7, <1>15 DEF Again
  <2>2. ASSUME NEW i \in DOMAIN t, MayAsk(t[i], P, r) PROVE MayAsk(s[i], queries, r)
    <3>1. CASE i = n
      BY <1>8, <1>10, <1>11, <1>15, <2>1, <2>2, <3>1 DEF MayAsk
    <3>2. CASE i # n
      BY <1>10, <2>1, <2>2, <3>2 DEF MayAsk
    <3> QED
      BY <3>1, <3>2
  <2> QED
    BY <1>10, <2>1, <2>2 DEF Again
<1>16. ASSUME queries[q].at = "unused" PROVE Spare(P, t) <= Spare(queries, s)
  <2>1. q \in Unused(queries) /\ q \in Again(queries, s)
    BY <1>3, <1>16 DEF Unused, Again
  <2>2. Again(P, t) \subseteq Again(queries, s)
    BY <1>15, <2>1
  <2> QED
    BY <1>14, <2>1, <2>2, SpareChanges
<1>17. ASSUME queries[q].at = "queued" PROVE Spare(P, t) <= Spare(queries, s)
  <2>1. MayAsk(s[n], queries, q)
    BY <1>12, <1>13, <1>17 DEF MayAsk
  <2>2. q \in Again(queries, s)
    BY <1>3, <1>6, <2>1 DEF Again, n, s
  <2>3. \A i \in DOMAIN t : t[i].at = "ask"
    BY <1>8, <1>10, <1>12, <1>13, <1>17
  <2>4. q \notin Again(P, t)
    BY <1>7, <2>3 DEF Again, MayAsk
  <2>5. Again(P, t) \subseteq Again(queries, s)
    BY <1>15, <2>4
  <2> QED
    BY <1>14, <2>2, <2>4, <2>5, SpareChanges
<1>18. Spare(P, t) <= Spare(queries, s)
  BY <1>3, <1>16, <1>17
<1>19. Spare(P, t) \in Nat /\ Spare(queries, s) \in Nat /\ MaxQueries \in Nat
  BY SpareIsNat, PrintingAssumption
<1>20. used.cookies + Spare(P, t) <= 2 * MaxQueries
  BY <1>4, <1>18, <1>19 DEF Enough, s
<1> QED
  BY <1>1, <1>20 DEF Enough, P, t

\* An answer is a new cookie, and there is one answer less to wait for.
LEMMA GetSettingsDoneEnough ==
  ASSUME IInv, Enough, NEW q \in Ids, NEW ok \in BOOLEAN, GetSettingsDone(q, ok)
  PROVE  Enough'
<1> DEFINE c == NewCookie(ok)
           reply(f) == IF f.query = q THEN [f EXCEPT !.replied = TRUE, !.cookie = c] ELSE f
           s == helper.stack
           at == IF ok THEN "queued" ELSE "stopped"
           P == queries'
           t == helper'.stack
<1>1. /\ queries[q].at = "asking"
      /\ queries' = [queries EXCEPT ![q] = [at |-> at, cookie |-> c]]
      /\ used' = [used EXCEPT !.cookies = IF ok THEN c ELSE @]
      /\ helper' = [helper EXCEPT !.stack = [i \in DOMAIN s |-> reply(s[i])]]
  BY DEF GetSettingsDone
<1>2. /\ helper \in Helpers /\ used \in Uses /\ used.cookies \in Nat
      /\ AskedFor(helper, Browser) /\ \A i \in DOMAIN s : s[i].cookie <= used.cookies
  BY HelperFacts
<1>3. Browser.queries = queries /\ queries \in [Ids -> Queries]
  BY DEF IInv, Browser, Browsers
<1>4. \A r \in Ids : /\ queries[r].cookie <= used.cookies /\ queries[r].cookie \in Nat
                     /\ queries[r].at = "queued" => queries[r].cookie # 0
  <2>1. \A r \in Ids : queries[r] \in Queries
    BY <1>3
  <2>2. \A r \in Ids : queries[r].cookie <= used.cookies
    BY <1>3 DEF IInv, Consistent, Given
  <2>3. \A r \in Ids : queries[r].at = "queued" => queries[r].cookie # 0
    BY <1>2, <1>3 DEF AskedFor
  <2> QED
    BY <2>1, <2>2, <2>3 DEF Queries
<1>5. c = (IF ok THEN used.cookies + 1 ELSE 0) /\ c \in Nat
  BY <1>2 DEF NewCookie
<1>6. used'.cookies = (IF ok THEN used.cookies + 1 ELSE used.cookies)
  BY <1>1, <1>2, <1>5 DEF Uses
<1>7. P[q].at = at /\ P[q].cookie = c /\ \A r \in Ids : r # q => P[r] = queries[r]
  BY <1>1, <1>3
<1>8. /\ DOMAIN t = DOMAIN s
      /\ \A i \in DOMAIN s : s[i] \in Calls /\ t[i] = reply(s[i])
  <2>1. t = [i \in DOMAIN s |-> reply(s[i])]
    BY <1>1, <1>2 DEF Helpers
  <2>2. \A i \in DOMAIN s : s[i] \in Calls
    BY <1>2, CallsTyped
  <2> QED
    BY <2>1, <2>2
<1> HIDE DEF s, t, P, c
<1>9. ASSUME NEW i \in DOMAIN s
      PROVE  /\ s[i].query # q => t[i] = s[i]
             /\ s[i].query = q => t[i].query = q /\ t[i].at = s[i].at /\ t[i].cookie = c
             /\ s[i].at \in {"default", "ask"} /\ s[i].cookie \in Nat
  <2>1. s[i] \in Calls /\ t[i] = IF s[i].query = q THEN [s[i] EXCEPT !.replied = TRUE, !.cookie = c] ELSE s[i]
    BY <1>8
  <2> QED
    BY <2>1 DEF Calls
<1>10. \A r \in Ids : queries[r].at = "queued" => queries[r].cookie # c
  BY <1>2, <1>4, <1>5
<1>11. q # 0
  BY DEF Ids
<1>12. ASSUME NEW r \in Again(P, t) PROVE r \in Again(queries, s)
  <2>1. r \in Ids /\ (P[r].at = "unused" \/ \E i \in DOMAIN t : MayAsk(t[i], P, r))
    BY DEF Again
  <2>2. CASE r # q
    <3>1. P[r] = queries[r]
      BY <1>7, <2>1, <2>2
    <3>2. ASSUME NEW i \in DOMAIN t, MayAsk(t[i], P, r) PROVE MayAsk(s[i], queries, r)
      <4>1. CASE s[i].query = q
        <5>1. t[i].query = q /\ t[i].cookie = c
          BY <1>8, <1>9, <4>1
        <5>2. queries[r].at = "queued" /\ queries[r].cookie = c
          BY <2>2, <3>1, <3>2, <5>1 DEF MayAsk
        <5> QED
          BY <1>10, <2>1, <5>2
      <4>2. CASE s[i].query # q
        BY <1>8, <1>9, <3>1, <3>2, <4>2 DEF MayAsk
      <4> QED
        BY <4>1, <4>2
    <3> QED
      BY <1>8, <2>1, <3>1, <3>2 DEF Again
  <2>3. CASE r = q
    <3>1. PICK i \in DOMAIN t : MayAsk(t[i], P, q)
      BY <1>7, <2>1, <2>3
    <3>2. ok /\ t[i].cookie = c
      BY <1>7, <3>1 DEF MayAsk
    <3>3. s[i].query = q
      <4>1. SUFFICES ASSUME s[i].query # q PROVE FALSE
        OBVIOUS
      <4>2. s[i].cookie = used.cookies + 1 /\ s[i].cookie <= used.cookies
        BY <1>2, <1>5, <1>8, <1>9, <3>2, <4>1 DEF s
      <4> QED
        BY <1>2, <4>2
    <3>4. s[i].at = "default"
      BY <1>7, <1>8, <1>9, <1>11, <3>1, <3>3 DEF MayAsk
    <3>5. MayAsk(s[i], queries, q)
      BY <1>1, <3>3, <3>4 DEF MayAsk
    <3> QED
      BY <1>8, <2>1, <2>3, <3>1, <3>5 DEF Again
  <2> QED
    BY <2>2, <2>3
<1>13. /\ Unused(P) \subseteq Unused(queries) /\ Asking(P) \subseteq Asking(queries)
       /\ q \in Asking(queries) \ Asking(P)
  BY <1>1, <1>7 DEF Unused, Asking
<1>14. Again(P, t) \subseteq Again(queries, s)
  BY <1>12
<1>15. Spare(P, t) + 1 <= Spare(queries, s)
  BY <1>13, <1>14, SpareChanges
<1>16. Spare(P, t) \in Nat /\ Spare(queries, s) \in Nat /\ MaxQueries \in Nat
  BY SpareIsNat, PrintingAssumption
<1>17. used'.cookies + Spare(P, t) <= 2 * MaxQueries
  BY <1>2, <1>6, <1>15, <1>16 DEF Enough, s
<1> QED
  BY <1>17 DEF Enough, P, t

\* There are two cookies for every query at the begin.
LEMMA InitEnough == Init => Enough
<1> SUFFICES ASSUME Init PROVE Enough
  OBVIOUS
<1>1. used.cookies = 0
  BY DEF Init
<1>2. queries = [q \in Ids |-> NewQuery] /\ NewQuery.at = "unused"
  BY DEF Init, NewQuery
<1> DEFINE s == helper.stack
           Q == queries
<1>3. Unused(Q) \in SUBSET Ids /\ Again(Q, s) \in SUBSET Ids /\ Asking(Q) = {}
  BY <1>2 DEF Unused, Again, Asking
<1> HIDE DEF s, Q
<1>4. Cardinality(Unused(Q)) <= MaxQueries /\ Cardinality(Again(Q, s)) <= MaxQueries
  BY <1>3, IdsFinite, FS_Subset
<1>5. Cardinality(Asking(Q)) = 0
  BY <1>3, FS_EmptySet
<1>6. MaxQueries \in Nat
  BY PrintingAssumption
<1>7. 0 + Spare(Q, s) <= 2 * MaxQueries
  BY <1>4, <1>5, <1>6, SpareIsNat DEF Spare
<1> QED
  BY <1>1, <1>7 DEF Enough, s, Q

\* Every step leaves cookies enough.
LEMMA NextEnough == IInv /\ Enough /\ [Next]_vars => Enough'
<1> SUFFICES ASSUME IInv, Enough, [Next]_vars PROVE Enough'
  OBVIOUS
<1>1. CASE UITask \/ Flushed \/ NavigationStopped
  BY <1>1, UITaskEnough, FlushedEnough, NavigationEnough
<1>2. CASE \E q \in Ids : Poll(q)
  BY <1>2, PollEnough
<1>3. CASE OnQuit \/ QuitDone \/ \E q \in Ids : FlushJob(q) \/ PoolStops(q) \/ WorkerThread(q)
  BY <1>3, QuietEnough
<1>4. CASE Renderer
  BY <1>4, PrintFrameEnough, DefaultSettingsEnough, OtherRendererEnough DEF Renderer
<1>5. CASE IOThread
  BY <1>5, GetSettingsEnough, StopWorkerEnough, GetSettingsDoneEnough DEF IOThread
<1>6. CASE UNCHANGED vars
  BY <1>6 DEF vars, Enough
<1> QED
  BY <1>1, <1>2, <1>3, <1>4, <1>5, <1>6 DEF Next, Threads, UIThread

\* A natural number up to those that were given out is a cookie.
LEMMA EnoughCookies ==
  ASSUME IInv, Enough, NEW c \in Nat, c <= used.cookies
  PROVE  c \in Cookies
<1>1. used.cookies \in Nat /\ MaxQueries \in Nat /\ Spare(queries, helper.stack) \in Nat
  BY HelperFacts, PrintingAssumption, SpareIsNat
<1>2. used.cookies <= 2 * MaxQueries
  BY <1>1 DEF Enough
<1>3. c <= 2 * MaxQueries
  BY <1>1, <1>2
<1> QED
  BY <1>1, <1>3 DEF Cookies

\* What TypeOK says of the renderer.
LEMMA HelperWellFormed ==
  ASSUME IInv, Enough
  PROVE  /\ helper.alive \in BOOLEAN /\ helper.params \in Cookies \cup {NoParams} /\ helper.prep \in Cookies
         /\ \A i \in DOMAIN helper.stack :
              helper.stack[i] \in [at : {"default", "ask"}, cookie : Cookies, query : Ids \cup {0}, replied : BOOLEAN]
<1>1. /\ helper \in Helpers /\ helper.prep \in Nat /\ helper.prep <= used.cookies /\ helper.alive \in BOOLEAN
      /\ helper.params <= used.cookies /\ \A i \in DOMAIN helper.stack : helper.stack[i].cookie <= used.cookies
  BY HelperFacts
<1>2. helper.prep \in Cookies
  BY <1>1, EnoughCookies
<1>3. helper.params \in Cookies \cup {NoParams}
  <2>1. helper.params \in Nat \/ helper.params = NoParams
    BY <1>1 DEF Helpers
  <2> QED
    BY <1>1, <2>1, EnoughCookies
<1>4. ASSUME NEW i \in DOMAIN helper.stack
      PROVE  helper.stack[i] \in [at : {"default", "ask"}, cookie : Cookies, query : Ids \cup {0}, replied : BOOLEAN]
  <2> DEFINE f == helper.stack[i]
  <2>1. f \in Calls /\ f.cookie <= used.cookies
    BY <1>1, CallsTyped
  <2> HIDE DEF f
  <2>2. f.cookie \in Nat
    BY <2>1 DEF Calls
  <2>3. f.cookie \in Cookies
    BY <2>1, <2>2, EnoughCookies
  <2>4. f \in [at : {"default", "ask"}, cookie : Cookies, query : Ids \cup {0}, replied : BOOLEAN]
    BY <2>1, <2>3 DEF Calls
  <2> QED
    BY <2>4 DEF f
<1> QED
  BY <1>1, <1>2, <1>3, <1>4

\* What TypeOK says of queries and the tab.
LEMMA BrowserWellFormed ==
  ASSUME IInv, Enough
  PROVE  /\ queries \in [Ids -> [at : {"unused", "asking", "queued", "released", "stopped", "job"}, cookie : Cookies]]
         /\ tab \in [cookie : Cookies, number : PageCounts \cup {0}, job : Ids \cup {0}, succeeded : BOOLEAN,
                     current : SUBSET Ids, quit : {"no", "stopping", "done"}, left : SUBSET Ids,
                     flushing : Ids \cup {0}]
<1>1. queries \in [Ids -> Queries] /\ tab \in Tabs
  BY DEF IInv, Browser, Browsers
<1>2. tab.cookie <= used.cookies /\ \A q \in Ids : queries[q].cookie <= used.cookies
  BY DEF IInv, Consistent, Given, Browser
<1>3. ASSUME NEW q \in Ids
      PROVE  queries[q] \in [at : {"unused", "asking", "queued", "released", "stopped", "job"}, cookie : Cookies]
  <2> DEFINE r == queries[q]
  <2>1. r \in Queries /\ r.cookie <= used.cookies
    BY <1>1, <1>2
  <2> HIDE DEF r
  <2>2. r.cookie \in Nat
    BY <2>1 DEF Queries
  <2>3. r.cookie \in Cookies
    BY <2>1, <2>2, EnoughCookies
  <2>4. r \in [at : {"unused", "asking", "queued", "released", "stopped", "job"}, cookie : Cookies]
    BY <2>1, <2>3 DEF Queries
  <2> QED
    BY <2>4 DEF r
<1>4. tab.cookie \in Nat
  BY <1>1 DEF Tabs
<1>5. tab.cookie \in Cookies
  BY <1>2, <1>4, EnoughCookies
<1>6. tab \in [cookie : Cookies, number : PageCounts \cup {0}, job : Ids \cup {0}, succeeded : BOOLEAN,
               current : SUBSET Ids, quit : {"no", "stopping", "done"}, left : SUBSET Ids,
               flushing : Ids \cup {0}]
  BY <1>1, <1>5 DEF Tabs
<1> QED
  BY <1>1, <1>3, <1>6

\* What TypeOK says of jobs and workers.
LEMMA JobsWellFormed ==
  ASSUME IInv, NEW q \in Ids
  PROVE  /\ jobs[q] \in [pending : BOOLEAN, doc : BOOLEAN, count : PageCounts \cup {0},
                         pages : SUBSET (1..jobs[q].count), listens : BOOLEAN]
         /\ workers[q].thread \in {"none", "running", "ended"}
         /\ workers[q].page \in 0..jobs[q].count
         /\ workers[q].looping => workers[q].doc /\ workers[q].page # 0
<1> DEFINE j == jobs[q]
           w == workers[q]
<1>1. w \in Workers /\ j \in Jobs /\ WorkerOK(w, j) /\ j.count \in Nat
  BY WorkerFacts
<1> HIDE DEF j, w
<1>2. j.pages \in SUBSET (1..j.count)
  BY <1>1 DEF WorkerOK
<1>3. j \in [pending : BOOLEAN, doc : BOOLEAN, count : PageCounts \cup {0},
             pages : SUBSET (1..j.count), listens : BOOLEAN]
  BY <1>1, <1>2 DEF Jobs
<1>4. w.thread \in {"none", "running", "ended"} /\ w.page \in Nat
  BY <1>1 DEF Workers
<1>5. w.page \in 0..j.count
  BY <1>1, <1>4 DEF WorkerOK
<1>6. w.looping => w.doc /\ w.page # 0
  BY <1>1 DEF WorkerOK
<1> QED
  BY <1>3, <1>4, <1>5, <1>6 DEF j, w

\* The state is well formed in every behaviour: cookies are never more than two for a query, a job's
\* pages are within its count, and a worker in its loop has a document and a page of it.
THEOREM TypeCorrect == Spec => []TypeOK
<1>1. IInv /\ Enough => TypeOK
  BY HelperWellFormed, BrowserWellFormed, JobsWellFormed DEF TypeOK
<1>2. Init => IInv /\ Enough
  BY InitIInv, InitEnough
<1>3. (IInv /\ Enough) /\ [Next]_vars => (IInv /\ Enough)'
  BY NextIInv, NextEnough
<1> QED
  BY <1>1, <1>2, <1>3, PTL DEF Spec
=============================================================================
