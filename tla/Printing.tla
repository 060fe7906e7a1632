------------------------------ MODULE Printing ------------------------------
(***************************************************************************)
(* Printing without preview: PrintWebViewHelper in the renderer            *)
(* (src/renderer/printing), PrintingMessageFilter and PrinterQuery on the  *)
(* IO thread, PrintViewManager, PrintJob and PrintJobManager on the UI     *)
(* thread and one PrintJobWorker thread for every query                    *)
(* (src/browser/printing).  A query becomes a job by handing over its      *)
(* worker, so both have the query's number.  A print blocks the renderer   *)
(* twice: for the default settings, and for the user's, where it pumps     *)
(* messages and may be entered again.                                      *)
(***************************************************************************)
EXTENDS Integers, Sequences, FiniteSets

CONSTANTS
  MaxQueries,  \* bound: printer queries ever created
  PageCounts,  \* numbers of pages a document may have
  MaxPrints,   \* bound: calls of Print that are not ignored
  MaxFaults    \* bound: errors of the printer, navigations, deaths of the renderer, quits

ASSUME PrintingAssumption ==
  /\ MaxQueries \in Nat /\ PageCounts \subseteq Nat
  /\ MaxPrints \in Nat /\ MaxFaults \in Nat

VARIABLES
  helper,   \* PrintWebViewHelper; stack holds the calls of Print that wait
  queries,  \* PrinterQuery, the queue of PrintJobManager included
  tab,      \* PrintViewManager and PrintJobManager: what the UI thread keeps
  jobs,     \* PrintJob, a number like its query's
  workers,  \* PrintJobWorker and its thread
  loops,    \* tasks and messages under way between the threads
  windows,  \* OS_WIN: a job waits for its worker by polling
  used      \* what the bounds count

vars == <<helper, queries, tab, jobs, workers, loops, windows, used>>

Ids      == 1..MaxQueries
NoParams == -1      \* print_pages_params_ is NULL; 0 is the cookie of empty settings
Cookies  == 0..(2 * MaxQueries)

NewHelper == [alive |-> TRUE, params |-> NoParams, prep |-> 0, stack |-> <<>>]
NewQuery  == [at |-> "unused", cookie |-> 0]
NewTab    == [cookie |-> 0, number |-> 0, job |-> 0, succeeded |-> FALSE, current |-> {},
              quit |-> "no", left |-> {}, flushing |-> 0]
NewJob    == [pending |-> FALSE, doc |-> FALSE, count |-> 0, pages |-> {}, listens |-> FALSE]
NewWorker == [thread |-> "none", stopping |-> FALSE, tasks |-> <<>>, doc |-> FALSE, page |-> 0,
              looping |-> FALSE, retry |-> FALSE, canceled |-> FALSE, spooled |-> <<>>]
\* ui: the UI thread's tasks; inbox: messages to the renderer; io: queries to stop on the
\* IO thread; pool: workers to stop on the worker pool; polls: jobs that poll (Windows).
NewLoops  == [ui |-> <<>>, inbox |-> <<>>, io |-> {}, pool |-> {}, polls |-> {}]

Init ==
  /\ helper = NewHelper /\ tab = NewTab /\ loops = NewLoops
  /\ queries = [q \in Ids |-> NewQuery] /\ jobs = [q \in Ids |-> NewJob]
  /\ workers = [q \in Ids |-> NewWorker]
  /\ windows \in BOOLEAN
  /\ used = [prints |-> 0, cookies |-> 0, faults |-> 0]

Task(t, id, n) == [task |-> t, id |-> id, n |-> n]

Running(q) == workers[q].thread = "running"

(***************************************************************************)
(* IO thread: PrintingMessageFilter and PrinterQuery.                      *)
(***************************************************************************)
\* PopPrinterQuery: the queue under its lock.  A query that is asking is not in it.
Queued(c) == {q \in Ids : queries[q].at = "queued" /\ queries[q].cookie = c}

Top == helper.stack[Len(helper.stack)]
Call(at, cookie) == [at |-> at, cookie |-> cookie, query |-> 0, replied |-> FALSE]

\* PrinterQuery::GetSettings starts the worker's thread, which asks the printer or the user.
Ask(q) ==
  /\ queries' = [queries EXCEPT ![q].at = "asking"]
  /\ workers' = [workers EXCEPT ![q].thread = "running"]

\* OnGetDefaultPrintSettings asks for cookie 0, which no queued query has; OnScriptedPrint
\* takes the query with the renderer's cookie, or a new one when it has gone meanwhile.
GetSettings ==
  /\ helper.stack # <<>> /\ Top.query = 0
  /\ LET old == IF Top.at = "default" THEN Queued(0) ELSE Queued(Top.cookie)
         new == {q \in Ids : queries[q].at = "unused"}
     IN \E q \in IF old # {} THEN old ELSE new :
          /\ old = {} => \A r \in new : q <= r
          /\ Ask(q)
          /\ helper' = [helper EXCEPT !.stack[Len(helper.stack)].query = q]
  /\ UNCHANGED <<tab, jobs, loops, windows, used>>

\* PrinterQuery::GetSettingsDone: settings have a new cookie, a failure has none.
NewCookie(ok) == IF ok THEN used.cookies + 1 ELSE 0

\* The filter's reply: the query is queued, or stopped on an error as when the user cancels.
\* A renderer that has died meanwhile does not get the reply.
GetSettingsDone(q, ok) ==
  LET cookie   == NewCookie(ok)
      reply(f) == IF f.query = q THEN [f EXCEPT !.replied = TRUE, !.cookie = cookie] ELSE f
  IN
  /\ queries[q].at = "asking"
  /\ queries' = [queries EXCEPT ![q] = [at |-> IF ok THEN "queued" ELSE "stopped", cookie |-> cookie]]
  /\ used' = [used EXCEPT !.cookies = IF ok THEN cookie ELSE @]
  /\ workers' = [workers EXCEPT ![q].thread = IF ok THEN @ ELSE "ended"]
  /\ helper' = [helper EXCEPT !.stack = [i \in DOMAIN @ |-> reply(@[i])]]
  /\ UNCHANGED <<tab, jobs, loops, windows>>

\* StopWorker, posted by ReleasePrinterQuery.
StopWorker(q) ==
  /\ q \in loops.io
  /\ loops' = [loops EXCEPT !.io = @ \ {q}]
  /\ queries' = [queries EXCEPT ![q].at = "stopped"]
  /\ workers' = [workers EXCEPT ![q].thread = "ended"]
  /\ UNCHANGED <<helper, tab, jobs, windows, used>>

(***************************************************************************)
(* Renderer: PrintWebViewHelper.                                           *)
(***************************************************************************)
Pumping == helper.stack # <<>> => Top.at = "ask"
Send(msgs) == loops' = [loops EXCEPT !.ui = @ \o msgs]
Popped == SubSeq(helper.stack, 1, Len(helper.stack) - 1)

\* DidFinishPrinting resets the helper; a failure is sent if there are parameters.
Finished(stack) == [helper EXCEPT !.params = NoParams, !.prep = 0, !.stack = stack]
Failed(c) == <<Task("failed", c, 0)>>
CookieIs(c) == Task("cookie", c, 0)

\* Mutant: a print that is being prepared is not waited for.
MutantPrintFrame ==
  /\ helper.alive /\ Pumping /\ used.prints < MaxPrints
  /\ helper' = [helper EXCEPT !.stack = Append(@, Call("default", 0))]
  /\ used' = [used EXCEPT !.prints = @ + 1]
  /\ UNCHANGED <<queries, tab, jobs, workers, loops, windows>>

\* Print is called when the renderer is idle, or while it pumps messages.
PrintFrame ==
  /\ helper.alive /\ Pumping /\ helper.prep = 0 /\ used.prints < MaxPrints
  /\ helper' = [helper EXCEPT !.stack = Append(@, Call("default", 0))]
  /\ used' = [used EXCEPT !.prints = @ + 1]
  /\ UNCHANGED <<queries, tab, jobs, workers, loops, windows>>

\* InitPrintSettings and CalculateNumberOfPages: no printer, nothing to print, or on to
\* the dialog, for which the parameters are dropped.
DefaultSettings(pages) ==
  /\ helper.stack # <<>> /\ Top.at = "default" /\ Top.replied
  /\ IF Top.cookie = 0 \/ pages = 0
     THEN /\ helper' = Finished(Popped)
          /\ Send(<<CookieIs(Top.cookie)>> \o (IF Top.cookie = 0 THEN <<>> ELSE Failed(Top.cookie)))
     ELSE /\ helper' = [helper EXCEPT !.params = NoParams,
                          !.stack = Append(Popped, Call("ask", Top.cookie))]
          /\ Send(<<CookieIs(Top.cookie)>>)
  /\ UNCHANGED <<queries, tab, jobs, workers, windows, used>>

\* PrintPages: the count of pages, then every page; an error leaves the pages out.
Output(c, n, error) ==
  IF n = 0 THEN Failed(c)
  ELSE <<Task("count", c, n)>> \o
       (IF error THEN Failed(c) ELSE [i \in 1..n |-> Task("page", c, i)])

\* The user has answered, and calls made meanwhile are over: the settings become the
\* parameters.  A cancelled dialog ends the print.  The print of a lost frame, or of one
\* that finds another print being prepared, fails.
SettingsFromUser(lost, selection, n, error) ==
  LET c == Top.cookie IN
  /\ helper.stack # <<>> /\ Top.at = "ask" /\ Top.replied
  /\ \/ /\ c = 0
        /\ helper' = Finished(Popped)
        /\ Send(<<CookieIs(0)>>)
     \/ /\ c # 0 /\ (lost \/ helper.prep # 0)
        /\ helper' = Finished(Popped)
        /\ Send(<<CookieIs(c)>> \o Failed(c))
     \/ /\ c # 0 /\ ~lost /\ helper.prep = 0 /\ selection
        /\ helper' = [helper EXCEPT !.params = c, !.prep = c, !.stack = Popped]
        /\ Send(<<CookieIs(c)>>)
     \/ /\ c # 0 /\ ~lost /\ helper.prep = 0 /\ ~selection
        /\ helper' = IF error \/ n = 0 THEN Finished(Popped)
                     ELSE [helper EXCEPT !.params = c, !.stack = Popped]
        /\ Send(<<CookieIs(c)>> \o Output(c, n, error))
  /\ UNCHANGED <<queries, tab, jobs, workers, windows, used>>

\* The copy of a selection has loaded: OnFramePreparedForPrintPages.
FramePrepared(n, error) ==
  /\ helper.alive /\ Pumping /\ helper.prep # 0
  /\ helper' = IF error \/ n = 0 THEN Finished(helper.stack) ELSE [helper EXCEPT !.prep = 0]
  /\ Send(Output(helper.params, n, error))
  /\ UNCHANGED <<queries, tab, jobs, workers, windows, used>>

\* OnPrintingDone ends what is being printed, whichever print the message is about.
PrintingDone ==
  /\ helper.alive /\ Pumping /\ loops.inbox # <<>>
  /\ helper' = Finished(helper.stack)
  /\ loops' = [loops EXCEPT !.inbox = Tail(@)]
  /\ UNCHANGED <<queries, tab, jobs, workers, windows, used>>

\* The renderer dies: what it has sent arrives before the news of it.
Dies ==
  /\ helper.alive /\ used.faults < MaxFaults
  /\ helper' = [NewHelper EXCEPT !.alive = FALSE]
  /\ loops' = [loops EXCEPT !.ui = Append(@, Task("gone", 0, 0)), !.inbox = <<>>]
  /\ used' = [used EXCEPT !.faults = @ + 1]
  /\ UNCHANGED <<queries, tab, jobs, workers, windows>>

(***************************************************************************)
(* UI thread: PrintJob.  What a task does is a function on the browser's   *)
(* state, b, so that calls can be nested as they are in the code.          *)
(***************************************************************************)
Browser == [queries |-> queries, tab |-> tab, jobs |-> jobs, workers |-> workers, loops |-> loops]
Becomes(b) ==
  /\ queries' = b.queries /\ tab' = b.tab /\ jobs' = b.jobs
  /\ workers' = b.workers /\ loops' = b.loops

\* Thread::StopSoon: the thread ends when it gets there.
StopSoon(w) == IF w.thread = "running" /\ ~w.stopping
               THEN [w EXCEPT !.stopping = TRUE, !.tasks = Append(@, "quit")] ELSE w

\* UpdatePrintedDocument(NULL), which tells the worker.
DropDocument(b, q) ==
  [b EXCEPT !.jobs[q].doc = FALSE,
            !.workers[q].tasks = IF b.jobs[q].doc /\ b.workers[q].thread = "running"
                                 THEN Append(@, "nodoc") ELSE @]

\* Mutant: nobody stops the thread.
MutantShutdown(b, q) ==
  DropDocument([b EXCEPT !.jobs[q].pending = FALSE, !.jobs[q].listens = FALSE], q)

\* The end of ControlledWorkerShutdown: the worker pool stops the thread.
Shutdown(b, q) ==
  DropDocument([b EXCEPT !.loops.pool = @ \cup {q},
                         !.jobs[q].pending = FALSE, !.jobs[q].listens = FALSE], q)

\* On Windows the job goes on polling for the thread.
Stop(b, q) ==
  IF b.workers[q].thread # "running" THEN DropDocument(b, q)
  ELSE IF windows THEN [b EXCEPT !.workers[q] = StopSoon(@), !.loops.polls = @ \cup {q}]
  ELSE Shutdown(b, q)

\* ReleasePrintJob tells the renderer and lets go of the job.
ReleasePrintJob(b) ==
  IF b.tab.job = 0 THEN b
  ELSE [b EXCEPT !.tab.job = 0,
          !.loops.inbox = IF helper.alive
                          THEN Append(@, Task("done", b.tab.job, IF b.tab.succeeded THEN 1 ELSE 0))
                          ELSE @]

Untrack(b, q) == [b EXCEPT !.tab.current = @ \ {q}]

\* Cancel makes the printer's context invalid and broadcasts FAILED: the manager forgets
\* the job, the job stops if it still listens, and the tab, whose own call of Cancel
\* is_canceling_ ends at once, releases it.  Then the job is stopped, again.
Cancel(b, q) ==
  LET marked    == [b EXCEPT !.workers[q].canceled = @ \/ b.workers[q].thread = "running"]
      untracked == Untrack(marked, q)
      stopped   == IF b.jobs[q].listens THEN Stop(untracked, q) ELSE untracked
      released  == IF b.tab.job = q THEN ReleasePrintJob(stopped) ELSE stopped
  IN Stop(released, q)

\* TerminatePrintJob, of the tab's job.
TerminatePrintJob(b, cancel) ==
  IF b.tab.job = 0 THEN b
  ELSE ReleasePrintJob(IF cancel THEN Cancel(b, b.tab.job) ELSE Stop(b, b.tab.job))

\* Mutant: the tab does not hear of the failure.
MutantOnFailed(b, q) ==
  LET untracked == Untrack(b, q)
  IN IF b.jobs[q].listens THEN Stop(untracked, q) ELSE untracked

\* A FAILED of the worker: Notify calls the manager, the job and the tab.
OnFailed(b, q) ==
  LET untracked == Untrack(b, q)
      stopped   == IF b.jobs[q].listens THEN Stop(untracked, q) ELSE untracked
  IN IF b.tab.job = q THEN TerminatePrintJob(stopped, TRUE) ELSE stopped

\* DOC_DONE only makes the job post OnDocumentDone, which stops the worker and
\* broadcasts JOB_DONE.
OnDocDone(b, q) ==
  IF b.jobs[q].listens THEN [b EXCEPT !.loops.ui = Append(@, Task("documentDone", q, 0))] ELSE b

OnDocumentDone(b, q) ==
  LET stopped == Untrack(Stop(b, q), q)
  IN IF b.tab.job = q THEN ReleasePrintJob([stopped EXCEPT !.tab.succeeded = TRUE]) ELSE stopped

(***************************************************************************)
(* UI thread: PrintViewManager.                                            *)
(***************************************************************************)
\* Mutant: printing_succeeded_ is left from the job before.
MutantOpportunisticallyCreatePrintJob(b, c) ==
  LET found == {q \in Ids : b.queries[q].at = "queued" /\ b.queries[q].cookie = c} IN
  IF b.tab.job # 0 \/ found = {} THEN b
  ELSE LET q == CHOOSE r \in found : TRUE IN
       [b EXCEPT !.queries[q].at = "job",
                 !.jobs[q] = [NewJob EXCEPT !.pending = TRUE, !.doc = TRUE, !.listens = TRUE,
                                            !.count = b.tab.number],
                 !.workers[q].tasks = @ \o <<"doc", "start">>,
                 !.tab.job = q, !.tab.current = @ \cup {q}]

\* OpportunisticallyCreatePrintJob: with a job there is nothing to do, whatever its
\* cookie.  Otherwise the query's worker becomes the new job's and starts.
OpportunisticallyCreatePrintJob(b, c) ==
  LET found == {q \in Ids : b.queries[q].at = "queued" /\ b.queries[q].cookie = c} IN
  IF b.tab.job # 0 \/ found = {} THEN b
  ELSE LET q == CHOOSE r \in found : TRUE IN
       [b EXCEPT !.queries[q].at = "job",
                 !.jobs[q] = [NewJob EXCEPT !.pending = TRUE, !.doc = TRUE, !.listens = TRUE,
                                            !.count = b.tab.number],
                 !.workers[q].tasks = @ \o <<"doc", "start">>,
                 !.tab.job = q, !.tab.succeeded = FALSE, !.tab.current = @ \cup {q}]

OnDidGetPrintedPagesCount(b, c, n) ==
  OpportunisticallyCreatePrintJob([b EXCEPT !.tab.number = n], c)

\* A page of another document is out of sync, and dropped.
OnDidPrintPage(b, c, n) ==
  LET d == OpportunisticallyCreatePrintJob(b, c) IN
  IF d.tab.job # 0 /\ d.jobs[d.tab.job].doc /\ d.queries[d.tab.job].cookie = c
  THEN [d EXCEPT !.jobs[d.tab.job].pages = @ \cup {n}] ELSE d

\* The query of the tab's cookie is stopped, if it waits in the queue.
ReleasePrinterQuery(b) ==
  LET found == {q \in Ids : b.queries[q].at = "queued" /\ b.queries[q].cookie = b.tab.cookie} IN
  IF b.tab.cookie = 0 THEN b
  ELSE [b EXCEPT !.tab.cookie = 0, !.loops.io = @ \cup found,
          !.queries = [q \in Ids |-> IF q \in found THEN [@[q] EXCEPT !.at = "released"] ELSE @[q]]]

OnPrintingFailed(b, c) == IF c = b.tab.cookie THEN ReleasePrinterQuery(b) ELSE b

\* IsComplete: every page has arrived.
Complete(j) == j.pages = 1..j.count

\* A job whose pages have all arrived may finish without the renderer.
RenderProcessGone(b) ==
  LET c == ReleasePrinterQuery(b) IN
  IF c.tab.job = 0 \/ ~c.jobs[c.tab.job].doc THEN c
  ELSE TerminatePrintJob(c, ~Complete(c.jobs[c.tab.job]))

Handle(b, t) ==
  CASE t.task = "cookie"       -> [b EXCEPT !.tab.cookie = t.id]
    [] t.task = "count"        -> OnDidGetPrintedPagesCount(b, t.id, t.n)
    [] t.task = "page"         -> OnDidPrintPage(b, t.id, t.n)
    [] t.task = "failed"       -> OnPrintingFailed(b, t.id)
    [] t.task = "gone"         -> RenderProcessGone(b)
    [] t.task = "jobFailed"    -> OnFailed(b, t.id)
    [] t.task = "docDone"      -> OnDocDone(b, t.id)
    [] t.task = "documentDone" -> OnDocumentDone(b, t.id)

UITask ==
  /\ loops.ui # <<>>
  /\ Becomes(Handle([Browser EXCEPT !.loops.ui = Tail(@)], Head(loops.ui)))
  /\ UNCHANGED <<helper, windows, used>>

NavigationStopped ==
  /\ tab.job # 0 /\ tab.quit # "done" /\ used.faults < MaxFaults
  /\ Becomes(TerminatePrintJob(Browser, TRUE))
  /\ used' = [used EXCEPT !.faults = @ + 1]
  /\ UNCHANGED <<helper, windows>>

\* ControlledWorkerShutdown on Windows, 100 ms later, once the thread has ended.
Poll(q) ==
  /\ q \in loops.polls /\ ~Running(q)
  /\ Becomes(Shutdown([Browser EXCEPT !.loops.polls = @ \ {q}], q))
  /\ UNCHANGED <<helper, windows, used>>

(***************************************************************************)
(* UI thread: PrintJobManager::OnQuit.                                     *)
(***************************************************************************)
OnQuit ==
  /\ tab.quit = "no" /\ used.faults < MaxFaults
  /\ used' = [used EXCEPT !.faults = @ + 1]
  /\ tab' = [tab EXCEPT !.quit = "stopping", !.left = tab.current, !.current = {}]
  /\ UNCHANGED <<helper, queries, jobs, workers, loops, windows>>

\* FlushJob runs a nested loop, in which tasks are handled as before.
FlushJob(q) ==
  /\ tab.quit = "stopping" /\ tab.flushing = 0 /\ q \in tab.left
  /\ tab' = [tab EXCEPT !.flushing = q, !.left = @ \ {q}]
  /\ UNCHANGED <<helper, queries, jobs, workers, loops, windows, used>>

\* It ends when the job stops, and after two minutes at the latest.
Flushed ==
  /\ tab.flushing # 0 /\ tab.quit = "stopping"
  /\ Becomes(Stop([Browser EXCEPT !.tab.flushing = 0], tab.flushing))
  /\ UNCHANGED <<helper, windows, used>>

QuitDone ==
  /\ tab.quit = "stopping" /\ tab.flushing = 0 /\ tab.left = {}
  /\ tab' = [tab EXCEPT !.quit = "done"]
  /\ UNCHANGED <<helper, queries, jobs, workers, loops, windows, used>>

(***************************************************************************)
(* Worker threads: PrintJobWorker, and the pool that stops them.           *)
(***************************************************************************)
\* The context fails when it is cancelled, or for a reason of its own.
MayFail(q, fails) ==
  /\ workers[q].canceled => fails
  /\ (fails /\ ~workers[q].canceled) => used.faults < MaxFaults
  /\ used' = [used EXCEPT !.faults = IF fails /\ ~workers[q].canceled THEN @ + 1 ELSE @]

\* Mutant: the worker does not leave its loop.
MutantFailedWorker(w) == [w EXCEPT !.doc = FALSE, !.page = 0, !.canceled = TRUE]

\* OnFailure
FailedWorker(w) == [w EXCEPT !.doc = FALSE, !.page = 0, !.looping = FALSE, !.canceled = TRUE]

JobFailed(q) == Task("jobFailed", q, 0)

\* Mutant: a worker that tries again begins from the first page.
MutantOnNewPage(w) == IF ~w.doc THEN w ELSE [w EXCEPT !.looping = TRUE, !.page = 1]

\* OnNewPage: begins to print, or goes on.
OnNewPage(w) == IF ~w.doc THEN w
                ELSE [w EXCEPT !.looping = TRUE, !.page = IF @ = 0 THEN 1 ELSE @]

Ready(q, task) ==
  /\ Running(q) /\ ~workers[q].looping
  /\ workers[q].tasks # <<>> /\ Head(workers[q].tasks) = task

Rest(q) == [workers[q] EXCEPT !.tasks = Tail(@)]

OnDocumentChanged(q, doc) ==
  /\ Ready(q, IF doc THEN "doc" ELSE "nodoc")
  /\ workers' = [workers EXCEPT ![q] = [Rest(q) EXCEPT !.doc = IF workers[q].page = 0 THEN doc ELSE @]]
  /\ UNCHANGED <<helper, queries, tab, jobs, loops, windows, used>>

\* NewDocument may forget a Cancel that came before it.
StartPrinting(q, forgets, fails) ==
  LET w == [Rest(q) EXCEPT !.canceled = @ /\ ~forgets] IN
  /\ Ready(q, "start")
  /\ IF ~w.doc \/ w.page # 0
     THEN /\ ~forgets /\ ~fails
          /\ workers' = [workers EXCEPT ![q] = Rest(q)]
          /\ UNCHANGED <<loops, used>>
     ELSE /\ (w.canceled => fails) /\ (fails /\ ~w.canceled => used.faults < MaxFaults)
          /\ used' = [used EXCEPT !.faults = IF fails /\ ~w.canceled THEN @ + 1 ELSE @]
          /\ workers' = [workers EXCEPT ![q] = IF fails THEN FailedWorker(w) ELSE OnNewPage(w)]
          /\ loops' = IF fails THEN [loops EXCEPT !.ui = Append(@, JobFailed(q))] ELSE loops
  /\ UNCHANGED <<helper, queries, tab, jobs, windows>>

\* One round of the loop of OnNewPage: a page that is missing is tried again in 500 ms; a
\* failure runs into OnDocumentDone, which fails as well; after the last page the document
\* is done, or fails after all.
SpoolPage(q, fails) ==
  LET w    == workers[q]
      p    == w.page
      last == p = jobs[q].count
  IN
  /\ Running(q) /\ w.looping
  /\ IF p \notin jobs[q].pages
     THEN /\ ~fails
          /\ workers' = [workers EXCEPT ![q].looping = FALSE, ![q].retry = TRUE]
          /\ UNCHANGED <<loops, used>>
     ELSE /\ MayFail(q, fails)
          /\ \/ /\ fails
                /\ workers' = [workers EXCEPT ![q] = FailedWorker(w)]
                /\ loops' = [loops EXCEPT !.ui = @ \o <<JobFailed(q), JobFailed(q)>>]
             \/ /\ fails /\ last
                /\ workers' = [workers EXCEPT ![q] = FailedWorker([w EXCEPT !.spooled = Append(@, p)])]
                /\ loops' = [loops EXCEPT !.ui = Append(@, JobFailed(q))]
             \/ /\ ~fails /\ ~last
                /\ workers' = [workers EXCEPT ![q].page = p + 1, ![q].spooled = Append(@, p)]
                /\ UNCHANGED loops
             \/ /\ ~fails /\ last
                /\ workers' = [workers EXCEPT ![q] = [w EXCEPT !.page = 0, !.doc = FALSE,
                                 !.looping = FALSE, !.spooled = Append(@, p)]]
                /\ loops' = [loops EXCEPT !.ui = Append(@, Task("docDone", q, 0))]
  /\ UNCHANGED <<helper, queries, tab, jobs, windows>>

\* The delayed task that tries a missing page again; while it is missing, nothing changes.
Retry(q) ==
  /\ Running(q) /\ ~workers[q].looping /\ workers[q].retry
  /\ workers[q].doc => workers[q].page \in jobs[q].pages
  /\ workers' = [workers EXCEPT ![q] = OnNewPage([@ EXCEPT !.retry = FALSE])]
  /\ UNCHANGED <<helper, queries, tab, jobs, loops, windows, used>>

\* The thread ends; tasks behind it and delayed tasks do not run.
ThreadEnds(q) ==
  /\ Ready(q, "quit")
  /\ workers' = [workers EXCEPT ![q].thread = "ended", ![q].tasks = <<>>, ![q].retry = FALSE]
  /\ UNCHANGED <<helper, queries, tab, jobs, loops, windows, used>>

PoolStops(q) ==
  /\ q \in loops.pool
  /\ loops' = [loops EXCEPT !.pool = @ \ {q}]
  /\ workers' = [workers EXCEPT ![q] = StopSoon(@)]
  /\ UNCHANGED <<helper, queries, tab, jobs, windows, used>>

-----------------------------------------------------------------------------
Renderer ==
  \/ PrintFrame \/ PrintingDone \/ Dies
  \/ \E n \in PageCounts : DefaultSettings(n)
  \/ \E n \in PageCounts, lost, selection, error \in BOOLEAN : SettingsFromUser(lost, selection, n, error)
  \/ \E n \in PageCounts, error \in BOOLEAN : FramePrepared(n, error)

IOThread ==
  \/ GetSettings
  \/ \E q \in Ids : StopWorker(q) \/ \E ok \in BOOLEAN : GetSettingsDone(q, ok)

WorkerThread(q) ==
  \/ \E d \in BOOLEAN : OnDocumentChanged(q, d)
  \/ \E forgets, fails \in BOOLEAN : StartPrinting(q, forgets, fails)
  \/ \E fails \in BOOLEAN : SpoolPage(q, fails)
  \/ Retry(q) \/ ThreadEnds(q)

\* What the UI thread does by itself.
UIThread == UITask \/ Flushed \/ QuitDone \/ \E q \in Ids : FlushJob(q) \/ Poll(q)

\* The process ends when quitting is done.
InProcess == tab.quit # "done"
Threads == InProcess /\ (UIThread \/ \E q \in Ids : PoolStops(q) \/ WorkerThread(q))

Next ==
  \/ Threads
  \/ InProcess /\ (Renderer \/ IOThread \/ NavigationStopped \/ OnQuit)

Spec == Init /\ [][Next]_vars

\* The threads do what they can; users, printers and renderers need not answer.  No
\* behaviour of the threads alone is infinite, so that fairness to each is not needed.
FairSpec == Spec /\ WF_vars(Threads)

-----------------------------------------------------------------------------
\* The state is well formed.
TypeOK ==
  /\ helper.alive \in BOOLEAN /\ helper.params \in Cookies \cup {NoParams} /\ helper.prep \in Cookies
  /\ \A i \in DOMAIN helper.stack :
       helper.stack[i] \in [at : {"default", "ask"}, cookie : Cookies, query : Ids \cup {0}, replied : BOOLEAN]
  /\ queries \in [Ids -> [at : {"unused", "asking", "queued", "released", "stopped", "job"}, cookie : Cookies]]
  /\ tab \in [cookie : Cookies, number : PageCounts \cup {0}, job : Ids \cup {0}, succeeded : BOOLEAN,
              current : SUBSET Ids, quit : {"no", "stopping", "done"}, left : SUBSET Ids,
              flushing : Ids \cup {0}]
  /\ \A q \in Ids : jobs[q] \in [pending : BOOLEAN, doc : BOOLEAN, count : PageCounts \cup {0},
                                 pages : SUBSET (1..jobs[q].count), listens : BOOLEAN]
  /\ \A q \in Ids : /\ workers[q].thread \in {"none", "running", "ended"}
                    /\ workers[q].page \in 0..jobs[q].count
                    /\ workers[q].looping => workers[q].doc /\ workers[q].page # 0

\* What the renderer prepares has its parameters: PrintPages dereferences them, also when
\* another print was made while the dialog was open.
PreparedHasParams == helper.prep # 0 => helper.params = helper.prep

\* A worker puts out the pages of its job one after the other from the first, each only
\* after it has arrived, and none twice.
SpooledInOrder ==
  \A q \in Ids : /\ Len(workers[q].spooled) <= jobs[q].count
                 /\ \A i \in DOMAIN workers[q].spooled : workers[q].spooled[i] = i /\ i \in jobs[q].pages

\* The renderer is told of a success only if the printer took every page, however events of
\* the worker, cancellations and the process's end cross.
SuccessIsSpooled ==
  \A i \in DOMAIN loops.inbox :
    LET m == loops.inbox[i] IN m.n = 1 => Len(workers[m.id].spooled) = jobs[m.id].count

\* The job of the tab is one that quitting would wait for.
TabJobIsTracked == tab.job # 0 /\ tab.quit = "no" => tab.job \in tab.current

\* Sooner or later no thread, and with it no printer context, is left of a job whose pages have
\* all arrived or which the tab has let go of.  A job the tab still holds may wait for a page.
Lingers(q) == queries[q].at = "job" /\ Running(q) /\ (tab.job # q \/ Complete(jobs[q]))
JobsEnd == []<>(~InProcess \/ \A q \in Ids : ~Lingers(q))

\* A page whose document has no job yet, but a query that waits for one, gets the job.
PagesReachTheirJob ==
  [][\A q \in Ids :
       (/\ loops.ui # <<>> /\ Head(loops.ui).task = "page"
        /\ queries[q].at = "queued" /\ queries[q].cookie = Head(loops.ui).id
        /\ UITask)
       => queries'[q].at = "job"]_vars
=============================================================================
