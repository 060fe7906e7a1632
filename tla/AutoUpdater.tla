----------------------------- MODULE AutoUpdater -----------------------------
(***************************************************************************)
(* nw.AutoUpdater on Windows: AutoUpdaterWin and the Squirrel processes it *)
(* spawns (src/src/resources/api_nw_auto_updater.js, lines 24-198).        *)
(*                                                                         *)
(* All of it is JavaScript on one thread.  What interleaves are the exits  *)
(* of the child processes, the listeners that several calls attach to the  *)
(* same process, and the application's event handlers, which run inside    *)
(* emit and may call the updater again before emit returns.  A check is    *)
(* one call of CheckForUpdates that got as far as 'checking-for-update'.   *)
(***************************************************************************)
EXTENDS Naturals, Sequences, FiniteSets

CONSTANTS
  MaxChecks,     \* bound: checks the application makes
  URLs,          \* feed URLs it sets
  NoURL          \* no feed URL set

ASSUME BoundAssumption == MaxChecks \in Nat
ASSUME URLAssumption   == NoURL \notin URLs

Checks == 1 .. MaxChecks
\* Every check spawns at most a download and an update, quitting one process.
Pids   == 1 .. 2 * MaxChecks + 1

VARIABLES
  updateURL,        \* AutoUpdaterWin.updateURL
  updateAvailable,  \* AutoUpdaterWin.updateAvailable
  spawnedProcess,   \* spawnedProcess, 0 for undefined
  spawnedArgs,      \* its arguments <<command, url>>
  spawns,           \* processes spawned so far
  alive,            \* the processes that have not exited
  failed,           \* the processes that emitted 'error'
  listeners,        \* the listeners of each process that have a report to make
  todo,             \* callbacks the event loop has begun to run
  stack,            \* emits on the JavaScript stack that code follows
  heard,            \* the last event of each check
  quitting,         \* nw.App.quit was called
  reliable          \* the system never refuses to run Update.exe

process == <<spawnedProcess, spawnedArgs, spawns, alive, failed>>
vars    == <<updateURL, updateAvailable, process, listeners, todo, stack, heard,
             quitting, reliable>>

Protocol == INSTANCE UpdateProtocol WITH
  Checks <- Checks,
  heard <- heard,
  updateAvailable <- updateAvailable,
  quitting <- quitting

\* What a call of spawnUpdate leaves behind: its command and the check it serves
\* (0 for processStart).  A listener whose errorEmitted is set does no more than
\* clear spawnedProcess at the exit, and is dropped.
Listener(cmd, c) == [cmd |-> cmd, check |-> c]

-----------------------------------------------------------------------------
Init ==
  /\ updateURL = NoURL
  /\ updateAvailable = FALSE
  /\ spawnedProcess = 0
  /\ spawnedArgs = <<>>
  /\ spawns = 0
  /\ alive = {}
  /\ failed = {}
  /\ listeners = [p \in Pids |-> <<>>]
  /\ todo = <<>>
  /\ stack = <<>>
  /\ heard = [c \in Checks |-> "none"]
  /\ quitting = FALSE
  /\ reliable \in BOOLEAN

Emit(c, event) == heard' = [heard EXCEPT ![c] = event]

\* spawnUpdate finds a process that runs with other arguments.
Busy(args) == spawnedProcess # 0 /\ spawnedArgs # args

\* spawnUpdate attaches to the running process, or spawns one.
Attach(args, l) ==
  /\ ~Busy(args)
  /\ IF spawnedProcess = 0
       THEN /\ spawns + 1 \in Pids    \* bound: never reached
            /\ spawns' = spawns + 1
            /\ spawnedProcess' = spawns + 1
            /\ spawnedArgs' = args
            /\ alive' = alive \cup {spawns + 1}
            /\ UNCHANGED failed
       ELSE UNCHANGED process
  /\ listeners' = [listeners EXCEPT ![spawnedProcess'] = Append(@, l)]
  /\ UNCHANGED todo

\* spawn throws: the callback is left for the next tick.
SpawnThrows(l) ==
  /\ ~reliable
  /\ spawnedProcess = 0
  /\ todo' = Append(todo, [on |-> "tick", l |-> l, result |-> "error"])
  /\ UNCHANGED <<process, listeners>>

-----------------------------------------------------------------------------
\* SetFeedURL.
SetFeedURL(url) ==
  /\ ~quitting
  /\ updateURL # url
  /\ updateURL' = url
  /\ UNCHANGED <<updateAvailable, process, listeners, todo, stack, heard, quitting>>

\* CheckForUpdates as far as its first emit.  Without a URL or without
\* Update.exe it emits an error and changes nothing.
CheckForUpdates(c) ==
  /\ ~quitting
  /\ heard[c] = "none"
  /\ \A d \in 1 .. c - 1 : heard[d] # "none"
  /\ updateURL # NoURL
  /\ Emit(c, "checking-for-update")
  /\ stack' = Append(stack, Listener("--download", c))
  /\ UNCHANGED <<updateURL, updateAvailable, process, listeners, todo, quitting>>

\* emit returns to CheckForUpdates, which goes on with Squirrel.download, or to
\* the download's callback, which goes on with Squirrel.update.  Both pass the
\* feed URL of that moment to spawnUpdate.
EmitReturns ==
  LET l    == stack[Len(stack)]
      args == <<l.cmd, updateURL>>
  IN
  /\ ~quitting
  /\ stack # <<>>
  /\ stack' = SubSeq(stack, 1, Len(stack) - 1)
  /\ \/ /\ Busy(args)
        /\ Emit(l.check, "error")
        /\ UNCHANGED <<process, listeners, todo>>
     \/ Attach(args, l) /\ UNCHANGED heard
     \/ SpawnThrows(l) /\ UNCHANGED heard
  /\ UNCHANGED <<updateURL, updateAvailable, quitting>>

\* QuitAndInstall.  Without an update it emits an error; a processStart that
\* finds another process running is not spawned, and the application quits.
QuitAndInstall ==
  LET args == <<"--processStartAndWait", NoURL>> IN
  /\ ~quitting
  /\ updateAvailable
  /\ \/ Busy(args) /\ UNCHANGED <<process, listeners, todo>>
     \/ Attach(args, Listener("--processStartAndWait", 0))
     \/ SpawnThrows(Listener("--processStartAndWait", 0))
  /\ quitting' = TRUE
  /\ UNCHANGED <<updateURL, updateAvailable, stack, heard>>

-----------------------------------------------------------------------------
\* What a process leaves its listeners to report.
Results(cmd) ==
  CASE cmd = "--download" -> {"error", "nothing", "update"}
    [] cmd = "--update"   -> {"error", "done"}
    [] OTHER              -> {"error", "done"}

\* The callback of download: an update is announced, and the code after the
\* emit follows; or the one of update.  processStart's does nothing.
Callback(l, result) ==
  \/ /\ l.cmd # "--processStartAndWait"
     /\ result = "error"
     /\ Emit(l.check, "error")
     /\ UNCHANGED <<updateAvailable, stack>>
  \/ /\ l.cmd = "--download"
     /\ result = "nothing"
     /\ Emit(l.check, "update-not-available")
     /\ UNCHANGED <<updateAvailable, stack>>
  \/ /\ l.cmd = "--download"
     /\ result = "update"
     /\ updateAvailable' = TRUE
     /\ Emit(l.check, "update-available")
     /\ stack' = Append(stack, Listener("--update", l.check))
  \/ /\ l.cmd = "--update"
     /\ result = "done"
     /\ Emit(l.check, "update-downloaded")
     /\ UNCHANGED <<updateAvailable, stack>>
  \/ /\ l.cmd = "--processStartAndWait"
     /\ UNCHANGED <<updateAvailable, stack, heard>>

\* A listener only collects what the process prints after it was attached, so
\* it may fail to parse the output of a download that went well.
Seen(l, result) == IF l.cmd = "--download" THEN {result, "error"} ELSE {result}

\* The exit listener forgets spawnedProcess, whichever process it is now.
Forget ==
  /\ spawnedProcess' = 0
  /\ spawnedArgs' = <<>>
  /\ UNCHANGED spawns

\* Mutant: the callbacks after the first are lost.
MutantQueue(ls, on, result) == <<>>

\* The listeners after the first one wait for it to return.
Queue(ls, on, result) ==
  [i \in 1 .. Len(ls) - 1 |-> [on |-> on, l |-> ls[i + 1], result |-> result]]

\* The event loop has nothing left of an earlier event.
LoopIdle == stack = <<>> /\ todo = <<>> /\ ~quitting

\* A process exits.  Its exit listeners run in the order they were attached;
\* the first one's callback belongs to this step, the others follow.
ProcessExits(p) ==
  /\ LoopIdle
  /\ p \in alive
  /\ alive' = alive \ {p}
  /\ Forget
  /\ IF listeners[p] = <<>>
       THEN UNCHANGED <<updateAvailable, stack, heard, todo>>
       ELSE LET l == listeners[p][1] IN
            \E result \in Results(l.cmd) :
              /\ \E r \in Seen(l, result) : Callback(l, r)
              /\ todo' = Queue(listeners[p], "exit", result)
  /\ listeners' = [listeners EXCEPT ![p] = <<>>]
  /\ UNCHANGED <<updateURL, failed, quitting>>

\* Mutant: an exit listener is not skipped after an error event.
MutantSilenced(p) == listeners

\* errorEmitted is set in every listener of p.
Silenced(p) == [listeners EXCEPT ![p] = <<>>]

\* The system could not run a process: its error listeners run.  An exit event
\* may or may not follow.
ProcessFails(p) ==
  /\ ~reliable
  /\ LoopIdle
  /\ p \in alive \ failed
  /\ alive' \in {alive, alive \ {p}}
  /\ failed' = failed \cup {p}
  /\ Callback(listeners[p][1], "error")
  /\ todo' = Queue(listeners[p], "error", "error")
  /\ listeners' = Silenced(p)
  /\ UNCHANGED <<updateURL, spawnedProcess, spawnedArgs, spawns, quitting>>

\* Mutant: callbacks wait until no process is remembered.
MutantRunCallback ==
  /\ stack = <<>>
  /\ todo # <<>>
  /\ spawnedProcess = 0
  /\ ~quitting
  /\ todo' = Tail(todo)
  /\ \E r \in Seen(Head(todo).l, Head(todo).result) : Callback(Head(todo).l, r)
  /\ UNCHANGED <<updateURL, process, listeners, quitting>>

\* The next callback of the event in progress runs, or a tick.
RunCallback ==
  /\ stack = <<>>
  /\ todo # <<>>
  /\ ~quitting
  /\ todo' = Tail(todo)
  /\ LET e == Head(todo) IN
     \/ /\ e.on = "exit"
        /\ Forget
        /\ \E r \in Seen(e.l, e.result) : Callback(e.l, r)
        /\ UNCHANGED <<alive, failed>>
     \/ /\ e.on # "exit"
        /\ Callback(e.l, "error")
        /\ UNCHANGED process
  /\ UNCHANGED <<updateURL, listeners, quitting>>

-----------------------------------------------------------------------------
Next ==
  /\ \/ \E url \in URLs : SetFeedURL(url)
     \/ \E c \in Checks : CheckForUpdates(c)
     \/ QuitAndInstall
     \/ EmitReturns
     \/ RunCallback
     \/ \E p \in Pids : ProcessExits(p) \/ ProcessFails(p)
  /\ UNCHANGED reliable

\* JavaScript that has begun goes on, and every Squirrel process ends.
Fairness ==
  /\ WF_vars(EmitReturns /\ UNCHANGED reliable)
  /\ WF_vars(RunCallback /\ UNCHANGED reliable)
  /\ \A p \in Pids : WF_vars(ProcessExits(p) /\ UNCHANGED reliable)

Spec     == Init /\ [][Next]_vars
FairSpec == Spec /\ Fairness

-----------------------------------------------------------------------------
\* Whatever several checks, failing processes and handlers that call back do to
\* each other, an application hears the events of each check in the order the
\* protocol gives and at most one final event, and is only made to quit for an
\* update that was announced.
FollowsProtocol == Protocol!Spec

Unfinished(c) == heard[c] \in {"checking-for-update", "update-available"}

\* Somebody still owes the application an event of check c: code that follows
\* an emit, a callback of the event in progress, or a listener of a process that
\* will exit.
Owed(c) ==
  \/ \E i \in DOMAIN stack : stack[i].check = c
  \/ \E i \in DOMAIN todo : todo[i].l.check = c
  \/ \E p \in alive : \E i \in DOMAIN listeners[p] : listeners[p][i].check = c

\* While the system runs the processes, no check is forgotten, although an exit
\* listener clears spawnedProcess whatever process it stands for and listeners of
\* several checks share one process.
NoCheckForgotten == reliable => \A c \in Checks : Unfinished(c) => Owed(c)

\* If every Squirrel process that was spawned exits, every check ends with one of
\* its final events, or the application quits.
EveryCheckEnds ==
  \A c \in Checks : (reliable /\ Unfinished(c)) ~> (~Unfinished(c) \/ quitting)

\* "Ensure we don't spawn multiple squirrel processes".
OneProcess == Cardinality(alive) <= 1

\* "Attach events to alread running process": a process that spawnUpdate would
\* attach to is running, or its exit is being handled.
SpawnedIsRunning == spawnedProcess # 0 /\ todo = <<>> => spawnedProcess \in alive

\* "Start an instance of the installed app": when the application quits to
\* install, the process that starts it again has been spawned.
QuitStartsApp ==
  quitting => spawnedArgs = <<"--processStartAndWait", NoURL>>
=============================================================================
