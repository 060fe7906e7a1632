# A verification project for node-webkit (NW.js)

TLA+ modules that model parts of NW.js, TLC configurations that check them on
small instances, and proofs of their main properties for every instance, checked
by TLAPS. Paths below are relative to the repository; the JavaScript of the
bindings is under `src/resources`, the browser side under `src/api` and
`src/browser`. What counts as built is what `nw.gypi` lists: a large part of
`src/` belongs to an earlier architecture and is not compiled any more. Two
subsystems of that part, printing and the cookie store, are modelled all the same:
they are the repository's richest protocols between threads.

    tlc -config ObjectManagerLife.cfg MCObjectManager     # one run
    tlapm ObjectManagerProofs.tla                         # the proofs

`PROJECT.json` lists the runs, the lines every definition stands for, the hazards
of the code with the properties that cover them, the mutations each property
detects, the findings and the theorems.

## 1. Inventory

NW.js is a Chromium application whose pages are extension pages with Node. A
*binding* in the renderer (JavaScript) talks to *API functions* in the browser
process through extension requests, most of them synchronous; the browser talks
back with extension events.

| component | state it keeps | operations | talks to | what is hard |
|---|---|---|---|---|
| Object manager (`object_manager.cc`, `nw_object_api.cc`, `base.h`) | a static registry id -> native object; per browser context a set of ids; one id counter | allocateId, create, destroy, call, ~ObjectManager | every `nw.*` class with a native half | garbage collection in any order against nested menu loops; one registry for several browser contexts; two sources of ids |
| Menu, MenuItem (`menu*.cc`, `menuitem*.cc`, `api_nw_menu*.js`) | item list in JavaScript, menu model in the browser, submenu pointers, accelerators, the nested popup loop | append, insert, remove, popup, setters, click | object manager, menu bar, focus manager | two lists kept in step, raw pointers to collected menus, requests handled inside Popup |
| Tray (`tray*.cc`, `api_nw_tray.js`) | status icon, observer | constructor, setters, remove, click | object manager, desktop | an icon that outlives its Tray; setters after remove |
| MediaRecorder (`api/mediarecorder`, `api_nw_media_recorder.js`) | recorder state, sink, pause states, encoders, container, worker thread and its tasks, `lock_`, `mrsMap` | start, stop, pause, resume, requestData, frames of two tracks, events | media stream threads, ffmpeg | four threads, flags read outside the lock, teardown while frames arrive, re-entrant handlers |
| AutoUpdater, Windows (`api_nw_auto_updater.js`) | feed URL, the Squirrel process and its arguments, listeners, updateAvailable | SetFeedURL, CheckForUpdates, QuitAndInstall | child processes | shared processes, error without exit, handlers that call back |
| AutoUpdater, Mac (`auto_updater_mac.mm`, `api_auto_updater.cc`) | g_updater, subscriptions | the same | Squirrel.Mac | a feed change in the middle of a check |
| Window, App (`api_nw_window.js`, `api_nw_app.js`, `nw_window_api.cc`, `nw_app_api.cc`) | wrapper registry in the background page, listener tables, menus of windows | on, once, removeListener, get, open, menu setter | chrome.app.window, extension events | listeners that remove listeners, wrappers of closed windows |
| Storage migration (`nw_content.cc`, MainPartsPreCreateThreadsHook) | the earlier version's files, the profile | moves, copies, renames, one UPDATE | file system, SQLite | a crash or an error between any two of them |
| Other content hooks (`nw_content.cc`) | next to none | window creation, navigation policy, second instance | Chromium start-up | little |
| Cookie store (`sqlite_persistent_cookie_store.cc`) | pending operations under a lock, keys still to load, counts per origin, the database | Load, LoadCookiesForKey, AddCookie..., Flush, Close, Commit | cookie monster, DB and IO threads, SQLite | batches with timers, a limit and flushes; loads that overlap; errors that kill the database; crash, upgrade |
| Printing (`renderer/printing`, `browser/printing`) | the helper in the renderer, queued printer queries, the tab's job, one worker thread per query | print, settings, pages, spooling, cancel, quit | renderer, IO, UI and worker threads, printer | nested message loops, cancellation against completion, threads that must end |
| Print preview (`print_web_view_helper.cc`) | the frame being prepared, the preview context, tasks | scripted and user prints, preview requests, page after page | preview dialog | requests while a selection loads, cancellation between pages, a script waiting in print() |
| Shortcut, Screen, Clipboard, Shell | registered keys, observers | register, query, forward | desktop services | little |
| Package, certificate policy, content verifier, renderer bindings | start-up data | once, sequential | file system, network stack | little |

What makes each correct: a wrapper that can be called has its own native object,
a native object goes when nobody needs it and not earlier; both lists of a menu
agree; packets reach the container once, in order, between header and trailer,
and stop() completes; each check of the updater ends with exactly one final event;
a cookie operation reaches the file in order, or is lost because SQLite failed or the
process died; pages are printed in order, a success is told only of a spooled document, and no thread of a
job stays; a preview document is exact and every request is answered; a migration
overwrites nothing of the application's and, undisturbed, brings everything over.

## 2. Plan

| module | abstract specification | proofs | state |
|---|---|---|---|
| `ObjectManager` | - | `ObjectManagerProofs`: every property of its run | done |
| `MediaRecorder` | - | `MediaRecorderProofs`: every safety property of its runs | done |
| `AutoUpdater` | `UpdateProtocol` | `AutoUpdaterProofs`: the refinement, NoCheckForgotten | done |
| `CookieStore` | `CookieTable` | `CookieStoreProofs`: the refinement, every invariant of its runs | done |
| `Printing` | - | `PrintingProofs`: every invariant of its run | done |
| `PrintPreview` | - | `PrintPreviewProofs`: every safety property of its run | done |
| `StorageMigration` | - | `StorageMigrationProofs`: every property of its run | done |
| `MenuModel` | - | `MenuModelProofs`: every property of its run | done |
| `MediaTimestamps` | - | `MediaRecorderProofs`: both properties of its run | done |
| `WindowEvents` (on, once, removeListener of nw.Window) | a set of handlers | a removed handler is not called | to do |

Every module takes its parameters as CONSTANTS with named assumptions, has one
action per operation or thread step, and no RECURSIVE operator, so that the proof
modules can extend it.

## 3. Modules

### ObjectManager

A *wrapper* is a JavaScript object (Menu, MenuItem, Tray or MediaRecorder) of a *page*; a page
belongs to a browser context (*profile*), each of which has one `ObjectManager`.

| model | code |
|---|---|
| `registry`, `objects[f]`, `next_object_id` | `objects_registry_` (static), `objects_`, `next_object_id_` |
| `next_menu_id` | the browser-wide counter behind `contextMenuNatives.GetNextContextMenuId` |
| `delay_destruction`, `pending_destruction` | the flags of `Base` |
| `chan[p]` | `nw.Obj.callObjectMethodAsync` requests (popup) on their way |
| `running`, `cancelled` | the Menu whose `Popup` is on the stack, and whether its nested loop was told to quit |
| `js`, `loaded`, `event_objs` | the wrapper's life, its document, what `trayEvents.objs` and `mediaRecorderEvents.objs` hold |
| `AllocateId`, `OnAllocateObject`, `Collect`/`OnDeallocateObject`, `HandlePopup`, `PopupReturns`, `TrayRemove`, `RecorderStart`, `RecorderStopped`, `Unload`, `DestroyManager` | the operations of the same names; `Collect` is the engine's callback registered with `BindToGC` |

Every request but popup is `sendRequestSync`: the page waits for the answer, so
sending and handling are one step. The channel is FIFO, so such a request waits
for popups sent before. Inside `Menu::Popup` the browser goes on handling requests;
a second menu that opens makes the first one's loop quit and returns at once, and
nothing else is handled until the loop has unwound (that is what
`views::MenuRunner` does, `Unwinding` in the model). `AddWithID` in a release
build stores under the id it is given and only a debug check looks for a previous
object; the model does what the release build does. Menu ids given by
`option.id` (the native menus of the Mac) are left out.

A MediaRecorder has an object in the browser (`object_manager.cc:102`) that only takes
part in the registry: the recording is in the renderer (module `MediaRecorder`). Its
wrapper is held by the bindings from `start()` to the Stop event.

Menu and MenuItem draw their ids from `next_object_id_`, Tray and MediaRecorder from
`GetNextContextMenuId`, and all of them are entered in the one registry. `Mixed` says
whether an execution may use classes of both counters; it is an assumption about the
*application*. The counters collide whenever it does: a Menu or MenuItem beside a Tray,
or beside a MediaRecorder (section 6). What is checked and proved of the object manager
holds for applications that keep to Menu and MenuItem, or to Tray and MediaRecorder.

### MediaRecorder

One JavaScript recorder, its sink and its `FFMpegMediaRecorder` over four threads:
main, the video thread, the audio thread, the worker. `pc[s]` is the place of a
track's thread inside `OnVideoFrame`, `OnData` or `OnSetFormat`; `main` is the
place of the main thread inside the destruction of the sink (`delete` waits for
`lock_`, `join` is inside `worker_thread_->Stop()`), `onstop` is TRUE inside the
listener of the Stop event, where the application may call the recorder again.

What the lock protects is one step (`RunTask`, `WriteDirectly`, `InitEncoder`,
`StopFinishes`); what is read without it is a step of its own: `ReadPause` and
`WritePause` of `MediaPause::isPaused`, `Gate` (`have_*`, `fileReady_`,
`videoStart_`), the test of `worker_thread_` in `SendPacket` and `RequestData`,
and in `InitFile` the assignment of `fileReady_` (`WriteHeader`) before the
worker exists (`StartWorker`). Opening a codec and writing the header may fail.
An encoder may keep a frame, drop it or make a packet; a packet is
`<<track, number>>`. Timestamps are `MediaTimestamps`'; pixels, the contents of events and
the ffmpeg library are abstracted: the muxer may or may not push data out at any write.

Assumed: the container format is known (with `oc` NULL nothing is modelled); one
`OnSetFormat` per sink; `MediaStreamVideoTrack` drops a callback between two
frames and releases it on the main thread; removing an audio sink waits for the
call in progress.

### MediaTimestamps

The arithmetic of the same recorder, with a clock. A frame is delivered up to `MaxDelay`
after it was captured and up to `MaxGap` after the one before; `mediaPause[s]` is the
`MediaPause` of a track, `pts[s]` the `pts` of its frame, `audio` what has been put into
the audio frame and the resampler, with `outTolerance`. `UpdateVideo` and `UpdateAudio` are
one step each: a track has one thread, and `videoStart_`, the only thing they share, is
written once. `sent` and `shown` are not the program's: what the encoders were given, and
when the last picture was captured. With `Waits` the application calls pause() and resume()
only when the assertions of `MediaPause` hold; then no call falls between the reading and
the writing of `pause_`. Doubles are exact, and an `int` has no limit (a timestamp stays
below 2^31 for twelve hours at 48 kHz).

### AutoUpdater and UpdateProtocol

`AutoUpdaterWin`: JavaScript on one thread. `stack` holds the emits that code
follows (an application handler is running and may call the updater again),
`todo` the callbacks of an exit or error event that have not run yet, `listeners`
the listeners `spawnUpdate` attached to each process that have a report to make (one
whose `errorEmitted` is set only clears `spawnedProcess` and is dropped), `failed` the
processes that emitted `error`. `Forget` is the line of the
exit listener that clears `spawnedProcess`. A listener collects only what its
process prints after it was attached, so it may fail to parse what an earlier one
could (`Seen`). `reliable` says whether, in this execution, the system always
manages to run Update.exe; if not, `spawn` may throw or the process may emit
`error`, with or without `exit`. The application has an `error` handler (without
one, Node's emit throws). `nw.App.quit` only asks the browser to quit, and JavaScript may
run on for a while; the model ends with the call, so that what the updater does while the
application is being closed is left out.

`UpdateProtocol` is what an application may rely on: the events of each check in
order, at most one final event, and quitting only after an update was announced.
`FollowsProtocol` is the refinement, with the mapping of equal names.

### CookieStore and CookieTable

| model | code |
|---|---|
| `table`, `version` | the rows of `cookies` and the version in the meta table: the file, all that a restart finds |
| `backend` | the fields of `Backend`: `pending_`, `num_pending_`, `keys_to_load_`, `cookies_per_origin_`, ...; `batch` is the list `Commit` has swapped out, `step` the place of the current task |
| `loops` | tasks of the DB and the IO thread, delayed `Commit` tasks |
| `monster` | what the cookie monster has called and been told, and what it believes to be stored |

A task of the DB thread is cut where another thread or the end of the process can
come between: opening, reading the keys, the upgrade before its transaction, the
swap under the lock and the writing of a batch, closing. An error of SQLite may be a
catastrophic one, which schedules `KillDatabase`. `Commit` gives up when a statement
cannot be prepared or the transaction not begun; of a statement that fails later it only
logs the fact and commits the others (lines 923, 933, 942), so that after an error any
part of a batch may have reached the file, in `WriteBatch` as in the code. The
number of a cookie is its creation time, one origin stands for a key. Encryption and
the columns other than key, session flag and last access are left out. `CookieTable`
is the promise: operations become durable in order, those of a batch at once, and one is
lost, alone (`Without`) or with its batch, only when the store has failed or the process
dies.
`ImplementsTable` is the refinement, with `queue` mapped to `batch \o pending`.

### Printing

Prints of one tab without preview. `helper` is `PrintWebViewHelper` with the stack of
calls of `PrintFrame` (Print) that wait in a sync message (the second one pumps messages, so Print,
PrintingDone and a death of the page can come inside). `queries[q]`, `jobs[q]` and
`workers[q]` are a `PrinterQuery`, the `PrintJob` it becomes by handing its worker
over, and the worker with its thread; `tab` is `PrintViewManager` and
`PrintJobManager`. `windows` says which of the two ways a job waits for its worker
(OS_WIN: polling; else the worker pool). `StopJobs` at quit runs nested loops;
`FlushJob` and `Flushed` are their begin and end. Metafiles, the destination and the
settings of a preview are left out; page counts may differ from what was announced
only by the fault of a page that does not come.

### PrintPreview

The render thread of one page: `helper` is `PrintWebViewHelper`, `context` its
`PrintPreviewContext`, `browser` the preview dialog (external), which may ask again
at any time and wants only its last request. `at` cuts a document into the steps
between which the browser may cancel (`CreatePreviewDocument`, `RenderPreviewPage`,
`CheckPage`). A selection is loaded into a frame of its own first (`prep = "loading"`,
`SelectionLoaded`), and a script waits in print() until the dialog is shown or closed.
The throttle of scripted prints, `is_scripted_printing_blocked_`, printing a preview
from its own page and page layout are left out.

### StorageMigration

`MainPartsPreCreateThreadsHook` runs before anything else and looks only at what it
finds. `old` and `new` are the two directory trees as far as it tests them; the
contents of a store are marked `"old"`, `"part"` (a copy that ended half-way) or
`"own"` (what the application wrote). Every file operation is an action that may fail,
unnoticed, or be the last before a crash; `Start` comes again. `Write` is the
application (external).

### MenuModel

| model | code |
|---|---|
| `js` | `privates(menu).items`, `privates(item).submenu`, `privates(win).menu`, `privates(tray).menu` |
| `live` | the native objects: `Collect` is `nw.Obj.destroy` |
| `model[m]` | `menu_model_`: per entry the item and the submenu model it was added with, a plain pointer |
| `submenu` | `MenuItem::submenu_` |
| `bar`, `icon` | the menu whose model the menu bar shows; the status icon and its menu |

No native object owns another, so what keeps a pointer good is what JavaScript holds
(`Held`): `menuItems.objs` keeps every MenuItem for ever, an item its submenu, the
window its menu, `trayEvents.objs` the tray. The requests are synchronous and one step
each (`clearMenu` is not, but nothing of the page can overtake it). One page stays
loaded. That an object lives through its own popup is `ObjectManager`'s.

insert, remove and removeAt send a place of the JavaScript list, and the native model goes
by it alone. `Strays` says whether the *application* may call insert with a place outside
of the list (the one before its first or the one behind its end; `Place` is what `splice`
makes of it) or remove with an item that is not in the menu, for which `indexOf` is -1:
nothing in the code stops either. What the toolkit's model does with a place it does not
have is not in the tree, and any of nothing, another insertion or another removal
(`With`, `Without`). removeAt with such a place throws before it does anything. The run has
Strays FALSE; section 6 has what happens otherwise.

## 4. Runs

| run | checks | instance, and why it is enough |
|---|---|---|
| `om_life` | TypeOK, ReachableIsBacked, RunningIsRegistered, NoZombie, IconIsBacked, ManagersDivideRegistry | three wrappers (menus and menu items, or trays and media recorders) on two pages in two browser contexts, ids up to 3, two popups in flight per page: a menu can be popped up twice, another one inside its loop, while a third is created or collected, in either context |
| `menu` | ListsAgree, PointersAreLive | two menus of up to three entries, two items: an item twice in a list, in two lists, a menu inside another, a menu collected while the other shows it |
| `mr_both_tracks` | PacketsInOrder, DestroyedIsQuiet, NoStaleEvent, WritesInsideFile | both tracks, two frames each, two recordings, the second possibly from inside onstop: one frame can be written directly while the next goes to the worker, and either track can open the file; `MediaRecorderAgain.cfg` checks PostedIsWritten, under fairness, with one track |
| `mr_timestamps` | KeepsTime, TimestampsIncrease | both tracks, four units of time of half a frame each, one pause, one failure, frames delivered up to a unit late and two apart, buffers of half an audio frame, of one and of two and a half, two of them a unit being what keeps time: a frame too early, one skipped, audio that falls behind until it is corrected, a rest in the resampler that fills a frame of its own and a pause cut out of each track all happen |
| `mr_stop_deadlock` | StopCompletes (violated) | one audio frame |
| `au_checks` | FollowsProtocol, NoCheckForgotten, EveryCheckEnds | three checks, two feeds: two checks share a process while the third needs another |
| `au_one_process` | OneProcess (violated) | two checks, one feed |
| `cookie_file` | TypeOK, HandedOnce, FileMatchesView, FlushCommits, ClearedOnExit, ImplementsTable | two keys with a cookie each, one of them a session cookie, the other's origin to be cleared on exit; two operations a session with a batch limit of two, so that the limit, the timer, Flush and Close all commit; files of versions 1 (upgraded), 4 and 6 (too new); one SQLite error a session; two sessions, so that a crash anywhere is followed by a start on what it left; `CookieStoreThree.cfg` adds a second cookie to the first key (6.9 million states, some minutes) |
| `cookie_live` | OperationsSettle, LoadsAreAnswered | one session, without Flush and with one access time: what matters is which task ends a batch or a load, with an error anywhere |
| `print_jobs` | TypeOK, PreparedHasParams, SpooledInOrder, SuccessIsSpooled, TabJobIsTracked, JobsEnd | two prints, two queries, documents of no or two pages, one fault: the second print can be made from inside the first one's dialog or while it is spooled |
| `preview` | TypeOK, PreparedIsWanted, DocumentIsExact, EndIsTold, ShownToWaiting, ScriptIsShown | two prints, two requests, documents of no or three pages, one load, one fault: lists of pages out of order, twice or past the end, a request in every state of the one before |
| `migration` | OwnIsKept, JournalGoesFirst, StartMigrates | three starts, two faults: a start is disturbed, the application writes, the next start is disturbed, a third sees the result |

Bounds: `MaxId` (counters), `MaxQueue` (popups in flight), `MaxFrames` (frames of
a track for one sink, and with it the flush tasks that may wait), `MaxEvents`
(events waiting when the application makes a call), `MaxSessions` (recordings;
processes of the cookie store), `MaxChecks` (checks; processes follow from it),
`MaxTime`, `MaxPauses`, `MaxFaults` (timestamps), `MaxOps`, `MaxPriority`, `MaxFlushes`, `MaxErrors` (calls and errors in a session of
the cookie store), `MaxQueries`, `MaxPrints`, `MaxFaults` (printing), `MaxRequests`,
`MaxStarts`, `MaxLoads`, `MaxFaults` (preview), `MaxStarts`, `MaxFaults` (migration),
`MaxLen` (entries of a menu). Each only limits how often something outside the program
happens. Runs with `CHECK_DEADLOCK FALSE` may stop because the bounds are used up and
the system need not do anything; that nothing stops too early is what the liveness
properties say.

Symmetry is used for wrappers, menus and items, and in `CookieStoreThree.cfg` for the two
cookies of one key, which no constant tells apart, never with liveness properties.

**Fairness.** `MediaRecorder`: weak fairness of each step of the main loop, of the
track threads in the middle of a frame, of the worker and of the removal of the
callback: an operating system runs its runnable threads. Nothing makes an
application call, or a track deliver. Weak fairness is enough for `lock_` because
no thread takes it infinitely often within the bounds. `AutoUpdater`: JavaScript
that has begun continues, and every process that was spawned exits; no fairness
of the application's calls. `CookieStore`: the DB thread, the IO thread and the
delayed tasks run while the process does. `Printing`: the UI thread, the worker pool
and the workers, together: none of them can go on for ever alone; users, printers'
dialogs and renderers need not answer, so a query whose dialog stays open is not a job
that lingers. `PrintPreview`: the render thread, and a page or a selection that
loads stops loading; the dialog owes nothing. `ObjectManager`, `MenuModel` and
`StorageMigration` are checked for safety only: when the user closes a menu, the
engine collects an object or a process dies is not the program's choice.

## 5. Findings

* **stop() may block** (`mr_stop_deadlock`). `FFMpegMediaRecorder::Stop` joins the
  worker while holding `lock_`, which the worker's pending tasks need.
* **Two Squirrel processes** (`au_one_process`). An exit listener clears
  `spawnedProcess` although an earlier listener has just spawned the next one.

## 6. Counterexamples and observations

These configurations are kept beside the runs; in each TLC finds one property of the
module violated, as a document or comment of the repository has it against the code.

| configuration (module) | property | what it shows |
|---|---|---|
| `ObjectManagerMixed.cfg` (`MCObjectManager`) | ReachableIsBacked | a Tray or a MediaRecorder takes its id from `GetNextContextMenuId`, a Menu or MenuItem from `nw.Obj.allocateId`; both key one registry, and the first of each gets 1: an application with one Menu and one MediaRecorder has two objects under one id |
| `MediaRecorderRestart.cfg` (`MCMediaRecorder`) | StopCompletes | the Stop listener takes the object out of `mediaRecorderEvents.objs` after onstop, undoing a start() made there |
| `MediaTimestampsAtOnce.cfg` (`MCMediaTimestamps`) | KeepsTime | resume() before a frame has seen pause() (the assertion at `mediarecorder.cc:80` excludes it) takes a time off that nothing set |
| `MediaTimestampsForced.cfg` (`MCMediaTimestamps`) | NeverSetBack | with forceSync 2 the audio is set back, and the encoder gets timestamps it has had before |
| `AutoUpdaterSpawnError.cfg` (`MCAutoUpdater`) | SpawnedIsRunning | after `error` without `exit`, `spawnUpdate` goes on attaching to a process that never ran |
| `AutoUpdaterQuit.cfg` (`MCAutoUpdater`) | QuitStartsApp | QuitAndInstall during the update quits, but `spawnUpdate` refuses the process that starts the application again |
| `CookieStoreExit.cfg` (`MCCookieStore`) | OriginsCounted | a store closed before its cookies are read has not counted them and clears none on exit (line 246 says the map counts the cookies in the database) |
| `CookieStoreRetry.cfg` (`MCCookieStore`) | NeverHandedTwice | a load whose opening of the file failed is answered, and a later priority load opens it again: a cookie added in between is written, read and handed over as if it had been there; HandedOnce makes this exception |
| `MenuModelStrays.cfg` (`MCMenuModel`) | ListsAgree | remove(item) of an item that is not in the menu (or insert outside of it): the list drops its last item for `splice(-1, 1)`, while the native model is asked for place -1, and from then on every place means something else (`docs/References/Menu.md:86` names no such condition) |
| `PrintingLost.cfg` (`MCPrinting`) | PagesReachTheirJob | while a tab's job is being spooled the count and the pages of a second print are dropped, and its query keeps its thread; the comment at `print_view_manager.cc:361` expects the first to be rendered in a hurry |
| `PrintPreviewLoading.cfg` (`MCPrintPreview`) | LoadingFrameIsKept | a request that is canceled while an earlier one's selection loads destroys the loading frame (comment at `print_web_view_helper.cc:1048`) |

Read from the code while modelling; no property of a run says otherwise:

* Print preview: `GetPlugin` is called on a source frame that may be gone; the
  DCHECKs of `PrintPreviewContext::Failed` do not hold on every path to it; a
  PrintingDone of an earlier print drops a preview that is being prepared.
* Migration: a process that dies between the two moves leaves the DOM storage behind for
  good, with only its journal in the profile (JournalGoesFirst allows it, and no other way
  to lose it while no operation fails); a copy that ended half-way is never completed; of
  several `*_0.localstorage` files only the first is moved.
* Menus: `setMenu` leaves the previous MenuBarView among the window's children, with
  a plain pointer to its model; a submenu set after its item was added is not taken
  over by the model, and nothing then keeps the one the model points to;
  `Insert` does not enter an item into `menu_items_` (its key is not registered) and
  `Remove` does not take one out; after a reload of the page the bar still points to
  the models of deleted menus.

## 7. Proofs

All theorems hold for all constants that satisfy the named assumptions.

**ObjectManagerProofs.** `TypeCorrect`: `Spec => []TypeOK`. `Backed`,
`DestructionIsDelayed`, `DestructionIsDone`, `RegistryDivided`, `IconNeedsTray`: with
`~Mixed`, ReachableIsBacked, RunningIsRegistered, NoZombie, ManagersDivideRegistry and
IconIsBacked are invariants of `Spec`. The counterexample of `ObjectManagerMixed.cfg`
shows that the hypothesis `~Mixed` is needed: it excludes a Menu or MenuItem beside a Tray
or a MediaRecorder, and nothing else.

The inductive invariant `Inv` has three parts. `TInv` (types; ids are drawn once and lie
below their counter; a queued popup is of a menu the page still holds) needs no
hypothesis. `OneCounter` is a constant fact about the classes in use. `LifeInv` is
the heart: ids are distinct; the registry holds under i only what was created with
id i; the delay flag is set exactly for the menu whose loop runs, until that loop
is told to quit; a collected wrapper that is still registered is pending and
running. None of the checked properties is inductive by itself: that `Collect`
deletes the right object needs distinct ids, that a popup handled inside another
loop does not delete the outer menu needs the delay flag tied to `running`, and
that no popup reaches a collected menu needs the order of the channel. Each action
has a lemma, `FrameLife` covers the ones that leave the registry alone, and
`OnDeallocateObject`, used by three actions, has lemmas of its own
(`DeallocateTypes`, `RemoveDivides`, `DeallocateIcon`). `IconKeyed`, a fourth part that
no other property needs, is proved inductive relative to `Inv` (`NextIcon`).

**StorageMigrationProofs.** `OwnKept`, `JournalFirst`, `Migrates` (and `Typing`). The
inductive invariant ties `step` to the trees: between the test and the operation it
guards nothing else runs, so the target is still missing (for OwnKept: what has been
written makes the test fail, and a copy is renamed over nothing); after the journal's
move the earlier journal is gone, and past the moves the database is where the journal is
or the application's own took its place (JournalFirst); and for Migrates, what the steps
behind `step` have done as long as no fault was counted.

**MenuModelProofs.** `SameLists`, with `~Strays` (`MenuModelStrays.cfg` shows that it is
needed), and `ShownIsLive` for any application. ListsAgree alone is not inductive:
an append to both sides keeps it only if the model is a sequence with the same length,
so the types go with it; the lemmas `Inserted`, `Removed`, `AgreeAfter` and
`AgreeWithout` are about InsertAt and RemoveAt on two sequences that agree. That remove
finds a place of an item in the list (`IndexInList`) takes the least one (`Least`).
PointersAreLive needs that each pointer of the native side equals what the wrapper
holds (`bar` and window.menu, the icon and tray.menu, `submenu_` and the item's
submenu), and that what a live wrapper holds is live: then `Held` forbids the
collection.

**AutoUpdaterProofs.** `ImplementsProtocol`: `Spec => Protocol!Spec`, step by step;
`NothingForgotten`: NoCheckForgotten is an invariant. Both rest on `IInv`: as long as a
check has to hear something, one token (an entry of `stack`, of `todo` or of
`listeners`) stands for it, and its command says which event the check heard last.
Without OneToken a second token of the check could report after its final event;
without HasListener a process could fail with nobody to tell. `Consumed` is the step
all callbacks share, `AttachKeeps` and `ThrowKeeps` what `spawnUpdate` leaves behind.
NoCheckForgotten also needs AttachesToLive: while the system runs the processes, the
remembered one has not exited.

**MediaRecorderProofs.** TypeOK, PacketsInOrder, DestroyedIsQuiet, NoStaleEvent and
WritesInsideFile, the first four as parts of `IInv`. Its conjuncts: `Life` (without a
sink nothing runs; a thread inside the sink, a task or a stop holds a reference),
`EventsInv` (only the last event can be a Stop, and then the file is closed),
`Opened` (a thread that passed the test of fileReady_ finds the header written),
`FrameCount`, and `InOrder`, the heart: every packet an encoder has made is written, in
the worker's queue, or about to be written by its own thread, and the queue is sorted
per track. `RunPackets` shows that the head of the queue is the track's next packet,
`DirectPackets` that a packet written directly has none of its track queued before it,
although the worker may come into being between the test and the write.

For `MediaTimestamps` the module proves `Increase`: `TimesSpec => TimestampsIncrease`, and
`Timely`: with `Waits`, KeepsTime is an invariant. Increase rests on `Behind`: what a track was
last given is not above its `pts`, which a dropped frame of the video gets back; the audio's needs that a correction with forceSync 1 only goes forward by more than the
resampler holds back (`limit`), and that a partly filled frame keeps its timestamp. Timely ties
each `MediaPause` to the application (`Pauses`): `at` and `delta` differ from the times of its
calls by at most the delay and the gap of a frame, once a pause (`CutOf`).

**CookieStoreProofs.** `StoreIsTable`: `Spec => ImplementsTable`. With the queue mapped to
`batch \o pending`, most steps stutter; the others are an operation (the queue grows at
its end), the writing of a batch (a first part of the queue is applied, and after a
failure any of its operations may be missing: `WriteCases`, `AppliedWithout`), a drop by
`Commit`, the upgrade, and a restart. The abstract store may drop
or empty things only after an error, with a file that is too new, or when it is closed;
`IInv` shows that the backend is in one of these cases when it does. `ClosedOnce`: the close task is
posted once, so an operation never follows it. `Batches`: a batch exists only between
the halves of a Commit, and closing leaves nothing pending. `Failing`: a database that is
not open while keys have been answered has one of the three excuses, and operations are only
pending for keys that were. What a step does to the task queue is proved once, in
`Ending`, `Adding` and the lemmas after them.

The module also proves the five invariants of the runs, each from what it needs added to
`IInv`; none is inductive by itself.

* `TypeCorrect` (TypeOK): `DataTyped` types the tables, what was loaded and the counts.
* `FlushHolds` (FlushCommits): `Closures` says of each closure in the queue that its
  operations have left the backend, or that the Commit they wait for is the task in
  front of it and, once that is half done, that they are not among the pending ones.
* `NoneHandedTwice` (HandedOnce): `StaysClosed` (no load follows a close) and `Reading`: the
  keys still to load, those being read and those answered are told apart, and what was
  read is not of an answered key, as long as SQLite works. After an error HandedOnce
  rests on `Opened`: until opening the file has failed, a key that was answered is no
  longer to be loaded while the database is open, and the file is not opened again.
* `FileIsTheView` (FileMatchesView): `Seen`. While the store works, the file with the
  operations that wait applied to it is the monster's view of every cookie that is
  persisted and not about to be read; an operation that waits is on a cookie whose key
  has been answered, and what was read is what the file holds.
* `Cleared` (ClearedOnExit): `Counting`. The count of each origin is the cardinality of its
  cookies in some table that agrees with the file where the backend has read it, so it
  cannot be zero or below as long as the file has a cookie of the origin. The table is
  quantified, not a variable: the code keeps the counts only.

FileMatchesView and ClearedOnExit are about what `Applied` makes of a batch. The induction
theorems of the library cannot be used, so `Applied` is a recursive function, and a
statement about it is proved from a least counterexample (`Least`: a non-empty set of numbers
has a least element). The proofs use two assumptions on the constants: the set of
cookies is finite (the code counts the cookies of an origin in a number) and the bounds
are numbers.

**PrintPreviewProofs.** TypeOK, PreparedIsWanted, DocumentIsExact, EndIsTold and
ShownToWaiting. `IInv` relates helper, context and dialog (`Consistent`): while a document
is rendered (`Rendering`), its metafile and what the dialog was shown are the pages
rendered so far, without which nothing would follow from the last page; while a frame is
prepared (`Fresh`), nothing was made for that request, so a cancel or a failure ends it
cleanly; a helper without work has answered (`Exact` says with what). That the pages to
render are the pages asked for, in order, needs no induction: `Ranks` shows by counting
that each rank below the size of a finite set of numbers is the rank of one element, and
`Sorting` and `PagesAreExact` follow. The module therefore defines `Ascending` by ranks: the
library's `SetToSortSeq` rests on `SortSeq`, which the prover has no definition of.

**PrintingProofs.** `TypeCorrect`, `Prepared`, `JobIsTracked`, `InOrder` and `SuccessSpooled`:
TypeOK, PreparedHasParams, TabJobIsTracked, SpooledInOrder and SuccessIsSpooled, for any number
of prints, pages and errors. `Invariant` is the inductive invariant `IInv`:

* `Stacked`: of the calls of Print that wait inside one another only the innermost can be
  waiting for the default settings, and prepared parameters are the current ones
  (PreparedHasParams needs both: a call may return into another that has prepared).
* `AskedFor`, `Given`, `Unspent`: the calls that wait have different queries and different
  cookies, cookies are given out upwards, and one that a call still holds has not
  been sent to the browser; so no two documents share a cookie.
* `OnlyJobs`, `WorkersOK`: only a query that became a job has a worker with work; a worker's
  tasks are in the order in which a job posts them, it has put out a first part of its
  pages, and only pages it was given.
* `Outputs`: a document's count goes out once, before its pages; a page on its way is within
  the count in front of it, which is of its own document, or, once that has been handled,
  within what the tab and the document's job remember. Without it OnNewPage could give
  a job a page beyond its count, or of another document (SpooledInOrder).
* `Successes`: a message, or an event, that says a document is done comes from a worker
  that has put out all of its pages (SuccessIsSpooled).
* `Tracked`: the tab's job is one the manager waits for at exit (TabJobIsTracked).

The end of a job is a cascade of calls (a failure, a release and a disconnection inside a
handler that may itself run in a nested loop). `Winds` relates the browser before and after
any of it, whatever it is made of: workers are only told to drop the document or to quit,
jobs are only forgotten, queues only grow by what this sends. It composes, each part
of `IInv` is proved once to survive it, and each handler has a lemma that says it is a
`Winds` after its own effect. One lemma per action follows.

TypeOK bounds `used.cookies` by `2 * MaxQueries`, which `IInv` does not imply: `Enough`, proved
inductive with it, counts what can still take a cookie. A query is answered at most twice (for
the default settings and again for the dialog), so the cookies used, plus the unused
queries, plus those that may ask again, plus the answers on their way, stay within the bound.

Only model-checked: liveness (PostedIsWritten, StopCompletes, EveryCheckEnds,
OperationsSettle, LoadsAreAnswered, JobsEnd, ScriptIsShown), because the prover does not
reason about fairness and ENABLED. Every invariant and every safety property of a passing
run is a theorem.

## 8. Not modelled

* Of modelled components: the width of timestamps, pixels and codecs of the MediaRecorder; keys,
  checkboxes and appearance of menus, the buttons and the nested loop of the menu bar;
  title, icon, tooltip and click of a Tray; metafiles and page layout in printing,
  printing from the preview's own page; the choice of files and paths in the migration.
* Screen, clipboard, shell, shortcut, app, package loading, certificate policy, content
  verifier, renderer bindings, the other content hooks: they forward, convert or run
  once, and have no protocol of their own. nw.Window has its listener lists, the next
  candidate; its geometry and styling forward.
* The Mac updater: its steps are decided by SQRLUpdater, which is not here.
* The other sources `nw.gypi` does not list (old shell and native windows, networking,
  renderer client, notifications, crash reporting), `docs/`, `test/`, vendored code
  and tools. Most of `src/` by lines is of this kind, or is wiring, toolkit code and
  string conversion without state that outlives a call.
