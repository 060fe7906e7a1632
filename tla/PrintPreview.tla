---------------------------- MODULE PrintPreview ----------------------------
(***************************************************************************)
(* Print preview in the renderer: PrintWebViewHelper and its               *)
(* PrintPreviewContext (src/renderer/printing/print_web_view_helper.cc).   *)
(* Everything runs on the render thread.  window.print() blocks there in a *)
(* sync message that pumps others; a selection to print is first loaded    *)
(* into a frame of its own; a document is rendered page by page, and       *)
(* between two pages the browser is asked whether it still wants it.       *)
(* The preview dialog in the browser is external.                          *)
(***************************************************************************)
EXTENDS Integers, Sequences, FiniteSets, SequencesExt

CONSTANTS
  PageLists,    \* lists of page numbers a preview request may name
  PageCounts,   \* numbers of pages the prepared document may have
  MaxRequests,  \* bound: PrintPreview messages
  MaxStarts,    \* bound: prints begun, by scripts or by the user
  MaxLoads,     \* bound: loads of the page
  MaxFaults     \* bound: frames detached, failures of a metafile, PrintingDone messages

ASSUME PreviewAssumption ==
  /\ PageLists \subseteq Seq(Nat) /\ PageCounts \subseteq Nat
  /\ MaxRequests \in Nat /\ MaxStarts \in Nat /\ MaxLoads \in Nat /\ MaxFaults \in Nat

VARIABLES
  helper,   \* PrintWebViewHelper
  context,  \* print_preview_context_
  loops,    \* PrintPreview messages and posted ShowScriptedPrintPreview tasks
  browser,  \* the dialog, and what it has been told of the last request
  used      \* what the bounds count

vars == <<helper, context, loops, browser, used>>

Ids == 1..MaxRequests

\* params: print_pages_params_; for: the request prep_frame_view_ was made with;
\* at: what the render thread is about; waits: it is in SetupScriptedPrintPreview;
\* frame: source_frame_ is still there.  The dialog remembers its last request (latest),
\* whether it may ask for drafts (modifiable), whether it was shown (shows) or asked for (asked) since a script began to
\* print, and what it was sent for the request the renderer has taken up: an answer
\* of any kind, the print-ready document, single pages, and whether these are all.
NoRequest == [id |-> 0, kind |-> "good", pages |-> <<>>, drafts |-> FALSE, selection |-> FALSE]
NewHelper ==
  [params |-> NoRequest, prep |-> "none", for |-> 0, reset |-> FALSE, sent |-> FALSE,
   loading |-> FALSE, closure |-> "none", delayed |-> FALSE, waits |-> FALSE, at |-> "idle"]
NewContext ==
  [state |-> "uninitialized", frame |-> FALSE, source |-> "page", drafts |-> TRUE, pages |-> <<>>,
   index |-> 0, ready |-> 0, total |-> 0, metafile |-> <<>>]
NotReady == [pages |-> <<>>, asked |-> <<>>, total |-> 0]
NewBrowser ==
  [open |-> FALSE, modifiable |-> TRUE, latest |-> 0, shows |-> 0, asked |-> FALSE, answer |-> "ready",
   ready |-> NotReady, shown |-> <<>>, all |-> FALSE]

Init ==
  /\ helper = NewHelper /\ context = NewContext /\ browser = NewBrowser
  /\ loops = [inbox |-> <<>>, posted |-> 0]
  /\ used = [requests |-> 0, starts |-> 0, loads |-> 0, faults |-> 0]

\* The render thread takes a message or a task.
Idle == helper.at = "idle"

(***************************************************************************)
(* The dialog (external).  It asks for a preview whenever its settings     *)
(* change, and wants only the last one.                                    *)
(***************************************************************************)
Settings ==
  {s \in [kind : {"good", "empty", "canceled", "invalid"}, pages : PageLists, drafts : BOOLEAN, selection : BOOLEAN] :
     s.kind # "good" => s.pages = <<>> /\ ~s.drafts /\ ~s.selection}

SendPrintPreview ==
  /\ browser.open /\ used.requests < MaxRequests
  /\ \E s \in Settings :
       /\ s.drafts \/ s.selection => browser.modifiable
       /\ loops' = [loops EXCEPT !.inbox = Append(@,
            [id |-> used.requests + 1, kind |-> s.kind, pages |-> s.pages, drafts |-> s.drafts, selection |-> s.selection])]
  /\ browser' = [browser EXCEPT !.latest = used.requests + 1]
  /\ used' = [used EXCEPT !.requests = @ + 1]
  /\ UNCHANGED <<helper, context>>

Close ==
  /\ browser.open
  /\ browser' = [browser EXCEPT !.open = FALSE, !.latest = 0]
  /\ UNCHANGED <<helper, context, loops, used>>

CheckForCancel(r) == browser.latest # r.id

(***************************************************************************)
(* Beginning a print.                                                      *)
(***************************************************************************)
\* What is printed: a page's frame, a frame with a plugin's document, or a node of a plugin.
Sources == {"page", "plugin", "node"}

Modifiable == context.source = "page"

\* Whether it is a plugin's document that still loads; a node may be in one or in a page.
MayWait(source) ==
  IF ~helper.loading \/ source = "page" THEN {FALSE} ELSE IF source = "plugin" THEN {TRUE} ELSE BOOLEAN

\* InitWithFrame and InitWithNode.
InitWith(source) ==
  [context EXCEPT !.state = "initialized", !.frame = TRUE, !.source = source]

\* PrintPage with a preview: the preview is shown later, from a task or when loading stops.
PrintPage(source) ==
  /\ Idle /\ ~helper.waits /\ used.starts < MaxStarts
  /\ source # "node"
  /\ context' = InitWith(source)
  /\ \E wait \in MayWait(source) :
       /\ helper' = [helper EXCEPT !.delayed = TRUE, !.waits = TRUE, !.closure = IF wait THEN "show" ELSE @]
       /\ loops' = [loops EXCEPT !.posted = IF wait THEN @ ELSE @ + 1]
  /\ browser' = [browser EXCEPT !.shows = 0, !.asked = FALSE]
  /\ used' = [used EXCEPT !.starts = @ + 1]

\* The reply to SetupScriptedPrintPreview: the script goes on.
SetupScriptedPrintPreviewDone ==
  /\ Idle /\ helper.waits
  /\ helper' = [helper EXCEPT !.waits = FALSE, !.delayed = FALSE]
  /\ UNCHANGED <<context, loops, browser, used>>

\* Mutant: the flag stays set.
MutantShown(h) == h

Shown(h) == [h EXCEPT !.delayed = FALSE]

\* IsModifiable looks into a frame that may be gone, unless there is a node.
SourceGone == ~context.frame /\ context.source # "node"
Dies == helper' = [helper EXCEPT !.at = "crashed"] /\ UNCHANGED browser
Opened == [browser EXCEPT !.open = TRUE, !.modifiable = Modifiable]

\* ShowScriptedPrintPreview, where the flag tells whether it is still wanted.
Show(h) ==
  IF h.delayed /\ SourceGone THEN Dies
  ELSE /\ helper' = Shown(h)
       /\ browser' = IF h.delayed THEN [Opened EXCEPT !.shows = @ + 1] ELSE browser

ShowScriptedPrintPreview ==
  /\ Idle /\ loops.posted > 0
  /\ loops' = [loops EXCEPT !.posted = @ - 1]
  /\ Show(helper)
  /\ UNCHANGED <<context, used>>

\* OnInitiatePrintPreview and PrintNode; what is not a selection waits for a plugin to load.
OnInitiatePrintPreview(source) ==
  /\ Idle /\ used.starts < MaxStarts
  /\ context' = InitWith(source)
  /\ used' = [used EXCEPT !.starts = @ + 1]
  /\ \E wait \in MayWait(source) :
       IF wait THEN helper' = [helper EXCEPT !.closure = "request"] /\ UNCHANGED browser
       ELSE /\ browser' = [browser EXCEPT !.open = TRUE, !.modifiable = source = "page", !.asked = TRUE]
            /\ UNCHANGED helper
  /\ UNCHANGED loops

DidStartLoading ==
  /\ Idle /\ ~helper.loading /\ used.loads < MaxLoads
  /\ helper' = [helper EXCEPT !.loading = TRUE]
  /\ used' = [used EXCEPT !.loads = @ + 1]
  /\ UNCHANGED <<context, loops, browser>>

\* Mutant: the page that stops loading forgets a preview that was asked for meanwhile.
MutantDidStopLoading ==
  /\ Idle /\ helper.loading
  /\ helper' = [helper EXCEPT !.loading = FALSE, !.closure = "none"]
  /\ UNCHANGED <<context, loops, browser, used>>

DidStopLoading ==
  LET stopped == [helper EXCEPT !.loading = FALSE, !.closure = "none"] IN
  /\ Idle /\ helper.loading
  /\ \/ helper.closure = "none" /\ helper' = stopped /\ UNCHANGED browser
     \/ helper.closure = "show" /\ Show(stopped)
     \/ /\ helper.closure = "request"
        /\ IF SourceGone THEN Dies ELSE helper' = stopped /\ browser' = [Opened EXCEPT !.asked = TRUE]
  /\ UNCHANGED <<context, loops, used>>

FrameDetached ==
  /\ Idle /\ context.frame /\ used.faults < MaxFaults
  /\ context' = [context EXCEPT !.frame = FALSE]
  /\ used' = [used EXCEPT !.faults = @ + 1]
  /\ UNCHANGED <<helper, loops, browser>>

(***************************************************************************)
(* Preparing the frame.  b is the whole state after the calls so far.      *)
(***************************************************************************)
Becomes(b) == helper' = b.helper /\ context' = b.context /\ browser' = b.browser
Now == [helper |-> helper, context |-> context, browser |-> browser]

\* ClearContext; the counts are set anew before they are used again.
Cleared(c) == [c EXCEPT !.state = "initialized", !.pages = <<>>, !.metafile = <<>>,
                        !.index = 0, !.ready = 0, !.total = 0]
Released(h) == [h EXCEPT !.params = NoRequest, !.prep = "none", !.for = 0, !.at = "idle"]

\* DidFinishPrinting(FAIL_PREVIEW); the browser is told of a failure it does not know.
EndPreview(b, answer) ==
  [helper |-> Released(b.helper), context |-> Cleared(b.context),
   browser |-> [b.browser EXCEPT !.answer = answer]]

FailPreview(b) == EndPreview(b, "failed")
Canceled(b)    == EndPreview(b, "cancelled")

\* Mutant: a selection that is still loading is taken for the new request's.
MutantPrepareFrame(b) ==
  LET r == b.helper.params IN
  IF CheckForCancel(r) THEN Canceled(b)
  ELSE IF b.helper.prep = "loading" THEN [b EXCEPT !.helper.reset = FALSE]
  ELSE [b EXCEPT !.helper.reset = FALSE, !.helper.for = r.id,
                 !.helper.prep = IF r.selection THEN "loading" ELSE "ready",
                 !.helper.at = IF r.selection THEN "idle" ELSE "create"]

\* PrepareFrameForPreviewDocument; without a selection OnFramePreparedForPreviewDocument
\* is called at once.
PrepareFrame(b) ==
  LET r == b.helper.params IN
  IF CheckForCancel(r) THEN Canceled([b EXCEPT !.helper.reset = FALSE])
  ELSE IF b.helper.prep = "loading" THEN [b EXCEPT !.helper.reset = TRUE]
  ELSE [b EXCEPT !.helper.reset = FALSE, !.helper.for = r.id,
                 !.helper.prep = IF r.selection THEN "loading" ELSE "ready",
                 !.helper.at = IF r.selection THEN "idle" ELSE "create"]

\* Mutant: the flag of the last document is kept.
MutantAccepted(b, r) ==
  PrepareFrame([b EXCEPT !.helper.params = r, !.context.drafts = r.drafts])

Accepted(b, r) ==
  PrepareFrame([b EXCEPT !.helper.params = r, !.helper.sent = FALSE, !.context.drafts = r.drafts])

\* Mutant: nothing more is done once the browser knows of the invalid settings.
MutantRejected(b, r) ==
  CASE r.kind = "empty"    -> FailPreview(b)
    [] r.kind = "canceled" -> Canceled(b)
    [] r.kind = "invalid"  -> [b EXCEPT !.helper.params = r]

\* UpdatePrintSettings fails: no settings at all, the user cancels, or the printer's are
\* invalid, which are kept until they are released and which the browser is told first.
Rejected(b, r) ==
  CASE r.kind = "empty"    -> FailPreview(b)
    [] r.kind = "canceled" -> Canceled(b)
    [] r.kind = "invalid"  -> Canceled([b EXCEPT !.helper.params = r])

OnPrintPreview ==
  LET r == Head(loops.inbox)
      b == [Now EXCEPT !.context = Cleared(context),
                       !.browser = [browser EXCEPT !.answer = "none", !.ready = NotReady, !.shown = <<>>, !.all = FALSE]]
  IN
  /\ Idle /\ loops.inbox # <<>>
  /\ loops' = [loops EXCEPT !.inbox = Tail(@)]
  /\ Becomes(IF ~context.frame THEN FailPreview(b)
             ELSE IF r.kind = "good" THEN Accepted(b, r) ELSE Rejected(b, r))
  /\ UNCHANGED used

\* didStopLoading of the selection's own view posts CallOnReady.
SelectionLoaded ==
  /\ helper.prep = "loading" /\ Idle
  /\ helper' = [helper EXCEPT !.prep = "loaded"]
  /\ UNCHANGED <<context, loops, browser, used>>

\* OnFramePreparedForPreviewDocument of a selection.
CallOnReady ==
  /\ helper.prep = "loaded" /\ Idle
  /\ Becomes(IF helper.reset THEN PrepareFrame(Now)
             ELSE [Now EXCEPT !.helper.at = "create"])
  /\ UNCHANGED <<loops, used>>

(***************************************************************************)
(* Rendering.                                                              *)
(***************************************************************************)
\* SetToSortSeq(S, <), in a form the proofs can use: the i-th page has i - 1 before it.
Ascending(S) ==
  [i \in 1..Cardinality(S) |-> CHOOSE p \in S : Cardinality({q \in S : q < p}) = i - 1]

\* The pages of the print-ready document, sorted and made unique, those the document has.
Valid(pages, total) == Ascending({p \in Range(pages) : p < total})
All(total) == [i \in 1..total |-> i - 1]

PagesToRender(pages, total, drafts) ==
  LET valid == Valid(pages, total) IN
  IF valid = <<>> THEN All(total)
  ELSE IF drafts THEN valid \o Ascending(Range(All(total)) \ Range(valid))
  ELSE valid

ReadyCount(pages, total) ==
  IF Valid(pages, total) = <<>> THEN total ELSE Len(Valid(pages, total))

\* CreatePreviewDocument up to its loop: the context takes the frame and starts printing.
CreatePreviewDocument ==
  LET r == helper.params
      b == [Now EXCEPT !.helper.prep = "none", !.helper.for = 0, !.helper.at = "check"]
  IN
  /\ helper.at = "create"
  /\ IF CheckForCancel(r) THEN Becomes(Canceled(Now)) /\ UNCHANGED used
     ELSE IF SourceGone THEN Dies /\ UNCHANGED <<context, used>>
     ELSE \/ \E total \in PageCounts :
               /\ Becomes(IF total = 0 THEN FailPreview(b)
                          ELSE [b EXCEPT !.context.state = "rendering", !.context.index = 0, !.context.total = total,
                                 !.context.pages = PagesToRender(r.pages, total, context.drafts),
                                 !.context.ready = ReadyCount(r.pages, total)])
               /\ UNCHANGED used
          \/ /\ used.faults < MaxFaults
             /\ Becomes(FailPreview(b))
             /\ used' = [used EXCEPT !.faults = @ + 1]
  /\ UNCHANGED loops

\* Mutant: the context is left as it was.
MutantFinishPreview(b) ==
  [b EXCEPT !.helper = Released(b.helper), !.browser.all = TRUE]

\* Finished, then DidFinishPrinting(OK).
FinishPreview(b) ==
  [b EXCEPT !.helper = Released(b.helper), !.context = Cleared(b.context), !.browser.all = TRUE]

\* MetafileReadyForPrinting, and the request it answers.
Document == [pages |-> context.metafile, asked |-> helper.params.pages, total |-> context.total]

\* The page goes to a metafile of its own once the print-ready one was sent.
Rendered ==
  LET page  == context.pages[context.index + 1]
      draft == Modifiable /\ helper.sent
  IN [Now EXCEPT !.helper.at = "check", !.context.index = @ + 1,
                 !.context.metafile = IF draft THEN @ ELSE Append(@, page),
                 !.browser.shown = IF Modifiable /\ context.drafts THEN Append(@, page) ELSE @]

\* PreviewPageRendered sends the page itself if drafts are wanted.
RenderPreviewPage ==
  /\ helper.at = "render"
  /\ \/ Becomes(Rendered) /\ UNCHANGED used
     \/ /\ Modifiable /\ context.drafts /\ used.faults < MaxFaults
        /\ Becomes(FailPreview(Now))
        /\ used' = [used EXCEPT !.faults = @ + 1]
  /\ UNCHANGED loops

\* The rest of a turn of the loop: unless the preview is canceled, the last page ends the
\* document, and the last page of the print-ready metafile sends that.
CheckPage ==
  LET final == context.index = Len(context.pages)
      last  == context.index = context.ready
      b     == [Now EXCEPT !.helper.at = "render", !.helper.sent = @ \/ last,
                           !.browser.ready = IF last THEN Document ELSE @,
                           !.browser.answer = IF last THEN "ready" ELSE @]
  IN
  /\ helper.at = "check"
  /\ IF CheckForCancel(helper.params) THEN Becomes(Canceled(Now)) /\ UNCHANGED used
     ELSE \/ Becomes(IF final THEN FinishPreview(b) ELSE b) /\ UNCHANGED used
          \/ /\ last /\ used.faults < MaxFaults
             /\ Becomes(FailPreview(Now))
             /\ used' = [used EXCEPT !.faults = @ + 1]
  /\ UNCHANGED loops

\* PrintingDone of an earlier print: DidFinishPrinting(OK or FAIL_PRINT).
OnPrintingDone ==
  /\ Idle /\ used.faults < MaxFaults
  /\ helper' = Released(helper)
  /\ browser' = [browser EXCEPT !.answer = IF helper.prep = "none" THEN @ ELSE "dropped"]
  /\ used' = [used EXCEPT !.faults = @ + 1]
  /\ UNCHANGED <<context, loops>>

Next ==
  \/ SendPrintPreview \/ Close
  \/ \E source \in Sources : PrintPage(source) \/ OnInitiatePrintPreview(source)
  \/ SetupScriptedPrintPreviewDone \/ ShowScriptedPrintPreview
  \/ DidStartLoading \/ DidStopLoading \/ FrameDetached
  \/ OnPrintPreview \/ SelectionLoaded \/ CallOnReady
  \/ CreatePreviewDocument \/ RenderPreviewPage \/ CheckPage \/ OnPrintingDone

Spec == Init /\ [][Next]_vars

\* The render thread works off its tasks, and a page or a selection that loads stops loading.
RendererStep ==
  \/ ShowScriptedPrintPreview \/ DidStopLoading \/ OnPrintPreview \/ SelectionLoaded
  \/ CallOnReady \/ CreatePreviewDocument \/ RenderPreviewPage \/ CheckPage

FairSpec == Spec /\ WF_vars(RendererStep)

(***************************************************************************)
(* Properties.                                                             *)
(***************************************************************************)
Requests == [id : 0..MaxRequests, kind : {"good", "empty", "canceled", "invalid"}, pages : PageLists \cup {<<>>},
             drafts : BOOLEAN, selection : BOOLEAN]

\* The helper, its context and the messages have their types; only the loop holds pages.
TypeOK ==
  /\ helper \in [params : Requests, prep : {"none", "loading", "loaded", "ready"}, for : 0..MaxRequests,
                 reset : BOOLEAN, sent : BOOLEAN, loading : BOOLEAN,
                 closure : {"none", "show", "request"}, delayed : BOOLEAN, waits : BOOLEAN,
                 at : {"idle", "create", "render", "check", "crashed"}]
  /\ context.state \in {"uninitialized", "initialized", "rendering"}
  /\ context.source \in Sources
  /\ context.index \in 0..Len(context.pages)
  /\ context.state = "rendering" <=> helper.at \in {"render", "check"}
  /\ \A i \in DOMAIN loops.inbox : loops.inbox[i] \in Requests
  /\ loops.posted \in 0..MaxStarts
  /\ browser.answer \in {"none", "ready", "failed", "cancelled", "dropped"}

\* A document is made from the frame that was prepared with its request's settings, though
\* requests come while the selection of an earlier one loads (reset_prep_frame_view_).
PreparedIsWanted == helper.at = "create" => helper.for = helper.params.id

\* The print-ready document has the pages asked for that exist, or all if there is none,
\* once and in order; each page is shown once, print-ready ones first, and in the end all.
Wanted(asked, total) ==
  LET valid == {p \in Range(asked) : p < total} IN IF valid = {} THEN 0..(total - 1) ELSE valid

DocumentIsExact ==
  LET ready == browser.ready  shown == browser.shown IN
  /\ Range(ready.pages) = Wanted(ready.asked, ready.total)
  /\ \A i, j \in DOMAIN ready.pages : i < j => ready.pages[i] < ready.pages[j]
  /\ Cardinality(Range(shown)) = Len(shown)
  /\ shown # <<>> /\ ready.total > 0 => IsPrefix(ready.pages, shown)
  /\ shown # <<>> /\ browser.all => Range(shown) = 0..(ready.total - 1)

\* When the renderer has nothing more to prepare or render, the browser has been told what
\* became of its last request, unless the end of an earlier print took it away.
EndIsTold == Idle /\ helper.prep = "none" => browser.answer # "none"

\* A preview is shown for a script only while it waits in print(), and once, though tasks
\* and closures of earlier prints may still run.
ShownToWaiting == [][browser'.shows > browser.shows => helper.waits /\ browser.shows = 0]_vars

\* A script that waits in print() gets a dialog, or goes on, even if the user's own print
\* takes the closure's place.
ScriptIsShown == helper.waits ~> (~helper.waits \/ browser.shows > 0 \/ browser.asked \/ helper.at = "crashed")

\* print_web_view_helper.cc:1048: "Don't reset loading frame or WebKit will fail assert."
LoadingFrameIsKept == [][helper.prep = "loading" => helper'.prep \in {"loading", "loaded"}]_vars
=============================================================================
