---------------------------- MODULE MediaRecorder ----------------------------
(***************************************************************************)
(* nw.MediaRecorder: one recorder and the threads that feed its file.      *)
(*                                                                         *)
(*   src/src/resources/api_nw_media_recorder.js    the JavaScript object   *)
(*   src/src/api/mediarecorder/mediarecorder.cc    sink, pause, mrsMap     *)
(*   src/src/api/mediarecorder/                                            *)
(*       ffmpeg_mediarecorder_wrapper.cc           encoder, worker, lock_  *)
(*                                                                         *)
(* Four threads take steps: main (JavaScript, events, the destruction of   *)
(* the sink), video (OnVideoFrame), audio (OnSetFormat, OnData) and the    *)
(* worker that WriteFrame tasks are posted to.  lock_ guards InitVideo,    *)
(* InitAudio, WriteFrame, RequestData(false) and Stop; fileReady_, have_*  *)
(* and worker_thread_ are also read without it, so each read and each      *)
(* assignment of them is a step.  A packet is <<stream, number>>.          *)
(***************************************************************************)
EXTENDS Naturals, Sequences, FiniteSets

CONSTANTS
  Streams,      \* the tracks of the recorded stream: "video", "audio" or both
  MaxFrames,    \* bound: frames each track delivers to one sink
  MaxEvents,    \* bound: events waiting when the application makes a call
  MaxSessions   \* bound: calls of start() that succeed

ASSUME StreamAssumption == Streams \subseteq {"video", "audio"} /\ Streams # {}
ASSUME BoundAssumption  == {MaxFrames, MaxEvents, MaxSessions} \subseteq Nat

AudioOnly == Streams = {"audio"}

VARIABLES
  \* main thread
  state,        \* privates(this).state of the JavaScript object
  session,      \* number of sinks created so far
  mrs,          \* mrsMap has an entry for the object
  main,         \* what the main thread is in the middle of
  objs,         \* mediaRecorderEvents.objs has the object
  onstop,       \* the listener of the Stop event is calling the application
  events,       \* events bound to the main loop, <<name, session>>
  \* the sink
  attached,     \* tracks that deliver to the sink
  callback,     \* the reference the video callback holds on the sink
  pause,        \* pause_ of videoPause_ and audioPause_
  frames,       \* frames delivered so far
  pc,           \* where each track's thread is
  \* FFMpegMediaRecorder
  have,         \* have_video, have_audio
  fileReady,    \* fileReady_
  worker,       \* worker_thread_
  lock,         \* the thread that holds lock_
  queue,        \* tasks posted to the worker
  videoStart,   \* videoStart_ is set
  held,         \* frames each encoder has taken and kept
  encoded,      \* packets each encoder has produced
  file,         \* the container: no header yet, open, or closed
  written       \* packets in the container, per track, in order

page     == <<objs, onstop>>
mainVars == <<state, session, mrs, main, page>>
links    == <<attached, callback>>
sinkVars == <<links, pause, frames, pc>>
setup    == <<have, fileReady, worker, videoStart>>
packets  == <<held, encoded, written>>
recVars  == <<setup, lock, queue, packets, file>>
vars     == <<mainVars, events, sinkVars, recVars>>

\* event_cb_ and event_cb_.Run: the event is bound to the main loop.
Post(name) == events' = Append(events, <<name, session>>)

\* The muxer may push a full buffer out through writeCB.
MayPostData == Post("Data") \/ UNCHANGED events

-----------------------------------------------------------------------------
\* A recorder that was never started.  The fields of the sink and of its
\* FFMpegMediaRecorder have the values their constructors give them.
Init ==
  /\ state = "inactive"
  /\ session = 0
  /\ mrs = FALSE
  /\ main = "idle"
  /\ objs = FALSE
  /\ onstop = FALSE
  /\ events = <<>>
  /\ attached = {}
  /\ callback = "none"
  /\ pause = [s \in Streams |-> "Active"]
  /\ frames = [s \in Streams |-> 0]
  /\ pc = [s \in Streams |-> "idle"]
  /\ have = [s \in Streams |-> FALSE]
  /\ fileReady = FALSE
  /\ worker = "null"
  /\ lock = "free"
  /\ queue = <<>>
  /\ videoStart = FALSE
  /\ held = [s \in Streams |-> 0]
  /\ encoded = [s \in Streams |-> 0]
  /\ file = "none"
  /\ written = [s \in Streams |-> <<>>]

\* MediaRecorder.prototype.start throws unless the object is inactive.
MayStart ==
  /\ main = "idle"
  /\ state = "inactive"
  /\ session < MaxSessions

\* The constructor of FFMpegMediaRecorder.
NewRecorder ==
  /\ have' = [s \in Streams |-> FALSE]
  /\ fileReady' = FALSE
  /\ worker' = "null"
  /\ queue' = <<>>
  /\ videoStart' = FALSE
  /\ held' = [s \in Streams |-> 0]
  /\ encoded' = [s \in Streams |-> 0]
  /\ file' = "none"
  /\ written' = [s \in Streams |-> <<>>]

\* The constructor of MediaRecorderSink adds the sink to its tracks; the video
\* callback is bound to a reference on it.  Audio announces its format first.
NewSink ==
  /\ attached' = Streams
  /\ callback' = IF "video" \in Streams THEN "held" ELSE "none"
  /\ pause' = [s \in Streams |-> "Active"]
  /\ frames' = [s \in Streams |-> 0]
  /\ pc' = [s \in Streams |-> IF s = "audio" THEN "format" ELSE "idle"]
  /\ NewRecorder

\* start() and MediaRecorder::Start for a stream with the tracks in Streams.
\* It throws if mrsMap still has the object.
Start ==
  /\ MayStart
  /\ ~mrs
  /\ session' = session + 1
  /\ mrs' = TRUE
  /\ state' = "recording"
  /\ objs' = TRUE
  /\ NewSink
  /\ UNCHANGED <<main, onstop, events, lock>>

-----------------------------------------------------------------------------
\* Calls of the application.  stop, pause, resume and requestData throw while the
\* object is inactive, ...
NotInactive ==
  /\ main = "idle"
  /\ state # "inactive"
  /\ Len(events) < MaxEvents

\* ... and a call that finds no entry in mrsMap throws and changes nothing.
MayCall == NotInactive /\ mrs

Pause ==
  /\ MayCall
  /\ pause' = [s \in Streams |-> "Pause"]
  /\ Post("Pause")
  /\ UNCHANGED <<mainVars, links, frames, pc, recVars>>

Resume ==
  /\ MayCall
  /\ pause' = [s \in Streams |-> "Resume"]
  /\ Post("Resume")
  /\ UNCHANGED <<mainVars, links, frames, pc, recVars>>

\* RequestData: a flush task for the worker, or the flush itself under lock_
\* when there is no running worker.
RequestData ==
  /\ MayCall
  /\ IF worker = "running"
       THEN /\ Len(queue) < MaxFrames
            /\ queue' = Append(queue, <<"flush", 0>>)
            /\ UNCHANGED events
       ELSE /\ lock = "free"
            /\ MayPostData
            /\ UNCHANGED queue
  /\ UNCHANGED <<mainVars, sinkVars, setup, lock, packets, file>>

\* Nothing of the sink runs on the audio thread: RemoveFromAudioTrack returns.
AudioIsOut == "audio" \in Streams => pc["audio"] \in {"idle", "format"}

\* MediaRecorderSink::Stop.  The audio track lets go of the sink at once; the
\* video callback is only asked to go.
SinkStop ==
  /\ AudioIsOut
  /\ attached' = attached \ {"audio"}
  /\ callback' = IF callback = "held" THEN "removing" ELSE callback

\* Mutant: the sink is deleted at once, whatever the video callback holds.
MutantStop ==
  /\ MayCall
  /\ SinkStop
  /\ mrs' = FALSE
  /\ main' = "delete"
  /\ UNCHANGED <<state, session, page, events, pause, frames, pc, recVars>>

\* Mutant: stop() makes the object inactive without waiting for the Stop event.
MutantStopAtOnce ==
  /\ MayCall
  /\ SinkStop
  /\ state' = "inactive"
  /\ mrs' = FALSE
  /\ main' = IF "video" \in Streams THEN "idle" ELSE "delete"
  /\ UNCHANGED <<session, page, events, pause, frames, pc, recVars>>

\* stop(): MediaRecorder::Stop drops the reference of mrsMap, the last one
\* unless the video callback still holds its own.
Stop ==
  /\ MayCall
  /\ SinkStop
  /\ mrs' = FALSE
  /\ main' = IF "video" \in Streams THEN "idle" ELSE "delete"
  /\ UNCHANGED <<state, session, page, events, pause, frames, pc, recVars>>

\* The video thread drops the callback between two frames and hands the
\* reference back to the main thread.
RemoveVideoCallback ==
  /\ callback = "removing"
  /\ pc["video"] = "idle"
  /\ callback' = "removed"
  /\ attached' = attached \ {"video"}
  /\ UNCHANGED <<mainVars, events, pause, frames, pc, recVars>>

ReleaseVideoCallback ==
  /\ main = "idle"
  /\ ~onstop
  /\ callback = "removed"
  /\ callback' = "none"
  /\ main' = "delete"
  /\ UNCHANGED <<state, session, mrs, page, events, attached, pause, frames, pc, recVars>>

-----------------------------------------------------------------------------
\* ~FFMpegMediaRecorder runs Stop on the main thread, which takes lock_.
StopTakesLock ==
  /\ main = "delete"
  /\ lock = "free"
  /\ lock' = "main"
  /\ main' = "join"
  /\ UNCHANGED <<state, session, mrs, page, events, sinkVars, setup, queue, packets, file>>

\* worker_thread_->Stop() returns when the worker has run every task posted
\* before; then each open encoder gives up the frames it holds, the trailer is
\* written, the context is freed and the Stop event is posted.
FlushedBy(s) == IF have[s] THEN held[s] ELSE 0

StopFinishes ==
  /\ main = "join"
  /\ worker = "running" => queue = <<>>
  /\ worker' = IF worker = "running" THEN "stopped" ELSE worker
  /\ encoded' = [s \in Streams |-> encoded[s] + FlushedBy(s)]
  /\ written' = [s \in Streams |->
                   written[s] \o [i \in 1 .. FlushedBy(s) |-> encoded[s] + i]]
  /\ held' = [s \in Streams |-> held[s] - FlushedBy(s)]
  /\ file' = "closed"
  /\ events' = events \o (IF fileReady THEN <<<<"Data", session>>>> ELSE <<>>)
                      \o <<<<"Stop", session>>>>
  /\ lock' = "free"
  /\ main' = "idle"
  /\ UNCHANGED <<state, session, mrs, page, sinkVars, have, fileReady, videoStart, queue>>

\* The main loop runs the oldest event; nobody hears it if objs lacks the object.
\* The listener of the Stop event makes the object inactive and calls
\* ondataavailable and onstop, which may call the recorder again, ...
DeliverEvent ==
  /\ main = "idle"
  /\ ~onstop
  /\ events # <<>>
  /\ events' = Tail(events)
  /\ IF objs /\ Head(events)[1] = "Stop"
       THEN state' = "inactive" /\ onstop' = TRUE
       ELSE UNCHANGED <<state, onstop>>
  /\ UNCHANGED <<session, mrs, main, objs, sinkVars, recVars>>

\* ... and then forgets the object.
OnstopReturns ==
  /\ main = "idle"
  /\ onstop
  /\ onstop' = FALSE
  /\ objs' = FALSE
  /\ UNCHANGED <<state, session, mrs, main, events, sinkVars, recVars>>

-----------------------------------------------------------------------------
\* OnVideoFrame: while there is no video encoder, every frame tries InitVideo.
VideoFrame ==
  /\ "video" \in attached
  /\ pc["video"] = "idle"
  /\ frames["video"] < MaxFrames
  /\ frames' = [frames EXCEPT !["video"] = @ + 1]
  /\ pc' = [pc EXCEPT !["video"] = IF have["video"] THEN "check" ELSE "init"]
  /\ UNCHANGED <<mainVars, events, links, pause, recVars>>

\* OnData, after OnSetFormat.
AudioData ==
  /\ "audio" \in attached
  /\ pc["audio"] = "idle"
  /\ frames["audio"] < MaxFrames
  /\ frames' = [frames EXCEPT !["audio"] = @ + 1]
  /\ pc' = [pc EXCEPT !["audio"] = "check"]
  /\ UNCHANGED <<mainVars, events, links, pause, recVars>>

\* OnSetFormat calls InitAudio.
SetFormat ==
  /\ "audio" \in attached
  /\ pc["audio"] = "format"
  /\ pc' = [pc EXCEPT !["audio"] = "init"]
  /\ UNCHANGED <<mainVars, events, links, pause, frames, recVars>>

\* OnVideoFrame goes on with the frame after InitVideo; OnSetFormat is done.
AfterInit(s) == IF s = "video" THEN "check" ELSE "idle"

\* InitVideo and InitAudio up to InitFile: lock_ is taken and the codec opens
\* or fails to.  The encoder that opens last opens the file.
InitEncoder(s) ==
  /\ pc[s] = "init"
  /\ lock = "free"
  /\ \/ /\ have' = [have EXCEPT ![s] = TRUE]
        /\ IF \A t \in Streams : have'[t]
             THEN lock' = s /\ pc' = [pc EXCEPT ![s] = "header"]
             ELSE UNCHANGED lock /\ pc' = [pc EXCEPT ![s] = AfterInit(s)]
     \/ /\ pc' = [pc EXCEPT ![s] = AfterInit(s)]
        /\ UNCHANGED <<have, lock>>
  /\ UNCHANGED <<mainVars, events, links, pause, frames, fileReady, worker,
                 videoStart, queue, packets, file>>

\* InitFile: the header is written, or that fails and InitFile gives up.
WriteHeader(s) ==
  /\ pc[s] = "header"
  /\ \/ /\ file' = "open"
        /\ fileReady' = TRUE
        /\ pc' = [pc EXCEPT ![s] = "thread"]
        /\ MayPostData
        /\ UNCHANGED lock
     \/ /\ pc' = [pc EXCEPT ![s] = AfterInit(s)]
        /\ lock' = "free"
        /\ UNCHANGED <<file, fileReady, events>>
  /\ UNCHANGED <<mainVars, links, pause, frames, have, worker, videoStart, queue, packets>>

\* InitFile: the worker starts after fileReady_ was set; the Start event.
StartWorker(s) ==
  /\ pc[s] = "thread"
  /\ worker' = "running"
  /\ Post("Start")
  /\ lock' = "free"
  /\ pc' = [pc EXCEPT ![s] = AfterInit(s)]
  /\ UNCHANGED <<mainVars, links, pause, frames, have, fileReady, videoStart, queue,
                 packets, file>>

\* MediaPause::isPaused reads pause_, which the main thread also writes, ...
ReadPause(s) ==
  /\ pc[s] = "check"
  /\ pc' = [pc EXCEPT ![s] = CASE pause[s] = "Pause"  -> "pausing"
                               [] pause[s] = "Resume" -> "resuming"
                               [] OTHER               -> "gate"]
  /\ UNCHANGED <<mainVars, events, links, pause, frames, recVars>>

\* ... and writes what it decided.
WritePause(s) ==
  /\ pc[s] \in {"pausing", "resuming"}
  /\ pause' = [pause EXCEPT ![s] = IF pc[s] = "pausing" THEN "Paused" ELSE "Active"]
  /\ pc' = [pc EXCEPT ![s] = "gate"]
  /\ UNCHANGED <<mainVars, events, links, frames, recVars>>

\* Mutant: UpdateVideo and UpdateAudio do not wait for the file.
MutantGate(s) ==
  /\ pc[s] = "gate"
  /\ LET use == pause[s] = "Active" /\ have[s] IN
     /\ pc' = [pc EXCEPT ![s] = IF use THEN "encode" ELSE "idle"]
     /\ videoStart' = (videoStart \/ (use /\ s = "video"))
  /\ UNCHANGED <<mainVars, events, links, pause, frames, have, fileReady, worker, lock,
                 queue, packets, file>>

\* isPaused returns, and the first tests of UpdateVideo and UpdateAudio, which
\* read have_* and fileReady_ without lock_.  Audio lets the video start first.
Gate(s) ==
  /\ pc[s] = "gate"
  /\ LET use == /\ pause[s] = "Active"
                /\ have[s]
                /\ fileReady
                /\ s = "audio" => AudioOnly \/ videoStart
     IN  /\ pc' = [pc EXCEPT ![s] = IF use THEN "encode" ELSE "idle"]
         /\ videoStart' = (videoStart \/ (use /\ s = "video"))
  /\ UNCHANGED <<mainVars, events, links, pause, frames, have, fileReady, worker, lock,
                 queue, packets, file>>

\* The encoder has no packet yet and keeps the frame.
KeepFrame(s) ==
  /\ held' = [held EXCEPT ![s] = @ + 1]
  /\ pc' = [pc EXCEPT ![s] = "idle"]
  /\ UNCHANGED <<encoded, queue>>

\* Where a thread goes when its packet is on its way, k frames being held:
\* UpdateAudio loops while its buffer has more than it should keep.
AfterPacket(s, k) == {"idle"} \cup (IF s = "audio" /\ k > 0 THEN {"drain"} ELSE {})

\* The encoder made a packet: it goes to the worker if the thread is seen
\* running, else the frame's own thread will write it.
SendPacket(s, k) ==
  /\ encoded' = [encoded EXCEPT ![s] = @ + 1]
  /\ held' = [held EXCEPT ![s] = k]
  /\ IF worker = "running"
       THEN /\ queue' = Append(queue, <<s, encoded[s] + 1>>)
            /\ \E place \in AfterPacket(s, k) : pc' = [pc EXCEPT ![s] = place]
       ELSE /\ pc' = [pc EXCEPT ![s] = "write"]
            /\ UNCHANGED queue

\* The frame is dropped by the timestamp rule or a failing encoder, or it is
\* encoded.
EncodeFrame(s) ==
  /\ pc[s] = "encode"
  /\ \/ KeepFrame(s)
     \/ SendPacket(s, held[s])
     \/ /\ pc' = [pc EXCEPT ![s] = "idle"]
        /\ UNCHANGED <<held, encoded, queue>>
  /\ UNCHANGED <<mainVars, events, links, pause, frames, setup, lock, file, written>>

\* UpdateAudio goes round its loop for a frame it still holds.
DrainFrame(s) ==
  /\ pc[s] = "drain"
  /\ SendPacket(s, held[s] - 1)
  /\ UNCHANGED <<mainVars, events, links, pause, frames, setup, lock, file, written>>

\* Mutant: a direct write gives up when lock_ is taken.
MutantWriteDirectly(s) ==
  /\ pc[s] = "write"
  /\ written' = IF lock = "free"
                  THEN [written EXCEPT ![s] = Append(@, encoded[s])] ELSE written
  /\ MayPostData
  /\ pc' = [pc EXCEPT ![s] = "idle"]
  /\ UNCHANGED <<mainVars, links, pause, frames, setup, lock, queue, held, encoded, file>>

\* WriteFrame called directly: it waits for lock_.
WriteDirectly(s) ==
  /\ pc[s] = "write"
  /\ lock = "free"
  /\ written' = [written EXCEPT ![s] = Append(@, encoded[s])]
  /\ MayPostData
  /\ \E place \in AfterPacket(s, held[s]) : pc' = [pc EXCEPT ![s] = place]
  /\ UNCHANGED <<mainVars, links, pause, frames, setup, lock, queue, held, encoded, file>>

\* What a task writes: WriteFrame adds its packet, RequestData(false) nothing.
AfterTask(task) ==
  IF task[1] = "flush" THEN written
  ELSE [written EXCEPT ![task[1]] = Append(@, task[2])]

\* The worker runs the oldest task, under lock_.
RunTask ==
  /\ worker = "running"
  /\ queue # <<>>
  /\ lock = "free"
  /\ queue' = Tail(queue)
  /\ written' = AfterTask(Head(queue))
  /\ MayPostData
  /\ UNCHANGED <<mainVars, sinkVars, setup, lock, held, encoded, file>>

-----------------------------------------------------------------------------
TrackStep(s) ==
  \/ InitEncoder(s) \/ WriteHeader(s) \/ StartWorker(s)
  \/ ReadPause(s) \/ WritePause(s) \/ Gate(s)
  \/ EncodeFrame(s) \/ DrainFrame(s) \/ WriteDirectly(s)

MainStep ==
  \/ ReleaseVideoCallback \/ StopTakesLock \/ StopFinishes
  \/ DeliverEvent \/ OnstopReturns

Next ==
  \/ Start \/ Pause \/ Resume \/ RequestData \/ Stop
  \/ MainStep
  \/ RemoveVideoCallback
  \/ VideoFrame \/ AudioData \/ SetFormat
  \/ \E s \in Streams : TrackStep(s)
  \/ RunTask

\* Threads that can run do run; nobody has to call start, stop or pause, and
\* no track has to deliver a frame.
Fairness ==
  /\ WF_vars(MainStep)
  /\ WF_vars(RemoveVideoCallback)
  /\ \A s \in Streams : WF_vars(TrackStep(s))
  /\ WF_vars(RunTask)

Spec     == Init /\ [][Next]_vars
FairSpec == Spec /\ Fairness

-----------------------------------------------------------------------------
Places == {"idle", "format", "init", "header", "thread", "check", "pausing",
           "resuming", "gate", "encode", "drain", "write"}
Packets == Streams \X (1 .. MaxFrames)
Tasks   == Packets \cup {<<"flush", 0>>}

\* The values every variable ranges over.
TypeOK ==
  /\ state \in {"inactive", "recording"}
  /\ session \in 0 .. MaxSessions
  /\ mrs \in BOOLEAN
  /\ main \in {"idle", "delete", "join"}
  /\ objs \in BOOLEAN
  /\ onstop \in BOOLEAN
  /\ events \in Seq({"Start", "Stop", "Data", "Pause", "Resume"} \X (1 .. MaxSessions))
  /\ attached \subseteq Streams
  /\ callback \in {"none", "held", "removing", "removed"}
  /\ pause \in [Streams -> {"Active", "Pause", "Paused", "Resume"}]
  /\ frames \in [Streams -> 0 .. MaxFrames]
  /\ pc \in [Streams -> Places]
  /\ have \in [Streams -> BOOLEAN]
  /\ fileReady \in BOOLEAN
  /\ worker \in {"null", "running", "stopped"}
  /\ lock \in Streams \cup {"free", "main"}
  /\ queue \in Seq(Tasks)
  /\ videoStart \in BOOLEAN
  /\ held \in [Streams -> 0 .. MaxFrames]
  /\ encoded \in [Streams -> 0 .. MaxFrames]
  /\ file \in {"none", "open", "closed"}
  /\ written \in [Streams -> Seq(1 .. MaxFrames)]

IsCount(q) == \A i \in DOMAIN q : q[i] = i

\* Nothing is lost or reordered on the way to the container: of each track it
\* has the packets 1, 2, 3, ..., although a packet travels through the worker or,
\* while the worker is being started, is written by the track's own thread; and
\* once the container is closed it has every packet the encoder produced.
PacketsInOrder ==
  \A s \in Streams :
    /\ IsCount(written[s])
    /\ file = "closed" => Len(written[s]) = encoded[s]

\* The container only gets packets between its header and its trailer, although
\* fileReady_ is read without lock_ and the encoders are flushed on any stop.
WritesInsideFile ==
  [][\A s \in Streams : Len(written'[s]) > Len(written[s]) => file = "open"]_vars

\* When the sink is destroyed nothing is left that would use it: no track calls
\* it, no thread is inside one of its methods, no task waits in its worker.
DestroyedIsQuiet ==
  file = "closed" =>
    /\ attached = {}
    /\ callback = "none"
    /\ \A s \in Streams : pc[s] \in {"idle", "format"}
    /\ queue = <<>>
    /\ lock = "free"

\* Every event that waits in the main loop belongs to the recording in progress
\* and none follows its Stop event: the application never gets data, a start or
\* a stop of an earlier recording for a later one with the same object.
NoStaleEvent ==
  \A i \in DOMAIN events :
    /\ events[i][2] = session
    /\ events[i][1] = "Stop" => i = Len(events)

\* A packet posted to the worker is written, unless the recorder is being
\* stopped meanwhile.
PostedIsWritten ==
  \A s \in Streams, n \in 1 .. MaxFrames :
    (\E i \in DOMAIN queue : queue[i] = <<s, n>>)
      ~> (n <= Len(written[s]) \/ main = "join")

\* stop() completes: the object becomes inactive again and onstop is called.
StopCompletes ==
  (state = "recording" /\ ~mrs) ~> (state = "inactive")
=============================================================================
