--------------------------- MODULE MediaTimestamps ---------------------------
(***************************************************************************)
(* The timestamps nw.MediaRecorder gives the frames it encodes:            *)
(*                                                                         *)
(*   src/src/api/mediarecorder/mediarecorder.cc                MediaPause  *)
(*   src/src/api/mediarecorder/ffmpeg_mediarecorder_wrapper.cc UpdateVideo *)
(*                                                             UpdateAudio *)
(*   src/src/api/mediarecorder/ffmpeg_mediarecorder.c    write_audio_frame *)
(*                                                                         *)
(* A frame has the time it was captured at and is delivered some time      *)
(* later.  Each track cuts a pause out of its times by itself, between the *)
(* first frame after pause() and the first after resume().  Timestamps of  *)
(* the video count frames of FrameTime, those of the audio samples, and    *)
(* stay below 2^31: twelve hours at 48 kHz.  How the two tracks' threads   *)
(* and the worker interleave is MediaRecorder's.                           *)
(***************************************************************************)
EXTENDS Integers

CONSTANTS
  Tracks,     \* the tracks of the recorded stream: "video", "audio" or both
  FrameTime,  \* the time of one video frame: time_base, in units of time
  Rate,       \* samples in a unit of time
  FrameSize,  \* nb_samples of a frame of the audio encoder
  Buffers,    \* numbers of samples that may arrive at once
  ForceSync,  \* the option forceSync
  Waits,      \* the application calls pause() and resume() as MediaPause asserts
  MaxDelay,   \* a frame is delivered at most so long after it was captured
  MaxGap,     \* and so long after the one before it
  MaxTime,    \* bound: units of time
  MaxPauses,  \* bound: calls of pause()
  MaxFaults,  \* bound: failures of the scaler and the encoders
  None        \* a time that is null

ASSUME TimesAssumption ==
  /\ Tracks \subseteq {"video", "audio"}
  /\ {FrameTime, Rate, FrameSize} \subseteq Nat \ {0} /\ Buffers \subseteq Nat
  /\ ForceSync \in {0, 1, 2} /\ Waits \in BOOLEAN
  /\ {MaxDelay, MaxGap, MaxTime, MaxPauses, MaxFaults} \subseteq Nat
  /\ None \notin Int

VARIABLES
  now,      \* the clock
  app,      \* the application: whether it pauses, when it last called pause() or resume(),
            \* and how often and how long it has paused
  seen,     \* when each track delivered its last frame
  mediaPause,  \* videoPause_ and audioPause_
  ready,    \* fileReady_
  start,    \* videoStart_ and audioStart_
  pts,      \* pts of each track's frame
  audio,    \* samples in the frame and in the resampler, and outTolerance
  sent,     \* how many frames each track has given to its encoder, and the first and the last
            \* timestamp of those it last gave
  shown,    \* how long after the start the last picture of it was captured
  faults    \* failures so far

timesVars == <<now, app, seen, mediaPause, ready, start, pts, audio, sent, shown, faults>>

TimesInit ==
  /\ now = 0 /\ seen = [s \in Tracks |-> 0]
  /\ app = [pauses |-> FALSE, since |-> 0, count |-> 0, away |-> 0]
  /\ mediaPause = [s \in Tracks |-> [state |-> "Active", at |-> 0, delta |-> 0]]
  /\ ready = FALSE
  /\ start = [s \in Tracks |-> None] /\ pts = [s \in Tracks |-> 0]
  /\ audio = [filled |-> 0, delay |-> 0, tolerance |-> -1]
  /\ sent = [s \in Tracks |-> [frames |-> 0, first |-> 0, last |-> 0]]
  /\ shown = 0 /\ faults = 0

\* (int)(n / d + 0.5), which drops the fraction towards zero.
Rounded(n, d) == IF 2 * n + d >= 0 THEN (2 * n + d) \div (2 * d) ELSE -((-(2 * n + d)) \div (2 * d))

\* Tracks that are attached keep delivering.
Tick ==
  /\ now < MaxTime /\ \A s \in Tracks : now < seen[s] + MaxGap
  /\ now' = now + 1
  /\ UNCHANGED <<app, seen, mediaPause, ready, start, pts, audio, sent, shown, faults>>

InitFile ==
  /\ ~ready /\ ready' = TRUE
  /\ UNCHANGED <<now, app, seen, mediaPause, start, pts, audio, sent, shown, faults>>

-----------------------------------------------------------------------------
(***************************************************************************)
(* Pauses.                                                                 *)
(***************************************************************************)
\* The assertions of MediaPause::Pause and Resume, for an application that meets them.
Asserted(state) == \A s \in Tracks : mediaPause[s].state = state

PauseTracks ==
  /\ ~app.pauses /\ app.count < MaxPauses /\ (Waits => Asserted("Active"))
  /\ mediaPause' = [s \in Tracks |-> [mediaPause[s] EXCEPT !.state = "Pause"]]
  /\ app' = [app EXCEPT !.pauses = TRUE, !.since = now]
  /\ UNCHANGED <<now, seen, ready, start, pts, audio, sent, shown, faults>>

ResumeTracks ==
  /\ app.pauses /\ (Waits => Asserted("Paused"))
  /\ mediaPause' = [s \in Tracks |-> [mediaPause[s] EXCEPT !.state = "Resume"]]
  /\ app' = [app EXCEPT !.pauses = FALSE, !.count = @ + 1, !.away = @ + (now - app.since), !.since = now]
  /\ UNCHANGED <<now, seen, ready, start, pts, audio, sent, shown, faults>>

\* Mutant: the state is not set back, so the pause is cut out again with every frame.
MutantIsPaused(p, t) ==
  CASE p.state = "Pause"  -> [p EXCEPT !.state = "Paused", !.at = t]
    [] p.state = "Resume" -> [p EXCEPT !.state = "Active"]
    [] OTHER              -> p

\* isPaused, for a frame captured at t.
IsPaused(p, t) ==
  CASE p.state = "Pause"  -> [p EXCEPT !.state = "Paused", !.at = t]
    [] p.state = "Resume" -> [p EXCEPT !.state = "Active", !.delta = @ + (t - p.at)]
    [] OTHER              -> p

\* A frame of s captured at t is delivered; in a pause, and before the file is ready, that
\* is all.
Delivered(s, t) ==
  /\ s \in Tracks /\ seen[s] < now /\ t \in (now - MaxDelay)..now
  /\ seen' = [seen EXCEPT ![s] = now]
  /\ mediaPause' = [mediaPause EXCEPT ![s] = IsPaused(@, t)]

Used(p) == p.state = "Active" /\ ready

\* A failure is one of the MaxFaults.
MayFail(fails) ==
  /\ fails => faults < MaxFaults
  /\ faults' = IF fails THEN faults + 1 ELSE faults

Ignored == UNCHANGED <<start, pts, audio, sent, shown>>

-----------------------------------------------------------------------------
(***************************************************************************)
(* Video.                                                                  *)
(***************************************************************************)
\* The timestamp of a frame x after the start.
Expected(x) == Rounded(x, FrameTime)

\* Mutant: a frame always goes where it is expected.
MutantNextPts(p, x) == Expected(x)

\* A frame comes after the one before it, or as late as it was captured.
NextPts(p, x) == IF p < Expected(x) THEN Expected(x) ELSE p

\* The frame is more than a frame early: it is dropped, its timestamp taken back.
TooEarly(p, x) == p >= Expected(x) /\ p * FrameTime - x > FrameTime

Encoded(s, n, first, last) ==
  sent' = [sent EXCEPT ![s] = [frames |-> @.frames + n, first |-> first, last |-> last]]

\* UpdateVideo: the first frame starts the recording.  The scaler or the encoder may fail.
UpdateVideo(t, fails) ==
  LET first == start["video"] = None
      next  == pts["video"] + 1
      x     == IF first THEN 0 ELSE t - start["video"]
      p     == IF first THEN 0 ELSE NextPts(next, x)
  IN
  IF ~first /\ TooEarly(next, x) THEN ~fails /\ Ignored
  ELSE /\ start' = [start EXCEPT !["video"] = IF first THEN t ELSE @]
       /\ pts' = [pts EXCEPT !["video"] = p]
       /\ IF fails THEN UNCHANGED <<sent, shown>> ELSE Encoded("video", 1, p, p) /\ shown' = x
       /\ UNCHANGED audio

OnVideoFrame(t, fails) ==
  /\ Delivered("video", t) /\ MayFail(fails)
  /\ LET p == IsPaused(mediaPause["video"], t) IN
     IF Used(p) THEN UpdateVideo(t - p.delta, fails) ELSE ~fails /\ Ignored
  /\ UNCHANGED <<now, app, ready>>

-----------------------------------------------------------------------------
(***************************************************************************)
(* Audio.                                                                  *)
(***************************************************************************)
Abs(n) == IF n < 0 THEN -n ELSE n

\* What UpdateAudio does to pts and outTolerance when it begins a frame: it starts at the
\* expected timestamp; later it goes there once it has been out of tolerance for as many
\* buffers as it was frames away, with forceSync 1 only forward.
Synchronized(isStart, expected) ==
  LET p     == pts["audio"]
      diff  == expected - p - audio.delay
      limit == (1 + audio.delay \div FrameSize) * FrameSize
      count == audio.tolerance - 1
  IN
  IF isStart THEN [pts |-> expected, tolerance |-> audio.tolerance]
  ELSE IF Abs(diff) < limit THEN [pts |-> p, tolerance |-> -1]
  ELSE IF ForceSync = 0 THEN [pts |-> p, tolerance |-> audio.tolerance]
  ELSE IF audio.tolerance < 0 THEN [pts |-> p, tolerance |-> Abs(diff) \div FrameSize + 1]
  ELSE [pts |-> IF count = 0 /\ ~(ForceSync = 1 /\ diff < 0) THEN expected ELSE p, tolerance |-> count]

\* write_audio_frame and the loop around it make k frames of the samples at hand: one, and
\* more while the resampler keeps more than two; an error of the encoder ends the loop.
Frames(samples, k) ==
  IF samples < FrameSize THEN k = 0
  ELSE /\ k >= 1 /\ k * FrameSize <= samples
       /\ k > 1 => samples - (k - 1) * FrameSize > 2 * FrameSize
Drained(samples, k) == samples < FrameSize \/ samples - k * FrameSize <= 2 * FrameSize

\* UpdateAudio, which lets the video start first.
UpdateAudio(t, samples, k, fails) ==
  LET isStart == start["audio"] = None
      zero    == IF ~isStart THEN start["audio"] ELSE IF Tracks = {"audio"} THEN t ELSE start["video"]
      sync    == IF audio.filled = 0 THEN Synchronized(isStart, Rounded((t - zero) * Rate, 1))
                 ELSE [pts |-> pts["audio"], tolerance |-> audio.tolerance]
      all     == audio.filled + audio.delay + samples
      last    == sync.pts + k * FrameSize
      done    == IF fails THEN k - 1 ELSE k
  IN
  /\ Frames(all, k) /\ (fails => k > 0) /\ (Drained(all, k) \/ fails)
  /\ start' = [start EXCEPT !["audio"] = zero]
  /\ pts' = [pts EXCEPT !["audio"] = last]
  /\ audio' = [filled |-> IF k = 0 THEN all ELSE 0, tolerance |-> sync.tolerance,
               delay |-> IF k = 0 THEN 0 ELSE all - k * FrameSize]
  /\ IF done = 0 THEN UNCHANGED sent
     ELSE Encoded("audio", done, sync.pts + FrameSize, sync.pts + done * FrameSize)
  /\ UNCHANGED shown

OnData(t, samples, k, fails) ==
  /\ Delivered("audio", t) /\ MayFail(fails)
  /\ LET p == IsPaused(mediaPause["audio"], t) IN
     IF Used(p) /\ ("video" \in Tracks => start["video"] # None)
     THEN UpdateAudio(t - p.delta, samples, k, fails)
     ELSE k = 0 /\ ~fails /\ Ignored
  /\ UNCHANGED <<now, app, ready>>

-----------------------------------------------------------------------------
TimesNext ==
  \/ Tick \/ InitFile \/ PauseTracks \/ ResumeTracks
  \/ \E t \in (now - MaxDelay)..now, fails \in BOOLEAN :
       \/ OnVideoFrame(t, fails)
       \/ \E samples \in Buffers : \E k \in 0..((audio.filled + audio.delay + samples) \div FrameSize) :
            OnData(t, samples, k, fails)

TimesSpec == TimesInit /\ [][TimesNext]_timesVars

-----------------------------------------------------------------------------
\* The timestamps an encoder is given increase, whatever times the frames were captured at,
\* with frames dropped, failed or lost, across pauses and corrections; with forceSync 2 those
\* of the audio may be set back.
Increases(s) == sent[s].frames > 0 /\ sent'[s] # sent[s] => sent[s].last < sent'[s].first
TimestampsIncrease == [][ForceSync # 2 => \A s \in Tracks : Increases(s)]_timesVars

\* The same without that exception.
NeverSetBack == [][\A s \in Tracks : Increases(s)]_timesVars

\* Each track cuts out of its times what the application paused, but for a frame's delay and
\* a gap a pause, so the tracks stay together; and by the times that are left a picture is
\* shown at most half a frame before and one frame after it was captured.
KeepsTime ==
  /\ \A s \in Tracks : mediaPause[s].state = "Active" =>
       Abs(mediaPause[s].delta - app.away) <= app.count * (MaxDelay + MaxGap)
  /\ "video" \in Tracks /\ sent["video"].frames > 0 =>
       LET ahead == sent["video"].last * FrameTime - shown
       IN  2 * ahead >= -FrameTime /\ ahead <= FrameTime
=============================================================================
