------------------------- MODULE MediaRecorderProofs -------------------------
(***************************************************************************)
(* Proofs about MediaRecorder, for any tracks and any number of frames,    *)
(* events and recordings; and behind them those about MediaTimestamps, for *)
(* all rates, frame sizes, delays and gaps.                                *)
(***************************************************************************)
EXTENDS MediaRecorder, MediaTimestamps, Integers, SequenceTheorems, TLAPS

\* Nothing of a sink is left: before the first one, and after each.
Quiet ==
  /\ ~mrs
  /\ main = "idle"
  /\ attached = {}
  /\ callback = "none"
  /\ \A s \in Streams : pc[s] \in {"idle", "format"}
  /\ queue = <<>>
  /\ lock = "free"

NoSink == session = 0 \/ file = "closed"

\* Who still holds the sink, and that its references go in an order.
Life ==
  /\ NoSink => Quiet
  /\ mrs => /\ main = "idle"
            /\ callback = IF "video" \in Streams THEN "held" ELSE "none"
  /\ callback \in {"removing", "removed"} => ~mrs /\ main = "idle" /\ attached \subseteq {"video"}
  /\ callback = "removed" => attached = {}
  /\ main # "idle" => ~mrs /\ attached = {} /\ callback = "none"
  /\ \A s \in Streams \ attached : pc[s] \in {"idle", "format"}
  /\ worker # "running" => queue = <<>>

\* Events are of the recording in progress, and Stop comes last.
EventsInv ==
  /\ \A i \in DOMAIN events :
       /\ events[i][2] = session
       /\ events[i][1] = "Stop" => i = Len(events) /\ file = "closed"
  /\ state = "inactive" => NoSink /\ events = <<>>

\* What an encoder has taken in implies that the file was opened.
Opened ==
  /\ fileReady => file # "none"
  /\ worker = "running" => fileReady
  /\ \A s \in Streams :
       /\ pc[s] \in {"thread", "encode", "drain", "write"} => fileReady
       /\ held[s] > 0 => fileReady

\* A frame is in one place: on its way to the encoder, kept by it, or encoded.
BeforeEncoder == {"check", "pausing", "resuming", "gate", "encode"}
Arriving(s) == \/ pc[s] \in BeforeEncoder
               \/ s = "video" /\ pc[s] \in {"init", "header", "thread"}
FrameCount ==
  \A s \in Streams :
    /\ held[s] + encoded[s] <= frames[s]
    /\ Arriving(s) => held[s] + encoded[s] < frames[s]
    /\ pc[s] = "drain" => held[s] > 0

\* A packet is written, in the queue, or about to be written directly; those in
\* the queue are in the order in which the encoder made them.
Counted   == \A s \in Streams : IsCount(written[s]) /\ Len(written[s]) <= encoded[s]
\* A packet made by s that is on its way.
Coming(s, n) == \/ pc[s] = "write" /\ n = encoded[s]
                \/ \E i \in DOMAIN queue : queue[i] = <<s, n>>
NotLost   == \A s \in Streams : \A n \in Len(written[s]) + 1 .. encoded[s] : Coming(s, n)
DirectIsAlone ==
  \A s \in Streams : pc[s] = "write" =>
    /\ Len(written[s]) < encoded[s]
    /\ \A i \in DOMAIN queue : queue[i][1] # s
NotWritten ==
  \A s \in Streams : \A i \in DOMAIN queue :
    queue[i][1] = s => Len(written[s]) < queue[i][2] /\ queue[i][2] <= encoded[s]
Sorted ==
  \A s \in Streams : \A i, j \in DOMAIN queue :
    i < j /\ queue[i][1] = s /\ queue[j][1] = s => queue[i][2] < queue[j][2]
Complete  == \A s \in Streams : file = "closed" => Len(written[s]) = encoded[s]

InOrder == Counted /\ NotLost /\ DirectIsAlone /\ NotWritten /\ Sorted /\ Complete

IInv == TypeOK /\ Life /\ EventsInv /\ Opened /\ FrameCount /\ InOrder

\* TypeOK, by what the actions change together.
MainTypes ==
  /\ state \in {"inactive", "recording"}
  /\ session \in 0 .. MaxSessions
  /\ {mrs, objs, onstop} \subseteq BOOLEAN
  /\ main \in {"idle", "delete", "join"}
SinkTypes ==
  /\ attached \subseteq Streams
  /\ callback \in {"none", "held", "removing", "removed"}
  /\ pause \in [Streams -> {"Active", "Pause", "Paused", "Resume"}]
  /\ frames \in [Streams -> 0 .. MaxFrames]
  /\ pc \in [Streams -> Places]
SetupTypes ==
  /\ have \in [Streams -> BOOLEAN]
  /\ {fileReady, videoStart} \subseteq BOOLEAN
  /\ worker \in {"null", "running", "stopped"}
  /\ lock \in Streams \cup {"free", "main"}
  /\ file \in {"none", "open", "closed"}
CountTypes ==
  /\ held \in [Streams -> 0 .. MaxFrames]
  /\ encoded \in [Streams -> 0 .. MaxFrames]

EventNames == {"Start", "Stop", "Data", "Pause", "Resume"}
Events     == Seq(EventNames \X (1 .. MaxSessions))
QueueTypes   == queue \in Seq(Tasks)
WrittenTypes == written \in [Streams -> Seq(1 .. MaxFrames)]

LEMMA Types ==
  TypeOK <=> /\ MainTypes /\ SinkTypes /\ SetupTypes /\ CountTypes
             /\ events \in Events /\ QueueTypes /\ WrittenTypes
BY DEF TypeOK, MainTypes, SinkTypes, SetupTypes, CountTypes, QueueTypes, WrittenTypes, Events, EventNames

-----------------------------------------------------------------------------
(***************************************************************************)
(* Facts several actions need.                                             *)
(***************************************************************************)
\* A thread inside a method of the sink, a task, a stop or a native object that
\* can be called means that there is a sink.
LEMMA Busy ==
  ASSUME IInv,
         \/ mrs \/ main # "idle" \/ queue # <<>>
         \/ \E s \in Streams : pc[s] \notin {"idle", "format"}
  PROVE  /\ session \in 1 .. MaxSessions /\ file # "closed" /\ state = "recording"
         /\ \A i \in DOMAIN events : events[i][1] # "Stop"
<1>1. ~NoSink
  BY DEF IInv, Life, Quiet
<1>2. session \in 1 .. MaxSessions
  BY <1>1, BoundAssumption DEF NoSink, IInv, TypeOK
<1> QED
  BY <1>1, <1>2 DEF NoSink, IInv, TypeOK, EventsInv

\* An event that is not Stop, posted by whoever works for the sink.
LEMMA Posted ==
  ASSUME IInv, session \in 1 .. MaxSessions, file # "closed", state = "recording",
         session' = session, file' \in {"none", "open"}, state' = state,
         NEW name \in EventNames \ {"Stop"},
         Post(name) \/ UNCHANGED events
  PROVE  events' \in Events /\ EventsInv'
<1> DEFINE e == <<name, session>>
<1>1. events \in Events /\ e \in EventNames \X (1 .. MaxSessions) /\ e[1] # "Stop" /\ e[2] = session
  BY DEF IInv, TypeOK, Events, EventNames
<1> HIDE DEF e
<1>2. CASE events' = Append(events, e)
  <2>1. events' \in Events
    BY <1>1, <1>2 DEF Events
  <2>2. \A i \in DOMAIN events' :
          \/ i \in DOMAIN events /\ events'[i] = events[i]
          \/ events'[i] = e
    BY <1>1, <1>2 DEF Events
  <2>3. \A i \in DOMAIN events : events[i][1] # "Stop" /\ events[i][2] = session
    BY DEF IInv, EventsInv
  <2> QED
    BY <1>1, <2>1, <2>2, <2>3 DEF EventsInv
<1>3. CASE UNCHANGED events
  BY <1>1, <1>3 DEF IInv, EventsInv, NoSink
<1> QED
  BY <1>2, <1>3 DEF Post, e

\* What SendPacket does: the packet goes to the end of the queue of a running
\* worker, or its thread goes to write it and the queue is empty.
LEMMA Sent ==
  ASSUME IInv, NEW s \in Streams, NEW k \in Nat, SendPacket(s, k)
  PROVE  /\ encoded' = [encoded EXCEPT ![s] = @ + 1]
         /\ held' = [held EXCEPT ![s] = k]
         /\ \E place \in {"idle", "drain", "write"} :
              /\ pc' = [pc EXCEPT ![s] = place]
              /\ place = "drain" => k > 0
              /\ IF place = "write" THEN queue = <<>> /\ queue' = <<>>
                 ELSE worker = "running" /\ queue' = Append(queue, <<s, encoded[s] + 1>>)
<1>1. CASE worker = "running"
  <2>1. PICK place \in AfterPacket(s, k) : pc' = [pc EXCEPT ![s] = place]
    BY <1>1 DEF SendPacket
  <2>2. place \in {"idle", "drain"} /\ (place = "drain" => k > 0)
    BY DEF AfterPacket
  <2> QED
    BY <1>1, <2>1, <2>2 DEF SendPacket
<1>2. CASE worker # "running"
  BY <1>2 DEF SendPacket, IInv, Life
<1> QED
  BY <1>1, <1>2

LEMMA Appended ==
  ASSUME NEW S, NEW q \in Seq(S), NEW e \in S
  PROVE  /\ Append(q, e) \in Seq(S)
         /\ DOMAIN Append(q, e) = DOMAIN q \cup {Len(q) + 1}
         /\ Append(q, e)[Len(q) + 1] = e
         /\ \A i \in DOMAIN q : Append(q, e)[i] = q[i] /\ i < Len(q) + 1
  OBVIOUS

LEMMA SeqOfTasks ==
  ASSUME NEW q \in Seq(Tasks), NEW i \in DOMAIN q
  PROVE  q[i] \in Tasks /\ q[i][2] \in Nat /\ (q[i][1] \in Streams => q[i] \in Packets)
<1>1. q[i] \in Tasks
  OBVIOUS
<1>2. CASE q[i] \in Packets
  BY <1>2, BoundAssumption DEF Packets, Tasks
<1>3. CASE q[i] = <<"flush", 0>>
  BY <1>1, <1>3, StreamAssumption
<1> QED
  BY <1>1, <1>2, <1>3 DEF Tasks

\* A packet that is sent keeps the counts and the order of the packets.
LEMMA SentInOrder ==
  ASSUME IInv, NEW s \in Streams, NEW k \in Nat, SendPacket(s, k),
         pc[s] \in {"encode", "drain"}, NEW n, n = encoded[s] + 1, k + n <= frames[s],
         UNCHANGED <<written, file, worker, frames>>
  PROVE  /\ CountTypes' /\ QueueTypes' /\ FrameCount' /\ InOrder'
         /\ pc' \in [Streams -> Places] /\ \A t \in Streams \ {s} : pc'[t] = pc[t]
         /\ pc'[s] \in {"idle", "drain", "write"}
         /\ worker # "running" => queue' = <<>>
<1>1. PICK place \in {"idle", "drain", "write"} :
        /\ pc' = [pc EXCEPT ![s] = place]
        /\ place = "drain" => k > 0
        /\ IF place = "write" THEN queue = <<>> /\ queue' = <<>>
           ELSE worker = "running" /\ queue' = Append(queue, <<s, n>>)
  BY Sent
<1>2. encoded' = [encoded EXCEPT ![s] = n] /\ held' = [held EXCEPT ![s] = k]
  BY Sent
<1>3. /\ SinkTypes /\ CountTypes /\ QueueTypes /\ WrittenTypes /\ FrameCount
      /\ Counted /\ NotLost /\ DirectIsAlone /\ NotWritten /\ Sorted /\ Complete
  BY Types DEF IInv, InOrder
<1>4. MaxFrames \in Nat
  BY BoundAssumption
<1>5. /\ frames[s] \in 0 .. MaxFrames /\ encoded[s] \in Nat /\ n \in 1 .. MaxFrames
      /\ k \in 0 .. MaxFrames
  BY <1>3, <1>4 DEF SinkTypes, CountTypes
<1>6. /\ encoded'[s] = n /\ \A t \in Streams \ {s} : encoded'[t] = encoded[t]
      /\ held'[s] = k /\ \A t \in Streams \ {s} : held'[t] = held[t]
      /\ pc'[s] = place /\ \A t \in Streams \ {s} : pc'[t] = pc[t]
  BY <1>1, <1>2, <1>3 DEF SinkTypes, CountTypes
<1>7. CountTypes' /\ pc' \in [Streams -> Places]
  BY <1>1, <1>2, <1>3, <1>5 DEF SinkTypes, CountTypes, Places
<1>8. FrameCount'
  BY <1>1, <1>3, <1>5, <1>6 DEF FrameCount, Arriving, BeforeEncoder
<1>9. \A t \in Streams : Len(written[t]) \in Nat /\ encoded[t] \in Nat
  BY <1>3 DEF WrittenTypes, CountTypes
<1>10. file # "closed"
  BY Busy
<1>11. QueueTypes' /\ <<s, n>> \in Tasks
  <2>1. <<s, n>> \in Tasks
    BY <1>5 DEF Tasks, Packets
  <2>2. CASE place = "write"
    BY <1>1, <2>1, <2>2 DEF QueueTypes
  <2>3. queue \in Seq(Tasks)
    BY <1>3 DEF QueueTypes
  <2>4. Append(queue, <<s, n>>) \in Seq(Tasks)
    BY <2>1, <2>3, Appended
  <2>5. CASE place # "write"
    BY <1>1, <2>1, <2>4, <2>5 DEF QueueTypes
  <2> QED
    BY <2>1, <2>2, <2>5
<1>12. CASE place = "write"
  <2>1. queue = <<>> /\ queue' = <<>> /\ DOMAIN queue = {}
    BY <1>1, <1>12
  <2>2. Len(written[s]) = encoded[s]
    <3>1. \A m \in Len(written[s]) + 1 .. encoded[s] : FALSE
      BY <1>3, <2>1 DEF NotLost, Coming
    <3> QED
      BY <1>3, <1>9, <3>1 DEF Counted
  <2>3. Counted' /\ Sorted' /\ NotWritten'
    BY <1>3, <1>5, <1>6, <1>9, <2>1 DEF Counted, Sorted, NotWritten
  <2>4. NotLost'
    <3>1. \A t \in Streams \ {s} : \A m : Coming(t, m) => Coming(t, m)'
      BY <1>6, <2>1 DEF Coming
    <3>2. Coming(s, n)'
      BY <1>6, <1>12 DEF Coming
    <3> QED
      BY <1>3, <1>5, <1>6, <1>9, <2>2, <3>1, <3>2 DEF NotLost
  <2>5. DirectIsAlone'
    BY <1>3, <1>5, <1>6, <1>9, <2>1, <2>2 DEF DirectIsAlone
  <2> QED
    BY <1>1, <1>6, <1>7, <1>8, <1>10, <1>11, <1>12, <2>3, <2>4, <2>5 DEF InOrder, Complete
<1>13. CASE place # "write"
  <2> DEFINE q == Len(queue) + 1
  <2>1. /\ DOMAIN queue' = DOMAIN queue \cup {q} /\ q \in Int
        /\ queue'[q] = <<s, n>> /\ \A i \in DOMAIN queue : queue'[i] = queue[i] /\ i < q
        /\ DOMAIN queue \subseteq Int
    <3>1. queue \in Seq(Tasks) /\ <<s, n>> \in Tasks
      BY <1>3, <1>11 DEF QueueTypes
    <3>2. queue' = Append(queue, <<s, n>>)
      BY <1>1, <1>13
    <3> QED
      BY <3>1, <3>2, Appended
  <2> HIDE DEF q
  <2>2. <<s, n>>[1] = s /\ <<s, n>>[2] = n
    OBVIOUS
  <2>3. Counted'
    BY <1>3, <1>5, <1>6, <1>9 DEF Counted
  <2>4. NotWritten'
    <3>1. \A t \in Streams, i \in DOMAIN queue :
            queue[i][1] = t => Len(written[t]) < queue[i][2] /\ queue[i][2] <= encoded'[t]
      <4>1. \A i \in DOMAIN queue : queue[i][2] \in Nat
        BY <1>3, SeqOfTasks DEF QueueTypes
      <4> QED
        BY <1>3, <1>6, <1>9, <4>1 DEF NotWritten
    <3>2. Len(written[s]) < n /\ n <= encoded'[s]
      BY <1>3, <1>6, <1>9 DEF Counted
    <3> QED
      BY <2>1, <2>2, <3>1, <3>2 DEF NotWritten
  <2>5. Sorted'
    <3>1. \A i \in DOMAIN queue : queue[i][1] = s => queue[i][2] < n
      <4>1. \A i \in DOMAIN queue : queue[i][2] \in Nat
        BY <1>3, SeqOfTasks DEF QueueTypes
      <4> QED
        BY <1>3, <1>9, <4>1 DEF NotWritten
    <3> QED
      BY <1>3, <2>1, <2>2, <3>1 DEF Sorted
  <2>6. NotLost'
    <3>1. \A t \in Streams, m \in Nat : Coming(t, m) => Coming(t, m)'
      BY <1>6, <1>13, <2>1 DEF Coming
    <3>2. Coming(s, n)'
      BY <2>1 DEF Coming
    <3> QED
      BY <1>3, <1>5, <1>6, <1>9, <2>2, <3>1, <3>2 DEF NotLost
  <2>7. DirectIsAlone'
    BY <1>3, <1>6, <1>13, <2>1, <2>2 DEF DirectIsAlone
  <2> QED
    BY <1>1, <1>6, <1>7, <1>8, <1>10, <1>11, <1>13, <2>3, <2>4, <2>5, <2>6, <2>7 DEF InOrder, Complete
<1> QED
  BY <1>12, <1>13

-----------------------------------------------------------------------------
(***************************************************************************)
(* The packets, action by action.                                          *)
(***************************************************************************)
PacketsInv == CountTypes /\ QueueTypes /\ WrittenTypes /\ FrameCount /\ InOrder

\* Nothing happens to the packets while no thread begins or ends a write.
LEMMA PacketsKept ==
  ASSUME IInv, UNCHANGED <<held, encoded, written, queue>>,
         file' # "closed" \/ UNCHANGED file,
         \A s \in Streams : pc'[s] = "write" <=> pc[s] = "write",
         FrameCount'
  PROVE  PacketsInv'
<1>1. CountTypes /\ QueueTypes /\ WrittenTypes /\ InOrder
  BY Types DEF IInv
<1>2. CountTypes' /\ QueueTypes' /\ WrittenTypes'
  BY <1>1 DEF CountTypes, QueueTypes, WrittenTypes
<1>3. \A s \in Streams, n \in Nat : Coming(s, n) => Coming(s, n)'
  BY DEF Coming
<1>4. NotLost'
  <2>1. \A s \in Streams : Len(written[s]) \in Nat /\ encoded[s] \in Nat
    BY <1>1, BoundAssumption DEF CountTypes, WrittenTypes
  <2>2. \A s \in Streams : \A n \in Len(written[s]) + 1 .. encoded[s] : n \in Nat /\ Coming(s, n)
    BY <1>1, <2>1 DEF InOrder, NotLost
  <2> QED
    BY <1>3, <2>2 DEF NotLost
<1>5. Counted' /\ NotWritten' /\ Sorted' /\ DirectIsAlone' /\ Complete'
  BY <1>1 DEF InOrder, Counted, NotWritten, Sorted, DirectIsAlone, Complete
<1> QED
  BY <1>2, <1>4, <1>5 DEF PacketsInv, InOrder

LEMMA PacketsTyped ==
  ASSUME IInv, NEW s \in Streams
  PROVE  /\ Len(written[s]) \in Nat /\ written[s] \in Seq(1 .. MaxFrames)
         /\ encoded[s] \in 0 .. MaxFrames /\ held[s] \in 0 .. MaxFrames
         /\ frames[s] \in 0 .. MaxFrames /\ MaxFrames \in Nat
         /\ held[s] + encoded[s] <= frames[s]
         /\ queue \in Seq(Tasks)
BY Types, BoundAssumption DEF IInv, FrameCount, CountTypes, WrittenTypes, SinkTypes, QueueTypes

LEMMA StartPackets ==
  ASSUME IInv, Start
  PROVE  PacketsInv'
<1>1. /\ held' = [s \in Streams |-> 0] /\ encoded' = [s \in Streams |-> 0]
      /\ written' = [s \in Streams |-> <<>>] /\ queue' = <<>> /\ file' = "none"
      /\ frames' = [s \in Streams |-> 0]
      /\ pc' = [s \in Streams |-> IF s = "audio" THEN "format" ELSE "idle"]
  BY DEF Start, NewSink, NewRecorder
<1>2. MaxFrames \in Nat
  BY BoundAssumption
<1>3. CountTypes' /\ QueueTypes' /\ WrittenTypes'
  BY <1>1, <1>2 DEF CountTypes, QueueTypes, WrittenTypes
<1>4. FrameCount'
  BY <1>1 DEF FrameCount, Arriving, BeforeEncoder
<1>5. InOrder'
  BY <1>1 DEF InOrder, Counted, NotLost, NotWritten, Sorted, DirectIsAlone, Complete, IsCount
<1> QED
  BY <1>3, <1>4, <1>5 DEF PacketsInv

LEMMA RequestPackets ==
  ASSUME IInv, RequestData
  PROVE  PacketsInv'
<1> DEFINE e == <<"flush", 0>>
<1>1. UNCHANGED <<held, encoded, written, file, frames, pc>>
  BY DEF RequestData, sinkVars, packets
<1>2. FrameCount'
  BY <1>1 DEF IInv, FrameCount, Arriving
<1>3. CASE UNCHANGED queue
  BY <1>1, <1>2, <1>3, PacketsKept
<1>4. CASE queue' = Append(queue, e)
  <2>1. /\ queue \in Seq(Tasks) /\ e \in Tasks /\ e[1] \notin Streams
        /\ CountTypes /\ QueueTypes /\ WrittenTypes /\ InOrder
    BY Types, StreamAssumption DEF IInv, QueueTypes, Tasks
  <2> HIDE DEF e
  <2>2. /\ queue' \in Seq(Tasks)
        /\ \A i \in DOMAIN queue : i \in DOMAIN queue' /\ queue'[i] = queue[i]
        /\ \A i \in DOMAIN queue' :
             queue'[i][1] \notin Streams \/ (i \in DOMAIN queue /\ queue'[i] = queue[i])
    BY <1>4, <2>1, Appended
  <2>3. CountTypes' /\ QueueTypes' /\ WrittenTypes'
    BY <1>1, <2>1, <2>2 DEF CountTypes, QueueTypes, WrittenTypes
  <2>4. Counted' /\ Complete'
    BY <1>1, <2>1 DEF InOrder, Counted, Complete
  <2>5. NotLost'
    <3>1. \A s \in Streams : \A n : Coming(s, n) => Coming(s, n)'
      BY <1>1, <2>2 DEF Coming
    <3> QED
      BY <1>1, <2>1, <3>1 DEF InOrder, NotLost
  <2>6. NotWritten' /\ Sorted' /\ DirectIsAlone'
    BY <1>1, <2>1, <2>2 DEF InOrder, NotWritten, Sorted, DirectIsAlone
  <2> QED
    BY <1>2, <2>3, <2>4, <2>5, <2>6 DEF PacketsInv, InOrder
<1> QED
  BY <1>3, <1>4 DEF RequestData

\* The worker is idle and no thread is inside the sink: each encoder adds the
\* frames it holds to a container that has all its packets.
LEMMA StopPackets ==
  ASSUME IInv, StopFinishes
  PROVE  PacketsInv' /\ DOMAIN queue = {} /\ queue' = <<>>
<1>1. /\ main = "join" /\ queue' = queue /\ queue = <<>>
      /\ \A s \in Streams : pc[s] \in {"idle", "format"}
      /\ UNCHANGED <<pc, frames>>
  BY DEF StopFinishes, IInv, Life, sinkVars
<1>2. DOMAIN queue = {} /\ QueueTypes' /\ NotWritten' /\ Sorted' /\ DirectIsAlone'
  BY <1>1 DEF QueueTypes, NotWritten, Sorted, DirectIsAlone
<1>3. ASSUME NEW s \in Streams
      PROVE  /\ encoded'[s] = encoded[s] + FlushedBy(s)
             /\ written'[s] = written[s] \o [i \in 1 .. FlushedBy(s) |-> encoded[s] + i]
             /\ held'[s] = held[s] - FlushedBy(s)
             /\ FlushedBy(s) \in 0 .. held[s]
             /\ Len(written[s]) = encoded[s] /\ IsCount(written[s])
  <2>1. FlushedBy(s) \in 0 .. held[s]
    BY PacketsTyped DEF FlushedBy
  <2>2. \A n \in Len(written[s]) + 1 .. encoded[s] : FALSE
    BY <1>1, <1>2 DEF IInv, InOrder, NotLost, Coming
  <2>3. Len(written[s]) = encoded[s] /\ IsCount(written[s])
    BY <2>2, PacketsTyped DEF IInv, InOrder, Counted
  <2> QED
    BY <2>1, <2>3 DEF StopFinishes
<1>4. ASSUME NEW s \in Streams
      PROVE  /\ held'[s] \in 0 .. MaxFrames /\ encoded'[s] \in 0 .. MaxFrames
             /\ held'[s] + encoded'[s] <= frames[s]
             /\ written'[s] \in Seq(1 .. MaxFrames)
             /\ Len(written'[s]) = encoded'[s] /\ IsCount(written'[s])
  <2> DEFINE k == FlushedBy(s)
             a == written[s]
  <2> DEFINE e == encoded[s]
             h == held[s]
  <2>1. /\ k \in 0 .. h /\ e \in Nat /\ h \in Nat /\ frames[s] \in Nat /\ MaxFrames \in Nat
        /\ h + e <= frames[s] /\ frames[s] <= MaxFrames
    <3>1. k \in 0 .. h
      BY <1>3
    <3> HIDE DEF k
    <3> QED
      BY <3>1, PacketsTyped
  <2>2. encoded'[s] = e + k /\ held'[s] = h - k
    BY <1>3
  <2>3. a \in Seq(1 .. MaxFrames) /\ Len(a) = e /\ \A i \in 1 .. e : a[i] = i
    BY <1>3, PacketsTyped DEF IsCount
  <2> HIDE DEF k, a, e, h
  <2>4. /\ held'[s] \in 0 .. MaxFrames /\ encoded'[s] \in 0 .. MaxFrames
        /\ held'[s] + encoded'[s] <= frames[s]
    BY <2>1, <2>2
  <2> DEFINE b2 == [i \in 1 .. k |-> e + i]
  <2>5. b2 \in Seq(1 .. MaxFrames) /\ Len(b2) = k /\ \A i \in 1 .. k : b2[i] = e + i
    <3>1. \A i \in 1 .. k : e + i \in 1 .. MaxFrames
      BY <2>1
    <3> QED
      BY <2>1, <3>1
  <2> HIDE DEF b2
  <2>6. /\ a \o b2 \in Seq(1 .. MaxFrames) /\ Len(a \o b2) = e + k
        /\ \A i \in 1 .. e + k : (a \o b2)[i] = i
    <3>1. /\ a \o b2 \in Seq(1 .. MaxFrames) /\ Len(a \o b2) = e + k
          /\ \A i \in 1 .. e + k : (a \o b2)[i] = IF i <= e THEN a[i] ELSE b2[i - e]
      BY <2>1, <2>3, <2>5, ConcatProperties
    <3> QED
      BY <2>1, <2>3, <2>5, <3>1
  <2>7. written'[s] = a \o b2
    BY <1>3 DEF a, b2, k, e
  <2> QED
    BY <2>1, <2>2, <2>4, <2>6, <2>7 DEF IsCount
<1>5. CountTypes' /\ WrittenTypes'
  BY <1>4 DEF StopFinishes, CountTypes, WrittenTypes
<1>6. FrameCount'
  BY <1>1, <1>4 DEF FrameCount, Arriving, BeforeEncoder
<1>7. Counted' /\ NotLost' /\ Complete'
  <2>1. \A s \in Streams : encoded'[s] \in Nat /\ Len(written'[s]) = encoded'[s] /\ IsCount(written'[s])
    BY <1>4, BoundAssumption
  <2> QED
    BY <2>1 DEF Counted, NotLost, Complete
<1> QED
  BY <1>1, <1>2, <1>5, <1>6, <1>7 DEF PacketsInv, InOrder

\* The oldest packet of the queue is the one its container lacks: an earlier one
\* would stand behind it.
LEMMA RunPackets ==
  ASSUME IInv, RunTask
  PROVE  PacketsInv'
<1> DEFINE task == Head(queue)
<1>1. /\ queue # <<>> /\ queue' = Tail(queue) /\ written' = AfterTask(task)
      /\ UNCHANGED <<held, encoded, file, frames, pc>>
  BY DEF RunTask, sinkVars
<1>2. /\ queue \in Seq(Tasks) /\ CountTypes /\ WrittenTypes /\ FrameCount
      /\ Counted /\ NotLost /\ DirectIsAlone /\ NotWritten /\ Sorted /\ Complete
  BY Types DEF IInv, InOrder, QueueTypes
<1>3. file # "closed"
  BY <1>1, Busy
<1>4. /\ queue' \in Seq(Tasks) /\ task = queue[1] /\ 1 \in DOMAIN queue /\ task \in Tasks
      /\ DOMAIN queue \subseteq Nat /\ DOMAIN queue' \subseteq Nat
      /\ \A i \in DOMAIN queue' : i + 1 \in DOMAIN queue /\ queue'[i] = queue[i + 1]
      /\ \A i \in DOMAIN queue : i = 1 \/ (i > 1 /\ i - 1 \in DOMAIN queue' /\ queue'[i - 1] = queue[i])
  BY <1>1, <1>2
<1> HIDE DEF task
<1>5. \A t \in Streams : Len(written[t]) \in Nat /\ encoded[t] \in Nat
  BY PacketsTyped
<1>6. \A i \in DOMAIN queue : queue[i][2] \in Nat
  BY <1>2, SeqOfTasks
<1>7. FrameCount' /\ CountTypes' /\ QueueTypes' /\ Sorted' /\ Complete'
  <2>1. FrameCount'
    BY <1>1, <1>2 DEF FrameCount, Arriving
  <2>2. CountTypes' /\ QueueTypes' /\ Complete'
    BY <1>1, <1>2, <1>3, <1>4 DEF CountTypes, QueueTypes, Complete
  <2>3. ASSUME NEW s \in Streams, NEW i \in DOMAIN queue', NEW j \in DOMAIN queue', i < j,
               queue'[i][1] = s, queue'[j][1] = s
        PROVE  queue'[i][2] < queue'[j][2]
    <3>1. /\ i + 1 \in DOMAIN queue /\ j + 1 \in DOMAIN queue /\ i + 1 < j + 1
          /\ queue'[i] = queue[i + 1] /\ queue'[j] = queue[j + 1]
      BY <1>4, <2>3
    <3> QED
      BY <1>2, <2>3, <3>1 DEF Sorted
  <2> QED
    BY <2>1, <2>2, <2>3 DEF Sorted
<1>8. ASSUME NEW s \in Streams, task[1] # s
      PROVE  \A n : Coming(s, n) => Coming(s, n)'
  <2>1. ASSUME NEW n, NEW i \in DOMAIN queue, queue[i] = <<s, n>>
        PROVE  Coming(s, n)'
    BY <1>4, <1>8, <2>1 DEF Coming
  <2> QED
    BY <1>1, <2>1 DEF Coming
<1>9. CASE task[1] \notin Streams
  <2>1. written' = written
    <3>1. task = <<"flush", 0>>
      BY <1>4, <1>9 DEF Tasks, Packets
    <3> QED
      BY <1>1, <3>1 DEF AfterTask
  <2>2. WrittenTypes' /\ Counted' /\ NotWritten' /\ DirectIsAlone'
    BY <1>1, <1>2, <1>4, <2>1 DEF WrittenTypes, Counted, NotWritten, DirectIsAlone
  <2>3. NotLost'
    BY <1>1, <1>2, <1>8, <1>9, <2>1 DEF NotLost
  <2> QED
    BY <1>7, <2>2, <2>3 DEF PacketsInv, InOrder
<1>10. ASSUME NEW s \in Streams, task[1] = s
       PROVE  PacketsInv'
  <2>1. task \in Packets /\ s # "flush"
    BY <1>2, <1>4, <1>10, SeqOfTasks, StreamAssumption
  <2>2. PICK n \in 1 .. MaxFrames : task = <<s, n>>
    BY <1>10, <2>1 DEF Packets
  <2>3. n \in Nat /\ task[2] = n /\ queue[1][1] = s /\ queue[1][2] = n
    BY <1>4, <2>2, BoundAssumption
  <2>4. n = Len(written[s]) + 1
    <3>1. Len(written[s]) < n /\ n <= encoded[s]
      BY <1>2, <1>4, <2>3 DEF NotWritten
    <3>2. SUFFICES ASSUME Len(written[s]) + 1 < n PROVE FALSE
      BY <1>5, <2>3, <3>1
    <3>3. pc[s] # "write"
      BY <1>2, <1>4, <1>10 DEF DirectIsAlone
    <3>4. PICK i \in DOMAIN queue : queue[i] = <<s, Len(written[s]) + 1>>
      BY <1>2, <1>5, <2>3, <3>1, <3>2, <3>3 DEF NotLost, Coming
    <3>5. queue[i][1] = s /\ queue[i][2] = Len(written[s]) + 1 /\ i # 1
      BY <1>5, <2>3, <3>2, <3>4
    <3>6. i > 1
      BY <1>4, <3>5
    <3>7. n < Len(written[s]) + 1
      BY <1>2, <1>4, <2>3, <3>5, <3>6 DEF Sorted
    <3> QED
      BY <1>5, <2>3, <3>2, <3>7
  <2>5. written' = [written EXCEPT ![s] = Append(@, n)]
    BY <1>1, <2>1, <2>2 DEF AfterTask
  <2>6. /\ written'[s] = Append(written[s], n) /\ written[s] \in Seq(1 .. MaxFrames)
        /\ \A t \in Streams \ {s} : written'[t] = written[t]
    BY <1>2, <2>5 DEF WrittenTypes
  <2>7. /\ Append(written[s], n) \in Seq(1 .. MaxFrames)
        /\ Len(Append(written[s], n)) = n
        /\ IsCount(Append(written[s], n))
    <3>1. IsCount(written[s])
      BY <1>2 DEF Counted
    <3> QED
      BY <2>2, <2>4, <2>6, <3>1 DEF IsCount
  <2>8. WrittenTypes'
    BY <1>2, <2>5, <2>6, <2>7 DEF WrittenTypes
  <2>9. Counted'
    <3>1. n <= encoded[s]
      BY <1>2, <1>4, <2>3 DEF NotWritten
    <3> QED
      BY <1>1, <1>2, <2>6, <2>7, <3>1 DEF Counted
  <2>10. NotWritten'
    <3>1. ASSUME NEW i \in DOMAIN queue', queue'[i][1] = s
          PROVE  n < queue'[i][2] /\ queue'[i][2] <= encoded[s]
      <4>1. i + 1 \in DOMAIN queue /\ 1 < i + 1 /\ queue'[i] = queue[i + 1]
        BY <1>4
      <4> QED
        BY <1>2, <1>4, <2>3, <3>1, <4>1 DEF Sorted, NotWritten
    <3>2. ASSUME NEW t \in Streams \ {s}, NEW i \in DOMAIN queue', queue'[i][1] = t
          PROVE  Len(written[t]) < queue'[i][2] /\ queue'[i][2] <= encoded[t]
      BY <1>2, <1>4, <3>2 DEF NotWritten
    <3> QED
      BY <1>1, <2>6, <2>7, <3>1, <3>2 DEF NotWritten
  <2>11. DirectIsAlone'
    <3>1. pc[s] # "write"
      BY <1>2, <1>4, <1>10 DEF DirectIsAlone
    <3> QED
      BY <1>1, <1>2, <1>4, <2>6, <3>1 DEF DirectIsAlone
  <2>12. NotLost'
    <3>1. ASSUME NEW t \in Streams \ {s}, NEW m \in Len(written'[t]) + 1 .. encoded'[t]
          PROVE  Coming(t, m)'
      BY <1>1, <1>2, <1>8, <1>10, <2>6, <3>1 DEF NotLost
    <3>2. ASSUME NEW m \in n + 1 .. encoded[s]
          PROVE  Coming(s, m)'
      <4>1. Coming(s, m)
        BY <1>2, <1>5, <2>3, <2>4 DEF NotLost
      <4>2. ASSUME NEW i \in DOMAIN queue, queue[i] = <<s, m>>
            PROVE  Coming(s, m)'
        <5>1. m # n
          BY <1>5, <2>3
        <5>2. i # 1
          BY <2>3, <4>2, <5>1
        <5> QED
          BY <1>4, <4>2, <5>2 DEF Coming
      <4> QED
        BY <1>1, <4>1, <4>2 DEF Coming
    <3> QED
      BY <1>1, <2>6, <2>7, <3>1, <3>2 DEF NotLost
  <2> QED
    BY <1>7, <2>8, <2>9, <2>10, <2>11, <2>12 DEF PacketsInv, InOrder
<1> QED
  BY <1>9, <1>10

\* The packet a thread writes itself is the only one on its way, and the next.
LEMMA DirectPackets ==
  ASSUME IInv, NEW s \in Streams, WriteDirectly(s)
  PROVE  PacketsInv'
<1>1. /\ pc[s] = "write" /\ written' = [written EXCEPT ![s] = Append(@, encoded[s])]
      /\ UNCHANGED <<held, encoded, file, frames, queue>>
  BY DEF WriteDirectly
<1>2. PICK place \in {"idle", "drain"} :
        pc' = [pc EXCEPT ![s] = place] /\ (place = "drain" => held[s] > 0)
  BY DEF WriteDirectly, AfterPacket
<1>3. /\ CountTypes /\ QueueTypes /\ WrittenTypes /\ FrameCount /\ SinkTypes
      /\ Counted /\ NotLost /\ DirectIsAlone /\ NotWritten /\ Sorted /\ Complete
  BY Types DEF IInv, InOrder
<1>4. file # "closed"
  BY <1>1, Busy
<1>5. /\ pc'[s] = place /\ \A t \in Streams \ {s} : pc'[t] = pc[t]
      /\ written'[s] = Append(written[s], encoded[s])
      /\ \A t \in Streams \ {s} : written'[t] = written[t]
  BY <1>1, <1>2, <1>3 DEF SinkTypes, WrittenTypes
<1>6. /\ Len(written[s]) \in Nat /\ written[s] \in Seq(1 .. MaxFrames)
      /\ encoded[s] \in 0 .. MaxFrames /\ MaxFrames \in Nat
  BY PacketsTyped
<1>7. Len(written[s]) + 1 = encoded[s] /\ \A i \in DOMAIN queue : queue[i][1] # s
  <2>1. Len(written[s]) < encoded[s] /\ \A i \in DOMAIN queue : queue[i][1] # s
    BY <1>1, <1>3 DEF DirectIsAlone
  <2>2. \A i \in DOMAIN queue : queue[i] # <<s, Len(written[s]) + 1>>
    BY <2>1
  <2> QED
    BY <1>3, <1>6, <2>1, <2>2 DEF NotLost, Coming
<1>8. /\ Append(written[s], encoded[s]) \in Seq(1 .. MaxFrames)
      /\ Len(Append(written[s], encoded[s])) = encoded[s]
      /\ IsCount(Append(written[s], encoded[s]))
  <2>1. IsCount(written[s])
    BY <1>3 DEF Counted
  <2>2. encoded[s] \in 1 .. MaxFrames
    BY <1>6, <1>7
  <2> QED
    BY <1>6, <1>7, <2>1, <2>2 DEF IsCount
<1>9. CountTypes' /\ QueueTypes' /\ WrittenTypes'
  BY <1>1, <1>3, <1>6, <1>8 DEF CountTypes, QueueTypes, WrittenTypes
<1>10. FrameCount'
  BY <1>1, <1>2, <1>3, <1>5 DEF FrameCount, Arriving, BeforeEncoder
<1>11. Counted' /\ Sorted' /\ Complete'
  BY <1>1, <1>3, <1>4, <1>5, <1>6, <1>8 DEF Counted, Sorted, Complete
<1>12. NotWritten' /\ DirectIsAlone'
  BY <1>1, <1>3, <1>5, <1>7 DEF NotWritten, DirectIsAlone
<1>13. NotLost'
  <2>1. \A t \in Streams \ {s} : \A n : Coming(t, n) => Coming(t, n)'
    BY <1>1, <1>5 DEF Coming
  <2>2. \A n \in Len(written'[s]) + 1 .. encoded'[s] : FALSE
    BY <1>1, <1>5, <1>6, <1>8
  <2> QED
    BY <1>1, <1>3, <1>5, <2>1, <2>2 DEF NotLost
<1> QED
  BY <1>9, <1>10, <1>11, <1>12, <1>13 DEF PacketsInv, InOrder

\* A frame is dropped, kept, or becomes a packet.
LEMMA EncodePackets ==
  ASSUME IInv, NEW s \in Streams, EncodeFrame(s) \/ DrainFrame(s)
  PROVE  PacketsInv' /\ (worker # "running" => queue' = <<>>)
         /\ pc' \in [Streams -> Places] /\ \A t \in Streams \ {s} : pc'[t] = pc[t]
<1>1. /\ pc[s] \in {"encode", "drain"} /\ UNCHANGED <<written, file, worker, frames>>
  BY DEF EncodeFrame, DrainFrame, setup
<1>2. /\ CountTypes /\ QueueTypes /\ WrittenTypes /\ FrameCount /\ SinkTypes /\ Life
  BY Types DEF IInv
<1>3. /\ encoded[s] \in 0 .. MaxFrames /\ held[s] \in 0 .. MaxFrames /\ MaxFrames \in Nat
      /\ frames[s] \in 0 .. MaxFrames
  BY PacketsTyped
<1>4. ASSUME NEW k \in Nat, SendPacket(s, k), k + (encoded[s] + 1) <= frames[s]
      PROVE  PacketsInv' /\ (worker # "running" => queue' = <<>>)
             /\ pc' \in [Streams -> Places] /\ \A t \in Streams \ {s} : pc'[t] = pc[t]
  <2>1. WrittenTypes'
    BY <1>1, <1>2 DEF WrittenTypes
  <2> QED
    BY <1>1, <1>4, <2>1, SentInOrder DEF PacketsInv
<1>5. CASE EncodeFrame(s)
  <2>1. pc[s] = "encode" /\ held[s] + encoded[s] < frames[s]
    BY <1>2, <1>5 DEF EncodeFrame, FrameCount, Arriving, BeforeEncoder
  <2>2. CASE SendPacket(s, held[s])
    BY <1>3, <1>4, <2>1, <2>2
  <2>3. CASE ~SendPacket(s, held[s])
    <3>1. /\ pc' = [pc EXCEPT ![s] = "idle"] /\ UNCHANGED <<encoded, queue>>
          /\ held' = [held EXCEPT ![s] = @ + 1] \/ UNCHANGED held
      BY <1>5, <2>3 DEF EncodeFrame, KeepFrame
    <3>2. /\ pc' \in [Streams -> Places] /\ pc'[s] = "idle"
          /\ \A t \in Streams \ {s} : pc'[t] = pc[t] /\ held'[t] = held[t]
          /\ held'[s] \in {held[s], held[s] + 1}
      BY <1>2, <3>1 DEF SinkTypes, CountTypes, Places
    <3>3. FrameCount'
      BY <1>1, <1>2, <1>3, <2>1, <3>1, <3>2 DEF FrameCount, Arriving, BeforeEncoder
    <3>4. CountTypes' /\ QueueTypes' /\ WrittenTypes'
      <4>1. held[s] + 1 \in 0 .. MaxFrames
        BY <1>3, <2>1
      <4> QED
        BY <1>1, <1>2, <3>1, <4>1 DEF CountTypes, QueueTypes, WrittenTypes
    <3>5. InOrder'
      <4>1. /\ Counted /\ NotLost /\ DirectIsAlone /\ NotWritten /\ Sorted /\ Complete
        BY DEF IInv, InOrder
      <4>2. \A t \in Streams : \A n : Coming(t, n) => Coming(t, n)'
        BY <2>1, <3>1, <3>2 DEF Coming
      <4>3. NotLost'
        BY <1>1, <3>1, <4>1, <4>2 DEF NotLost
      <4>4. Counted' /\ DirectIsAlone' /\ NotWritten' /\ Sorted' /\ Complete'
        BY <1>1, <3>1, <3>2, <4>1 DEF Counted, DirectIsAlone, NotWritten, Sorted, Complete
      <4> QED
        BY <4>3, <4>4 DEF InOrder
    <3> QED
      BY <1>2, <3>1, <3>2, <3>3, <3>4, <3>5 DEF PacketsInv, Life
  <2> QED
    BY <2>2, <2>3
<1>6. CASE DrainFrame(s)
  <2>1. held[s] > 0 /\ held[s] + encoded[s] <= frames[s] /\ SendPacket(s, held[s] - 1)
    BY <1>2, <1>6 DEF DrainFrame, FrameCount
  <2>2. held[s] - 1 \in Nat /\ held[s] - 1 + (encoded[s] + 1) <= frames[s]
    BY <1>3, <2>1
  <2> QED
    BY <1>4, <2>1, <2>2
<1> QED
  BY <1>5, <1>6

LEMMA NextPackets ==
  ASSUME IInv, Next
  PROVE  PacketsInv'
<1> USE DEF sinkVars, recVars, packets, setup, links, FrameCount, Arriving, BeforeEncoder
<1>1. FrameCount /\ SinkTypes
  BY Types DEF IInv
<1>2. ASSUME Pause \/ Resume
      PROVE  PacketsInv'
  BY <1>1, <1>2, PacketsKept DEF Pause, Resume
<1>3. ASSUME Stop \/ RemoveVideoCallback
      PROVE  PacketsInv'
  BY <1>1, <1>3, PacketsKept DEF Stop, RemoveVideoCallback
<1>4. ASSUME ReleaseVideoCallback \/ StopTakesLock \/ DeliverEvent \/ OnstopReturns
      PROVE  PacketsInv'
  BY <1>1, <1>4, PacketsKept DEF ReleaseVideoCallback, StopTakesLock, DeliverEvent, OnstopReturns
<1>5. ASSUME VideoFrame \/ AudioData
      PROVE  PacketsInv'
  <2>1. PICK t \in Streams, place \in {"init", "check"} :
          /\ frames' = [frames EXCEPT ![t] = @ + 1] /\ pc' = [pc EXCEPT ![t] = place]
          /\ pc[t] = "idle" /\ UNCHANGED recVars
    BY <1>5 DEF VideoFrame, AudioData, IInv, TypeOK
  <2>2. FrameCount'
    BY <1>1, <2>1, PacketsTyped DEF SinkTypes
  <2> QED
    BY <1>1, <2>1, <2>2, PacketsKept DEF SinkTypes
<1>6. ASSUME SetFormat
      PROVE  PacketsInv'
  <2>1. /\ pc["audio"] = "format" /\ pc' = [pc EXCEPT !["audio"] = "init"]
        /\ UNCHANGED <<frames, recVars>>
    BY <1>6 DEF SetFormat
  <2> QED
    BY <1>1, <2>1, PacketsKept DEF SinkTypes
<1>7. ASSUME NEW s \in Streams, InitEncoder(s) \/ WriteHeader(s) \/ StartWorker(s)
      PROVE  PacketsInv'
  <2>1. PICK place \in {"header", "thread", AfterInit(s)} :
          /\ pc' = [pc EXCEPT ![s] = place]
          /\ pc[s] \in {"init", "header", "thread"}
          /\ UNCHANGED <<held, encoded, written, queue, frames>>
          /\ file' # "closed" \/ UNCHANGED file
    BY <1>7 DEF InitEncoder, WriteHeader, StartWorker
  <2>2. FrameCount'
    BY <1>1, <2>1 DEF SinkTypes, AfterInit
  <2> QED
    BY <1>1, <2>1, <2>2, PacketsKept DEF SinkTypes, AfterInit
<1>8. ASSUME NEW s \in Streams, ReadPause(s) \/ WritePause(s) \/ Gate(s)
      PROVE  PacketsInv'
  <2>1. PICK place \in {"pausing", "resuming", "gate", "encode", "idle"} :
          /\ pc' = [pc EXCEPT ![s] = place]
          /\ pc[s] \in {"check", "pausing", "resuming", "gate"}
          /\ UNCHANGED <<held, encoded, written, queue, frames, file>>
    <3>1. CASE ReadPause(s)
      BY <3>1 DEF ReadPause
    <3>2. CASE WritePause(s)
      BY <3>2 DEF WritePause
    <3>3. CASE Gate(s)
      BY <3>3 DEF Gate
    <3> QED
      BY <1>8, <3>1, <3>2, <3>3
  <2> QED
    BY <1>1, <2>1, PacketsKept DEF SinkTypes
<1> QED
  BY <1>2, <1>3, <1>4, <1>5, <1>6, <1>7, <1>8, StartPackets, RequestPackets, StopPackets,
     RunPackets, DirectPackets, EncodePackets DEF Next, MainStep, TrackStep

-----------------------------------------------------------------------------
(***************************************************************************)
(* Types, the life of the sink, and the file.                              *)
(***************************************************************************)
LEMMA NextTypes ==
  ASSUME IInv, Next
  PROVE  MainTypes' /\ SinkTypes' /\ SetupTypes'
<1> USE StreamAssumption, BoundAssumption
    DEF mainVars, page, links, sinkVars, setup, packets, recVars
<1>1. MainTypes /\ SinkTypes /\ SetupTypes
  BY Types DEF IInv
<1>2. MainTypes'
  <2>1. CASE Start
    BY <1>1, <2>1 DEF MainTypes, Start, MayStart
  <2>2. CASE Pause \/ Resume \/ RequestData \/ Stop
    BY <1>1, <2>2 DEF MainTypes, Pause, Resume, RequestData, Stop
  <2>3. CASE MainStep
    BY <1>1, <2>3 DEF MainTypes, MainStep, ReleaseVideoCallback, StopTakesLock, StopFinishes,
       DeliverEvent, OnstopReturns
  <2>4. CASE RemoveVideoCallback \/ VideoFrame \/ AudioData \/ SetFormat \/ RunTask
    BY <1>1, <2>4 DEF MainTypes, RemoveVideoCallback, VideoFrame, AudioData, SetFormat, RunTask
  <2>5. ASSUME NEW s \in Streams, TrackStep(s)
        PROVE  MainTypes'
    BY <1>1, <2>5 DEF MainTypes, TrackStep, InitEncoder, WriteHeader, StartWorker, ReadPause,
       WritePause, Gate, EncodeFrame, DrainFrame, WriteDirectly
  <2> QED
    BY <2>1, <2>2, <2>3, <2>4, <2>5 DEF Next
<1>3. SinkTypes'
  <2>1. CASE Start
    BY <1>1, <2>1 DEF SinkTypes, Start, NewSink, Places
  <2>2. CASE Pause \/ Resume \/ RequestData \/ Stop
    BY <1>1, <2>2 DEF SinkTypes, Pause, Resume, RequestData, Stop, SinkStop
  <2>3. CASE MainStep
    BY <1>1, <2>3 DEF SinkTypes, MainStep, ReleaseVideoCallback, StopTakesLock, StopFinishes,
       DeliverEvent, OnstopReturns
  <2>4. CASE RemoveVideoCallback \/ RunTask
    BY <1>1, <2>4 DEF SinkTypes, RemoveVideoCallback, RunTask
  <2>5. CASE VideoFrame
    BY <1>1, <2>5 DEF SinkTypes, VideoFrame, Places
  <2>6. CASE AudioData
    BY <1>1, <2>6 DEF SinkTypes, AudioData, Places
  <2>7. CASE SetFormat
    BY <1>1, <2>7 DEF SinkTypes, SetFormat, Places
  <2>8. ASSUME NEW s \in Streams, InitEncoder(s) \/ WriteHeader(s) \/ StartWorker(s)
        PROVE  SinkTypes'
    BY <1>1, <2>8 DEF SinkTypes, InitEncoder, WriteHeader, StartWorker, AfterInit, Places
  <2>9. ASSUME NEW s \in Streams, ReadPause(s) \/ WritePause(s) \/ Gate(s)
        PROVE  SinkTypes'
    BY <1>1, <2>9 DEF SinkTypes, ReadPause, WritePause, Gate, Places
  <2>10. ASSUME NEW s \in Streams, EncodeFrame(s) \/ DrainFrame(s)
         PROVE  SinkTypes'
    BY <1>1, <2>10, EncodePackets DEF SinkTypes, EncodeFrame, DrainFrame
  <2>11. ASSUME NEW s \in Streams, WriteDirectly(s)
         PROVE  SinkTypes'
    BY <1>1, <2>11 DEF SinkTypes, WriteDirectly, AfterPacket, Places
  <2> QED
    BY <2>1, <2>2, <2>3, <2>4, <2>5, <2>6, <2>7, <2>8, <2>9, <2>10, <2>11 DEF Next, TrackStep
<1>4. SetupTypes'
  <2>1. CASE Start
    BY <1>1, <2>1 DEF SetupTypes, Start, NewSink, NewRecorder
  <2>2. CASE Pause \/ Resume \/ RequestData \/ Stop
    BY <1>1, <2>2 DEF SetupTypes, Pause, Resume, RequestData, Stop
  <2>3. CASE MainStep
    BY <1>1, <2>3 DEF SetupTypes, MainStep, ReleaseVideoCallback, StopTakesLock, StopFinishes,
       DeliverEvent, OnstopReturns
  <2>4. CASE RemoveVideoCallback \/ VideoFrame \/ AudioData \/ SetFormat \/ RunTask
    BY <1>1, <2>4 DEF SetupTypes, RemoveVideoCallback, VideoFrame, AudioData, SetFormat, RunTask
  <2>5. ASSUME NEW s \in Streams, InitEncoder(s) \/ WriteHeader(s) \/ StartWorker(s)
        PROVE  SetupTypes'
    BY <1>1, <2>5 DEF SetupTypes, InitEncoder, WriteHeader, StartWorker
  <2>6. ASSUME NEW s \in Streams, ReadPause(s) \/ WritePause(s) \/ Gate(s)
        PROVE  SetupTypes'
    BY <1>1, <2>6 DEF SetupTypes, ReadPause, WritePause, Gate
  <2>7. ASSUME NEW s \in Streams, EncodeFrame(s) \/ DrainFrame(s) \/ WriteDirectly(s)
        PROVE  SetupTypes'
    BY <1>1, <2>7 DEF SetupTypes, EncodeFrame, DrainFrame, WriteDirectly
  <2> QED
    BY <2>1, <2>2, <2>3, <2>4, <2>5, <2>6, <2>7 DEF Next, TrackStep
<1> QED
  BY <1>2, <1>3, <1>4

LEMMA NextLife ==
  ASSUME IInv, Next
  PROVE  Life'
<1> USE StreamAssumption
    DEF mainVars, page, links, sinkVars, setup, packets, recVars, Life, NoSink, Quiet
<1>1. Life /\ MainTypes /\ SinkTypes /\ SetupTypes
  BY Types DEF IInv
<1> USE DEF MainTypes, SinkTypes
<1>2. CASE Start
  BY <1>1, <1>2 DEF Start, MayStart, NewSink, NewRecorder
<1>3. CASE Pause \/ Resume
  BY <1>1, <1>3 DEF Pause, Resume, MayCall
<1>4. CASE RequestData
  BY <1>1, <1>4 DEF RequestData, MayCall
<1>5. CASE Stop
  BY <1>1, <1>5 DEF Stop, MayCall, NotInactive, SinkStop, AudioIsOut
<1>6. CASE ReleaseVideoCallback
  BY <1>1, <1>6 DEF ReleaseVideoCallback
<1>7. CASE StopTakesLock
  BY <1>1, <1>7 DEF StopTakesLock
<1>8. CASE StopFinishes
  BY <1>1, <1>8 DEF StopFinishes
<1>9. CASE DeliverEvent \/ OnstopReturns
  <2>1. UNCHANGED <<session, mrs, main, sinkVars, recVars>>
    BY <1>9 DEF DeliverEvent, OnstopReturns
  <2> QED
    BY <1>1, <2>1
<1>10. CASE RemoveVideoCallback
  BY <1>1, <1>10 DEF RemoveVideoCallback
<1>11. CASE VideoFrame
  BY <1>1, <1>11 DEF VideoFrame
<1>12. CASE AudioData
  BY <1>1, <1>12 DEF AudioData
<1>13. CASE SetFormat
  BY <1>1, <1>13 DEF SetFormat
<1>14. CASE RunTask
  BY <1>1, <1>14 DEF RunTask
<1>15. ASSUME NEW s \in Streams, InitEncoder(s)
       PROVE  Life'
  BY <1>1, <1>15 DEF InitEncoder, AfterInit
<1>16. ASSUME NEW s \in Streams, WriteHeader(s)
       PROVE  Life'
  BY <1>1, <1>16 DEF WriteHeader, AfterInit
<1>17. ASSUME NEW s \in Streams, StartWorker(s)
       PROVE  Life'
  BY <1>1, <1>17 DEF StartWorker, AfterInit
<1>18. ASSUME NEW s \in Streams, ReadPause(s)
       PROVE  Life'
  BY <1>1, <1>18 DEF ReadPause
<1>19. ASSUME NEW s \in Streams, WritePause(s)
       PROVE  Life'
  BY <1>1, <1>19 DEF WritePause
<1>20. ASSUME NEW s \in Streams, Gate(s)
       PROVE  Life'
  BY <1>1, <1>20 DEF Gate
<1>21. ASSUME NEW s \in Streams, EncodeFrame(s) \/ DrainFrame(s)
       PROVE  Life'
  <2>1. /\ worker # "running" => queue' = <<>>
        /\ \A t \in Streams \ {s} : pc'[t] = pc[t]
    BY <1>21, EncodePackets
  <2>2. /\ pc[s] \in {"encode", "drain"}
        /\ UNCHANGED <<mainVars, links, session, file, worker, lock>>
    BY <1>21 DEF EncodeFrame, DrainFrame
  <2> QED
    BY <1>1, <2>1, <2>2
<1>22. ASSUME NEW s \in Streams, WriteDirectly(s)
       PROVE  Life'
  <2>1. /\ pc[s] = "write" /\ \E place : pc' = [pc EXCEPT ![s] = place]
        /\ UNCHANGED <<mainVars, links, session, file, worker, lock, queue>>
    BY <1>22 DEF WriteDirectly
  <2> QED
    BY <1>1, <2>1
<1> QED
  BY <1>2, <1>3, <1>4, <1>5, <1>6, <1>7, <1>8, <1>9, <1>10, <1>11, <1>12, <1>13, <1>14, <1>15,
     <1>16, <1>17, <1>18, <1>19, <1>20, <1>21, <1>22 DEF Next, MainStep, TrackStep

LEMMA NextOpened ==
  ASSUME IInv, Next
  PROVE  Opened'
<1> USE DEF mainVars, page, links, sinkVars, setup, packets, recVars, Opened
<1>1. Opened /\ SinkTypes /\ CountTypes /\ Life
  BY Types DEF IInv
<1> USE DEF SinkTypes, CountTypes
<1>2. CASE Start
  BY <1>1, <1>2 DEF Start, NewSink, NewRecorder
<1>3. CASE Pause \/ Resume \/ RequestData \/ Stop
  BY <1>1, <1>3 DEF Pause, Resume, RequestData, Stop, SinkStop
<1>4. CASE ReleaseVideoCallback \/ StopTakesLock \/ DeliverEvent \/ OnstopReturns
  BY <1>1, <1>4 DEF ReleaseVideoCallback, StopTakesLock, DeliverEvent, OnstopReturns
<1>5. CASE StopFinishes
  BY <1>1, <1>5, PacketsTyped DEF StopFinishes, FlushedBy
<1>6. CASE RemoveVideoCallback
  BY <1>1, <1>6 DEF RemoveVideoCallback
<1>7. CASE VideoFrame
  BY <1>1, <1>7 DEF VideoFrame
<1>8. CASE AudioData
  BY <1>1, <1>8 DEF AudioData
<1>9. CASE SetFormat
  BY <1>1, <1>9 DEF SetFormat
<1>10. CASE RunTask
  BY <1>1, <1>10 DEF RunTask
<1>11. ASSUME NEW s \in Streams, InitEncoder(s) \/ WriteHeader(s) \/ StartWorker(s)
       PROVE  Opened'
  BY <1>1, <1>11 DEF InitEncoder, WriteHeader, StartWorker, AfterInit
<1>12. ASSUME NEW s \in Streams, ReadPause(s)
       PROVE  Opened'
  BY <1>1, <1>12 DEF ReadPause
<1>13. ASSUME NEW s \in Streams, WritePause(s)
       PROVE  Opened'
  BY <1>1, <1>13 DEF WritePause
<1>14. ASSUME NEW s \in Streams, Gate(s)
       PROVE  Opened'
  BY <1>1, <1>14 DEF Gate
<1>15. ASSUME NEW s \in Streams, EncodeFrame(s)
       PROVE  Opened'
  BY <1>1, <1>15 DEF EncodeFrame, KeepFrame, SendPacket, AfterPacket
<1>16. ASSUME NEW s \in Streams, DrainFrame(s)
       PROVE  Opened'
  BY <1>1, <1>16 DEF DrainFrame, SendPacket, AfterPacket
<1>17. ASSUME NEW s \in Streams, WriteDirectly(s)
       PROVE  Opened'
  BY <1>1, <1>17 DEF WriteDirectly, AfterPacket
<1> QED
  BY <1>2, <1>3, <1>4, <1>5, <1>6, <1>7, <1>8, <1>9, <1>10, <1>11, <1>12, <1>13, <1>14, <1>15,
     <1>16, <1>17 DEF Next, MainStep, TrackStep

\* Only StopFinishes posts Stop, and only once.
LEMMA StopEvents ==
  ASSUME IInv, StopFinishes
  PROVE  events' \in Events /\ EventsInv'
<1> DEFINE data == IF fileReady THEN <<<<"Data", session>>>> ELSE <<>>
           stop == <<"Stop", session>>
<1>1. /\ session \in 1 .. MaxSessions /\ state = "recording"
      /\ \A i \in DOMAIN events : events[i][1] # "Stop"
      /\ \A i \in DOMAIN events : events[i][2] = session
  BY Busy DEF StopFinishes, IInv, EventsInv
<1>2. /\ events' = events \o data \o <<stop>> /\ UNCHANGED <<session, state>> /\ file' = "closed"
  BY DEF StopFinishes
<1>3. events \in Events
  BY Types DEF IInv
<1>4. stop \in EventNames \X (1 .. MaxSessions) /\ stop[1] = "Stop" /\ stop[2] = session
  BY <1>1 DEF EventNames
<1>5. /\ data \in Events
      /\ \A i \in DOMAIN data : data[i][1] = "Data" /\ data[i][2] = session
  <2>1. <<"Data", session>> \in EventNames \X (1 .. MaxSessions)
    BY <1>1 DEF EventNames
  <2>2. CASE fileReady
    BY <2>1, <2>2 DEF Events
  <2>3. CASE ~fileReady
    BY <2>3 DEF Events
  <2> QED
    BY <2>2, <2>3
<1> DEFINE ed == events \o data
<1> HIDE DEF data, stop
<1>6. /\ ed \in Events
      /\ \A i \in DOMAIN ed : ed[i][1] # "Stop" /\ ed[i][2] = session
  <2>1. /\ ed \in Seq(EventNames \X (1 .. MaxSessions)) /\ Len(ed) = Len(events) + Len(data)
        /\ \A i \in 1 .. Len(events) + Len(data) :
             ed[i] = IF i <= Len(events) THEN events[i] ELSE data[i - Len(events)]
    BY <1>3, <1>5, ConcatProperties DEF Events
  <2>2. /\ Len(events) \in Nat /\ Len(data) \in Nat
        /\ DOMAIN events = 1 .. Len(events) /\ DOMAIN data = 1 .. Len(data)
        /\ DOMAIN ed = 1 .. Len(ed)
    BY <1>3, <1>5, <2>1 DEF Events
  <2>3. ASSUME NEW i \in DOMAIN ed
        PROVE  ed[i][1] # "Stop" /\ ed[i][2] = session
    <3>1. CASE i <= Len(events)
      <4>1. i \in DOMAIN events /\ ed[i] = events[i]
        BY <2>1, <2>2, <3>1
      <4> QED
        BY <1>1, <4>1
    <3>2. CASE i > Len(events)
      <4>1. i - Len(events) \in DOMAIN data /\ ed[i] = data[i - Len(events)]
        BY <2>1, <2>2, <3>2
      <4> QED
        BY <1>5, <4>1
    <3> QED
      BY <2>1, <2>2, <3>1, <3>2
  <2> QED
    BY <2>1, <2>3 DEF Events
<1>7. events' = Append(ed, stop)
  BY <1>2, <1>6 DEF Events
<1> HIDE DEF ed
<1>8. /\ events' \in Events /\ Len(events') = Len(ed) + 1
      /\ DOMAIN events' = DOMAIN ed \cup {Len(ed) + 1}
      /\ events'[Len(ed) + 1] = stop /\ \A i \in DOMAIN ed : events'[i] = ed[i]
  <2>1. ed \in Seq(EventNames \X (1 .. MaxSessions))
    BY <1>6 DEF Events
  <2> QED
    BY <1>4, <1>7, <2>1, Appended DEF Events
<1> QED
  BY <1>1, <1>2, <1>4, <1>6, <1>8 DEF EventsInv

LEMMA NextEvents ==
  ASSUME IInv, Next
  PROVE  events' \in Events /\ EventsInv'
<1> USE DEF mainVars, page, links, sinkVars, setup, packets, recVars
<1>1. EventsInv /\ Life /\ events \in Events
  BY Types DEF IInv
<1>2. ASSUME UNCHANGED <<events, state, session, file>>
      PROVE  events' \in Events /\ EventsInv'
  BY <1>1, <1>2 DEF EventsInv, NoSink
<1>3. ASSUME UNCHANGED <<state, session>>, UNCHANGED file \/ file' = "open",
             NEW name \in EventNames \ {"Stop"}, Post(name) \/ UNCHANGED events,
             \/ mrs \/ queue # <<>>
             \/ \E s \in Streams : pc[s] \notin {"idle", "format"}
      PROVE  events' \in Events /\ EventsInv'
  <2>1. /\ session \in 1 .. MaxSessions /\ file # "closed" /\ state = "recording"
    BY <1>3, Busy
  <2>2. file \in {"none", "open"}
    BY <2>1, Types DEF IInv, SetupTypes
  <2> QED
    BY <1>3, <2>1, <2>2, Posted
<1>4. {"Pause", "Resume", "Data", "Start"} \subseteq EventNames \ {"Stop"}
  BY DEF EventNames
<1>5. CASE Start
  <2>1. state = "inactive" /\ state' = "recording" /\ UNCHANGED events
    BY <1>5 DEF Start, MayStart
  <2>2. events = <<>>
    BY <1>1, <2>1 DEF EventsInv
  <2> QED
    BY <1>1, <2>1, <2>2 DEF EventsInv
<1>6. CASE Pause
  BY <1>3, <1>4, <1>6 DEF Pause, MayCall
<1>7. CASE Resume
  BY <1>3, <1>4, <1>7 DEF Resume, MayCall
<1>8. CASE RequestData
  BY <1>3, <1>4, <1>8 DEF RequestData, MayCall, MayPostData
<1>9. CASE Stop \/ ReleaseVideoCallback \/ StopTakesLock \/ OnstopReturns \/ RemoveVideoCallback
  BY <1>2, <1>9 DEF Stop, ReleaseVideoCallback, StopTakesLock, OnstopReturns, RemoveVideoCallback
<1>10. CASE VideoFrame \/ AudioData \/ SetFormat
  BY <1>2, <1>10 DEF VideoFrame, AudioData, SetFormat
<1>11. CASE DeliverEvent
  <2>1. /\ events # <<>> /\ events' = Tail(events) /\ UNCHANGED <<session, file>>
        /\ \/ Head(events)[1] = "Stop" /\ state' = "inactive"
           \/ UNCHANGED state
    BY <1>11 DEF DeliverEvent
  <2>2. /\ events' \in Events /\ Len(events') = Len(events) - 1 /\ Len(events) \in Nat
        /\ Head(events) = events[1] /\ 1 \in DOMAIN events
        /\ \A i \in DOMAIN events' : i \in Nat /\ i + 1 \in DOMAIN events /\ events'[i] = events[i + 1]
    BY <1>1, <2>1 DEF Events
  <2>3. ASSUME Head(events)[1] = "Stop"
        PROVE  file = "closed" /\ events' = <<>>
    <3>1. file = "closed" /\ Len(events) = 1
      BY <1>1, <2>2, <2>3 DEF EventsInv
    <3> QED
      BY <2>1, <2>2, <3>1 DEF Events
  <2>4. \A i \in DOMAIN events' : /\ events'[i][2] = session
                                  /\ events'[i][1] = "Stop" => i = Len(events') /\ file = "closed"
    BY <1>1, <2>2 DEF EventsInv
  <2> QED
    BY <1>1, <2>1, <2>2, <2>3, <2>4 DEF EventsInv, NoSink
<1>12. CASE RunTask
  BY <1>3, <1>4, <1>12 DEF RunTask, MayPostData
<1>13. ASSUME NEW s \in Streams, TrackStep(s)
       PROVE  events' \in Events /\ EventsInv'
  <2>1. CASE InitEncoder(s) \/ ReadPause(s) \/ WritePause(s)
    BY <1>2, <2>1 DEF InitEncoder, ReadPause, WritePause
  <2>2. CASE Gate(s) \/ EncodeFrame(s) \/ DrainFrame(s)
    BY <1>2, <2>2 DEF Gate, EncodeFrame, DrainFrame
  <2>3. CASE WriteHeader(s)
    BY <1>3, <1>4, <2>3 DEF WriteHeader, MayPostData
  <2>4. CASE StartWorker(s)
    BY <1>3, <1>4, <2>4 DEF StartWorker
  <2>5. CASE WriteDirectly(s)
    BY <1>3, <1>4, <2>5 DEF WriteDirectly, MayPostData
  <2> QED
    BY <1>13, <2>1, <2>2, <2>3, <2>4, <2>5 DEF TrackStep
<1> QED
  BY <1>5, <1>6, <1>7, <1>8, <1>9, <1>10, <1>11, <1>12, <1>13, StopEvents DEF Next, MainStep

-----------------------------------------------------------------------------
(***************************************************************************)
(* The theorems.                                                           *)
(***************************************************************************)
LEMMA InitIInv == Init => IInv
<1> SUFFICES ASSUME Init PROVE IInv
  OBVIOUS
<1> USE StreamAssumption, BoundAssumption DEF Init
<1>1. MainTypes /\ SinkTypes /\ SetupTypes /\ CountTypes
  <2>1. MainTypes
    <3>1. session \in 0 .. MaxSessions
      OBVIOUS
    <3>2. {mrs, objs, onstop} \subseteq BOOLEAN
      OBVIOUS
    <3> QED
      BY <3>1, <3>2 DEF MainTypes
  <2>2. SinkTypes
    BY DEF SinkTypes, Places
  <2>3. SetupTypes
    BY DEF SetupTypes
  <2>4. CountTypes
    BY DEF CountTypes
  <2> QED
    BY <2>1, <2>2, <2>3, <2>4
<1>2. events \in Events /\ QueueTypes /\ WrittenTypes
  BY DEF Events, QueueTypes, WrittenTypes
<1>3. Life
  BY DEF Life, NoSink, Quiet
<1>4. EventsInv
  BY DEF EventsInv, NoSink
<1>5. Opened
  BY DEF Opened
<1>6. FrameCount
  BY DEF FrameCount, Arriving, BeforeEncoder
<1>7. InOrder
  BY DEF InOrder, Counted, NotLost, DirectIsAlone, NotWritten, Sorted, Complete, IsCount
<1> QED
  BY <1>1, <1>2, <1>3, <1>4, <1>5, <1>6, <1>7, Types DEF IInv

LEMMA NextIInv == IInv /\ [Next]_vars => IInv'
<1> SUFFICES ASSUME IInv, [Next]_vars PROVE IInv'
  OBVIOUS
<1>1. CASE Next
  <2>1. PacketsInv' /\ MainTypes' /\ SinkTypes' /\ SetupTypes' /\ events' \in Events
    BY <1>1, NextPackets, NextTypes, NextEvents
  <2>2. TypeOK'
    BY <2>1 DEF PacketsInv, TypeOK, MainTypes, SinkTypes, SetupTypes, CountTypes, QueueTypes,
       WrittenTypes, Events, EventNames
  <2> QED
    BY <1>1, <2>1, <2>2, NextLife, NextOpened, NextEvents DEF IInv, PacketsInv
<1>2. CASE UNCHANGED vars
  <2> USE <1>2 DEF vars, mainVars, page, links, sinkVars, recVars, setup, packets
  <2>1. TypeOK'
    BY DEF IInv, TypeOK
  <2>2. Life' /\ EventsInv' /\ Opened'
    BY DEF IInv, Life, EventsInv, Opened, NoSink, Quiet
  <2>3. FrameCount' /\ InOrder'
    BY DEF IInv, FrameCount, Arriving, InOrder, Counted, NotLost, Coming, DirectIsAlone, NotWritten,
       Sorted, Complete
  <2> QED
    BY <2>1, <2>2, <2>3 DEF IInv
<1> QED
  BY <1>1, <1>2

LEMMA Invariance == Spec => []IInv
BY InitIInv, NextIInv, PTL DEF Spec

\* Every variable keeps its type: counters stay within the frames delivered, the
\* queue holds packets that were encoded.
THEOREM TypeCorrect == Spec => []TypeOK
<1>1. IInv => TypeOK
  BY DEF IInv
<1> QED
  BY <1>1, Invariance, PTL

\* For any number of frames and tracks the container has the packets of a track
\* in the order in which its encoder made them, whether the worker or the track's
\* own thread wrote them, and when it is closed it has them all.
THEOREM PacketsOrdered == Spec => []PacketsInOrder
<1>1. IInv => PacketsInOrder
  BY DEF IInv, InOrder, Counted, Complete, PacketsInOrder
<1> QED
  BY <1>1, Invariance, PTL

\* When the sink has been destroyed no track, thread or task can still use it.
THEOREM DestroyedQuiet == Spec => []DestroyedIsQuiet
<1>1. IInv => DestroyedIsQuiet
  BY DEF IInv, Life, NoSink, Quiet, DestroyedIsQuiet
<1> QED
  BY <1>1, Invariance, PTL

\* Whatever is called from onstop, every event that waits belongs to the recording
\* in progress, and Stop is its last.
THEOREM NothingStale == Spec => []NoStaleEvent
<1>1. IInv => NoStaleEvent
  BY DEF IInv, EventsInv, NoStaleEvent
<1> QED
  BY <1>1, Invariance, PTL

\* A packet only enters the container between its header and its trailer.
THEOREM WritesInside == Spec => WritesInsideFile
<1> DEFINE Longer(s) == Len(written'[s]) > Len(written[s])
           A == \A s \in Streams : Longer(s) => file = "open"
<1>1. ASSUME IInv, Next
      PROVE  A
  <2>1. SUFFICES ASSUME NEW s \in Streams, Longer(s)
                 PROVE  file = "open"
    OBVIOUS
  <2>2. /\ Opened /\ SetupTypes /\ Life /\ CountTypes /\ WrittenTypes
        /\ Len(written[s]) \in Nat
    BY <1>1, Types, PacketsTyped DEF IInv
  <2>3. CASE Start
    <3>1. written'[s] = <<>>
      BY <2>3 DEF Start, NewSink, NewRecorder
    <3> QED
      BY <2>1, <2>2, <3>1
  <2>4. CASE StopFinishes
    <3>1. fileReady
      <4>1. SUFFICES ASSUME ~fileReady PROVE FALSE
        OBVIOUS
      <4>2. FlushedBy(s) = 0
        BY <1>1, <2>2, <4>1, PacketsTyped DEF FlushedBy, Opened
      <4>3. written'[s] = written[s] \o [i \in 1 .. 0 |-> encoded[s] + i]
        BY <2>4, <4>2 DEF StopFinishes
      <4>4. Len(written'[s]) = Len(written[s])
        <5>1. [i \in 1 .. 0 |-> encoded[s] + i] = <<>>
          OBVIOUS
        <5> QED
          BY <1>1, <4>3, <5>1, PacketsTyped
      <4> QED
        BY <2>1, <2>2, <4>4
    <3>2. file # "closed"
      BY <1>1, <2>4, Busy DEF StopFinishes
    <3> QED
      BY <2>2, <3>1, <3>2 DEF Opened, SetupTypes
  <2>5. CASE RunTask
    <3>1. queue # <<>> /\ worker = "running"
      BY <2>5 DEF RunTask
    <3>2. file # "closed"
      BY <1>1, <3>1, Busy
    <3> QED
      BY <2>2, <3>1, <3>2 DEF Opened, SetupTypes
  <2>6. ASSUME NEW t \in Streams, WriteDirectly(t)
        PROVE  file = "open"
    <3>1. pc[t] = "write"
      BY <2>6 DEF WriteDirectly
    <3>2. file # "closed"
      BY <1>1, <3>1, Busy
    <3> QED
      BY <2>2, <3>1, <3>2 DEF Opened, SetupTypes
  <2>7. ASSUME UNCHANGED written
        PROVE  file = "open"
    BY <2>1, <2>2, <2>7
  <2>8. CASE Pause \/ Resume \/ RequestData \/ Stop
    BY <2>7, <2>8 DEF Pause, Resume, RequestData, Stop, recVars, packets
  <2>9. CASE ReleaseVideoCallback \/ StopTakesLock \/ DeliverEvent \/ OnstopReturns
    BY <2>7, <2>9 DEF ReleaseVideoCallback, StopTakesLock, DeliverEvent, OnstopReturns, recVars, packets
  <2>10. CASE RemoveVideoCallback \/ VideoFrame \/ AudioData \/ SetFormat
    BY <2>7, <2>10 DEF RemoveVideoCallback, VideoFrame, AudioData, SetFormat, recVars, packets
  <2>11. ASSUME NEW t \in Streams, InitEncoder(t) \/ WriteHeader(t) \/ StartWorker(t)
         PROVE  file = "open"
    BY <2>7, <2>11 DEF InitEncoder, WriteHeader, StartWorker, packets
  <2>12. ASSUME NEW t \in Streams, ReadPause(t) \/ WritePause(t) \/ Gate(t)
         PROVE  file = "open"
    BY <2>7, <2>12 DEF ReadPause, WritePause, Gate, recVars, packets
  <2>13. ASSUME NEW t \in Streams, EncodeFrame(t) \/ DrainFrame(t)
         PROVE  file = "open"
    BY <2>7, <2>13 DEF EncodeFrame, DrainFrame
  <2> QED
    BY <1>1, <2>3, <2>4, <2>5, <2>6, <2>8, <2>9, <2>10, <2>11, <2>12, <2>13
       DEF Next, MainStep, TrackStep
<1>2. IInv /\ [Next]_vars => [A]_vars
  BY <1>1
<1> QED
  BY <1>2, Invariance, PTL DEF Spec, WritesInsideFile

-----------------------------------------------------------------------------
(***************************************************************************)
(* MediaTimestamps.  The timestamps increase and keep time.  The invariant *)
(* bounds what a track has cut out of its times in each state of           *)
(* MediaPause (Pauses), says that no encoder has seen a timestamp beyond   *)
(* the pts of its frame (Behind), and keeps the last picture close to its  *)
(* time (InTime).                                                          *)
(***************************************************************************)
Slack == MaxDelay + MaxGap

TimesTyped ==
  /\ now \in Nat /\ seen \in [Tracks -> Int]
  /\ app \in [pauses : BOOLEAN, since : Int, count : Nat, away : Int]
  /\ mediaPause \in [Tracks -> [state : {"Active", "Pause", "Paused", "Resume"}, at : Int, delta : Int]]
  /\ ready \in BOOLEAN
  /\ start \in [Tracks -> Int \cup {None}] /\ pts \in [Tracks -> Int]
  /\ audio \in [filled : Nat, delay : Nat, tolerance : Int]
  /\ sent \in [Tracks -> [frames : Nat, first : Int, last : Int]]
  /\ shown \in Int /\ faults \in Nat

Behind ==
  /\ \A s \in Tracks : sent[s].frames > 0 =>
       start[s] # None /\ (ForceSync # 2 => sent[s].last <= pts[s])
  /\ "video" \in Tracks => pts["video"] >= 0

InTime ==
  "video" \in Tracks /\ sent["video"].frames > 0 =>
    /\ 2 * (sent["video"].last * FrameTime - shown) >= -FrameTime
    /\ sent["video"].last * FrameTime - shown <= FrameTime

\* What a track in a state of MediaPause has cut, against what the application paused.
CutOf(p, last, a) ==
  LET off == p.delta - a.away IN
  CASE p.state = "Active" -> ~a.pauses /\ -(a.count * Slack) <= off /\ off <= a.count * Slack
    [] p.state = "Pause"  -> /\ a.pauses /\ last <= a.since
                             /\ -(a.count * Slack) <= off /\ off <= a.count * Slack
    [] p.state = "Paused" -> /\ a.pauses /\ -MaxDelay <= p.at - a.since /\ p.at - a.since <= MaxGap
                             /\ -(a.count * Slack) <= off /\ off <= a.count * Slack
    [] OTHER -> /\ ~a.pauses /\ last <= a.since
                /\ -(a.count * Slack - MaxDelay) <= off + (a.since - p.at)
                /\ off + (a.since - p.at) <= a.count * Slack - MaxGap

Pauses ==
  /\ app.since <= now
  /\ \A s \in Tracks : seen[s] <= now /\ now <= seen[s] + MaxGap /\ CutOf(mediaPause[s], seen[s], app)

TimesInv == TimesTyped /\ Behind /\ InTime /\ (Waits => Pauses)

Increasing == ForceSync # 2 => \A s \in Tracks : Increases(s)

-----------------------------------------------------------------------------
LEMMA Divided ==
  ASSUME NEW a \in Nat, NEW b \in Nat \ {0}
  PROVE  a \div b \in Nat /\ b * (a \div b) <= a /\ a < b * (a \div b) + b
  OBVIOUS

\* A rounded quotient is less than half below, and at most half above if it is positive.
LEMMA Rounding ==
  ASSUME NEW n \in Int, NEW d \in Nat \ {0}
  PROVE  /\ Rounded(n, d) \in Int
         /\ 2 * (Rounded(n, d) * d - n) >= -d
         /\ Rounded(n, d) > 0 => 2 * (Rounded(n, d) * d - n) <= d
<1>1. CASE 2 * n + d >= 0
  <2> DEFINE q == (2 * n + d) \div (2 * d)
  <2>1. q \in Nat /\ (2 * d) * q <= 2 * n + d /\ 2 * n + d < (2 * d) * q + 2 * d
    <3>1. 2 * n + d \in Nat /\ 2 * d \in Nat \ {0}
      BY <1>1
    <3> QED
      BY <3>1, Divided
  <2>2. Rounded(n, d) = q
    BY <1>1 DEF Rounded
  <2> HIDE DEF q
  <2> QED
    BY <2>1, <2>2
<1>2. CASE ~(2 * n + d >= 0)
  <2> DEFINE q == (-(2 * n + d)) \div (2 * d)
  <2>1. q \in Nat /\ (2 * d) * q <= -(2 * n + d)
    BY <1>2, Divided
  <2>2. Rounded(n, d) = -q
    BY <1>2 DEF Rounded
  <2> HIDE DEF q
  <2> QED
    BY <2>1, <2>2
<1> QED
  BY <1>1, <1>2

LEMMA TimesBeginning == TimesInit => TimesInv
<1> SUFFICES ASSUME TimesInit PROVE TimesInv
  OBVIOUS
<1>1. TimesTyped
  <2>1. /\ mediaPause \in [Tracks -> [state : {"Active", "Pause", "Paused", "Resume"}, at : Int, delta : Int]]
        /\ app \in [pauses : BOOLEAN, since : Int, count : Nat, away : Int]
    BY DEF TimesInit
  <2>2. /\ audio \in [filled : Nat, delay : Nat, tolerance : Int]
        /\ sent \in [Tracks -> [frames : Nat, first : Int, last : Int]]
    BY DEF TimesInit
  <2> QED
    BY <2>1, <2>2 DEF TimesInit, TimesTyped
<1>3. Behind /\ InTime
  BY DEF TimesInit, Behind, InTime
<1>2. Pauses
  <2>1. 0 * Slack = 0 /\ MaxGap \in Nat
    BY TimesAssumption DEF Slack
  <2>2. \A s \in Tracks : mediaPause[s].state = "Active" /\ mediaPause[s].delta = 0 /\ seen[s] = 0
    BY DEF TimesInit
  <2> QED
    BY <2>1, <2>2 DEF TimesInit, Pauses, CutOf
<1> QED
  BY <1>1, <1>2, <1>3 DEF TimesInv

\* A step that gives nothing to an encoder.
LEMMA QuietTracks ==
  ASSUME TimesTyped, Behind, InTime, UNCHANGED <<start, pts, sent, shown>>
  PROVE  Behind' /\ InTime' /\ Increasing
  BY DEF TimesTyped, Behind, InTime, Increasing, Increases

LEMMA TickHolds == TimesInv /\ Tick => TimesInv' /\ Increasing
<1> SUFFICES ASSUME TimesInv, Tick PROVE TimesInv' /\ Increasing
  OBVIOUS
<1>1. TimesTyped'
  BY DEF TimesInv, Tick, TimesTyped
<1>2. Behind' /\ InTime' /\ Increasing
  BY QuietTracks DEF TimesInv, Tick
<1>3. Pauses => Pauses'
  BY TimesAssumption DEF TimesInv, Tick, TimesTyped, Pauses, CutOf
<1> QED
  BY <1>1, <1>2, <1>3, TimesAssumption DEF TimesInv

LEMMA InitFileHolds == TimesInv /\ InitFile => TimesInv' /\ Increasing
<1> SUFFICES ASSUME TimesInv, InitFile PROVE TimesInv' /\ Increasing
  OBVIOUS
<1>1. TimesTyped'
  BY DEF TimesInv, InitFile, TimesTyped
<1>2. Behind' /\ InTime' /\ Increasing
  BY QuietTracks DEF TimesInv, InitFile
<1>3. Pauses => Pauses'
  BY DEF InitFile, Pauses, CutOf
<1> QED
  BY <1>1, <1>2, <1>3 DEF TimesInv

LEMMA PauseHolds == TimesInv /\ PauseTracks => TimesInv' /\ Increasing
<1> SUFFICES ASSUME TimesInv, PauseTracks PROVE TimesInv' /\ Increasing
  OBVIOUS
<1>1. TimesTyped'
  <2>1. app' \in [pauses : BOOLEAN, since : Int, count : Nat, away : Int]
    <3>1. app \in [pauses : BOOLEAN, since : Int, count : Nat, away : Int] /\ now \in Int
      BY DEF TimesInv, TimesTyped
    <3>2. app.since \in Int /\ app.count \in Nat /\ app.away \in Int
      BY <3>1
    <3>3. app' = [app EXCEPT !.pauses = TRUE, !.since = now]
      BY DEF PauseTracks
    <3> QED
      BY ONLY <3>1, <3>2, <3>3
  <2>2. mediaPause' \in [Tracks -> [state : {"Active", "Pause", "Paused", "Resume"}, at : Int, delta : Int]]
    BY DEF TimesInv, PauseTracks, TimesTyped
  <2> QED
    BY <2>1, <2>2 DEF TimesInv, PauseTracks, TimesTyped
<1>2. Behind' /\ InTime' /\ Increasing
  BY QuietTracks DEF TimesInv, PauseTracks
<1>3. ASSUME Waits, Pauses PROVE Pauses'
  <2>1. app'.since = now /\ now' = now /\ seen' = seen /\ app.since <= now /\ now \in Nat
    BY <1>3 DEF TimesInv, TimesTyped, PauseTracks, Pauses
  <2>2. app'.pauses /\ app'.count = app.count /\ app'.away = app.away
    BY DEF TimesInv, TimesTyped, PauseTracks
  <2>3. ASSUME NEW s \in Tracks PROVE CutOf(mediaPause'[s], seen[s], app')
    <3>1. mediaPause[s].state = "Active" /\ CutOf(mediaPause[s], seen[s], app) /\ seen[s] <= now
      BY <1>3, <2>3 DEF PauseTracks, Pauses, Asserted
    <3>2. mediaPause'[s].state = "Pause" /\ mediaPause'[s].delta = mediaPause[s].delta
      BY <2>3 DEF TimesInv, TimesTyped, PauseTracks
    <3> QED
      BY <2>1, <2>2, <3>1, <3>2 DEF CutOf
  <2> QED
    BY <1>3, <2>1, <2>3 DEF Pauses
<1> QED
  BY <1>1, <1>2, <1>3, TimesAssumption DEF TimesInv

LEMMA ResumeHolds == TimesInv /\ ResumeTracks => TimesInv' /\ Increasing
<1> SUFFICES ASSUME TimesInv, ResumeTracks PROVE TimesInv' /\ Increasing
  OBVIOUS
<1>1. TimesTyped'
  <2>1. app' \in [pauses : BOOLEAN, since : Int, count : Nat, away : Int]
    <3>1. app \in [pauses : BOOLEAN, since : Int, count : Nat, away : Int] /\ now \in Int
      BY DEF TimesInv, TimesTyped
    <3> DEFINE c == app.count + 1
               a == app.away + (now - app.since)
    <3>2. c \in Nat /\ a \in Int
      BY <3>1
    <3>3. app' = [app EXCEPT !.pauses = FALSE, !.count = c, !.away = a, !.since = now]
      BY DEF ResumeTracks
    <3> HIDE DEF c, a
    <3> QED
      BY ONLY <3>1, <3>2, <3>3
  <2>2. mediaPause' \in [Tracks -> [state : {"Active", "Pause", "Paused", "Resume"}, at : Int, delta : Int]]
    BY DEF TimesInv, ResumeTracks, TimesTyped
  <2> QED
    BY <2>1, <2>2 DEF TimesInv, ResumeTracks, TimesTyped
<1>2. Behind' /\ InTime' /\ Increasing
  BY QuietTracks DEF TimesInv, ResumeTracks
<1>3. ASSUME Waits, Pauses PROVE Pauses'
  <2>1. /\ app'.since = now /\ now' = now /\ seen' = seen /\ app.since <= now
        /\ now \in Nat /\ app.since \in Int /\ app.away \in Int /\ app.count \in Nat
    BY <1>3 DEF TimesInv, TimesTyped, ResumeTracks, Pauses
  <2>2. ~app'.pauses /\ app'.count = app.count + 1 /\ app'.away = app.away + (now - app.since)
    BY DEF TimesInv, TimesTyped, ResumeTracks
  <2>3. ASSUME NEW s \in Tracks PROVE CutOf(mediaPause'[s], seen[s], app')
    <3>1. mediaPause[s].state = "Paused" /\ CutOf(mediaPause[s], seen[s], app) /\ seen[s] <= now
      BY <1>3, <2>3 DEF ResumeTracks, Pauses, Asserted
    <3>2. /\ mediaPause'[s].state = "Resume" /\ mediaPause'[s].delta = mediaPause[s].delta /\ mediaPause'[s].at = mediaPause[s].at
          /\ mediaPause[s].delta \in Int /\ mediaPause[s].at \in Int
      BY <2>3 DEF TimesInv, TimesTyped, ResumeTracks
    <3>3. /\ app.count * Slack \in Int /\ MaxDelay \in Nat /\ MaxGap \in Nat
          /\ (app.count + 1) * Slack = app.count * Slack + MaxDelay + MaxGap
      BY <2>1, TimesAssumption DEF Slack
    <3> QED
      BY <2>1, <2>2, <3>1, <3>2, <3>3 DEF CutOf
  <2> QED
    BY <1>3, <2>1, <2>3 DEF Pauses
<1> QED
  BY <1>1, <1>2, <1>3, TimesAssumption DEF TimesInv

-----------------------------------------------------------------------------
\* A frame of s is delivered: what isPaused does to the track's pause.
LEMMA DeliveredHolds ==
  ASSUME TimesTyped, NEW s \in Tracks, NEW t \in Int, Delivered(s, t), UNCHANGED <<now, app>>
  PROVE  /\ seen' \in [Tracks -> Int]
         /\ mediaPause' \in [Tracks -> [state : {"Active", "Pause", "Paused", "Resume"}, at : Int, delta : Int]]
         /\ IsPaused(mediaPause[s], t).delta \in Int
         /\ Pauses => Pauses'
<1> DEFINE p == mediaPause[s]
           q == IsPaused(p, t)
<1>1. /\ p \in [state : {"Active", "Pause", "Paused", "Resume"}, at : Int, delta : Int]
      /\ now \in Nat /\ app.since \in Int /\ app.away \in Int /\ app.count * Slack \in Int
      /\ MaxDelay \in Nat /\ MaxGap \in Nat
  BY TimesAssumption DEF TimesTyped, Slack
<1>2. p.state \in {"Active", "Pause", "Paused", "Resume"} /\ p.at \in Int /\ p.delta \in Int
  BY <1>1
<1>3. q \in [state : {"Active", "Pause", "Paused", "Resume"}, at : Int, delta : Int]
  <2>1. CASE p.state = "Pause"
    <3>1. q = [p EXCEPT !.state = "Paused", !.at = t]
      BY <2>1 DEF IsPaused
    <3> QED
      BY <1>1, <3>1
  <2>2. CASE p.state = "Resume"
    <3>1. q = [p EXCEPT !.state = "Active", !.delta = @ + (t - p.at)]
      BY <2>2 DEF IsPaused
    <3> HIDE DEF p, q
    <3>2. p.delta + (t - p.at) \in Int
      BY <1>2
    <3> QED
      BY ONLY <1>1, <1>2, <3>1, <3>2
  <2>3. CASE p.state \notin {"Pause", "Resume"}
    <3>1. q = p
      BY <2>3 DEF IsPaused
    <3> QED
      BY <1>1, <3>1
  <2> QED
    BY <2>1, <2>2, <2>3
<1>4. q.delta \in Int
  BY <1>3
<1>5. /\ mediaPause' = [mediaPause EXCEPT ![s] = q] /\ seen' = [seen EXCEPT ![s] = now]
      /\ seen[s] < now /\ now - MaxDelay <= t /\ t <= now
  BY <1>1 DEF Delivered
<1>6. /\ seen' \in [Tracks -> Int]
      /\ mediaPause' \in [Tracks -> [state : {"Active", "Pause", "Paused", "Resume"}, at : Int, delta : Int]]
  BY <1>1, <1>3, <1>5 DEF TimesTyped
<1>7. ASSUME Pauses PROVE CutOf(q, now, app)
  <2>1. now <= seen[s] + MaxGap /\ CutOf(p, seen[s], app) /\ app.since <= now /\ seen[s] \in Int
    BY <1>7 DEF Pauses, TimesTyped
  <2>2. CASE p.state = "Active" \/ p.state = "Paused"
    <3>1. q = p
      BY <2>2 DEF IsPaused
    <3> HIDE DEF p, q
    <3> QED
      BY <2>1, <2>2, <3>1 DEF CutOf
  <2>3. CASE p.state = "Pause"
    <3>1. q.state = "Paused" /\ q.at = t /\ q.delta = p.delta
      BY <1>1, <2>3 DEF IsPaused
    <3> HIDE DEF p, q
    <3> QED
      BY <1>1, <1>5, <2>1, <2>3, <3>1 DEF CutOf
  <2>4. CASE p.state = "Resume"
    <3>1. q.state = "Active" /\ q.delta = p.delta + (t - p.at)
      BY <1>1, <2>4 DEF IsPaused
    <3> HIDE DEF p, q
    <3>2. /\ ~app.pauses /\ seen[s] <= app.since
          /\ -(app.count * Slack - MaxDelay) <= p.delta - app.away + (app.since - p.at)
          /\ p.delta - app.away + (app.since - p.at) <= app.count * Slack - MaxGap
      BY <2>1, <2>4 DEF CutOf
    <3>3. -MaxDelay <= t - app.since /\ t - app.since <= MaxGap
      BY <1>1, <1>5, <2>1, <3>2
    <3>4. q.delta - app.away = (p.delta - app.away + (app.since - p.at)) + (t - app.since)
      BY <1>1, <1>2, <3>1
    <3> DEFINE c == app.count * Slack
               o == p.delta - app.away + (app.since - p.at)
               u == t - app.since
    <3>5. c \in Int /\ o \in Int /\ u \in Int
      BY <1>1, <1>2
    <3>6. -(c - MaxDelay) <= o /\ o <= c - MaxGap /\ -MaxDelay <= u /\ u <= MaxGap
      BY <3>2, <3>3
    <3>7. q.delta - app.away = o + u
      BY <3>4
    <3>8. -c <= q.delta - app.away /\ q.delta - app.away <= c
      <4> HIDE DEF c, o, u
      <4> QED
        BY <1>1, <3>5, <3>6, <3>7
    <3> QED
      BY <3>1, <3>2, <3>8 DEF CutOf
  <2> QED
    BY <1>2, <2>2, <2>3, <2>4
<1>8. Pauses => Pauses'
  <2> SUFFICES ASSUME Pauses PROVE Pauses'
    OBVIOUS
  <2>1. now <= now + MaxGap /\ now' = now /\ app' = app
    BY <1>1
  <2>2. ASSUME NEW r \in Tracks
        PROVE  seen'[r] <= now /\ now <= seen'[r] + MaxGap /\ CutOf(mediaPause'[r], seen'[r], app)
    <3>1. CASE r = s
      <4>1. seen'[r] = now /\ mediaPause'[r] = q
        BY <1>5, <3>1 DEF TimesTyped
      <4> HIDE DEF q
      <4> QED
        BY <1>1, <1>7, <2>1, <4>1
    <3>2. CASE r # s
      <4>1. seen'[r] = seen[r] /\ mediaPause'[r] = mediaPause[r]
        BY <1>5, <3>2 DEF TimesTyped
      <4> QED
        BY <4>1 DEF Pauses
    <3> QED
      BY <3>1, <3>2
  <2> QED
    BY <2>1, <2>2 DEF Pauses
<1> QED
  BY <1>4, <1>6, <1>8

\* A track s that starts at z, whose frame has the timestamp p and whose encoder is given
\* n frames with timestamps from f to l, or none.
LEMMA Encoding ==
  ASSUME TimesTyped, Behind, NEW s \in Tracks, NEW z \in Int, NEW p \in Int, NEW f \in Int, NEW l \in Int, NEW n \in Nat \ {0},
         start' = [start EXCEPT ![s] = z], pts' = [pts EXCEPT ![s] = p],
         UNCHANGED sent \/ Encoded(s, n, f, l),
         s = "video" => p >= 0, l <= p,
         start[s] # None /\ ForceSync # 2 => pts[s] < f /\ pts[s] <= p
  PROVE  /\ start' \in [Tracks -> Int \cup {None}] /\ pts' \in [Tracks -> Int]
         /\ sent' \in [Tracks -> [frames : Nat, first : Int, last : Int]]
         /\ Behind' /\ Increasing
<1>1. /\ start \in [Tracks -> Int \cup {None}] /\ pts \in [Tracks -> Int] /\ None \notin Int
      /\ sent \in [Tracks -> [frames : Nat, first : Int, last : Int]]
  BY TimesAssumption DEF TimesTyped
<1>2. /\ start' \in [Tracks -> Int \cup {None}] /\ pts' \in [Tracks -> Int]
      /\ start'[s] = z /\ pts'[s] = p
      /\ \A r \in Tracks \ {s} : start'[r] = start[r] /\ pts'[r] = pts[r]
  BY <1>1
<1>3. /\ sent[s].last \in Int /\ pts[s] \in Int
      /\ sent[s].frames > 0 /\ ForceSync # 2 => sent[s].last < f /\ sent[s].last <= p
  BY <1>1 DEF Behind
<1>4. CASE UNCHANGED sent
  <2>1. ASSUME NEW r \in Tracks, sent[r].frames > 0
        PROVE  start'[r] # None /\ (ForceSync # 2 => sent[r].last <= pts'[r])
    <3>1. CASE r = s
      BY <1>1, <1>2, <1>3, <2>1, <3>1
    <3>2. CASE r # s
      BY <1>2, <2>1, <3>2 DEF Behind
    <3> QED
      BY <3>1, <3>2
  <2>2. Behind'
    BY <1>2, <1>4, <2>1 DEF Behind
  <2> QED
    BY <1>1, <1>2, <1>4, <2>2 DEF Increasing, Increases
<1>5. CASE Encoded(s, n, f, l)
  <2> DEFINE m == sent[s].frames + n
             e == [frames |-> m, first |-> f, last |-> l]
  <2>0. m \in Nat
    BY <1>1
  <2> HIDE DEF m
  <2>1. e \in [frames : Nat, first : Int, last : Int] /\ e.first = f /\ e.last = l
    BY <2>0
  <2>2. sent' = [sent EXCEPT ![s] = e]
    BY <1>5 DEF Encoded, m
  <2> HIDE DEF e
  <2>3. /\ sent' \in [Tracks -> [frames : Nat, first : Int, last : Int]]
        /\ sent'[s] = e /\ \A r \in Tracks \ {s} : sent'[r] = sent[r]
    BY <1>1, <2>1, <2>2
  <2>4. ASSUME NEW r \in Tracks, sent'[r].frames > 0
        PROVE  start'[r] # None /\ (ForceSync # 2 => sent'[r].last <= pts'[r])
    <3>1. CASE r = s
      BY <1>1, <1>2, <2>1, <2>3, <3>1
    <3>2. CASE r # s
      BY <1>2, <2>3, <2>4, <3>2 DEF Behind
    <3> QED
      BY <3>1, <3>2
  <2>5. Behind'
    BY <1>2, <2>4 DEF Behind
  <2>6. Increasing
    BY <1>3, <2>1, <2>3 DEF Increasing, Increases
  <2> QED
    BY <1>2, <2>3, <2>5, <2>6
<1> QED
  BY <1>4, <1>5

\* The timestamp of a picture x after the start that follows n: never below n, and close to x.
LEMMA Picture ==
  ASSUME NEW n \in Nat, NEW x \in Int, ~TooEarly(n, x)
  PROVE  /\ NextPts(n, x) \in Nat /\ NextPts(n, x) >= n
         /\ 2 * (NextPts(n, x) * FrameTime - x) >= -FrameTime /\ NextPts(n, x) * FrameTime - x <= FrameTime
<1> DEFINE e == Expected(x)
<1>1. FrameTime \in Nat \ {0}
  BY TimesAssumption
<1>2. /\ e \in Int /\ 2 * (e * FrameTime - x) >= -FrameTime
      /\ e > 0 => 2 * (e * FrameTime - x) <= FrameTime
  BY <1>1, Rounding DEF Expected
<1>3. CASE n < e
  <2>1. NextPts(n, x) = e
    BY <1>3 DEF NextPts
  <2> HIDE DEF e
  <2>2. e > 0 /\ e * FrameTime \in Int
    BY <1>1, <1>2, <1>3
  <2> QED
    BY <1>1, <1>2, <1>3, <2>1, <2>2
<1>4. CASE ~(n < e)
  <2>1. NextPts(n, x) = n
    BY <1>4 DEF NextPts
  <2>2. n >= e /\ n * FrameTime - x <= FrameTime
    BY <1>1, <1>2, <1>4 DEF TooEarly
  <2> HIDE DEF e
  <2>3. n * FrameTime \in Int /\ e * FrameTime \in Int /\ n * FrameTime >= e * FrameTime
    BY <1>1, <1>2, <2>2
  <2>4. 2 * (n * FrameTime - x) >= -FrameTime
    BY <1>1, <1>2, <2>3
  <2> QED
    BY <2>1, <2>2, <2>4
<1> QED
  BY <1>3, <1>4

LEMMA UpdateVideoHolds ==
  ASSUME TimesTyped, Behind, InTime, "video" \in Tracks, NEW t \in Int, NEW fails \in BOOLEAN, UpdateVideo(t, fails)
  PROVE  /\ start' \in [Tracks -> Int \cup {None}] /\ pts' \in [Tracks -> Int]
         /\ audio' \in [filled : Nat, delay : Nat, tolerance : Int]
         /\ sent' \in [Tracks -> [frames : Nat, first : Int, last : Int]] /\ shown' \in Int
         /\ Behind' /\ InTime' /\ Increasing
<1>1. /\ start["video"] \in Int \cup {None} /\ pts["video"] + 1 \in Nat /\ pts["video"] \in Nat
      /\ FrameTime \in Nat \ {0} /\ None \notin Int
  BY TimesAssumption DEF TimesTyped, Behind
<1>2. CASE Ignored
  BY <1>2, QuietTracks DEF Ignored, TimesTyped
<1>3. CASE ~Ignored
  <2>1. PICK z \in Int, p \in Nat, x \in Int :
          /\ start' = [start EXCEPT !["video"] = z] /\ pts' = [pts EXCEPT !["video"] = p] /\ audio' = audio
          /\ UNCHANGED <<sent, shown>> \/ (Encoded("video", 1, p, p) /\ shown' = x)
          /\ start["video"] # None => pts["video"] < p
          /\ 2 * (p * FrameTime - x) >= -FrameTime /\ p * FrameTime - x <= FrameTime
    <3>1. CASE start["video"] = None
      <4>1. /\ start' = [start EXCEPT !["video"] = t] /\ pts' = [pts EXCEPT !["video"] = 0] /\ audio' = audio
            /\ UNCHANGED <<sent, shown>> \/ (Encoded("video", 1, 0, 0) /\ shown' = 0)
        BY <3>1 DEF UpdateVideo
      <4>2. 2 * (0 * FrameTime - 0) >= -FrameTime /\ 0 * FrameTime - 0 <= FrameTime
        BY <1>1
      <4> WITNESS t \in Int, 0 \in Nat, 0 \in Int
      <4> QED
        BY <3>1, <4>1, <4>2
    <3>2. CASE start["video"] # None
      <4> DEFINE x == t - start["video"]
                 p == NextPts(pts["video"] + 1, x)
      <4>1. ~TooEarly(pts["video"] + 1, x)
        BY <1>3, <3>2 DEF UpdateVideo
      <4>2. /\ start' = [start EXCEPT !["video"] = start["video"]] /\ pts' = [pts EXCEPT !["video"] = p]
            /\ audio' = audio
            /\ UNCHANGED <<sent, shown>> \/ (Encoded("video", 1, p, p) /\ shown' = x)
        BY <1>3, <3>2 DEF UpdateVideo
      <4>3. x \in Int /\ start["video"] \in Int
        BY <1>1, <3>2
      <4> HIDE DEF x
      <4>4. /\ p \in Nat /\ p >= pts["video"] + 1
            /\ 2 * (p * FrameTime - x) >= -FrameTime /\ p * FrameTime - x <= FrameTime
        BY <1>1, <4>1, <4>3, Picture
      <4> HIDE DEF p
      <4>5. pts["video"] < p
        BY <1>1, <4>4
      <4> QED
        BY <4>2, <4>3, <4>4, <4>5
    <3> QED
      BY <3>1, <3>2
  <2>2. /\ start' \in [Tracks -> Int \cup {None}] /\ pts' \in [Tracks -> Int]
        /\ sent' \in [Tracks -> [frames : Nat, first : Int, last : Int]]
        /\ Behind' /\ Increasing
    <3>1. p \in Int /\ 1 \in Nat \ {0} /\ p >= 0 /\ p <= p /\ (start["video"] # None => pts["video"] < p /\ pts["video"] <= p)
      BY <1>1, <2>1
    <3> QED
      BY <2>1, <3>1, Encoding
  <2>3. InTime'
    <3>1. CASE UNCHANGED <<sent, shown>>
      BY <3>1 DEF InTime
    <3>2. CASE Encoded("video", 1, p, p) /\ shown' = x
      <4>1. sent'["video"].last = p
        BY <3>2 DEF Encoded, TimesTyped
      <4> QED
        BY <2>1, <3>2, <4>1 DEF InTime
    <3> QED
      BY <2>1, <3>1, <3>2
  <2>4. shown' \in Int /\ audio' \in [filled : Nat, delay : Nat, tolerance : Int]
    BY <2>1 DEF TimesTyped
  <2> QED
    BY <2>2, <2>3, <2>4
<1> QED
  BY <1>2, <1>3

LEMMA OnVideoFrameHolds ==
  ASSUME TimesInv, NEW t \in Int, NEW fails \in BOOLEAN, OnVideoFrame(t, fails)
  PROVE  TimesInv' /\ Increasing
<1> DEFINE x == t - IsPaused(mediaPause["video"], t).delta
<1>1. TimesTyped /\ Behind /\ InTime /\ (Waits => Pauses)
  BY DEF TimesInv
<1>2. "video" \in Tracks /\ Delivered("video", t) /\ UNCHANGED <<now, app, ready>> /\ faults' \in Nat
  BY <1>1 DEF OnVideoFrame, Delivered, MayFail, TimesTyped
<1>3. /\ seen' \in [Tracks -> Int]
      /\ mediaPause' \in [Tracks -> [state : {"Active", "Pause", "Paused", "Resume"}, at : Int, delta : Int]]
      /\ x \in Int /\ (Pauses => Pauses')
  BY <1>1, <1>2, DeliveredHolds
<1>4. UpdateVideo(x, fails) \/ Ignored
  BY DEF OnVideoFrame
<1> HIDE DEF x
<1>5. /\ start' \in [Tracks -> Int \cup {None}] /\ pts' \in [Tracks -> Int]
      /\ audio' \in [filled : Nat, delay : Nat, tolerance : Int]
      /\ sent' \in [Tracks -> [frames : Nat, first : Int, last : Int]] /\ shown' \in Int
      /\ Behind' /\ InTime' /\ Increasing
  <2>1. CASE Ignored
    BY <1>1, <2>1, QuietTracks DEF Ignored, TimesTyped
  <2> QED
    BY <1>1, <1>2, <1>3, <1>4, <2>1, UpdateVideoHolds
<1>6. TimesTyped'
  BY <1>1, <1>2, <1>3, <1>5 DEF TimesTyped
<1> QED
  BY <1>1, <1>3, <1>5, <1>6, TimesAssumption DEF TimesInv
LEMMA Synchronizing ==
  ASSUME TimesTyped, "audio" \in Tracks, NEW isStart \in BOOLEAN, NEW expected \in Int
  PROVE  /\ Synchronized(isStart, expected).pts \in Int /\ Synchronized(isStart, expected).tolerance \in Int
         /\ ~isStart /\ ForceSync # 2 => Synchronized(isStart, expected).pts >= pts["audio"]
<1> DEFINE p     == pts["audio"]
           d     == audio.delay
           diff  == expected - p - d
           limit == (1 + d \div FrameSize) * FrameSize
           over  == Abs(diff) \div FrameSize + 1
           count == audio.tolerance - 1
<1>1. /\ p \in Int /\ d \in Nat /\ FrameSize \in Nat \ {0} /\ diff \in Int /\ count \in Int
      /\ audio.tolerance \in Int /\ ForceSync \in {0, 1, 2}
  BY TimesAssumption DEF TimesTyped
<1>2. Abs(diff) \in Nat
  BY <1>1 DEF Abs
<1>3. over \in Int
  <2> HIDE DEF diff
  <2> QED
    BY <1>1, <1>2, Divided
<1>4. limit \in Int /\ limit > 0
  <2> DEFINE q == d \div FrameSize
  <2>1. q \in Nat
    BY <1>1, Divided
  <2> HIDE DEF q
  <2>2. q * FrameSize \in Nat
    BY <1>1, <2>1
  <2> QED
    BY <1>1, <2>1, <2>2
<1>5. Synchronized(isStart, expected) =
        IF isStart THEN [pts |-> expected, tolerance |-> audio.tolerance]
        ELSE IF Abs(diff) < limit THEN [pts |-> p, tolerance |-> -1]
        ELSE IF ForceSync = 0 THEN [pts |-> p, tolerance |-> audio.tolerance]
        ELSE IF audio.tolerance < 0 THEN [pts |-> p, tolerance |-> over]
        ELSE [pts |-> IF count = 0 /\ ~(ForceSync = 1 /\ diff < 0) THEN expected ELSE p, tolerance |-> count]
  BY DEF Synchronized
<1>6. expected = diff + p + d
  BY <1>1
<1> HIDE DEF p, d, diff, limit, over, count
<1>7. Synchronized(isStart, expected).pts \in Int /\ Synchronized(isStart, expected).tolerance \in Int
  BY <1>1, <1>3, <1>5
<1>8. ASSUME ~isStart, ForceSync # 2 PROVE Synchronized(isStart, expected).pts >= p
  <2>1. CASE Synchronized(isStart, expected).pts = p
    BY <1>1, <2>1
  <2>2. CASE Synchronized(isStart, expected).pts # p
    <3>1. Synchronized(isStart, expected).pts = expected /\ ~(ForceSync = 1 /\ diff < 0) /\ ForceSync # 0
      BY <1>5, <1>8, <2>2
    <3> QED
      BY <1>1, <1>6, <1>8, <3>1
  <2> QED
    BY <2>1, <2>2
<1> QED
  BY <1>7, <1>8 DEF p

\* The samples that are left when k frames are made.
LEMMA Left ==
  ASSUME NEW all \in Nat, NEW k \in Nat, Frames(all, k)
  PROVE  k * FrameSize \in Nat /\ k * FrameSize <= all /\ all - k * FrameSize \in Nat
<1>1. FrameSize \in Nat \ {0}
  BY TimesAssumption
<1>2. k * FrameSize \in Nat
  BY <1>1
<1>3. k * FrameSize <= all
  <2>1. k = 0 => k * FrameSize = 0
    BY <1>1
  <2> QED
    BY <1>2, <2>1 DEF Frames
<1> QED
  BY <1>2, <1>3

LEMMA UpdateAudioHolds ==
  ASSUME TimesTyped, Behind, InTime, "audio" \in Tracks, "video" \in Tracks => start["video"] # None,
         NEW t \in Int, NEW samples \in Nat, NEW k \in Nat, NEW fails \in BOOLEAN,
         UpdateAudio(t, samples, k, fails)
  PROVE  /\ start' \in [Tracks -> Int \cup {None}] /\ pts' \in [Tracks -> Int]
         /\ audio' \in [filled : Nat, delay : Nat, tolerance : Int]
         /\ sent' \in [Tracks -> [frames : Nat, first : Int, last : Int]] /\ shown' \in Int
         /\ Behind' /\ InTime' /\ Increasing
<1> DEFINE isStart == start["audio"] = None
           zero    == IF ~isStart THEN start["audio"] ELSE IF Tracks = {"audio"} THEN t ELSE start["video"]
           sync    == IF audio.filled = 0 THEN Synchronized(isStart, Rounded((t - zero) * Rate, 1))
                      ELSE [pts |-> pts["audio"], tolerance |-> audio.tolerance]
           all     == audio.filled + audio.delay + samples
           last    == sync.pts + k * FrameSize
           done    == IF fails THEN k - 1 ELSE k
           frame   == [filled |-> IF k = 0 THEN all ELSE 0, tolerance |-> sync.tolerance,
                       delay |-> IF k = 0 THEN 0 ELSE all - k * FrameSize]
<1>1. /\ Frames(all, k) /\ (fails => k > 0)
      /\ start' = [start EXCEPT !["audio"] = zero] /\ pts' = [pts EXCEPT !["audio"] = last]
      /\ audio' = frame /\ shown' = shown
      /\ IF done = 0 THEN UNCHANGED sent
         ELSE Encoded("audio", done, sync.pts + FrameSize, sync.pts + done * FrameSize)
  BY DEF UpdateAudio
<1>2. /\ start \in [Tracks -> Int \cup {None}] /\ pts["audio"] \in Int /\ Tracks \subseteq {"video", "audio"}
      /\ audio.filled \in Nat /\ audio.delay \in Nat /\ audio.tolerance \in Int
      /\ FrameSize \in Nat \ {0} /\ Rate \in Nat \ {0} /\ None \notin Int
  BY TimesAssumption DEF TimesTyped
<1>3. zero \in Int
  <2>1. CASE ~isStart
    BY <1>2, <2>1
  <2>2. CASE isStart /\ Tracks # {"audio"}
    <3>1. "video" \in Tracks
      BY <1>2, <2>2
    <3> QED
      BY <1>2, <2>2, <3>1
  <2> QED
    BY <2>1, <2>2
<1>4. /\ sync.pts \in Int /\ sync.tolerance \in Int
      /\ ~isStart /\ ForceSync # 2 => sync.pts >= pts["audio"]
  <2> DEFINE e == Rounded((t - zero) * Rate, 1)
  <2>1. e \in Int
    <3> HIDE DEF zero
    <3>1. (t - zero) * Rate \in Int
      BY <1>2, <1>3
    <3> QED
      BY <3>1, Rounding
  <2>2. sync = IF audio.filled = 0 THEN Synchronized(isStart, e)
               ELSE [pts |-> pts["audio"], tolerance |-> audio.tolerance]
    OBVIOUS
  <2> HIDE DEF e, sync, isStart
  <2>3. isStart \in BOOLEAN
    BY DEF isStart
  <2>4. CASE audio.filled = 0
    BY <2>1, <2>2, <2>3, <2>4, Synchronizing
  <2>5. CASE audio.filled # 0
    BY <1>2, <2>2, <2>5
  <2> QED
    BY <2>4, <2>5
<1>5. all \in Nat
  BY <1>2
<1> HIDE DEF isStart, zero, sync, all
<1>6. k * FrameSize \in Nat /\ all - k * FrameSize \in Nat
  BY <1>1, <1>5, Left
<1>7. done \in Nat /\ done * FrameSize \in Nat /\ done * FrameSize <= k * FrameSize
  <2>1. CASE fails
    <3>1. done = k - 1 /\ k - 1 \in Nat
      BY <1>1, <2>1
    <3>2. (k - 1) * FrameSize \in Nat /\ k * FrameSize = (k - 1) * FrameSize + FrameSize
      BY <1>2, <3>1
    <3> HIDE DEF done
    <3> QED
      BY <1>2, <1>6, <3>1, <3>2
  <2>2. CASE ~fails
    BY <1>6, <2>2
  <2> QED
    BY <2>1, <2>2
<1>8. audio' \in [filled : Nat, delay : Nat, tolerance : Int]
  BY <1>1, <1>4, <1>5, <1>6
<1> DEFINE f == sync.pts + FrameSize
           l == sync.pts + done * FrameSize
<1>9. /\ last \in Int /\ f \in Int /\ l \in Int /\ l <= last
      /\ start["audio"] # None /\ ForceSync # 2 => pts["audio"] < f /\ pts["audio"] <= last
  <2> HIDE DEF done
  <2> QED
    BY <1>2, <1>4, <1>6, <1>7 DEF isStart
<1>10. PICK n \in Nat \ {0} : UNCHANGED sent \/ Encoded("audio", n, f, l)
  <2>1. CASE done = 0
    <3>1. UNCHANGED sent /\ 1 \in Nat \ {0}
      BY <1>1, <2>1
    <3> QED
      BY <3>1
  <2>2. CASE done # 0
    <3>1. Encoded("audio", done, f, l) /\ done \in Nat \ {0}
      BY <1>1, <1>7, <2>2
    <3> QED
      BY <3>1
  <2> QED
    BY <2>1, <2>2
<1> HIDE DEF last, f, l, done
<1>11. /\ start' \in [Tracks -> Int \cup {None}] /\ pts' \in [Tracks -> Int]
       /\ sent' \in [Tracks -> [frames : Nat, first : Int, last : Int]]
       /\ Behind' /\ Increasing
  BY <1>1, <1>3, <1>9, <1>10, Encoding
<1>12. InTime' /\ shown' \in Int
  <2>1. "video" \in Tracks => sent'["video"] = sent["video"]
    BY <1>10 DEF Encoded, TimesTyped
  <2> QED
    BY <1>1, <2>1 DEF InTime, TimesTyped
<1> QED
  BY <1>8, <1>11, <1>12

LEMMA OnDataHolds ==
  ASSUME TimesInv, NEW t \in Int, NEW samples \in Nat, NEW k \in Nat, NEW fails \in BOOLEAN,
         OnData(t, samples, k, fails)
  PROVE  TimesInv' /\ Increasing
<1> DEFINE x == t - IsPaused(mediaPause["audio"], t).delta
<1>1. TimesTyped /\ Behind /\ InTime /\ (Waits => Pauses)
  BY DEF TimesInv
<1>2. "audio" \in Tracks /\ Delivered("audio", t) /\ UNCHANGED <<now, app, ready>> /\ faults' \in Nat
  BY <1>1 DEF OnData, Delivered, MayFail, TimesTyped
<1>3. /\ seen' \in [Tracks -> Int]
      /\ mediaPause' \in [Tracks -> [state : {"Active", "Pause", "Paused", "Resume"}, at : Int, delta : Int]]
      /\ x \in Int /\ (Pauses => Pauses')
  BY <1>1, <1>2, DeliveredHolds
<1>4. \/ ("video" \in Tracks => start["video"] # None) /\ UpdateAudio(x, samples, k, fails)
      \/ Ignored
  BY DEF OnData
<1> HIDE DEF x
<1>5. /\ start' \in [Tracks -> Int \cup {None}] /\ pts' \in [Tracks -> Int]
      /\ audio' \in [filled : Nat, delay : Nat, tolerance : Int]
      /\ sent' \in [Tracks -> [frames : Nat, first : Int, last : Int]] /\ shown' \in Int
      /\ Behind' /\ InTime' /\ Increasing
  <2>1. CASE Ignored
    BY <1>1, <2>1, QuietTracks DEF Ignored, TimesTyped
  <2> QED
    BY <1>1, <1>2, <1>3, <1>4, <2>1, UpdateAudioHolds
<1>6. TimesTyped'
  BY <1>1, <1>2, <1>3, <1>5 DEF TimesTyped
<1> QED
  BY <1>1, <1>3, <1>5, <1>6, TimesAssumption DEF TimesInv

-----------------------------------------------------------------------------
LEMMA TimesSteps == TimesInv /\ [TimesNext]_timesVars => TimesInv' /\ [Increasing]_timesVars
<1> SUFFICES ASSUME TimesInv, [TimesNext]_timesVars PROVE TimesInv' /\ [Increasing]_timesVars
  OBVIOUS
<1>1. now - MaxDelay \in Int /\ now \in Int /\ Buffers \subseteq Nat
  BY TimesAssumption DEF TimesInv, TimesTyped
<1>2. CASE Tick
  BY <1>2, TickHolds
<1>3. CASE InitFile
  BY <1>3, InitFileHolds
<1>4. CASE PauseTracks
  BY <1>4, PauseHolds
<1>5. CASE ResumeTracks
  BY <1>5, ResumeHolds
<1>6. ASSUME NEW t \in (now - MaxDelay)..now, NEW fails \in BOOLEAN, OnVideoFrame(t, fails)
      PROVE  TimesInv' /\ Increasing
  <2>1. t \in Int
    BY <1>1
  <2> QED
    BY <1>6, <2>1, OnVideoFrameHolds
<1>7. ASSUME NEW t \in (now - MaxDelay)..now, NEW fails \in BOOLEAN, NEW samples \in Buffers,
             NEW k \in 0..((audio.filled + audio.delay + samples) \div FrameSize), OnData(t, samples, k, fails)
      PROVE  TimesInv' /\ Increasing
  <2>1. t \in Int /\ samples \in Nat
    BY <1>1
  <2>2. (audio.filled + audio.delay + samples) \div FrameSize \in Nat
    <3>1. audio.filled + audio.delay + samples \in Nat /\ FrameSize \in Nat \ {0}
      BY <2>1, TimesAssumption DEF TimesInv, TimesTyped
    <3> QED
      BY <3>1, Divided
  <2>3. k \in Nat
    BY <2>2
  <2> QED
    BY <1>7, <2>1, <2>3, OnDataHolds
<1>8. CASE UNCHANGED timesVars
  <2>1. TimesTyped'
    BY <1>8 DEF timesVars, TimesInv, TimesTyped
  <2>2. Behind' /\ InTime' /\ Increasing
    BY <1>8, QuietTracks DEF timesVars, TimesInv
  <2>3. Pauses => Pauses'
    BY <1>8 DEF timesVars, Pauses, CutOf
  <2> QED
    BY <2>1, <2>2, <2>3 DEF TimesInv
<1> QED
  BY <1>2, <1>3, <1>4, <1>5, <1>6, <1>7, <1>8 DEF TimesNext

\* The timestamps given to each encoder increase, with frames dropped, lost and failing,
\* across pauses and whatever the application does with pause() and resume().
THEOREM Increase == TimesSpec => TimestampsIncrease
<1>1. [Increasing]_timesVars => [ForceSync # 2 => \A s \in Tracks : Increases(s)]_timesVars
  BY DEF Increasing
<1> QED
  BY TimesBeginning, TimesSteps, <1>1, PTL DEF TimesSpec, TimestampsIncrease

\* What a track has cut out of its times is what was paused but for a delay and a gap a
\* pause, and a picture is shown close to the time it was captured at, if the application
\* meets the assertions of MediaPause.
THEOREM Timely ==
  ASSUME Waits
  PROVE  TimesSpec => []KeepsTime
<1>1. ASSUME TimesInv PROVE KeepsTime
  <2>1. ASSUME NEW s \in Tracks, mediaPause[s].state = "Active"
        PROVE  Abs(mediaPause[s].delta - app.away) <= app.count * (MaxDelay + MaxGap)
    <3>1. /\ mediaPause[s].delta - app.away \in Int /\ app.count * Slack \in Int
          /\ -(app.count * Slack) <= mediaPause[s].delta - app.away
          /\ mediaPause[s].delta - app.away <= app.count * Slack
      BY <1>1, <2>1, TimesAssumption DEF TimesInv, TimesTyped, Pauses, CutOf, Slack
    <3> QED
      BY <3>1 DEF Abs, Slack
  <2> QED
    BY <1>1, <2>1 DEF TimesInv, InTime, KeepsTime
<1>2. TimesInv => KeepsTime
  BY <1>1
<1> QED
  BY TimesBeginning, TimesSteps, <1>2, PTL DEF TimesSpec
=============================================================================
