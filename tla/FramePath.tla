------------------------------ MODULE FramePath ------------------------------
(***************************************************************************)
(* The path of the frames of one camera, from the records of the video     *)
(* conversation (stream_session.py, _on_media_record) through the packets, *)
(* the reassembler and the motion detector to the consumers and the state  *)
(* listeners (camera_stream.py).  Sessions come and go; what a session is  *)
(* doing otherwise is CameraStream's matter; the old one is closed before  *)
(* the next one starts.  A record runs through the whole path in one step, *)
(* as nothing on it awaits.                                                *)
(***************************************************************************)
EXTENDS FrameFanout, MediaPackets, MotionDetector

CONSTANTS
    ImageSizes,   \* the sizes of the device's images, in words
    Leads,        \* does the device send the first word of an image first?
    StallTimeout  \* _stall_timeout, in ticks of the clock

ASSUME PathAssumption == StallTimeout \in Nat \ {0} /\ ImageSizes \subseteq Nat \ {0, 1}

VARIABLES
    link,       \* the session: "off", "live", or "closing" once it is over
    device,     \* the image the device is sending, and what it has sent of it
    assembler,  \* the session's _reassembler
    picture,    \* the image in _last_frame, if it is of this session
    age,        \* time since _last_frame_at, StallTimeout if long ago or never
    motion,     \* _motion
    stream,     \* "stopped", or running, "watched" by the stall watcher or "unwatched"
    told,       \* what a state listener saw when it was last called
    sampled,    \* history: frames sampled since the last reset, up to Settled
    loudRun     \* history: how many after them exceeded the threshold without a break

mediaVars == <<device, assembler, picture>>
stateVars == <<age, motion, told, sampled, loudRun>>
pathVars == <<vars, link, mediaVars, stateVars, stream>>

\* Frames before one can count as motion: the first to compare with, the warm-up.
Settled == 1 + WarmupFrames

Streaming == age < StallTimeout

NoListener == [on |-> FALSE, streaming |-> FALSE, motion |-> FALSE]
ListenerReads == [on |-> TRUE, streaming |-> Streaming, motion |-> motion.detected]

\* _notify_state, called at the end of a step.
NotifyState(changed) == told' = IF changed /\ told.on THEN ListenerReads' ELSE told

\* The words of an image.  Every other image has the marker of a packet's header
\* among its data; none has an end-of-image before its last word.
Image(d) ==
    [i \in 1..d.size |->
        CASE i = 1 -> Word("soi", d.image)
          [] i = d.size -> Word("eoi", d.image)
          [] OTHER -> IF d.image = 0 THEN Marker ELSE Word("data", d.image)]

\* One word of an image as the device packs it: the length, the header, the word.
\* The header begins with a length too, which nothing reads.
Packet(d, i) ==
    <<Number(HeaderLength + 1), Number(HeaderLength + 1), Number(d.image), Number(0), Number(i - 1), Marker,
      Image(d)[i]>>

\* Images are told apart from their neighbours only.
NoImage == [image |-> 0, size |-> 0, sent |-> {}, whole |-> FALSE]
NextImage(d, size) == [image |-> 1 - d.image, size |-> size, sent |-> {}, whole |-> TRUE]

Ready(d) == IF Leads /\ d.sent = {} THEN {1} ELSE 1..d.size \ d.sent

\* What the device can send next: the words of its image in any order, then the
\* next image.
Chunks(d) ==
    LET images == IF d.sent = 1..d.size THEN {NextImage(d, s) : s \in ImageSizes} ELSE {d}
    IN UNION {{[words |-> Packet(e, i), device |-> [e EXCEPT !.sent = @ \union {i}]] : i \in Ready(e)}
              : e \in images}

\* A record carries one packet or two.
Records(d) ==
    Chunks(d) \union
    UNION {{[words |-> c.words \o b.words, device |-> b.device] : b \in Chunks(c.device)}
           : c \in Chunks(d)}

PathInit ==
    /\ Init
    /\ link = "off" /\ device = NoImage
    /\ assembler = NoFrame /\ picture = <<>> /\ age = StallTimeout
    /\ motion = NewDetector /\ stream = "stopped" /\ told = NoListener
    /\ sampled = 0 /\ loudRun = 0

\* async_start: the supervisor and the watcher are started.
StartStream ==
    /\ stream = "stopped" /\ stream' = "watched"
    /\ UNCHANGED <<vars, link, mediaVars, stateVars>>

\* A session has come up to where it hands the video to _on_media_record, with a
\* reassembler of its own, and the supervisor says so.  What the device sent
\* before that is lost.
SessionAttach ==
    /\ stream # "stopped" /\ link = "off" /\ link' = "live"
    /\ assembler' = NoFrame
    /\ \E size \in ImageSizes : \E sent \in SUBSET (1..size) :
          /\ Leads /\ sent # {} => 1 \in sent
          /\ device' = [NextImage(device, size) EXCEPT !.sent = sent, !.whole = sent = {}]
    /\ UNCHANGED <<vars, picture, age, motion, sampled, loudRun, stream>>
    /\ NotifyState(TRUE)

\* Between two sessions the run of busy replies reaches its limit, or ends: the
\* listeners are called, although nothing told to them here has changed.
BusyChanges ==
    /\ stream # "stopped" /\ link = "off"
    /\ UNCHANGED <<vars, link, mediaVars, age, motion, sampled, loudRun, stream>>
    /\ NotifyState(TRUE)

\* _on_frame: the consumers, the detector and the listeners get the frame.
Publish(frame) ==
    /\ OnFrame
    /\ picture' = frame /\ age' = 0
    /\ \E loud \in IF Compared(motion) THEN BOOLEAN ELSE {FALSE} :
          /\ motion' = Sample(motion, loud)
          /\ sampled' = IF sampled < Settled THEN sampled + 1 ELSE Settled
          /\ loudRun' = IF loud /\ sampled = Settled
                       THEN IF loudRun < ConfirmingFrames THEN loudRun + 1 ELSE loudRun
                       ELSE 0
    /\ NotifyState(~Streaming \/ motion'.detected # motion.detected)

\* _on_media_record.  A record of two packets starts one image at most, so that
\* it completes at most one frame.
MediaRecord ==
    /\ link # "off"
    /\ \E record \in Records(device) :
          LET result == PushAll(assembler, ExtractMediaPackets(record.words))
          IN /\ device' = record.device /\ assembler' = result.assembler
             /\ \/ /\ result.frames = <<>>
                   /\ UNCHANGED <<vars, picture, stateVars>>
                \/ /\ result.frames # <<>>
                   /\ Publish(result.frames[1])
    /\ UNCHANGED <<link, stream>>

\* What the supervisor and async_stop forget about the frames.
Forget ==
    /\ age' = StallTimeout /\ motion' = Reset(motion)
    /\ sampled' = 0 /\ loudRun' = 0

\* Mutant: the listeners are called for the detector only.
SessionEndsQuietly ==
    /\ stream # "stopped" /\ link # "closing"
    /\ link' = IF link = "live" THEN "closing" ELSE link
    /\ SessionOver /\ Forget /\ NotifyState(motion'.detected # motion.detected)
    /\ UNCHANGED <<mediaVars, stream>>

\* A session is over for the supervisor, which goes on to close it, or has failed
\* before it got any video.
SessionEnds ==
    /\ stream # "stopped" /\ link # "closing"
    /\ link' = IF link = "live" THEN "closing" ELSE link
    /\ SessionOver /\ Forget /\ NotifyState(TRUE)
    /\ UNCHANGED <<mediaVars, stream>>

\* It is closed, and gone with its reassembler; the device ends its own side.
SessionClosed ==
    /\ link = "closing" /\ link' = "off"
    /\ assembler' = NoFrame /\ picture' = <<>> /\ device' = NoImage
    /\ UNCHANGED <<vars, stateVars, stream>>

\* The end of async_stop, once the tasks have ended and the session is closed.
StopStream ==
    /\ link = "off" /\ stream # "stopped" /\ stream' = "stopped"
    /\ SessionOver /\ Forget /\ NotifyState(TRUE)
    /\ UNCHANGED <<link, mediaVars>>

\* The same in async_close, which goes on to drop subscribers and listeners.
ClosePath ==
    /\ link = "off" /\ stream' = "stopped"
    /\ CloseStream /\ told' = NoListener
    /\ \/ stream # "stopped" /\ firstFrame' = FALSE /\ Forget
       \/ stream = "stopped" /\ firstFrame' = firstFrame
          /\ UNCHANGED <<age, motion, sampled, loudRun>>
    /\ UNCHANGED <<link, mediaVars>>

\* set_motion_sensitivity: the old detector is reset, which clears the motion it
\* reports, and a new one takes its place.
SetMotionSensitivity ==
    /\ motion' = NewDetector /\ sampled' = 0 /\ loudRun' = 0
    /\ UNCHANGED <<vars, link, mediaVars, age, stream>>
    /\ NotifyState(Reset(motion).detected # motion.detected)

\* Mutant: the watcher looks at the motion of a live session only.
PollLive ==
    /\ stream = "watched" /\ link = "live" /\ Streaming
    /\ motion' = Published(motion)
    /\ UNCHANGED <<vars, link, mediaVars, age, sampled, loudRun, stream>>
    /\ NotifyState(motion'.detected # motion.detected)

\* One round of the stall watcher.
Poll ==
    /\ stream = "watched"
    /\ motion' = Published(motion)
    /\ UNCHANGED <<vars, link, mediaVars, age, sampled, loudRun, stream>>
    /\ NotifyState(motion'.detected # motion.detected)

\* The watcher ends: by an error of the session it closes, or because of a stop.
WatcherEnds ==
    /\ stream = "watched" /\ stream' = "unwatched"
    /\ UNCHANGED <<vars, link, mediaVars, stateVars>>

\* A listener registers and reads the state it is about to follow.
AddStateListener ==
    /\ ~told.on /\ told' = ListenerReads
    /\ UNCHANGED <<vars, link, mediaVars, age, motion, sampled, loudRun, stream>>

RemoveStateListener ==
    /\ told.on /\ told' = NoListener
    /\ UNCHANGED <<vars, link, mediaVars, age, motion, sampled, loudRun, stream>>

Tick ==
    /\ Streaming \/ motion.hold > 0
    /\ age' = IF Streaming THEN age + 1 ELSE age
    /\ motion' = Aged(motion)
    /\ UNCHANGED <<vars, link, mediaVars, told, sampled, loudRun, stream>>

\* The steps of consumers and waiting tasks.
ConsumerStep ==
    /\ \/ \E c \in Consumers : Subscribe(c) \/ Read(c) \/ Leave(c)
       \/ \E w \in Waiters : WaitForFrame(w) \/ FrameArrived(w) \/ WaitTimesOut(w)
    /\ UNCHANGED <<link, mediaVars, stateVars, stream>>

PathNext ==
    \/ StartStream \/ SessionAttach \/ BusyChanges \/ MediaRecord \/ SessionEnds
    \/ SessionClosed \/ StopStream \/ ClosePath \/ SetMotionSensitivity \/ Poll \/ WatcherEnds
    \/ AddStateListener \/ RemoveStateListener \/ Tick \/ ConsumerStep

PathSpec == PathInit /\ [][PathNext]_pathVars

\* asyncio resumes a task whose future is done, the watcher wakes up from its
\* sleep, and time passes.  Nothing is assumed of the device or of the sessions.
FairPathSpec ==
    /\ PathSpec
    /\ \A w \in Waiters :
          WF_pathVars(FrameArrived(w) /\ UNCHANGED <<link, mediaVars, stateVars, stream>>)
    /\ WF_pathVars(Poll) /\ WF_pathVars(Tick)

-----------------------------------------------------------------------------
\* Each variable has the type the code gives it; a detector's counters stay in
\* their ranges, and an image never outgrows MAX_FRAME_SIZE.
PathTypeOK ==
    /\ TypeOK
    /\ link \in {"off", "live", "closing"} /\ stream \in {"stopped", "watched", "unwatched"}
    /\ device.image \in {0, 1} /\ device.sent \subseteq 1..device.size
    /\ Len(assembler.buffer) <= MaxFrameSize
    /\ age \in 0..StallTimeout /\ motion \in Detectors
    /\ told \in [on : BOOLEAN, streaming : BOOLEAN, motion : BOOLEAN]

\* "Places chunks by offset, so out-of-order delivery still reassembles": a frame
\* is published when the start of the next image arrives, and is the image before
\* it, word for word, whatever order its words came in, how records cut it, when
\* the session began to listen and however much its data look like packets.  An
\* image that is larger than MAX_FRAME_SIZE or that the session joined late is left
\* out, provided that its last word is its only end-of-image.
NextImageStarts ==
    /\ "off" \notin {link, link'}
    /\ device'.image # device.image /\ 1 \in device'.sent
WholeFrames ==
    [][/\ lastFrame' # lastFrame =>
             \E image \in {0, 1}, size \in ImageSizes :
                picture' = Image([image |-> image, size |-> size])
       /\ NextImageStarts =>
             IF device.whole /\ device.size <= MaxFrameSize
             THEN lastFrame' = lastFrame + 1 /\ picture' = Image(device)
             ELSE lastFrame' = lastFrame]_pathVars

\* Motion comes on only with a frame, after the warm-up and with as many frames
\* in a row over the threshold as confirm it, all sampled since the detector was
\* last reset: at the end of a session, by a stop, or for another sensitivity.  The
\* frames a session still completes while it is closed come after that reset and
\* count with those of the next session.
MotionIsConfirmed ==
    [][~motion.detected /\ motion'.detected =>
          lastFrame' # lastFrame /\ loudRun' = ConfirmingFrames]_pathVars

\* While the watcher runs, motion does not stay reported after the camera has
\* stopped sending: the hold runs out and the poll clears it without a frame.
MotionClears == (motion.detected /\ stream = "watched") ~> (~motion.detected \/ stream # "watched")

\* What a listener saw when it was last called is never behind on the motion and
\* never misses that the stream is live, and a stream without a frame since the end
\* of a session or a stop is not live to it, whichever of frame, poll, end of
\* session, stop and change of sensitivity changed it.  Nobody is called when the
\* last frame merely grows too old.
ListenersAreCurrent ==
    told.on => /\ told.motion = motion.detected
               /\ Streaming => told.streaming
               /\ ~firstFrame => ~told.streaming
=============================================================================
