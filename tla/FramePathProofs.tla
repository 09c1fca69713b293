-------------------------- MODULE FramePathProofs --------------------------
(***************************************************************************)
(* The path of the frames, for any number of consumers, any images, any    *)
(* warm-up, confirmation and hold: it drives the fan-out by the fan-out's  *)
(* own steps, so that what is proved of FrameFanout holds on it, reports   *)
(* motion only when it is confirmed, keeps the listeners current, and      *)
(* publishes the camera's images whole or not at all.                      *)
(***************************************************************************)
EXTENDS FramePath, FrameFanoutProofs, SequenceTheorems

\* Every step of the path is one of the fan-out's or invisible to it.
LEMMA FanoutStep == ASSUME [PathNext]_pathVars PROVE [Next]_vars
<1>1. CASE UNCHANGED pathVars
  BY <1>1 DEF pathVars
<1>2. CASE SessionEnds \/ StopStream
  BY <1>2 DEF SessionEnds, StopStream, Forget, Next
<1>3. CASE MediaRecord
  BY <1>3 DEF MediaRecord, Publish, Next
<1>4. CASE ClosePath
  BY <1>4 DEF ClosePath, Next
<1>5. CASE ConsumerStep
  BY <1>5 DEF ConsumerStep, Next
<1>6. CASE StartStream \/ SessionAttach \/ BusyChanges \/ SessionClosed \/ SetMotionSensitivity
           \/ Poll \/ WatcherEnds \/ AddStateListener \/ RemoveStateListener \/ Tick
  BY <1>6 DEF StartStream, SessionAttach, BusyChanges, SessionClosed, SetMotionSensitivity, Poll,
              WatcherEnds, AddStateListener, RemoveStateListener, Tick
<1> QED BY <1>1, <1>2, <1>3, <1>4, <1>5, <1>6 DEF PathNext

\* The path implements the fan-out.
THEOREM PathIsFanout == PathSpec => Spec
<1>1. PathInit => Init
  BY DEF PathInit
<1>2. [PathNext]_pathVars => [Next]_vars
  BY FanoutStep
<1> QED BY <1>1, <1>2, PTL DEF PathSpec, Spec

\* On the whole path, from the device's records on, consumers get frames in the
\* camera's order and none twice.
THEOREM PathInOrder == PathSpec => []OnlyNewerFrames
BY PathIsFanout, FramesInOrder, PTL

\* On the whole path, a slow consumer skips ahead and never loses the newest frame.
THEOREM PathSkipsAhead == PathSpec => []NewestIsReachable
BY PathIsFanout, SlowConsumersSkipAhead, PTL

\* On the whole path, no task is left in async_wait_for_frame with a frame at hand
\* and its wait not over.
THEOREM PathWakesWaiters == PathSpec => []WaitersAreWoken
BY PathIsFanout, NobodyWaitsWithAFrame, PTL

-----------------------------------------------------------------------------
(* The listeners.                                                           *)

\* A stream that is live has had a frame since the last session was over.
ListenerInv == age \in Nat /\ (Streaming => firstFrame) /\ ListenersAreCurrent

\* A listener is current after a step that tells it, and after one that leaves
\* the motion and the event alone and does not bring the stream to life.
LEMMA NotifiedIsCurrent ==
    ASSUME ListenersAreCurrent, NEW changed \in BOOLEAN, NotifyState(changed),
           Streaming' => firstFrame',
           ~changed => /\ motion'.detected = motion.detected
                       /\ (Streaming' => Streaming) /\ (firstFrame => firstFrame')
    PROVE  ListenersAreCurrent'
<1>1. CASE changed /\ told.on
  BY <1>1 DEF NotifyState, ListenerReads, ListenersAreCurrent
<1>2. CASE ~(changed /\ told.on)
  BY <1>2 DEF NotifyState, ListenersAreCurrent
<1> QED BY <1>1, <1>2

\* The listeners are never behind on the motion, never miss that the stream is live
\* and never take it for live after the end of a session or a stop: every step of
\* the code that changes what they display, the clock's aside, tells them.
THEOREM ListenersStayCurrent == PathSpec => []ListenersAreCurrent
<1>1. PathInit => ListenerInv
  BY PathAssumption DEF PathInit, ListenerInv, ListenersAreCurrent, NoListener, Streaming
<1>2. ListenerInv /\ [PathNext]_pathVars => ListenerInv'
  <2> SUFFICES ASSUME ListenerInv, [PathNext]_pathVars PROVE ListenerInv'
    OBVIOUS
  <2> USE DEF ListenerInv
  <2>1. ASSUME UNCHANGED stateVars, firstFrame' = firstFrame PROVE ListenerInv'
    BY <2>1 DEF stateVars, ListenersAreCurrent, Streaming
  <2>2. CASE StartStream \/ SessionClosed \/ WatcherEnds \/ ConsumerStep
             \/ UNCHANGED pathVars
    <3>1. UNCHANGED stateVars
      BY <2>2 DEF StartStream, SessionClosed, WatcherEnds, ConsumerStep, pathVars
    <3>2. firstFrame' = firstFrame
      BY <2>2 DEF StartStream, SessionClosed, WatcherEnds, ConsumerStep, pathVars, vars, Subscribe,
                  Read, Leave, WaitForFrame, FrameArrived, WaitTimesOut, Return
    <3> QED BY <2>1, <3>1, <3>2
  <2>3. CASE MediaRecord
    <3>1. CASE UNCHANGED <<vars, stateVars>>
      <4>1. firstFrame' = firstFrame
        BY <3>1 DEF vars
      <4> QED BY <2>1, <3>1, <4>1
    <3>2. CASE \E frame : Publish(frame)
      <4>1. /\ NotifyState(~Streaming \/ motion'.detected # motion.detected) /\ age' = 0
            /\ firstFrame'
        BY <3>2 DEF Publish, OnFrame
      <4>2. ListenersAreCurrent'
        BY <4>1, NotifiedIsCurrent
      <4> QED BY <4>1, <4>2
    <3> QED BY <2>3, <3>1, <3>2 DEF MediaRecord
  <2>4. CASE SessionEnds \/ StopStream
    <3>1. NotifyState(TRUE) /\ age' = StallTimeout
      BY <2>4 DEF SessionEnds, StopStream, Forget
    <3>2. ~Streaming'
      BY <3>1, PathAssumption DEF Streaming
    <3>3. ListenersAreCurrent'
      BY <3>1, <3>2, NotifiedIsCurrent
    <3> QED BY <3>1, <3>2, <3>3, PathAssumption
  <2>5. CASE SetMotionSensitivity
    <3>1. /\ NotifyState(Reset(motion).detected # motion.detected) /\ age' = age
          /\ motion'.detected = Reset(motion).detected /\ firstFrame' = firstFrame
      BY <2>5 DEF SetMotionSensitivity, Reset, vars
    <3>2. Streaming' = Streaming
      BY <3>1 DEF Streaming
    <3>3. ListenersAreCurrent'
      BY <3>1, <3>2, NotifiedIsCurrent
    <3> QED BY <3>1, <3>2, <3>3
  <2>6. CASE Poll
    <3>1. /\ NotifyState(motion'.detected # motion.detected) /\ age' = age
          /\ firstFrame' = firstFrame
      BY <2>6 DEF Poll, vars
    <3>2. Streaming' = Streaming
      BY <3>1 DEF Streaming
    <3>3. ListenersAreCurrent'
      BY <3>1, <3>2, NotifiedIsCurrent
    <3> QED BY <3>1, <3>2, <3>3
  <2>7. CASE AddStateListener
    BY <2>7 DEF AddStateListener, ListenerReads, ListenersAreCurrent, Streaming, vars
  <2>8. CASE RemoveStateListener \/ ClosePath
    <3>1. /\ told' = NoListener
          /\ (age' = age /\ firstFrame' = firstFrame) \/ age' = StallTimeout
      BY <2>8 DEF RemoveStateListener, ClosePath, Forget, vars
    <3> QED BY <3>1, PathAssumption DEF NoListener, ListenersAreCurrent, Streaming
  <2>9. CASE Tick
    <3>1. /\ motion'.detected = motion.detected /\ age' \in Nat /\ age' >= age /\ told' = told
          /\ firstFrame' = firstFrame
      BY <2>9 DEF Tick, Aged, vars
    <3> QED BY <3>1, PathAssumption DEF ListenersAreCurrent, Streaming
  <2>10. CASE SessionAttach \/ BusyChanges
    <3>1. NotifyState(TRUE) /\ age' = age /\ firstFrame' = firstFrame
      BY <2>10 DEF SessionAttach, BusyChanges, vars
    <3>2. Streaming' = Streaming
      BY <3>1 DEF Streaming
    <3>3. ListenersAreCurrent'
      BY <3>1, <3>2, NotifiedIsCurrent
    <3> QED BY <3>1, <3>2, <3>3
  <2> QED BY <2>2, <2>3, <2>4, <2>5, <2>6, <2>7, <2>8, <2>9, <2>10 DEF PathNext
<1>3. ListenerInv => ListenersAreCurrent
  BY DEF ListenerInv
<1> QED BY <1>1, <1>2, <1>3, PTL DEF PathSpec

-----------------------------------------------------------------------------
(* The motion.                                                              *)

\* A detector that is held reports motion, and one that is not settled yet has
\* counted nothing.
Sound(m) ==
    /\ m \in Detectors
    /\ m.hold > 0 => m.detected
    /\ ~m.previous => m.frames = 0
    /\ ~Compared(m) => m.exceeded = 0

\* How many frames a detector has had, up to the warm-up.
Had(m) == IF m.previous THEN 1 + m.frames ELSE 0

\* The history counts what the detector counts.
MotionInv == Sound(motion) /\ sampled = Had(motion) /\ loudRun = motion.exceeded

\* What sample does, in terms of what it had counted.
LEMMA SampleEffect ==
    ASSUME NEW m, Sound(m), NEW loud \in BOOLEAN, loud => Compared(m)
    PROVE  /\ Sound(Sample(m, loud))
           /\ Had(m) \in 0..Settled /\ (Had(m) = Settled <=> Compared(m))
           /\ Had(Sample(m, loud)) = IF Had(m) < Settled THEN Had(m) + 1 ELSE Settled
           /\ Sample(m, loud).exceeded = IF loud THEN Exceeding(m) ELSE 0
           /\ ~m.detected /\ Sample(m, loud).detected =>
                 Sample(m, loud).exceeded = ConfirmingFrames
<1> USE MotionAssumption DEF Sound, Detectors
<1>0. m.frames \in 0..WarmupFrames /\ m.exceeded \in 0..ConfirmingFrames /\ m.hold \in 0..HoldTime
  OBVIOUS
<1>1. CASE ~m.previous
  <2>1. Sample(m, loud) = [m EXCEPT !.previous = TRUE] /\ ~loud /\ ~Compared(m)
    BY <1>1 DEF Sample, Compared
  <2>2. Had(m) = 0
    BY <1>1 DEF Had
  <2>3. /\ Sample(m, loud) \in Detectors /\ Sample(m, loud).previous /\ Sample(m, loud).frames = 0
        /\ Sample(m, loud).exceeded = 0 /\ Sample(m, loud).hold = m.hold
        /\ Sample(m, loud).detected = m.detected
    BY <1>0, <1>1, <2>1
  <2>4. Had(Sample(m, loud)) = 1
    BY <2>3 DEF Had
  <2>5. Sound(Sample(m, loud))
    BY <2>3 DEF Compared
  <2> QED BY <2>1, <2>2, <2>3, <2>4, <2>5 DEF Settled
<1>2. CASE m.previous /\ m.frames < WarmupFrames
  <2>1. Sample(m, loud) = [m EXCEPT !.frames = @ + 1] /\ ~loud /\ ~Compared(m)
    BY <1>2 DEF Sample, Compared
  <2>2. Had(m) = 1 + m.frames
    BY <1>2 DEF Had
  <2> QED BY <1>0, <1>2, <2>1, <2>2 DEF Had, Settled, Compared
<1>3. CASE Compared(m)
  <2>1. Had(m) = Settled /\ m.previous /\ m.frames = WarmupFrames
    BY <1>3 DEF Had, Settled, Compared
  <2>2. CASE loud
    <3> DEFINE hold == IF Exceeding(m) = ConfirmingFrames THEN HoldTime ELSE m.hold
    <3>1. Sample(m, loud) = [m EXCEPT !.exceeded = Exceeding(m), !.hold = hold, !.detected = hold > 0]
      BY <1>3, <2>1, <2>2 DEF Sample, Published
    <3>2. Exceeding(m) \in 0..ConfirmingFrames /\ hold \in 0..HoldTime
      BY <1>0 DEF Exceeding
    <3>3. ~m.detected /\ hold > 0 => Exceeding(m) = ConfirmingFrames
      BY <1>0
    <3>4. (hold > 0) \in BOOLEAN
      OBVIOUS
    <3> HIDE DEF hold
    <3>5. /\ Sample(m, loud) \in Detectors /\ Sample(m, loud).previous = m.previous
          /\ Sample(m, loud).frames = m.frames /\ Sample(m, loud).exceeded = Exceeding(m)
          /\ Sample(m, loud).hold = hold /\ Sample(m, loud).detected = (hold > 0)
      BY <1>0, <3>1, <3>2, <3>4
    <3>6. Had(Sample(m, loud)) = Settled /\ Compared(Sample(m, loud))
      BY <2>1, <3>5 DEF Had, Settled, Compared
    <3>7. Sound(Sample(m, loud))
      BY <3>5, <3>6
    <3>8. Settled \in Nat
      BY DEF Settled
    <3>9. ~m.detected /\ Sample(m, loud).detected => Sample(m, loud).exceeded = ConfirmingFrames
      BY <3>3, <3>5, Zenon
    <3>10. Had(Sample(m, loud)) = IF Had(m) < Settled THEN Had(m) + 1 ELSE Settled
      BY <2>1, <3>6, <3>8
    <3>11. Sample(m, loud).exceeded = IF loud THEN Exceeding(m) ELSE 0
      BY <2>2, <3>5
    <3> HIDE DEF Sound, Detectors
    <3> QED BY <1>3, <2>1, <3>7, <3>8, <3>9, <3>10, <3>11
  <2>3. CASE ~loud
    <3> DEFINE held == m.hold > 0
    <3>0. held \in BOOLEAN
      OBVIOUS
    <3>1. Sample(m, loud) = [m EXCEPT !.exceeded = 0, !.detected = held]
      BY <1>3, <2>1, <2>3 DEF Sample, Published
    <3>6. held <=> m.hold > 0
      OBVIOUS
    <3>7. 0 \in 0..ConfirmingFrames
      OBVIOUS
    <3> HIDE DEF held
    <3>2. /\ Sample(m, loud) \in Detectors /\ Sample(m, loud).previous = m.previous
          /\ Sample(m, loud).frames = m.frames /\ Sample(m, loud).exceeded = 0
          /\ Sample(m, loud).hold = m.hold /\ Sample(m, loud).detected = held
      BY <1>0, <3>0, <3>1, <3>7
    <3>3. Had(Sample(m, loud)) = Settled /\ Compared(Sample(m, loud))
      BY <2>1, <3>2 DEF Had, Settled, Compared
    <3>4. Sound(Sample(m, loud)) /\ (~m.detected => ~Sample(m, loud).detected)
      BY <3>2, <3>3, <3>6
    <3>5. Settled \in Nat
      BY DEF Settled
    <3> QED BY <1>3, <2>1, <2>3, <3>2, <3>3, <3>4, <3>5
  <2> QED BY <2>2, <2>3
<1> QED BY <1>0, <1>1, <1>2, <1>3 DEF Compared

\* A new detector, or one that was reset, has counted nothing.
LEMMA NewIsSound ==
    Sound(NewDetector) /\ Had(NewDetector) = 0 /\ NewDetector.exceeded = 0 /\ ~NewDetector.detected
BY MotionAssumption DEF Sound, NewDetector, Detectors, Had

\* The poll and the clock count nothing and report nothing new.
LEMMA PollEffect ==
    ASSUME NEW m, Sound(m)
    PROVE  /\ Sound(Published(m)) /\ Had(Published(m)) = Had(m)
           /\ Published(m).exceeded = m.exceeded /\ (Published(m).detected => m.detected)
<1>1. m \in Detectors /\ m.hold \in Nat /\ (m.hold > 0) \in BOOLEAN
  BY MotionAssumption DEF Sound, Detectors
<1>2. /\ Published(m) \in Detectors /\ Published(m).previous = m.previous
      /\ Published(m).frames = m.frames /\ Published(m).exceeded = m.exceeded
      /\ Published(m).hold = m.hold /\ Published(m).detected = (m.hold > 0)
  BY <1>1 DEF Detectors, Published
<1>3. Had(Published(m)) = Had(m) /\ (Compared(Published(m)) <=> Compared(m))
  BY <1>2 DEF Had, Compared
<1> QED BY <1>2, <1>3 DEF Sound

\* Time only shortens the hold.
LEMMA AgedEffect ==
    ASSUME NEW m, Sound(m)
    PROVE  /\ Sound(Aged(m)) /\ Had(Aged(m)) = Had(m)
           /\ Aged(m).exceeded = m.exceeded /\ Aged(m).detected = m.detected
BY MotionAssumption DEF Sound, Detectors, Aged, Had, Compared

\* What a step may do to the motion.
Confirmed ==
    ~motion.detected /\ motion'.detected => lastFrame' # lastFrame /\ loudRun' = ConfirmingFrames

\* A frame is sampled once, and motion comes on only as confirmed.
LEMMA PublishConfirms ==
    ASSUME MotionInv, lastFrame \in Nat, NEW frame, Publish(frame) PROVE MotionInv' /\ Confirmed
<1>1. PICK loud \in IF Compared(motion) THEN BOOLEAN ELSE {FALSE} :
         /\ motion' = Sample(motion, loud)
         /\ sampled' = IF sampled < Settled THEN sampled + 1 ELSE Settled
         /\ loudRun' = IF loud /\ sampled = Settled
                      THEN IF loudRun < ConfirmingFrames THEN loudRun + 1 ELSE loudRun
                      ELSE 0
  BY DEF Publish
<1>2. loud \in BOOLEAN /\ (loud => Compared(motion))
  BY <1>1
<1>3. /\ Sound(motion') /\ (Had(motion) = Settled <=> Compared(motion)) /\ Had(motion) \in 0..Settled
      /\ Had(motion') = IF Had(motion) < Settled THEN Had(motion) + 1 ELSE Settled
      /\ motion'.exceeded = IF loud THEN Exceeding(motion) ELSE 0
      /\ ~motion.detected /\ motion'.detected => motion'.exceeded = ConfirmingFrames
  BY <1>1, <1>2, SampleEffect DEF MotionInv
<1>4. sampled' = Had(motion')
  BY <1>1, <1>3 DEF MotionInv
<1>5. motion.exceeded \in 0..ConfirmingFrames /\ ConfirmingFrames \in Nat /\ Settled \in Nat
  BY MotionAssumption DEF MotionInv, Sound, Detectors, Settled
<1>6. loudRun' = motion'.exceeded
  <2>1. CASE loud
    <3>1. sampled = Settled
      BY <1>2, <1>3, <1>5, <2>1 DEF MotionInv
    <3>2. loudRun \in 0..ConfirmingFrames /\ motion'.exceeded = Exceeding(motion)
      BY <1>3, <1>5, <2>1 DEF MotionInv
    <3>3. loudRun' = IF loudRun < ConfirmingFrames THEN loudRun + 1 ELSE loudRun
      BY <1>1, <2>1, <3>1
    <3> QED BY <1>5, <3>2, <3>3 DEF MotionInv, Exceeding
  <2>2. CASE ~loud
    BY <1>1, <1>3, <2>2
  <2> QED BY <2>1, <2>2
<1>7. lastFrame' # lastFrame
  BY DEF Publish, OnFrame
<1> QED BY <1>3, <1>4, <1>6, <1>7 DEF MotionInv, Confirmed

\* Every step keeps the history true and reports motion only as confirmed.
LEMMA MotionStep == ASSUME MotionInv, lastFrame \in Nat, [PathNext]_pathVars PROVE MotionInv' /\ Confirmed
<1>1. ASSUME UNCHANGED <<motion, sampled, loudRun>> PROVE MotionInv' /\ Confirmed
  BY <1>1 DEF MotionInv, Confirmed
<1>2. CASE StartStream \/ SessionAttach \/ BusyChanges \/ SessionClosed \/ WatcherEnds
           \/ ConsumerStep \/ AddStateListener \/ RemoveStateListener \/ UNCHANGED pathVars
  BY <1>1, <1>2 DEF StartStream, SessionAttach, BusyChanges, SessionClosed, WatcherEnds,
                    ConsumerStep, AddStateListener, RemoveStateListener, pathVars, stateVars
<1>3. CASE MediaRecord
  <2>1. UNCHANGED stateVars \/ \E frame : Publish(frame)
    BY <1>3 DEF MediaRecord
  <2> QED BY <2>1, <1>1, PublishConfirms DEF stateVars
<1>4. CASE SessionEnds \/ StopStream \/ ClosePath \/ SetMotionSensitivity
  <2>1. \/ motion' = NewDetector /\ sampled' = 0 /\ loudRun' = 0
        \/ UNCHANGED <<motion, sampled, loudRun>>
    BY <1>4 DEF SessionEnds, StopStream, ClosePath, Forget, SetMotionSensitivity, Reset
  <2> QED BY <2>1, <1>1, NewIsSound DEF MotionInv, Confirmed
<1>5. CASE Poll
  <2>1. motion' = Published(motion) /\ sampled' = sampled /\ loudRun' = loudRun
    BY <1>5 DEF Poll
  <2> QED BY <2>1, PollEffect DEF MotionInv, Confirmed
<1>6. CASE Tick
  <2>1. motion' = Aged(motion) /\ sampled' = sampled /\ loudRun' = loudRun
    BY <1>6 DEF Tick
  <2> QED BY <2>1, AgedEffect DEF MotionInv, Confirmed
<1> QED BY <1>2, <1>3, <1>4, <1>5, <1>6 DEF PathNext

\* Motion comes on only with a frame and with ConfirmingFrames in a row over the
\* threshold since the detector was last reset and had warmed up, whatever
\* sessions, stops and changes of the sensitivity there were.
THEOREM MotionOnlyConfirmed == PathSpec => MotionIsConfirmed
<1>1. PathInit => MotionInv
  BY NewIsSound DEF PathInit, MotionInv
<1>2. MotionInv /\ TypeOK /\ [PathNext]_pathVars => MotionInv' /\ [Confirmed]_pathVars
  BY MotionStep DEF TypeOK
<1>3. PathSpec => []TypeOK
  BY PathIsFanout, TypeCorrect, PTL
<1>4. MotionIsConfirmed <=> [][Confirmed]_pathVars
  BY DEF MotionIsConfirmed, Confirmed
<1> QED BY <1>1, <1>2, <1>3, <1>4, PTL DEF PathSpec

\* Without a frame the hold of the motion is never renewed: the clock shortens it,
\* sessions, stops, polls and changes of the sensitivity do not lengthen it, and
\* the poll that finds it run out reports that the motion is over.
HoldRunsOut ==
    /\ lastFrame' = lastFrame => motion'.hold <= motion.hold
    /\ Tick /\ motion.hold > 0 => motion'.hold < motion.hold
    /\ Poll /\ motion.hold = 0 => ~motion'.detected

MotionRunsOut == [][HoldRunsOut]_pathVars

\* What the poll and the clock make of the hold.
LEMMA HoldEffect ==
    ASSUME NEW m, Sound(m)
    PROVE  /\ m.hold \in Nat /\ Published(m).hold = m.hold
           /\ m.hold = 0 => ~Published(m).detected
           /\ Aged(m).hold <= m.hold /\ (m.hold > 0 => Aged(m).hold < m.hold)
<1>1. m \in Detectors /\ m.hold \in Nat
  BY MotionAssumption DEF Sound, Detectors
<1>2. Published(m).hold = m.hold /\ (Published(m).detected <=> m.hold > 0)
  BY <1>1 DEF Published, Detectors
<1>3. Aged(m).hold = IF m.hold > 0 THEN m.hold - 1 ELSE 0
  BY <1>1 DEF Aged, Detectors
<1> QED BY <1>1, <1>2, <1>3

\* No step but a frame lengthens the hold.
LEMMA HoldStep == ASSUME MotionInv, lastFrame \in Nat, [PathNext]_pathVars PROVE HoldRunsOut
<1>0. Sound(motion)
  BY DEF MotionInv
<1>1. motion.hold \in Nat
  BY <1>0, HoldEffect
<1>2. Tick => motion' = Aged(motion)
  BY DEF Tick
<1>3. Poll => motion' = Published(motion)
  BY DEF Poll
<1>4. lastFrame' = lastFrame => motion'.hold <= motion.hold
  <2>1. CASE motion' = motion
    BY <1>1, <2>1
  <2>2. CASE StartStream \/ SessionAttach \/ BusyChanges \/ SessionClosed \/ WatcherEnds
             \/ ConsumerStep \/ AddStateListener \/ RemoveStateListener \/ UNCHANGED pathVars
    BY <2>1, <2>2 DEF StartStream, SessionAttach, BusyChanges, SessionClosed, WatcherEnds,
                      ConsumerStep, AddStateListener, RemoveStateListener, pathVars, stateVars
  <2>3. CASE MediaRecord
    <3>1. UNCHANGED stateVars \/ \E frame : Publish(frame)
      BY <2>3 DEF MediaRecord
    <3>2. CASE \E frame : Publish(frame)
      BY <3>2 DEF Publish, OnFrame
    <3> QED BY <2>1, <3>1, <3>2 DEF stateVars
  <2>4. CASE SessionEnds \/ StopStream \/ ClosePath \/ SetMotionSensitivity
    <3>1. motion' = NewDetector \/ motion' = motion
      BY <2>4 DEF SessionEnds, StopStream, ClosePath, Forget, SetMotionSensitivity, Reset
    <3>2. NewDetector.hold = 0
      BY DEF NewDetector
    <3> QED BY <1>1, <2>1, <3>1, <3>2
  <2>5. CASE Poll
    BY <1>0, <1>1, <1>3, <2>5, HoldEffect
  <2>6. CASE Tick
    BY <1>0, <1>2, <2>6, HoldEffect
  <2> QED BY <2>2, <2>3, <2>4, <2>5, <2>6 DEF PathNext
<1> QED BY <1>0, <1>2, <1>3, <1>4, HoldEffect DEF HoldRunsOut

\* The safety half of MotionClears, for any hold and any warm-up.
THEOREM MotionFades == PathSpec => MotionRunsOut
<1>1. PathInit => MotionInv
  BY NewIsSound DEF PathInit, MotionInv
<1>2. MotionInv /\ TypeOK /\ [PathNext]_pathVars => MotionInv'
  BY MotionStep DEF TypeOK
<1>3. MotionInv /\ TypeOK /\ [PathNext]_pathVars => [HoldRunsOut]_pathVars
  BY HoldStep DEF TypeOK
<1>4. PathSpec => []TypeOK
  BY PathIsFanout, TypeCorrect, PTL
<1> QED BY <1>1, <1>2, <1>3, <1>4, PTL DEF PathSpec, MotionRunsOut

-----------------------------------------------------------------------------
(* The packets of a record.                                                 *)

\* What four bytes of a record read as.
Kinds == {"number", "marker", "zeros", "soi", "data", "eoi"}
Words == [kind : Kinds, value : Nat]

\* A word is read back as it was written.
LEMMA WordIs ==
    ASSUME NEW k \in Kinds, NEW n \in Nat
    PROVE  Word(k, n) \in Words /\ Word(k, n).kind = k /\ Word(k, n).value = n
BY DEF Word, Words

\* What the search for packets does at one position, given what it finds beyond.
ExtractAt(record, f, cursor) ==
    LET found == {i \in cursor..Len(record) : record[i] = Marker}
        marker == First(found)
        header == marker - MarkerField + 1
        length == record[header - 1].value
    IN IF found = {} THEN <<>>
       ELSE IF /\ header > 1
               /\ length \in HeaderLength..MaxPacketLength
               /\ header + length <= Len(record) + 1
            THEN <<SubSeq(record, header, header + length - 1)>> \o f[header + length]
            ELSE f[marker + 1]

\* A function that satisfies the search's equations.
Extraction(record, f) == f = [cursor \in 1..(Len(record) + 1) |-> ExtractAt(record, f, cursor)]

\* The packets are what such a function gives at the first position.
LEMMA ExtractIs ==
    ASSUME NEW record PROVE ExtractMediaPackets(record) = (CHOOSE f : Extraction(record, f))[1]
BY Zenon DEF ExtractMediaPackets, ExtractAt, Extraction, Behind

\* The search stops at the first marker.
LEMMA FirstIs ==
    ASSUME NEW S, NEW m \in Int, m \in S, S \subseteq Int, \A j \in S : m <= j PROVE First(S) = m
<1>1. \E i \in S : \A j \in S : i <= j
  OBVIOUS
<1>2. First(S) \in S /\ \A j \in S : First(S) <= j
  BY <1>1 DEF First
<1>3. First(S) \in Int /\ First(S) <= m /\ m <= First(S)
  BY <1>2
<1> QED BY <1>3

\* A packet's words, from position k + 1 of a record on: the length, the header
\* that ends with the marker, the payload.
PacketAt(record, k) ==
    /\ record[k + 1].value = HeaderLength + 1 /\ record[k + 2].value = HeaderLength + 1
    /\ record[k + 6] = Marker
    /\ \A j \in 1..5 : record[k + j] # Marker

\* Where the search finds a packet, it takes it and goes on after it.
LEMMA ExtractPacket ==
    ASSUME NEW record \in Seq(Words), NEW k \in Nat, k + 7 <= Len(record), PacketAt(record, k),
           NEW cursor \in k + 1..k + 6, NEW f
    PROVE  ExtractAt(record, f, cursor) = <<SubSeq(record, k + 2, k + 7)>> \o f[k + 8]
<1> DEFINE found == {i \in cursor..Len(record) : record[i] = Marker}
<1>1. Len(record) \in Nat
  OBVIOUS
<1>2. k + 6 \in found
  BY <1>1 DEF PacketAt
<1>3. \A i \in found : i \in Int /\ k + 6 <= i
  <2> SUFFICES ASSUME NEW i \in found, i < k + 6 PROVE FALSE
    BY <1>1
  <2>1. i - k \in 1..5 /\ k + (i - k) = i
    BY <1>1
  <2> QED BY <2>1 DEF PacketAt
<1>4. First(found) = k + 6
  <2> HIDE DEF found
  <2>1. found \subseteq Int /\ k + 6 \in Int
    BY <1>3
  <2> QED BY <1>2, <1>3, <2>1, FirstIs
<1>5. (k + 6) - MarkerField + 1 = k + 2 /\ (k + 2) - 1 = k + 1
  BY DEF MarkerField
<1>6. record[k + 1].value = 6 /\ 6 \in HeaderLength..MaxPacketLength
  BY MediaAssumption DEF PacketAt, HeaderLength
<1>7. k + 2 > 1 /\ (k + 2) + 6 <= Len(record) + 1 /\ (k + 2) + 6 = k + 8 /\ (k + 2) + 6 - 1 = k + 7
  BY <1>1
<1>8. found # {}
  BY <1>2
<1> HIDE DEF found
<1> QED BY <1>4, <1>5, <1>6, <1>7, <1>8 DEF ExtractAt, found

\* If the search ever began in a payload that looks like a marker, it would take the
\* header's own length for that of a packet, which does not fit into the record if
\* the payload is its end, and reaches into the next packet if there is one.
LEMMA ExtractPayload ==
    ASSUME NEW record \in Seq(Words), NEW k \in Nat, k + 7 <= Len(record), PacketAt(record, k),
           record[k + 7] = Marker, NEW f
    PROVE  ExtractAt(record, f, k + 7) =
             IF k + 7 = Len(record) THEN f[k + 8] ELSE <<SubSeq(record, k + 3, k + 8)>> \o f[k + 9]
<1> DEFINE found == {i \in k + 7..Len(record) : record[i] = Marker}
<1>1. Len(record) \in Nat
  OBVIOUS
<1>2. k + 7 \in found /\ (\A i \in found : i \in Int /\ k + 7 <= i)
  BY <1>1
<1>4. First(found) = k + 7
  <2> HIDE DEF found
  <2>1. found \subseteq Int /\ k + 7 \in Int
    BY <1>2
  <2> QED BY <1>2, <2>1, FirstIs
<1>5. (k + 7) - MarkerField + 1 = k + 3 /\ (k + 3) - 1 = k + 2 /\ (k + 7) + 1 = k + 8
  BY DEF MarkerField
<1>6. record[k + 2].value = 6 /\ 6 \in HeaderLength..MaxPacketLength
  BY MediaAssumption DEF PacketAt, HeaderLength
<1>7. /\ k + 3 > 1 /\ (k + 3) + 6 = k + 9 /\ (k + 3) + 6 - 1 = k + 8
      /\ (k + 3) + 6 <= Len(record) + 1 <=> k + 7 # Len(record)
  BY <1>1
<1>8. found # {}
  BY <1>2
<1> HIDE DEF found
<1> QED BY <1>4, <1>5, <1>6, <1>7, <1>8 DEF ExtractAt, found

\* Where there is no marker any more, there is no packet.
LEMMA ExtractNothing ==
    ASSUME NEW record, NEW cursor, NEW f, \A i \in cursor..Len(record) : record[i] # Marker
    PROVE  ExtractAt(record, f, cursor) = <<>>
BY DEF ExtractAt

\* A function that satisfies the equations is chosen when there is one.
LEMMA ExtractionChosen ==
    ASSUME NEW record, NEW g, Extraction(record, g)
    PROVE  \E f : Extraction(record, f) /\ ExtractMediaPackets(record) = f[1]
<1>1. Extraction(record, CHOOSE f : Extraction(record, f))
  <2>1. \E f : Extraction(record, f)
    OBVIOUS
  <2> QED BY <2>1, Zenon
<1> QED BY <1>1, ExtractIs

\* A record of one packet gives that packet.
LEMMA ExtractOne ==
    ASSUME NEW record \in Seq(Words), Len(record) = 7, PacketAt(record, 0)
    PROVE  ExtractMediaPackets(record) = <<SubSeq(record, 2, 7)>>
<1> DEFINE p == SubSeq(record, 2, 7)
           g == [c \in 1..8 |-> IF c <= 6 THEN <<p>> \o <<>> ELSE <<>>]
<1>1. \A f : \A c \in 1..6 : ExtractAt(record, f, c) = <<p>> \o f[8]
  <2> TAKE f
  <2> TAKE c \in 1..6
  <2>1. c \in 0 + 1..0 + 6 /\ 0 + 7 <= Len(record) /\ 0 + 2 = 2 /\ 0 + 7 = 7 /\ 0 + 8 = 8 /\ 0 \in Nat
    OBVIOUS
  <2> HIDE DEF p
  <2>2. ExtractAt(record, f, c) = <<SubSeq(record, 0 + 2, 0 + 7)>> \o f[0 + 8]
    BY <2>1, ExtractPacket
  <2> QED BY <2>1, <2>2 DEF p
<1>2. \A f : ExtractAt(record, f, 8) = <<>>
  BY ExtractNothing
<1>3. \A f : f[8] = <<>> => ExtractAt(record, f, 7) = <<>>
  <2> TAKE f
  <2>0. 0 + 7 <= Len(record) /\ 0 + 7 = 7 /\ 0 + 8 = 8 /\ 0 \in Nat
    OBVIOUS
  <2>1. CASE record[7] = Marker
    BY <2>0, <2>1, ExtractPayload
  <2>2. CASE record[7] # Marker
    <3>1. \A i \in 7..Len(record) : record[i] # Marker
      BY <2>2
    <3> QED BY <3>1, ExtractNothing
  <2> QED BY <2>1, <2>2
<1> HIDE DEF p
<1>4. g[8] = <<>> /\ g[7] = <<>> /\ \A c \in 1..6 : g[c] = <<p>> \o g[8]
  OBVIOUS
<1>5. Extraction(record, g)
  <2>1. \A c \in 1..8 : g[c] = ExtractAt(record, g, c)
    <3> HIDE DEF g
    <3> TAKE c \in 1..8
    <3>1. c \in 1..6 \/ c = 7 \/ c = 8
      OBVIOUS
    <3> QED BY <3>1, <1>1, <1>2, <1>3, <1>4
  <2>2. DOMAIN g = 1..8 /\ g = [c \in 1..8 |-> g[c]] /\ Len(record) + 1 = 8
    OBVIOUS
  <2> HIDE DEF g
  <2>3. g = [c \in 1..8 |-> ExtractAt(record, g, c)]
    BY <2>1, <2>2
  <2> QED BY <2>2, <2>3 DEF Extraction
<1>6. PICK f : Extraction(record, f) /\ ExtractMediaPackets(record) = f[1]
  BY <1>5, ExtractionChosen
<1>7. \A c \in 1..8 : f[c] = ExtractAt(record, f, c)
  <2>1. Len(record) + 1 = 8
    OBVIOUS
  <2>2. f = [c \in 1..8 |-> ExtractAt(record, f, c)]
    BY <1>6, <2>1 DEF Extraction
  <2> QED BY <2>2, Zenon
<1>8. f[8] = <<>> /\ f[1] = <<p>> \o f[8]
  <2>1. 1 \in 1..8 /\ 8 \in 1..8 /\ 1 \in 1..6
    OBVIOUS
  <2> QED BY <1>1, <1>2, <1>7, <2>1
<1> QED BY <1>6, <1>8 DEF p

\* A record of two packets gives both, whatever the payload of the first.
LEMMA ExtractTwo ==
    ASSUME NEW record \in Seq(Words), Len(record) = 14, PacketAt(record, 0), PacketAt(record, 7)
    PROVE  ExtractMediaPackets(record) = <<SubSeq(record, 2, 7), SubSeq(record, 9, 14)>>
<1> DEFINE p == SubSeq(record, 2, 7)
           q == SubSeq(record, 9, 14)
           b == SubSeq(record, 3, 8)
           g == [c \in 1..15 |-> CASE c <= 6 -> <<p>> \o (<<q>> \o <<>>)
                                   [] c = 7 /\ record[7] = Marker -> <<b>> \o (<<q>> \o <<>>)
                                   [] c = 7 /\ record[7] # Marker -> <<q>> \o <<>>
                                   [] c \in 8..13 -> <<q>> \o <<>>
                                   [] c > 13 -> <<>>]
<1>1. \A f : \A c \in 1..6 : ExtractAt(record, f, c) = <<p>> \o f[8]
  <2> TAKE f
  <2> TAKE c \in 1..6
  <2>1. c \in 0 + 1..0 + 6 /\ 0 + 7 <= Len(record) /\ 0 + 2 = 2 /\ 0 + 7 = 7 /\ 0 + 8 = 8 /\ 0 \in Nat
    OBVIOUS
  <2> HIDE DEF p
  <2>2. ExtractAt(record, f, c) = <<SubSeq(record, 0 + 2, 0 + 7)>> \o f[0 + 8]
    BY <2>1, ExtractPacket
  <2> QED BY <2>1, <2>2 DEF p
<1>2. \A f : \A c \in 8..13 : ExtractAt(record, f, c) = <<q>> \o f[15]
  <2> TAKE f
  <2> TAKE c \in 8..13
  <2>1. c \in 7 + 1..7 + 6 /\ 7 + 7 <= Len(record) /\ 7 + 2 = 9 /\ 7 + 7 = 14 /\ 7 + 8 = 15 /\ 7 \in Nat
    OBVIOUS
  <2> HIDE DEF q
  <2>2. ExtractAt(record, f, c) = <<SubSeq(record, 7 + 2, 7 + 7)>> \o f[7 + 8]
    BY <2>1, ExtractPacket
  <2> QED BY <2>1, <2>2 DEF q
<1>3. \A f : ExtractAt(record, f, 15) = <<>>
  BY ExtractNothing
<1>4. \A f : f[15] = <<>> => ExtractAt(record, f, 14) = <<>>
  <2> TAKE f
  <2>0. 7 + 7 <= Len(record) /\ 7 + 7 = 14 /\ 7 + 8 = 15 /\ 7 \in Nat
    OBVIOUS
  <2>1. CASE record[14] = Marker
    BY <2>0, <2>1, ExtractPayload
  <2>2. CASE record[14] # Marker
    <3>1. \A i \in 14..Len(record) : record[i] # Marker
      BY <2>2
    <3> QED BY <3>1, ExtractNothing
  <2> QED BY <2>1, <2>2
<1>5. \A f : ExtractAt(record, f, 7) =
               IF record[7] = Marker THEN <<b>> \o f[9] ELSE <<q>> \o f[15]
  <2> TAKE f
  <2>1. CASE record[7] = Marker
    <3>1. /\ 0 + 7 <= Len(record) /\ 0 + 7 = 7 /\ 0 + 3 = 3 /\ 0 + 8 = 8 /\ 0 + 9 = 9 /\ 0 \in Nat
          /\ 7 # Len(record)
      OBVIOUS
    <3> QED BY <2>1, <3>1, ExtractPayload
  <2>2. CASE record[7] # Marker
    <3>1. {i \in 7..Len(record) : record[i] = Marker} = {i \in 8..Len(record) : record[i] = Marker}
      BY <2>2
    <3>2. ExtractAt(record, f, 7) = ExtractAt(record, f, 8)
      BY <3>1 DEF ExtractAt
    <3>3. 8 \in 8..13
      OBVIOUS
    <3> QED BY <1>2, <2>2, <3>2, <3>3
  <2> QED BY <2>1, <2>2
<1> HIDE DEF p, q, b
<1>6. /\ g[15] = <<>> /\ g[14] = <<>> /\ \A c \in 8..13 : g[c] = <<q>> \o g[15]
      /\ g[7] = IF record[7] = Marker THEN <<b>> \o g[9] ELSE <<q>> \o g[15]
      /\ \A c \in 1..6 : g[c] = <<p>> \o g[8]
  OBVIOUS
<1>7. Extraction(record, g)
  <2>1. \A c \in 1..15 : g[c] = ExtractAt(record, g, c)
    <3> HIDE DEF g
    <3> TAKE c \in 1..15
    <3>1. c \in 1..6 \/ c = 7 \/ c \in 8..13 \/ c = 14 \/ c = 15
      OBVIOUS
    <3> QED BY <3>1, <1>1, <1>2, <1>3, <1>4, <1>5, <1>6
  <2>2. DOMAIN g = 1..15 /\ g = [c \in 1..15 |-> g[c]] /\ Len(record) + 1 = 15
    OBVIOUS
  <2> HIDE DEF g
  <2>3. g = [c \in 1..15 |-> ExtractAt(record, g, c)]
    BY <2>1, <2>2
  <2> QED BY <2>2, <2>3 DEF Extraction
<1>8. PICK f : Extraction(record, f) /\ ExtractMediaPackets(record) = f[1]
  BY <1>7, ExtractionChosen
<1>9. \A c \in 1..15 : f[c] = ExtractAt(record, f, c)
  <2>1. Len(record) + 1 = 15
    OBVIOUS
  <2>2. f = [c \in 1..15 |-> ExtractAt(record, f, c)]
    BY <1>8, <2>1 DEF Extraction
  <2> QED BY <2>2, Zenon
<1>10. f[15] = <<>> /\ f[8] = <<q>> \o f[15] /\ f[1] = <<p>> \o f[8]
  <2>1. 1 \in 1..15 /\ 8 \in 1..15 /\ 15 \in 1..15 /\ 1 \in 1..6 /\ 8 \in 8..13
    OBVIOUS
  <2> QED BY <1>1, <1>2, <1>3, <1>9, <2>1
<1>11. <<q>> \o <<>> = <<q>>
  OBVIOUS
<1>12. <<p>> \o <<q>> = <<p, q>>
  <2>1. <<p>> \in Seq({p, q}) /\ <<q>> \in Seq({p, q}) /\ <<p, q>> \in Seq({p, q})
        /\ Len(<<p>>) = 1 /\ Len(<<q>>) = 1 /\ Len(<<p, q>>) = 2
    OBVIOUS
  <2>2. /\ <<p>> \o <<q>> \in Seq({p, q}) /\ Len(<<p>> \o <<q>>) = 2
        /\ \A i \in 1..2 : (<<p>> \o <<q>>)[i] = IF i <= 1 THEN <<p>>[i] ELSE <<q>>[i - 1]
    BY <2>1, ConcatProperties
  <2>3. \A i \in 1..2 : (<<p>> \o <<q>>)[i] = <<p, q>>[i]
    BY <2>2
  <2> QED BY <2>1, <2>2, <2>3, SeqEqual
<1> QED BY <1>8, <1>10, <1>11, <1>12 DEF p, q

-----------------------------------------------------------------------------
(* Their reassembly.                                                        *)

\* What the first n packets leave, given what the first n - 1 left.
PushAt(a, packets, f, n) ==
    LET pushed == Push(f[n - 1].assembler, packets[n])
    IN IF n = 0 THEN [frames |-> <<>>, assembler |-> a]
       ELSE [frames |-> IF pushed.frame = <<>> THEN f[n - 1].frames
                        ELSE Append(f[n - 1].frames, pushed.frame),
             assembler |-> pushed.assembler]

Pushing(a, packets, f) == f = [n \in 0..Len(packets) |-> PushAt(a, packets, f, n)]

\* A record's result is what such a function gives for all its packets.
LEMMA PushAllIs ==
    ASSUME NEW a, NEW packets
    PROVE  PushAll(a, packets) = (CHOOSE f : Pushing(a, packets, f))[Len(packets)]
BY Zenon DEF PushAll, PushAt, Pushing

\* A function that satisfies the equations is chosen when there is one.
LEMMA PushingChosen ==
    ASSUME NEW a, NEW packets, NEW g, Pushing(a, packets, g)
    PROVE  \E f : Pushing(a, packets, f) /\ PushAll(a, packets) = f[Len(packets)]
<1>1. Pushing(a, packets, CHOOSE f : Pushing(a, packets, f))
  <2>1. \E f : Pushing(a, packets, f)
    OBVIOUS
  <2> QED BY <2>1, Zenon
<1> QED BY <1>1, PushAllIs

\* The frames one packet more makes of those before it.
With(frames, frame) == IF frame = <<>> THEN frames ELSE Append(frames, frame)

\* One packet is one push.
LEMMA PushOne ==
    ASSUME NEW a, NEW p
    PROVE  PushAll(a, <<p>>) = [frames |-> With(<<>>, Push(a, p).frame), assembler |-> Push(a, p).assembler]
<1> DEFINE r0 == [frames |-> <<>>, assembler |-> a]
           r1 == [frames |-> With(<<>>, Push(a, p).frame), assembler |-> Push(a, p).assembler]
           g == [n \in 0..1 |-> IF n = 0 THEN r0 ELSE r1]
<1>1. Len(<<p>>) = 1 /\ <<p>>[1] = p
  OBVIOUS
<1>2. \A f : PushAt(a, <<p>>, f, 0) = r0
  BY DEF PushAt
<1>3. \A f : f[0] = r0 => PushAt(a, <<p>>, f, 1) = r1
  <2> SUFFICES ASSUME NEW f, f[0] = r0 PROVE PushAt(a, <<p>>, f, 1) = r1
    OBVIOUS
  <2>1. 1 # 0 /\ 1 - 1 = 0 /\ f[0].assembler = a /\ f[0].frames = <<>>
    OBVIOUS
  <2> QED BY <1>1, <2>1 DEF PushAt, With
<1> HIDE DEF r0, r1
<1>4. Pushing(a, <<p>>, g)
  <2>1. g[0] = r0 /\ g[1] = r1
    OBVIOUS
  <2>2. DOMAIN g = 0..1 /\ g = [n \in 0..1 |-> g[n]]
    OBVIOUS
  <2> HIDE DEF g
  <2>3. \A n \in 0..1 : g[n] = PushAt(a, <<p>>, g, n)
    <3> TAKE n \in 0..1
    <3>1. n = 0 \/ n = 1
      OBVIOUS
    <3> QED BY <3>1, <2>1, <1>2, <1>3
  <2>4. g = [n \in 0..1 |-> PushAt(a, <<p>>, g, n)]
    BY <2>2, <2>3
  <2> QED BY <1>1, <2>4 DEF Pushing
<1>5. PICK f : Pushing(a, <<p>>, f) /\ PushAll(a, <<p>>) = f[1]
  BY <1>1, <1>4, PushingChosen
<1>6. f = [n \in 0..1 |-> PushAt(a, <<p>>, f, n)]
  BY <1>1, <1>5 DEF Pushing
<1>7. f[0] = PushAt(a, <<p>>, f, 0) /\ f[1] = PushAt(a, <<p>>, f, 1)
  <2>1. 0 \in 0..1 /\ 1 \in 0..1
    OBVIOUS
  <2> QED BY <1>6, <2>1, Zenon
<1> QED BY <1>2, <1>3, <1>5, <1>7 DEF r1

\* Two packets are two pushes, the second on what the first left.
LEMMA PushTwo ==
    ASSUME NEW a, NEW p, NEW q, NEW b, b = Push(a, p).assembler
    PROVE  PushAll(a, <<p, q>>) =
             [frames |-> With(With(<<>>, Push(a, p).frame), Push(b, q).frame),
              assembler |-> Push(b, q).assembler]
<1> DEFINE r0 == [frames |-> <<>>, assembler |-> a]
           r1 == [frames |-> With(<<>>, Push(a, p).frame), assembler |-> b]
           r2 == [frames |-> With(With(<<>>, Push(a, p).frame), Push(b, q).frame),
                  assembler |-> Push(b, q).assembler]
           g == [n \in 0..2 |-> IF n = 0 THEN r0 ELSE IF n = 1 THEN r1 ELSE r2]
<1>1. Len(<<p, q>>) = 2 /\ <<p, q>>[1] = p /\ <<p, q>>[2] = q
  OBVIOUS
<1>2. \A f : PushAt(a, <<p, q>>, f, 0) = r0
  BY DEF PushAt
<1>3. \A f : f[0] = r0 => PushAt(a, <<p, q>>, f, 1) = r1
  <2> SUFFICES ASSUME NEW f, f[0] = r0 PROVE PushAt(a, <<p, q>>, f, 1) = r1
    OBVIOUS
  <2>1. 1 # 0 /\ 1 - 1 = 0 /\ f[0].assembler = a /\ f[0].frames = <<>>
    OBVIOUS
  <2> QED BY <1>1, <2>1 DEF PushAt, With
<1>4. \A f : f[1] = r1 => PushAt(a, <<p, q>>, f, 2) = r2
  <2> SUFFICES ASSUME NEW f, f[1] = r1 PROVE PushAt(a, <<p, q>>, f, 2) = r2
    OBVIOUS
  <2>1. 2 # 0 /\ 2 - 1 = 1 /\ f[1].assembler = b /\ f[1].frames = With(<<>>, Push(a, p).frame)
    OBVIOUS
  <2> QED BY <1>1, <2>1 DEF PushAt, With
<1> HIDE DEF r0, r1, r2
<1>5. Pushing(a, <<p, q>>, g)
  <2>1. g[0] = r0 /\ g[1] = r1 /\ g[2] = r2
    OBVIOUS
  <2>2. DOMAIN g = 0..2 /\ g = [n \in 0..2 |-> g[n]]
    OBVIOUS
  <2> HIDE DEF g
  <2>3. \A n \in 0..2 : g[n] = PushAt(a, <<p, q>>, g, n)
    <3> TAKE n \in 0..2
    <3>1. n = 0 \/ n = 1 \/ n = 2
      OBVIOUS
    <3> QED BY <3>1, <2>1, <1>2, <1>3, <1>4
  <2>4. g = [n \in 0..2 |-> PushAt(a, <<p, q>>, g, n)]
    BY <2>2, <2>3
  <2> QED BY <1>1, <2>4 DEF Pushing
<1>6. PICK f : Pushing(a, <<p, q>>, f) /\ PushAll(a, <<p, q>>) = f[2]
  BY <1>1, <1>5, PushingChosen
<1>7. f = [n \in 0..2 |-> PushAt(a, <<p, q>>, f, n)]
  BY <1>1, <1>6 DEF Pushing
<1>8. /\ f[0] = PushAt(a, <<p, q>>, f, 0) /\ f[1] = PushAt(a, <<p, q>>, f, 1)
      /\ f[2] = PushAt(a, <<p, q>>, f, 2)
  <2>1. 0 \in 0..2 /\ 1 \in 0..2 /\ 2 \in 0..2
    OBVIOUS
  <2> QED BY <1>7, <2>1, Zenon
<1> QED BY <1>2, <1>3, <1>4, <1>6, <1>8 DEF r2

\* An image of the device: at least a start and an end.
Sized(d) == d.image \in {0, 1} /\ d.size \in Nat \ {0, 1}

\* The first word of an image and no other is a start, the last and no other an end.
LEMMA ImageIs ==
    ASSUME NEW d, Sized(d)
    PROVE  /\ Image(d) \in [1..d.size -> Words]
           /\ \A i \in 1..d.size : /\ Image(d)[i].kind = "soi" <=> i = 1
                                   /\ Image(d)[i].kind = "eoi" <=> i = d.size
<1>1. \A i \in 1..d.size :
         /\ Image(d)[i] \in Words
         /\ Image(d)[i].kind = "soi" <=> i = 1
         /\ Image(d)[i].kind = "eoi" <=> i = d.size
  <2> TAKE i \in 1..d.size
  <2>1. d.image \in Nat /\ d.size # 1
    BY DEF Sized
  <2>2. CASE i = 1
    <3>1. Image(d)[i] = Word("soi", d.image)
      BY <2>1, <2>2 DEF Image
    <3>2. Image(d)[i] \in Words /\ Image(d)[i].kind = "soi"
      BY <2>1, <3>1, WordIs DEF Kinds
    <3> QED BY <2>1, <2>2, <3>2
  <2>3. CASE i = d.size
    <3>1. Image(d)[i] = Word("eoi", d.image)
      BY <2>1, <2>3 DEF Image
    <3>2. Image(d)[i] \in Words /\ Image(d)[i].kind = "eoi"
      BY <2>1, <3>1, WordIs DEF Kinds
    <3> QED BY <2>1, <2>3, <3>2
  <2>4. CASE i # 1 /\ i # d.size
    <3>1. Image(d)[i] = IF d.image = 0 THEN Marker ELSE Word("data", d.image)
      BY <2>4 DEF Image
    <3>2. Image(d)[i] = Word("marker", 0) \/ Image(d)[i] = Word("data", d.image)
      BY <3>1 DEF Marker
    <3>3. 0 \in Nat /\ "marker" \in Kinds /\ "data" \in Kinds
      BY DEF Kinds
    <3>4. Image(d)[i] \in Words /\ Image(d)[i].kind \in {"marker", "data"}
      BY <2>1, <3>2, <3>3, WordIs
    <3> QED BY <2>4, <3>4
  <2> QED BY <2>2, <2>3, <2>4
<1>2. Image(d) = [i \in 1..d.size |-> Image(d)[i]]
  BY DEF Image
<1> QED BY <1>1, <1>2

\* The words of a packet.
LEMMA PacketIs ==
    ASSUME NEW d, Sized(d), NEW i \in 1..d.size
    PROVE  /\ Packet(d, i) \in Seq(Words) /\ Len(Packet(d, i)) = 7
           /\ PacketAt(Packet(d, i), 0)
           /\ Packet(d, i)[5].value = i - 1 /\ Packet(d, i)[7] = Image(d)[i]
<1>1. \A n \in Nat : Number(n) \in Words /\ Number(n) # Marker /\ Number(n).value = n
  <2> TAKE n \in Nat
  <2>1. 0 \in Nat /\ "number" \in Kinds /\ "marker" \in Kinds
    BY DEF Kinds
  <2>2. Number(n) \in Words /\ Number(n).kind = "number" /\ Number(n).value = n /\ Marker.kind = "marker"
    BY <2>1, WordIs DEF Number, Marker
  <2> QED BY <2>2
<1>2. Marker \in Words
  <2>1. 0 \in Nat /\ "marker" \in Kinds
    BY DEF Kinds
  <2> QED BY <2>1, WordIs DEF Marker
<1>3. Image(d)[i] \in Words
  BY ImageIs
<1>4. d.image \in Nat /\ i - 1 \in Nat /\ HeaderLength + 1 \in Nat /\ 0 \in Nat
  BY DEF Sized, HeaderLength
<1> DEFINE a == Number(HeaderLength + 1)
           b == Number(0)
           c == Number(d.image)
           e == Number(i - 1)
           w == Image(d)[i]
<1>5. /\ a \in Words /\ b \in Words /\ c \in Words /\ e \in Words
      /\ a # Marker /\ b # Marker /\ c # Marker /\ e # Marker
      /\ a.value = HeaderLength + 1 /\ e.value = i - 1
  BY <1>1, <1>4
<1>6. Packet(d, i) = <<a, a, c, b, e, Marker, w>>
  BY DEF Packet
<1>7. w \in Words
  BY <1>3
<1> HIDE DEF a, b, c, e, w
<1> DEFINE p == <<a, a, c, b, e, Marker, w>>
<1>8. p \in Seq(Words) /\ Len(p) = 7
  BY <1>2, <1>5, <1>7
<1>9. p[1] = a /\ p[2] = a /\ p[3] = c /\ p[4] = b /\ p[5] = e /\ p[6] = Marker /\ p[7] = w
  OBVIOUS
<1> HIDE DEF p
<1>10. \A j \in 1..5 : p[j] # Marker
  <2> TAKE j \in 1..5
  <2>1. j = 1 \/ j = 2 \/ j = 3 \/ j = 4 \/ j = 5
    OBVIOUS
  <2> QED BY <1>5, <1>9, <2>1
<1>11. PacketAt(p, 0)
  <2>1. 0 + 1 = 1 /\ 0 + 2 = 2 /\ 0 + 6 = 6 /\ \A j \in 1..5 : 0 + j = j
    OBVIOUS
  <2> QED BY <1>5, <1>9, <1>10, <2>1 DEF PacketAt
<1>12. p[5].value = i - 1 /\ p[7] = w
  BY <1>5, <1>9
<1>13. Packet(d, i) = p
  BY <1>6 DEF p
<1> QED BY <1>8, <1>11, <1>12, <1>13 DEF w

\* What the push of word i of an image returns, and what it leaves.
Gave(a, i) == IF i = 1 THEN Flush(a) ELSE <<>>
Opened(a, i) == IF i = 1 THEN [open |-> TRUE, buffer |-> <<>>] ELSE a
Took(a, i, w) ==
    IF ~Opened(a, i).open \/ i > MaxFrameSize THEN Opened(a, i)
    ELSE [Opened(a, i) EXCEPT !.buffer = Placed(@, i - 1, <<w>>)]

\* push, of a packet that carries word i of an image.
LEMMA PushIs ==
    ASSUME NEW a, NEW p \in Seq(Words), NEW i \in Nat \ {0}, Len(p) = 6, p[4].value = i - 1,
           i = 1 => p[6].kind = "soi"
    PROVE  Push(a, p) = [frame |-> Gave(a, i), assembler |-> Took(a, i, p[6])]
<1> DEFINE payload == SubSeq(p, HeaderLength + 1, Len(p))
<1>1. payload = <<p[6]>>
  <2>0. p[6] \in Words
    <3>1. p \in [1..Len(p) -> Words]
      BY LenProperties, Zenon
    <3>2. 6 \in 1..Len(p)
      OBVIOUS
    <3> QED BY <3>1, <3>2, Zenon
  <2>1. HeaderLength + 1 = 6 /\ \A j \in 6..6 : p[j] \in Words
    BY <2>0 DEF HeaderLength
  <2>2. payload \in Seq(Words) /\ Len(payload) = 1 /\ payload[1] = p[6]
    BY <2>1, SubSeqProperties
  <2> HIDE DEF payload
  <2>3. <<p[6]>> \in Seq(Words) /\ Len(<<p[6]>>) = 1 /\ <<p[6]>>[1] = p[6]
    BY <2>1
  <2> QED BY <2>2, <2>3, SeqEqual
<1>2. ~(Len(p) <= HeaderLength) /\ OffsetField = 4 /\ (i - 1 = 0 <=> i = 1)
  BY DEF HeaderLength, OffsetField
<1> HIDE DEF payload
<1>3. Len(payload) = 1 /\ payload[1] = p[6] /\ (i - 1) + Len(payload) = i
  BY <1>1
<1>4. (i - 1 = 0 /\ payload[1].kind = "soi") <=> i = 1
  BY <1>2, <1>3
<1>5. CASE i = 1
  <2>1. /\ p[OffsetField].value = 0 /\ 0 = i - 1
    BY <1>2, <1>5
  <2> QED BY <1>1, <1>2, <1>3, <1>4, <1>5, <2>1 DEF Push, Gave, Took, Opened, payload
<1>6. CASE i # 1
  BY <1>1, <1>2, <1>3, <1>4, <1>6 DEF Push, Gave, Took, Opened, payload
<1> QED BY <1>5, <1>6

\* A record that carries word i of an image in a packet from k + 1 on.
Carries(record, k, d, i) ==
    /\ record \in Seq(Words) /\ k \in Nat /\ k + 7 <= Len(record)
    /\ Sized(d) /\ i \in 1..d.size
    /\ \A j \in 1..7 : record[k + j] = Packet(d, i)[j]

\* What a reassembler makes of it.
Pushed(record, k, d, i, a) ==
    /\ PacketAt(record, k)
    /\ Push(a, SubSeq(record, k + 2, k + 7)) =
          [frame |-> Gave(a, i), assembler |-> Took(a, i, Image(d)[i])]

\* A packet of the device in a record is found there and pushed.
LEMMA PacketPushed ==
    ASSUME NEW record, NEW k, NEW d, NEW i, NEW a, Carries(record, k, d, i)
    PROVE  Pushed(record, k, d, i, a)
<1> DEFINE p == SubSeq(record, k + 2, k + 7)
           q == Packet(d, i)
<1> USE DEF Carries
<1>1. PacketAt(q, 0) /\ q[5].value = i - 1 /\ q[7] = Image(d)[i]
  BY PacketIs
<1> HIDE DEF q
<1>2. \A j \in 1..7 : record[k + j] = q[j]
  BY DEF q
<1>3. PacketAt(record, k)
  <2>1. /\ q[1].value = HeaderLength + 1 /\ q[2].value = HeaderLength + 1 /\ q[6] = Marker
        /\ \A j \in 1..5 : q[j] # Marker
    <3>1. 0 + 1 = 1 /\ 0 + 2 = 2 /\ 0 + 6 = 6 /\ \A j \in 1..5 : 0 + j = j
      OBVIOUS
    <3> QED BY <1>1, <3>1 DEF PacketAt
  <2>2. record[k + 1] = q[1] /\ record[k + 2] = q[2] /\ record[k + 6] = q[6]
    BY <1>2
  <2>3. \A j \in 1..5 : record[k + j] = q[j]
    <3> TAKE j \in 1..5
    <3>1. j \in 1..7
      OBVIOUS
    <3> QED BY <1>2, <3>1, Zenon
  <2> QED BY <2>1, <2>2, <2>3 DEF PacketAt
<1>4. \A j \in k + 2..k + 7 : record[j] \in Words
  <2>1. record \in [1..Len(record) -> Words] /\ Len(record) \in Nat
    BY LenProperties, Zenon
  <2> TAKE j \in k + 2..k + 7
  <2>2. j \in 1..Len(record)
    BY <2>1
  <2> QED BY <2>1, <2>2, Zenon
<1>5. /\ p \in Seq(Words) /\ Len(p) = 6
      /\ \A j \in 1..6 : p[j] = record[k + 2 + j - 1]
  <2>1. k + 2 \in Int /\ k + 7 \in Int /\ k + 2 <= k + 7 /\ (k + 7) - (k + 2) + 1 = 6
    OBVIOUS
  <2> QED BY <1>4, <2>1, SubSeqProperties
<1> HIDE DEF p
<1>6. p[4] = q[5] /\ p[6] = q[7]
  <2>1. p[4] = record[k + 2 + 4 - 1] /\ p[6] = record[k + 2 + 6 - 1]
    BY <1>5
  <2>2. k + 2 + 4 - 1 = k + 5 /\ k + 2 + 6 - 1 = k + 7
    OBVIOUS
  <2>3. record[k + 5] = q[5] /\ record[k + 7] = q[7]
    BY <1>2
  <2> QED BY <2>1, <2>2, <2>3
<1>7. i \in Nat \ {0} /\ (i = 1 => Image(d)[i].kind = "soi")
  <2>1. i \in Nat \ {0}
    OBVIOUS
  <2> QED BY <2>1, ImageIs
<1>8. Push(a, p) = [frame |-> Gave(a, i), assembler |-> Took(a, i, p[6])]
  <2>1. p[4].value = i - 1 /\ (i = 1 => p[6].kind = "soi")
    BY <1>1, <1>6, <1>7
  <2> QED BY <1>5, <1>7, <2>1, PushIs, Zenon
<1> QED BY <1>1, <1>3, <1>6, <1>8 DEF p, Pushed

\* A record of one packet, through the search and the push.
LEMMA OnePacketRecord ==
    ASSUME NEW a, NEW d, Sized(d), NEW i \in 1..d.size
    PROVE  PushAll(a, ExtractMediaPackets(Packet(d, i))) =
             [frames |-> With(<<>>, Gave(a, i)), assembler |-> Took(a, i, Image(d)[i])]
<1> DEFINE r == Packet(d, i)
<1>1. r \in Seq(Words) /\ Len(r) = 7
  BY PacketIs
<1>2. \A j \in 1..7 : r[0 + j] = Packet(d, i)[j]
  OBVIOUS
<1> HIDE DEF r
<1>3. 0 \in Nat /\ 0 + 7 <= Len(r) /\ 0 + 2 = 2 /\ 0 + 7 = 7
  BY <1>1
<1>4. /\ PacketAt(r, 0)
      /\ Push(a, SubSeq(r, 2, 7)) = [frame |-> Gave(a, i), assembler |-> Took(a, i, Image(d)[i])]
  <2>1. Pushed(r, 0, d, i, a)
    <3>1. Carries(r, 0, d, i)
      BY <1>1, <1>2, <1>3 DEF Carries
    <3> QED BY <3>1, PacketPushed, Zenon
  <2> QED BY <1>3, <2>1 DEF Pushed
<1>5. ExtractMediaPackets(r) = <<SubSeq(r, 2, 7)>>
  BY <1>1, <1>4, ExtractOne
<1>6. PushAll(a, ExtractMediaPackets(r)) =
         [frames |-> With(<<>>, Gave(a, i)), assembler |-> Took(a, i, Image(d)[i])]
  <2>1. Push(a, SubSeq(r, 2, 7)).frame = Gave(a, i)
        /\ Push(a, SubSeq(r, 2, 7)).assembler = Took(a, i, Image(d)[i])
    BY <1>4
  <2> QED BY <1>5, <2>1, PushOne, Zenon
<1> QED BY <1>6 DEF r

\* A record of two packets, through the search and both pushes.
LEMMA TwoPacketRecord ==
    ASSUME NEW a, NEW d, Sized(d), NEW i \in 1..d.size, NEW e, Sized(e), NEW j \in 1..e.size,
           NEW b, b = Took(a, i, Image(d)[i])
    PROVE  PushAll(a, ExtractMediaPackets(Packet(d, i) \o Packet(e, j))) =
             [frames |-> With(With(<<>>, Gave(a, i)), Gave(b, j)),
              assembler |-> Took(b, j, Image(e)[j])]
<1> DEFINE p == Packet(d, i)
           q == Packet(e, j)
           r == p \o q
<1>1. p \in Seq(Words) /\ Len(p) = 7 /\ q \in Seq(Words) /\ Len(q) = 7
  BY PacketIs
<1> HIDE DEF p, q
<1>2. r \in Seq(Words) /\ Len(r) = 14 /\ \A m \in 1..14 : r[m] = IF m <= 7 THEN p[m] ELSE q[m - 7]
  <2>1. /\ r \in Seq(Words) /\ Len(r) = Len(p) + Len(q)
        /\ \A m \in 1..Len(p) + Len(q) : r[m] = IF m <= Len(p) THEN p[m] ELSE q[m - Len(p)]
    BY <1>1, ConcatProperties, Zenon
  <2> HIDE DEF r
  <2>2. Len(p) + Len(q) = 14
    BY <1>1
  <2> QED BY <1>1, <2>1, <2>2
<1> HIDE DEF r
<1>3. \A m \in 1..7 : r[0 + m] = p[m] /\ r[7 + m] = q[m]
  <2> TAKE m \in 1..7
  <2>1. m \in 1..14 /\ m <= 7 /\ 0 + m = m
    OBVIOUS
  <2>2. PICK k \in 1..14 : k = 7 + m /\ ~(k <= 7) /\ k - 7 = m
    OBVIOUS
  <2>3. r[m] = p[m]
    BY <1>2, <2>1
  <2>4. r[k] = q[k - 7]
    BY <1>2, <2>2
  <2> QED BY <2>1, <2>2, <2>3, <2>4
<1>4. /\ 0 \in Nat /\ 7 \in Nat /\ 0 + 7 <= Len(r) /\ 7 + 7 <= Len(r)
      /\ 0 + 2 = 2 /\ 0 + 7 = 7 /\ 7 + 2 = 9 /\ 7 + 7 = 14
  BY <1>2
<1>5. /\ PacketAt(r, 0)
      /\ Push(a, SubSeq(r, 2, 7)) = [frame |-> Gave(a, i), assembler |-> Took(a, i, Image(d)[i])]
  <2>1. Pushed(r, 0, d, i, a)
    <3>1. \A m \in 1..7 : r[0 + m] = Packet(d, i)[m]
      BY <1>3 DEF p
    <3>2. Carries(r, 0, d, i)
      BY <1>2, <1>4, <3>1 DEF Carries
    <3> QED BY <3>2, PacketPushed, Zenon
  <2> QED BY <1>4, <2>1 DEF Pushed
<1>6. /\ PacketAt(r, 7)
      /\ Push(b, SubSeq(r, 9, 14)) = [frame |-> Gave(b, j), assembler |-> Took(b, j, Image(e)[j])]
  <2>1. Pushed(r, 7, e, j, b)
    <3>1. \A m \in 1..7 : r[7 + m] = Packet(e, j)[m]
      BY <1>3 DEF q
    <3>2. Carries(r, 7, e, j)
      BY <1>2, <1>4, <3>1 DEF Carries
    <3> QED BY <3>2, PacketPushed, Zenon
  <2> QED BY <1>4, <2>1 DEF Pushed
<1>7. ExtractMediaPackets(r) = <<SubSeq(r, 2, 7), SubSeq(r, 9, 14)>>
  BY <1>2, <1>5, <1>6, ExtractTwo
<1>8. b = Push(a, SubSeq(r, 2, 7)).assembler
  BY <1>5
<1>9. PushAll(a, ExtractMediaPackets(r)) =
         [frames |-> With(With(<<>>, Gave(a, i)), Gave(b, j)),
          assembler |-> Took(b, j, Image(e)[j])]
  <2>1. /\ Push(a, SubSeq(r, 2, 7)).frame = Gave(a, i)
        /\ Push(b, SubSeq(r, 9, 14)).frame = Gave(b, j)
        /\ Push(b, SubSeq(r, 9, 14)).assembler = Took(b, j, Image(e)[j])
    BY <1>5, <1>6
  <2> DEFINE x == SubSeq(r, 2, 7)
             y == SubSeq(r, 9, 14)
  <2>2. b = Push(a, x).assembler
    BY <1>8
  <2> HIDE DEF x, y
  <2>3. PushAll(a, <<x, y>>) =
          [frames |-> With(With(<<>>, Push(a, x).frame), Push(b, y).frame),
           assembler |-> Push(b, y).assembler]
    BY <2>2, PushTwo
  <2> QED BY <1>7, <2>1, <2>3, Zenon DEF x, y
<1> QED BY <1>9 DEF r, p, q

\* A reassembler, and the word a push writes into its buffer.
Assemblers == [open : BOOLEAN, buffer : Seq(Words)]

\* The buffer q is b with the word w in place i.
IsPlaced(q, b, i, w) ==
    /\ q \in Seq(Words)
    /\ Len(q) = IF i > Len(b) THEN i ELSE Len(b)
    /\ q[i] = w
    /\ \A j \in 1..Len(b) : j # i => q[j] = b[j]

\* A word is written in its place and nowhere else.
LEMMA PlacedIs ==
    ASSUME NEW b \in Seq(Words), NEW i \in Nat \ {0}, NEW w \in Words
    PROVE  IsPlaced(Placed(b, i - 1, <<w>>), b, i, w)
<1> DEFINE n == IF i > Len(b) THEN i ELSE Len(b)
           q == Placed(b, i - 1, <<w>>)
           g(j) == CASE j \in (i - 1) + 1..(i - 1) + 1 -> <<w>>[j - (i - 1)]
                     [] j \notin (i - 1) + 1..(i - 1) + 1 /\ j <= Len(b) -> b[j]
                     [] OTHER -> Zeros
<1>1. Len(<<w>>) = 1 /\ <<w>>[1] = w /\ Len(b) \in Nat /\ b \in [1..Len(b) -> Words]
  BY LenProperties
<1>2. (i - 1) + 1 = i /\ (\A j \in Nat : j \in (i - 1) + 1..(i - 1) + 1 <=> j = i) /\ n \in Nat /\ i \in 1..n
  BY <1>1
<1>3. q = [j \in 1..n |-> g(j)]
  <2>1. (i - 1) + Len(<<w>>) > Len(b) <=> i > Len(b)
    BY <1>1
  <2>2. CASE i > Len(b)
    BY <1>1, <1>2, <2>1, <2>2, Zenon DEF Placed
  <2>3. CASE ~(i > Len(b))
    BY <1>1, <2>1, <2>3, Zenon DEF Placed
  <2> QED BY <2>2, <2>3
<1>4. \A j \in 1..n : /\ j = i => g(j) = w
                      /\ j # i /\ j <= Len(b) => g(j) = b[j]
                      /\ j # i /\ ~(j <= Len(b)) => g(j) = Zeros
  BY <1>1, <1>2
<1>5. Zeros \in Words
  <2>1. 0 \in Nat /\ "zeros" \in Kinds
    BY DEF Kinds
  <2> QED BY <2>1, WordIs DEF Zeros
<1> HIDE DEF g, q
<1>6. \A j \in 1..n : g(j) \in Words
  BY <1>1, <1>4, <1>5
<1> HIDE DEF n
<1>7. q \in [1..n -> Words] /\ \A j \in 1..n : q[j] = g(j)
  BY <1>3, <1>6
<1>8. q \in Seq(Words) /\ Len(q) = n
  BY <1>2, <1>7
<1>9. q[i] = w
  BY <1>2, <1>4, <1>7
<1>10. \A j \in 1..Len(b) : j # i => q[j] = b[j]
  <2> TAKE j \in 1..Len(b)
  <2>1. j \in 1..n /\ j <= Len(b)
    BY <1>1 DEF n
  <2> QED BY <1>4, <1>7, <2>1
<1>11. IsPlaced(q, b, i, w)
  BY <1>8, <1>9, <1>10 DEF IsPlaced, n
<1> QED BY <1>11 DEF q

\* A reassembler stays one, and within MAX_FRAME_SIZE.
LEMMA TookIs ==
    ASSUME NEW a \in Assemblers, Len(a.buffer) <= MaxFrameSize, NEW i \in Nat \ {0}, NEW w \in Words
    PROVE  /\ Took(a, i, w) \in Assemblers /\ Len(Took(a, i, w).buffer) <= MaxFrameSize
           /\ Took(a, i, w).open = Opened(a, i).open
           /\ Opened(a, i) \in Assemblers
           /\ Took(a, i, w).buffer = IF ~Opened(a, i).open \/ i > MaxFrameSize THEN Opened(a, i).buffer
                                     ELSE Placed(Opened(a, i).buffer, i - 1, <<w>>)
<1> DEFINE o == Opened(a, i)
<1>0. MaxFrameSize \in Nat
  BY MediaAssumption
<1>1. o \in Assemblers /\ Len(o.buffer) <= MaxFrameSize
  <2>1. CASE i = 1
    <3>1. <<>> \in Seq(Words) /\ Len(<<>>) = 0
      OBVIOUS
    <3>2. o = [open |-> TRUE, buffer |-> <<>>]
      BY <2>1 DEF Opened
    <3> QED BY <1>0, <3>1, <3>2 DEF Assemblers
  <2>2. CASE i # 1
    BY <2>2 DEF Opened
  <2> QED BY <2>1, <2>2
<1> HIDE DEF o
<1>2. CASE ~o.open \/ i > MaxFrameSize
  <2>1. Took(a, i, w) = o
    BY <1>2 DEF Took, o
  <2> QED BY <1>1, <1>2, <2>1 DEF o
<1>3. CASE ~(~o.open \/ i > MaxFrameSize)
  <2> DEFINE b == Placed(o.buffer, i - 1, <<w>>)
  <2>1. o.buffer \in Seq(Words) /\ o = [open |-> o.open, buffer |-> o.buffer] /\ o.open \in BOOLEAN
    BY <1>1 DEF Assemblers
  <2>2. b \in Seq(Words) /\ Len(b) = IF i > Len(o.buffer) THEN i ELSE Len(o.buffer)
    <3>1. IsPlaced(b, o.buffer, i, w)
      BY <2>1, PlacedIs
    <3> QED BY <3>1 DEF IsPlaced
  <2>3. Took(a, i, w) = [o EXCEPT !.buffer = b]
    BY <1>3 DEF Took, o
  <2> HIDE DEF b
  <2>4. Took(a, i, w) \in Assemblers /\ Took(a, i, w).buffer = b /\ Took(a, i, w).open = o.open
    BY <1>1, <2>2, <2>3 DEF Assemblers
  <2>5. Len(b) <= MaxFrameSize
    BY <1>0, <1>1, <1>3, <2>2
  <2> QED BY <1>1, <1>3, <2>4, <2>5 DEF o, b
<1> QED BY <1>2, <1>3

-----------------------------------------------------------------------------
(* What the device sends.                                                   *)

\* The device while a session listens.
Devices == [image : {0, 1}, size : ImageSizes, sent : SUBSET Nat, whole : BOOLEAN]
Sending(d) == d \in Devices /\ d.sent \subseteq 1..d.size

After(e, i) == [e EXCEPT !.sent = @ \union {i}]

\* After d the device may send word i of image e: the image it is sending, or the
\* next one once that is complete.
Sends(d, e, i) ==
    /\ Sending(e) /\ i \in Ready(e) /\ i \in 1..e.size \ e.sent
    /\ \/ e = d /\ d.sent # 1..d.size
       \/ d.sent = 1..d.size /\ e.image = 1 - d.image /\ e.sent = {} /\ e.whole

\* An image is its size and its number.
LEMMA SameImage ==
    ASSUME NEW d, NEW e, d.size = e.size, d.image = e.image PROVE Image(d) = Image(e)
BY DEF Image

\* Sending a word.
LEMMA AfterIs ==
    ASSUME NEW e, NEW i, Sending(e), i \in 1..e.size
    PROVE  /\ Sending(After(e, i)) /\ Sized(e) /\ Sized(After(e, i))
           /\ After(e, i).image = e.image /\ After(e, i).size = e.size
           /\ After(e, i).sent = e.sent \union {i} /\ After(e, i).whole = e.whole
           /\ Image(After(e, i)) = Image(e)
<1>1. /\ e \in Devices /\ e.sent \subseteq 1..e.size /\ e.size \in Nat \ {0, 1}
      /\ e.image \in {0, 1} /\ e.size \in ImageSizes
  BY PathAssumption DEF Sending, Devices
<1>2. e.sent \union {i} \in SUBSET Nat /\ e.sent \union {i} \subseteq 1..e.size
  BY <1>1
<1>3. /\ After(e, i) \in Devices
      /\ After(e, i).image = e.image /\ After(e, i).size = e.size
      /\ After(e, i).sent = e.sent \union {i} /\ After(e, i).whole = e.whole
  BY <1>1, <1>2 DEF After, Devices
<1>4. Image(After(e, i)) = Image(e)
  BY <1>3, SameImage
<1>5. Sending(After(e, i))
  BY <1>2, <1>3 DEF Sending
<1>6. Sized(e) /\ Sized(After(e, i))
  BY <1>1, <1>3 DEF Sized
<1> QED BY <1>3, <1>4, <1>5, <1>6

\* Every chunk of the device is one of these.
LEMMA ChunkIs ==
    ASSUME NEW d, Sending(d), NEW c \in Chunks(d)
    PROVE  \E e, i : Sends(d, e, i) /\ c.words = Packet(e, i) /\ c.device = After(e, i)
<1> DEFINE images == IF d.sent = 1..d.size THEN {NextImage(d, s) : s \in ImageSizes} ELSE {d}
<1>1. PICK e \in images : c \in {[words |-> Packet(e, i), device |-> [e EXCEPT !.sent = @ \union {i}]] : i \in Ready(e)}
  BY DEF Chunks
<1>2. PICK i \in Ready(e) : c = [words |-> Packet(e, i), device |-> After(e, i)]
  BY <1>1 DEF After
<1>3. /\ Sending(e)
      /\ \/ e = d /\ d.sent # 1..d.size
         \/ d.sent = 1..d.size /\ e.image = 1 - d.image /\ e.sent = {} /\ e.whole
  <2>1. CASE d.sent = 1..d.size
    <3>1. PICK s \in ImageSizes : e = NextImage(d, s)
      BY <1>1, <2>1
    <3>2. d.image \in {0, 1} /\ 1 - d.image \in {0, 1}
      BY DEF Sending, Devices
    <3>3. /\ e = [image |-> 1 - d.image, size |-> s, sent |-> {}, whole |-> TRUE]
      BY <3>1 DEF NextImage
    <3>4. e \in Devices
      BY <3>2, <3>3 DEF Devices
    <3>5. e.sent = {} /\ e.image = 1 - d.image /\ e.whole
      BY <3>3
    <3> QED BY <2>1, <3>4, <3>5 DEF Sending
  <2>2. CASE d.sent # 1..d.size
    BY <1>1, <2>2
  <2> QED BY <2>1, <2>2
<1>4. i \in 1..e.size \ e.sent
  <2>1. e.size \in Nat \ {0, 1}
    BY <1>3, PathAssumption DEF Sending, Devices
  <2> QED BY <2>1 DEF Ready
<1>5. Sends(d, e, i)
  BY <1>3, <1>4 DEF Sends
<1>6. c.words = Packet(e, i) /\ c.device = After(e, i)
  BY <1>2
<1> QED BY <1>5, <1>6

\* What a record of one packet does to the device and the reassembler, and what
\* one of two.
OneChunk(d, a, e, i, dd, result) ==
    /\ Sends(d, e, i) /\ dd = After(e, i)
    /\ result = [frames |-> With(<<>>, Gave(a, i)), assembler |-> Took(a, i, Image(e)[i])]
TwoChunks(d, a, e, i, f, j, dd, result) ==
    LET b == Took(a, i, Image(e)[i])
    IN /\ Sends(d, e, i) /\ Sends(After(e, i), f, j) /\ dd = After(f, j)
       /\ result = [frames |-> With(With(<<>>, Gave(a, i)), Gave(b, j)),
                    assembler |-> Took(b, j, Image(f)[j])]

\* Every record of the device is one of these.
LEMMA RecordIs ==
    ASSUME NEW d, Sending(d), NEW a, NEW record \in Records(d), NEW result,
           result = PushAll(a, ExtractMediaPackets(record.words))
    PROVE  \/ \E e, i : OneChunk(d, a, e, i, record.device, result)
           \/ \E e, i, f, j : TwoChunks(d, a, e, i, f, j, record.device, result)
<1>1. CASE record \in Chunks(d)
  <2>1. PICK e, i : Sends(d, e, i) /\ record.words = Packet(e, i) /\ record.device = After(e, i)
    BY <1>1, ChunkIs
  <2>2. Sized(e) /\ i \in 1..e.size
    BY <2>1, AfterIs DEF Sends
  <2>3. result = [frames |-> With(<<>>, Gave(a, i)), assembler |-> Took(a, i, Image(e)[i])]
    BY <2>1, <2>2, OnePacketRecord
  <2>4. OneChunk(d, a, e, i, record.device, result)
    BY <2>1, <2>3 DEF OneChunk
  <2> QED BY <2>4
<1>2. CASE record \notin Chunks(d)
  <2>1. PICK c \in Chunks(d) :
           record \in {[words |-> c.words \o b.words, device |-> b.device] : b \in Chunks(c.device)}
    BY <1>2 DEF Records
  <2>2. PICK b \in Chunks(c.device) : record = [words |-> c.words \o b.words, device |-> b.device]
    BY <2>1
  <2>3. PICK e, i : Sends(d, e, i) /\ c.words = Packet(e, i) /\ c.device = After(e, i)
    BY ChunkIs
  <2>4. Sized(e) /\ i \in 1..e.size /\ Sending(After(e, i))
    BY <2>3, AfterIs DEF Sends
  <2>5. PICK f, j : Sends(After(e, i), f, j) /\ b.words = Packet(f, j) /\ b.device = After(f, j)
    BY <2>3, <2>4, ChunkIs
  <2>6. Sized(f) /\ j \in 1..f.size
    BY <2>5, AfterIs DEF Sends
  <2>7. record.words = Packet(e, i) \o Packet(f, j) /\ record.device = After(f, j)
    BY <2>2, <2>3, <2>5
  <2> DEFINE t == Took(a, i, Image(e)[i])
  <2>8. result = [frames |-> With(With(<<>>, Gave(a, i)), Gave(t, j)),
                  assembler |-> Took(t, j, Image(f)[j])]
    <3>1. \A x : x = t => PushAll(a, ExtractMediaPackets(Packet(e, i) \o Packet(f, j))) =
                             [frames |-> With(With(<<>>, Gave(a, i)), Gave(x, j)),
                              assembler |-> Took(x, j, Image(f)[j])]
      BY <2>4, <2>6, TwoPacketRecord
    <3> QED BY <2>7, <3>1
  <2>9. TwoChunks(d, a, e, i, f, j, record.device, result)
    BY <2>3, <2>5, <2>7, <2>8 DEF TwoChunks
  <2> QED BY <2>9
<1> QED BY <1>1, <1>2

-----------------------------------------------------------------------------
(* Type correctness of the path.                                            *)

\* The session, the device and the reassembler.
MediaInv ==
    /\ link \in {"off", "live", "closing"} /\ stream \in {"stopped", "watched", "unwatched"}
    /\ link = "off" => device = NoImage
    /\ link # "off" => Sending(device)
    /\ assembler \in Assemblers /\ Len(assembler.buffer) <= MaxFrameSize

\* A record leaves the device sending and the reassembler within its limit.
LEMMA RecordTyped ==
    ASSUME MediaInv, MediaRecord
    PROVE  /\ Sending(device') /\ link # "off" /\ link' = link /\ stream' = stream
           /\ assembler' \in Assemblers /\ Len(assembler'.buffer) <= MaxFrameSize
<1>1. link # "off" /\ link' = link /\ stream' = stream
  BY DEF MediaRecord
<1>2. PICK record \in Records(device) :
         /\ device' = record.device
         /\ assembler' = PushAll(assembler, ExtractMediaPackets(record.words)).assembler
  BY DEF MediaRecord
<1>3. PICK result : result = PushAll(assembler, ExtractMediaPackets(record.words))
  OBVIOUS
<1>4. Sending(device) /\ assembler \in Assemblers /\ Len(assembler.buffer) <= MaxFrameSize
  BY <1>1 DEF MediaInv
<1>5. ASSUME NEW d, NEW e, NEW i, Sends(d, e, i)
      PROVE  i \in Nat \ {0} /\ Image(e)[i] \in Words /\ Sending(After(e, i))
  <2>1. i \in 1..e.size /\ Sending(e)
    BY <1>5 DEF Sends
  <2>2. Sized(e) /\ Sending(After(e, i))
    BY <2>1, AfterIs
  <2>3. e.size \in Nat
    BY <2>2 DEF Sized
  <2> QED BY <2>1, <2>2, <2>3, ImageIs
<1>6. CASE \E e, i : OneChunk(device, assembler, e, i, record.device, result)
  <2>1. PICK e, i : OneChunk(device, assembler, e, i, record.device, result)
    BY <1>6
  <2>2. Sends(device, e, i) /\ device' = After(e, i) /\ assembler' = Took(assembler, i, Image(e)[i])
    BY <1>2, <1>3, <2>1 DEF OneChunk
  <2>3. i \in Nat \ {0} /\ Image(e)[i] \in Words /\ Sending(After(e, i))
    BY <1>5, <2>2
  <2>4. assembler' \in Assemblers /\ Len(assembler'.buffer) <= MaxFrameSize
    BY <1>4, <2>2, <2>3, TookIs
  <2> QED BY <1>1, <2>2, <2>3, <2>4
<1>7. CASE \E e, i, f, j : TwoChunks(device, assembler, e, i, f, j, record.device, result)
  <2>1. PICK e, i, f, j : TwoChunks(device, assembler, e, i, f, j, record.device, result)
    BY <1>7
  <2>2. PICK b : b = Took(assembler, i, Image(e)[i])
    OBVIOUS
  <2>3. /\ Sends(device, e, i) /\ Sends(After(e, i), f, j) /\ device' = After(f, j)
        /\ assembler' = Took(b, j, Image(f)[j])
    BY <1>2, <1>3, <2>1, <2>2 DEF TwoChunks
  <2>4. i \in Nat \ {0} /\ Image(e)[i] \in Words /\ j \in Nat \ {0} /\ Image(f)[j] \in Words
    BY <1>5, <2>3
  <2>5. b \in Assemblers /\ Len(b.buffer) <= MaxFrameSize
    BY <1>4, <2>2, <2>4, TookIs
  <2>6. assembler' \in Assemblers /\ Len(assembler'.buffer) <= MaxFrameSize
    BY <2>3, <2>4, <2>5, TookIs
  <2> QED BY <1>1, <1>5, <2>3, <2>6
<1> QED BY <1>3, <1>4, <1>6, <1>7, RecordIs

\* Nothing written yet.
LEMMA NoFrameTyped == NoFrame \in Assemblers /\ Len(NoFrame.buffer) <= MaxFrameSize
<1>1. <<>> \in Seq(Words) /\ Len(<<>>) = 0 /\ MaxFrameSize \in Nat
  BY MediaAssumption
<1>2. NoFrame.buffer = <<>> /\ NoFrame \in Assemblers
  BY <1>1 DEF NoFrame, Assemblers
<1> QED BY <1>1, <1>2

\* Every step keeps them typed.
LEMMA MediaStep == ASSUME MediaInv, [PathNext]_pathVars PROVE MediaInv'
<1>1. CASE SessionAttach
  <2>0. PICK size \in ImageSizes : \E sent \in SUBSET (1..size) :
           device' = [NextImage(device, size) EXCEPT !.sent = sent, !.whole = sent = {}]
    BY <1>1 DEF SessionAttach
  <2>1. PICK sent \in SUBSET (1..size) :
           device' = [NextImage(device, size) EXCEPT !.sent = sent, !.whole = sent = {}]
    BY <2>0
  <2>2. PICK whole \in BOOLEAN : whole = (sent = {})
    OBVIOUS
  <2>3. link' = "live" /\ device = NoImage /\ assembler' = NoFrame /\ stream' = stream
    BY <1>1 DEF SessionAttach, MediaInv
  <2>4. device' = [[image |-> 1, size |-> size, sent |-> {}, whole |-> TRUE]
                     EXCEPT !.sent = sent, !.whole = whole]
    <3>1. NextImage(device, size) = [image |-> 1, size |-> size, sent |-> {}, whole |-> TRUE]
      BY <2>3 DEF NextImage, NoImage
    <3>2. device' = [NextImage(device, size) EXCEPT !.sent = sent, !.whole = whole]
      BY <2>1, <2>2, Zenon
    <3> QED BY <3>1, <3>2, Zenon
  <2>5. sent \in SUBSET Nat /\ 1 \in {0, 1}
    BY PathAssumption
  <2>6. device' \in Devices /\ device'.sent = sent /\ device'.size = size
    <3>1. device'.sent = sent /\ device'.size = size
      BY <2>4
    <3>2. device' \in Devices
      BY <2>4, <2>5 DEF Devices
    <3> QED BY <3>1, <3>2
  <2>7. Sending(device')
    BY <2>6 DEF Sending
  <2> QED BY <2>3, <2>7, NoFrameTyped DEF MediaInv
<1>2. CASE MediaRecord
  BY <1>2, RecordTyped DEF MediaInv
<1>3. CASE SessionEnds
  BY <1>3 DEF SessionEnds, MediaInv, mediaVars
<1>4. CASE SessionClosed
  <2>1. link' = "off" /\ device' = NoImage /\ assembler' = NoFrame /\ stream' = stream
    BY <1>4 DEF SessionClosed
  <2> QED BY <2>1, NoFrameTyped DEF MediaInv
<1>5. CASE StartStream \/ StopStream \/ ClosePath \/ WatcherEnds
  <2>1. UNCHANGED <<link, device, assembler>> /\ stream' \in {"stopped", "watched", "unwatched"}
    BY <1>5 DEF StartStream, StopStream, ClosePath, WatcherEnds, mediaVars
  <2> QED BY <2>1 DEF MediaInv
<1>6. CASE BusyChanges \/ SetMotionSensitivity \/ Poll \/ AddStateListener \/ RemoveStateListener
           \/ Tick \/ ConsumerStep \/ UNCHANGED pathVars
  <2>1. UNCHANGED <<link, device, assembler, stream>>
    BY <1>6 DEF BusyChanges, SetMotionSensitivity, Poll, AddStateListener, RemoveStateListener,
                Tick, ConsumerStep, pathVars, mediaVars
  <2> QED BY <2>1 DEF MediaInv
<1> QED BY <1>1, <1>2, <1>3, <1>4, <1>5, <1>6 DEF PathNext

\* What the listeners are told of.
Told == [on : BOOLEAN, streaming : BOOLEAN, motion : BOOLEAN]
StateInv == age \in 0..StallTimeout /\ told \in Told

\* A step that tells the listeners tells them truth values.
LEMMA NotifiedTyped ==
    ASSUME told \in Told, MotionInv', NEW changed, NotifyState(changed) PROVE told' \in Told
<1>1. motion'.detected \in BOOLEAN
  BY DEF MotionInv, Sound, Detectors
<1>2. Streaming' \in BOOLEAN
  BY DEF Streaming
<1>3. ListenerReads' \in Told
  BY <1>1, <1>2 DEF ListenerReads, Told
<1> QED BY <1>3 DEF NotifyState

\* Every step keeps the age and the listeners typed.
LEMMA StateStep ==
    ASSUME StateInv, MotionInv, MotionInv', [PathNext]_pathVars PROVE StateInv'
<1>0. StallTimeout \in Nat \ {0} /\ 0 \in 0..StallTimeout /\ StallTimeout \in 0..StallTimeout
  BY PathAssumption
<1>1. CASE StartStream \/ SessionClosed \/ WatcherEnds \/ ConsumerStep \/ UNCHANGED pathVars
  BY <1>1 DEF StartStream, SessionClosed, WatcherEnds, ConsumerStep, pathVars, stateVars, StateInv
<1>2. CASE SessionAttach \/ BusyChanges \/ SetMotionSensitivity \/ Poll
  <2>1. age' = age /\ \E changed : NotifyState(changed)
    BY <1>2 DEF SessionAttach, BusyChanges, SetMotionSensitivity, Poll
  <2> QED BY <2>1, NotifiedTyped DEF StateInv
<1>3. CASE SessionEnds \/ StopStream
  <2>1. age' = StallTimeout /\ NotifyState(TRUE)
    BY <1>3 DEF SessionEnds, StopStream, Forget
  <2> QED BY <1>0, <2>1, NotifiedTyped DEF StateInv
<1>4. CASE MediaRecord
  <2>1. UNCHANGED stateVars \/ (age' = 0 /\ \E changed : NotifyState(changed))
    BY <1>4 DEF MediaRecord, Publish
  <2> QED BY <1>0, <2>1, NotifiedTyped DEF StateInv, stateVars
<1>5. CASE ClosePath \/ RemoveStateListener
  <2>1. told' = NoListener /\ age' \in {age, StallTimeout}
    BY <1>5 DEF ClosePath, RemoveStateListener, Forget
  <2>2. NoListener \in Told
    BY DEF NoListener, Told
  <2> QED BY <1>0, <2>1, <2>2 DEF StateInv
<1>6. CASE AddStateListener
  <2>1. age' = age /\ told' = ListenerReads
    BY <1>6 DEF AddStateListener
  <2>2. motion.detected \in BOOLEAN /\ Streaming \in BOOLEAN
    BY DEF MotionInv, Sound, Detectors, Streaming
  <2> QED BY <2>1, <2>2 DEF StateInv, ListenerReads, Told
<1>7. CASE Tick
  <2>1. told' = told /\ age' = IF Streaming THEN age + 1 ELSE age
    BY <1>7 DEF Tick
  <2> QED BY <1>0, <2>1 DEF StateInv, Streaming
<1> QED BY <1>1, <1>2, <1>3, <1>4, <1>5, <1>6, <1>7 DEF PathNext

\* The whole path is type correct, and a buffer never outgrows MAX_FRAME_SIZE,
\* whatever the device sends and in whichever order it sends it.
THEOREM PathTypeCorrect == PathSpec => []PathTypeOK
<1>1. PathInit => MediaInv /\ StateInv /\ MotionInv
  <2> SUFFICES ASSUME PathInit PROVE MediaInv /\ StateInv /\ MotionInv
    OBVIOUS
  <2>1. MediaInv
    BY NoFrameTyped DEF PathInit, MediaInv
  <2>2. StateInv
    BY PathAssumption DEF PathInit, StateInv, NoListener, Told
  <2>3. MotionInv
    BY NewIsSound DEF PathInit, MotionInv
  <2> QED BY <2>1, <2>2, <2>3
<1>2. /\ MediaInv /\ StateInv /\ MotionInv /\ TypeOK /\ [PathNext]_pathVars
      => MediaInv' /\ StateInv' /\ MotionInv'
  <2> SUFFICES ASSUME MediaInv, StateInv, MotionInv, TypeOK, [PathNext]_pathVars
               PROVE  MediaInv' /\ StateInv' /\ MotionInv'
    OBVIOUS
  <2>1. lastFrame \in Nat
    BY DEF TypeOK
  <2>2. MotionInv'
    BY <2>1, MotionStep
  <2> QED BY <2>2, MediaStep, StateStep
<1>3. MediaInv /\ StateInv /\ MotionInv /\ TypeOK => PathTypeOK
  <2> SUFFICES ASSUME MediaInv, StateInv, MotionInv, TypeOK PROVE PathTypeOK
    OBVIOUS
  <2>1. device.image \in {0, 1} /\ device.sent \subseteq 1..device.size
    <3>1. CASE link = "off"
      BY <3>1 DEF MediaInv, NoImage
    <3>2. CASE link # "off"
      BY <3>2 DEF MediaInv, Sending, Devices
    <3> QED BY <3>1, <3>2
  <2>2. motion \in Detectors
    BY DEF MotionInv, Sound
  <2> QED BY <2>1, <2>2 DEF PathTypeOK, MediaInv, StateInv, Told
<1>4. PathSpec => []TypeOK
  BY PathIsFanout, TypeCorrect, PTL
<1> QED BY <1>1, <1>2, <1>3, <1>4, PTL DEF PathSpec

-----------------------------------------------------------------------------
(* Whole frames, of a device that sends the first word of an image first.   *)

\* What the reassembler holds of the image the device is sending: all that fits of
\* what was sent, in its place, if it has the image from its first word on;
\* otherwise nothing.
Held(d, a) ==
    /\ a.open
    /\ \A j \in 1..Len(a.buffer) : j <= d.size
    /\ \A j \in d.sent : j <= MaxFrameSize => j <= Len(a.buffer) /\ a.buffer[j] = Image(d)[j]
Joined(d) == d.whole /\ 1 \in d.sent
Fits(d, a) ==
    /\ d.sent = {} => d.whole
    /\ d.sent # {} => 1 \in d.sent
    /\ Joined(d) => Held(d, a)
    /\ ~Joined(d) => ~a.open

\* A reassembler within its limit, beside a device that is sending.
Working(d, a) ==
    Sending(d) /\ a \in Assemblers /\ Len(a.buffer) <= MaxFrameSize /\ Fits(d, a)

\* When an image is complete, the buffer is flushed as that image or not at all.
LEMMA FlushIs ==
    ASSUME NEW d, NEW a, Working(d, a), d.sent = 1..d.size
    PROVE  Flush(a) = IF d.whole /\ d.size <= MaxFrameSize THEN Image(d) ELSE <<>>
<1> DEFINE ends == {i \in 1..Len(a.buffer) : a.buffer[i].kind = "eoi"}
<1>1. /\ Sized(d) /\ d.size \in Nat \ {0, 1} /\ MaxFrameSize \in Nat /\ 1 \in 1..d.size
      /\ d.size \in 1..d.size
  <2>1. d.size \in Nat \ {0, 1} /\ d.image \in {0, 1}
    BY PathAssumption DEF Working, Sending, Devices
  <2> QED BY <2>1, MediaAssumption DEF Sized
<1>2. a.buffer \in Seq(Words) /\ Len(a.buffer) \in Nat /\ Len(a.buffer) <= MaxFrameSize
  BY DEF Working, Assemblers
<1>3. /\ Image(d) \in [1..d.size -> Words]
      /\ \A i \in 1..d.size : /\ Image(d)[i].kind = "soi" <=> i = 1
                              /\ Image(d)[i].kind = "eoi" <=> i = d.size
  BY <1>1, ImageIs
<1>4. CASE ~d.whole
  <2>1. ~a.open
    BY <1>4 DEF Working, Fits, Joined
  <2> QED BY <1>4, <2>1 DEF Flush
<1>5. CASE d.whole
  <2>0. Held(d, a)
    BY <1>1, <1>5 DEF Working, Fits, Joined
  <2>1. \A j \in 1..Len(a.buffer) : j \in 1..d.size /\ a.buffer[j] = Image(d)[j]
    <3> TAKE j \in 1..Len(a.buffer)
    <3>1. j \in 1..d.size /\ j <= MaxFrameSize
      BY <1>1, <1>2, <2>0 DEF Held
    <3> QED BY <2>0, <3>1 DEF Held
  <2>2. CASE d.size <= MaxFrameSize
    <3>1. d.size <= Len(a.buffer)
      BY <1>1, <2>0, <2>2 DEF Held
    <3>2. Len(a.buffer) = d.size
      BY <1>1, <1>2, <2>1, <3>1
    <3>3. Image(d) \in Seq(Words) /\ Len(Image(d)) = d.size
      BY <1>1, <1>3
    <3>4. a.buffer = Image(d)
      BY <1>2, <2>1, <3>2, <3>3, SeqEqual
    <3>5. ends = {d.size}
      BY <1>1, <1>3, <2>1, <3>2
    <3>6. Last({d.size}) = d.size
      BY <1>1 DEF Last
    <3>7. a.buffer[1].kind = "soi"
      BY <1>1, <1>3, <3>4
    <3>8. SubSeq(a.buffer, 1, d.size) = a.buffer
      BY <1>2, <3>2, SubSeqFull
    <3>9. a.open /\ {d.size} # {}
      BY <2>0 DEF Held
    <3>10. Flush(a) = SubSeq(a.buffer, 1, d.size)
      <4> HIDE DEF ends
      <4> QED BY <3>5, <3>6, <3>7, <3>9 DEF Flush, ends
    <3> QED BY <1>5, <2>2, <3>4, <3>8, <3>10
  <2>3. CASE ~(d.size <= MaxFrameSize)
    <3>1. ends = {}
      <4> SUFFICES ASSUME NEW i \in 1..Len(a.buffer), a.buffer[i].kind = "eoi" PROVE FALSE
        OBVIOUS
      <4>1. i = d.size
        BY <1>3, <2>1
      <4> QED BY <1>1, <1>2, <2>3, <4>1
    <3>2. Flush(a) = <<>>
      BY <3>1 DEF Flush
    <3> QED BY <2>3, <3>2
  <2> QED BY <2>2, <2>3
<1> QED BY <1>4, <1>5

\* A word of the device is put where it belongs.
LEMMA TookFits ==
    ASSUME Leads, NEW d, NEW a, Working(d, a), NEW e, NEW i, Sends(d, e, i)
    PROVE  Working(After(e, i), Took(a, i, Image(e)[i]))
<1> DEFINE w == Image(e)[i]
           t == Took(a, i, w)
           n == After(e, i)
<1>1. Sending(e) /\ i \in 1..e.size /\ i \notin e.sent /\ i \in Ready(e)
  BY DEF Sends
<1>2. /\ Sending(n) /\ Sized(e) /\ n.size = e.size /\ n.sent = e.sent \union {i}
      /\ n.whole = e.whole /\ Image(n) = Image(e)
  BY <1>1, AfterIs
<1>3. e.size \in Nat \ {0, 1} /\ i \in Nat \ {0} /\ MaxFrameSize \in Nat /\ e.sent \subseteq 1..e.size
  BY <1>1, <1>2, MediaAssumption DEF Sized, Sending
<1>4. w \in Words
  BY <1>1, <1>2, ImageIs
<1>5. a \in Assemblers /\ Len(a.buffer) <= MaxFrameSize
  BY DEF Working
<1> HIDE DEF w, t, n
<1>6. /\ t \in Assemblers /\ Len(t.buffer) <= MaxFrameSize
      /\ t.open = Opened(a, i).open /\ Opened(a, i) \in Assemblers
      /\ t.buffer = IF ~Opened(a, i).open \/ i > MaxFrameSize THEN Opened(a, i).buffer
                    ELSE Placed(Opened(a, i).buffer, i - 1, <<w>>)
  BY <1>3, <1>4, <1>5, TookIs DEF t
<1>7. CASE i = 1
  <2>1. Opened(a, i).open /\ Opened(a, i).buffer = <<>> /\ <<>> \in Seq(Words) /\ Len(<<>>) = 0
    BY <1>7 DEF Opened
  <2>2. e.sent = {} /\ e.whole
    <3>1. e.sent = {}
      BY <1>1, <1>7 DEF Working, Fits, Sends
    <3> QED BY <3>1 DEF Working, Fits, Sends
  <2>3. n.sent = {1} /\ n.whole /\ Joined(n)
    BY <1>2, <1>7, <2>2 DEF Joined
  <2>4. Held(n, t)
    <3>1. CASE i > MaxFrameSize
      <4>1. t.open /\ t.buffer = <<>>
        BY <1>6, <2>1, <3>1
      <4> QED BY <1>3, <1>7, <2>3, <3>1, <4>1 DEF Held
    <3>2. CASE ~(i > MaxFrameSize)
      <4>1. t.open /\ t.buffer = Placed(<<>>, i - 1, <<w>>)
        BY <1>6, <2>1, <3>2
      <4>2. Len(t.buffer) = 1 /\ t.buffer[1] = w
        <5>0. PICK b : b = Opened(a, i).buffer
          OBVIOUS
        <5>1. b \in Seq(Words) /\ Len(b) = 0
          BY <2>1, <5>0
        <5> DEFINE q == Placed(b, i - 1, <<w>>)
        <5>2. /\ Len(q) = IF i > Len(b) THEN i ELSE Len(b)
              /\ q[i] = w
          <6>1. b \in Seq(Words)
            BY <5>1
          <6>2. IsPlaced(q, b, i, w)
            BY <1>3, <1>4, <6>1, PlacedIs
          <6> HIDE DEF q
          <6> QED BY <6>2 DEF IsPlaced
        <5> HIDE DEF q
        <5>3. t.buffer = q
          BY <2>1, <4>1, <5>0 DEF q
        <5> QED BY <1>7, <5>1, <5>2, <5>3
      <4>3. Image(n)[1] = w
        BY <1>2, <1>7 DEF w
      <4>4. \A j \in 1..Len(t.buffer) : j <= n.size
        BY <1>2, <1>3, <4>2
      <4>5. \A j \in n.sent : j <= Len(t.buffer) /\ t.buffer[j] = Image(n)[j]
        BY <2>3, <4>2, <4>3
      <4> QED BY <4>1, <4>4, <4>5 DEF Held
    <3> QED BY <3>1, <3>2
  <2>5. Fits(n, t)
    BY <2>3, <2>4 DEF Fits
  <2> QED BY <1>2, <1>6, <2>5 DEF Working, n, t, w
<1>8. CASE i # 1
  <2>1. Opened(a, i) = a
    BY <1>8 DEF Opened
  <2>2. e.sent # {}
    BY <1>1, <1>8 DEF Ready
  <2>3. e = d /\ 1 \in e.sent
    BY <2>2 DEF Sends, Working, Fits
  <2>4. 1 \in n.sent /\ (Joined(n) <=> Joined(e))
    BY <1>2, <2>3 DEF Joined
  <2>5. CASE ~Joined(e)
    <3>1. ~t.open
      BY <1>6, <2>1, <2>3, <2>5 DEF Working, Fits
    <3> QED BY <1>2, <1>6, <2>4, <2>5, <3>1 DEF Working, Fits, n, t, w
  <2>6. CASE Joined(e)
    <3>1. Held(e, a)
      BY <2>3, <2>6 DEF Working, Fits
    <3>2. CASE i > MaxFrameSize
      <4>1. t.open = a.open /\ t.buffer = a.buffer
        BY <1>6, <2>1, <3>2
      <4>2. \A j \in n.sent : j <= MaxFrameSize => j \in e.sent
        BY <1>2, <1>3, <3>2
      <4>3. Held(n, t)
        BY <1>2, <3>1, <4>1, <4>2 DEF Held
      <4> QED BY <1>2, <1>6, <2>4, <2>6, <4>3 DEF Working, Fits, n, t, w
    <3>3. CASE ~(i > MaxFrameSize)
      <4>0. a.open /\ a.buffer \in Seq(Words) /\ Len(a.buffer) \in Nat
        BY <1>5, <3>1 DEF Held, Assemblers
      <4>1. t.open /\ t.buffer = Placed(a.buffer, i - 1, <<w>>)
        BY <1>6, <2>1, <3>3, <4>0
      <4>2. /\ Len(t.buffer) = IF i > Len(a.buffer) THEN i ELSE Len(a.buffer)
            /\ t.buffer[i] = w
            /\ \A j \in 1..Len(a.buffer) : j # i => t.buffer[j] = a.buffer[j]
        <5> DEFINE q == Placed(a.buffer, i - 1, <<w>>)
        <5>1. /\ Len(q) = IF i > Len(a.buffer) THEN i ELSE Len(a.buffer)
              /\ q[i] = w
              /\ \A j \in 1..Len(a.buffer) : j # i => q[j] = a.buffer[j]
          <6>1. IsPlaced(q, a.buffer, i, w)
            BY <1>3, <1>4, <4>0, PlacedIs
          <6> HIDE DEF q
          <6> QED BY <6>1 DEF IsPlaced
        <5> HIDE DEF q
        <5>2. t.buffer = q
          BY <4>1 DEF q
        <5> QED BY <5>1, <5>2
      <4>3. \A j \in 1..Len(t.buffer) : j <= n.size
        BY <1>1, <1>2, <1>3, <3>1, <4>0, <4>2 DEF Held
      <4>4. ASSUME NEW j \in n.sent, j <= MaxFrameSize
            PROVE  j <= Len(t.buffer) /\ t.buffer[j] = Image(n)[j]
        <5>1. CASE j = i
          BY <1>2, <1>3, <4>0, <4>2, <5>1 DEF w
        <5>2. CASE j # i
          <6>1. j \in e.sent /\ j \in 1..e.size
            BY <1>2, <1>3, <5>2
          <6>2. j <= Len(a.buffer) /\ a.buffer[j] = Image(e)[j]
            BY <3>1, <4>4, <6>1 DEF Held
          <6>3. j \in 1..Len(a.buffer)
            BY <1>3, <4>0, <6>1, <6>2
          <6> QED BY <1>2, <1>3, <4>0, <4>2, <5>2, <6>2, <6>3
        <5> QED BY <5>1, <5>2
      <4>5. Held(n, t)
        BY <4>1, <4>3, <4>4 DEF Held
      <4> QED BY <1>2, <1>6, <2>4, <2>6, <4>5 DEF Working, Fits, n, t, w
    <3> QED BY <3>2, <3>3
  <2> QED BY <2>5, <2>6
<1> QED BY <1>7, <1>8

\* The frame an image becomes, or none.
Completed(d) == IF d.whole /\ d.size <= MaxFrameSize THEN Image(d) ELSE <<>>

\* A word gives a frame when it starts the next image, and then the image before.
LEMMA GaveIs ==
    ASSUME Leads, NEW d, NEW a, Working(d, a), NEW e, NEW i, Sends(d, e, i)
    PROVE  \/ e = d /\ Gave(a, i) = <<>>
           \/ /\ Gave(a, i) = Completed(d) /\ After(e, i).image = 1 - d.image
              /\ After(e, i).sent # 1..After(e, i).size /\ 1 \in After(e, i).sent
<1>1. Sending(e) /\ i \in 1..e.size /\ i \notin e.sent /\ i \in Ready(e)
  BY DEF Sends
<1>2. /\ Sized(e) /\ After(e, i).size = e.size /\ After(e, i).sent = e.sent \union {i}
      /\ After(e, i).image = e.image
  BY <1>1, AfterIs
<1>3. CASE e = d
  <2>1. CASE i = 1
    <3>1. ~a.open
      BY <1>1, <1>3, <2>1 DEF Working, Fits, Joined
    <3> QED BY <1>3, <3>1 DEF Gave, Flush
  <2>2. CASE i # 1
    BY <1>3, <2>2 DEF Gave
  <2> QED BY <2>1, <2>2
<1>4. CASE e # d
  <2>1. d.sent = 1..d.size /\ e.image = 1 - d.image /\ e.sent = {}
    BY <1>4 DEF Sends
  <2>2. i = 1
    BY <1>1, <2>1 DEF Ready
  <2>3. Gave(a, i) = Completed(d)
    BY <2>1, <2>2, FlushIs DEF Gave, Completed
  <2>4. e.size \in Nat \ {0, 1}
    BY <1>2 DEF Sized
  <2>5. After(e, i).sent = {1} /\ 2 \in 1..e.size /\ 2 \notin {1}
    BY <1>2, <2>1, <2>2, <2>4
  <2> QED BY <1>2, <2>1, <2>3, <2>5
<1> QED BY <1>3, <1>4

\* A record starts the next image or it does not, and gives the frames that go
\* with it.
LEMMA RecordGives ==
    ASSUME Leads, Working(device, assembler), MediaRecord
    PROVE  /\ Working(device', assembler')
           /\ \/ device'.image = device.image /\ UNCHANGED lastFrame
              \/ /\ device'.image = 1 - device.image /\ 1 \in device'.sent
                 /\ \/ Completed(device) = <<>> /\ UNCHANGED lastFrame
                    \/ /\ Completed(device) # <<>> /\ Publish(Completed(device))
<1>1. PICK record \in Records(device) :
         LET result == PushAll(assembler, ExtractMediaPackets(record.words))
         IN /\ device' = record.device /\ assembler' = result.assembler
            /\ \/ result.frames = <<>> /\ UNCHANGED <<vars, picture, stateVars>>
               \/ result.frames # <<>> /\ Publish(result.frames[1])
  BY DEF MediaRecord
<1>2. PICK result : result = PushAll(assembler, ExtractMediaPackets(record.words))
  OBVIOUS
<1>3. /\ device' = record.device /\ assembler' = result.assembler
      /\ \/ result.frames = <<>> /\ UNCHANGED lastFrame
         \/ result.frames # <<>> /\ Publish(result.frames[1])
  BY <1>1, <1>2 DEF vars
<1>4. With(<<>>, <<>>) = <<>> /\ \A x : x # <<>> => With(<<>>, x) = <<x>>
  BY DEF With
<1>5. \A x : <<x>> # <<>> /\ <<x>>[1] = x /\ With(<<x>>, <<>>) = <<x>>
  BY DEF With
<1>6. ASSUME result.frames = <<>> PROVE UNCHANGED lastFrame
  BY <1>3, <1>6
<1>7. ASSUME result.frames = With(<<>>, Completed(device))
      PROVE  \/ Completed(device) = <<>> /\ UNCHANGED lastFrame
             \/ Completed(device) # <<>> /\ Publish(Completed(device))
  <2>1. PICK c : c = Completed(device)
    OBVIOUS
  <2>2. CASE c = <<>>
    <3>1. result.frames = <<>>
      BY <1>4, <1>7, <2>1, <2>2
    <3> QED BY <1>6, <2>1, <2>2, <3>1
  <2>3. CASE c # <<>>
    <3>1. result.frames = <<c>>
      BY <1>4, <1>7, <2>1, <2>3
    <3>2. result.frames # <<>> /\ result.frames[1] = c
      BY <1>5, <3>1
    <3> QED BY <1>3, <2>1, <2>3, <3>2, Zenon
  <2> QED BY <2>2, <2>3
<1>8. CASE \E e, i : OneChunk(device, assembler, e, i, record.device, result)
  <2>1. PICK e, i : OneChunk(device, assembler, e, i, record.device, result)
    BY <1>8
  <2>2. /\ Sends(device, e, i) /\ device' = After(e, i) /\ assembler' = Took(assembler, i, Image(e)[i])
        /\ result.frames = With(<<>>, Gave(assembler, i))
    BY <1>3, <2>1 DEF OneChunk
  <2>3. Working(device', assembler')
    BY <2>2, TookFits
  <2>4. After(e, i).image = e.image
    BY <2>2, AfterIs DEF Sends
  <2>5. CASE e = device /\ Gave(assembler, i) = <<>>
    BY <1>4, <1>6, <2>2, <2>3, <2>4, <2>5
  <2>6. CASE Gave(assembler, i) = Completed(device) /\ After(e, i).image = 1 - device.image
             /\ 1 \in After(e, i).sent
    BY <1>7, <2>2, <2>3, <2>6
  <2> QED BY <2>2, <2>5, <2>6, GaveIs
<1>9. CASE \E e, i, f, j : TwoChunks(device, assembler, e, i, f, j, record.device, result)
  <2>1. PICK e, i, f, j : TwoChunks(device, assembler, e, i, f, j, record.device, result)
    BY <1>9
  <2>2. PICK b : b = Took(assembler, i, Image(e)[i])
    OBVIOUS
  <2>3. /\ Sends(device, e, i) /\ Sends(After(e, i), f, j) /\ device' = After(f, j)
        /\ assembler' = Took(b, j, Image(f)[j])
        /\ result.frames = With(With(<<>>, Gave(assembler, i)), Gave(b, j))
    BY <1>3, <2>1, <2>2 DEF TwoChunks
  <2>4. Working(After(e, i), b)
    BY <2>2, <2>3, TookFits
  <2>5. Working(device', assembler')
    BY <2>3, <2>4, TookFits
  <2>6. /\ After(e, i).image = e.image /\ After(e, i).size = e.size /\ After(e, i).whole = e.whole
        /\ Image(After(e, i)) = Image(e) /\ After(f, j).image = f.image
        /\ After(f, j).sent = f.sent \union {j}
    BY <2>3, AfterIs DEF Sends
  <2>7. CASE e = device /\ Gave(assembler, i) = <<>>
    <3>1. Completed(After(e, i)) = Completed(device)
      BY <2>6, <2>7 DEF Completed
    <3>2. result.frames = With(<<>>, Gave(b, j))
      BY <1>4, <2>3, <2>7
    <3>3. CASE f = After(e, i) /\ Gave(b, j) = <<>>
      <4>1. device'.image = device.image /\ result.frames = <<>>
        BY <1>4, <2>3, <2>6, <2>7, <3>2, <3>3
      <4> QED BY <1>6, <2>5, <4>1
    <3>4. CASE Gave(b, j) = Completed(After(e, i)) /\ After(f, j).image = 1 - After(e, i).image
               /\ 1 \in After(f, j).sent
      <4>1. /\ result.frames = With(<<>>, Completed(device)) /\ device'.image = 1 - device.image
            /\ 1 \in device'.sent
        BY <2>3, <2>6, <2>7, <3>1, <3>2, <3>4
      <4> QED BY <1>7, <2>5, <4>1
    <3> QED BY <2>3, <2>4, <3>3, <3>4, GaveIs
  <2>8. CASE /\ Gave(assembler, i) = Completed(device) /\ After(e, i).image = 1 - device.image
             /\ After(e, i).sent # 1..After(e, i).size /\ 1 \in After(e, i).sent
    <3>1. f = After(e, i)
      BY <2>3, <2>8 DEF Sends
    <3>2. Gave(b, j) = <<>>
      <4>1. j # 1
        BY <2>3, <2>8, <3>1 DEF Sends
      <4> QED BY <4>1 DEF Gave
    <3>3. result.frames = With(<<>>, Completed(device))
      BY <2>3, <2>8, <3>2 DEF With
    <3>4. device'.image = 1 - device.image /\ 1 \in device'.sent
      BY <2>3, <2>6, <2>8, <3>1
    <3> QED BY <1>7, <2>5, <3>3, <3>4
  <2> QED BY <2>3, <2>7, <2>8, GaveIs
<1> QED BY <1>2, <1>8, <1>9, RecordIs DEF Working

\* The reassembler holds what was sent of the image, while a session listens.
WholeInv == MediaInv /\ (link # "off" => Fits(device, assembler))

\* What a step may do to the frames.
WholeStep ==
    /\ lastFrame' # lastFrame =>
          \E image \in {0, 1}, size \in ImageSizes :
             picture' = Image([image |-> image, size |-> size])
    /\ NextImageStarts =>
          IF device.whole /\ device.size <= MaxFrameSize
          THEN lastFrame' = lastFrame + 1 /\ picture' = Image(device)
          ELSE lastFrame' = lastFrame

\* A record publishes the image it completes, or nothing.
LEMMA RecordWhole ==
    ASSUME Leads, WholeInv, lastFrame \in Nat, MediaRecord PROVE WholeInv' /\ WholeStep
<1>1. Working(device, assembler)
  BY DEF WholeInv, MediaInv, Working, MediaRecord
<1>2. /\ Working(device', assembler')
      /\ \/ device'.image = device.image /\ UNCHANGED lastFrame
         \/ /\ device'.image = 1 - device.image /\ 1 \in device'.sent
            /\ \/ Completed(device) = <<>> /\ UNCHANGED lastFrame
               \/ Completed(device) # <<>> /\ Publish(Completed(device))
  BY <1>1, RecordGives
<1>3. WholeInv'
  <2>1. MediaInv'
    BY RecordTyped DEF WholeInv, MediaInv
  <2> QED BY <1>2, <2>1 DEF WholeInv, Working
<1>4. device.image \in {0, 1} /\ device.size \in ImageSizes /\ Sized(device)
  <2>1. device.image \in {0, 1} /\ device.size \in ImageSizes
    BY <1>1 DEF Working, Sending, Devices
  <2> QED BY <2>1, PathAssumption DEF Sized
<1>5. CASE device'.image = device.image /\ UNCHANGED lastFrame
  BY <1>3, <1>5 DEF WholeStep, NextImageStarts
<1>6. CASE Completed(device) = <<>> /\ UNCHANGED lastFrame
  <2>1. ~(device.whole /\ device.size <= MaxFrameSize)
    <3> SUFFICES ASSUME device.whole /\ device.size <= MaxFrameSize PROVE FALSE
      OBVIOUS
    <3>1. Image(device) = <<>>
      BY <1>6 DEF Completed
    <3>2. DOMAIN Image(device) = 1..device.size /\ 1 \in 1..device.size
      BY <1>4 DEF Image, Sized
    <3> QED BY <3>1, <3>2
  <2> QED BY <1>3, <1>6, <2>1 DEF WholeStep
<1>7. CASE Completed(device) # <<>> /\ Publish(Completed(device))
  <2>1. device.whole /\ device.size <= MaxFrameSize /\ Completed(device) = Image(device)
    BY <1>7 DEF Completed
  <2>2. lastFrame' = lastFrame + 1 /\ picture' = Image(device)
    BY <1>7, <2>1 DEF Publish, OnFrame
  <2>3. Image([image |-> device.image, size |-> device.size]) = Image(device)
    BY SameImage
  <2> QED BY <1>3, <1>4, <2>1, <2>2, <2>3 DEF WholeStep
<1> QED BY <1>2, <1>3, <1>5, <1>6, <1>7

\* The other steps publish nothing and start no image.
LEMMA WholeKept ==
    ASSUME Leads, WholeInv, lastFrame \in Nat, [PathNext]_pathVars PROVE WholeInv' /\ WholeStep
<1>0. MediaInv'
  BY MediaStep DEF WholeInv
<1>1. CASE MediaRecord
  BY <1>1, RecordWhole
<1>2. CASE SessionAttach
  <2>1. PICK size \in ImageSizes : \E sent \in SUBSET (1..size) :
           /\ Leads /\ sent # {} => 1 \in sent
           /\ device' = [NextImage(device, size) EXCEPT !.sent = sent, !.whole = sent = {}]
    BY <1>2 DEF SessionAttach
  <2>2. PICK sent \in SUBSET (1..size) :
           /\ Leads /\ sent # {} => 1 \in sent
           /\ device' = [NextImage(device, size) EXCEPT !.sent = sent, !.whole = sent = {}]
    BY <2>1
  <2>3. PICK whole \in BOOLEAN : whole = (sent = {})
    OBVIOUS
  <2>4. device' = [NextImage(device, size) EXCEPT !.sent = sent, !.whole = whole]
    BY <2>2, <2>3, Zenon
  <2>5. device'.sent = sent /\ device'.whole = whole
    BY <2>4 DEF NextImage
  <2>6. ~assembler'.open
    BY <1>2 DEF SessionAttach, NoFrame
  <2>7. ~Joined(device')
    BY <2>3, <2>5 DEF Joined
  <2>8. Fits(device', assembler')
    BY <2>2, <2>3, <2>5, <2>6, <2>7 DEF Fits
  <2>9. UNCHANGED lastFrame /\ link = "off"
    BY <1>2 DEF SessionAttach, vars
  <2> QED BY <1>0, <2>8, <2>9 DEF WholeInv, WholeStep, NextImageStarts
<1>3. CASE SessionClosed
  <2>1. UNCHANGED lastFrame /\ link' = "off"
    BY <1>3 DEF SessionClosed, vars
  <2> QED BY <1>0, <2>1 DEF WholeInv, WholeStep, NextImageStarts
<1>4. CASE SessionEnds \/ StopStream \/ ClosePath \/ StartStream \/ WatcherEnds
           \/ BusyChanges \/ SetMotionSensitivity \/ Poll \/ AddStateListener
           \/ RemoveStateListener \/ Tick \/ ConsumerStep \/ UNCHANGED pathVars
  <2>1. UNCHANGED <<device, assembler>> /\ (link' = link \/ (link = "live" /\ link' = "closing"))
    BY <1>4 DEF SessionEnds, StopStream, ClosePath, StartStream, WatcherEnds, BusyChanges,
                SetMotionSensitivity, Poll, AddStateListener, RemoveStateListener, Tick,
                ConsumerStep, pathVars, mediaVars
  <2>2. UNCHANGED lastFrame
    <3>1. CASE ConsumerStep
      BY <3>1 DEF ConsumerStep, Subscribe, Read, Leave, WaitForFrame, FrameArrived, WaitTimesOut, Return
    <3>2. CASE SessionEnds \/ StopStream \/ ClosePath
      BY <3>2 DEF SessionEnds, StopStream, ClosePath, SessionOver, CloseStream
    <3>3. CASE StartStream \/ WatcherEnds \/ BusyChanges \/ SetMotionSensitivity \/ Poll
               \/ AddStateListener \/ RemoveStateListener \/ Tick \/ UNCHANGED pathVars
      BY <3>3 DEF StartStream, WatcherEnds, BusyChanges, SetMotionSensitivity, Poll,
                  AddStateListener, RemoveStateListener, Tick, pathVars, vars
    <3> QED BY <1>4, <3>1, <3>2, <3>3
  <2>3. WholeInv'
    BY <1>0, <2>1 DEF WholeInv
  <2>4. WholeStep
    BY <2>1, <2>2 DEF WholeStep, NextImageStarts
  <2> QED BY <2>3, <2>4
<1> QED BY <1>1, <1>2, <1>3, <1>4 DEF PathNext

\* From a device that sends the first word of an image first and the others in any
\* order, every image of any size that a session has from its first word on, and
\* that MAX_FRAME_SIZE allows, is published once, word for word, when the next one
\* starts; nothing else ever is.
THEOREM FramesAreWhole == ASSUME Leads PROVE PathSpec => WholeFrames
<1>1. PathInit => WholeInv
  BY NoFrameTyped DEF PathInit, WholeInv, MediaInv
<1>2. WholeInv /\ TypeOK /\ [PathNext]_pathVars => WholeInv' /\ [WholeStep]_pathVars
  BY WholeKept DEF TypeOK
<1>3. PathSpec => []TypeOK
  BY PathIsFanout, TypeCorrect, PTL
<1>4. WholeFrames <=> [][WholeStep]_pathVars
  BY DEF WholeFrames, WholeStep
<1> QED BY <1>1, <1>2, <1>3, <1>4, PTL DEF PathSpec
=============================================================================
