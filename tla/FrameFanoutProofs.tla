-------------------------- MODULE FrameFanoutProofs --------------------------
(***************************************************************************)
(* The frame queues, for any number of consumers, any depth of the queue   *)
(* and any number of frames.                                               *)
(***************************************************************************)
EXTENDS FrameFanout, TLAPS

Inv == TypeOK /\ OnlyNewerFrames /\ NewestIsReachable

\* What a queue contains after _on_frame has put a frame into it: at most
\* QueueSize frames, the new one last, and the others as they were, moved up by
\* one when the queue was full.
LEMMA PutProperties ==
    ASSUME NEW q \in Seq(Nat), Len(q) <= QueueSize, NEW frame \in Nat
    PROVE  /\ Put(q, frame) \in Seq(Nat)
           /\ Len(Put(q, frame)) \in 1..QueueSize
           /\ Put(q, frame)[Len(Put(q, frame))] = frame
           /\ \E shift \in {0, 1} :
                 /\ Len(Put(q, frame)) = Len(q) + 1 - shift
                 /\ \A i \in 1..(Len(Put(q, frame)) - 1) : Put(q, frame)[i] = q[i + shift]
<1>1. CASE Len(q) = QueueSize
  <2>1. q # <<>> /\ Tail(q) \in Seq(Nat) /\ Len(Tail(q)) = Len(q) - 1
    BY <1>1, FanoutAssumption
  <2>2. Put(q, frame) = Append(Tail(q), frame)
    BY <1>1 DEF Put
  <2>3. \A i \in 1..Len(Tail(q)) : Tail(q)[i] = q[i + 1]
    BY <2>1
  <2> QED BY <1>1, <2>1, <2>2, <2>3, FanoutAssumption
<1>2. CASE Len(q) # QueueSize
  <2>1. Put(q, frame) = Append(q, frame)
    BY <1>2 DEF Put
  <2> QED BY <1>2, <2>1, FanoutAssumption
<1> QED BY <1>1, <1>2

\* The queue of a subscriber is the run of consecutive frames that ends with the
\* newest one.
LEMMA QueueIsNewestRun ==
    ASSUME NEW q \in Seq(Nat), NEW have \in Nat, NEW latest \in Nat,
           Newer(q, have, latest), Reaches(q, have, latest)
    PROVE  /\ \A i \in 1..Len(q) : have < q[i] /\ q[i] = latest - Len(q) + i
           /\ have <= latest
<1>1. ASSUME NEW i \in 1..Len(q) PROVE have < q[i] /\ q[i] = latest - Len(q) + i
  <2>1. Len(q) \in 1..Len(q) /\ q # <<>> /\ q[i] \in Nat /\ q[1] \in Nat /\ Len(q) \in Nat
    OBVIOUS
  <2>2. have < q[i] /\ q[i] = q[1] + (i - 1) /\ q[Len(q)] = q[1] + (Len(q) - 1)
    BY <2>1 DEF Newer
  <2>3. q[Len(q)] = latest
    BY <2>1 DEF Reaches
  <2> QED BY <2>1, <2>2, <2>3, SMTT(30)
<1>2. have <= latest
  <2>1. CASE q = <<>>
    BY <2>1 DEF Reaches
  <2>2. CASE q # <<>>
    BY <2>2 DEF Newer, Reaches
  <2> QED BY <2>1, <2>2
<1> QED BY <1>1, <1>2

\* Putting a new frame into a subscriber's queue keeps it such a run.
LEMMA PutKeepsRun ==
    ASSUME NEW q \in Seq(Nat), Len(q) <= QueueSize, NEW have \in Nat, NEW latest \in Nat,
           Newer(q, have, latest), Reaches(q, have, latest)
    PROVE  /\ Newer(Put(q, latest + 1), have, latest + 1)
           /\ Reaches(Put(q, latest + 1), have, latest + 1)
<1> DEFINE p == Put(q, latest + 1)
<1>1. p \in Seq(Nat) /\ Len(p) \in 1..QueueSize /\ p[Len(p)] = latest + 1
  BY PutProperties
<1>2. PICK shift \in {0, 1} :
         /\ Len(p) = Len(q) + 1 - shift
         /\ \A i \in 1..(Len(p) - 1) : p[i] = q[i + shift]
  BY PutProperties
<1> HIDE DEF p
<1>3. ASSUME NEW i \in 1..Len(p) PROVE have < p[i] /\ p[i] = latest + 1 - Len(p) + i
  <2>1. CASE i = Len(p)
    BY <2>1, <1>1, QueueIsNewestRun
  <2>2. CASE i # Len(p)
    <3>1. i \in 1..(Len(p) - 1) /\ i + shift \in 1..Len(q)
      <4>1. Len(p) \in Nat /\ Len(q) \in Nat /\ i \in Nat /\ i < Len(p) /\ i >= 1
        BY <2>2, <1>1
      <4>2. CASE shift = 0
        BY <1>2, <4>1, <4>2
      <4>3. CASE shift = 1
        BY <1>2, <4>1, <4>3
      <4> QED BY <4>2, <4>3
    <3>2. p[i] = q[i + shift]
      BY <3>1, <1>2
    <3>3. have < q[i + shift] /\ q[i + shift] = latest - Len(q) + (i + shift)
      BY <3>1, QueueIsNewestRun
    <3> QED BY <3>1, <3>2, <3>3, <1>2
  <2> QED BY <2>1, <2>2
<1>4. p # <<>> /\ 1 \in 1..Len(p) /\ p[1] = latest + 1 - Len(p) + 1
  BY <1>1, <1>3
<1>5. Newer(p, have, latest + 1)
  BY <1>1, <1>3, <1>4 DEF Newer
<1>6. Reaches(p, have, latest + 1)
  BY <1>1, <1>4, FanoutAssumption DEF Reaches
<1> QED BY <1>5, <1>6 DEF p

\* Taking the oldest frame of a queue leaves the later ones, which are newer.
LEMMA TailKeepsRun ==
    ASSUME NEW q \in Seq(Nat), q # <<>>, NEW have \in Nat, NEW latest \in Nat,
           Newer(q, have, latest)
    PROVE  /\ Newer(Tail(q), Head(q), latest)
           /\ Reaches(q, have, latest) => Reaches(Tail(q), Head(q), latest)
<1>1. /\ Len(q) \in Nat \ {0} /\ Len(Tail(q)) = Len(q) - 1 /\ Tail(q) \in Seq(Nat)
      /\ Head(q) = q[1] /\ q[1] \in Nat
      /\ \A i \in 1..Len(Tail(q)) : Tail(q)[i] = q[i + 1] /\ i + 1 \in 1..Len(q)
  OBVIOUS
<1>2. \A i \in 1..Len(Tail(q)) : Tail(q)[i] = q[1] + i /\ Tail(q)[i] <= latest
  BY <1>1 DEF Newer
<1>3. Newer(Tail(q), Head(q), latest)
  BY <1>1, <1>2 DEF Newer
<1>4. ASSUME Reaches(q, have, latest) PROVE Reaches(Tail(q), Head(q), latest)
  <2>1. q[Len(q)] = latest /\ latest - q[1] < QueueSize
    BY <1>4 DEF Reaches
  <2>2. CASE Len(q) = 1
    <3>1. q[1] = latest /\ Len(Tail(q)) = 0
      BY <2>1, <2>2, <1>1
    <3>2. Tail(q) = <<>>
      BY <3>1, <1>1, SMTT(30)
    <3> QED BY <3>1, <3>2, <1>1 DEF Reaches
  <2>3. CASE Len(q) # 1
    <3>1. 1 \in 1..Len(Tail(q)) /\ Len(Tail(q)) \in 1..Len(Tail(q)) /\ Tail(q) # <<>>
      <4>1. Len(Tail(q)) \in Nat \ {0}
        BY <2>3, <1>1
      <4>2. Len(<<>>) = 0 /\ Len(Tail(q)) # 0
        BY <4>1
      <4>3. Tail(q) # <<>>
        BY <4>2, Zenon
      <4> QED BY <4>1, <4>3
    <3>2. Tail(q)[1] = q[1] + 1
      BY <3>1, <1>2
    <3>3. Tail(q)[Len(Tail(q))] = latest
      <4>1. Tail(q)[Len(Tail(q))] = q[Len(Tail(q)) + 1] /\ Len(Tail(q)) + 1 = Len(q)
        BY <3>1, <1>1
      <4> QED BY <4>1, <2>1
    <3>4. latest - Tail(q)[1] < QueueSize
      <4>1. q[1] \in Nat /\ QueueSize \in Nat
        BY <1>1, FanoutAssumption
      <4>2. latest - (q[1] + 1) < QueueSize
        BY <2>1, <4>1
      <4> QED BY <3>2, <4>2
    <3> QED BY <3>1, <3>3, <3>4 DEF Reaches
  <2> QED BY <2>2, <2>3
<1> QED BY <1>3, <1>4

\* What was in order before a frame arrived is in order afterwards.
LEMMA LaterIsStillNewer ==
    ASSUME NEW q \in Seq(Nat), NEW have, NEW latest \in Nat, Newer(q, have, latest)
    PROVE  Newer(q, have, latest + 1)
BY DEF Newer

\* A new frame keeps the queues in order and ends each subscriber's queue.
LEMMA OnFrameKeepsInv == ASSUME Inv, OnFrame PROVE Inv'
<1>1. /\ lastFrame \in Nat /\ lastFrame' = lastFrame + 1
      /\ reading' = reading /\ subscribers' = subscribers /\ seen' = seen
      /\ subscribers \subseteq reading /\ reading \subseteq Consumers
  BY DEF Inv, OnFrame, TypeOK
<1>2. \A c \in Consumers : queue[c] \in Seq(Nat) /\ Len(queue[c]) <= QueueSize /\ seen[c] \in Nat
  BY DEF Inv, TypeOK
<1>3. \A c \in Consumers :
         queue'[c] = IF c \in subscribers THEN Put(queue[c], lastFrame + 1) ELSE queue[c]
  BY DEF OnFrame
<1>4. \A c \in Consumers : queue'[c] \in Seq(Nat) /\ Len(queue'[c]) <= QueueSize
  <2> TAKE c \in Consumers
  <2>1. CASE c \in subscribers
    <3>1. /\ Put(queue[c], lastFrame + 1) \in Seq(Nat)
          /\ Len(Put(queue[c], lastFrame + 1)) \in 1..QueueSize
      BY <1>1, <1>2, PutProperties
    <3> QED BY <2>1, <3>1, <1>3, FanoutAssumption
  <2>2. CASE c \notin subscribers
    BY <2>2, <1>2, <1>3
  <2> QED BY <2>1, <2>2
<1>5. TypeOK'
  <2>1. queue' \in [Consumers -> Seq(Nat)]
    BY <1>4 DEF OnFrame
  <2>2. \A c \in Consumers : Len(queue'[c]) <= QueueSize
    BY <1>4
  <2> QED BY <1>1, <2>1, <2>2 DEF Inv, OnFrame, TypeOK
<1>6. ASSUME NEW c \in subscribers
      PROVE  Newer(queue'[c], seen'[c], lastFrame') /\ Reaches(queue'[c], seen'[c], lastFrame')
  <2>1. Newer(queue[c], seen[c], lastFrame) /\ Reaches(queue[c], seen[c], lastFrame)
    BY <1>1 DEF Inv, OnlyNewerFrames, NewestIsReachable
  <2>2. /\ Newer(Put(queue[c], lastFrame + 1), seen[c], lastFrame + 1)
        /\ Reaches(Put(queue[c], lastFrame + 1), seen[c], lastFrame + 1)
    BY <1>1, <1>2, <2>1, PutKeepsRun
  <2> QED BY <1>1, <1>3, <2>2
<1>7. ASSUME NEW c \in reading, c \notin subscribers
      PROVE  Newer(queue'[c], seen'[c], lastFrame')
  <2>1. Newer(queue[c], seen[c], lastFrame)
    BY <1>7 DEF Inv, OnlyNewerFrames
  <2>2. Newer(queue[c], seen[c], lastFrame + 1)
    BY <1>1, <1>2, <2>1, LaterIsStillNewer
  <2> QED BY <1>1, <1>3, <1>7, <2>2
<1>8. OnlyNewerFrames' /\ NewestIsReachable'
  BY <1>1, <1>6, <1>7 DEF OnlyNewerFrames, NewestIsReachable
<1> QED BY <1>5, <1>8 DEF Inv

\* A consumer that joins has the latest frame and an empty queue; the others do
\* not notice.
LEMMA SubscribeKeepsInv == ASSUME Inv, NEW c \in Consumers, Subscribe(c) PROVE Inv'
<1>1. TypeOK'
  BY FanoutAssumption DEF Inv, Subscribe, TypeOK
<1>2. /\ queue'[c] = <<>> /\ seen'[c] = lastFrame /\ lastFrame' = lastFrame
      /\ \A d \in Consumers \ {c} : queue'[d] = queue[d] /\ seen'[d] = seen[d]
      /\ reading' = reading \union {c} /\ subscribers' = subscribers \union {c}
      /\ reading \subseteq Consumers /\ subscribers \subseteq Consumers
  BY DEF Inv, Subscribe, TypeOK
<1>3. Newer(<<>>, lastFrame, lastFrame) /\ Reaches(<<>>, lastFrame, lastFrame)
  BY DEF Newer, Reaches
<1>4. OnlyNewerFrames'
  BY <1>2, <1>3 DEF Inv, OnlyNewerFrames
<1>5. NewestIsReachable'
  BY <1>2, <1>3 DEF Inv, NewestIsReachable
<1> QED BY <1>1, <1>4, <1>5 DEF Inv

\* A consumer reads the oldest frame of its queue.
LEMMA ReadKeepsInv == ASSUME Inv, NEW c \in Consumers, Read(c) PROVE Inv'
<1>1. /\ c \in reading /\ queue[c] \in Seq(Nat) /\ queue[c] # <<>> /\ seen[c] \in Nat
      /\ Len(queue[c]) <= QueueSize
      /\ lastFrame \in Nat /\ lastFrame' = lastFrame
      /\ reading' = reading /\ subscribers' = subscribers
      /\ reading \subseteq Consumers /\ subscribers \subseteq Consumers
  BY DEF Inv, Read, TypeOK
<1>2. /\ queue'[c] = Tail(queue[c]) /\ seen'[c] = Head(queue[c])
      /\ \A d \in Consumers \ {c} : queue'[d] = queue[d] /\ seen'[d] = seen[d]
  BY DEF Inv, Read, TypeOK
<1>3. ASSUME NEW q \in Seq(Nat), q # <<>>, Len(q) <= QueueSize
      PROVE  Tail(q) \in Seq(Nat) /\ Head(q) \in Nat /\ Len(Tail(q)) <= QueueSize
  BY <1>3, FanoutAssumption
<1>4. /\ Tail(queue[c]) \in Seq(Nat) /\ Head(queue[c]) \in Nat
      /\ Len(Tail(queue[c])) <= QueueSize
  BY <1>1, <1>3
<1>5. TypeOK'
  <2>1. queue' \in [Consumers -> Seq(Nat)] /\ seen' \in [Consumers -> Nat]
    BY <1>4 DEF Inv, Read, TypeOK
  <2>2. \A d \in Consumers : Len(queue'[d]) <= QueueSize
    BY <1>2, <1>4, Zenon DEF Inv, TypeOK
  <2> QED BY <2>1, <2>2 DEF Inv, Read, TypeOK
<1>6. Newer(queue[c], seen[c], lastFrame)
  BY <1>1 DEF Inv, OnlyNewerFrames
<1>7. Newer(Tail(queue[c]), Head(queue[c]), lastFrame)
  BY <1>1, <1>6, TailKeepsRun
<1>8. c \in subscribers => Reaches(Tail(queue[c]), Head(queue[c]), lastFrame)
  BY <1>1, <1>6, TailKeepsRun DEF Inv, NewestIsReachable
<1>9. OnlyNewerFrames'
  BY <1>1, <1>2, <1>7 DEF Inv, OnlyNewerFrames
<1>10. NewestIsReachable'
  BY <1>1, <1>2, <1>8 DEF Inv, NewestIsReachable
<1> QED BY <1>5, <1>9, <1>10 DEF Inv

\* A consumer that leaves takes its own queue with it and no other.
LEMMA LeaveKeepsInv == ASSUME Inv, NEW c \in Consumers, Leave(c) PROVE Inv'
<1>1. /\ lastFrame' = lastFrame /\ reading' = reading \ {c} /\ subscribers' = subscribers \ {c}
      /\ reading \subseteq Consumers /\ subscribers \subseteq reading
      /\ firstFrame' = firstFrame /\ waiting' = waiting /\ woken' = woken
  BY DEF Inv, Leave, TypeOK
<1>2. queue'[c] = <<>> /\ \A d \in Consumers \ {c} : queue'[d] = queue[d] /\ seen'[d] = seen[d]
  BY DEF Inv, Leave, TypeOK
<1>3. TypeOK'
  <2>1. queue' \in [Consumers -> Seq(Nat)] /\ seen' \in [Consumers -> Nat]
    BY DEF Inv, Leave, TypeOK
  <2>2. Len(<<>>) <= QueueSize
    BY FanoutAssumption
  <2>3. \A d \in Consumers : Len(queue'[d]) <= QueueSize
    BY <1>2, <2>2, Zenon DEF Inv, TypeOK
  <2> QED BY <1>1, <2>1, <2>3 DEF Inv, TypeOK
<1>4. \A d \in reading' : d \in reading /\ queue'[d] = queue[d] /\ seen'[d] = seen[d]
  BY <1>1, <1>2
<1>5. \A d \in subscribers' : d \in subscribers /\ queue'[d] = queue[d] /\ seen'[d] = seen[d]
  BY <1>1, <1>2
<1>6. OnlyNewerFrames'
  BY <1>1, <1>4 DEF Inv, OnlyNewerFrames
<1>7. NewestIsReachable'
  BY <1>1, <1>5 DEF Inv, NewestIsReachable
<1> QED BY <1>3, <1>6, <1>7 DEF Inv

\* The steps that leave frames and queues alone: the stream is closed, a session
\* is over, and the tasks that wait come and go.
LEMMA OthersKeepInv ==
    ASSUME Inv,
           \/ SessionOver \/ CloseStream
           \/ \E w \in Waiters : WaitForFrame(w) \/ FrameArrived(w) \/ WaitTimesOut(w)
           \/ UNCHANGED vars
    PROVE  Inv'
<1> USE DEF Inv
<1>1. lastFrame' = lastFrame /\ queue' = queue /\ seen' = seen
  BY DEF SessionOver, CloseStream, WaitForFrame, FrameArrived, WaitTimesOut, Return, vars
<1>2. /\ subscribers' \subseteq subscribers /\ reading' \subseteq reading
      /\ subscribers' \subseteq reading'
  BY DEF SessionOver, CloseStream, WaitForFrame, FrameArrived, WaitTimesOut, Return, vars,
         TypeOK
<1>3. firstFrame' \in BOOLEAN
  BY DEF SessionOver, CloseStream, WaitForFrame, FrameArrived, WaitTimesOut, Return, vars,
         TypeOK
<1>4. waiting' \subseteq Waiters /\ woken' \subseteq waiting'
  BY DEF SessionOver, CloseStream, WaitForFrame, FrameArrived, WaitTimesOut, Return, vars,
         TypeOK
<1>5. TypeOK'
  BY <1>1, <1>2, <1>3, <1>4 DEF TypeOK
<1>6. OnlyNewerFrames' /\ NewestIsReachable'
  BY <1>1, <1>2 DEF OnlyNewerFrames, NewestIsReachable
<1> QED BY <1>5, <1>6

\* The invariant is inductive as it stands: a full queue drops its oldest frame,
\* so that what it holds stays a run of consecutive frames that ends with the
\* newest, and a run of at most QueueSize frames cannot be far behind.
THEOREM InvHolds == Spec => []Inv
<1>1. Init => Inv
  <2> SUFFICES ASSUME Init PROVE Inv
    OBVIOUS
  <2>1. TypeOK
    <3>1. <<>> \in Seq(Nat) /\ Len(<<>>) <= QueueSize
      BY FanoutAssumption
    <3>2. \A c \in Consumers : queue[c] = <<>>
      BY DEF Init
    <3>3. \A c \in Consumers : Len(queue[c]) <= QueueSize
      BY <3>1, <3>2, Zenon
    <3> QED BY <3>1, <3>3 DEF Init, TypeOK
  <2>2. OnlyNewerFrames /\ NewestIsReachable
    BY DEF Init, OnlyNewerFrames, NewestIsReachable
  <2> QED BY <2>1, <2>2 DEF Inv
<1>2. Inv /\ [Next]_vars => Inv'
  BY OnFrameKeepsInv, SubscribeKeepsInv, ReadKeepsInv, LeaveKeepsInv, OthersKeepInv DEF Next
<1> QED BY <1>1, <1>2, PTL DEF Spec

\* Type correctness of the fan-out, whatever the number of consumers.
THEOREM TypeCorrect == Spec => []TypeOK
BY InvHolds, PTL DEF Inv

\* async_frames yields frames in the camera's order and none of them twice,
\* also to a consumer that joins while frames arrive.
THEOREM FramesInOrder == Spec => []OnlyNewerFrames
BY InvHolds, PTL DEF Inv

\* A slow consumer skips ahead: _on_frame never drops the newest frame, and what
\* a subscriber gets next is among the QueueSize newest.
THEOREM SlowConsumersSkipAhead == Spec => []NewestIsReachable
BY InvHolds, PTL DEF Inv

-----------------------------------------------------------------------------
(* The tasks that wait for the first frame.                                 *)

\* Once there is a frame, every task that is still in async_wait_for_frame has
\* been woken: whatever clears the event afterwards, none is left behind with a
\* frame at hand.
WaitersAreWoken == lastFrame # 0 => waiting \subseteq woken

\* For that the event has to be the first frame's: it is never set without one,
\* so that the frame that sets it finds every waiting task asleep or woken by it.
WaitInv == (firstFrame => lastFrame # 0) /\ WaitersAreWoken

\* The safety half of WaiterIsServed.
THEOREM NobodyWaitsWithAFrame == Spec => []WaitersAreWoken
<1>1. Init => WaitInv
  BY DEF Init, WaitInv, WaitersAreWoken
<1>2. Inv /\ WaitInv /\ [Next]_vars => WaitInv'
  <2> SUFFICES ASSUME Inv, WaitInv, [Next]_vars PROVE WaitInv'
    OBVIOUS
  <2> USE DEF WaitInv, WaitersAreWoken
  <2>1. lastFrame \in Nat
    BY DEF Inv, TypeOK
  <2>2. CASE OnFrame
    <3>1. lastFrame' # 0 /\ waiting' = waiting /\ woken' = IF firstFrame THEN woken ELSE waiting
      BY <2>1, <2>2 DEF OnFrame
    <3> QED BY <3>1
  <2>3. CASE SessionOver \/ CloseStream \/ UNCHANGED vars
    <3>1. UNCHANGED <<lastFrame, waiting, woken>>
      BY <2>3 DEF SessionOver, CloseStream, vars
    <3>2. CASE firstFrame' = FALSE
      BY <3>1, <3>2
    <3>3. CASE firstFrame' = firstFrame
      BY <3>1, <3>3
    <3> QED BY <2>3, <3>2, <3>3 DEF SessionOver, CloseStream, vars
  <2>4. CASE \E c \in Consumers : Subscribe(c) \/ Read(c) \/ Leave(c)
    BY <2>4 DEF Subscribe, Read, Leave
  <2>5. CASE \E w \in Waiters : WaitForFrame(w)
    BY <2>5 DEF WaitForFrame
  <2>6. CASE \E w \in Waiters : FrameArrived(w) \/ WaitTimesOut(w)
    BY <2>6 DEF FrameArrived, WaitTimesOut, Return
  <2> QED BY <2>2, <2>3, <2>4, <2>5, <2>6 DEF Next
<1>3. WaitInv => WaitersAreWoken
  BY DEF WaitInv
<1> QED BY <1>1, <1>2, <1>3, InvHolds, PTL DEF Spec
=============================================================================
