----------------------------- MODULE FrameFanout -----------------------------
(***************************************************************************)
(* How a camera's frames reach its consumers (camera_stream.py): one       *)
(* shallow queue for each task that iterates over async_frames, filled by  *)
(* _on_frame, and the tasks in async_wait_for_frame.  A frame is its       *)
(* number, counted over the life of the stream; 0 stands for None.         *)
(***************************************************************************)
EXTENDS Integers, Sequences

CONSTANTS
    Consumers,   \* tasks that iterate over async_frames
    Waiters,     \* tasks that call async_wait_for_frame
    QueueSize,   \* _SUBSCRIBER_QUEUE_SIZE
    MaxFrames    \* bound: frames the camera produces

ASSUME FanoutAssumption == QueueSize \in Nat \ {0} /\ MaxFrames \in Nat

VARIABLES
    lastFrame,    \* _last_frame
    firstFrame,   \* _first_frame is set
    subscribers,  \* the consumers whose queue is in _subscribers
    reading,      \* the consumers with a generator that has not ended
    queue,        \* the queue of each consumer's generator
    seen,         \* the frame its generator yielded last
    waiting,      \* the tasks in _first_frame.wait()
    woken         \* those whose wait is over

vars == <<lastFrame, firstFrame, subscribers, reading, queue, seen, waiting, woken>>

Init ==
    /\ lastFrame = 0 /\ firstFrame = FALSE
    /\ subscribers = {} /\ reading = {}
    /\ queue = [c \in Consumers |-> <<>>] /\ seen = [c \in Consumers |-> 0]
    /\ waiting = {} /\ woken = {}

\* Mutant: a full queue keeps what it has.
PutIfRoom(q, frame) == IF Len(q) = QueueSize THEN q ELSE Append(q, frame)

\* Mutant: the queue has no limit.
PutUnbounded(q, frame) == Append(q, frame)

\* A full queue gives up its oldest frame for the new one.
Put(q, frame) == Append(IF Len(q) = QueueSize THEN Tail(q) ELSE q, frame)

\* Mutant: the tasks that wait are not told.
OnFrameUnannounced ==
    /\ lastFrame < MaxFrames
    /\ lastFrame' = lastFrame + 1
    /\ queue' = [c \in Consumers |->
                    IF c \in subscribers THEN Put(queue[c], lastFrame + 1) ELSE queue[c]]
    /\ UNCHANGED <<firstFrame, subscribers, reading, seen, waiting, woken>>

OnFrame ==
    /\ lastFrame < MaxFrames
    /\ lastFrame' = lastFrame + 1
    /\ queue' = [c \in Consumers |->
                    IF c \in subscribers THEN Put(queue[c], lastFrame + 1) ELSE queue[c]]
    /\ firstFrame' = TRUE /\ woken' = IF firstFrame THEN woken ELSE waiting
    /\ UNCHANGED <<subscribers, reading, seen, waiting>>

\* A session ends or the stream stops: the event is cleared, _last_frame stays.
SessionOver ==
    /\ firstFrame' = FALSE
    /\ UNCHANGED <<lastFrame, subscribers, reading, queue, seen, waiting, woken>>

\* Mutant: the queue starts with the frame that is yielded at once.
SubscribePrimed(c) ==
    /\ c \notin reading
    /\ subscribers' = subscribers \union {c} /\ reading' = reading \union {c}
    /\ queue' = [queue EXCEPT ![c] = IF lastFrame = 0 THEN <<>> ELSE <<lastFrame>>]
    /\ seen' = [seen EXCEPT ![c] = lastFrame]
    /\ UNCHANGED <<lastFrame, firstFrame, waiting, woken>>

\* The first step of the generator: its queue is registered and the latest frame
\* is yielded, if there is one.
Subscribe(c) ==
    /\ c \notin reading
    /\ subscribers' = subscribers \union {c} /\ reading' = reading \union {c}
    /\ queue' = [queue EXCEPT ![c] = <<>>]
    /\ seen' = [seen EXCEPT ![c] = lastFrame]
    /\ UNCHANGED <<lastFrame, firstFrame, waiting, woken>>

\* Any later step: the generator yields the next frame of its queue.
Read(c) ==
    /\ c \in reading /\ queue[c] # <<>>
    /\ seen' = [seen EXCEPT ![c] = Head(queue[c])]
    /\ queue' = [queue EXCEPT ![c] = Tail(@)]
    /\ UNCHANGED <<lastFrame, firstFrame, subscribers, reading, waiting, woken>>

\* The consumer stops iterating: its generator is closed, and gone with its queue.
Leave(c) ==
    /\ c \in reading
    /\ reading' = reading \ {c} /\ subscribers' = subscribers \ {c}
    /\ queue' = [queue EXCEPT ![c] = <<>>] /\ seen' = [seen EXCEPT ![c] = 0]
    /\ UNCHANGED <<lastFrame, firstFrame, waiting, woken>>

\* async_close drops the queues; the generators are not told.  The async_stop
\* before it cleared the event, unless the stream was not running.
CloseStream ==
    /\ subscribers' = {} /\ firstFrame' \in {firstFrame, FALSE}
    /\ UNCHANGED <<lastFrame, reading, queue, seen, waiting, woken>>

\* With a frame at hand async_wait_for_frame returns at once and changes nothing.
WaitForFrame(w) ==
    /\ w \notin waiting /\ lastFrame = 0
    /\ waiting' = waiting \union {w}
    /\ woken' = IF firstFrame THEN woken \union {w} ELSE woken
    /\ UNCHANGED <<lastFrame, firstFrame, subscribers, reading, queue, seen>>

Return(w) ==
    /\ waiting' = waiting \ {w} /\ woken' = woken \ {w}
    /\ UNCHANGED <<lastFrame, firstFrame, subscribers, reading, queue, seen>>

FrameArrived(w) == w \in woken /\ Return(w)

WaitTimesOut(w) == w \in waiting \ woken /\ Return(w)

Next ==
    \/ OnFrame \/ SessionOver \/ CloseStream
    \/ \E c \in Consumers : Subscribe(c) \/ Read(c) \/ Leave(c)
    \/ \E w \in Waiters : WaitForFrame(w) \/ FrameArrived(w) \/ WaitTimesOut(w)

Spec == Init /\ [][Next]_vars

-----------------------------------------------------------------------------
\* Each variable has the type the code gives it.
TypeOK ==
    /\ lastFrame \in Nat /\ firstFrame \in BOOLEAN
    /\ subscribers \subseteq reading /\ reading \subseteq Consumers
    /\ queue \in [Consumers -> Seq(Nat)] /\ seen \in [Consumers -> Nat]
    /\ \A c \in Consumers : Len(queue[c]) <= QueueSize
    /\ waiting \subseteq Waiters /\ woken \subseteq waiting

\* A consumer never gets a frame twice nor an older frame after a newer one,
\* however it joins while frames arrive: what is queued for it is newer than what
\* it has, in order and without a gap.
Newer(q, have, latest) ==
    \A i \in 1..Len(q) : have < q[i] /\ q[i] <= latest /\ q[i] = q[1] + (i - 1)
OnlyNewerFrames == \A c \in reading : Newer(queue[c], seen[c], lastFrame)

\* "a consumer that cannot keep up with the camera should skip ahead rather than
\* fall further behind": the newest frame is never the one dropped.  A
\* subscriber has seen it or finds it in its queue, fewer than QueueSize
\* frames after the one it gets next.
Reaches(q, have, latest) ==
    IF q = <<>> THEN have = latest
    ELSE q[Len(q)] = latest /\ latest - q[1] < QueueSize
NewestIsReachable == \A c \in subscribers : Reaches(queue[c], seen[c], lastFrame)

\* A task in async_wait_for_frame comes back once the camera has produced a
\* frame, also when the session that produced it is over by then and the event
\* was cleared again.
WaiterIsServed == \A w \in Waiters : (w \in waiting /\ lastFrame # 0) ~> (w \notin waiting)
=============================================================================
