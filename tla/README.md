# TLA+ specifications of tuya-ipc-p2p-sdk

This directory specifies the parts of the SDK that keep a camera streaming: the
KCP conversations that carry its media, the relay session they run over, the
session that negotiates one stream, the supervisor that runs one session after
another, the path of the frames from a media record to the consumers, and the
login all streams of an account share. TLC checks each on a small instance;
TLAPS proves their safety properties and four refinements for every value of the
constants. Liveness is model-checked; what it rests on besides fairness, that
nothing gets stuck and that each step brings an end nearer, is proved.

All paths below are relative to `src/src/tuya_ipc_p2p_sdk/`.

## 1. The system

### Components, their state and operations

| Component | State | Operations |
|---|---|---|
| `KcpConversation` (`transport/kcp_conversation.py`) | send and receive sequence, out-of-order segments, unacknowledged segments with their transmit count, fragments of the message in progress, the retransmit task, handler, closed flag | `input` (push, ack, window ask), `send`, the retransmit loop, `close`, `async_close`, `set_message_handler` |
| `RelaySession` (`transport/relay_session.py`) | the table of conversations, the future of the video conversation, closed flag | dial, route a segment, wait for the video, tunnel a signaling frame, connection closed, close |
| `RelayConnection` (`transport/relay_connection.py`) | socket, reader and keepalive tasks | dial and handshake, read loop, keepalive, close |
| `MotoClient` (`signaling/moto_client.py`) | broker connection, reader task | connect, publish query/offer/candidate/disconnect, dispatch what arrives, close |
| `IceResponder` (`transport/ice_responder.py`) | a UDP socket | gather, answer binding requests, close |
| `StreamSession` (`stream_session.py`) | the three above, the futures of the answer and of the end, the tasks that publish candidates, frame count, closing flag | `async_start` (eight awaits), `async_wait_closed`, `async_close` (four awaits), callbacks of broker and relay |
| `CameraStream` (`camera_stream.py`) | supervisor and watcher tasks, stop event, current session, time of the last frame, busy counter, subscriber queues, listeners | `async_start`, `async_stop`, `async_close`, the supervisor loop, the stall watcher, `_on_frame`, `async_frames`, `async_wait_for_frame` |
| `JpegReassembler`, `media.py` | the frame in progress | find the packets of a record, place a chunk, complete a frame |
| `MotionDetector` | typical difference, warm-up, confirmation, hold | sample, poll, reset |
| `TuyaIpcP2pClient` (`client.py`) | account session, login lock | login, call with one retry behind a fresh login |
| gateway, crypto, encodings, models | none, or read-only | pure functions around one HTTP call |

### How they interact

A caller starts and stops a `CameraStream`. Its supervisor fetches a config,
creates a `StreamSession`, runs `async_start` and then waits for the session's
end; its `finally` block closes the session. The session connects the broker,
publishes an offer, opens a UDP socket, waits for the device's answer, dials
the relay and waits for the device to open the video conversation. Broker and
relay each have a reader task that calls back into the session: an answer, a
device disconnect, the end of the relay connection, a media record. Complete
frames are published through `CameraStream._on_frame`. A second task of the
stream looks every few seconds whether frames still arrive and closes the
session if they do not.

### What is hard

Everything runs in one asyncio loop, so code between two awaits is atomic, and
everything else interleaves. The difficulties are: a session that is being
started by one task and closed by another; a cancellation that arrives in any
await, the awaits of a teardown included; futures that are cancelled by a
callback and look like the cancellation of the task that waits for them; two
callers in `async_stop`; a KCP peer whose segments arrive late, twice or not at
all; timers that must not leave anything pending; shallow queues between a fast
producer and slow consumers. `PROJECT.json` lists them at their lines under
"hazards".

### What makes each component correct

* A conversation loses nothing it acknowledged, forgets nothing the device
  lacks, hands every message over once, whole and in order, and does not leave
  a segment pending for ever.
* A session comes to a result, resolves each future once, and after its
  teardown holds no connection and no device.
* A stream runs one session at a time, its `_session` is that session, a stop
  returns and leaves nothing behind, a stall is noticed, a run of busy replies
  is reported.
* A relay session tells its owner of a loss and of nothing else, leaves nobody
  waiting for the video, serves every conversation the device opens, and its
  close ends and leaves nothing open.
* An image is published whole or not at all, a consumer gets newer frames only
  and never loses sight of the newest, motion is reported only when confirmed
  since the detector's last reset and does not stay on, and listeners are never
  behind on the motion, never miss that the stream is live and never take it for
  live after the end of a session or a stop.
* Tasks that share a login never go back to an older one, a refused call is made
  again with a newer one, and no task is left waiting for the login lock.

## 2. Modules

| Module | Models | Run by |
|---|---|---|
| `KcpConversation` | one conversation, the relay's two directions and the device's end of it | `MCKcpConversation` |
| `MessageChannel` | the reliable channel of whole messages a conversation implements | |
| `KcpConversationProofs` | theorems about the conversation | |
| `KcpChannelProofs` | that it implements `MessageChannel` | |
| `RelaySession` | one relay session on its connection, with all their tasks | itself |
| `RelayLink` | the relay as `StreamSession` sees it | |
| `RelaySessionProofs` | theorems about the relay session, that it implements `RelayLink` among them | |
| `StreamSession` | the session as a record and the operators that change it; no tasks | |
| `SessionLifecycle` | one session with its owner and any other task that closes it | itself |
| `SessionLifecycleProofs` | theorems about it | |
| `CameraStream` | supervisor, watcher and callers on top of `SessionLifecycle`'s sessions | `MCCameraStream` |
| `CameraStreamProofs` | theorems about it, that its sessions are `SessionLifecycle`'s among them | |
| `FrameFanout` | the frame queues and the tasks waiting for a frame | `FramePath` |
| `FrameFanoutProofs` | theorems about it | |
| `MediaPackets` | packets of a record and their reassembly, as operators | `FramePath` |
| `MotionDetector` | the detector as a record, its methods as operators | `FramePath` |
| `FramePath` | records, reassembler, detector, listeners and sessions that come and go, composed with `FrameFanout` | itself |
| `FramePathProofs` | theorems about it, that it implements `FrameFanout` among them | |
| `AccountClient` | the shared login, its lock, and the gateway's calls | itself |
| `AccountClientProofs` | theorems about it | |

### KcpConversation

The variables `nextSend`, `nextReceive`, `received`, `pending`, `armed`,
`handler` and `closed` are the fields of the class. `fragFirst` is the first
sequence number of the message in `_fragments`, `handed` counts how often each
segment's bytes reached the handler, and `sleepMark` is how far `nextSend` was
when the retransmit loop last went to sleep: what was sent before has waited a
whole interval. Actions: `Input` (one disjunct for each command), `Send`,
`RetransmitOnce`, `SetMessageHandler`, `CloseConversation`. `toDevice` and
`toClient` are the relay's TCP streams: they keep order. The device
(`DeviceQueue`, `DevicePush`, `DeviceProbe`, `DeviceReceive`) is external: it is
what the code expects of a KCP peer, which resends any segment of its window at
any time, in any order, as often as it likes.

Payloads are abstracted to their sequence numbers, the fragment numbers are the
constant `Frg`. The timestamp a segment carries is left out, since the code
only echoes it. Not modelled: the 32-bit width of the sequence (2^32 segments
are not reached) and of the millisecond clock (see section 6).

`Channel` maps a conversation to a `MessageChannel`: `taken` is `fragFirst`, the
segments the client is done with; `outstanding` the number of unacknowledged
ones; `arrived` what the device has without a gap. `ImplementsChannel` says that
whatever the windows, acknowledgements, duplicates, retransmissions, the
fragment list and the give-up do, it adds up to steps of that channel: whole
messages, once each and in order, and a sender that lets go of a segment only
when the device has it or the conversation is over.

### RelaySession, RelayLink

`dial` is the await `async_connect` is at (the dial, the second and the fourth
handshake message, the wait in a failed handshake) or how it ended; `writer`,
`connClosed`, `connHandler`, `reader` and `keepalive` are the fields and tasks of
`RelayConnection`, `closed`, `handler`, `video` and `table` those of
`RelaySession`. `closer` is the await its `async_close` is at: the loop of the
control conversation, the connection's tasks, the socket. Of a conversation only
its place in the table (absent, open, closed) is kept, with `looping` for the
retransmit loop of the control conversation, the only one the client sends on.
`waiting` are the conversations on which the device waits for an
acknowledgement. `grown` remembers that the reader has added to the table while
`async_close` was iterating over it; going on then raises and ends the close
(`ControlLoopEnds`).

`RelayLink` is what `StreamSession` is written against: a relay that is bound,
lost, or closed, the video future, and one notification. The mapping shows that
dialling, handshake, conversations and loops add nothing a session could see:
the notification comes for a loss nobody asked for and for nothing else, and
`async_close` does not return while somebody waits for the video. A close that
raised or was cancelled is not mapped to a returned one; `StreamSession` has
these outcomes of its own (`CloseRelay`, `CancelClose`).

### StreamSession, SessionLifecycle

`session[s]` is a record. Its field `phase` names the await `async_start` is at
(`connect`, `query`, `offer`, `gather`, `answer`, `dial`, `pause`, `video`), then
`up` for `async_wait_closed` and `over` once start or wait has returned or
raised; `close` names the await `async_close` is at. `broker`, `relay`, `ice` and
`trickle` are what the session owns, `answer`, `video` and `ended` its futures,
`device` what the device was told last: `held` after an offer, `free` after a
disconnect, `unreachable` when the disconnect could not be published.

`Resume(r)` and `ResumeClose(r)` give the records a session may become when the
task that runs or closes it goes on; `Cancel(r)` and `CancelClose(r)` those when
the await raises `CancelledError`. Awaits that fail have a result for each
exception the callers tell apart; awaits in a row with the same outcomes, such as
the broker's dial and its subscription, are one. Callbacks (`OnAnswer`, `OnDeviceDisconnect`,
`BrokerLost`, `OnRelayClosed`, `OnVideoOpened`, `OnMediaRecord`) are actions of
their own. `SessionLifecycle` adds the owner (`Create`, `Run`, `Interrupt`) and
another task that closes the session (`CloseFromOutside`, `Teardown`,
`InterruptTeardown`). The field `early` is history: another task closed the
session before `async_start` had returned. The names of the specification and its
type invariant carry the prefix `Session`, as `CameraStream` extends the module.

### CameraStream

Each `async_start` spawns a supervisor and a watcher, numbered by the start.
`sup[g].pc`, `watch[g].pc` and `caller[c].pc` are the awaits the tasks are at.
`Task.cancel` sets `cancel`; the task's next step is then the cancelled one
(`CancelSupervisor`, `CancelWatcher`). An await that swallows the cancellation
clears it, as in `RelayConnection.async_close`; a watcher whose teardown swallowed it
looks at `_stop_requested` and may go on. `LeaveSession` is the `finally`
block, `NoteOutcome` the code between two attempts. Durations are abstracted: a
backoff ends at some time, and `lastFrameAt` is `never`, `recent` or `stale`, the
last one being older than the stall timeout (`TimePasses`). `busyInARow` is a
history variable.

`RunsSessions` is the specification of `SessionLifecycle`, read over the same
variable `session`: the loop that creates sessions, the `finally` block, the
watcher and the callers' stops together do to a session only what one owner and
one outside task may do to it. What is proved of a session on its own then holds
of every session of a stream.

The motion detector and the state listeners that the same methods call do not
influence any of this; they are in `FramePath`.

### FrameFanout

A frame is its number. `queue[c]` is the queue of consumer `c`'s generator,
`seen[c]` what it yielded last, `reading` the consumers whose generator has not
ended, `subscribers` those whose queue is registered; `async_close` empties the
latter only. `waiting` and `woken` are the tasks in `async_wait_for_frame`.

### MediaPackets, MotionDetector, FramePath

Records, packets and images are sequences of words of four bytes, the unit in
which the header is laid out; a word is a number, the marker of a header, the
start, the inside or the end of an image, or zeros. `ExtractMediaPackets`,
`Push`, `Flush` and `Placed` are the functions of `media.py` and
`jpeg_reassembler.py` on them.

A detector is a record of what its methods look at. Whether a frame exceeds the
threshold is an input: the floating-point average that decides it is abstracted
away. `hold` is the time left until `_motion_until`, in ticks.

In `FramePath` a device sends images of different sizes, one word to a packet,
in any order that begins with the first word (`Leads`), one or two packets to a
record; one of two images holds the marker of a header among its data. The first
word of a header ("length/flags" in `media.py`) is not read by the code; in the
model it holds the packet's length, so that in front of such data there is a number
that passes for a length, and a search that looked into payloads would find packets
that are none. No image has an end-of-image before its last word (section 6). A session
may join in the middle of an image. `MediaRecord` is `_on_media_record` with
everything it calls, as nothing on that path awaits. `SessionEnds` is the `finally`
block up to the close, `SessionClosed` its end: between them records still
arrive, as they do in the code, and the frames they complete are sampled by the
detector that was just reset. `age` is the time since `_last_frame_at`, `told`
what a state listener read when it was last called. `sampled` and `loudRun` are
history: they count, from the last reset on, what the detector should have
counted.

The path's steps are steps of `FrameFanout` or leave it unchanged (the theorem
`PathIsFanout`), so `OnlyNewerFrames`, `NewestIsReachable` and `WaiterIsServed`
are properties of the whole path.

### AccountClient

A login session is its number in the order the gateway issued them. `account` is
`_account`; `holder` and `waiters` are `_login_lock`, an `asyncio.Lock` that
nobody can overtake in. `task[c]` is what caller `c` is doing: `pc` is the HTTP
call it is in (or `lock` in the queue), `session` the session the call carries,
`refused` the session refused before a retry, `reply` the gateway's answer while
it travels. `LogIn` is the entry to `async_login`, `LoggedIn` its end, `Call` the
start of every operation that asks `async_account` first, `RetryBehindLogin` and
`RefusedAgain` the two ends of a refusal. The listings are sequences of calls;
a probe of the discovery swallows every error (`ProbeFails`). Supervisors only
fetch configs; application tasks call the other methods.

The gateway (`IssueSession`, `HandleCall`, `ExpireSession`) is external. It
accepts only sessions it holds; it may withdraw one at any time, refuse a good
one with an "expired" code, and fail any call. The contents of the answers are
left out, and so is the HTTP session that the first call opens.

## 3. Runs

| Run | Checks | Bounds |
|---|---|---|
| `kcp` | `TypeOK`, `AckedIsKept`, `RetiredIsHeld`, `HandedOnceAndWhole`, `ImplementsChannel`, `SilentOnceClosed`, `PendingDrains`, `DeviceIsServed` | a two-segment and a one-segment message from the device, two segments to it, windows of 2, two transmissions, two segments in flight |
| `session` | `SessionTypeOK`, `TornDownHoldsNothing`, `NoCandidateOnceClosing`, `ResolvedOnce`, `EndedIsTornDown`, `StartReturns` | one session, two dial attempts |
| `stream_safety` | `TypeOK`, `OneSessionAtATime`, `CurrentIsRunning`, `StopLeavesNoTask`, `BusyRunIsReported` | two sessions, two starts, one caller, busy limit 2 |
| `stream_callers` | `ClosedByOneTask`, `RunsSessions`, `StopReturns`, `StallEnds` | one session, two starts, two callers |
| `relay` | `ClosedHoldsNothing`, `ImplementsLink`, `CloseReturns`, `EveryConversationServed` | three conversations: control, video and one nobody listens to |
| `frames` | `PathTypeOK`, `OnlyNewerFrames`, `NewestIsReachable`, `ListenersAreCurrent`, `WaiterIsServed`, `WholeFrames`, `MotionIsConfirmed`, `MotionClears` | one consumer, one waiting task, one listener, queue of 2, four frames, images of 3 and 4 words with a limit of 3, warm-up 1, confirmation 2, hold 2 |
| `account` | `TypeOK`, `RetriedBehindFreshLogin`, `IdentityNotOlder`, `AccountOnlyRenewed`, `OperationEnds` | two supervisors, one application task, two logins, up to two homes and two devices |

Why these are enough. The client's window must be able to turn a segment away
and the device's to run ahead of it; messages must be of one and of several
segments; a segment must be given up after more than one transmission. A session
does not share state with another, so one shows its behaviour; two dial attempts
show a retry. Two sessions show every overlap of one with the next, two starts
that of one pair of tasks with the next, and two callers the overlaps of two stops
and of a stop with a start, which one task cannot produce; what a third start adds
was looked at once, outside the runs (section 6). A relay session treats conversations alike except
for control and video, so one more stands for all others. Frames overflow a
queue of two twice within four; consumers and waiting tasks do not act on each
other, and the theorems are for any number of them. Four frames take a detector
through its first frame, the warm-up and the two that confirm motion, in one
session or over several; of the two image sizes one is over the limit, and two
packets in a record let an image end and the next begin in one. Three tasks give the login lock a holder and a queue of two; two
logins show a renewal and two answers that could overtake each other, and more
than one home and device make the loops of the listings go round. The theorems
about the login hold for any number of each.

`CHECK_DEADLOCK FALSE` stands where the system may come to rest: a torn-down
session, a stopped stream, or a stream that has used up its bound of sessions.

### Fairness

* `kcp` assumes only that the loop's timer fires (`LoopFairness`).
  `DeviceIsServed` has the transport's fairness as its hypothesis: the relay
  carries, the reader reads, the device retransmits.
* `session` and `stream_callers`: a task whose await is over is resumed. The
  awaits of `async_start` and `async_close` have a timeout of their own or wait for
  a task that was cancelled, a sleep ends, and asyncio is a fair scheduler. One
  await has neither: the `wait_closed` of the relay's socket
  (`transport/relay_connection.py`), after `close` on the transport; that it ends is
  assumed, here and in `relay`. No
  callback is assumed to happen: the device, the broker and the relay may stay
  silent for ever. `async_wait_closed` and `async_stop` are resumed only once what
  they wait for has happened. `StopReturns` leaves out a stop during which another
  task starts the stream again: that clears `_stop_requested`, and a supervisor
  whose cancellation was swallowed then goes on (section 6).
* `relay`: the reader routes what the device has sent, a cancelled task is
  resumed, and so is `async_close` once what it waits for has happened. Neither the
  handshake nor the device is assumed to get on.
* `frames`: a task whose future is done is resumed, the watcher wakes up from its
  sleep, and time passes. Nothing is assumed of the device or of the sessions, and
  no timeout.
* `account`: every HTTP call ends within `_REQUEST_TIMEOUT_SECONDS`, if only with
  a failure, and the first task in the queue of a free lock is resumed. No call is
  assumed to succeed.

### Runs that find what a document denies

| Run | Statement | What happens |
|---|---|---|
| `session_dial_timeout` | `DialRetries`: "Connect the relay, retrying while the device settles." | The handshake's `asyncio.timeout` raises the built-in `TimeoutError`; the loop catches `TuyaIpcP2pError` only, and the session ends at the first attempt. |
| `stream_dead_supervisor` | `RunningMeansSupervised`: "Whether the supervisor is up" | The relay connection is lost while the session waits for the video. The cancelled future raises `CancelledError` in the supervisor, which re-raises it and is gone; `running` stays true and `async_start` does nothing. |
| `stream_lost_disconnect` | `EverySessionIsReleased`: "Every session publishes a `disconnect` on its way out" | `async_stop` cancels the supervisor while it is tearing a session down, and the disconnect is never published. |
| `stream_silent_session` | `SilentSessionEnds`: a session ends on "a stall (no frame within the stall timeout)" | The watcher skips a session that has not delivered a frame, so it stays up for as long as the relay does. |
| `media_out_of_order` | `WholeFrames`: "Places chunks by offset, so out-of-order delivery still reassembles." | With `Leads` false, a chunk may come before the first one of its image. It is written over the image in progress, or is missing from its own, and a frame that is no image of the camera's is published. In `frames`, where the first chunk leads, every other order does reassemble. KCP delivers in order, so the order is the device's own. |

## 4. Proofs

Assumptions on the constants are in the modules that declare them. For
`KcpConversation`: `BoundsAssumption` (windows and limits are positive, totals
are natural numbers), `WindowAssumption` (the device never has more in flight
than the client's receive window) and `FrgAssumption` (a message's fragment
numbers count down to 0). For `FrameFanout`: `FanoutAssumption` (the queue size
is positive). For `RelaySession`: `ConversationAssumption` (control and video are
two conversations). For `FramePath`: `MediaAssumption`, `MotionAssumption` and
`PathAssumption` (sizes and durations are natural numbers, those that must not be
zero are positive, an image has a first and a last word, and the longest packet
allowed, 4 MiB in the code, is longer than a header). For `AccountClient`:
`AccountAssumption` (the bounds are natural numbers, `None` is no task). For
`SessionLifecycle` and `CameraStream`: `DialAssumption` and `StreamAssumption` (the
number of dial attempts and the busy limit are positive, the bounds on sessions
and starts natural numbers).

### KcpConversation

Proved for every window, retransmit limit and message layout: `TypeCorrect`,
`AcknowledgedIsKept`, `RetiredHeldByDevice`, `DeliveredOnceAndWhole`,
`DeliveredInOrder`, `LoopRunsWhilePending`, `QuietAfterClose`.

None of the invariants is inductive by itself, because each speaks of two ends
between which segments are on their way. The inductive invariant `IInv` adds
what is true of those segments:

* `PendingRun`: the unacknowledged segments are a run of consecutive sequence
  numbers that ends before `nextSend`;
* `PushOrder`: a push that is still on its way to the device comes after every
  earlier one it has not got; with TCP's order this is what makes a cumulative
  reading of a single acknowledgement safe;
* `DeviceReports`, `DeviceHolds`: what the device says it has received, in any
  segment on its way, it holds;
* `NothingLost`: what the device has not retired and what the client has not got
  add up: a retired segment is delivered or buffered;
* `InWindow`: no segment on its way is beyond the client's window, so `_accept`
  never turns a new segment away and acknowledging all of them is harmless;
* `AckKept`: the same for acknowledgements that are still under way;
* `Boundary`: `fragFirst` starts a message and nothing from there on was handed
  over;
* `ClosedIsEmpty`: a closed conversation holds nothing and has no loop.

There is one lemma for each action, and under it one step for each conjunct the
action can disturb. `HandedInOrder` and `SilentOnceClosed` are action properties
that follow from `IInv`.

`LoopGivesUpInTime` is what `PendingDrains` needs besides the timer: when the loop
wakes, everything pending is due unless it was sent during the sleep, and a
segment that survives a wake at which it was due has been transmitted once more.
As `TypeOK` bounds the transmissions by `MaxRetransmits`, a segment outlives at most
that many wakes at which it is due, and it is due at every wake but the first.

`KcpChannelProofs` proves `ConversationIsChannel`, the refinement. Each action is
shown to be a step of the channel or a stutter. The receive step rests on
`Boundary` and on `InWindow`; the retire step on `RetiredIsHeld` and on `Held`,
which is added to `IInv`: what the device holds are segments the client has
sent, and `devReceived` is the first it lacks, so that what the client lets go of
has arrived.

### RelaySession

Proved for any set of conversations: `TypeCorrect`, `CloseLeavesNothing`,
`SessionIsLink`. The invariant says what one part may rely on of the others:
`DialInv` (how far the dial has come says which tasks and handlers exist),
`ReaderInv` (a reader that runs while nobody closes can still report a loss; a
cancelled one was cancelled by `async_close`), `CloseInv` (how far the close has
come says what is gone). It is needed because the reader can open a conversation
while `async_close` waits for the control conversation's loop: only because the
step that closes the table also cancels the reader does none come after it.

A second invariant, `ServiceInv`, says which conversations can be closed in an open
session (none but control) and that the future of the video and the table agree;
from it `ReaderServesAll` and `VideoMatchesTable`. `CloseMovesOn` and
`CloseComesNearer` are the safety half of `CloseReturns`: `async_close` waits only for
tasks it has cancelled or that have ended, and its awaits and theirs are counted
down by `AwaitsLeft` and `TaskLeft`, which nothing raises.

### SessionLifecycle

Proved for any number of sessions and dial attempts: `SessionTypeCorrect`,
`TeardownReleases`, `CandidatesStop`, `FuturesResolveOnce`. Sessions do not act on
each other, so the invariant `SessionInv` is a predicate of one record (`Sound`),
and there is one lemma for each operator of `StreamSession`, on a record that
satisfies it. `TornDownHoldsNothing` speaks of the end of a teardown; the
invariant says what holds on the way there. `CloseInv`: each await of
`async_close` that is behind the session says what is gone. `PhaseInv`: how far the
start has come says what there can be to close; above all, the signaling client
is there until the teardown takes it, so that the disconnect is published, and a
relay exists only after a dial. A session closed from outside while it starts is
`early` and exempt from `CloseInv`, because what the teardown took the start may
open again.

`SessionsMoveOn` says that no await is one a session cannot leave: `Resume` has an
outcome in every phase of the start, `ResumeClose` in every await of the teardown
one that is a real step, and a session that is over is being closed.
`EndComesNearer` bounds their number: `ResumesLeft` (the awaits of `async_start`, two
for each dial attempt that is left) and `StepsLeft` (those of `async_close`) are
lowered by every resumption that does something, and no callback, no other task and
no cancellation raises them. Together with the fairness of the tasks this is
`StartReturns` and `EndedIsTornDown`.

### CameraStream

Proved for any number of sessions, starts and callers: `StreamTypeCorrect`,
`StreamRunsSessions` (the refinement), `StreamReleases`, `TeardownHasOneTask`,
`BusyRunsReported`. The invariant `StreamInv` adds to the sessions' own:

* `OwnerInv`: a session that runs has exactly one supervisor, and `_session`, if
  set, is a session that runs. Every step of the refinement rests on it: a
  supervisor that resumes or is cancelled in a session finds it running, a
  watcher or a stop that closes `_session` closes one that runs;
* `CloserInv`: a teardown in progress has one task that drives it, a session that
  is not being torn down has none. This is `ClosedByOneTask` with sets in place
  of their sizes. `_closing`, tested and set without an await between, keeps it;
* `PairInv`: a start spawns its two tasks together;
* `BusyInv`: the counter is never behind the history.

`StopEndsTasks`, `SessionsTakeTurns` and `CurrentIsSupervised` have the hypothesis
`OneCaller`: one task calls `async_start` and `async_stop`. It is the hypothesis of
the run that checks them, and without it they are false: of two overlapping
stops the second may clear a task that was started between their ends (section 6).
Their invariant `SoleInv` says that only the tasks the stream knows of are alive,
that a stop waits for these and no others, and that the supervisor's session is
`_session`.

What holds of a stop with any number of callers is `StopsEndTheirPairs`: the
supervisor and the watcher it cancelled, whatever the stream calls by these names
when it returns, have ended and stay so. Its invariant `StopInv` follows the pair
through the two waits of each `async_stop`. `StoppedTasksWindDown` is the safety half
of `StopReturns`: while `_stop_requested` stands, the awaits a supervisor or a
watcher moves on to are nearer and nearer to its end (`SupLeft`, `WatchLeft`), also
after a swallowed cancellation, so that the loop does not go round again. The
awaits within a session are bounded by `StreamSessionsMoveOn`, which carries the two
results of `SessionLifecycle` over to the sessions of a stream.

### FrameFanout

Proved for any number of consumers, any depth and any number of frames:
`TypeCorrect`, `FramesInOrder`, `SlowConsumersSkipAhead`. The conjunction of the
three properties is inductive. The lemmas speak of a single queue: a
subscriber's queue is the run of consecutive frames that ends with the newest
(`QueueIsNewestRun`), putting a frame keeps it one (`PutKeepsRun`), taking one
too (`TailKeepsRun`).

`NobodyWaitsWithAFrame`: once there is a frame, every task still in
`async_wait_for_frame` has been woken, although the event it waited for may have been
cleared since. It needs that the event is never set without a frame (`WaitInv`).

### FramePath

Proved for every size, warm-up, confirmation, hold and stall timeout, and any
number of consumers: `PathIsFanout`, and with it `PathInOrder`, `PathSkipsAhead` and
`PathWakesWaiters`; `ListenersStayCurrent`; `MotionOnlyConfirmed`; `MotionFades`;
`PathTypeCorrect`; `FramesAreWhole`.

For the listeners, one lemma (`NotifiedIsCurrent`) says what a step owes them; the
invariant adds that a live stream has had a frame since the last session was over.
The invariant behind the motion is `MotionInv`: the detector is `Sound` (a held detector
reports, one that has not warmed up has counted nothing) and the history counts
what it counts. `MotionFades` says that only a frame lengthens the hold, that the
clock shortens it and that the poll after its end clears the motion.

`FramesAreWhole` has the hypothesis `Leads`, that the device sends the first word
of an image first; without it the run `media_out_of_order` refutes the property.
`PathTypeCorrect`, the bound on the buffer among it, has no such hypothesis. The
argument has three layers:

* Records. The search for packets and the pushes of a record are recursive
  functions. Their equations are satisfied by functions that are written down
  (`ExtractOne`, `ExtractTwo`, `PushOne`, `PushTwo`), and any function that
  satisfies them gives the same result, so no induction is needed. A record of one
  or two packets gives these packets, also when a payload looks like the marker of
  a header with a length before it: the search goes on behind the packet and never
  begins in a payload, where it would find something else (`ExtractPayload`).
* The reassembler. A word is written in its place and nowhere else (`PlacedIs`,
  `TookIs`); of a complete image the flush gives the image, or nothing if it was
  too large or joined late (`FlushIs`).
* The invariant `WholeInv`, by way of `Fits`: of an image the session has from its
  first word on, the reassembler holds everything that was sent and fits, in its
  place, and nothing beyond the image's size; of any other image nothing
  (`TookFits`). As an image has two words at least, a record starts one image at
  most (`RecordGives`).

### AccountClient

Proved for any number of tasks, logins, homes and devices: `TypeCorrect`,
`RetriesAreFresh`, `IdentitiesAreCurrent`, `NewestLoginWins`. The inductive
invariant adds `LockHeld` (who is inside a login holds the lock) and the order of
the sessions each task knows (`Ordered`): an answer to a login that is on its way
is newer than `_account`, every session in use or refused is at most as new.
Storing an answer keeps this because, by `LockHeld`, no other answer to a login
can be on its way. `OneTaskMoves` covers every step that changes one task and no
counter; only issuing and storing a session need more.

Behind `OperationEnds` are three theorems with the invariant `ProgressInv`.
`LockServes`: the login lock is free or held by a task inside a login, which will
release it, and its queue is the tasks that wait, each once. `QueueIsFair`: none of
them falls back in it. `OperationsShrink`: the calls an operation can still make
(`CallsLeft`: what is left of the round it is in and, as long as nothing was refused,
the login and the second round behind it) become fewer with each of its steps.

### Only model-checked

Liveness (`PendingDrains`, `DeviceIsServed`, `EndedIsTornDown`, `StartReturns`,
`StopReturns`, `StallEnds`, `CloseReturns`, `EveryConversationServed`,
`WaiterIsServed`, `MotionClears`, `OperationEnds`) as such is out of the prover's
reach: the last step, from "a step is possible and brings the end nearer" to "the
end comes", rests on fairness and on which steps are enabled. The first part is
proved for all of them but `DeviceIsServed`, which depends on the transport and the
device getting on, and `StallEnds`; the theorems are the ones named above as their
safety halves. Every invariant and every action property that a passing run checks
is a theorem. What the search finds in a record of more than two packets, or of
other bytes than the device's, is neither proved nor checked.

## 5. Plan

1. An abstract specification of a stream (idle, starting, streaming, releasing;
   one session at a time; a stop ends it) that `CameraStream` implements, in
   addition to the refinement of its sessions.
2. The signaling client as a module of its own, with the filter on the session
   id, and the gateway's HTTP session.

## 6. What the models show beyond the runs

These behaviours are reachable in the models and have no run of their own.

* A session closed by another task while it starts (the watcher can do this,
  see the next point) leaks: `async_close` takes what exists, `async_start` goes
  on and opens the rest, and the owner's own `async_close` returns at once because
  `_closing` is set. `TornDownHoldsNothing` leaves these sessions (`early`) out.
* `_last_frame_at` is reset before the old session is closed. A frame completed
  during the teardown sets it again, and the watcher may close the next session
  as stalled before it has streamed. In `FramePath` the same frame leaves the
  listeners with a stream that is live, until the next session says otherwise.
* The motion detector is reset before the old session is closed
  (`camera_stream.py:293` and `:295`), and the next session does not reset it. Frames
  completed during the teardown are sampled after the reset: they serve the next
  session as its first frame, as a part of its warm-up, or as the first of the
  frames that confirm motion. `MotionIsConfirmed` counts from the reset, not from the
  start of a session, and so does the code.
* When the last frame grows older than the stall timeout, `streaming` turns false and
  no listener is called. `ListenersAreCurrent` therefore lets a listener believe in a
  live stream until the session ends or the next call.
* An image larger than `MAX_FRAME_SIZE` is left out because its end-of-image lies
  beyond the limit. If its data contain another one, as those of an embedded
  thumbnail do, `_flush` takes the last one in the buffer
  (`jpeg_reassembler.py:63`) and the image would be handed out cut short. The images
  of `FramePath` end at their only end-of-image, so no run shows this.
* A relay close that raises because the table has grown leaves the reader
  running (`closer = "raised"`): the old session's records may go on arriving
  beside those of the next, and its frames go to the same consumers and the same
  detector. `FramePath` has one session at a time and does not show what that does to
  them. `ClosedHoldsNothing` speaks of a close that returned.
* Two overlapping `async_stop` calls and a start between their ends: the second
  one sets `_supervisor_task` to `None` although it is a new task.
  `StopLeavesNoTask` is therefore checked and proved with one caller.
* With one start more a stop may never return. Two tasks stop a stream; the first
  to come back starts it again and stops it while its new supervisor is in a
  teardown that swallows the `CancelledError`; the other, still ending its own stop,
  sets `_supervisor_task` to `None` and starts the stream a third time, which clears
  `_stop_requested`. The second supervisor goes on with its loop, beside the third,
  and the stop that waits for it waits for ever. It takes `MaxStarts = 3` with two
  callers. `StopReturns` leaves out the stops another start overlaps; in this form
  TLC has also checked it there (one session, 2.2 million states, longer than a run
  should take).
* A session that was accepted and ended without a frame leaves the busy counter
  as it was, so the refusals reported as "in a row" need not be; any other error,
  also one before an offer was sent, clears it. `BusyRunIsReported` has one direction
  only: a run that long is reported.
* The model of a conversation keeps whether a retransmit loop is armed, not how many
  loops run, so it does not show that there is never a second one.
* A conversation that gave up stays in the routing table and drops the device's
  pushes without an acknowledgement.
* A consumer in `async_frames` is not woken by `CameraStream.async_close`.
* A discovery takes the refusal of an expired session for a device that is no
  camera: a session that expires between its listing and its last probe makes the
  remaining cameras disappear from the result, without a retry or an error.
* Tasks refused at the same moment log in one after another although the first
  login would do for all of them, and so do tasks that call `async_account`
  before the first login is over.
* `GatewayClient.async_close` awaits the closing of the HTTP session before it
  forgets it (`gateway/client.py:109`): a call made meanwhile uses the closed
  session, and of two overlapping closes with a call between them the second
  drops the new session unclosed. The HTTP session is not modelled; a caller sees
  `CallFails`.
* The retransmit loop compares 32-bit millisecond clocks without regard to the
  wrap; a segment pending at that moment is neither resent nor given up. The
  model has no clock and does not show this.

## 7. Not modelled

Cryptography, signing, framing, and the building and parsing of payloads are
stateless byte transformations that the repository's tests pin with vectors;
their failures appear as failing steps of the operations that use them. The ICE
responder's STUN replies are stateless too. The models, JSON types and constants
have no behaviour. The motion detector's floating-point average is out of TLC's
reach. The gateway client's HTTP session (opened by the first call, closed by
`async_close`) is not modelled; nor is the numbering of signaling payloads, which
nothing reads back.
