---------------------------- MODULE StreamSession ----------------------------
(***************************************************************************)
(* One streaming session (stream_session.py) with what it owns: the        *)
(* signaling client (signaling/moto_client.py), the ICE socket             *)
(* (transport/ice_responder.py) and the relay session                      *)
(* (transport/relay_session.py, transport/relay_connection.py).            *)
(*                                                                         *)
(* asyncio runs one task at a time and switches only at an await.  A       *)
(* session is a record; an operator below gives the records it may become  *)
(* when the task that runs it is resumed from the await it is at, when     *)
(* that await raises CancelledError, or when a callback of the broker or   *)
(* of the relay fires.  The tasks themselves are in the modules that       *)
(* extend this one.                                                        *)
(***************************************************************************)
EXTENDS Integers, FiniteSets

CONSTANTS
    Sessions,      \* the StreamSession objects
    DialAttempts   \* _RELAY_DIAL_ATTEMPTS

ASSUME DialAssumption == DialAttempts \in Nat \ {0}

VARIABLE session

Starting == {"connect", "query", "offer", "gather", "answer", "dial", "pause", "video"}

SessionState ==
    [phase   : {"new", "up", "over"} \union Starting,  \* the await async_start is at
     result  : {"none", "ended", "busy", "failed", "cancelled"},  \* how it came to "over"
     answer  : {"pending", "answered", "invalid", "busy", "refused", "cancelled"},
     ended   : BOOLEAN,       \* _ended is done
     moto    : BOOLEAN,       \* _moto is not None
     broker  : {"down", "connected", "up", "lost"},  \* "up": the reader runs as well
     ice     : BOOLEAN,       \* the UDP socket is open
     trickle : BOOLEAN,       \* a task of _candidate_tasks is publishing
     attempt : 0..DialAttempts,
     relay   : {"none", "up", "closing", "lost"},  \* "closing": RelaySession._closed
     video   : {"pending", "ready", "cancelled"},    \* RelaySession._video_ready
     handler : BOOLEAN,       \* the video conversation has _on_media_record
     frames  : BOOLEAN,       \* _frames > 0
     device  : {"free", "held", "unreachable"},      \* what it was told last
     close   : {"open", "relay", "disconnect", "grace", "broker", "done", "aborted"},
     early   : BOOLEAN]       \* history: another task closed it before async_start returned

\* A session nobody has created yet.
Unborn ==
    [phase |-> "new", result |-> "none", answer |-> "pending", ended |-> FALSE,
     moto |-> FALSE, broker |-> "down", ice |-> FALSE, trickle |-> FALSE, attempt |-> 0,
     relay |-> "none", video |-> "pending", handler |-> FALSE, frames |-> FALSE,
     device |-> "free", close |-> "open", early |-> FALSE]

\* Mutant: a second result replaces the first.
ResolveAgain(future, value) == value

\* A future is resolved once.
Resolve(future, value) == IF future = "pending" THEN value ELSE future

\* A message published now reaches the broker, if the connection holds.
CanPublish(r) == r.broker \in {"connected", "up"}

Raise(r, why) == [r EXCEPT !.phase = "over", !.result = why]

-----------------------------------------------------------------------------
(* async_start and async_wait_closed, one operator per await.               *)

\* The constructor and the part of async_start before its first await.
Created == [Unborn EXCEPT !.phase = "connect", !.moto = TRUE]

\* MotoClient.async_connect: the dial and the subscription may each fail.
Connect(r) ==
    {Raise(r, "failed"), Raise([r EXCEPT !.broker = "connected"], "failed"),
     IF r.moto THEN [r EXCEPT !.broker = "up", !.phase = "query"]
               ELSE Raise([r EXCEPT !.broker = "up"], "failed")}

\* The query's failure is suppressed; the offer goes out next.
Query(r) ==
    IF r.broker = "down" THEN {Raise(r, "failed")}
    ELSE {[r EXCEPT !.phase = "offer", !.device = IF CanPublish(r) THEN "held" ELSE @]}

Offer(r) ==
    {Raise(r, "failed")} \union (IF CanPublish(r) THEN {[r EXCEPT !.phase = "gather"]} ELSE {})

\* The candidate is published by a task of its own.
OnLocalCandidate(r) == [r EXCEPT !.trickle = r.moto]

\* The socket is bound, which may fail, and its candidate is announced.
Gather(r) ==
    {Raise(r, "failed"), OnLocalCandidate([r EXCEPT !.ice = TRUE, !.phase = "answer"])}

\* Mutant: one attempt too many.
DialOnceMore(r, attempt) ==
    IF attempt > DialAttempts + 1 \/ r.ended THEN Raise(r, "failed")
    ELSE [r EXCEPT !.phase = "dial", !.attempt = attempt]

\* The head of the dial loop.
Dial(r, attempt) ==
    IF attempt > DialAttempts \/ r.ended THEN Raise(r, "failed")
    ELSE [r EXCEPT !.phase = "dial", !.attempt = attempt]

\* Mutant: the wait for the answer has no timeout.
AwaitAnswerForEver(r) ==
    CASE r.answer = "answered" -> {Dial(r, 1)}
      [] r.answer \in {"busy", "cancelled"} -> {Raise(r, r.answer)}
      [] r.answer = "pending" -> {}
      [] OTHER -> {Raise(r, "failed")}

\* Still pending means that the timeout fired.
AwaitAnswer(r) ==
    CASE r.answer = "answered" -> {Dial(r, 1)}
      [] r.answer \in {"busy", "cancelled"} -> {Raise(r, r.answer)}
      [] OTHER -> {Raise(r, "failed")}

\* _relay is set, the offer and the candidates are tunnelled and the start burst
\* is sent, all before the next await.
BindRelay(r) == [r EXCEPT !.relay = "up", !.phase = "video"]

\* RelayConnection.async_connect: it may succeed, raise an error the loop
\* retries, or raise the handshake's TimeoutError, which the loop does not
\* catch.
DialRelay(r) == {BindRelay(r), [r EXCEPT !.phase = "pause"], Raise(r, "failed")}

AwaitVideo(r) ==
    CASE r.video = "ready" -> {[r EXCEPT !.phase = "up", !.handler = (r.relay \in {"up", "closing"})]}
      [] r.video = "cancelled" -> {Raise(r, "cancelled")}
      [] r.video = "pending" -> {Raise(r, "failed")}

\* Mutant: only the end of the relay wakes the waiter.
WaitRelayClosed(r) == IF r.relay = "lost" THEN {Raise(r, "ended")} ELSE {}

WaitClosed(r) == IF r.ended THEN {Raise(r, "ended")} ELSE {}

\* What the session may become when the task running it goes on.
Resume(r) ==
    CASE r.phase = "connect" -> Connect(r)
      [] r.phase = "query" -> Query(r)
      [] r.phase = "offer" -> Offer(r)
      [] r.phase = "gather" -> Gather(r)
      [] r.phase = "answer" -> AwaitAnswer(r)
      [] r.phase = "dial" -> DialRelay(r)
      [] r.phase = "pause" -> {Dial(r, r.attempt + 1)}
      [] r.phase = "video" -> AwaitVideo(r)
      [] r.phase = "up" -> WaitClosed(r)
      [] OTHER -> {}

\* What it may become when the await it is at raises CancelledError.
Cancel(r) ==
    IF r.phase \in {"new", "over"} THEN {}
    ELSE {Raise(r, "cancelled")}
         \union (IF r.phase = "connect"
                 THEN {Raise([r EXCEPT !.broker = "connected"], "cancelled")} ELSE {})

-----------------------------------------------------------------------------
(* async_close.                                                             *)

\* Mutant: no early return.
AlwaysCloses(r) == r.phase # "new"

\* Only the first call of async_close does anything.
Closes(r) == r.close = "open"

\* Mutant: the device is not told.
TakeMotoSilently(r) ==
    IF r.moto THEN [r EXCEPT !.moto = FALSE, !.close = "grace"]
              ELSE [r EXCEPT !.close = "done"]

\* Take _moto and start publishing the disconnect.
TakeMoto(r) ==
    IF r.moto THEN [r EXCEPT !.moto = FALSE, !.close = "disconnect"]
              ELSE [r EXCEPT !.close = "done"]

\* Mutant: the candidates' tasks are left running.
BeginCloseKeepingCandidates(r) ==
    LET shut == [r EXCEPT !.ended = TRUE, !.ice = FALSE, !.answer = Resolve(@, "cancelled"),
                          !.early = r.phase \in Starting]
    IN  IF ~Closes(r) THEN r
        ELSE IF r.relay = "none" THEN TakeMoto(shut)
        ELSE [shut EXCEPT !.close = "relay", !.relay = IF @ = "up" THEN "closing" ELSE @]

\* Everything up to the first await.
BeginClose(r) ==
    LET shut == [r EXCEPT !.ended = TRUE, !.trickle = FALSE, !.ice = FALSE,
                          !.answer = Resolve(@, "cancelled"), !.early = r.phase \in Starting]
    IN  IF ~Closes(r) THEN r
        ELSE IF r.relay = "none" THEN TakeMoto(shut)
        ELSE [shut EXCEPT !.close = "relay", !.relay = IF @ = "up" THEN "closing" ELSE @]

\* RelaySession.async_close stops the wait for the video on its way.  It raises
\* when the reader adds a conversation to the table while it waits for the
\* control conversation's loop, which is before that.
CloseRelay(r) ==
    LET videoOver == [r EXCEPT !.video = Resolve(@, "cancelled")]
    IN  {videoOver, TakeMoto([videoOver EXCEPT !.relay = "none"])}
        \union (IF r.relay = "closing" /\ r.video # "cancelled"
                THEN {[r EXCEPT !.close = "aborted"]} ELSE {})

SendDisconnect(r) ==
    {[r EXCEPT !.close = "grace", !.device = IF @ = "held" THEN "unreachable" ELSE @]}
    \union (IF CanPublish(r) THEN {[r EXCEPT !.close = "grace", !.device = "free"]} ELSE {})

\* MotoClient.async_close stops the reader before it disconnects.
AfterGrace(r) ==
    {[r EXCEPT !.close = "broker", !.broker = IF @ = "up" THEN "connected" ELSE @]}

CloseBroker(r) == {[r EXCEPT !.close = "done", !.broker = "down"]}

\* What the session may become when the task closing it goes on.
ResumeClose(r) ==
    CASE r.close = "relay" -> CloseRelay(r)
      [] r.close = "disconnect" -> SendDisconnect(r)
      [] r.close = "grace" -> AfterGrace(r)
      [] r.close = "broker" -> CloseBroker(r)
      [] OTHER -> {}

\* What it may become when that task's await raises CancelledError: awaiting a
\* cancelled loop swallows it, any other await ends the teardown there.
CancelClose(r) ==
    CASE r.close = "relay" ->
            CloseRelay(r) \union
            {[r EXCEPT !.relay = "lost", !.video = Resolve(@, "cancelled"), !.close = "aborted"]}
      [] r.close = "disconnect" ->
            {[r EXCEPT !.close = "aborted"]}
            \union (IF CanPublish(r) THEN {[r EXCEPT !.close = "aborted", !.device = "free"]} ELSE {})
      [] r.close = "grace" -> {[r EXCEPT !.close = "aborted"]}
      [] r.close = "broker" -> CloseBroker(r) \union {[r EXCEPT !.close = "aborted"]}
      [] OTHER -> {}

-----------------------------------------------------------------------------
(* Callbacks.  The broker's reader and the relay's reader are tasks of      *)
(* their own, so these happen between any two awaits.                       *)

Becomes(s, r) == session' = [session EXCEPT ![s] = r]

OnAnswer(s, outcome) ==
    /\ session[s].broker = "up" /\ session[s].device # "free"
    /\ Becomes(s, [session[s] EXCEPT !.answer = Resolve(@, outcome)])

OnDeviceDisconnect(s, error) ==
    /\ session[s].broker = "up" /\ session[s].device # "free"
    /\ Becomes(s, [session[s] EXCEPT !.answer = Resolve(@, error), !.ended = TRUE])

\* The broker connection drops: the reader stops and nobody is told.
BrokerLost(s) ==
    /\ session[s].broker \in {"connected", "up"}
    /\ Becomes(s, [session[s] EXCEPT !.broker = "lost"])

CandidateSent(s) ==
    /\ session[s].trickle
    /\ Becomes(s, [session[s] EXCEPT !.trickle = FALSE])

\* RelaySession._on_connection_closed: the conversations close and the session
\* is told, unless RelaySession is closing by itself.
ConnectionClosed(r) ==
    IF r.relay = "closing" THEN [r EXCEPT !.relay = "lost"]
    ELSE [r EXCEPT !.relay = "lost", !.ended = TRUE, !.handler = FALSE,
                   !.video = Resolve(@, "cancelled")]

\* The relay connection ends, and with it its read loop.
OnRelayClosed(s) ==
    /\ session[s].relay \in {"up", "closing"}
    /\ Becomes(s, ConnectionClosed(session[s]))

\* The device opens the video conversation.  The relay is read until its
\* connection closes.
OnVideoOpened(s) ==
    /\ session[s].relay \in {"up", "closing"} /\ session[s].video = "pending"
    /\ Becomes(s, [session[s] EXCEPT !.video = "ready"])

\* A record completes a frame.  The conversation is open until the relay
\* session, or the end of its connection, has closed it.
OnMediaRecord(s) ==
    /\ session[s].handler /\ session[s].relay \in {"up", "closing"}
    /\ Becomes(s, [session[s] EXCEPT !.frames = TRUE])

\* The callbacks that concern nothing but the session.
Callback(s) ==
    \/ \E outcome \in {"answered", "invalid"} : OnAnswer(s, outcome)
    \/ \E error \in {"busy", "refused"} : OnDeviceDisconnect(s, error)
    \/ BrokerLost(s)
    \/ CandidateSent(s)
    \/ OnRelayClosed(s)
    \/ OnVideoOpened(s)
=============================================================================
