---------------------------- MODULE RelaySession ----------------------------
(***************************************************************************)
(* One relay session (transport/relay_session.py) on its connection        *)
(* (transport/relay_connection.py): the dial and the handshake, the reader *)
(* and the keepalive tasks, the table of conversations the reader fills,   *)
(* the wait for the video, and the two ways the session ends: the          *)
(* connection is lost, or async_close is called.                           *)
(*                                                                         *)
(* A step is what a task does from one await to the next.  Of a            *)
(* conversation only its place in the table, whether it is closed, and     *)
(* whether the device waits for an acknowledgement on it are kept; its     *)
(* protocol is in KcpConversation.  The client sends on the control        *)
(* conversation only, so only that one has a retransmit loop.              *)
(***************************************************************************)
CONSTANTS
    Conversations,   \* the conversation ids the device uses
    Control, Video   \* CONTROL_CONVERSATION and VIDEO_CONVERSATION

ASSUME ConversationAssumption == {Control, Video} \subseteq Conversations /\ Control # Video

VARIABLES
    dial,         \* the await async_connect is at, or how it ended
    writer,       \* RelayConnection._writer is not None
    connClosed,   \* RelayConnection._closed
    connHandler,  \* RelayConnection._close_handler is not None
    reader, keepalive,   \* the connection's two tasks
    closed,       \* RelaySession._closed
    handler,      \* RelaySession._close_handler is not None
    video,        \* _video_ready
    table,        \* _conversations: each is absent, open or closed
    looping,      \* the control conversation's retransmit loop is alive
    closer,       \* the await async_close is at, or how it ended
    grown,        \* the table has grown since async_close began to iterate over it
    told,         \* history: the close handler was called
    waiting       \* device: the conversations on which it waits for an acknowledgement

connectionVars == <<dial, writer, connClosed, connHandler, reader, keepalive>>
sessionVars == <<closed, handler, video, table, looping, closer, grown, told>>
vars == <<connectionVars, sessionVars, waiting>>

Init ==
    /\ dial = "idle" /\ writer = FALSE /\ connClosed = FALSE /\ connHandler = FALSE
    /\ reader = "none" /\ keepalive = "none"
    /\ closed = FALSE /\ handler = FALSE /\ video = "pending"
    /\ table = [c \in Conversations |-> IF c = Control THEN "open" ELSE "absent"]
    /\ looping = FALSE /\ closer = "none" /\ grown = FALSE /\ told = FALSE
    /\ waiting = {}

Resolve(future, value) == IF future = "pending" THEN value ELSE future

AllClosed == [c \in Conversations |-> IF table[c] = "open" THEN "closed" ELSE table[c]]

-----------------------------------------------------------------------------
(* The end of the connection.                                               *)

\* Mutant: the wait for the video is not released.
OnConnectionClosedForgettingVideo ==
    IF closed THEN UNCHANGED <<closed, table, looping, video, told, handler>>
    ELSE /\ closed' = TRUE
         /\ table' = AllClosed /\ looping' = FALSE
         /\ UNCHANGED video
         /\ told' = (told \/ handler) /\ handler' = FALSE

\* RelaySession._on_connection_closed.
OnConnectionClosed ==
    IF closed THEN UNCHANGED <<closed, table, looping, video, told, handler>>
    ELSE /\ closed' = TRUE
         /\ table' = AllClosed /\ looping' = FALSE
         /\ video' = Resolve(video, "cancelled")
         /\ told' = (told \/ handler) /\ handler' = FALSE

\* RelayConnection._notify_closed: the handler is taken before it is called.
NotifyClosed ==
    /\ connHandler' = FALSE
    /\ IF connHandler THEN OnConnectionClosed
       ELSE UNCHANGED <<closed, table, looping, video, told, handler>>

-----------------------------------------------------------------------------
(* async_connect.                                                           *)

\* The handlers are installed; a short credential ends it here.
Connect ==
    /\ dial = "idle"
    /\ dial' \in {"dialling", "failed"} /\ connHandler' = TRUE
    /\ UNCHANGED <<writer, connClosed, reader, keepalive, sessionVars, waiting>>

\* The socket is open and the request is written, or nobody answers.
Dialled ==
    /\ dial = "dialling"
    /\ \/ dial' = "response" /\ writer' = TRUE
       \/ dial' = "failed" /\ UNCHANGED writer
    /\ UNCHANGED <<connClosed, connHandler, reader, keepalive, sessionVars, waiting>>

\* The device's signature is right and the acknowledgement is written.
HandshakeResponse ==
    /\ dial = "response" /\ dial' = "final"
    /\ UNCHANGED <<writer, connClosed, connHandler, reader, keepalive, sessionVars, waiting>>

\* The peer has joined.  The tasks start, and before anything else can run the
\* session has installed its handler, written the tunnel frames and sent the
\* start burst on the control conversation.
HandshakeFinal ==
    /\ dial = "final" /\ dial' = "up"
    /\ reader' = "run" /\ keepalive' = "run"
    /\ handler' = TRUE /\ looping' = TRUE
    /\ UNCHANGED <<writer, connClosed, connHandler, closed, video, table, closer, grown, told,
                   waiting>>

\* A wrong signature or frame, a broken connection, the timeout or a
\* cancellation: async_close drops the socket and waits for it.
HandshakeFails ==
    /\ dial \in {"response", "final"} /\ dial' = "failing"
    /\ connClosed' = TRUE /\ writer' = FALSE
    /\ UNCHANGED <<connHandler, reader, keepalive, sessionVars, waiting>>

\* A cancellation of that wait skips the notification.
HandshakeFailed ==
    /\ dial = "failing" /\ dial' = "failed"
    /\ \/ NotifyClosed
       \/ UNCHANGED <<connHandler, closed, table, looping, video, told, handler>>
    /\ UNCHANGED <<writer, connClosed, reader, keepalive, closer, grown, waiting>>

\* The dial loop closes a relay whose dial failed, except after a TimeoutError
\* or a cancellation.  No task is left, so nothing is waited for.
CloseFailed ==
    /\ dial = "failed" /\ closer = "none" /\ closer' = "done"
    /\ closed' = TRUE /\ table' = AllClosed /\ video' = Resolve(video, "cancelled")
    /\ handler' = FALSE /\ connClosed' = TRUE
    /\ connHandler' = (connHandler /\ connClosed)
    /\ UNCHANGED <<dial, writer, reader, keepalive, looping, grown, told, waiting>>

-----------------------------------------------------------------------------
(* The reader, the keepalive and the control conversation's loop.           *)

\* Mutant: a segment of a conversation nobody opened is dropped.
RouteKnown(c) ==
    /\ reader = "run" /\ c \in waiting
    /\ waiting' = IF table[c] = "open" THEN waiting \ {c} ELSE waiting
    /\ UNCHANGED <<connectionVars, sessionVars>>

\* _route: the first segment of a conversation opens it, the first of the video
\* conversation resolves the wait, and whatever is not closed acknowledges.
Route(c) ==
    /\ reader = "run" /\ c \in waiting
    /\ table' = [table EXCEPT ![c] = IF @ = "absent" THEN "open" ELSE @]
    /\ grown' = (grown \/ table[c] = "absent")
    /\ video' = IF c = Video /\ table[c] = "absent" THEN Resolve(video, "ready") ELSE video
    /\ waiting' = IF table[c] = "closed" THEN waiting ELSE waiting \ {c}
    /\ UNCHANGED <<connectionVars, closed, handler, looping, closer, told>>

\* The device acknowledges what the control conversation sent.
ControlAcknowledged ==
    /\ reader = "run" /\ looping /\ looping' = FALSE
    /\ UNCHANGED <<connectionVars, closed, handler, video, table, closer, grown, told, waiting>>

\* It never does: the loop gives up and closes the conversation, which stays in
\* the table.
ControlGivesUp ==
    /\ looping /\ looping' = FALSE
    /\ table' = [table EXCEPT ![Control] = "closed"]
    /\ UNCHANGED <<connectionVars, closed, handler, video, closer, grown, told, waiting>>

\* The connection breaks, a frame does not decrypt, or a handler raises.
ReadFails ==
    /\ reader = "run" /\ reader' = "done"
    /\ NotifyClosed
    /\ UNCHANGED <<dial, writer, connClosed, keepalive, closer, grown, waiting>>

KeepaliveFails ==
    /\ keepalive = "run" /\ keepalive' = "done"
    /\ UNCHANGED <<dial, writer, connClosed, connHandler, reader, sessionVars, waiting>>

\* A cancelled task ends without a word.
ReaderCancelled ==
    /\ reader = "cancelled" /\ reader' = "done"
    /\ UNCHANGED <<dial, writer, connClosed, connHandler, keepalive, sessionVars, waiting>>

KeepaliveCancelled ==
    /\ keepalive = "cancelled" /\ keepalive' = "done"
    /\ UNCHANGED <<dial, writer, connClosed, connHandler, reader, sessionVars, waiting>>

-----------------------------------------------------------------------------
(* async_close.                                                             *)

Cancel(task) == IF task = "run" THEN "cancelled" ELSE task

\* Mutant: the reader is left running.
DropConnectionKeepingReader ==
    /\ connClosed' = TRUE /\ closer' = "tasks"
    /\ keepalive' = Cancel(keepalive)
    /\ UNCHANGED reader

\* RelayConnection.async_close up to its first await.
DropConnection ==
    /\ connClosed' = TRUE /\ closer' = "tasks"
    /\ reader' = Cancel(reader) /\ keepalive' = Cancel(keepalive)

\* Mutant: only the control conversation is closed.
CloseRestKeepingTable ==
    /\ table' = [table EXCEPT ![Control] = "closed"]
    /\ video' = Resolve(video, "cancelled")
    /\ handler' = FALSE
    /\ DropConnection

\* What is left once the control conversation is closed: the rest of the table,
\* the wait for the video, the handler and the connection.
CloseRest ==
    /\ table' = AllClosed
    /\ video' = Resolve(video, "cancelled")
    /\ handler' = FALSE
    /\ DropConnection

\* The control conversation comes first in the table; with its loop alive,
\* closing it waits for the loop.
BeginClose ==
    /\ dial = "up" /\ closer = "none"
    /\ closed' = TRUE /\ looping' = FALSE /\ grown' = FALSE
    /\ IF looping
       THEN /\ closer' = "control"
            /\ table' = [table EXCEPT ![Control] = "closed"]
            /\ UNCHANGED <<handler, video, connClosed, reader, keepalive>>
       ELSE CloseRest
    /\ UNCHANGED <<dial, writer, connHandler, told, waiting>>

\* The loop has ended.  If the reader has added a conversation meanwhile, going
\* on with the iteration raises and the rest of the teardown does not happen.
ControlLoopEnds ==
    /\ closer = "control"
    /\ IF grown
       THEN /\ closer' = "raised"
            /\ UNCHANGED <<table, video, handler, connClosed, reader, keepalive>>
       ELSE CloseRest
    /\ UNCHANGED <<dial, writer, connHandler, closed, looping, grown, told, waiting>>

\* A cancellation of these waits is swallowed and changes nothing.
TasksEnd ==
    /\ closer = "tasks" /\ reader = "done" /\ keepalive = "done"
    /\ closer' = "socket" /\ writer' = FALSE
    /\ UNCHANGED <<dial, connClosed, connHandler, reader, keepalive, closed, handler, video,
                   table, looping, grown, told, waiting>>

\* The socket is closed; a cancellation of this wait skips the notification.
SocketCloses ==
    /\ closer = "socket"
    /\ \/ closer' = "done" /\ NotifyClosed
       \/ closer' = "cancelled"
          /\ UNCHANGED <<connHandler, closed, table, looping, video, told, handler>>
    /\ UNCHANGED <<dial, writer, connClosed, reader, keepalive, grown, waiting>>

CloseStep == ControlLoopEnds \/ TasksEnd \/ SocketCloses

-----------------------------------------------------------------------------
(* The device (external): it pushes on any conversation once it has joined. *)

DevicePush(c) ==
    /\ dial = "up" /\ c \notin waiting
    /\ waiting' = waiting \union {c}
    /\ UNCHANGED <<connectionVars, sessionVars>>

Next ==
    \/ Connect \/ Dialled \/ HandshakeResponse \/ HandshakeFinal \/ HandshakeFails
    \/ HandshakeFailed \/ CloseFailed
    \/ \E c \in Conversations : Route(c) \/ DevicePush(c)
    \/ ControlAcknowledged \/ ControlGivesUp \/ ReadFails \/ KeepaliveFails
    \/ ReaderCancelled \/ KeepaliveCancelled
    \/ BeginClose \/ CloseStep

Spec == Init /\ [][Next]_vars

\* asyncio resumes a task whose await is over, and a read ends because the relay
\* keeps delivering what the device sends.
Fairness ==
    /\ \A c \in Conversations : WF_vars(Route(c))
    /\ WF_vars(ReaderCancelled) /\ WF_vars(KeepaliveCancelled) /\ WF_vars(CloseStep)

FairSpec == Spec /\ Fairness

-----------------------------------------------------------------------------
\* Each variable has the type the code gives it.
TypeOK ==
    /\ dial \in {"idle", "dialling", "response", "final", "failing", "failed", "up"}
    /\ reader \in {"none", "run", "cancelled", "done"}
    /\ keepalive \in {"none", "run", "cancelled", "done"}
    /\ writer \in BOOLEAN /\ connClosed \in BOOLEAN /\ connHandler \in BOOLEAN
    /\ closed \in BOOLEAN /\ handler \in BOOLEAN /\ looping \in BOOLEAN
    /\ grown \in BOOLEAN /\ told \in BOOLEAN
    /\ video \in {"pending", "ready", "cancelled"}
    /\ table \in [Conversations -> {"absent", "open", "closed"}]
    /\ closer \in {"none", "control", "tasks", "socket", "done", "raised", "cancelled"}
    /\ waiting \subseteq Conversations

Link == INSTANCE RelayLink WITH
    relay <- CASE dial # "up" -> "none"
               [] dial = "up" /\ closer = "done" -> "gone"
               [] dial = "up" /\ closer # "done" /\ reader = "done" -> "lost"
               [] dial = "up" /\ closer # "done" /\ reader # "done" ->
                    IF closer = "none" THEN "up" ELSE "closing",
    video <- IF dial = "up" THEN video ELSE "pending"

\* The relay session behaves as StreamSession takes it to: the close handler is
\* called for a loss nobody asked for and for nothing else, the video future is
\* resolved once, by the first segment or by the end, and async_close returns
\* only when nobody can be left waiting for the video.
ImplementsLink == Link!Spec

\* async_close, "Close every conversation and drop the relay connection": when
\* it returns, wherever it found the reader, the conversations and the handshake,
\* both tasks have ended, the socket is closed, and no conversation the reader
\* opened, also while it was closing, is left open.
ClosedHoldsNothing ==
    closer = "done" =>
        /\ connClosed /\ ~writer /\ ~looping
        /\ reader \in {"none", "done"} /\ keepalive \in {"none", "done"}
        /\ \A c \in Conversations : table[c] # "open"

\* async_close comes to an end, whatever the connection does meanwhile.
CloseReturns == (closer # "none") ~> (closer \in {"done", "raised", "cancelled"})

\* "Every conversation the device opens has to be serviced": whatever the device
\* opens is acknowledged, listened to or not, until the session ends.  What is
\* left out is a conversation the client gave up on.
EveryConversationServed ==
    \A c \in Conversations :
        (c \in waiting) ~> (c \notin waiting \/ table[c] = "closed" \/ reader # "run")
=============================================================================
