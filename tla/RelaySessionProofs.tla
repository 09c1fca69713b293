------------------------- MODULE RelaySessionProofs -------------------------
(***************************************************************************)
(* The relay session, for any set of conversations: closing it leaves      *)
(* nothing behind, and it behaves as StreamSession takes it to.            *)
(***************************************************************************)
EXTENDS RelaySession, Naturals, TLAPS

\* How far the dial has come says which tasks and handlers exist.
DialInv ==
    /\ (dial = "up") <=> (reader # "none")
    /\ dial # "up" => /\ keepalive = "none" /\ ~looping /\ ~handler /\ ~told
                      /\ closer \in {"none", "done"}
    /\ dial \notin {"up", "failed"} => closer = "none" /\ ~closed /\ video = "pending"
    /\ dial \notin {"up", "failed", "idle"} => connHandler
    /\ dial \notin {"up", "response", "final"} => ~writer

\* A reader that runs while nobody closes can still report a loss; one that was
\* cancelled was cancelled by async_close.
ReaderInv ==
    /\ reader = "run" /\ closer = "none" => connHandler /\ handler /\ ~closed
    /\ reader = "cancelled" => closer # "none"
    /\ closer # "none" => closed /\ ~looping

\* How far async_close has come says what is gone.  The reader is cancelled in
\* the step that closes the conversations, so that it opens no other after it.
CloseInv ==
    /\ closer \in {"tasks", "socket", "done", "cancelled"} =>
          /\ connClosed /\ reader # "run" /\ keepalive # "run" /\ video # "pending"
          /\ \A c \in Conversations : table[c] # "open"
    /\ closer \in {"socket", "done", "cancelled"} =>
          ~writer /\ reader \in {"none", "done"} /\ keepalive \in {"none", "done"}

Inv == TypeOK /\ DialInv /\ ReaderInv /\ CloseInv

\* Closing the open conversations keeps the others and leaves none open.
LEMMA AllClosedIsClosed ==
    ASSUME TypeOK
    PROVE  /\ AllClosed \in [Conversations -> {"absent", "open", "closed"}]
           /\ \A c \in Conversations : AllClosed[c] # "open"
BY DEF TypeOK, AllClosed

\* A future that is resolved is no longer pending.
LEMMA ResolveResolves ==
    ASSUME NEW future \in {"pending", "ready", "cancelled"}, NEW value \in {"ready", "cancelled"}
    PROVE  /\ Resolve(future, value) \in {"ready", "cancelled"}
           /\ future # "pending" => Resolve(future, value) = future
BY DEF Resolve

\* The steps of async_connect.
LEMMA DialKeepsInv ==
    ASSUME Inv,
           Connect \/ Dialled \/ HandshakeResponse \/ HandshakeFinal \/ HandshakeFails
    PROVE  Inv'
<1> USE DEF Inv, TypeOK, DialInv, ReaderInv, CloseInv, sessionVars
<1>1. CASE Connect
  <2>1. TypeOK'
    BY <1>1 DEF Connect
  <2>2. DialInv' /\ ReaderInv' /\ CloseInv'
    BY <1>1 DEF Connect
  <2> QED BY <2>1, <2>2
<1>2. CASE Dialled
  <2>1. TypeOK'
    BY <1>2 DEF Dialled
  <2>2. DialInv' /\ ReaderInv' /\ CloseInv'
    BY <1>2 DEF Dialled
  <2> QED BY <2>1, <2>2
<1>3. CASE HandshakeResponse
  BY <1>3 DEF HandshakeResponse
<1>4. CASE HandshakeFinal
  BY <1>4 DEF HandshakeFinal
<1>5. CASE HandshakeFails
  BY <1>5 DEF HandshakeFails
<1> QED BY <1>1, <1>2, <1>3, <1>4, <1>5

\* What NotifyClosed may change.
LEMMA NotifyClosedEffect ==
    ASSUME TypeOK, NotifyClosed
    PROVE  /\ connHandler' = FALSE
           /\ closed' \in BOOLEAN /\ handler' \in BOOLEAN /\ looping' \in BOOLEAN /\ told' \in BOOLEAN
           /\ table' \in [Conversations -> {"absent", "open", "closed"}]
           /\ video' \in {"pending", "ready", "cancelled"}
           /\ closed => UNCHANGED <<closed, table, looping, video, told, handler>>
           /\ connHandler /\ ~closed =>
                 /\ closed' /\ ~looping' /\ ~handler' /\ (told' <=> (told \/ handler))
                 /\ video' = Resolve(video, "cancelled")
           /\ video # "pending" => video' # "pending"
           /\ ~handler => ~handler' /\ told' = told
           /\ ~looping => ~looping'
           /\ \A c \in Conversations : table'[c] = "open" => table[c] = "open"
<1> USE DEF TypeOK, NotifyClosed
<1>1. CASE connHandler /\ ~closed
  <2>1. /\ closed' = TRUE /\ table' = AllClosed /\ looping' = FALSE
        /\ video' = Resolve(video, "cancelled") /\ told' = (told \/ handler) /\ handler' = FALSE
        /\ connHandler' = FALSE
    BY <1>1 DEF OnConnectionClosed
  <2>2. video' \in {"ready", "cancelled"} /\ (told' <=> (told \/ handler)) /\ told' \in BOOLEAN
    BY <2>1, ResolveResolves, Zenon
  <2>3. ~handler => told' = told
    BY <2>1
  <2> QED BY <1>1, <2>1, <2>2, <2>3, AllClosedIsClosed
<1>2. CASE ~(connHandler /\ ~closed)
  <2>1. UNCHANGED <<closed, table, looping, video, told, handler>> /\ connHandler' = FALSE
    BY <1>2 DEF OnConnectionClosed
  <2> QED BY <1>2, <2>1
<1> QED BY <1>1, <1>2

\* A dial that failed: its own cleanup, and the close by the dial loop.
LEMMA FailedDialKeepsInv == ASSUME Inv, HandshakeFailed \/ CloseFailed PROVE Inv'
<1> USE DEF Inv, TypeOK, DialInv, ReaderInv, CloseInv
<1>1. CASE HandshakeFailed
  <2>1. /\ dial = "failing" /\ dial' = "failed" /\ closer = "none" /\ reader = "none"
        /\ UNCHANGED <<writer, connClosed, reader, keepalive, closer, grown, waiting>>
    BY <1>1 DEF HandshakeFailed
  <2>2. CASE NotifyClosed
    BY <2>1, <2>2, NotifyClosedEffect
  <2>3. CASE UNCHANGED <<connHandler, closed, table, looping, video, told, handler>>
    BY <2>1, <2>3
  <2> QED BY <1>1, <2>2, <2>3 DEF HandshakeFailed
<1>2. CASE CloseFailed
  <2>1. video' \in {"ready", "cancelled"}
    BY <1>2, ResolveResolves DEF CloseFailed
  <2>2. connHandler' \in BOOLEAN
    BY <1>2, Zenon DEF CloseFailed
  <2>3. /\ table' \in [Conversations -> {"absent", "open", "closed"}]
        /\ \A c \in Conversations : table'[c] # "open"
    BY <1>2, AllClosedIsClosed DEF CloseFailed
  <2>4. TypeOK'
    BY <1>2, <2>1, <2>2, <2>3 DEF CloseFailed
  <2>5. DialInv' /\ ReaderInv' /\ CloseInv'
    BY <1>2, <2>1, <2>3 DEF CloseFailed
  <2> QED BY <2>4, <2>5
<1> QED BY <1>1, <1>2

\* The reader routes a segment, and the device sends one.
LEMMA RouteKeepsInv ==
    ASSUME Inv, NEW c \in Conversations, Route(c) \/ DevicePush(c) PROVE Inv'
<1> USE DEF Inv, TypeOK, DialInv, ReaderInv, CloseInv, connectionVars, sessionVars
<1>1. CASE Route(c)
  <2>1. /\ reader = "run" /\ closer \notin {"tasks", "socket", "done", "cancelled"}
        /\ UNCHANGED <<connectionVars, closed, handler, looping, closer, told>>
    BY <1>1 DEF Route
  <2>2. table' \in [Conversations -> {"absent", "open", "closed"}]
    BY <1>1 DEF Route
  <2>3. grown' \in BOOLEAN
    BY <1>1, Zenon DEF Route
  <2>4. video' \in {"pending", "ready", "cancelled"}
    BY <1>1, ResolveResolves DEF Route
  <2>5. waiting' \subseteq Conversations
    BY <1>1 DEF Route
  <2> QED BY <2>1, <2>2, <2>3, <2>4, <2>5
<1>2. CASE DevicePush(c)
  BY <1>2 DEF DevicePush
<1> QED BY <1>1, <1>2

\* The ends of the tasks.
LEMMA TasksKeepInv ==
    ASSUME Inv,
           \/ ControlAcknowledged \/ ControlGivesUp \/ ReadFails \/ KeepaliveFails
           \/ ReaderCancelled \/ KeepaliveCancelled
    PROVE  Inv'
<1> USE DEF Inv, TypeOK, DialInv, ReaderInv, CloseInv, connectionVars, sessionVars
<1>1. CASE ControlAcknowledged
  BY <1>1 DEF ControlAcknowledged
<1>2. CASE ControlGivesUp
  <2>1. table' \in [Conversations -> {"absent", "open", "closed"}]
    BY <1>2 DEF ControlGivesUp
  <2>2. /\ closer = "none" /\ looping' = FALSE
        /\ UNCHANGED <<connectionVars, closed, handler, video, closer, grown, told, waiting>>
    BY <1>2 DEF ControlGivesUp
  <2>3. TypeOK'
    <3>1. looping' \in BOOLEAN
      BY <2>2
    <3> QED BY <2>1, <2>2, <3>1
  <2>4. CloseInv'
    BY <2>2
  <2>5. DialInv' /\ ReaderInv'
    BY <2>2
  <2> QED BY <2>3, <2>4, <2>5
<1>3. CASE ReadFails
  <2>1. /\ reader = "run" /\ reader' = "done" /\ dial = "up"
        /\ UNCHANGED <<dial, writer, connClosed, keepalive, closer, grown, waiting>>
    BY <1>3 DEF ReadFails
  <2>2. NotifyClosed
    BY <1>3 DEF ReadFails
  <2>3. TypeOK'
    BY <2>1, <2>2, NotifyClosedEffect
  <2>4. closer \notin {"tasks", "socket", "done", "cancelled"}
    BY <2>1
  <2>5. closer # "none" => closed' /\ ~looping'
    BY <2>2, NotifyClosedEffect
  <2> QED BY <2>1, <2>3, <2>4, <2>5
<1>4. CASE KeepaliveFails
  BY <1>4 DEF KeepaliveFails
<1>5. CASE ReaderCancelled
  BY <1>5 DEF ReaderCancelled
<1>6. CASE KeepaliveCancelled
  BY <1>6 DEF KeepaliveCancelled
<1> QED BY <1>1, <1>2, <1>3, <1>4, <1>5, <1>6

\* What the end of the teardown leaves.
LEMMA CloseRestEffect ==
    ASSUME TypeOK, CloseRest
    PROVE  /\ connClosed' = TRUE /\ closer' = "tasks" /\ handler' = FALSE
           /\ reader' \in {"none", "cancelled", "done"}
           /\ (reader' = "none") <=> (reader = "none")
           /\ reader = "done" => reader' = "done"
           /\ reader # "done" => reader' # "done"
           /\ keepalive' \in {"none", "cancelled", "done"}
           /\ keepalive = "none" => keepalive' = "none"
           /\ video' \in {"ready", "cancelled"} /\ (video # "pending" => video' = video)
           /\ video' = Resolve(video, "cancelled")
           /\ table' \in [Conversations -> {"absent", "open", "closed"}]
           /\ \A c \in Conversations : table'[c] # "open"
<1>1. video' \in {"ready", "cancelled"} /\ (video # "pending" => video' = video)
  BY ResolveResolves DEF CloseRest, TypeOK
<1>2. /\ table' \in [Conversations -> {"absent", "open", "closed"}]
      /\ \A c \in Conversations : table'[c] # "open"
  BY AllClosedIsClosed DEF CloseRest
<1> QED BY <1>1, <1>2 DEF CloseRest, DropConnection, Cancel, TypeOK

\* The steps of async_close.
LEMMA CloseKeepsInv == ASSUME Inv, BeginClose \/ CloseStep PROVE Inv'
<1> USE DEF Inv, TypeOK, DialInv, ReaderInv, CloseInv
<1>1. CASE BeginClose
  <2>1. /\ dial = "up" /\ closer = "none" /\ closed' = TRUE /\ looping' = FALSE /\ grown' = FALSE
        /\ UNCHANGED <<dial, writer, connHandler, told, waiting>>
    BY <1>1 DEF BeginClose
  <2>2. CASE looping
    <3>1. /\ closer' = "control" /\ table' = [table EXCEPT ![Control] = "closed"]
          /\ UNCHANGED <<handler, video, connClosed, reader, keepalive>>
      BY <1>1, <2>2 DEF BeginClose
    <3>2. table' \in [Conversations -> {"absent", "open", "closed"}]
      BY <3>1
    <3>3. TypeOK'
      BY <2>1, <3>1, <3>2
    <3>4. DialInv' /\ ReaderInv' /\ CloseInv'
      BY <2>1, <3>1
    <3> QED BY <3>3, <3>4
  <2>3. CASE ~looping
    <3>1. CloseRest
      BY <1>1, <2>3 DEF BeginClose
    <3> QED BY <2>1, <3>1, CloseRestEffect
  <2> QED BY <2>2, <2>3
<1>2. CASE ControlLoopEnds
  <2>1. /\ closer = "control" /\ dial = "up"
        /\ UNCHANGED <<dial, writer, connHandler, closed, looping, grown, told, waiting>>
    BY <1>2 DEF ControlLoopEnds
  <2>2. CASE grown
    <3>1. /\ closer' = "raised"
          /\ UNCHANGED <<table, video, handler, connClosed, reader, keepalive>>
      BY <1>2, <2>2 DEF ControlLoopEnds
    <3> QED BY <2>1, <3>1
  <2>3. CASE ~grown
    <3>1. CloseRest
      BY <1>2, <2>3 DEF ControlLoopEnds
    <3> QED BY <2>1, <3>1, CloseRestEffect
  <2> QED BY <2>2, <2>3
<1>3. CASE TasksEnd
  BY <1>3 DEF TasksEnd
<1>4. CASE SocketCloses
  <2>1. /\ closer = "socket" /\ closed /\ dial = "up"
        /\ UNCHANGED <<dial, writer, connClosed, reader, keepalive, grown, waiting>>
    BY <1>4 DEF SocketCloses
  <2>2. CASE closer' = "done" /\ NotifyClosed
    BY <2>1, <2>2, NotifyClosedEffect
  <2>3. CASE /\ closer' = "cancelled"
             /\ UNCHANGED <<connHandler, closed, table, looping, video, told, handler>>
    BY <2>1, <2>3
  <2> QED BY <1>4, <2>2, <2>3 DEF SocketCloses
<1> QED BY <1>1, <1>2, <1>3, <1>4 DEF CloseStep

\* The invariant is inductive.
LEMMA NextKeepsInv == ASSUME Inv, [Next]_vars PROVE Inv'
<1>1. CASE UNCHANGED vars
  BY <1>1 DEF Inv, TypeOK, DialInv, ReaderInv, CloseInv, vars, connectionVars, sessionVars
<1>2. CASE Next
  BY <1>2, DialKeepsInv, FailedDialKeepsInv, RouteKeepsInv, TasksKeepInv, CloseKeepsInv DEF Next
<1> QED BY <1>1, <1>2

\* The inductive invariant of the relay session: ClosedHoldsNothing needs to know
\* how far the dial and async_close have come, which the three parts of it say.
THEOREM InvHolds == Spec => []Inv
<1>1. Init => Inv
  BY ConversationAssumption DEF Init, Inv, TypeOK, DialInv, ReaderInv, CloseInv
<1>2. Inv /\ [Next]_vars => Inv'
  BY NextKeepsInv
<1> QED BY <1>1, <1>2, PTL DEF Spec

\* Type correctness of the relay session and its connection, whatever
\* conversations the device opens.
THEOREM TypeCorrect == Spec => []TypeOK
BY InvHolds, PTL DEF Inv

\* RelaySession.async_close, when it returns, has ended both tasks of the
\* connection and its socket and left no conversation open, whatever the reader
\* did meanwhile.
THEOREM CloseLeavesNothing == Spec => []ClosedHoldsNothing
<1>1. Inv => ClosedHoldsNothing
  BY DEF Inv, ReaderInv, CloseInv, ClosedHoldsNothing
<1> QED BY <1>1, InvHolds, PTL

-----------------------------------------------------------------------------
(* The relay session implements RelayLink.                                  *)

\* Before the relay is up, and as long as neither it, the video nor the handler
\* changes, StreamSession sees nothing.
LEMMA Unseen ==
    ASSUME \/ dial # "up" /\ dial' # "up"
           \/ UNCHANGED <<dial, closer, reader, video>>,
           told' = told
    PROVE  UNCHANGED Link!vars
BY DEF Link!vars

\* Every step of the relay session is a step of RelayLink or invisible to it.
LEMMA LinkStep == ASSUME Inv, [Next]_vars PROVE [Link!Next]_(Link!vars)
<1> USE DEF Inv, TypeOK, DialInv, ReaderInv, CloseInv
<1>1. CASE UNCHANGED vars
  BY <1>1, Unseen DEF vars, connectionVars, sessionVars
<1>2. CASE Connect \/ Dialled \/ HandshakeResponse \/ HandshakeFails \/ CloseFailed
  BY <1>2, Unseen DEF Connect, Dialled, HandshakeResponse, HandshakeFails, CloseFailed, sessionVars
<1>3. CASE HandshakeFailed
  <2>1. dial = "failing" /\ dial' = "failed" /\ ~handler
    BY <1>3 DEF HandshakeFailed
  <2>2. told' = told
    BY <1>3, <2>1, NotifyClosedEffect DEF HandshakeFailed
  <2> QED BY <2>1, <2>2, Unseen
<1>4. CASE HandshakeFinal
  <2>1. Link!Bind
    BY <1>4 DEF HandshakeFinal, Link!Bind
  <2> QED BY <2>1 DEF Link!Next
<1>5. CASE \E c \in Conversations : Route(c)
  <2>1. PICK c \in Conversations : Route(c)
    BY <1>5
  <2>2. /\ dial = "up" /\ reader = "run" /\ closer # "done"
        /\ UNCHANGED <<dial, closer, reader, told>>
    BY <2>1 DEF Route, connectionVars
  <2>3. CASE video' = video
    BY <2>2, <2>3, Unseen
  <2>4. CASE video' # video
    <3>1. video = "pending" /\ video' = "ready"
      BY <2>1, <2>4 DEF Route, Resolve
    <3>2. Link!OpenVideo
      BY <2>2, <3>1 DEF Link!OpenVideo
    <3> QED BY <3>2 DEF Link!Next
  <2> QED BY <2>3, <2>4
<1>6. CASE \E c \in Conversations : DevicePush(c)
  BY <1>6, Unseen DEF DevicePush, connectionVars, sessionVars
<1>7. CASE ControlAcknowledged \/ ControlGivesUp \/ KeepaliveFails \/ KeepaliveCancelled
  BY <1>7, Unseen DEF ControlAcknowledged, ControlGivesUp, KeepaliveFails, KeepaliveCancelled,
                      connectionVars, sessionVars
<1>8. CASE ReadFails
  <2>1. /\ dial = "up" /\ reader = "run" /\ reader' = "done" /\ closer # "done"
        /\ UNCHANGED <<dial, closer>> /\ NotifyClosed
    BY <1>8 DEF ReadFails
  <2>2. CASE closer = "none"
    <3>1. video' = Resolve(video, "cancelled") /\ told' = TRUE
      BY <2>1, <2>2, NotifyClosedEffect
    <3>2. Link!Lose
      BY <2>1, <2>2, <3>1 DEF Link!Lose, Link!Cancelled, Resolve
    <3> QED BY <3>2 DEF Link!Next
  <2>3. CASE closer # "none"
    <3>1. video' = video /\ told' = told
      BY <2>1, <2>3, NotifyClosedEffect
    <3>2. Link!Lose
      BY <2>1, <2>3, <3>1 DEF Link!Lose
    <3> QED BY <3>2 DEF Link!Next
  <2> QED BY <2>2, <2>3
<1>9. CASE ReaderCancelled
  <2>1. /\ dial = "up" /\ reader = "cancelled" /\ reader' = "done" /\ closer \notin {"none", "done"}
        /\ UNCHANGED <<dial, closer, video, told>>
    BY <1>9 DEF ReaderCancelled, sessionVars
  <2>2. Link!Lose
    BY <2>1 DEF Link!Lose
  <2> QED BY <2>2 DEF Link!Next
<1>10. CASE BeginClose
  <2>1. dial = "up" /\ closer = "none" /\ UNCHANGED <<dial, told>>
    BY <1>10 DEF BeginClose
  <2>2. /\ closer' \in {"control", "tasks"} /\ ((reader' = "done") <=> (reader = "done"))
        /\ video' \in {video, Resolve(video, "cancelled")}
    <3>1. CASE looping
      BY <1>10, <3>1 DEF BeginClose
    <3>2. CASE ~looping
      BY <1>10, <3>2, CloseRestEffect DEF BeginClose
    <3> QED BY <3>1, <3>2
  <2>3. CASE reader = "done"
    <3>1. Link!CancelVideo \/ UNCHANGED Link!vars
      BY <2>1, <2>2, <2>3 DEF Link!CancelVideo, Link!Cancelled, Resolve, Link!vars
    <3> QED BY <3>1 DEF Link!Next
  <2>4. CASE reader # "done"
    <3>1. Link!BeginClose
      BY <2>1, <2>2, <2>4 DEF Link!BeginClose, Link!Cancelled, Resolve
    <3> QED BY <3>1 DEF Link!Next
  <2> QED BY <2>3, <2>4
<1>11. CASE ControlLoopEnds
  <2>1. dial = "up" /\ closer = "control" /\ UNCHANGED <<dial, told>>
    BY <1>11 DEF ControlLoopEnds
  <2>2. /\ closer' \in {"raised", "tasks"} /\ ((reader' = "done") <=> (reader = "done"))
        /\ video' \in {video, Resolve(video, "cancelled")}
    <3>1. CASE grown
      BY <1>11, <3>1 DEF ControlLoopEnds
    <3>2. CASE ~grown
      BY <1>11, <3>2, CloseRestEffect DEF ControlLoopEnds
    <3> QED BY <3>1, <3>2
  <2>3. Link!CancelVideo \/ UNCHANGED Link!vars
    BY <2>1, <2>2 DEF Link!CancelVideo, Link!Cancelled, Resolve, Link!vars
  <2> QED BY <2>3 DEF Link!Next
<1>12. CASE TasksEnd
  <2>1. /\ dial = "up" /\ closer = "tasks" /\ closer' = "socket" /\ reader = "done"
        /\ UNCHANGED <<dial, reader, video, told>>
    BY <1>12 DEF TasksEnd
  <2> QED BY <2>1 DEF Link!vars
<1>13. CASE SocketCloses
  <2>1. /\ dial = "up" /\ closer = "socket" /\ reader = "done" /\ video # "pending"
        /\ closer' \in {"done", "cancelled"} /\ UNCHANGED <<dial, reader>>
    BY <1>13 DEF SocketCloses
  <2>2. UNCHANGED <<video, told>>
    BY <1>13, NotifyClosedEffect DEF SocketCloses
  <2>3. CASE closer' = "done"
    <3>1. Link!EndClose
      BY <2>1, <2>2, <2>3 DEF Link!EndClose
    <3> QED BY <3>1 DEF Link!Next
  <2>4. CASE closer' = "cancelled"
    BY <2>1, <2>2, <2>4 DEF Link!vars
  <2> QED BY <2>1, <2>3, <2>4
<1> QED BY <1>1, <1>2, <1>3, <1>4, <1>5, <1>6, <1>7, <1>8, <1>9, <1>10, <1>11, <1>12, <1>13
        DEF Next, CloseStep

\* RelaySession implements the relay StreamSession is modelled with: the close
\* handler is called for a loss nobody asked for and for nothing else, and
\* async_close returns only when nobody waits for the video.
THEOREM SessionIsLink == Spec => ImplementsLink
<1>1. Init => Link!Init
  BY DEF Init, Link!Init
<1>2. Inv /\ [Next]_vars => [Link!Next]_(Link!vars)
  BY LinkStep
<1> QED BY <1>1, <1>2, InvHolds, PTL DEF Spec, ImplementsLink, Link!Spec

-----------------------------------------------------------------------------
(* What the reader serves, and how async_close comes to its end.            *)

\* A conversation is closed by the end of the session or, the control
\* conversation alone, by its retransmit loop; and the wait for the video is over
\* as soon as the video conversation is in the table, and not before.
ServiceInv ==
    /\ \A c \in Conversations : table[c] = "closed" => closed \/ c = Control
    /\ ~closed => video = IF table[Video] = "absent" THEN "pending" ELSE "ready"

\* ServiceInv is kept by every step.
LEMMA NextKeepsService == ASSUME Inv, ServiceInv, [Next]_vars PROVE ServiceInv'
<1> USE ConversationAssumption DEF ServiceInv, Inv, TypeOK
<1>1. CASE UNCHANGED <<table, closed, video>>
  BY <1>1
<1>2. CASE closed'
  BY <1>2
<1>3. CASE \E c \in Conversations : Route(c)
  <2>1. PICK c \in Conversations : Route(c)
    BY <1>3
  <2>2. /\ UNCHANGED closed
        /\ table' = [table EXCEPT ![c] = IF @ = "absent" THEN "open" ELSE @]
        /\ video' = IF c = Video /\ table[c] = "absent" THEN Resolve(video, "ready") ELSE video
    BY <2>1 DEF Route
  <2>3. \A d \in Conversations : table'[d] = "closed" => table[d] = "closed"
    BY <2>2
  <2>4. ~closed => video' = IF table'[Video] = "absent" THEN "pending" ELSE "ready"
    <3>1. CASE c = Video
      BY <2>2, <3>1 DEF Resolve
    <3>2. CASE c # Video
      BY <2>2, <3>2
    <3> QED BY <3>1, <3>2
  <2> QED BY <2>2, <2>3, <2>4
<1>4. CASE ControlGivesUp
  BY <1>4 DEF ControlGivesUp
<1>5. CASE NotifyClosed
  <2>1. closed' \/ UNCHANGED <<table, closed, video>>
    BY <1>5 DEF NotifyClosed, OnConnectionClosed
  <2> QED BY <2>1, <1>1, <1>2
<1>6. Next => \/ UNCHANGED <<table, closed, video>> \/ closed' \/ ControlGivesUp \/ NotifyClosed
              \/ \E c \in Conversations : Route(c)
  <2> SUFFICES ASSUME Next PROVE \/ UNCHANGED <<table, closed, video>> \/ closed' \/ ControlGivesUp
                                \/ NotifyClosed \/ \E c \in Conversations : Route(c)
    OBVIOUS
  <2>1. CASE Connect \/ Dialled \/ HandshakeResponse \/ HandshakeFinal \/ HandshakeFails
    BY <2>1 DEF Connect, Dialled, HandshakeResponse, HandshakeFinal, HandshakeFails, sessionVars
  <2>2. CASE HandshakeFailed \/ CloseFailed \/ ReadFails
    BY <2>2 DEF HandshakeFailed, CloseFailed, ReadFails
  <2>3. CASE ControlAcknowledged \/ KeepaliveFails \/ ReaderCancelled \/ KeepaliveCancelled
    BY <2>3 DEF ControlAcknowledged, KeepaliveFails, ReaderCancelled, KeepaliveCancelled,
                connectionVars, sessionVars
  <2>4. CASE \E c \in Conversations : DevicePush(c)
    BY <2>4 DEF DevicePush, sessionVars
  <2>5. CASE BeginClose
    BY <2>5 DEF BeginClose
  <2>6. CASE CloseStep
    <3>1. CASE ControlLoopEnds
      BY <3>1 DEF ControlLoopEnds, ReaderInv
    <3>2. CASE TasksEnd
      BY <3>2 DEF TasksEnd
    <3>3. CASE SocketCloses
      BY <3>3 DEF SocketCloses
    <3> QED BY <2>6, <3>1, <3>2, <3>3 DEF CloseStep
  <2> QED BY <2>1, <2>2, <2>3, <2>4, <2>5, <2>6 DEF Next
<1>7. CASE UNCHANGED vars
  BY <1>7, <1>1 DEF vars, sessionVars
<1> QED BY <1>1, <1>2, <1>3, <1>4, <1>5, <1>6, <1>7

\* ServiceInv holds of every behaviour.
THEOREM ServiceHolds == Spec => [](Inv /\ ServiceInv)
<1>1. Init => ServiceInv
  BY ConversationAssumption DEF Init, ServiceInv
<1>2. Inv /\ ServiceInv /\ [Next]_vars => ServiceInv'
  BY NextKeepsService
<1> QED BY <1>1, <1>2, InvHolds, PTL DEF Spec

\* As long as the reader runs and nobody closes the session, _route serves every
\* conversation but the control conversation, whose retransmit loop may have given
\* up: no other is closed, so that its next segment is acknowledged.
ServesAllButControl ==
    reader = "run" /\ closer = "none" => \A c \in Conversations \ {Control} : table[c] # "closed"

\* The safety half of EveryConversationServed: nothing the device opens besides
\* the control conversation ever becomes one the reader would leave unanswered.
THEOREM ReaderServesAll == Spec => []ServesAllButControl
<1>1. Inv /\ ServiceInv => ServesAllButControl
  BY DEF Inv, ReaderInv, ServiceInv, ServesAllButControl
<1> QED BY <1>1, ServiceHolds, PTL

\* While the session is open, whoever waits for the video is released exactly when
\* the device has opened the video conversation.
VideoIsInTable == ~closed => (video = "ready" <=> table[Video] # "absent") /\ video # "cancelled"

\* The future of _video_ready and the table never disagree in an open session: a
\* caller of async_wait_for_video is neither released early nor left behind.
THEOREM VideoMatchesTable == Spec => []VideoIsInTable
<1>1. Inv /\ ServiceInv => VideoIsInTable
  BY DEF ServiceInv, VideoIsInTable
<1> QED BY <1>1, ServiceHolds, PTL

-----------------------------------------------------------------------------
(* async_close comes nearer to its end with each of its steps.              *)

\* The awaits async_close has before it, and the steps a task has before its end.
AwaitsLeft ==
    CASE closer = "none" -> 4 [] closer = "control" -> 3 [] closer = "tasks" -> 2
      [] closer = "socket" -> 1 [] OTHER -> 0

TaskLeft(task) == CASE task = "run" -> 2 [] task = "cancelled" -> 1 [] OTHER -> 0

\* Once async_close has begun, nothing the device, the reader or the keepalive
\* does puts it back, and each of its own steps, and the end of each task it
\* cancelled, brings it forward.
Nearer ==
    closer # "none" =>
        /\ AwaitsLeft' <= AwaitsLeft
        /\ TaskLeft(reader') <= TaskLeft(reader) /\ TaskLeft(keepalive') <= TaskLeft(keepalive)
        /\ CloseStep => AwaitsLeft' < AwaitsLeft
        /\ ReaderCancelled => TaskLeft(reader') < TaskLeft(reader)
        /\ KeepaliveCancelled => TaskLeft(keepalive') < TaskLeft(keepalive)

CloseApproaches == [][Nearer]_vars

\* An async_close in progress waits for nothing that may never come: while it is
\* at the two tasks each of these was cancelled or has ended, also a keepalive that
\* failed or a reader that lost the connection while the control loop was ending.
CloseIsNeverStuck ==
    closer = "tasks" => reader \in {"cancelled", "done"} /\ keepalive \in {"cancelled", "done"}

\* The connection's two tasks are started together.
TasksInv == dial = "up" => keepalive # "none"

\* A step of the session leaves async_close where it is or moves it forward.
LEMMA CloserMoves ==
    ASSUME Inv, [Next]_vars
    PROVE  \/ closer' = closer
           \/ closer = "none"
           \/ closer = "control" /\ closer' \in {"tasks", "raised"}
           \/ closer = "tasks" /\ closer' = "socket"
           \/ closer = "socket" /\ closer' \in {"done", "cancelled"}
<1>1. CASE UNCHANGED closer
  BY <1>1
<1>2. CASE BeginClose \/ CloseFailed
  BY <1>2 DEF BeginClose, CloseFailed
<1>3. CASE ControlLoopEnds
  BY <1>3 DEF ControlLoopEnds, CloseRest, DropConnection
<1>4. CASE TasksEnd
  BY <1>4 DEF TasksEnd
<1>5. CASE SocketCloses
  BY <1>5 DEF SocketCloses
<1>6. CASE UNCHANGED vars
  BY <1>6 DEF vars, sessionVars
<1>7. CASE Connect \/ Dialled \/ HandshakeResponse \/ HandshakeFinal \/ HandshakeFails
  BY <1>7 DEF Connect, Dialled, HandshakeResponse, HandshakeFinal, HandshakeFails, sessionVars
<1>8. CASE HandshakeFailed \/ ControlAcknowledged \/ ControlGivesUp \/ ReadFails
  BY <1>8 DEF HandshakeFailed, ControlAcknowledged, ControlGivesUp, ReadFails
<1>9. CASE KeepaliveFails \/ ReaderCancelled \/ KeepaliveCancelled
  BY <1>9 DEF KeepaliveFails, ReaderCancelled, KeepaliveCancelled, sessionVars
<1>10. CASE \E c \in Conversations : Route(c) \/ DevicePush(c)
  BY <1>10 DEF Route, DevicePush, sessionVars
<1> QED BY <1>1, <1>2, <1>3, <1>4, <1>5, <1>6, <1>7, <1>8, <1>9, <1>10 DEF Next, CloseStep

\* A task stays as it is, or it is cancelled or ends.
GoesOn(task, next) ==
    \/ next = task
    \/ task = "run" /\ next \in {"cancelled", "done"}
    \/ task = "cancelled" /\ next = "done"

\* Tasks start with the end of the dial and only ever go on towards their end.
LEMMA TasksMove ==
    ASSUME Inv, [Next]_vars
    PROVE  \/ HandshakeFinal
           \/ /\ GoesOn(reader, reader') /\ GoesOn(keepalive, keepalive')
              /\ dial' = "up" => dial = "up"
<1> USE DEF GoesOn
<1>1. CASE UNCHANGED <<reader, keepalive, dial>>
  BY <1>1
<1>2. CASE CloseRest /\ UNCHANGED dial
  BY <1>2 DEF CloseRest, DropConnection, Cancel
<1>3. CASE BeginClose
  BY <1>1, <1>2, <1>3 DEF BeginClose
<1>4. CASE CloseStep
  <2>1. CASE ControlLoopEnds
    BY <1>1, <1>2, <2>1 DEF ControlLoopEnds
  <2>2. CASE TasksEnd \/ SocketCloses
    BY <1>1, <2>2 DEF TasksEnd, SocketCloses
  <2> QED BY <1>4, <2>1, <2>2 DEF CloseStep
<1>5. CASE UNCHANGED vars
  BY <1>5 DEF vars, connectionVars
<1>6. CASE Connect \/ Dialled \/ HandshakeResponse \/ HandshakeFails \/ HandshakeFailed \/ CloseFailed
  BY <1>6 DEF Connect, Dialled, HandshakeResponse, HandshakeFails, HandshakeFailed, CloseFailed
<1>7. CASE ControlAcknowledged \/ ControlGivesUp
  BY <1>7 DEF ControlAcknowledged, ControlGivesUp, connectionVars
<1>8. CASE ReadFails \/ KeepaliveFails \/ ReaderCancelled \/ KeepaliveCancelled
  BY <1>8 DEF ReadFails, KeepaliveFails, ReaderCancelled, KeepaliveCancelled
<1>9. CASE \E c \in Conversations : Route(c) \/ DevicePush(c)
  BY <1>9 DEF Route, DevicePush, connectionVars
<1> QED BY <1>3, <1>4, <1>5, <1>6, <1>7, <1>8, <1>9 DEF Next

\* The safety half of CloseReturns, first part: async_close is never at a wait
\* for a task that nobody cancelled.
THEOREM CloseMovesOn == Spec => []CloseIsNeverStuck
<1>1. Init => TasksInv
  BY DEF Init, TasksInv
<1>2. Inv /\ TasksInv /\ [Next]_vars => TasksInv'
  <2> SUFFICES ASSUME Inv, TasksInv, [Next]_vars PROVE TasksInv'
    OBVIOUS
  <2>1. CASE HandshakeFinal
    BY <2>1 DEF HandshakeFinal, TasksInv
  <2>2. CASE ~HandshakeFinal
    BY <2>2, TasksMove DEF TasksInv, GoesOn
  <2> QED BY <2>1, <2>2
<1>3. Inv /\ TasksInv => CloseIsNeverStuck
  BY DEF Inv, TypeOK, DialInv, CloseInv, TasksInv, CloseIsNeverStuck
<1> QED BY <1>1, <1>2, <1>3, InvHolds, PTL DEF Spec

\* Second part: async_close approaches its end, and nothing sets it back.
THEOREM CloseComesNearer == Spec => CloseApproaches
<1>1. Inv /\ [Next]_vars => [Nearer]_vars
  <2> SUFFICES ASSUME Inv, [Next]_vars, closer # "none" PROVE
        /\ AwaitsLeft' <= AwaitsLeft
        /\ TaskLeft(reader') <= TaskLeft(reader) /\ TaskLeft(keepalive') <= TaskLeft(keepalive)
        /\ CloseStep => AwaitsLeft' < AwaitsLeft
        /\ ReaderCancelled => TaskLeft(reader') < TaskLeft(reader)
        /\ KeepaliveCancelled => TaskLeft(keepalive') < TaskLeft(keepalive)
    BY DEF Nearer
  <2>1. ~HandshakeFinal
    BY DEF HandshakeFinal, Inv, DialInv
  <2>2. AwaitsLeft' <= AwaitsLeft
    BY CloserMoves DEF AwaitsLeft
  <2>3. TaskLeft(reader') <= TaskLeft(reader) /\ TaskLeft(keepalive') <= TaskLeft(keepalive)
    BY <2>1, TasksMove DEF TaskLeft, GoesOn
  <2>4. CloseStep => AwaitsLeft' < AwaitsLeft
    <3>1. CloseStep => closer \in {"control", "tasks", "socket"} /\ closer' # closer
      BY DEF CloseStep, ControlLoopEnds, CloseRest, DropConnection, TasksEnd, SocketCloses
    <3> QED BY <3>1, CloserMoves DEF AwaitsLeft
  <2>5. ReaderCancelled => TaskLeft(reader') < TaskLeft(reader)
    BY DEF ReaderCancelled, TaskLeft
  <2>6. KeepaliveCancelled => TaskLeft(keepalive') < TaskLeft(keepalive)
    BY DEF KeepaliveCancelled, TaskLeft
  <2> QED BY <2>2, <2>3, <2>4, <2>5, <2>6
<1> QED BY <1>1, InvHolds, PTL DEF Spec, CloseApproaches
=============================================================================
