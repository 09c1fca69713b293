----------------------------- MODULE RelayLink -----------------------------
(***************************************************************************)
(* The relay as a streaming session sees it: what StreamSession assumes of *)
(* RelaySession (transport/relay_session.py) without dialling, handshake,  *)
(* conversations and loops.  StreamSession's fields relay and video move   *)
(* by these steps, and RelaySession is shown to take no others.            *)
(***************************************************************************)
VARIABLES
    relay,   \* "none", "up", "closing", "lost", and "gone" once async_close has returned
    video,   \* the future async_wait_for_video waits on
    told     \* the session's close handler was called

vars == <<relay, video, told>>

Init == relay = "none" /\ video = "pending" /\ told = FALSE

Cancelled(future) == IF future = "pending" THEN "cancelled" ELSE future

\* async_connect has returned.
Bind == relay = "none" /\ relay' = "up" /\ UNCHANGED <<video, told>>

\* The connection ends by itself: the session is told and nobody goes on waiting
\* for the video, unless the session is closing the relay and knows.
Lose ==
    \/ /\ relay = "up" /\ relay' = "lost"
       /\ video' = Cancelled(video) /\ told' = TRUE
    \/ /\ relay = "closing" /\ relay' = "lost"
       /\ UNCHANGED <<video, told>>

OpenVideo ==
    /\ relay \in {"up", "closing"} /\ video = "pending"
    /\ video' = "ready" /\ UNCHANGED <<relay, told>>

\* async_close: it cancels the wait for the video at once or some time before it
\* returns, and never tells the session what the session itself has asked for.
BeginClose ==
    /\ relay = "up" /\ relay' = "closing"
    /\ video' \in {video, Cancelled(video)} /\ UNCHANGED told

CancelVideo ==
    /\ relay \in {"closing", "lost"}
    /\ video' = Cancelled(video) /\ UNCHANGED <<relay, told>>

EndClose ==
    /\ relay \in {"closing", "lost"} /\ video # "pending"
    /\ relay' = "gone" /\ UNCHANGED <<video, told>>

Next == Bind \/ Lose \/ OpenVideo \/ BeginClose \/ CancelVideo \/ EndClose

Spec == Init /\ [][Next]_vars
=============================================================================
