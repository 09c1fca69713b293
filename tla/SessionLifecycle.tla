-------------------------- MODULE SessionLifecycle --------------------------
(***************************************************************************)
(* A StreamSession and the tasks around it: the owner, which runs          *)
(* async_start and async_wait_closed and closes the session whatever       *)
(* happens (CameraStream._async_run_one_session), and any other task that  *)
(* calls async_close (the stall watcher, async_stop).  Either may be       *)
(* cancelled at any await.                                                 *)
(***************************************************************************)
EXTENDS StreamSession

SessionInit == session = [s \in Sessions |-> Unborn]

\* The owner leaves its try block: the session is closed.
Finally(r) == IF r.phase = "over" THEN BeginClose(r) ELSE r

Create(s) == session[s].phase = "new" /\ Becomes(s, Created)

Run(s) == \E r \in Resume(session[s]) : Becomes(s, Finally(r))

Interrupt(s) == \E r \in Cancel(session[s]) : Becomes(s, Finally(r))

CloseFromOutside(s) ==
    /\ session[s].phase \in Starting \union {"up"} /\ Closes(session[s])
    /\ Becomes(s, BeginClose(session[s]))

Teardown(s) == \E r \in ResumeClose(session[s]) : Becomes(s, r)

InterruptTeardown(s) == \E r \in CancelClose(session[s]) : Becomes(s, r)

SessionNext ==
    \E s \in Sessions :
        \/ Create(s) \/ Run(s) \/ Interrupt(s) \/ CloseFromOutside(s)
        \/ Teardown(s) \/ InterruptTeardown(s)
        \/ Callback(s) \/ OnMediaRecord(s)

SessionSpec == SessionInit /\ [][SessionNext]_session

\* Every await of async_start and async_close has a timeout or ends with the
\* task it waits for, and asyncio resumes a task whose await is over.
SessionFairness == \A s \in Sessions : WF_session(Run(s)) /\ WF_session(Teardown(s))

FairSessionSpec == SessionSpec /\ SessionFairness

-----------------------------------------------------------------------------
\* Each session has the type of its record.
SessionTypeOK == session \in [Sessions -> SessionState]

\* A session whose teardown ran to its end has let go of everything: the relay
\* connection, the broker connection, the ICE socket, and the device, which was
\* told to release the session unless it could not be reached.  A session
\* closed by another task while it was starting is left out: async_start goes on
\* and what it opens afterwards is not closed.
TornDownHoldsNothing ==
    \A s \in Sessions :
        session[s].phase = "over" /\ session[s].close = "done" /\ ~session[s].early =>
            /\ session[s].relay = "none" /\ session[s].broker = "down"
            /\ ~session[s].ice /\ ~session[s].trickle
            /\ session[s].device # "held"

\* No candidate follows the disconnect: the task that publishes it does not
\* outlive the teardown's start, and a session closed while it is starting does
\* not spawn another.
NoCandidateOnceClosing == \A s \in Sessions : session[s].trickle => session[s].close = "open"

\* The answer, the end and the video are futures: a second result would raise
\* InvalidStateError inside a reader task and stop it.
ResolvedOnce ==
    [][\A s \in Sessions :
          session[s].phase # "new" =>
             /\ session[s].answer # "pending" => session'[s].answer = session[s].answer
             /\ session[s].video # "pending" => session'[s].video = session[s].video
             /\ session[s].ended => session'[s].ended]_session

\* Whatever the device, the relay and the broker do, and in whichever phase it
\* is told to end, a session that has ended is torn down.
EndedIsTornDown ==
    \A s \in Sessions : session[s].ended ~> session[s].close \in {"done", "aborted"}

\* async_start comes to a result: no await of it can hang for ever.
StartReturns ==
    \A s \in Sessions : (session[s].phase \in Starting) ~> (session[s].phase \in {"up", "over"})

\* _async_dial_relay: "Connect the relay, retrying while the device settles":
\* an attempt that fails is followed by another one.
DialRetries ==
    [][\A s \in Sessions :
          session[s].phase = "dial" => session'[s].result # "failed"]_session
=============================================================================
