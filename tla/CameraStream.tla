---------------------------- MODULE CameraStream ----------------------------
(***************************************************************************)
(* The supervisor of one camera (camera_stream.py): the task that runs one *)
(* session after another, the task that watches for stalls, and the        *)
(* callers of async_start and async_stop.  Each async_start spawns a pair  *)
(* of tasks; they are told apart by its number.                            *)
(*                                                                         *)
(* Task.cancel only asks: the CancelledError is raised at the await the    *)
(* task is at when it is next resumed, so a task with "cancel" set takes   *)
(* the cancelled step and no other.  Durations are abstracted: a backoff   *)
(* ends some time, and _last_frame_at is never, recent or older than the   *)
(* stall timeout.                                                          *)
(***************************************************************************)
EXTENDS SessionLifecycle

CONSTANTS
    MaxSessions,   \* bound: sessions that get as far as an offer
    MaxStarts,     \* bound: calls of async_start that start something
    Callers,       \* tasks that call async_start and async_stop
    BusyLimit,     \* busy_refusal_limit
    BackoffSteps   \* how often the backoff can double before it is _retry_max

ASSUME StreamAssumption ==
    /\ MaxSessions \in Nat /\ Sessions = 1..MaxSessions
    /\ MaxStarts \in Nat /\ BusyLimit \in Nat \ {0} /\ BackoffSteps \in Nat

Gens == 1..MaxStarts

VARIABLES
    sup,            \* the supervisor tasks
    watch,          \* the stall watchers
    caller,         \* the callers
    supervisorTask, stallTask,   \* _supervisor_task and _stall_task, 0 for None
    stopRequested,  \* _stop_requested
    current,        \* _session, 0 for None
    lastFrameAt,    \* _last_frame_at
    firstFrame,     \* _first_frame
    busyRefusals,   \* _busy_refusals
    busyInARow      \* history: how many of the latest attempts, without a gap, were refused as busy

streamVars == <<sup, watch, caller, supervisorTask, stallTask, stopRequested, current,
                lastFrameAt, firstFrame, busyRefusals, busyInARow>>
vars == <<session, streamVars>>

SupervisorState ==
    [pc : {"none", "spawned", "config", "session", "closing", "retry", "done"},
     session : 0..MaxSessions, backoff : 0..BackoffSteps, cancel : BOOLEAN]
WatcherState ==
    [pc : {"none", "spawned", "sleep", "closing", "done"},
     session : 0..MaxSessions, cancel : BOOLEAN]
CallerState ==
    [pc : {"idle", "supervisor", "stall", "closing"},
     sup : 0..MaxStarts, stall : 0..MaxStarts, session : 0..MaxSessions]

Init ==
    /\ SessionInit
    /\ sup = [g \in Gens |-> [pc |-> "none", session |-> 0, backoff |-> 0, cancel |-> FALSE]]
    /\ watch = [g \in Gens |-> [pc |-> "none", session |-> 0, cancel |-> FALSE]]
    /\ caller = [c \in Callers |-> [pc |-> "idle", sup |-> 0, stall |-> 0, session |-> 0]]
    /\ supervisorTask = 0 /\ stallTask = 0 /\ stopRequested = FALSE
    /\ current = 0 /\ lastFrameAt = "never" /\ firstFrame = FALSE
    /\ busyRefusals = 0 /\ busyInARow = 0

Live(task) == task.pc \notin {"none", "done"}

Exists(s) == s \in Sessions /\ session[s].phase # "new"

needs_power_cycle == busyRefusals >= BusyLimit

-----------------------------------------------------------------------------
(* The supervisor.                                                          *)

\* Mutant: only the first refusal is counted.
BusyOnce(outcome) ==
    CASE outcome = "busy" -> 1
      [] outcome \in {"failed", "streamed"} -> 0
      [] OTHER -> busyRefusals

\* _note_busy_refusal and _clear_busy_refusals.
BusyAfter(outcome) ==
    CASE outcome = "busy" -> busyRefusals + 1
      [] outcome \in {"failed", "streamed"} -> 0
      [] OTHER -> busyRefusals

\* The attempt is over: outcome is "streamed", "quiet", "busy", "failed" or
\* "cancelled".  A cancellation ends the task; anything else is followed by a
\* wait.  The wait's length does not matter here.
NoteOutcome(g, outcome) ==
    /\ sup' = [sup EXCEPT ![g].pc = IF outcome = "cancelled" THEN "done" ELSE "retry",
                          ![g].backoff = IF outcome = "streamed" THEN 0 ELSE @,
                          ![g].cancel = FALSE]
    /\ busyRefusals' = BusyAfter(outcome)
    /\ busyInARow' = CASE outcome = "busy" -> busyInARow + 1
                       [] outcome = "cancelled" -> busyInARow
                       [] OTHER -> 0

\* What _async_run_one_session returns or raises once its session is closed.
OutcomeOf(r) ==
    CASE r.result = "ended" -> IF r.frames THEN "streamed" ELSE "quiet"
      [] OTHER -> r.result

Supervise(g) ==
    /\ sup[g].pc = "spawned" /\ ~sup[g].cancel
    /\ sup' = [sup EXCEPT ![g].pc = IF stopRequested THEN "done" ELSE "config"]
    /\ UNCHANGED <<session, watch, caller, supervisorTask, stallTask, stopRequested, current,
                   lastFrameAt, firstFrame, busyRefusals, busyInARow>>

\* The config, the broker identity and the uid are fetched; any of them may fail.
FetchConfig(g) ==
    /\ sup[g].pc = "config" /\ ~sup[g].cancel
    /\ \/ /\ NoteOutcome(g, "failed")
          /\ UNCHANGED <<session, current>>
       \/ \E s \in Sessions :
            /\ ~Exists(s) /\ \A earlier \in 1..(s - 1) : Exists(earlier)
            /\ Becomes(s, Created)
            /\ current' = s
            /\ sup' = [sup EXCEPT ![g].pc = "session", ![g].session = s]
            /\ UNCHANGED <<busyRefusals, busyInARow>>
    /\ UNCHANGED <<watch, caller, supervisorTask, stallTask, stopRequested, lastFrameAt,
                   firstFrame>>

\* Mutant: _session is left behind.
LeaveSessionSet(g, r) ==
    LET s == sup[g].session
        closed == BeginClose(r)
    IN  /\ UNCHANGED current /\ lastFrameAt' = "never" /\ firstFrame' = FALSE
        /\ Becomes(s, closed)
        /\ IF Closes(r) /\ closed.close # "done"
           THEN /\ sup' = [sup EXCEPT ![g].pc = "closing", ![g].cancel = FALSE]
                /\ UNCHANGED <<busyRefusals, busyInARow>>
           ELSE NoteOutcome(g, OutcomeOf(r))

\* Mutant: the finally block does not close the session.
LeaveSessionOpen(g, r) ==
    /\ current' = 0 /\ lastFrameAt' = "never" /\ firstFrame' = FALSE
    /\ Becomes(sup[g].session, r)
    /\ NoteOutcome(g, OutcomeOf(r))

\* The finally block: _session and the frame state are reset, and the session is
\* closed unless another task closes it already.
LeaveSession(g, r) ==
    LET s == sup[g].session
        closed == BeginClose(r)
    IN  /\ current' = 0 /\ lastFrameAt' = "never" /\ firstFrame' = FALSE
        /\ Becomes(s, closed)
        /\ IF Closes(r) /\ closed.close # "done"
           THEN /\ sup' = [sup EXCEPT ![g].pc = "closing", ![g].cancel = FALSE]
                /\ UNCHANGED <<busyRefusals, busyInARow>>
           ELSE NoteOutcome(g, OutcomeOf(r))

SessionStep(g, next) ==
    /\ \E r \in next :
         IF r.phase = "over" THEN LeaveSession(g, r)
         ELSE /\ Becomes(sup[g].session, r)
              /\ UNCHANGED <<sup, current, lastFrameAt, firstFrame, busyRefusals, busyInARow>>
    /\ UNCHANGED <<watch, caller, supervisorTask, stallTask, stopRequested>>

RunSession(g) ==
    /\ sup[g].pc = "session" /\ ~sup[g].cancel
    /\ SessionStep(g, Resume(session[sup[g].session]))

\* The supervisor closes the session: an error raised by the teardown replaces
\* whatever ended the session, also a cancellation.  It is RelaySession's error
\* when the relay is still closing, and a cancellation otherwise.
CloseStep(g, next) ==
    /\ \E r \in next :
         /\ Becomes(sup[g].session, r)
         /\ CASE r.close = "done" -> NoteOutcome(g, OutcomeOf(r))
              [] r.close = "aborted" -> NoteOutcome(g, IF r.relay = "closing" THEN "failed" ELSE "cancelled")
              [] OTHER -> /\ sup' = [sup EXCEPT ![g].cancel = FALSE]
                          /\ UNCHANGED <<busyRefusals, busyInARow>>
    /\ UNCHANGED <<watch, caller, supervisorTask, stallTask, stopRequested, current,
                   lastFrameAt, firstFrame>>

CloseSession(g) ==
    /\ sup[g].pc = "closing" /\ ~sup[g].cancel
    /\ CloseStep(g, ResumeClose(session[sup[g].session]))

\* Mutant: the backoff is not capped.
WaitUncapped(g) ==
    /\ sup[g].pc = "retry" /\ ~sup[g].cancel
    /\ sup' = [sup EXCEPT ![g].pc = IF stopRequested THEN "done" ELSE "config",
                          ![g].session = 0,
                          ![g].backoff = @ + 1]
    /\ UNCHANGED <<session, watch, caller, supervisorTask, stallTask, stopRequested, current,
                   lastFrameAt, firstFrame, busyRefusals, busyInARow>>

\* Mutant: the loop does not look at _stop_requested.
WaitIgnoringStop(g) ==
    /\ sup[g].pc = "retry" /\ ~sup[g].cancel
    /\ sup' = [sup EXCEPT ![g].pc = "config",
                          ![g].session = 0,
                          ![g].backoff = IF @ < BackoffSteps THEN @ + 1 ELSE @]
    /\ UNCHANGED <<session, watch, caller, supervisorTask, stallTask, stopRequested, current,
                   lastFrameAt, firstFrame, busyRefusals, busyInARow>>

\* The wait is over, because its time is up or because a stop was requested.
WaitBeforeRetry(g) ==
    /\ sup[g].pc = "retry" /\ ~sup[g].cancel
    /\ sup' = [sup EXCEPT ![g].pc = IF stopRequested THEN "done" ELSE "config",
                          ![g].session = 0,
                          ![g].backoff = IF @ < BackoffSteps THEN @ + 1 ELSE @]
    /\ UNCHANGED <<session, watch, caller, supervisorTask, stallTask, stopRequested, current,
                   lastFrameAt, firstFrame, busyRefusals, busyInARow>>

\* The await the supervisor is at raises CancelledError.
CancelSupervisor(g) ==
    /\ sup[g].cancel
    /\ \/ /\ sup[g].pc \in {"spawned", "config", "retry"}
          /\ sup' = [sup EXCEPT ![g].pc = "done", ![g].cancel = FALSE]
          /\ UNCHANGED <<session, watch, caller, supervisorTask, stallTask, stopRequested,
                         current, lastFrameAt, firstFrame, busyRefusals, busyInARow>>
       \/ /\ sup[g].pc = "session"
          /\ SessionStep(g, Cancel(session[sup[g].session]))
       \/ /\ sup[g].pc = "closing"
          /\ CloseStep(g, CancelClose(session[sup[g].session]))

-----------------------------------------------------------------------------
(* The stall watcher.                                                       *)

\* The loop looks at _stop_requested before it sleeps.
Rested == IF stopRequested THEN "done" ELSE "sleep"
Rest(g) == watch' = [watch EXCEPT ![g].pc = Rested, ![g].session = 0]

WatchForStalls(g) ==
    /\ watch[g].pc = "spawned" /\ ~watch[g].cancel
    /\ Rest(g)
    /\ UNCHANGED <<session, sup, caller, supervisorTask, stallTask, stopRequested, current,
                   lastFrameAt, firstFrame, busyRefusals, busyInARow>>

\* Mutant: the test for the first frame is the wrong way round.
StalledBeforeFirst == current # 0 /\ lastFrameAt = "never"

Stalled == current # 0 /\ lastFrameAt = "stale"

CheckForStall(g) ==
    /\ watch[g].pc = "sleep" /\ ~watch[g].cancel
    /\ IF Stalled /\ Closes(session[current])
       THEN /\ Becomes(current, BeginClose(session[current]))
            /\ watch' = [watch EXCEPT ![g].pc = "closing", ![g].session = current]
       ELSE Rest(g) /\ UNCHANGED session
    /\ UNCHANGED <<sup, caller, supervisorTask, stallTask, stopRequested, current, lastFrameAt,
                   firstFrame, busyRefusals, busyInARow>>

\* An error raised by the teardown ends the watcher.
CloseStalled(g) ==
    /\ watch[g].pc = "closing" /\ ~watch[g].cancel
    /\ \E r \in ResumeClose(session[watch[g].session]) :
         /\ Becomes(watch[g].session, r)
         /\ CASE r.close = "done" -> Rest(g)
              [] r.close = "aborted" -> watch' = [watch EXCEPT ![g].pc = "done"]
              [] OTHER -> UNCHANGED watch
    /\ UNCHANGED <<sup, caller, supervisorTask, stallTask, stopRequested, current, lastFrameAt,
                   firstFrame, busyRefusals, busyInARow>>

\* A teardown that swallows the CancelledError of its last await has ended as if
\* nobody had cancelled it, and the watcher's loop looks at _stop_requested again.
CancelWatcher(g) ==
    /\ watch[g].cancel
    /\ \/ /\ watch[g].pc \in {"spawned", "sleep"}
          /\ watch' = [watch EXCEPT ![g].pc = "done", ![g].cancel = FALSE]
          /\ UNCHANGED session
       \/ /\ watch[g].pc = "closing"
          /\ \E r \in CancelClose(session[watch[g].session]) :
               /\ Becomes(watch[g].session, r)
               /\ watch' = [watch EXCEPT ![g].pc = CASE r.close = "done" -> Rested
                                                     [] r.close = "aborted" -> "done"
                                                     [] OTHER -> @,
                                         ![g].cancel = FALSE]
    /\ UNCHANGED <<sup, caller, supervisorTask, stallTask, stopRequested, current, lastFrameAt,
                   firstFrame, busyRefusals, busyInARow>>

-----------------------------------------------------------------------------
(* The callers.                                                             *)

Start(c) ==
    /\ caller[c].pc = "idle" /\ supervisorTask = 0
    /\ \E g \in Gens :
         /\ sup[g].pc = "none" /\ \A earlier \in 1..(g - 1) : sup[earlier].pc # "none"
         /\ stopRequested' = FALSE
         /\ supervisorTask' = g /\ stallTask' = g
         /\ sup' = [sup EXCEPT ![g].pc = "spawned"]
         /\ watch' = [watch EXCEPT ![g].pc = "spawned"]
    /\ UNCHANGED <<session, caller, current, lastFrameAt, firstFrame, busyRefusals, busyInARow>>

\* Both tasks are asked to stop; cancelling a finished task does nothing.
Stop(c) ==
    /\ caller[c].pc = "idle" /\ supervisorTask # 0
    /\ stopRequested' = TRUE
    /\ sup' = [sup EXCEPT ![supervisorTask].cancel = Live(sup[supervisorTask])]
    /\ watch' = [watch EXCEPT ![stallTask].cancel = Live(watch[stallTask])]
    /\ caller' = [caller EXCEPT ![c].pc = "supervisor", ![c].sup = supervisorTask,
                                ![c].stall = stallTask]
    /\ UNCHANGED <<session, supervisorTask, stallTask, current, lastFrameAt, firstFrame,
                   busyRefusals, busyInARow>>

\* Mutant: async_stop does not wait for the supervisor.
StopWithoutWaiting(c) ==
    /\ caller[c].pc = "supervisor"
    /\ caller' = [caller EXCEPT ![c].pc = "stall"]
    /\ UNCHANGED <<session, sup, watch, supervisorTask, stallTask, stopRequested, current,
                   lastFrameAt, firstFrame, busyRefusals, busyInARow>>

StopAwaitSupervisor(c) ==
    /\ caller[c].pc = "supervisor" /\ ~Live(sup[caller[c].sup])
    /\ caller' = [caller EXCEPT ![c].pc = "stall"]
    /\ UNCHANGED <<session, sup, watch, supervisorTask, stallTask, stopRequested, current,
                   lastFrameAt, firstFrame, busyRefusals, busyInARow>>

\* The end of async_stop.
Stopped(c) ==
    /\ firstFrame' = FALSE /\ lastFrameAt' = "never"
    /\ caller' = [caller EXCEPT ![c] = [pc |-> "idle", sup |-> 0, stall |-> 0, session |-> 0]]

StopAwaitStall(c) ==
    /\ caller[c].pc = "stall" /\ ~Live(watch[caller[c].stall])
    /\ supervisorTask' = 0 /\ stallTask' = 0 /\ current' = 0
    /\ IF current # 0 /\ Closes(session[current])
       THEN /\ Becomes(current, BeginClose(session[current]))
            /\ caller' = [caller EXCEPT ![c].pc = "closing", ![c].session = current]
            /\ UNCHANGED <<lastFrameAt, firstFrame>>
       ELSE Stopped(c) /\ UNCHANGED session
    /\ UNCHANGED <<sup, watch, stopRequested, busyRefusals, busyInARow>>

\* An error raised by the teardown leaves async_stop early.
StopCloseSession(c) ==
    /\ caller[c].pc = "closing"
    /\ \E r \in ResumeClose(session[caller[c].session]) :
         /\ Becomes(caller[c].session, r)
         /\ CASE r.close = "done" -> Stopped(c)
              [] r.close = "aborted" ->
                    /\ caller' = [caller EXCEPT ![c] = [pc |-> "idle", sup |-> 0, stall |-> 0,
                                                        session |-> 0]]
                    /\ UNCHANGED <<lastFrameAt, firstFrame>>
              [] OTHER -> UNCHANGED <<caller, lastFrameAt, firstFrame>>
    /\ UNCHANGED <<sup, watch, supervisorTask, stallTask, stopRequested, current, busyRefusals,
                   busyInARow>>

-----------------------------------------------------------------------------
(* Callbacks and time.                                                      *)

\* _on_frame: any session whose video conversation is open publishes here.
OnFrame(s) ==
    /\ OnMediaRecord(s)
    /\ lastFrameAt' = "recent" /\ firstFrame' = TRUE
    /\ UNCHANGED <<sup, watch, caller, supervisorTask, stallTask, stopRequested, current,
                   busyRefusals, busyInARow>>

\* The stall timeout passes without a frame.
TimePasses ==
    /\ lastFrameAt = "recent"
    /\ lastFrameAt' = "stale"
    /\ UNCHANGED <<session, sup, watch, caller, supervisorTask, stallTask, stopRequested,
                   current, firstFrame, busyRefusals, busyInARow>>

SupervisorStep(g) ==
    \/ Supervise(g) \/ FetchConfig(g) \/ RunSession(g) \/ CloseSession(g)
    \/ WaitBeforeRetry(g) \/ CancelSupervisor(g)
WatcherStep(g) ==
    WatchForStalls(g) \/ CheckForStall(g) \/ CloseStalled(g) \/ CancelWatcher(g)
StopStep(c) == StopAwaitSupervisor(c) \/ StopAwaitStall(c) \/ StopCloseSession(c)

Next ==
    \/ \E g \in Gens : SupervisorStep(g) \/ WatcherStep(g)
    \/ \E c \in Callers : Start(c) \/ Stop(c) \/ StopStep(c)
    \/ \E s \in Sessions : (Callback(s) /\ UNCHANGED streamVars) \/ OnFrame(s)
    \/ TimePasses

Spec == Init /\ [][Next]_vars

\* asyncio resumes every task whose await is over; the awaits of async_start and
\* async_close are bounded by their timeouts, and a sleep ends.
TaskFairness ==
    /\ \A g \in Gens : WF_vars(SupervisorStep(g)) /\ WF_vars(WatcherStep(g))
    /\ \A c \in Callers : WF_vars(StopStep(c))

FairSpec == Spec /\ TaskFairness

-----------------------------------------------------------------------------
\* Each variable has the type the code gives it.
TypeOK ==
    /\ SessionTypeOK
    /\ sup \in [Gens -> SupervisorState] /\ watch \in [Gens -> WatcherState]
    /\ caller \in [Callers -> CallerState]
    /\ supervisorTask \in 0..MaxStarts /\ stallTask \in 0..MaxStarts
    /\ stopRequested \in BOOLEAN /\ current \in 0..MaxSessions
    /\ lastFrameAt \in {"never", "recent", "stale"} /\ firstFrame \in BOOLEAN
    /\ busyRefusals \in Nat /\ busyInARow \in Nat

\* "Cameras serve one client at a time": no session is started while another
\* one is starting or up, across stops and restarts.
OneSessionAtATime ==
    \A s, t \in Sessions :
        session[s].phase \notin {"new", "over"} /\ session[t].phase \notin {"new", "over"} => s = t

\* _session is the session the supervisor is running and no other: the stall
\* watcher and async_stop act on it without asking.
CurrentIsRunning ==
    \A s \in Sessions : current = s <=> \E g \in Gens : sup[g].pc = "session" /\ sup[g].session = s

\* Once async_stop has returned no task of the stream is left.
StopLeavesNoTask == supervisorTask = 0 => \A g \in Gens : ~Live(sup[g]) /\ ~Live(watch[g])

\* async_stop returns, wherever the supervisor and the watcher are, also when
\* the CancelledError it sends is swallowed or replaced by another error: then
\* _stop_requested ends the loop, unless another task has started the stream again
\* meanwhile, which clears it.
StopReturns ==
    \A c \in Callers : (caller[c].pc # "idle") ~> (caller[c].pc = "idle" \/ ~stopRequested)

\* Supervisor, watchers and callers together take each session through the life
\* cycle of SessionLifecycle: it is run by one owner that closes it in the end,
\* and closed from outside only while it runs.
RunsSessions == SessionSpec

\* A teardown in progress is driven by exactly one task, however many call
\* async_close: the supervisor's finally block, the stall watcher, async_stop.
ClosedByOneTask ==
    \A s \in Sessions :
        Cardinality({g \in Gens : sup[g].pc = "closing" /\ sup[g].session = s})
        + Cardinality({g \in Gens : watch[g].pc = "closing" /\ watch[g].session = s})
        + Cardinality({c \in Callers : caller[c].pc = "closing" /\ caller[c].session = s})
            = IF session[s].close \in {"relay", "disconnect", "grace", "broker"} THEN 1 ELSE 0

\* A run of BusyLimit refusals is reported, also when the stream was stopped and
\* started again in between.
BusyRunIsReported == busyInARow >= BusyLimit => needs_power_cycle

\* A session whose frames have stopped is replaced or streams again, as long as
\* the watcher is there to see it.
StallEnds ==
    \A s \in Sessions :
        current = s /\ lastFrameAt = "stale" /\ (\E g \in Gens : watch[g].pc = "sleep")
            ~> current # s \/ lastFrameAt # "stale"

-----------------------------------------------------------------------------
(* What the documentation says and the code does not do.                    *)

\* running: "Whether the supervisor is up".
RunningMeansSupervised ==
    supervisorTask # 0 /\ (\A c \in Callers : caller[c].pc = "idle") => Live(sup[supervisorTask])

\* "Every session publishes a disconnect on its way out".
EverySessionIsReleased ==
    \A s \in Sessions :
        session[s].phase = "over" /\ session[s].close \in {"done", "aborted"}
            => session[s].device # "held"

\* "Each session ends on [...] a stall (no frame within the stall timeout)".
SilentSessionEnds ==
    \A s \in Sessions : (session[s].phase = "up") ~> (session[s].frames \/ session[s].phase = "over")
=============================================================================
