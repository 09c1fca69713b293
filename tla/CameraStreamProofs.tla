------------------------- MODULE CameraStreamProofs -------------------------
(***************************************************************************)
(* The stream, for any number of sessions, starts and callers: it uses its *)
(* sessions as SessionLifecycle says, one task drives each teardown, and a *)
(* run of busy replies is reported.  With a single caller: one session at  *)
(* a time, and nothing is left after a stop.                               *)
(***************************************************************************)
EXTENDS CameraStream, SessionLifecycleProofs, FiniteSetTheorems

Running(r) == r.phase \in Starting \union {"up"}

\* The supervisor g is in async_start or async_wait_closed of the session s.
Runs(g, s) == sup[g].pc = "session" /\ sup[g].session = s

\* A session that runs has one supervisor, and _session is a session that runs.
OwnerInv ==
    /\ \A g \in Gens : sup[g].pc \in {"session", "closing"} => sup[g].session \in Sessions
    /\ \A g \in Gens : sup[g].pc = "session" => Running(session[sup[g].session])
    /\ \A s \in Sessions : Running(session[s]) => \E g \in Gens : Runs(g, s)
    /\ \A s \in Sessions, g, h \in Gens : Runs(g, s) /\ Runs(h, s) => g = h
    /\ current # 0 => \E g \in Gens : Runs(g, current)

\* The tasks that are in async_close of the session s.
SupClosers(s) == {g \in Gens : sup[g].pc = "closing" /\ sup[g].session = s}
WatchClosers(s) == {g \in Gens : watch[g].pc = "closing" /\ watch[g].session = s}
CallClosers(s) == {c \in Callers : caller[c].pc = "closing" /\ caller[c].session = s}

NoneOf(A, B, C) == A = {} /\ B = {} /\ C = {}

OneOf(A, B, C) ==
    \/ B = {} /\ C = {} /\ \E x \in A : A = {x}
    \/ A = {} /\ C = {} /\ \E x \in B : B = {x}
    \/ A = {} /\ B = {} /\ \E x \in C : C = {x}

\* A teardown that has begun and not ended has one of them; any other session
\* has none.
Driven(s) ==
    IF TearingDown(session[s]) THEN OneOf(SupClosers(s), WatchClosers(s), CallClosers(s))
                               ELSE NoneOf(SupClosers(s), WatchClosers(s), CallClosers(s))

CloserInv ==
    /\ \A g \in Gens : watch[g].pc = "closing" => watch[g].session \in Sessions
    /\ \A c \in Callers : caller[c].pc = "closing" => caller[c].session \in Sessions
    /\ \A s \in Sessions : Driven(s)

\* The two tasks of a start are spawned together.
PairInv == \A g \in Gens : sup[g].pc = "none" => watch[g].pc = "none"

BusyInv == busyInARow <= busyRefusals

StreamInv == TypeOK /\ SessionInv /\ OwnerInv /\ CloserInv /\ PairInv /\ BusyInv

\* async_start and async_stop are called by one task.
OneCaller == \A c, d \in Callers : c = d

\* Then only the tasks that _supervisor_task and _stall_task name are alive,
\* async_stop waits for these, and the supervisor's session is _session.
SoleInv ==
    /\ \A g \in Gens : g # supervisorTask => ~Live(sup[g]) /\ ~Live(watch[g])
    /\ stallTask = supervisorTask
    /\ \A c \in Callers : caller[c].pc \in {"supervisor", "stall"} =>
          /\ supervisorTask # 0
          /\ caller[c].sup = supervisorTask /\ caller[c].stall = supervisorTask
    /\ \A c \in Callers : caller[c].pc = "stall" => ~Live(sup[supervisorTask])
    /\ \A g \in Gens : sup[g].pc = "session" => current = sup[g].session

-----------------------------------------------------------------------------
(* What the tasks' steps do.                                                *)

\* A session after a step of the task that runs it.
RunStep(r) == Resume(r) \union Cancel(r)

\* A session after a step of the task that closes it.
CloseStepOf(r) == ResumeClose(r) \union CancelClose(r)

\* The supervisor's next state after an attempt that is over, and the counters.
LEMMA NoteOutcomeEffect ==
    ASSUME TypeOK, BusyInv, NEW g \in Gens, NEW outcome, NoteOutcome(g, outcome)
    PROVE  /\ sup' \in [Gens -> SupervisorState]
           /\ sup'[g].pc \in {"retry", "done"} /\ sup'[g].session = sup[g].session
           /\ \A h \in Gens \ {g} : sup'[h] = sup[h]
           /\ busyRefusals' \in Nat /\ busyInARow' \in Nat /\ BusyInv'
<1>1. sup \in [Gens -> SupervisorState] /\ busyRefusals \in Nat /\ busyInARow \in Nat /\ 0 \in 0..BackoffSteps
  BY StreamAssumption DEF TypeOK
<1>2. PICK pc \in {"retry", "done"}, backoff \in 0..BackoffSteps :
         sup' = [sup EXCEPT ![g].pc = pc, ![g].backoff = backoff, ![g].cancel = FALSE]
  BY <1>1 DEF NoteOutcome, SupervisorState
<1>3. /\ sup' \in [Gens -> SupervisorState]
      /\ sup'[g].pc \in {"retry", "done"} /\ sup'[g].session = sup[g].session
      /\ \A h \in Gens \ {g} : sup'[h] = sup[h]
  <2>1. sup[g] \in SupervisorState
    BY <1>1
  <2>2. PICK t : t = [sup[g] EXCEPT !.pc = pc, !.backoff = backoff, !.cancel = FALSE]
    OBVIOUS
  <2>3. t \in SupervisorState /\ t.pc = pc /\ t.session = sup[g].session
    BY <2>1, <2>2 DEF SupervisorState
  <2>4. sup' = [sup EXCEPT ![g] = t]
    BY <1>1, <1>2, <2>2
  <2> QED BY <1>1, <2>3, <2>4
<1>4. busyRefusals' \in Nat /\ busyInARow' \in Nat /\ BusyInv'
  BY <1>1 DEF NoteOutcome, BusyAfter, BusyInv
<1> QED BY <1>3, <1>4

\* The kinds of steps a supervisor takes: away from any session; a new session;
\* a session that goes on; the finally block; the teardown.
SupElsewhere(g) ==
    /\ sup[g].pc \notin {"session", "closing"} /\ sup'[g].pc \notin {"session", "closing"}
    /\ UNCHANGED <<session, current>>

SupBegins(g) ==
    /\ sup[g].pc = "config"
    /\ \E s \in Sessions : Create(s) /\ current' = s /\ Runs(g, s)'

SupGoesOn(g) ==
    /\ sup[g].pc = "session" /\ UNCHANGED <<sup, current>>
    /\ \E r \in RunStep(session[sup[g].session]) : r.phase # "over" /\ Becomes(sup[g].session, r)

SupLeaves(g) ==
    /\ sup[g].pc = "session" /\ current' = 0 /\ sup'[g].session = sup[g].session
    /\ \E r \in RunStep(session[sup[g].session]) :
          /\ r.phase = "over" /\ Becomes(sup[g].session, BeginClose(r))
          /\ sup'[g].pc \in IF Closes(r) THEN {"closing"} ELSE {"retry", "done"}

SupCloses(g) ==
    /\ sup[g].pc = "closing" /\ sup'[g].session = sup[g].session /\ UNCHANGED current
    /\ \E r \in CloseStepOf(session[sup[g].session]) :
          /\ Becomes(sup[g].session, r)
          /\ sup'[g].pc \in IF TearingDown(r) THEN {"closing"} ELSE {"retry", "done"}

\* What every step of a supervisor keeps.
SupKeeps(g) ==
    /\ sup' \in [Gens -> SupervisorState] /\ \A h \in Gens \ {g} : sup'[h] = sup[h]
    /\ sup'[g].pc # "none"
    /\ UNCHANGED <<watch, caller, supervisorTask, stallTask, stopRequested>>
    /\ lastFrameAt' \in {"never", "recent", "stale"} /\ firstFrame' \in BOOLEAN
    /\ busyRefusals' \in Nat /\ busyInARow' \in Nat /\ BusyInv'

\* A resumed or cancelled run of a session: it goes on, or the finally block runs.
LEMMA SessionStepKind ==
    ASSUME StreamInv, NEW g \in Gens, sup[g].pc = "session",
           NEW next, next \subseteq RunStep(session[sup[g].session]), SessionStep(g, next)
    PROVE  SupKeeps(g) /\ (SupGoesOn(g) \/ SupLeaves(g))
<1>1. /\ sup[g].session \in Sessions /\ Sound(session[sup[g].session])
      /\ TypeOK /\ BusyInv
  BY DEF StreamInv, OwnerInv, SessionInv
<1>2. PICK r \in next :
         /\ IF r.phase = "over" THEN LeaveSession(g, r)
            ELSE /\ Becomes(sup[g].session, r)
                 /\ UNCHANGED <<sup, current, lastFrameAt, firstFrame, busyRefusals, busyInARow>>
         /\ UNCHANGED <<watch, caller, supervisorTask, stallTask, stopRequested>>
  BY DEF SessionStep
<1>3. r \in RunStep(session[sup[g].session]) /\ Advanced(session[sup[g].session], r)
  BY <1>1, <1>2, ResumeAdvances, CancelAdvances DEF RunStep
<1>4. CASE r.phase # "over"
  BY <1>1, <1>2, <1>3, <1>4 DEF SupKeeps, SupGoesOn, TypeOK, BusyInv
<1>5. CASE r.phase = "over" /\ Closes(r)
  <2>1. BeginClose(r).close # "done"
    BY <1>3, <1>5, BeginCloseReleases DEF Advanced
  <2>2. /\ sup' = [sup EXCEPT ![g].pc = "closing", ![g].cancel = FALSE]
        /\ UNCHANGED <<busyRefusals, busyInARow>> /\ Becomes(sup[g].session, BeginClose(r))
        /\ current' = 0 /\ lastFrameAt' = "never" /\ firstFrame' = FALSE
    BY <1>2, <1>5, <2>1 DEF LeaveSession
  <2>3. /\ sup' \in [Gens -> SupervisorState] /\ \A h \in Gens \ {g} : sup'[h] = sup[h]
        /\ sup'[g].pc = "closing" /\ sup'[g].session = sup[g].session
    BY <1>1, <2>2 DEF TypeOK, SupervisorState
  <2>4. SupKeeps(g)
    BY <1>1, <1>2, <2>2, <2>3 DEF SupKeeps, TypeOK, BusyInv
  <2>5. SupLeaves(g)
    BY <1>3, <1>5, <2>2, <2>3 DEF SupLeaves
  <2> QED BY <2>4, <2>5
<1>6. CASE r.phase = "over" /\ ~Closes(r)
  <2>1. /\ NoteOutcome(g, OutcomeOf(r)) /\ Becomes(sup[g].session, BeginClose(r))
        /\ current' = 0 /\ lastFrameAt' = "never" /\ firstFrame' = FALSE
    BY <1>2, <1>6 DEF LeaveSession
  <2>2. SupKeeps(g) /\ sup'[g].pc \in {"retry", "done"} /\ sup'[g].session = sup[g].session
    BY <1>1, <1>2, <2>1, NoteOutcomeEffect DEF SupKeeps
  <2>3. SupLeaves(g)
    BY <1>3, <1>6, <2>1, <2>2 DEF SupLeaves
  <2> QED BY <2>2, <2>3
<1> QED BY <1>4, <1>5, <1>6

\* A resumed or cancelled teardown in the finally block.
LEMMA CloseStepKind ==
    ASSUME StreamInv, NEW g \in Gens, sup[g].pc = "closing",
           NEW next, next \subseteq CloseStepOf(session[sup[g].session]), CloseStep(g, next)
    PROVE  SupKeeps(g) /\ SupCloses(g)
<1>1. /\ sup[g].session \in Sessions /\ Sound(session[sup[g].session])
      /\ TypeOK /\ BusyInv
  BY DEF StreamInv, OwnerInv, SessionInv
<1>2. PICK r \in next :
         /\ Becomes(sup[g].session, r)
         /\ CASE r.close = "done" -> NoteOutcome(g, OutcomeOf(r))
              [] r.close = "aborted" -> NoteOutcome(g, IF r.relay = "closing" THEN "failed" ELSE "cancelled")
              [] OTHER -> /\ sup' = [sup EXCEPT ![g].cancel = FALSE]
                          /\ UNCHANGED <<busyRefusals, busyInARow>>
         /\ UNCHANGED <<watch, caller, supervisorTask, stallTask, stopRequested, current,
                        lastFrameAt, firstFrame>>
  BY DEF CloseStep
<1>3. /\ r \in CloseStepOf(session[sup[g].session]) /\ r.close # "open"
      /\ r.close \in {"open", "relay", "disconnect", "grace", "broker", "done", "aborted"}
  BY <1>1, <1>2, CloseReleases DEF CloseStepOf, Released, Sound, Tracked, SessionState
<1>4. CASE r.close \in {"done", "aborted"}
  <2>1. PICK outcome : NoteOutcome(g, outcome)
    BY <1>2, <1>4
  <2>2. SupKeeps(g) /\ sup'[g].pc \in {"retry", "done"} /\ sup'[g].session = sup[g].session
    BY <1>1, <1>2, <2>1, NoteOutcomeEffect DEF SupKeeps, TypeOK
  <2>3. SupCloses(g)
    BY <1>2, <1>3, <1>4, <2>2 DEF SupCloses, TearingDown
  <2> QED BY <2>2, <2>3
<1>5. CASE r.close \notin {"done", "aborted"}
  <2>1. sup' = [sup EXCEPT ![g].cancel = FALSE] /\ UNCHANGED <<busyRefusals, busyInARow>>
    BY <1>2, <1>5
  <2>2. /\ sup' \in [Gens -> SupervisorState] /\ \A h \in Gens \ {g} : sup'[h] = sup[h]
        /\ sup'[g].pc = "closing" /\ sup'[g].session = sup[g].session
    BY <1>1, <2>1 DEF TypeOK, SupervisorState
  <2>3. SupKeeps(g)
    BY <1>1, <1>2, <2>1, <2>2 DEF SupKeeps, TypeOK, BusyInv
  <2>4. SupCloses(g)
    BY <1>2, <1>3, <1>5, <2>2 DEF SupCloses, TearingDown
  <2> QED BY <2>3, <2>4
<1> QED BY <1>4, <1>5

\* Every step of a supervisor is of one of the kinds.
LEMMA SupervisorKind ==
    ASSUME StreamInv, NEW g \in Gens, SupervisorStep(g)
    PROVE  /\ SupKeeps(g) /\ Live(sup[g])
           /\ SupElsewhere(g) \/ SupBegins(g) \/ SupGoesOn(g) \/ SupLeaves(g) \/ SupCloses(g)
<1>0. TypeOK /\ BusyInv
  BY DEF StreamInv
<1>1. ASSUME NEW pc \in {"config", "done"}, sup'[g].pc = pc,
             sup' \in [Gens -> SupervisorState], \A h \in Gens \ {g} : sup'[h] = sup[h],
             sup[g].pc \in {"spawned", "config", "retry"},
             UNCHANGED <<session, watch, caller, supervisorTask, stallTask, stopRequested,
                         current, lastFrameAt, firstFrame, busyRefusals, busyInARow>>
      PROVE  SupKeeps(g) /\ Live(sup[g]) /\ SupElsewhere(g)
  BY <1>0, <1>1 DEF SupKeeps, SupElsewhere, Live, TypeOK, BusyInv
<1>2. CASE Supervise(g)
  <2>1. PICK pc \in {"config", "done"} : sup' = [sup EXCEPT ![g].pc = pc]
    BY <1>2 DEF Supervise
  <2>2. /\ sup' \in [Gens -> SupervisorState] /\ \A h \in Gens \ {g} : sup'[h] = sup[h]
        /\ sup'[g].pc = pc
    BY <1>0, <2>1 DEF TypeOK, SupervisorState
  <2> QED BY <1>1, <1>2, <2>2 DEF Supervise
<1>3. CASE WaitBeforeRetry(g)
  <2>1. PICK pc \in {"config", "done"}, b \in 0..BackoffSteps :
           sup' = [sup EXCEPT ![g].pc = pc, ![g].session = 0, ![g].backoff = b]
    <3>1. sup[g].backoff \in 0..BackoffSteps /\ BackoffSteps \in Nat
      BY <1>0, StreamAssumption DEF TypeOK, SupervisorState
    <3>2. (IF sup[g].backoff < BackoffSteps THEN sup[g].backoff + 1 ELSE sup[g].backoff) \in 0..BackoffSteps
      BY <3>1
    <3> QED BY <1>3, <3>2 DEF WaitBeforeRetry
  <2>2. 0 \in 0..MaxSessions
    BY StreamAssumption
  <2>3. /\ sup' \in [Gens -> SupervisorState] /\ \A h \in Gens \ {g} : sup'[h] = sup[h]
        /\ sup'[g].pc = pc
    <3>1. sup \in [Gens -> SupervisorState] /\ sup[g] \in SupervisorState
      BY <1>0 DEF TypeOK
    <3>2. PICK t : t = [sup[g] EXCEPT !.pc = pc, !.session = 0, !.backoff = b]
      OBVIOUS
    <3>3. t \in SupervisorState /\ t.pc = pc
      BY <2>2, <3>1, <3>2 DEF SupervisorState
    <3>4. sup' = [sup EXCEPT ![g] = t]
      BY <2>1, <3>1, <3>2
    <3> QED BY <3>1, <3>3, <3>4
  <2> QED BY <1>1, <1>3, <2>3 DEF WaitBeforeRetry
<1>4. CASE FetchConfig(g)
  <2>1. CASE NoteOutcome(g, "failed") /\ UNCHANGED <<session, current>>
    BY <1>0, <1>4, <2>1, NoteOutcomeEffect DEF FetchConfig, SupKeeps, SupElsewhere, Live, TypeOK
  <2>2. ASSUME NEW s \in Sessions, ~Exists(s), Becomes(s, Created), current' = s,
               sup' = [sup EXCEPT ![g].pc = "session", ![g].session = s],
               UNCHANGED <<busyRefusals, busyInARow>>
        PROVE  SupKeeps(g) /\ Live(sup[g]) /\ SupBegins(g)
    <3>1. /\ sup' \in [Gens -> SupervisorState] /\ \A h \in Gens \ {g} : sup'[h] = sup[h]
          /\ sup'[g].pc = "session" /\ sup'[g].session = s
      <4>1. s \in 0..MaxSessions
        BY StreamAssumption
      <4> QED BY <1>0, <2>2, <4>1 DEF TypeOK, SupervisorState
    <3> QED BY <1>0, <1>4, <2>2, <3>1
            DEF FetchConfig, SupKeeps, SupBegins, Live, Create, Exists, Runs, TypeOK, BusyInv
  <2> QED BY <1>4, <2>1, <2>2 DEF FetchConfig
<1>5. CASE RunSession(g)
  <2>1. Resume(session[sup[g].session]) \subseteq RunStep(session[sup[g].session])
    BY DEF RunStep
  <2> QED BY <1>5, <2>1, SessionStepKind DEF RunSession, Live
<1>6. CASE CloseSession(g)
  <2>1. ResumeClose(session[sup[g].session]) \subseteq CloseStepOf(session[sup[g].session])
    BY DEF CloseStepOf
  <2> QED BY <1>6, <2>1, CloseStepKind DEF CloseSession, Live
<1>7. CASE CancelSupervisor(g)
  <2>1. CASE sup[g].pc \in {"spawned", "config", "retry"}
    <3>1. sup' = [sup EXCEPT ![g].pc = "done", ![g].cancel = FALSE]
      BY <1>7, <2>1 DEF CancelSupervisor
    <3>2. /\ sup' \in [Gens -> SupervisorState] /\ \A h \in Gens \ {g} : sup'[h] = sup[h]
          /\ sup'[g].pc = "done"
      BY <1>0, <3>1 DEF TypeOK, SupervisorState
    <3> QED BY <1>1, <1>7, <2>1, <3>2 DEF CancelSupervisor
  <2>2. CASE sup[g].pc = "session"
    <3>1. Cancel(session[sup[g].session]) \subseteq RunStep(session[sup[g].session])
      BY DEF RunStep
    <3> QED BY <1>7, <2>2, <3>1, SessionStepKind DEF CancelSupervisor, Live
  <2>3. CASE sup[g].pc = "closing"
    <3>1. CancelClose(session[sup[g].session]) \subseteq CloseStepOf(session[sup[g].session])
      BY DEF CloseStepOf
    <3> QED BY <1>7, <2>3, <3>1, CloseStepKind DEF CancelSupervisor, Live
  <2> QED BY <1>7, <2>1, <2>2, <2>3 DEF CancelSupervisor
<1> QED BY <1>2, <1>3, <1>4, <1>5, <1>6, <1>7 DEF SupervisorStep

\* The kinds of steps a watcher takes.
WatchElsewhere(g) == watch[g].pc # "closing" /\ watch'[g].pc # "closing" /\ UNCHANGED session

WatchBegins(g) ==
    /\ watch[g].pc # "closing" /\ current \in Sessions
    /\ Closes(session[current]) /\ Becomes(current, BeginClose(session[current]))
    /\ watch'[g].pc = "closing" /\ watch'[g].session = current

WatchCloses(g) ==
    /\ watch[g].pc = "closing"
    /\ \E r \in CloseStepOf(session[watch[g].session]) :
          /\ Becomes(watch[g].session, r)
          /\ IF TearingDown(r) THEN watch'[g].pc = "closing" /\ watch'[g].session = watch[g].session
                               ELSE watch'[g].pc # "closing"

WatchKeeps(g) ==
    /\ watch' \in [Gens -> WatcherState] /\ \A h \in Gens \ {g} : watch'[h] = watch[h]
    /\ UNCHANGED <<sup, caller, supervisorTask, stallTask, stopRequested, current, lastFrameAt,
                   firstFrame, busyRefusals, busyInARow>>

\* A watcher that goes back to its sleep, or ends, closes nothing.
LEMMA RestEffect ==
    ASSUME TypeOK, NEW g \in Gens, Rest(g)
    PROVE  /\ watch' \in [Gens -> WatcherState] /\ \A h \in Gens \ {g} : watch'[h] = watch[h]
           /\ watch'[g].pc # "closing"
<1>1. PICK pc \in {"done", "sleep"} : watch' = [watch EXCEPT ![g].pc = pc, ![g].session = 0]
  BY DEF Rest, Rested
<1>2. 0 \in 0..MaxSessions
  BY StreamAssumption
<1> QED BY <1>1, <1>2 DEF TypeOK, WatcherState

\* Every step of a watcher is of one of the kinds.
LEMMA WatcherKind ==
    ASSUME StreamInv, NEW g \in Gens, WatcherStep(g)
    PROVE  /\ WatchKeeps(g) /\ Live(watch[g])
           /\ WatchElsewhere(g) \/ WatchBegins(g) \/ WatchCloses(g)
<1>0. TypeOK /\ SessionInv /\ CloserInv
  BY DEF StreamInv
<1>1. CASE WatchForStalls(g)
  BY <1>0, <1>1, RestEffect DEF WatchForStalls, WatchKeeps, WatchElsewhere, Live
<1>2. CASE CheckForStall(g)
  <2>1. CASE Stalled /\ Closes(session[current])
    <3>1. current \in Sessions
      BY <1>0, <2>1, StreamAssumption DEF Stalled, TypeOK
    <3>2. /\ Becomes(current, BeginClose(session[current]))
          /\ watch' = [watch EXCEPT ![g].pc = "closing", ![g].session = current]
      BY <1>2, <2>1 DEF CheckForStall
    <3>3. /\ watch' \in [Gens -> WatcherState] /\ \A h \in Gens \ {g} : watch'[h] = watch[h]
          /\ watch'[g].pc = "closing" /\ watch'[g].session = current
      BY <1>0, <3>1, <3>2, StreamAssumption DEF TypeOK, WatcherState
    <3> QED BY <1>2, <2>1, <3>1, <3>2, <3>3 DEF CheckForStall, WatchKeeps, WatchBegins, Live
  <2>2. CASE ~(Stalled /\ Closes(session[current]))
    <3>1. Rest(g) /\ UNCHANGED session
      BY <1>2, <2>2 DEF CheckForStall
    <3> QED BY <1>0, <1>2, <3>1, RestEffect DEF CheckForStall, WatchKeeps, WatchElsewhere, Live
  <2> QED BY <2>1, <2>2
<1>3. ASSUME watch[g].pc = "closing", NEW r \in CloseStepOf(session[watch[g].session])
      PROVE  /\ r.close # "open" 
             /\ r.close \in {"open", "relay", "disconnect", "grace", "broker", "done", "aborted"}
  <2>1. Sound(session[watch[g].session])
    BY <1>0, <1>3 DEF CloserInv, SessionInv
  <2> QED BY <1>3, <2>1, CloseReleases DEF CloseStepOf, Released, Sound, Tracked, SessionState
<1>4. CASE CloseStalled(g)
  <2>1. PICK r \in ResumeClose(session[watch[g].session]) :
           /\ Becomes(watch[g].session, r)
           /\ CASE r.close = "done" -> Rest(g)
                [] r.close = "aborted" -> watch' = [watch EXCEPT ![g].pc = "done"]
                [] OTHER -> UNCHANGED watch
    BY <1>4 DEF CloseStalled
  <2>2. r \in CloseStepOf(session[watch[g].session]) /\ watch[g].pc = "closing"
    BY <1>4 DEF CloseStepOf, CloseStalled
  <2>3. /\ watch' \in [Gens -> WatcherState] /\ \A h \in Gens \ {g} : watch'[h] = watch[h]
        /\ IF TearingDown(r) THEN watch'[g] = watch[g] ELSE watch'[g].pc # "closing"
    <3>1. CASE r.close = "done"
      BY <1>0, <2>1, <3>1, RestEffect DEF TearingDown
    <3>2. CASE r.close = "aborted"
      BY <1>0, <2>1, <3>2 DEF TearingDown, TypeOK, WatcherState
    <3>3. CASE r.close \notin {"done", "aborted"}
      BY <1>0, <1>3, <2>1, <2>2, <3>3 DEF TearingDown, TypeOK
    <3> QED BY <3>1, <3>2, <3>3
  <2> QED BY <1>4, <2>1, <2>2, <2>3 DEF CloseStalled, WatchKeeps, WatchCloses, Live
<1>5. CASE CancelWatcher(g)
  <2>1. CASE watch[g].pc \in {"spawned", "sleep"}
    <3>1. watch' = [watch EXCEPT ![g].pc = "done", ![g].cancel = FALSE] /\ UNCHANGED session
      BY <1>5, <2>1 DEF CancelWatcher
    <3>2. /\ watch' \in [Gens -> WatcherState] /\ \A h \in Gens \ {g} : watch'[h] = watch[h]
          /\ watch'[g].pc = "done"
      BY <1>0, <3>1 DEF TypeOK, WatcherState
    <3> QED BY <1>5, <2>1, <3>1, <3>2 DEF CancelWatcher, WatchKeeps, WatchElsewhere, Live
  <2>2. CASE watch[g].pc = "closing"
    <3>1. PICK r \in CancelClose(session[watch[g].session]) :
             /\ Becomes(watch[g].session, r)
             /\ watch' = [watch EXCEPT ![g].pc = CASE r.close = "done" -> Rested
                                                   [] r.close = "aborted" -> "done"
                                                   [] OTHER -> @,
                                       ![g].cancel = FALSE]
      BY <1>5, <2>2 DEF CancelWatcher
    <3>2. r \in CloseStepOf(session[watch[g].session])
      BY DEF CloseStepOf
    <3>3. TearingDown(r) <=> r.close \notin {"done", "aborted"}
      BY <1>3, <2>2, <3>2 DEF TearingDown
    <3>4. /\ watch' \in [Gens -> WatcherState] /\ \A h \in Gens \ {g} : watch'[h] = watch[h]
          /\ IF r.close \in {"done", "aborted"} THEN watch'[g].pc \in {"done", "sleep"}
             ELSE watch'[g].pc = "closing"
          /\ watch'[g].session = watch[g].session
      <4>1. watch \in [Gens -> WatcherState] /\ watch[g] \in WatcherState
        BY <1>0 DEF TypeOK
      <4>2. PICK pc \in {"done", "sleep", "closing"} :
               /\ pc = CASE r.close = "done" -> Rested [] r.close = "aborted" -> "done" [] OTHER -> "closing"
               /\ pc = "closing" <=> r.close \notin {"done", "aborted"}
        BY DEF Rested
      <4>3. PICK t : t = [watch[g] EXCEPT !.pc = pc, !.cancel = FALSE]
        OBVIOUS
      <4>4. t \in WatcherState /\ t.pc = pc /\ t.session = watch[g].session
        BY <4>1, <4>3 DEF WatcherState
      <4>5. watch' = [watch EXCEPT ![g] = t]
        BY <2>2, <3>1, <4>1, <4>2, <4>3
      <4> QED BY <4>1, <4>2, <4>4, <4>5
    <3>5. WatchCloses(g)
      BY <2>2, <3>1, <3>2, <3>3, <3>4 DEF WatchCloses
    <3> QED BY <1>5, <2>2, <3>4, <3>5 DEF CancelWatcher, WatchKeeps, Live
  <2> QED BY <1>5, <2>1, <2>2 DEF CancelWatcher
<1> QED BY <1>1, <1>2, <1>4, <1>5 DEF WatcherStep

-----------------------------------------------------------------------------
(* The stream takes its sessions through steps of SessionLifecycle.         *)

\* The session a task acts on takes a step, and no other does.
LEMMA BecomesEffect ==
    ASSUME SessionTypeOK, NEW t \in Sessions, NEW q, Becomes(t, q)
    PROVE  session'[t] = q /\ \A s \in Sessions \ {t} : session'[s] = session[s]
BY DEF SessionTypeOK, Becomes

\* What a supervisor does to its session is what an owner may do.
LEMMA SupervisorRunsSessions ==
    ASSUME StreamInv, NEW g \in Gens, SupervisorStep(g)
    PROVE  SessionNext \/ UNCHANGED session
<1>1. sup[g].pc \in {"session", "closing"} => sup[g].session \in Sessions
  BY DEF StreamInv, OwnerInv
<1>2. CASE SupElsewhere(g)
  BY <1>2 DEF SupElsewhere
<1>3. CASE SupBegins(g)
  BY <1>3 DEF SupBegins, SessionNext
<1>4. CASE SupGoesOn(g)
  <2>1. Run(sup[g].session) \/ Interrupt(sup[g].session)
    BY <1>4 DEF SupGoesOn, RunStep, Run, Interrupt, Finally
  <2> QED BY <1>1, <1>4, <2>1 DEF SessionNext, SupGoesOn
<1>5. CASE SupLeaves(g)
  <2>1. Run(sup[g].session) \/ Interrupt(sup[g].session)
    BY <1>5 DEF SupLeaves, RunStep, Run, Interrupt, Finally
  <2> QED BY <1>1, <1>5, <2>1 DEF SessionNext, SupLeaves
<1>6. CASE SupCloses(g)
  <2>1. Teardown(sup[g].session) \/ InterruptTeardown(sup[g].session)
    BY <1>6 DEF SupCloses, CloseStepOf, Teardown, InterruptTeardown
  <2> QED BY <1>1, <1>6, <2>1 DEF SessionNext, SupCloses
<1> QED BY <1>2, <1>3, <1>4, <1>5, <1>6, SupervisorKind

\* _session can be closed by another task, because it is a session that runs.
LEMMA CurrentCanBeClosed ==
    ASSUME StreamInv, current \in Sessions, Closes(session[current]),
           Becomes(current, BeginClose(session[current]))
    PROVE  CloseFromOutside(current)
<1>1. current # 0
  BY StreamAssumption
<1>2. Running(session[current])
  BY <1>1 DEF StreamInv, OwnerInv, Runs
<1> QED BY <1>2 DEF CloseFromOutside, Running

\* What a watcher does to a session is a close from outside.
LEMMA WatcherRunsSessions ==
    ASSUME StreamInv, NEW g \in Gens, WatcherStep(g)
    PROVE  SessionNext \/ UNCHANGED session
<1>1. watch[g].pc = "closing" => watch[g].session \in Sessions
  BY DEF StreamInv, CloserInv
<1>2. CASE WatchElsewhere(g)
  BY <1>2 DEF WatchElsewhere
<1>3. CASE WatchBegins(g)
  BY <1>3, CurrentCanBeClosed DEF WatchBegins, SessionNext
<1>4. CASE WatchCloses(g)
  <2>1. Teardown(watch[g].session) \/ InterruptTeardown(watch[g].session)
    BY <1>4 DEF WatchCloses, CloseStepOf, Teardown, InterruptTeardown
  <2> QED BY <1>1, <1>4, <2>1 DEF SessionNext, WatchCloses
<1> QED BY <1>2, <1>3, <1>4, WatcherKind

\* So is what async_stop does.
LEMMA CallerRunsSessions ==
    ASSUME StreamInv, NEW c \in Callers, Start(c) \/ Stop(c) \/ StopStep(c)
    PROVE  SessionNext \/ UNCHANGED session
<1>1. CASE Start(c) \/ Stop(c) \/ StopAwaitSupervisor(c)
  BY <1>1 DEF Start, Stop, StopAwaitSupervisor
<1>2. CASE StopAwaitStall(c)
  <2>1. CASE current # 0 /\ Closes(session[current])
    <3>1. current \in Sessions
      BY <2>1, StreamAssumption DEF StreamInv, TypeOK
    <3> QED BY <1>2, <2>1, <3>1, CurrentCanBeClosed DEF StopAwaitStall, SessionNext
  <2>2. CASE ~(current # 0 /\ Closes(session[current]))
    BY <1>2, <2>2 DEF StopAwaitStall
  <2> QED BY <2>1, <2>2
<1>3. CASE StopCloseSession(c)
  <2>1. caller[c].session \in Sessions
    BY <1>3 DEF StreamInv, CloserInv, StopCloseSession
  <2>2. Teardown(caller[c].session)
    BY <1>3 DEF StopCloseSession, Teardown
  <2> QED BY <2>1, <2>2 DEF SessionNext
<1> QED BY <1>1, <1>2, <1>3 DEF StopStep

\* Every step of the stream is one of its sessions, or leaves them alone.
LEMMA StreamStepRunsSessions ==
    ASSUME StreamInv, [Next]_vars PROVE [SessionNext]_session
<1>1. ASSUME NEW s \in Sessions, Callback(s) \/ OnFrame(s) PROVE SessionNext
  BY <1>1 DEF OnFrame, SessionNext
<1>2. CASE TimePasses \/ UNCHANGED vars
  BY <1>2 DEF TimePasses, vars
<1> QED BY <1>1, <1>2, SupervisorRunsSessions, WatcherRunsSessions, CallerRunsSessions DEF Next

-----------------------------------------------------------------------------
(* Owners.                                                                  *)

\* A step that neither starts nor ends a session and leaves the supervisors alone.
LEMMA OwnersStay ==
    ASSUME OwnerInv, current' \in {current, 0},
           \A s \in Sessions : Running(session'[s]) <=> Running(session[s]),
           \A g \in Gens :
              /\ (sup'[g].pc = "session") <=> (sup[g].pc = "session")
              /\ sup'[g].pc \in {"session", "closing"} =>
                    sup[g].pc \in {"session", "closing"} /\ sup'[g].session = sup[g].session
    PROVE  OwnerInv'
<1>1. \A g \in Gens, s \in Sessions : Runs(g, s)' <=> Runs(g, s)
  BY DEF Runs
<1>2. current' # 0 => \E g \in Gens : Runs(g, current)'
  BY DEF OwnerInv, Runs
<1>3. \A g \in Gens : sup'[g].pc \in {"session", "closing"} => sup'[g].session \in Sessions
  BY DEF OwnerInv
<1>4. \A g \in Gens : sup'[g].pc = "session" => Running(session'[sup'[g].session])
  BY DEF OwnerInv
<1>5. \A s \in Sessions : Running(session'[s]) => \E g \in Gens : Runs(g, s)'
  BY <1>1 DEF OwnerInv
<1>6. \A s \in Sessions, g, h \in Gens : Runs(g, s)' /\ Runs(h, s)' => g = h
  BY <1>1 DEF OwnerInv
<1> QED BY <1>2, <1>3, <1>4, <1>5, <1>6 DEF OwnerInv, Running

\* A supervisor becomes the owner of the session it creates and lets go of the
\* one it leaves.
LEMMA SupervisorOwners ==
    ASSUME StreamInv, NEW g \in Gens, SupervisorStep(g)
    PROVE  OwnerInv'
<1>0. /\ OwnerInv /\ SessionTypeOK /\ SupKeeps(g)
      /\ \A h \in Gens \ {g} : sup'[h] = sup[h]
      /\ sup[g].pc \in {"session", "closing"} => sup[g].session \in Sessions /\ Sound(session[sup[g].session])
  BY SupervisorKind DEF StreamInv, SessionInv, OwnerInv, SupKeeps
<1>1. CASE SupElsewhere(g)
  BY <1>0, <1>1, OwnersStay DEF SupElsewhere
<1>2. CASE SupBegins(g)
  <2>1. PICK s \in Sessions : Create(s) /\ current' = s /\ Runs(g, s)' /\ sup[g].pc = "config"
    BY <1>2 DEF SupBegins
  <2>2. ~Running(session[s]) /\ Running(session[s])' /\ \A t \in Sessions \ {s} : session'[t] = session[t]
    <3>1. session'[s] = Created /\ \A t \in Sessions \ {s} : session'[t] = session[t]
      BY <1>0, <2>1, BecomesEffect DEF Create
    <3>2. Created.phase = "connect"
      BY DEF Created, Unborn
    <3> QED BY <2>1, <3>1, <3>2 DEF Running, Starting, Create
  <2>3. \A h \in Gens : ~Runs(h, s)
    BY <1>0, <2>2 DEF OwnerInv, Runs
  <2>4. \A h \in Gens \ {g}, t \in Sessions : Runs(h, t)' <=> Runs(h, t)
    BY <1>0 DEF Runs
  <2>5. \A t \in Sessions \ {s} : ~Runs(g, t)' /\ ~Runs(g, t)
    BY <2>1 DEF Runs
  <2>6. \A h \in Gens : sup'[h].pc \in {"session", "closing"} => sup'[h].session \in Sessions
    BY <1>0, <2>1 DEF OwnerInv, Runs
  <2>7. \A h \in Gens : sup'[h].pc = "session" => Running(session'[sup'[h].session])
    BY <1>0, <2>1, <2>2 DEF OwnerInv, Runs, Running
  <2>8. \A t \in Sessions : Running(session[t])' => \E h \in Gens : Runs(h, t)'
    BY <1>0, <2>1, <2>2, <2>3, <2>4, <2>5 DEF OwnerInv, Running
  <2>9. \A t \in Sessions, h, k \in Gens : Runs(h, t)' /\ Runs(k, t)' => h = k
    BY <1>0, <2>3, <2>4, <2>5 DEF OwnerInv
  <2> QED BY <2>1, <2>6, <2>7, <2>8, <2>9 DEF OwnerInv, Running
<1>3. CASE SupGoesOn(g)
  <2>1. PICK r \in RunStep(session[sup[g].session]) : r.phase # "over" /\ Becomes(sup[g].session, r)
    BY <1>3 DEF SupGoesOn
  <2>2. Advanced(session[sup[g].session], r)
    BY <1>0, <1>3, ResumeAdvances, CancelAdvances DEF RunStep, SupGoesOn
  <2>3. Running(r)
    BY <2>1, <2>2 DEF Advanced, Tracked, SessionState, Running
  <2>4. Running(session[sup[g].session])
    BY <1>0, <1>3 DEF OwnerInv, SupGoesOn
  <2>5. \A s \in Sessions : Running(session'[s]) <=> Running(session[s])
    BY <1>0, <1>3, <2>1, <2>3, <2>4, BecomesEffect DEF SupGoesOn
  <2> QED BY <1>0, <1>3, <2>5, OwnersStay DEF SupGoesOn
<1>4. CASE SupLeaves(g)
  <2> DEFINE t == sup[g].session
  <2>1. PICK r \in RunStep(session[t]) : r.phase = "over" /\ Becomes(t, BeginClose(r))
    BY <1>4 DEF SupLeaves
  <2>2. Advanced(session[t], r) /\ t \in Sessions
    BY <1>0, <1>4, ResumeAdvances, CancelAdvances DEF RunStep, SupLeaves
  <2>3. BeginClose(r).phase = "over"
    <3>1. CASE Closes(r)
      BY <2>1, <2>2, <3>1, BeginCloseReleases DEF Advanced, Released
    <3>2. CASE ~Closes(r)
      BY <2>1, <3>2 DEF BeginClose
    <3> QED BY <3>1, <3>2
  <2>4. ~Running(session'[t]) /\ \A s \in Sessions \ {t} : session'[s] = session[s]
    BY <1>0, <2>1, <2>2, <2>3, BecomesEffect DEF Running, Starting
  <2>5. /\ sup'[g].pc # "session" /\ sup'[g].session = t /\ current' = 0
        /\ \A h \in Gens, s \in Sessions : Runs(h, s)' <=> Runs(h, s) /\ h # g
        /\ Runs(g, t)
    BY <1>0, <1>4, <2>2 DEF SupLeaves, Runs
  <2>6. \A h \in Gens : sup'[h].pc \in {"session", "closing"} => sup'[h].session \in Sessions
    BY <1>0, <2>2, <2>5 DEF OwnerInv
  <2>7. \A h \in Gens : sup'[h].pc = "session" => sup'[h].session # t /\ Running(session'[sup'[h].session])
    <3> SUFFICES ASSUME NEW h \in Gens, sup'[h].pc = "session"
                 PROVE  sup'[h].session # t /\ Running(session'[sup'[h].session])
      OBVIOUS
    <3>1. h # g /\ sup[h] = sup'[h] /\ sup[h].pc = "session" /\ sup[h].session \in Sessions
      BY <1>0, <2>5 DEF OwnerInv
    <3>2. sup[h].session # t
      BY <1>0, <2>2, <2>5, <3>1 DEF OwnerInv, Runs
    <3> QED BY <1>0, <2>4, <3>1, <3>2 DEF OwnerInv
  <2>8. \A s \in Sessions : Running(session'[s]) => \E h \in Gens : Runs(h, s)'
    <3> SUFFICES ASSUME NEW s \in Sessions, Running(session'[s]) PROVE \E h \in Gens : Runs(h, s)'
      OBVIOUS
    <3>1. s # t /\ Running(session[s])
      BY <2>4
    <3>2. PICK h \in Gens : Runs(h, s)
      BY <1>0, <3>1 DEF OwnerInv
    <3>3. h # g
      BY <2>5, <3>1, <3>2 DEF Runs
    <3> QED BY <2>5, <3>2, <3>3
  <2>9. \A s \in Sessions, h, k \in Gens : Runs(h, s)' /\ Runs(k, s)' => h = k
    BY <1>0, <2>5 DEF OwnerInv
  <2> QED BY <2>5, <2>6, <2>7, <2>8, <2>9 DEF OwnerInv, Running
<1>5. CASE SupCloses(g)
  <2>1. PICK r \in CloseStepOf(session[sup[g].session]) : Becomes(sup[g].session, r)
    BY <1>5 DEF SupCloses
  <2>2. r.phase = session[sup[g].session].phase /\ sup[g].session \in Sessions
    BY <1>0, <1>5, <2>1, CloseReleases DEF CloseStepOf, Released, SupCloses
  <2>3. \A s \in Sessions : session'[s].phase = session[s].phase
    BY <1>0, <2>1, <2>2, BecomesEffect
  <2>4. \A s \in Sessions : Running(session'[s]) <=> Running(session[s])
    BY <2>3 DEF Running
  <2>5. sup'[g].pc # "session" /\ current' = current /\ sup'[g].session = sup[g].session
    BY <1>5 DEF SupCloses
  <2> QED BY <1>0, <1>5, <2>4, <2>5, OwnersStay DEF SupCloses
<1> QED BY <1>1, <1>2, <1>3, <1>4, <1>5, SupervisorKind

\* A watcher, a caller or a callback neither starts nor ends a session.
LEMMA SamePhase ==
    ASSUME SessionInv, NEW t \in Sessions, NEW q, Becomes(t, q), q.phase = session[t].phase
    PROVE  \A s \in Sessions : Running(session'[s]) <=> Running(session[s])
<1>1. \A s \in Sessions : session'[s].phase = session[s].phase
  BY BecomesEffect DEF SessionInv
<1> QED BY <1>1 DEF Running

\* A watcher changes no owner, whichever session it closes.
LEMMA WatcherOwners ==
    ASSUME StreamInv, NEW g \in Gens, WatcherStep(g) PROVE OwnerInv'
<1>0. OwnerInv /\ SessionInv /\ WatchKeeps(g) /\ UNCHANGED <<sup, current>>
  BY WatcherKind DEF StreamInv, WatchKeeps
<1> SUFFICES \A s \in Sessions : Running(session'[s]) <=> Running(session[s])
  BY <1>0, OwnersStay
<1>1. CASE WatchElsewhere(g)
  BY <1>1 DEF WatchElsewhere
<1>2. CASE WatchBegins(g)
  <2>1. CloseFromOutside(current)
    BY <1>2, CurrentCanBeClosed DEF WatchBegins
  <2>2. BeginClose(session[current]).phase = session[current].phase
    BY <1>0, <1>2, <2>1, BeginCloseReleases
       DEF WatchBegins, CloseFromOutside, SessionInv, Sound, Released, Starting
  <2> QED BY <1>0, <1>2, <2>2, SamePhase DEF WatchBegins
<1>3. CASE WatchCloses(g)
  <2>1. watch[g].session \in Sessions
    BY <1>3 DEF WatchCloses, StreamInv, CloserInv
  <2>2. PICK r \in CloseStepOf(session[watch[g].session]) : Becomes(watch[g].session, r)
    BY <1>3 DEF WatchCloses
  <2>3. r.phase = session[watch[g].session].phase
    BY <1>0, <2>1, <2>2, CloseReleases DEF CloseStepOf, Released, SessionInv
  <2> QED BY <1>0, <2>1, <2>2, <2>3, SamePhase
<1> QED BY <1>1, <1>2, <1>3, WatcherKind

\* The kinds of steps a caller takes: away from any session, or as a task that
\* closes one.
CallElsewhere(c) == caller[c].pc # "closing" /\ caller'[c].pc # "closing" /\ UNCHANGED session

CallBegins(c) ==
    /\ caller[c].pc # "closing" /\ current \in Sessions
    /\ Closes(session[current]) /\ Becomes(current, BeginClose(session[current]))
    /\ caller'[c].pc = "closing" /\ caller'[c].session = current

CallCloses(c) ==
    /\ caller[c].pc = "closing"
    /\ \E r \in CloseStepOf(session[caller[c].session]) :
          /\ Becomes(caller[c].session, r)
          /\ IF TearingDown(r) THEN caller'[c].pc = "closing" /\ caller'[c].session = caller[c].session
                               ELSE caller'[c].pc # "closing"

\* What every step of a caller keeps.  A start wakes a pair of tasks that has not
\* run yet, a stop marks one; neither is at a session because of it.
CallKeeps(c) ==
    /\ caller' \in [Callers -> CallerState] /\ \A d \in Callers \ {c} : caller'[d] = caller[d]
    /\ sup' \in [Gens -> SupervisorState] /\ watch' \in [Gens -> WatcherState]
    /\ \A g \in Gens : /\ \/ sup'[g].pc = sup[g].pc
                          \/ sup[g].pc = "none" /\ sup'[g].pc = "spawned"
                       /\ sup'[g].session = sup[g].session
    /\ \A g \in Gens : /\ watch'[g].pc # watch[g].pc => watch'[g].pc = "spawned" /\ watch[g].pc # "closing"
                       /\ watch'[g].session = watch[g].session
                       /\ sup'[g].pc = "none" => watch'[g].pc = watch[g].pc
    /\ supervisorTask' \in 0..MaxStarts /\ stallTask' \in 0..MaxStarts
    /\ stopRequested' \in BOOLEAN /\ current' \in {current, 0}
    /\ lastFrameAt' \in {"never", "recent", "stale"} /\ firstFrame' \in BOOLEAN
    /\ UNCHANGED <<busyRefusals, busyInARow>>

\* Every step of a caller is of one of the kinds.
LEMMA CallerKind ==
    ASSUME StreamInv, NEW c \in Callers, Start(c) \/ Stop(c) \/ StopStep(c)
    PROVE  CallKeeps(c) /\ (CallElsewhere(c) \/ CallBegins(c) \/ CallCloses(c))
<1>0. TypeOK /\ SessionInv /\ CloserInv /\ PairInv /\ 0 \in 0..MaxStarts /\ 0 \in 0..MaxSessions
  BY StreamAssumption DEF StreamInv
<1>1. CASE Start(c)
  <2>1. PICK g \in Gens :
           /\ sup[g].pc = "none" /\ supervisorTask' = g /\ stallTask' = g /\ stopRequested' = FALSE
           /\ sup' = [sup EXCEPT ![g].pc = "spawned"] /\ watch' = [watch EXCEPT ![g].pc = "spawned"]
    BY <1>1 DEF Start
  <2>2. g \in 0..MaxStarts /\ watch[g].pc = "none"
    BY <1>0, <2>1, StreamAssumption DEF Gens, PairInv
  <2>3. /\ sup' \in [Gens -> SupervisorState]
        /\ \A h \in Gens : /\ \/ sup'[h].pc = sup[h].pc
                              \/ sup[h].pc = "none" /\ sup'[h].pc = "spawned"
                           /\ sup'[h].session = sup[h].session
    BY <1>0, <2>1 DEF TypeOK, SupervisorState
  <2>4. /\ watch' \in [Gens -> WatcherState]
        /\ \A h \in Gens : /\ watch'[h].pc # watch[h].pc => watch'[h].pc = "spawned" /\ watch[h].pc # "closing"
                           /\ watch'[h].session = watch[h].session
                           /\ sup'[h].pc = "none" => watch'[h].pc = watch[h].pc
    BY <1>0, <2>1, <2>2 DEF TypeOK, WatcherState, SupervisorState
  <2> QED BY <1>0, <1>1, <2>1, <2>2, <2>3, <2>4 DEF Start, CallKeeps, CallElsewhere, TypeOK
<1>2. CASE Stop(c)
  <2>1. PICK k \in BOOLEAN, w \in BOOLEAN :
           /\ sup' = [sup EXCEPT ![supervisorTask].cancel = k]
           /\ watch' = [watch EXCEPT ![stallTask].cancel = w]
    <3>1. Live(sup[supervisorTask]) \in BOOLEAN /\ Live(watch[stallTask]) \in BOOLEAN
      BY DEF Live
    <3> QED BY <1>2, <3>1, Zenon DEF Stop
  <2>2. /\ sup' \in [Gens -> SupervisorState]
        /\ \A h \in Gens : sup'[h].pc = sup[h].pc /\ sup'[h].session = sup[h].session
    BY <1>0, <2>1 DEF TypeOK, SupervisorState
  <2>3. /\ watch' \in [Gens -> WatcherState]
        /\ \A h \in Gens : watch'[h].pc = watch[h].pc /\ watch'[h].session = watch[h].session
    BY <1>0, <2>1 DEF TypeOK, WatcherState
  <2>4. /\ caller' = [caller EXCEPT ![c].pc = "supervisor", ![c].sup = supervisorTask,
                                    ![c].stall = stallTask]
        /\ caller[c].pc = "idle" /\ stopRequested' = TRUE
        /\ UNCHANGED <<session, supervisorTask, stallTask, current, lastFrameAt, firstFrame,
                       busyRefusals, busyInARow>>
    BY <1>2 DEF Stop
  <2>5. /\ caller' \in [Callers -> CallerState] /\ \A d \in Callers \ {c} : caller'[d] = caller[d]
        /\ caller'[c].pc = "supervisor"
    <3>1. /\ caller \in [Callers -> CallerState] /\ caller[c] \in CallerState
          /\ supervisorTask \in 0..MaxStarts /\ stallTask \in 0..MaxStarts
      BY <1>0 DEF TypeOK
    <3>2. PICK t : t = [caller[c] EXCEPT !.pc = "supervisor", !.sup = supervisorTask, !.stall = stallTask]
      OBVIOUS
    <3>3. t \in CallerState /\ t.pc = "supervisor"
      BY <3>1, <3>2 DEF CallerState
    <3>4. caller' = [caller EXCEPT ![c] = t]
      BY <2>4, <3>1, <3>2
    <3> QED BY <3>1, <3>3, <3>4
  <2> QED BY <1>0, <2>2, <2>3, <2>4, <2>5 DEF CallKeeps, CallElsewhere, TypeOK
<1>3. CASE StopAwaitSupervisor(c)
  <2>1. /\ caller' \in [Callers -> CallerState] /\ \A d \in Callers \ {c} : caller'[d] = caller[d]
        /\ caller'[c].pc = "stall" /\ caller[c].pc = "supervisor"
    BY <1>0, <1>3 DEF StopAwaitSupervisor, TypeOK, CallerState
  <2> QED BY <1>0, <1>3, <2>1 DEF StopAwaitSupervisor, CallKeeps, CallElsewhere, TypeOK
<1> DEFINE idle == [pc |-> "idle", sup |-> 0, stall |-> 0, session |-> 0]
<1>4. ASSUME caller' = [caller EXCEPT ![c] = idle]
      PROVE  /\ caller' \in [Callers -> CallerState] /\ \A d \in Callers \ {c} : caller'[d] = caller[d]
             /\ caller'[c].pc = "idle"
  BY <1>0, <1>4 DEF TypeOK, CallerState
<1>5. CASE StopAwaitStall(c)
  <2>1. CASE current # 0 /\ Closes(session[current])
    <3>1. current \in Sessions
      BY <1>0, <2>1, StreamAssumption DEF TypeOK
    <3>2. /\ Becomes(current, BeginClose(session[current])) /\ UNCHANGED <<lastFrameAt, firstFrame>>
          /\ caller' = [caller EXCEPT ![c].pc = "closing", ![c].session = current]
      BY <1>5, <2>1 DEF StopAwaitStall
    <3>3. /\ caller' \in [Callers -> CallerState] /\ \A d \in Callers \ {c} : caller'[d] = caller[d]
          /\ caller'[c].pc = "closing" /\ caller'[c].session = current
      BY <1>0, <3>2 DEF TypeOK, CallerState
    <3>4. CallKeeps(c)
      BY <1>0, <1>5, <3>2, <3>3 DEF StopAwaitStall, CallKeeps, TypeOK
    <3>5. CallBegins(c)
      BY <1>5, <2>1, <3>1, <3>2, <3>3 DEF StopAwaitStall, CallBegins
    <3> QED BY <3>4, <3>5
  <2>2. CASE ~(current # 0 /\ Closes(session[current]))
    <3>1. Stopped(c) /\ UNCHANGED session
      BY <1>5, <2>2 DEF StopAwaitStall
    <3>2. caller' = [caller EXCEPT ![c] = idle] /\ firstFrame' = FALSE /\ lastFrameAt' = "never"
      BY <3>1 DEF Stopped
    <3> QED BY <1>0, <1>4, <1>5, <3>1, <3>2 DEF StopAwaitStall, CallKeeps, CallElsewhere, TypeOK
  <2> QED BY <2>1, <2>2
<1>6. CASE StopCloseSession(c)
  <2>1. PICK r \in ResumeClose(session[caller[c].session]) :
           /\ Becomes(caller[c].session, r)
           /\ CASE r.close = "done" -> Stopped(c)
                [] r.close = "aborted" ->
                      caller' = [caller EXCEPT ![c] = idle] /\ UNCHANGED <<lastFrameAt, firstFrame>>
                [] OTHER -> UNCHANGED <<caller, lastFrameAt, firstFrame>>
    BY <1>6 DEF StopCloseSession
  <2>2. r \in CloseStepOf(session[caller[c].session]) /\ caller[c].pc = "closing"
    BY <1>6 DEF CloseStepOf, StopCloseSession
  <2>3. TearingDown(r) <=> r.close \notin {"done", "aborted"}
    <3>1. Sound(session[caller[c].session])
      BY <1>0, <2>2 DEF CloserInv, SessionInv
    <3> QED BY <2>1, <3>1, CloseReleases DEF TearingDown, Released, Sound, Tracked, SessionState
  <2>4. /\ caller' \in [Callers -> CallerState] /\ \A d \in Callers \ {c} : caller'[d] = caller[d]
        /\ IF TearingDown(r) THEN caller'[c] = caller[c] ELSE caller'[c].pc = "idle"
        /\ lastFrameAt' \in {"never", "recent", "stale"} /\ firstFrame' \in BOOLEAN
    <3>1. CASE r.close = "done"
      <4>1. caller' = [caller EXCEPT ![c] = idle] /\ firstFrame' = FALSE /\ lastFrameAt' = "never"
        BY <2>1, <3>1 DEF Stopped
      <4> QED BY <1>4, <2>3, <3>1, <4>1
    <3>2. CASE r.close = "aborted"
      <4>1. caller' = [caller EXCEPT ![c] = idle] /\ UNCHANGED <<lastFrameAt, firstFrame>>
        BY <2>1, <3>2
      <4> QED BY <1>0, <1>4, <2>3, <3>2, <4>1 DEF TypeOK
    <3>3. CASE r.close \notin {"done", "aborted"}
      BY <1>0, <2>1, <2>3, <3>3 DEF TypeOK
    <3> QED BY <3>1, <3>2, <3>3
  <2>5. CallKeeps(c)
    BY <1>0, <1>6, <2>4 DEF StopCloseSession, CallKeeps, TypeOK
  <2>6. CallCloses(c)
    BY <2>1, <2>2, <2>4 DEF CallCloses
  <2> QED BY <2>5, <2>6
<1> QED BY <1>1, <1>2, <1>3, <1>5, <1>6 DEF StopStep

\* Nor does a caller.
LEMMA CallerOwners ==
    ASSUME StreamInv, NEW c \in Callers, Start(c) \/ Stop(c) \/ StopStep(c) PROVE OwnerInv'
<1>0. OwnerInv /\ SessionInv /\ CallKeeps(c)
  BY CallerKind DEF StreamInv
<1>1. \A g \in Gens :
         /\ (sup'[g].pc = "session") <=> (sup[g].pc = "session")
         /\ sup'[g].pc \in {"session", "closing"} =>
               sup[g].pc \in {"session", "closing"} /\ sup'[g].session = sup[g].session
  BY <1>0 DEF CallKeeps
<1>2. current' \in {current, 0}
  BY <1>0 DEF CallKeeps
<1> SUFFICES \A s \in Sessions : Running(session'[s]) <=> Running(session[s])
  BY <1>0, <1>1, <1>2, OwnersStay
<1>3. CASE CallElsewhere(c)
  BY <1>3 DEF CallElsewhere
<1>4. CASE CallBegins(c)
  <2>1. CloseFromOutside(current)
    BY <1>4, CurrentCanBeClosed DEF CallBegins
  <2>2. BeginClose(session[current]).phase = session[current].phase
    BY <1>0, <1>4, <2>1, BeginCloseReleases
       DEF CallBegins, CloseFromOutside, SessionInv, Sound, Released, Starting
  <2> QED BY <1>0, <1>4, <2>2, SamePhase DEF CallBegins
<1>5. CASE CallCloses(c)
  <2>1. caller[c].session \in Sessions
    BY <1>5 DEF CallCloses, StreamInv, CloserInv
  <2>2. PICK r \in CloseStepOf(session[caller[c].session]) : Becomes(caller[c].session, r)
    BY <1>5 DEF CallCloses
  <2>3. r.phase = session[caller[c].session].phase
    BY <1>0, <2>1, <2>2, CloseReleases DEF CloseStepOf, Released, SessionInv
  <2> QED BY <1>0, <2>1, <2>2, <2>3, SamePhase
<1> QED BY <1>3, <1>4, <1>5, CallerKind

-----------------------------------------------------------------------------
(* Teardowns.                                                               *)

\* A task among the closers of a session is its only one.
LEMMA OnlyCloser ==
    ASSUME NEW A, NEW B, NEW C, OneOf(A, B, C)
    PROVE  /\ \A x \in A : A = {x} /\ B = {} /\ C = {}
           /\ \A x \in B : A = {} /\ B = {x} /\ C = {}
           /\ \A x \in C : A = {} /\ B = {} /\ C = {x}
BY DEF OneOf

\* A task that is in async_close of a session is its only closer.
LEMMA CloserIsAlone ==
    ASSUME CloserInv, NEW s \in Sessions
    PROVE  /\ \A g \in SupClosers(s) : SupClosers(s) = {g} /\ WatchClosers(s) = {} /\ CallClosers(s) = {}
           /\ \A g \in WatchClosers(s) : SupClosers(s) = {} /\ WatchClosers(s) = {g} /\ CallClosers(s) = {}
           /\ \A c \in CallClosers(s) : SupClosers(s) = {} /\ WatchClosers(s) = {} /\ CallClosers(s) = {c}
<1>1. CASE TearingDown(session[s])
  BY <1>1, OnlyCloser, Zenon DEF CloserInv, Driven
<1>2. CASE ~TearingDown(session[s])
  BY <1>2 DEF CloserInv, Driven, NoneOf
<1> QED BY <1>1, <1>2

\* A session whose teardown stays in progress, or out of it, and whose closers
\* stay the same.
LEMMA StaysDriven ==
    ASSUME CloserInv, NEW s \in Sessions,
           TearingDown(session'[s]) <=> TearingDown(session[s]),
           SupClosers(s)' = SupClosers(s), WatchClosers(s)' = WatchClosers(s),
           CallClosers(s)' = CallClosers(s)
    PROVE  Driven(s)'
<1>1. TearingDown(session[s])' <=> TearingDown(session[s])
  BY DEF TearingDown
<1>2. Driven(s)
  BY DEF CloserInv
<1> QED BY <1>1, <1>2 DEF Driven, OneOf, NoneOf

\* A supervisor begins a teardown only where nobody else did, and leaves it only
\* when it is over.
LEMMA SupervisorClosers ==
    ASSUME StreamInv, NEW g \in Gens, SupervisorStep(g) PROVE CloserInv'
<1>0. /\ OwnerInv /\ CloserInv /\ SessionTypeOK /\ SupKeeps(g) /\ UNCHANGED <<watch, caller>>
      /\ \A h \in Gens \ {g} : sup'[h] = sup[h]
      /\ sup[g].pc \in {"session", "closing"} => sup[g].session \in Sessions /\ Sound(session[sup[g].session])
  BY SupervisorKind DEF StreamInv, SessionInv, OwnerInv, SupKeeps
<1>1. \A s \in Sessions : WatchClosers(s)' = WatchClosers(s) /\ CallClosers(s)' = CallClosers(s)
  BY <1>0 DEF WatchClosers, CallClosers
<1>2. \A s \in Sessions :
         SupClosers(s)' = (SupClosers(s) \ {g}) \union
                          (IF sup'[g].pc = "closing" /\ sup'[g].session = s THEN {g} ELSE {})
  BY <1>0 DEF SupClosers
<1>3. ASSUME NEW s \in Sessions, g \notin SupClosers(s),
             ~(sup'[g].pc = "closing" /\ sup'[g].session = s)
      PROVE  SupClosers(s)' = SupClosers(s)
  BY <1>2, <1>3
<1> SUFFICES ASSUME NEW s \in Sessions PROVE Driven(s)'
  BY <1>0 DEF CloserInv
<1>4. ASSUME g \notin SupClosers(s), ~(sup'[g].pc = "closing" /\ sup'[g].session = s),
             session'[s].close = session[s].close
      PROVE  Driven(s)'
  BY <1>0, <1>1, <1>3, <1>4, StaysDriven DEF TearingDown
<1>5. CASE SupElsewhere(g)
  BY <1>4, <1>5 DEF SupElsewhere, SupClosers
<1>6. CASE SupBegins(g)
  <2>1. PICK t \in Sessions : Create(t) /\ Runs(g, t)' /\ sup[g].pc = "config"
    BY <1>6 DEF SupBegins
  <2>2. session[t] = Unborn
    BY <2>1 DEF StreamInv, SessionInv, Sound, Tracked, PhaseInv, Create
  <2>3. Created.close = Unborn.close
    BY DEF Created, Unborn
  <2>4. session'[s].close = session[s].close
    BY <1>0, <2>1, <2>2, <2>3, BecomesEffect DEF Create
  <2> QED BY <1>4, <2>1, <2>4 DEF SupClosers, Runs
<1>7. CASE SupGoesOn(g)
  <2>1. PICK r \in RunStep(session[sup[g].session]) : Becomes(sup[g].session, r)
    BY <1>7 DEF SupGoesOn
  <2>2. r.close = session[sup[g].session].close
    BY <1>0, <1>7, ResumeAdvances, CancelAdvances DEF RunStep, SupGoesOn, Advanced
  <2>3. session'[s].close = session[s].close
    BY <1>0, <1>7, <2>1, <2>2, BecomesEffect DEF SupGoesOn
  <2> QED BY <1>4, <1>7, <2>3 DEF SupClosers, SupGoesOn
<1>8. CASE SupLeaves(g)
  <2> DEFINE t == sup[g].session
  <2>1. PICK r \in RunStep(session[t]) :
           /\ r.phase = "over" /\ Becomes(t, BeginClose(r))
           /\ sup'[g].pc \in IF Closes(r) THEN {"closing"} ELSE {"retry", "done"}
    BY <1>8 DEF SupLeaves
  <2>2. Advanced(session[t], r) /\ t \in Sessions
    BY <1>0, <1>8, ResumeAdvances, CancelAdvances DEF RunStep, SupLeaves
  <2>3. sup'[g].session = t /\ g \notin SupClosers(s)
    BY <1>8 DEF SupLeaves, SupClosers
  <2>4. CASE s = t /\ Closes(r)
    <3>1. TearingDown(session'[s])
      BY <1>0, <2>1, <2>2, <2>4, BeginCloseReleases, BecomesEffect DEF Advanced, TearingDown
    <3>2. ~TearingDown(session[s])
      BY <2>2, <2>4 DEF Advanced, Closes, TearingDown
    <3>3. SupClosers(s) = {} /\ WatchClosers(s) = {} /\ CallClosers(s) = {}
      BY <1>0, <3>2 DEF CloserInv, Driven, NoneOf
    <3>4. SupClosers(s)' = {g}
      BY <1>2, <2>1, <2>3, <2>4, <3>3
    <3> QED BY <1>1, <3>1, <3>3, <3>4 DEF Driven, OneOf
  <2>5. CASE s # t
    BY <1>0, <1>4, <2>1, <2>2, <2>3, <2>5, BecomesEffect
  <2>6. CASE s = t /\ ~Closes(r)
    <3>1. session'[s].close = session[s].close
      BY <1>0, <2>1, <2>2, <2>6, BecomesEffect DEF BeginClose, Advanced
    <3> QED BY <1>4, <2>1, <2>3, <2>6, <3>1
  <2> QED BY <2>4, <2>5, <2>6
<1>9. CASE SupCloses(g)
  <2> DEFINE t == sup[g].session
  <2>1. PICK r \in CloseStepOf(session[t]) :
           /\ Becomes(t, r)
           /\ sup'[g].pc \in IF TearingDown(r) THEN {"closing"} ELSE {"retry", "done"}
    BY <1>9 DEF SupCloses
  <2>2. t \in Sessions /\ g \in SupClosers(t) /\ sup'[g].session = t
    BY <1>0, <1>9 DEF SupCloses, SupClosers
  <2>3. CASE s = t
    <3>1. SupClosers(s) = {g} /\ WatchClosers(s) = {} /\ CallClosers(s) = {}
      BY <1>0, <2>2, <2>3, CloserIsAlone
    <3>2. TearingDown(session'[s]) <=> TearingDown(r)
      BY <1>0, <2>1, <2>2, <2>3, BecomesEffect
    <3>3. SupClosers(s)' = IF TearingDown(r) THEN {g} ELSE {}
      BY <1>2, <2>1, <2>2, <2>3, <3>1
    <3> QED BY <1>1, <3>1, <3>2, <3>3 DEF Driven, OneOf, NoneOf
  <2>4. CASE s # t
    <3>1. g \notin SupClosers(s)
      BY <2>4 DEF SupClosers
    <3> QED BY <1>0, <1>4, <2>1, <2>2, <2>4, <3>1, BecomesEffect
  <2> QED BY <2>3, <2>4
<1> QED BY <1>5, <1>6, <1>7, <1>8, <1>9, SupervisorKind

\* async_close of _session from outside: nobody was closing it, and now it is
\* being torn down.
LEMMA CloseBegins ==
    ASSUME StreamInv, current \in Sessions, Closes(session[current]),
           Becomes(current, BeginClose(session[current]))
    PROVE  /\ TearingDown(session'[current])
           /\ NoneOf(SupClosers(current), WatchClosers(current), CallClosers(current))
           /\ \A s \in Sessions \ {current} : session'[s] = session[s]
<1>1. CloseFromOutside(current) /\ SessionTypeOK /\ Sound(session[current]) /\ Driven(current)
  BY CurrentCanBeClosed DEF StreamInv, SessionInv, CloserInv
<1>2. ~TearingDown(session[current])
  BY DEF Closes, TearingDown
<1>3. TearingDown(BeginClose(session[current]))
  BY <1>1, BeginCloseReleases DEF CloseFromOutside, Starting, Sound, TearingDown
<1> QED BY <1>1, <1>2, <1>3, BecomesEffect DEF Driven

\* The same for a watcher that closes a stalled session.
LEMMA WatcherClosers ==
    ASSUME StreamInv, NEW g \in Gens, WatcherStep(g) PROVE CloserInv'
<1>0. /\ CloserInv /\ SessionTypeOK /\ UNCHANGED <<sup, caller>>
      /\ \A h \in Gens \ {g} : watch'[h] = watch[h]
  BY WatcherKind DEF StreamInv, SessionInv, WatchKeeps
<1>1. \A s \in Sessions : SupClosers(s)' = SupClosers(s) /\ CallClosers(s)' = CallClosers(s)
  BY <1>0 DEF SupClosers, CallClosers
<1>2. \A s \in Sessions :
         WatchClosers(s)' = (WatchClosers(s) \ {g}) \union
                            (IF watch'[g].pc = "closing" /\ watch'[g].session = s THEN {g} ELSE {})
  BY <1>0 DEF WatchClosers
<1>3. watch[g].pc = "closing" => watch[g].session \in Sessions
  BY <1>0 DEF CloserInv
<1>4. watch'[g].pc = "closing" => watch'[g].session \in Sessions
  BY <1>3, WatcherKind DEF WatchElsewhere, WatchBegins, WatchCloses
<1>5. \A h \in Gens : watch'[h].pc = "closing" => watch'[h].session \in Sessions
  BY <1>0, <1>4 DEF CloserInv
<1> SUFFICES ASSUME NEW s \in Sessions PROVE Driven(s)'
  BY <1>0, <1>5 DEF CloserInv
<1>6. ASSUME g \notin WatchClosers(s), ~(watch'[g].pc = "closing" /\ watch'[g].session = s),
             session'[s] = session[s]
      PROVE  Driven(s)'
  <2>1. WatchClosers(s)' = WatchClosers(s)
    BY <1>2, <1>6
  <2> QED BY <1>0, <1>1, <1>6, <2>1, StaysDriven
<1>7. CASE WatchElsewhere(g)
  BY <1>6, <1>7 DEF WatchElsewhere, WatchClosers
<1>8. CASE WatchBegins(g)
  <2>1. CASE s = current
    <3>1. TearingDown(session'[s]) /\ NoneOf(SupClosers(s), WatchClosers(s), CallClosers(s))
      BY <1>8, <2>1, CloseBegins DEF WatchBegins
    <3>2. WatchClosers(s)' = {g}
      BY <1>2, <1>8, <2>1, <3>1 DEF WatchBegins, NoneOf
    <3> QED BY <1>1, <3>1, <3>2 DEF Driven, OneOf, NoneOf
  <2>2. CASE s # current
    <3>1. session'[s] = session[s]
      BY <1>8, <2>2, CloseBegins DEF WatchBegins
    <3> QED BY <1>6, <1>8, <2>2, <3>1 DEF WatchBegins, WatchClosers
  <2> QED BY <2>1, <2>2
<1>9. CASE WatchCloses(g)
  <2> DEFINE t == watch[g].session
  <2>1. PICK r \in CloseStepOf(session[t]) :
           /\ Becomes(t, r)
           /\ IF TearingDown(r) THEN watch'[g].pc = "closing" /\ watch'[g].session = t
                                ELSE watch'[g].pc # "closing"
    BY <1>9 DEF WatchCloses
  <2>2. t \in Sessions /\ g \in WatchClosers(t)
    BY <1>3, <1>9 DEF WatchCloses, WatchClosers
  <2>3. CASE s = t
    <3>1. SupClosers(s) = {} /\ WatchClosers(s) = {g} /\ CallClosers(s) = {}
      BY <1>0, <2>2, <2>3, CloserIsAlone
    <3>2. TearingDown(session'[s]) <=> TearingDown(r)
      BY <1>0, <2>1, <2>2, <2>3, BecomesEffect
    <3>3. WatchClosers(s)' = IF TearingDown(r) THEN {g} ELSE {}
      BY <1>2, <2>1, <2>3, <3>1
    <3> QED BY <1>1, <3>1, <3>2, <3>3 DEF Driven, OneOf, NoneOf
  <2>4. CASE s # t
    <3>1. g \notin WatchClosers(s)
      BY <2>4 DEF WatchClosers
    <3> QED BY <1>0, <1>6, <2>1, <2>2, <2>4, <3>1, BecomesEffect
  <2> QED BY <2>3, <2>4
<1> QED BY <1>7, <1>8, <1>9, WatcherKind

\* The same for async_stop.
LEMMA CallerClosers ==
    ASSUME StreamInv, NEW c \in Callers, Start(c) \/ Stop(c) \/ StopStep(c) PROVE CloserInv'
<1>0. /\ CloserInv /\ SessionTypeOK /\ CallKeeps(c)
      /\ \A d \in Callers \ {c} : caller'[d] = caller[d]
  BY CallerKind DEF StreamInv, SessionInv, CallKeeps
<1>1. \A s \in Sessions : SupClosers(s)' = SupClosers(s) /\ WatchClosers(s)' = WatchClosers(s)
  BY <1>0 DEF SupClosers, WatchClosers, CallKeeps
<1>2. \A s \in Sessions :
         CallClosers(s)' = (CallClosers(s) \ {c}) \union
                           (IF caller'[c].pc = "closing" /\ caller'[c].session = s THEN {c} ELSE {})
  BY <1>0 DEF CallClosers
<1>3. caller[c].pc = "closing" => caller[c].session \in Sessions
  BY <1>0 DEF CloserInv
<1>4. caller'[c].pc = "closing" => caller'[c].session \in Sessions
  BY <1>3, CallerKind DEF CallElsewhere, CallBegins, CallCloses
<1>5. \A d \in Callers : caller'[d].pc = "closing" => caller'[d].session \in Sessions
  BY <1>0, <1>4 DEF CloserInv
<1>6. \A g \in Gens : watch'[g].pc = "closing" => watch'[g].session \in Sessions
  BY <1>0 DEF CloserInv, CallKeeps
<1> SUFFICES ASSUME NEW s \in Sessions PROVE Driven(s)'
  BY <1>5, <1>6 DEF CloserInv
<1>7. ASSUME c \notin CallClosers(s), ~(caller'[c].pc = "closing" /\ caller'[c].session = s),
             session'[s] = session[s]
      PROVE  Driven(s)'
  <2>1. CallClosers(s)' = CallClosers(s)
    BY <1>2, <1>7
  <2> QED BY <1>0, <1>1, <1>7, <2>1, StaysDriven
<1>8. CASE CallElsewhere(c)
  BY <1>7, <1>8 DEF CallElsewhere, CallClosers
<1>9. CASE CallBegins(c)
  <2>1. CASE s = current
    <3>1. TearingDown(session'[s]) /\ NoneOf(SupClosers(s), WatchClosers(s), CallClosers(s))
      BY <1>9, <2>1, CloseBegins DEF CallBegins
    <3>2. CallClosers(s)' = {c}
      BY <1>2, <1>9, <2>1, <3>1 DEF CallBegins, NoneOf
    <3> QED BY <1>1, <3>1, <3>2 DEF Driven, OneOf, NoneOf
  <2>2. CASE s # current
    <3>1. session'[s] = session[s]
      BY <1>9, <2>2, CloseBegins DEF CallBegins
    <3> QED BY <1>7, <1>9, <2>2, <3>1 DEF CallBegins, CallClosers
  <2> QED BY <2>1, <2>2
<1>10. CASE CallCloses(c)
  <2> DEFINE t == caller[c].session
  <2>1. PICK r \in CloseStepOf(session[t]) :
           /\ Becomes(t, r)
           /\ IF TearingDown(r) THEN caller'[c].pc = "closing" /\ caller'[c].session = t
                                ELSE caller'[c].pc # "closing"
    BY <1>10 DEF CallCloses
  <2>2. t \in Sessions /\ c \in CallClosers(t)
    BY <1>3, <1>10 DEF CallCloses, CallClosers
  <2>3. CASE s = t
    <3>1. SupClosers(s) = {} /\ WatchClosers(s) = {} /\ CallClosers(s) = {c}
      BY <1>0, <2>2, <2>3, CloserIsAlone
    <3>2. TearingDown(session'[s]) <=> TearingDown(r)
      BY <1>0, <2>1, <2>2, <2>3, BecomesEffect
    <3>3. CallClosers(s)' = IF TearingDown(r) THEN {c} ELSE {}
      BY <1>2, <2>1, <2>3, <3>1
    <3> QED BY <1>1, <3>1, <3>2, <3>3 DEF Driven, OneOf, NoneOf
  <2>4. CASE s # t
    <3>1. c \notin CallClosers(s)
      BY <2>4 DEF CallClosers
    <3> QED BY <1>0, <1>7, <2>1, <2>2, <2>4, <3>1, BecomesEffect
  <2> QED BY <2>3, <2>4
<1> QED BY <1>8, <1>9, <1>10, CallerKind

-----------------------------------------------------------------------------
(* The invariant.                                                           *)

\* A callback, and time, leave every session with its owner and its closer.
LEMMA CallbackStays ==
    ASSUME StreamInv, UNCHANGED <<sup, watch, caller, current>>,
           UNCHANGED session \/ \E s \in Sessions : Callback(s) \/ OnMediaRecord(s)
    PROVE  OwnerInv' /\ CloserInv'
<1>0. SessionInv /\ OwnerInv /\ CloserInv
  BY DEF StreamInv
<1>1. \A s \in Sessions : session'[s].phase = session[s].phase /\ session'[s].close = session[s].close
  <2>1. CASE UNCHANGED session
    BY <2>1
  <2>2. ASSUME NEW s \in Sessions, Callback(s) \/ OnMediaRecord(s)
        PROVE  \A t \in Sessions : session'[t].phase = session[t].phase /\ session'[t].close = session[t].close
    <3>1. PICK q : Becomes(s, q) /\ CalledBack(session[s], q)
      BY <1>0, <2>2, CallbackEffect DEF SessionInv
    <3> QED BY <1>0, <3>1, BecomesEffect DEF SessionInv, CalledBack
  <2> QED BY <2>1, <2>2
<1>2. OwnerInv'
  BY <1>0, <1>1, OwnersStay DEF Running
<1>3. \A s \in Sessions : /\ SupClosers(s)' = SupClosers(s) /\ WatchClosers(s)' = WatchClosers(s)
                          /\ CallClosers(s)' = CallClosers(s)
  BY DEF SupClosers, WatchClosers, CallClosers
<1>4. \A s \in Sessions : Driven(s)'
  BY <1>0, <1>1, <1>3, StaysDriven DEF TearingDown
<1> QED BY <1>0, <1>2, <1>4 DEF CloserInv

\* A new stream has no tasks and no sessions.
LEMMA StreamInitInv == Init => StreamInv
<1> SUFFICES ASSUME Init PROVE StreamInv
  OBVIOUS
<1>1. SessionInv
  BY SessionInitInv DEF Init
<1>2. \A s \in Sessions : session[s].phase = "new" /\ session[s].close = "open"
  BY DEF Init, SessionInit, Unborn
<1>3. OwnerInv
  BY <1>2 DEF Init, OwnerInv, Running, Starting, Runs
<1>4. CloserInv
  <2>1. \A s \in Sessions : SupClosers(s) = {} /\ WatchClosers(s) = {} /\ CallClosers(s) = {}
    BY DEF Init, SupClosers, WatchClosers, CallClosers
  <2> QED BY <1>2, <2>1 DEF Init, CloserInv, Driven, NoneOf, TearingDown
<1>5. PairInv /\ BusyInv
  BY DEF Init, PairInv, BusyInv
<1>6. TypeOK
  <2>1. 0 \in 0..MaxSessions /\ 0 \in 0..MaxStarts /\ 0 \in 0..BackoffSteps
    BY StreamAssumption
  <2>2. sup \in [Gens -> SupervisorState]
    BY <2>1 DEF Init, SupervisorState
  <2>3. watch \in [Gens -> WatcherState]
    BY <2>1 DEF Init, WatcherState
  <2>4. caller \in [Callers -> CallerState]
    BY <2>1 DEF Init, CallerState
  <2> QED BY <1>1, <2>1, <2>2, <2>3, <2>4 DEF Init, TypeOK, SessionInv
<1> QED BY <1>1, <1>3, <1>4, <1>5, <1>6 DEF StreamInv

\* The invariant is inductive.
LEMMA StreamStepInv == ASSUME StreamInv, [Next]_vars PROVE StreamInv'
<1>0. TypeOK /\ SessionInv /\ OwnerInv /\ CloserInv /\ PairInv /\ BusyInv
  BY DEF StreamInv
<1>1. SessionInv' /\ SessionTypeOK'
  <2>1. SessionInv'
    BY <1>0, StreamStepRunsSessions, SessionStepInv
  <2> QED BY <2>1 DEF SessionInv
<1>2. ASSUME NEW g \in Gens, SupervisorStep(g) PROVE StreamInv'
  <2>1. SupKeeps(g)
    BY <1>2, SupervisorKind
  <2>2. current' \in 0..MaxSessions
    <3>1. 0 \in 0..MaxSessions /\ Sessions \subseteq 0..MaxSessions /\ current \in 0..MaxSessions
      BY <1>0, StreamAssumption DEF TypeOK
    <3> QED BY <1>2, <3>1, SupervisorKind DEF SupElsewhere, SupBegins, SupGoesOn, SupLeaves, SupCloses
  <2>3. TypeOK'
    BY <1>0, <1>1, <2>1, <2>2 DEF SupKeeps, TypeOK
  <2>4. PairInv' /\ BusyInv'
    BY <1>0, <2>1 DEF SupKeeps, PairInv
  <2> QED BY <1>1, <1>2, <2>3, <2>4, SupervisorOwners, SupervisorClosers DEF StreamInv
<1>3. ASSUME NEW g \in Gens, WatcherStep(g) PROVE StreamInv'
  <2>1. WatchKeeps(g) /\ Live(watch[g])
    BY <1>3, WatcherKind
  <2>2. TypeOK' /\ BusyInv'
    BY <1>0, <1>1, <2>1 DEF WatchKeeps, TypeOK, BusyInv
  <2>3. PairInv'
    BY <1>0, <2>1 DEF WatchKeeps, PairInv, Live
  <2> QED BY <1>1, <1>3, <2>2, <2>3, WatcherOwners, WatcherClosers DEF StreamInv
<1>4. ASSUME NEW c \in Callers, Start(c) \/ Stop(c) \/ StopStep(c) PROVE StreamInv'
  <2>1. CallKeeps(c)
    BY <1>4, CallerKind
  <2>2. current' \in 0..MaxSessions
    <3>1. 0 \in 0..MaxSessions
      BY StreamAssumption
    <3> QED BY <1>0, <2>1, <3>1 DEF CallKeeps, TypeOK
  <2>3. TypeOK' /\ BusyInv'
    BY <1>0, <1>1, <2>1, <2>2 DEF CallKeeps, TypeOK, BusyInv
  <2>4. PairInv'
    BY <1>0, <2>1 DEF CallKeeps, PairInv
  <2> QED BY <1>1, <1>4, <2>3, <2>4, CallerOwners, CallerClosers DEF StreamInv
<1>5. ASSUME NEW s \in Sessions, (Callback(s) /\ UNCHANGED streamVars) \/ OnFrame(s) PROVE StreamInv'
  <2>1. /\ Callback(s) \/ OnMediaRecord(s)
        /\ UNCHANGED <<sup, watch, caller, supervisorTask, stallTask, stopRequested, current,
                       busyRefusals, busyInARow>>
        /\ lastFrameAt' \in {"never", "recent", "stale"} /\ firstFrame' \in BOOLEAN
    BY <1>0, <1>5 DEF OnFrame, streamVars, TypeOK
  <2>2. TypeOK' /\ BusyInv' /\ PairInv'
    BY <1>0, <1>1, <2>1 DEF TypeOK, BusyInv, PairInv
  <2> QED BY <1>1, <2>1, <2>2, CallbackStays DEF StreamInv
<1>6. CASE TimePasses \/ UNCHANGED vars
  <2>1. /\ UNCHANGED <<session, sup, watch, caller, supervisorTask, stallTask, stopRequested,
                       current, firstFrame, busyRefusals, busyInARow>>
        /\ lastFrameAt' \in {"never", "recent", "stale"}
    BY <1>0, <1>6 DEF TimePasses, vars, streamVars, TypeOK
  <2>2. TypeOK' /\ BusyInv' /\ PairInv'
    BY <1>0, <1>1, <2>1 DEF TypeOK, BusyInv, PairInv
  <2> QED BY <1>1, <2>1, <2>2, CallbackStays DEF StreamInv
<1> QED BY <1>2, <1>3, <1>4, <1>5, <1>6 DEF Next

\* Every state of the stream satisfies the inductive invariant, for any number of
\* sessions, of starts and of callers.
THEOREM StreamInvariant == Spec => []StreamInv
BY StreamInitInv, StreamStepInv, PTL DEF Spec

\* Each variable of CameraStream keeps its type; the backoff stays within its cap.
THEOREM StreamTypeCorrect == Spec => []TypeOK
<1>1. StreamInv => TypeOK
  BY DEF StreamInv
<1> QED BY <1>1, StreamInvariant, PTL

\* Whatever the supervisor, the watchers and the callers do to a session is a
\* step the life cycle of a session allows: what SessionLifecycle shows of a
\* session holds of every session of a stream.
THEOREM StreamRunsSessions == Spec => RunsSessions
<1>1. Init => SessionInit
  BY DEF Init
<1> QED BY <1>1, StreamInvariant, StreamStepRunsSessions, PTL DEF Spec, RunsSessions, SessionSpec

\* A session of the stream that was torn down to the end holds nothing.
THEOREM StreamReleases == Spec => []TornDownHoldsNothing
BY StreamRunsSessions, TeardownReleases, PTL DEF RunsSessions

\* However many tasks call async_close, one of them carries the teardown out.
THEOREM TeardownHasOneTask == Spec => []ClosedByOneTask
<1>1. StreamInv => ClosedByOneTask
  <2> SUFFICES ASSUME StreamInv, NEW s \in Sessions
               PROVE  Cardinality(SupClosers(s)) + Cardinality(WatchClosers(s))
                      + Cardinality(CallClosers(s)) = IF TearingDown(session[s]) THEN 1 ELSE 0
    BY DEF ClosedByOneTask, SupClosers, WatchClosers, CallClosers, TearingDown
  <2>1. Cardinality({}) = 0 /\ \A A : (\E x \in A : A = {x}) => Cardinality(A) = 1
    BY FS_EmptySet, FS_Singleton
  <2>2. CASE TearingDown(session[s])
    <3>1. OneOf(SupClosers(s), WatchClosers(s), CallClosers(s))
      BY <2>2 DEF StreamInv, CloserInv, Driven
    <3>2. \/ /\ Cardinality(SupClosers(s)) = 1 /\ Cardinality(WatchClosers(s)) = 0
             /\ Cardinality(CallClosers(s)) = 0
          \/ /\ Cardinality(SupClosers(s)) = 0 /\ Cardinality(WatchClosers(s)) = 1
             /\ Cardinality(CallClosers(s)) = 0
          \/ /\ Cardinality(SupClosers(s)) = 0 /\ Cardinality(WatchClosers(s)) = 0
             /\ Cardinality(CallClosers(s)) = 1
      BY <2>1, <3>1, Zenon DEF OneOf
    <3> QED BY <2>2, <3>2
  <2>3. CASE ~TearingDown(session[s])
    BY <2>1, <2>3 DEF StreamInv, CloserInv, Driven, NoneOf
  <2> QED BY <2>2, <2>3
<1> QED BY <1>1, StreamInvariant, PTL

\* BusyLimit refusals in a row raise needs_power_cycle, whatever stops and starts
\* there were between them.
THEOREM BusyRunsReported == Spec => []BusyRunIsReported
<1>1. StreamInv => BusyRunIsReported
  BY StreamAssumption DEF StreamInv, TypeOK, BusyInv, BusyRunIsReported, needs_power_cycle
<1> QED BY <1>1, StreamInvariant, PTL

-----------------------------------------------------------------------------
(* One caller.  Two callers that stop and start at once can each have a     *)
(* pair of tasks alive: the second async_stop clears _supervisor_task and   *)
(* _stall_task after the first caller has set them again.                   *)

\* The only supervisor that can move is _supervisor_task.
LEMMA SupervisorSole ==
    ASSUME StreamInv, SoleInv, NEW g \in Gens, SupervisorStep(g) PROVE SoleInv'
<1>1. /\ \A h \in Gens \ {g} : sup'[h] = sup[h]
      /\ UNCHANGED <<watch, caller, supervisorTask, stallTask>>
      /\ g = supervisorTask /\ Live(sup[g])
  BY SupervisorKind DEF SupKeeps, SoleInv
<1>2. \A c \in Callers : caller[c].pc # "stall"
  BY <1>1 DEF SoleInv
<1>3. \A h \in Gens \ {g} : sup'[h].pc # "session"
  BY <1>1 DEF SoleInv, Live
<1>4. sup'[g].pc = "session" => current' = sup'[g].session
  BY SupervisorKind DEF SoleInv, SupElsewhere, SupBegins, SupGoesOn, SupLeaves, SupCloses, Runs
<1> QED BY <1>1, <1>2, <1>3, <1>4 DEF SoleInv, Live

\* The only watcher that can move is _stall_task.
LEMMA WatcherSole ==
    ASSUME StreamInv, SoleInv, NEW g \in Gens, WatcherStep(g) PROVE SoleInv'
<1>1. /\ \A h \in Gens \ {g} : watch'[h] = watch[h]
      /\ UNCHANGED <<sup, caller, supervisorTask, stallTask, current>>
      /\ g = supervisorTask
  BY WatcherKind DEF WatchKeeps, SoleInv
<1> QED BY <1>1 DEF SoleInv, Live

\* The one caller starts a pair of tasks when there is none, and forgets it once
\* both have ended.
LEMMA CallerSole ==
    ASSUME OneCaller, StreamInv, SoleInv, NEW c \in Callers, Start(c) \/ Stop(c) \/ StopStep(c)
    PROVE  SoleInv'
<1>0. TypeOK /\ CallKeeps(c) /\ \A d \in Callers : d = c
  BY CallerKind DEF StreamInv, OneCaller
<1>1. CASE Start(c)
  <2>1. PICK g \in Gens :
           /\ supervisorTask' = g /\ stallTask' = g
           /\ sup' = [sup EXCEPT ![g].pc = "spawned"] /\ watch' = [watch EXCEPT ![g].pc = "spawned"]
    BY <1>1 DEF Start
  <2>2. \A h \in Gens : ~Live(sup[h]) /\ ~Live(watch[h])
    BY <1>1, StreamAssumption DEF Start, SoleInv, Gens
  <2>3. /\ \A h \in Gens \ {g} : sup'[h] = sup[h] /\ watch'[h] = watch[h]
        /\ sup'[g].pc = "spawned"
    BY <1>0, <2>1 DEF TypeOK, SupervisorState, WatcherState
  <2>4. \A d \in Callers : caller'[d].pc = "idle"
    BY <1>0, <1>1 DEF Start
  <2>5. \A h \in Gens : sup'[h].pc # "session"
    BY <2>2, <2>3 DEF Live
  <2> QED BY <2>1, <2>2, <2>3, <2>4, <2>5 DEF SoleInv, Live
<1>2. CASE Stop(c)
  <2>1. \A h \in Gens : /\ sup'[h].pc = sup[h].pc /\ sup'[h].session = sup[h].session
                        /\ watch'[h].pc = watch[h].pc
    BY <1>0, <1>2 DEF Stop, TypeOK, SupervisorState, WatcherState
  <2>2. /\ caller'[c].pc = "supervisor" /\ caller'[c].sup = supervisorTask
        /\ caller'[c].stall = stallTask
    BY <1>0, <1>2 DEF Stop, TypeOK, CallerState
  <2>3. supervisorTask # 0 /\ UNCHANGED <<supervisorTask, stallTask, current>>
    BY <1>2 DEF Stop
  <2> QED BY <1>0, <2>1, <2>2, <2>3 DEF SoleInv, Live
<1>3. CASE StopAwaitSupervisor(c)
  <2>1. /\ caller'[c].pc = "stall" /\ caller'[c].sup = caller[c].sup
        /\ caller'[c].stall = caller[c].stall
    BY <1>0, <1>3 DEF StopAwaitSupervisor, TypeOK, CallerState
  <2>2. caller[c].pc = "supervisor" /\ ~Live(sup[supervisorTask])
    BY <1>3 DEF StopAwaitSupervisor, SoleInv
  <2>3. UNCHANGED <<sup, watch, supervisorTask, stallTask, current>>
    BY <1>3 DEF StopAwaitSupervisor
  <2> QED BY <1>0, <2>1, <2>2, <2>3 DEF SoleInv, Live
<1>4. CASE StopAwaitStall(c)
  <2>1. /\ caller[c].pc = "stall" /\ ~Live(watch[supervisorTask]) /\ ~Live(sup[supervisorTask])
        /\ supervisorTask' = 0 /\ stallTask' = 0 /\ UNCHANGED <<sup, watch>>
    BY <1>4 DEF StopAwaitStall, SoleInv
  <2>2. \A g \in Gens : ~Live(sup[g]) /\ ~Live(watch[g]) /\ sup[g].pc # "session"
    BY <2>1 DEF SoleInv, Live
  <2>3. caller'[c].pc \in {"closing", "idle"}
    BY <1>0, <1>4 DEF StopAwaitStall, Stopped, TypeOK, CallerState
  <2> QED BY <1>0, <2>1, <2>2, <2>3 DEF SoleInv, Live
<1>5. CASE StopCloseSession(c)
  <2>1. caller[c].pc = "closing" /\ UNCHANGED <<sup, watch, supervisorTask, stallTask, current>>
    BY <1>5 DEF StopCloseSession
  <2>2. caller'[c].pc \in {"closing", "idle"}
    <3>1. PICK r : CASE r.close = "done" -> Stopped(c)
                     [] r.close = "aborted" ->
                           caller' = [caller EXCEPT ![c] = [pc |-> "idle", sup |-> 0, stall |-> 0,
                                                            session |-> 0]]
                     [] OTHER -> UNCHANGED caller
      BY <1>5 DEF StopCloseSession
    <3> QED BY <1>0, <2>1, <3>1 DEF Stopped, TypeOK
  <2> QED BY <1>0, <2>1, <2>2 DEF SoleInv, Live
<1> QED BY <1>1, <1>2, <1>3, <1>4, <1>5 DEF StopStep

\* The invariant of a stream with one caller is inductive.
LEMMA SoleStepInv == ASSUME OneCaller, StreamInv, SoleInv, [Next]_vars PROVE SoleInv'
<1>1. CASE UNCHANGED <<sup, watch, caller, supervisorTask, stallTask, current>>
  BY <1>1 DEF SoleInv, Live
<1>2. ASSUME NEW s \in Sessions, (Callback(s) /\ UNCHANGED streamVars) \/ OnFrame(s) PROVE SoleInv'
  BY <1>1, <1>2 DEF streamVars, OnFrame
<1>3. CASE TimePasses \/ UNCHANGED vars
  BY <1>1, <1>3 DEF TimePasses, vars, streamVars
<1> QED BY <1>2, <1>3, SupervisorSole, WatcherSole, CallerSole DEF Next

\* With one caller, the only live tasks are the ones the stream knows of.
THEOREM SoleInvariant == ASSUME OneCaller PROVE Spec => [](StreamInv /\ SoleInv)
<1>1. Init => SoleInv
  BY DEF Init, SoleInv, Live
<1>2. StreamInv /\ SoleInv /\ [Next]_vars => SoleInv'
  BY SoleStepInv
<1> QED BY <1>1, <1>2, StreamInvariant, PTL DEF Spec

\* With one caller, the supervisor and the watcher have ended when async_stop has
\* returned, also when the cancellation it sent them was swallowed.
THEOREM StopEndsTasks == ASSUME OneCaller PROVE Spec => []StopLeavesNoTask
<1>1. SoleInv => StopLeavesNoTask
  BY StreamAssumption DEF SoleInv, StopLeavesNoTask, Gens
<1> QED BY <1>1, SoleInvariant, PTL

\* With one caller, the camera is asked for one session at a time.
THEOREM SessionsTakeTurns == ASSUME OneCaller PROVE Spec => []OneSessionAtATime
<1>1. StreamInv /\ SoleInv => OneSessionAtATime
  <2> SUFFICES ASSUME StreamInv, SoleInv, NEW s \in Sessions, NEW t \in Sessions,
                      session[s].phase \notin {"new", "over"}, session[t].phase \notin {"new", "over"}
               PROVE  s = t
    BY DEF OneSessionAtATime
  <2>1. Running(session[s]) /\ Running(session[t])
    BY DEF StreamInv, TypeOK, SessionTypeOK, SessionState, Running
  <2>2. PICK g \in Gens, h \in Gens : Runs(g, s) /\ Runs(h, t)
    BY <2>1 DEF StreamInv, OwnerInv
  <2>3. g = supervisorTask /\ h = supervisorTask
    BY <2>2 DEF SoleInv, Live, Runs
  <2> QED BY <2>2, <2>3 DEF Runs
<1> QED BY <1>1, SoleInvariant, PTL

\* With one caller, _session is what the supervisor runs, so the watcher and
\* async_stop close that and nothing else.
THEOREM CurrentIsSupervised == ASSUME OneCaller PROVE Spec => []CurrentIsRunning
<1>1. StreamInv /\ SoleInv => CurrentIsRunning
  <2> SUFFICES ASSUME StreamInv, SoleInv, NEW s \in Sessions
               PROVE  current = s <=> \E g \in Gens : sup[g].pc = "session" /\ sup[g].session = s
    BY DEF CurrentIsRunning
  <2>1. s # 0
    BY StreamAssumption
  <2> QED BY <2>1 DEF StreamInv, OwnerInv, SoleInv, Runs
<1> QED BY <1>1, SoleInvariant, PTL

-----------------------------------------------------------------------------
(* What a stop comes to, for any number of callers.                         *)

\* Both tasks of the start g have been spawned.
Spawned(g) == sup[g].pc # "none" /\ watch[g].pc # "none"

\* An async_stop keeps the pair of tasks it cancelled, whatever other callers make
\* of _supervisor_task and _stall_task meanwhile, and passes each of its two waits
\* only when the task has ended.
StopInv ==
    /\ stallTask = supervisorTask /\ (supervisorTask # 0 => Spawned(supervisorTask))
    /\ \A c \in Callers : caller[c].pc # "idle" =>
          caller[c].sup \in Gens /\ caller[c].stall = caller[c].sup /\ Spawned(caller[c].sup)
    /\ \A c \in Callers : caller[c].pc \in {"stall", "closing"} => sup[caller[c].sup].pc = "done"
    /\ \A c \in Callers : caller[c].pc = "closing" => watch[caller[c].sup].pc = "done"

\* A task that was spawned stays spawned, and one that has ended stays ended.
KeepsTasks ==
    \A g \in Gens :
        /\ sup[g].pc # "none" => sup'[g].pc # "none"
        /\ sup[g].pc = "done" => sup'[g].pc = "done"
        /\ watch[g].pc # "none" => watch'[g].pc # "none"
        /\ watch[g].pc = "done" => watch'[g].pc = "done"

\* A watcher is never back where it was before it was spawned.
LEMMA WatcherStaysSpawned ==
    ASSUME TypeOK, NEW g \in Gens, WatcherStep(g)
    PROVE  watch'[g].pc # "none"
<1>0. watch \in [Gens -> WatcherState] /\ watch[g] \in WatcherState
  BY DEF TypeOK
<1>1. CASE Rest(g)
  <2>1. PICK pc \in {"done", "sleep"} : watch' = [watch EXCEPT ![g].pc = pc, ![g].session = 0]
    BY <1>1 DEF Rest, Rested
  <2> QED BY <1>0, <2>1 DEF WatcherState
<1>2. CASE WatchForStalls(g)
  BY <1>1, <1>2 DEF WatchForStalls
<1>3. CASE CheckForStall(g)
  <2>1. Rest(g) \/ watch' = [watch EXCEPT ![g].pc = "closing", ![g].session = current]
    BY <1>3 DEF CheckForStall
  <2>2. CASE watch' = [watch EXCEPT ![g].pc = "closing", ![g].session = current]
    BY <1>0, <2>2 DEF WatcherState
  <2> QED BY <1>1, <2>1, <2>2
<1>4. CASE CloseStalled(g)
  <2>1. watch[g].pc = "closing" /\ (Rest(g) \/ watch' = [watch EXCEPT ![g].pc = "done"] \/ UNCHANGED watch)
    BY <1>4 DEF CloseStalled
  <2>2. CASE watch' = [watch EXCEPT ![g].pc = "done"]
    BY <1>0, <2>2 DEF WatcherState
  <2>3. CASE UNCHANGED watch
    BY <2>1, <2>3
  <2> QED BY <1>1, <2>1, <2>2, <2>3
<1>5. CASE CancelWatcher(g)
  <2>1. PICK pc \in {"done", "sleep", "closing"} : watch' = [watch EXCEPT ![g].pc = pc, ![g].cancel = FALSE]
    <3>1. CASE watch[g].pc \in {"spawned", "sleep"}
      BY <1>5, <3>1 DEF CancelWatcher
    <3>2. CASE watch[g].pc = "closing"
      BY <1>5, <3>2 DEF CancelWatcher, Rested
    <3> QED BY <1>5, <3>1, <3>2 DEF CancelWatcher
  <2> QED BY <1>0, <2>1 DEF WatcherState
<1> QED BY <1>2, <1>3, <1>4, <1>5 DEF WatcherStep

\* Every step keeps the tasks in this sense.
LEMMA TasksAreKept == ASSUME StreamInv, [Next]_vars PROVE KeepsTasks
<1>1. CASE UNCHANGED <<sup, watch>>
  BY <1>1 DEF KeepsTasks
<1>2. ASSUME NEW g \in Gens, SupervisorStep(g) PROVE KeepsTasks
  BY <1>2, SupervisorKind DEF SupKeeps, KeepsTasks, Live
<1>3. ASSUME NEW g \in Gens, WatcherStep(g) PROVE KeepsTasks
  <2>1. TypeOK
    BY DEF StreamInv
  <2> QED BY <1>3, <2>1, WatcherKind, WatcherStaysSpawned DEF WatchKeeps, KeepsTasks, Live
<1>4. ASSUME NEW c \in Callers, Start(c) \/ Stop(c) \/ StopStep(c) PROVE KeepsTasks
  <2>1. CallKeeps(c)
    BY <1>4, CallerKind
  <2>2. \A g \in Gens : watch'[g].pc # watch[g].pc => watch[g].pc = "none" /\ watch'[g].pc = "spawned"
    <3>1. CASE Start(c)
      <4>1. PICK g \in Gens : sup[g].pc = "none" /\ watch' = [watch EXCEPT ![g].pc = "spawned"]
        BY <3>1 DEF Start
      <4>2. watch[g].pc = "none"
        BY <4>1 DEF StreamInv, PairInv
      <4> QED BY <2>1, <4>1, <4>2 DEF CallKeeps, StreamInv, TypeOK
    <3>2. CASE Stop(c)
      BY <3>2 DEF Stop, StreamInv, TypeOK, WatcherState
    <3>3. CASE StopStep(c)
      BY <3>3 DEF StopStep, StopAwaitSupervisor, StopAwaitStall, StopCloseSession
    <3> QED BY <1>4, <3>1, <3>2, <3>3
  <2> QED BY <2>1, <2>2 DEF CallKeeps, KeepsTasks
<1>5. ASSUME NEW s \in Sessions, (Callback(s) /\ UNCHANGED streamVars) \/ OnFrame(s) PROVE KeepsTasks
  BY <1>1, <1>5 DEF streamVars, OnFrame
<1>6. CASE TimePasses \/ UNCHANGED vars
  BY <1>1, <1>6 DEF TimePasses, vars, streamVars
<1> QED BY <1>2, <1>3, <1>4, <1>5, <1>6 DEF Next

\* Where a caller is after its step.
CallMoves(c) ==
    \/ caller'[c] = caller[c] /\ UNCHANGED <<supervisorTask, stallTask>>
    \/ /\ caller[c].pc = "idle" /\ caller'[c] = caller[c]
       /\ \E g \in Gens : supervisorTask' = g /\ stallTask' = g /\ Spawned(g)'
    \/ /\ caller[c].pc = "idle" /\ supervisorTask \in Gens /\ UNCHANGED <<supervisorTask, stallTask>>
       /\ caller'[c].pc = "supervisor" /\ caller'[c].sup = supervisorTask
       /\ caller'[c].stall = stallTask
    \/ /\ caller[c].pc = "supervisor" /\ ~Live(sup[caller[c].sup])
       /\ caller'[c].pc = "stall" /\ caller'[c].sup = caller[c].sup
       /\ caller'[c].stall = caller[c].stall /\ UNCHANGED <<supervisorTask, stallTask>>
    \/ /\ caller[c].pc = "stall" /\ ~Live(watch[caller[c].stall])
       /\ supervisorTask' = 0 /\ stallTask' = 0
       /\ \/ caller'[c].pc = "idle"
          \/ /\ caller'[c].pc = "closing" /\ caller'[c].sup = caller[c].sup
             /\ caller'[c].stall = caller[c].stall
    \/ /\ caller[c].pc = "closing" /\ caller'[c].pc = "idle"
       /\ UNCHANGED <<supervisorTask, stallTask>>

\* A caller starts a pair, asks one to stop, or passes a wait of its async_stop.
LEMMA CallerMoves ==
    ASSUME StreamInv, NEW c \in Callers, Start(c) \/ Stop(c) \/ StopStep(c)
    PROVE  CallMoves(c)
<1>0. /\ TypeOK /\ caller \in [Callers -> CallerState] /\ caller[c] \in CallerState
      /\ sup \in [Gens -> SupervisorState] /\ watch \in [Gens -> WatcherState]
  BY DEF StreamInv, TypeOK
<1>1. CASE Start(c)
  <2>1. PICK g \in Gens :
           /\ supervisorTask' = g /\ stallTask' = g
           /\ sup' = [sup EXCEPT ![g].pc = "spawned"] /\ watch' = [watch EXCEPT ![g].pc = "spawned"]
    BY <1>1 DEF Start
  <2>2. sup'[g].pc = "spawned" /\ watch'[g].pc = "spawned"
    BY <1>0, <2>1 DEF SupervisorState, WatcherState
  <2>3. caller[c].pc = "idle" /\ caller'[c] = caller[c]
    BY <1>1 DEF Start
  <2> QED BY <2>1, <2>2, <2>3 DEF CallMoves, Spawned
<1>2. CASE Stop(c)
  <2>1. /\ caller[c].pc = "idle" /\ supervisorTask # 0 /\ UNCHANGED <<supervisorTask, stallTask>>
        /\ caller' = [caller EXCEPT ![c].pc = "supervisor", ![c].sup = supervisorTask,
                                    ![c].stall = stallTask]
    BY <1>2 DEF Stop
  <2>2. supervisorTask \in Gens
    BY <1>0, <2>1, StreamAssumption DEF TypeOK, Gens
  <2>3. /\ caller'[c].pc = "supervisor" /\ caller'[c].sup = supervisorTask
        /\ caller'[c].stall = stallTask
    BY <1>0, <2>1 DEF CallerState
  <2> QED BY <2>1, <2>2, <2>3 DEF CallMoves
<1>3. CASE StopAwaitSupervisor(c)
  <2>1. /\ caller[c].pc = "supervisor" /\ ~Live(sup[caller[c].sup])
        /\ UNCHANGED <<supervisorTask, stallTask>> /\ caller' = [caller EXCEPT ![c].pc = "stall"]
    BY <1>3 DEF StopAwaitSupervisor
  <2>2. /\ caller'[c].pc = "stall" /\ caller'[c].sup = caller[c].sup
        /\ caller'[c].stall = caller[c].stall
    BY <1>0, <2>1 DEF CallerState
  <2> QED BY <2>1, <2>2 DEF CallMoves
<1> DEFINE idle == [pc |-> "idle", sup |-> 0, stall |-> 0, session |-> 0]
<1>4. ASSUME caller' = [caller EXCEPT ![c] = idle] PROVE caller'[c].pc = "idle"
  BY <1>0, <1>4
<1>5. CASE StopAwaitStall(c)
  <2>1. /\ caller[c].pc = "stall" /\ ~Live(watch[caller[c].stall])
        /\ supervisorTask' = 0 /\ stallTask' = 0
    BY <1>5 DEF StopAwaitStall
  <2>2. \/ caller' = [caller EXCEPT ![c].pc = "closing", ![c].session = current]
        \/ caller' = [caller EXCEPT ![c] = idle]
    BY <1>5 DEF StopAwaitStall, Stopped
  <2>3. CASE caller' = [caller EXCEPT ![c].pc = "closing", ![c].session = current]
    <3>1. /\ caller'[c].pc = "closing" /\ caller'[c].sup = caller[c].sup
          /\ caller'[c].stall = caller[c].stall
      BY <1>0, <2>3 DEF CallerState
    <3> QED BY <2>1, <3>1 DEF CallMoves
  <2> QED BY <1>4, <2>1, <2>2, <2>3 DEF CallMoves
<1>6. CASE StopCloseSession(c)
  <2>1. caller[c].pc = "closing" /\ UNCHANGED <<supervisorTask, stallTask>>
    BY <1>6 DEF StopCloseSession
  <2>2. caller' = [caller EXCEPT ![c] = idle] \/ UNCHANGED caller
    <3>1. PICK r : CASE r.close = "done" -> Stopped(c)
                     [] r.close = "aborted" -> caller' = [caller EXCEPT ![c] = idle]
                     [] OTHER -> UNCHANGED caller
      BY <1>6 DEF StopCloseSession
    <3> QED BY <3>1 DEF Stopped
  <2> QED BY <1>4, <2>1, <2>2 DEF CallMoves
<1> QED BY <1>1, <1>2, <1>3, <1>5, <1>6 DEF StopStep

\* StopInv is kept when the callers and the two names stay as they are.
LEMMA StopInvStays ==
    ASSUME StopInv, KeepsTasks, supervisorTask \in 0..MaxStarts,
           UNCHANGED <<caller, supervisorTask, stallTask>>
    PROVE  StopInv'
<1>1. supervisorTask # 0 => supervisorTask \in Gens
  BY StreamAssumption DEF Gens
<1> QED BY <1>1 DEF StopInv, KeepsTasks, Spawned

\* StopInv is kept by every step.
LEMMA StopInvStep == ASSUME StreamInv, StopInv, [Next]_vars PROVE StopInv'
<1>0. KeepsTasks /\ supervisorTask \in 0..MaxStarts
  BY TasksAreKept DEF StreamInv, TypeOK
<1>1. CASE UNCHANGED <<caller, supervisorTask, stallTask>>
  BY <1>0, <1>1, StopInvStays
<1>2. ASSUME NEW g \in Gens, SupervisorStep(g) \/ WatcherStep(g) PROVE StopInv'
  BY <1>1, <1>2, SupervisorKind, WatcherKind DEF SupKeeps, WatchKeeps
<1>3. ASSUME NEW c \in Callers, Start(c) \/ Stop(c) \/ StopStep(c) PROVE StopInv'
  <2>1. CallMoves(c) /\ \A d \in Callers \ {c} : caller'[d] = caller[d]
    BY <1>3, CallerMoves, CallerKind DEF CallKeeps
  <2>2. stallTask' = supervisorTask' /\ (supervisorTask' # 0 => Spawned(supervisorTask)')
    BY <1>0, <2>1, StreamAssumption DEF CallMoves, StopInv, KeepsTasks, Spawned, Gens
  <2>3. caller'[c].pc # "idle" =>
          /\ caller'[c].sup \in Gens /\ caller'[c].stall = caller'[c].sup
          /\ Spawned(caller[c].sup)'
          /\ caller'[c].pc \in {"stall", "closing"} => sup'[caller'[c].sup].pc = "done"
          /\ caller'[c].pc = "closing" => watch'[caller'[c].sup].pc = "done"
    <3>0. 0 \notin Gens
      BY StreamAssumption DEF Gens
    <3>1. CASE caller'[c] = caller[c]
      BY <1>0, <3>1 DEF StopInv, KeepsTasks, Spawned
    <3>2. CASE /\ supervisorTask \in Gens /\ caller'[c].pc = "supervisor"
               /\ caller'[c].sup = supervisorTask /\ caller'[c].stall = stallTask
      BY <1>0, <3>0, <3>2 DEF StopInv, KeepsTasks, Spawned
    <3>3. CASE /\ caller[c].pc \in {"supervisor", "stall"}
               /\ caller'[c].sup = caller[c].sup /\ caller'[c].stall = caller[c].stall
               /\ caller[c].pc = "supervisor" => ~Live(sup[caller[c].sup]) /\ caller'[c].pc = "stall"
               /\ caller[c].pc = "stall" => ~Live(watch[caller[c].stall])
      BY <1>0, <3>3 DEF StopInv, KeepsTasks, Spawned, Live
    <3> QED BY <2>1, <3>1, <3>2, <3>3 DEF CallMoves
  <2>4. \A d \in Callers \ {c} : caller'[d].pc # "idle" =>
          /\ caller'[d].sup \in Gens /\ caller'[d].stall = caller'[d].sup
          /\ Spawned(caller[d].sup)'
          /\ caller'[d].pc \in {"stall", "closing"} => sup'[caller'[d].sup].pc = "done"
          /\ caller'[d].pc = "closing" => watch'[caller'[d].sup].pc = "done"
    BY <1>0, <2>1 DEF StopInv, KeepsTasks, Spawned
  <2> QED BY <2>2, <2>3, <2>4 DEF StopInv, Spawned
<1>4. ASSUME NEW s \in Sessions, (Callback(s) /\ UNCHANGED streamVars) \/ OnFrame(s) PROVE StopInv'
  BY <1>1, <1>4 DEF streamVars, OnFrame
<1>5. CASE TimePasses \/ UNCHANGED vars
  BY <1>1, <1>5 DEF TimePasses, vars, streamVars
<1> QED BY <1>2, <1>3, <1>4, <1>5 DEF Next

\* The stream with any number of callers keeps StopInv as well.
THEOREM StopInvariant == Spec => [](StreamInv /\ StopInv)
<1>1. Init => StopInv
  BY DEF Init, StopInv
<1>2. StreamInv /\ StopInv /\ [Next]_vars => StopInv'
  BY StopInvStep
<1> QED BY <1>1, <1>2, StreamInvariant, PTL DEF Spec

\* When an async_stop returns, by its end or by an error of the teardown, the
\* supervisor and the watcher it cancelled have ended, and neither ever runs again.
EndsItsPair ==
    /\ \A c \in Callers : caller[c].pc # "idle" /\ caller'[c].pc = "idle" =>
          sup'[caller[c].sup].pc = "done" /\ watch'[caller[c].stall].pc = "done"
    /\ \A g \in Gens : sup[g].pc = "done" => sup'[g].pc = "done"
    /\ \A g \in Gens : watch[g].pc = "done" => watch'[g].pc = "done"

StopEndsItsPair == [][EndsItsPair]_vars

\* What StopLeavesNoTask says of a single caller holds, for any number of callers
\* stopping and starting at once, of the pair of tasks each of them stopped.
THEOREM StopsEndTheirPairs == Spec => StopEndsItsPair
<1>1. StreamInv /\ StopInv /\ [Next]_vars => [EndsItsPair]_vars
  <2> SUFFICES ASSUME StreamInv, StopInv, [Next]_vars PROVE EndsItsPair
    OBVIOUS
  <2>1. KeepsTasks
    BY TasksAreKept
  <2>2. ASSUME NEW c \in Callers, caller[c].pc # "idle", caller'[c].pc = "idle"
        PROVE  sup'[caller[c].sup].pc = "done" /\ watch'[caller[c].stall].pc = "done"
    <3>1. CASE Start(c) \/ Stop(c) \/ StopStep(c)
      <4>1. CallMoves(c)
        BY <3>1, CallerMoves
      <4>2. \/ caller[c].pc = "stall" /\ ~Live(watch[caller[c].stall])
            \/ caller[c].pc = "closing"
        BY <2>2, <4>1 DEF CallMoves
      <4> QED BY <2>1, <2>2, <4>2 DEF StopInv, Spawned, KeepsTasks, Live
    <3>2. CASE \E d \in Callers \ {c} : Start(d) \/ Stop(d) \/ StopStep(d)
      BY <2>2, <3>2, CallerKind DEF CallKeeps
    <3>3. CASE UNCHANGED caller
      BY <2>2, <3>3
    <3>4. CASE \E g \in Gens : SupervisorStep(g) \/ WatcherStep(g)
      BY <3>3, <3>4, SupervisorKind, WatcherKind DEF SupKeeps, WatchKeeps
    <3>5. CASE \E s \in Sessions : (Callback(s) /\ UNCHANGED streamVars) \/ OnFrame(s)
      BY <3>3, <3>5 DEF streamVars, OnFrame
    <3>6. CASE TimePasses \/ UNCHANGED vars
      BY <3>3, <3>6 DEF TimePasses, vars, streamVars
    <3> QED BY <3>1, <3>2, <3>4, <3>5, <3>6 DEF Next
  <2> QED BY <2>1, <2>2 DEF KeepsTasks, EndsItsPair
<1> QED BY <1>1, StopInvariant, PTL DEF Spec, StopEndsItsPair

\* How far a supervisor and a watcher are from their end once a stop is requested.
SupLeft(task) ==
    CASE task.pc = "spawned" -> 5 [] task.pc = "config" -> 4 [] task.pc = "session" -> 3
      [] task.pc = "closing" -> 2 [] task.pc = "retry" -> 1 [] OTHER -> 0

WatchLeft(task) ==
    CASE task.pc = "spawned" -> 3 [] task.pc = "sleep" -> 2 [] task.pc = "closing" -> 1 [] OTHER -> 0

\* While _stop_requested stands, no supervisor begins another round, also one whose
\* CancelledError was swallowed or replaced by another error, and no watcher goes
\* back to sleep: whatever await a task moves on to is nearer to its end.
WindDown ==
    stopRequested /\ stopRequested' =>
        \A g \in Gens :
            /\ sup'[g].pc # sup[g].pc => SupLeft(sup'[g]) < SupLeft(sup[g])
            /\ watch'[g].pc # watch[g].pc => WatchLeft(watch'[g]) < WatchLeft(watch[g])

TasksWindDown == [][WindDown]_vars

\* A supervisor that is not at a session.
LEMMA SupervisorLeavesLoop ==
    ASSUME StreamInv, NEW g \in Gens, SupervisorStep(g), stopRequested
    PROVE  /\ sup[g].pc \in {"spawned", "retry"} => sup'[g].pc = "done"
           /\ sup[g].pc = "config" => sup'[g].pc \in {"session", "retry", "done"}
<1>0. TypeOK /\ BusyInv /\ sup \in [Gens -> SupervisorState] /\ sup[g] \in SupervisorState
  BY DEF StreamInv, TypeOK
<1>1. CASE Supervise(g)
  <2>1. sup[g].pc = "spawned" /\ sup' = [sup EXCEPT ![g].pc = "done"]
    BY <1>1 DEF Supervise
  <2> QED BY <1>0, <2>1 DEF SupervisorState
<1>2. CASE WaitBeforeRetry(g)
  <2>1. PICK b : sup' = [sup EXCEPT ![g].pc = "done", ![g].session = 0, ![g].backoff = b]
    BY <1>2 DEF WaitBeforeRetry
  <2>2. sup[g].pc = "retry"
    BY <1>2 DEF WaitBeforeRetry
  <2> QED BY <1>0, <2>1, <2>2 DEF SupervisorState
<1>3. CASE FetchConfig(g)
  <2>1. sup[g].pc = "config"
    BY <1>3 DEF FetchConfig
  <2>2. CASE NoteOutcome(g, "failed")
    BY <1>0, <2>1, <2>2, NoteOutcomeEffect
  <2>3. CASE \E s \in Sessions : sup' = [sup EXCEPT ![g].pc = "session", ![g].session = s]
    BY <1>0, <2>1, <2>3 DEF SupervisorState
  <2> QED BY <1>3, <2>2, <2>3 DEF FetchConfig
<1>4. CASE CancelSupervisor(g)
  <2>1. CASE sup[g].pc \in {"spawned", "config", "retry"}
    <3>1. sup' = [sup EXCEPT ![g].pc = "done", ![g].cancel = FALSE]
      BY <1>4, <2>1 DEF CancelSupervisor
    <3> QED BY <1>0, <3>1 DEF SupervisorState
  <2> QED BY <2>1
<1>5. CASE RunSession(g) \/ CloseSession(g)
  BY <1>5 DEF RunSession, CloseSession
<1> QED BY <1>1, <1>2, <1>3, <1>4, <1>5 DEF SupervisorStep

\* A supervisor moves on towards its end.
LEMMA SupervisorWindsDown ==
    ASSUME StreamInv, NEW g \in Gens, SupervisorStep(g), stopRequested, sup'[g].pc # sup[g].pc
    PROVE  SupLeft(sup'[g]) < SupLeft(sup[g])
<1>1. \/ sup[g].pc \in {"spawned", "config", "retry"}
      \/ sup[g].pc = "session" /\ sup'[g].pc \in {"closing", "retry", "done"}
      \/ sup[g].pc = "closing" /\ sup'[g].pc \in {"retry", "done"}
  <2>1. Live(sup[g]) /\ sup[g] \in SupervisorState
    BY SupervisorKind DEF StreamInv, TypeOK
  <2>2. CASE SupElsewhere(g) \/ SupBegins(g)
    BY <2>1, <2>2 DEF SupElsewhere, SupBegins, Live, SupervisorState
  <2>3. CASE SupGoesOn(g)
    BY <2>3 DEF SupGoesOn
  <2>4. CASE SupLeaves(g)
    BY <2>4 DEF SupLeaves
  <2>5. CASE SupCloses(g)
    BY <2>5 DEF SupCloses
  <2> QED BY <2>2, <2>3, <2>4, <2>5, SupervisorKind
<1>2. CASE sup[g].pc \in {"spawned", "config", "retry"}
  BY <1>2, SupervisorLeavesLoop DEF SupLeft
<1>3. CASE sup[g].pc = "session" /\ sup'[g].pc \in {"closing", "retry", "done"}
  BY <1>3 DEF SupLeft
<1>4. CASE sup[g].pc = "closing" /\ sup'[g].pc \in {"retry", "done"}
  BY <1>4 DEF SupLeft
<1> QED BY <1>1, <1>2, <1>3, <1>4

\* And so does a watcher.
LEMMA WatcherWindsDown ==
    ASSUME StreamInv, NEW g \in Gens, WatcherStep(g), stopRequested, watch'[g].pc # watch[g].pc
    PROVE  WatchLeft(watch'[g]) < WatchLeft(watch[g])
<1>0. watch \in [Gens -> WatcherState] /\ watch[g] \in WatcherState
  BY DEF StreamInv, TypeOK
<1>1. ASSUME Rest(g) PROVE watch'[g].pc = "done"
  <2>1. watch' = [watch EXCEPT ![g].pc = "done", ![g].session = 0]
    BY <1>1 DEF Rest, Rested
  <2> QED BY <1>0, <2>1 DEF WatcherState
<1>2. \/ watch[g].pc \in {"spawned", "sleep", "closing"} /\ watch'[g].pc = "done"
      \/ watch[g].pc = "sleep" /\ watch'[g].pc = "closing"
  <2>1. CASE WatchForStalls(g)
    BY <1>1, <2>1 DEF WatchForStalls
  <2>2. CASE CheckForStall(g)
    <3>1. CASE watch' = [watch EXCEPT ![g].pc = "closing", ![g].session = current]
      BY <1>0, <2>2, <3>1 DEF CheckForStall, WatcherState
    <3> QED BY <1>1, <2>2, <3>1 DEF CheckForStall
  <2>3. CASE CloseStalled(g)
    <3>1. watch[g].pc = "closing" /\ (Rest(g) \/ watch' = [watch EXCEPT ![g].pc = "done"] \/ UNCHANGED watch)
      BY <2>3 DEF CloseStalled
    <3>2. CASE watch' = [watch EXCEPT ![g].pc = "done"]
      BY <1>0, <3>1, <3>2 DEF WatcherState
    <3> QED BY <1>1, <3>1, <3>2
  <2>4. CASE CancelWatcher(g)
    <3>1. CASE watch[g].pc \in {"spawned", "sleep"}
      <4>1. watch' = [watch EXCEPT ![g].pc = "done", ![g].cancel = FALSE]
        BY <2>4, <3>1 DEF CancelWatcher
      <4> QED BY <1>0, <3>1, <4>1 DEF WatcherState
    <3>2. CASE watch[g].pc = "closing"
      <4>1. PICK pc \in {"done", "closing"} : watch' = [watch EXCEPT ![g].pc = pc, ![g].cancel = FALSE]
        BY <2>4, <3>2 DEF CancelWatcher, Rested
      <4> QED BY <1>0, <3>2, <4>1 DEF WatcherState
    <3> QED BY <2>4, <3>1, <3>2 DEF CancelWatcher
  <2> QED BY <2>1, <2>2, <2>3, <2>4 DEF WatcherStep
<1> QED BY <1>2 DEF WatchLeft

\* The safety half of StopReturns, for any number of callers, starts and sessions:
\* a stream that is asked to stop winds down and nothing but an async_start, which
\* clears _stop_requested, sets it going again.
THEOREM StoppedTasksWindDown == Spec => TasksWindDown
<1>1. StreamInv /\ [Next]_vars => [WindDown]_vars
  <2> SUFFICES ASSUME StreamInv, [Next]_vars, stopRequested, stopRequested', NEW g \in Gens
               PROVE  /\ sup'[g].pc # sup[g].pc => SupLeft(sup'[g]) < SupLeft(sup[g])
                      /\ watch'[g].pc # watch[g].pc => WatchLeft(watch'[g]) < WatchLeft(watch[g])
    BY DEF WindDown
  <2>1. CASE sup'[g].pc = sup[g].pc /\ watch'[g].pc = watch[g].pc
    BY <2>1
  <2>2. ASSUME NEW h \in Gens, SupervisorStep(h)
        PROVE  sup'[g].pc # sup[g].pc => SupLeft(sup'[g]) < SupLeft(sup[g])
    BY <2>2, SupervisorKind, SupervisorWindsDown DEF SupKeeps
  <2>3. ASSUME NEW h \in Gens, SupervisorStep(h) PROVE watch'[g].pc = watch[g].pc
    BY <2>3, SupervisorKind DEF SupKeeps
  <2>4. ASSUME NEW h \in Gens, WatcherStep(h)
        PROVE  /\ sup'[g].pc = sup[g].pc
               /\ watch'[g].pc # watch[g].pc => WatchLeft(watch'[g]) < WatchLeft(watch[g])
    BY <2>4, WatcherKind, WatcherWindsDown DEF WatchKeeps
  <2>5. ASSUME NEW c \in Callers, Start(c) \/ Stop(c) \/ StopStep(c)
        PROVE  sup'[g].pc = sup[g].pc /\ watch'[g].pc = watch[g].pc
    <3>1. CASE Start(c)
      BY <3>1 DEF Start
    <3>2. CASE Stop(c)
      BY <3>2 DEF Stop, StreamInv, TypeOK, SupervisorState, WatcherState
    <3>3. CASE StopStep(c)
      BY <3>3 DEF StopStep, StopAwaitSupervisor, StopAwaitStall, StopCloseSession
    <3> QED BY <2>5, <3>1, <3>2, <3>3
  <2>6. ASSUME NEW s \in Sessions, (Callback(s) /\ UNCHANGED streamVars) \/ OnFrame(s)
        PROVE  sup'[g].pc = sup[g].pc /\ watch'[g].pc = watch[g].pc
    BY <2>6 DEF streamVars, OnFrame
  <2>7. CASE TimePasses \/ UNCHANGED vars
    BY <2>1, <2>7 DEF TimePasses, vars, streamVars
  <2> QED BY <2>1, <2>2, <2>3, <2>4, <2>5, <2>6, <2>7 DEF Next
<1> QED BY <1>1, StreamInvariant, PTL DEF Spec, TasksWindDown

\* What SessionLifecycle shows of the awaits of a session holds of every session
\* the stream runs: none of them is one it cannot leave, and async_start and
\* async_close come nearer to their ends with each of them.
THEOREM StreamSessionsMoveOn == Spec => []NeverStuck /\ EndApproaches
BY StreamRunsSessions, SessionsMoveOn, EndComesNearer, PTL DEF RunsSessions
=============================================================================
