----------------------- MODULE SessionLifecycleProofs -----------------------
(***************************************************************************)
(* A session and the tasks around it, for any number of sessions and of    *)
(* dial attempts: what a teardown leaves behind, and that no future is     *)
(* resolved twice.  Sessions do not act on each other, so the invariant is *)
(* a predicate of one record, and the lemmas say what each operator of     *)
(* StreamSession makes of a record that satisfies it.                      *)
(***************************************************************************)
EXTENDS SessionLifecycle, TLAPS

\* What the phase says of the rest: a session has its signaling client until
\* the teardown takes it, and a relay only after a dial; a teardown that began
\* before there was a relay has taken the client at once.
PhaseInv(r) ==
    /\ r.phase = "new" => r = Unborn
    /\ r.phase # "new" /\ r.close \in {"open", "relay"} => r.moto
    /\ r.relay # "none" \/ (r.moto /\ r.close # "open") => r.phase \in {"new", "video", "up", "over"}
    /\ r.trickle \/ r.phase = "new" => r.close = "open"
    /\ r.close = "open" => ~r.early

\* How far the teardown has come says what is gone, unless async_start was
\* still running when it began and may have opened it again.
CloseInv(r) ==
    ~r.early /\ r.close # "open" =>
        /\ r.phase \in {"up", "over"} /\ ~r.ice
        /\ r.close \in {"disconnect", "grace", "broker", "done"} => r.relay = "none"
        /\ r.close \in {"grace", "broker", "done"} => r.device # "held"
        /\ r.close = "done" => r.broker = "down"

\* A session that is over is still to be closed by its owner.
Tracked(r) == r \in SessionState /\ PhaseInv(r) /\ CloseInv(r)

\* Between two steps its owner has seen to that.
Sound(r) == Tracked(r) /\ (r.phase = "over" => r.close # "open")

\* A future that has a result keeps it.
FuturesKept(r, q) ==
    /\ r.answer # "pending" => q.answer = r.answer
    /\ r.video # "pending" => q.video = r.video
    /\ r.ended => q.ended

SessionInv == SessionTypeOK /\ \A s \in Sessions : Sound(session[s])

-----------------------------------------------------------------------------
(* The operators of StreamSession on one record.                            *)

\* What one step of the task that runs a session makes of it.
Advanced(r, q) ==
    /\ Tracked(q) /\ FuturesKept(r, q)
    /\ q.phase # "new" /\ q.close = r.close /\ q.early = r.early

\* Each field takes the values of its type.
LEMMA FieldTypes ==
    ASSUME NEW r \in SessionState
    PROVE  /\ \A v \in {"new", "up", "over"} \union Starting : [r EXCEPT !.phase = v] \in SessionState
           /\ \A v \in {"none", "ended", "busy", "failed", "cancelled"} : [r EXCEPT !.result = v] \in SessionState
           /\ \A v \in {"pending", "answered", "invalid", "busy", "refused", "cancelled"} : [r EXCEPT !.answer = v] \in SessionState
           /\ \A v \in BOOLEAN : [r EXCEPT !.ended = v] \in SessionState
           /\ \A v \in BOOLEAN : [r EXCEPT !.moto = v] \in SessionState
           /\ \A v \in {"down", "connected", "up", "lost"} : [r EXCEPT !.broker = v] \in SessionState
           /\ \A v \in BOOLEAN : [r EXCEPT !.ice = v] \in SessionState
           /\ \A v \in BOOLEAN : [r EXCEPT !.trickle = v] \in SessionState
           /\ \A v \in 0..DialAttempts : [r EXCEPT !.attempt = v] \in SessionState
           /\ \A v \in {"none", "up", "closing", "lost"} : [r EXCEPT !.relay = v] \in SessionState
           /\ \A v \in {"pending", "ready", "cancelled"} : [r EXCEPT !.video = v] \in SessionState
           /\ \A v \in BOOLEAN : [r EXCEPT !.handler = v] \in SessionState
           /\ \A v \in BOOLEAN : [r EXCEPT !.frames = v] \in SessionState
           /\ \A v \in {"free", "held", "unreachable"} : [r EXCEPT !.device = v] \in SessionState
           /\ \A v \in {"open", "relay", "disconnect", "grace", "broker", "done", "aborted"} : [r EXCEPT !.close = v] \in SessionState
           /\ \A v \in BOOLEAN : [r EXCEPT !.early = v] \in SessionState
<1>1. /\ \A v \in {"new", "up", "over"} \union Starting : [r EXCEPT !.phase = v] \in SessionState
      /\ \A v \in {"none", "ended", "busy", "failed", "cancelled"} : [r EXCEPT !.result = v] \in SessionState
      /\ \A v \in {"pending", "answered", "invalid", "busy", "refused", "cancelled"} : [r EXCEPT !.answer = v] \in SessionState
      /\ \A v \in BOOLEAN : [r EXCEPT !.ended = v] \in SessionState
  BY DEF SessionState
<1>2. /\ \A v \in BOOLEAN : [r EXCEPT !.moto = v] \in SessionState
      /\ \A v \in {"down", "connected", "up", "lost"} : [r EXCEPT !.broker = v] \in SessionState
      /\ \A v \in BOOLEAN : [r EXCEPT !.ice = v] \in SessionState
      /\ \A v \in BOOLEAN : [r EXCEPT !.trickle = v] \in SessionState
  BY DEF SessionState
<1>3. /\ \A v \in 0..DialAttempts : [r EXCEPT !.attempt = v] \in SessionState
      /\ \A v \in {"none", "up", "closing", "lost"} : [r EXCEPT !.relay = v] \in SessionState
      /\ \A v \in {"pending", "ready", "cancelled"} : [r EXCEPT !.video = v] \in SessionState
      /\ \A v \in BOOLEAN : [r EXCEPT !.handler = v] \in SessionState
  BY DEF SessionState
<1>4. /\ \A v \in BOOLEAN : [r EXCEPT !.frames = v] \in SessionState
      /\ \A v \in {"free", "held", "unreachable"} : [r EXCEPT !.device = v] \in SessionState
      /\ \A v \in {"open", "relay", "disconnect", "grace", "broker", "done", "aborted"} : [r EXCEPT !.close = v] \in SessionState
      /\ \A v \in BOOLEAN : [r EXCEPT !.early = v] \in SessionState
  BY DEF SessionState
<1> QED BY <1>1, <1>2, <1>3, <1>4

\* async_start raises, or async_wait_closed returns.
LEMMA RaiseAdvances ==
    ASSUME NEW r, Sound(r), r.phase # "new",
           NEW why \in {"none", "ended", "busy", "failed", "cancelled"}
    PROVE  Advanced(r, Raise(r, why))
<1>1. Raise(r, why) \in SessionState
  BY DEF SessionState, Sound, Tracked, Raise
<1>2. PhaseInv(Raise(r, why))
  BY DEF SessionState, Sound, Tracked, PhaseInv, Raise
<1>3. CloseInv(Raise(r, why))
  BY DEF SessionState, Sound, Tracked, CloseInv, Raise
<1>4. FuturesKept(r, Raise(r, why))
  BY DEF SessionState, Sound, Tracked, FuturesKept, Raise
<1>5. Raise(r, why).phase # "new" /\ Raise(r, why).close = r.close /\ Raise(r, why).early = r.early
  BY DEF SessionState, Sound, Tracked, Raise
<1> QED BY <1>1, <1>2, <1>3, <1>4, <1>5 DEF Advanced, Tracked

\* What async_start may do between two awaits: it leaves the futures and the
\* teardown alone, announces its candidate after the offer only, and has a relay
\* once it waits for the video.
StartStep(r, q) ==
    /\ q.phase # "new" /\ (r.phase = "video" => q.phase \in {"up", "over"})
    /\ q.answer = r.answer /\ q.video = r.video /\ q.ended = r.ended
    /\ q.close = r.close /\ q.early = r.early /\ q.moto = r.moto
    /\ q.relay # r.relay => q.phase = "video"
    /\ q.trickle => r.trickle \/ (r.moto /\ r.phase = "gather")

\* Such a step keeps what is known of the record.
LEMMA StartStepAdvances ==
    ASSUME NEW r, Sound(r), r.phase \in Starting, NEW q \in SessionState, StartStep(r, q)
    PROVE  Advanced(r, q)
<1>1. r \in SessionState /\ PhaseInv(r) /\ CloseInv(r)
  BY DEF Sound, Tracked
<1>2. PhaseInv(q)
  BY <1>1 DEF SessionState, PhaseInv, StartStep, Starting
<1>3. CloseInv(q)
  BY <1>1 DEF SessionState, CloseInv, StartStep, Starting
<1> QED BY <1>2, <1>3 DEF Advanced, Tracked, FuturesKept, StartStep

\* The head of the dial loop, up to one attempt past the last.
LEMMA DialAdvances ==
    ASSUME NEW r, Sound(r), r.phase \in {"answer", "pause"},
           NEW attempt \in 1..(DialAttempts + 1)
    PROVE  Advanced(r, Dial(r, attempt))
<1>1. CASE attempt > DialAttempts \/ r.ended
  BY <1>1, RaiseAdvances DEF Dial
<1>2. CASE ~(attempt > DialAttempts \/ r.ended)
  <2> DEFINE q == [r EXCEPT !.phase = "dial", !.attempt = attempt]
  <2>1. r \in SessionState /\ attempt \in 0..DialAttempts
    BY <1>2, DialAssumption DEF Sound, Tracked
  <2>2. q \in SessionState /\ StartStep(r, q)
    BY <2>1 DEF SessionState, Starting, StartStep
  <2> QED BY <1>2, <2>2, StartStepAdvances DEF Dial, Starting
<1> QED BY <1>1, <1>2

\* Whichever await the owner is at, going on from it advances the session.
LEMMA ResumeAdvances ==
    ASSUME NEW r, Sound(r), NEW q \in Resume(r) PROVE Advanced(r, q)
<1>0. r \in SessionState
  BY DEF Sound, Tracked
<1> DEFINE Outcomes == {"ended", "busy", "failed", "cancelled"}
<1>raised. ASSUME r.phase # "new", NEW why \in Outcomes, q = Raise(r, why)
           PROVE  Advanced(r, q)
  BY <1>raised, RaiseAdvances
<1>1. CASE r.phase = "connect"
  <2>1. \/ \E why \in Outcomes : q = Raise(r, why)
        \/ \E b \in {"connected", "up"} : q = [r EXCEPT !.broker = b, !.phase = "over", !.result = "failed"]
        \/ q = [r EXCEPT !.broker = "up", !.phase = "query"]
    BY <1>0, <1>1 DEF Resume, Connect, Raise, SessionState
  <2>2. ASSUME NEW b \in {"connected", "up"},
               q = [r EXCEPT !.broker = b, !.phase = "over", !.result = "failed"]
        PROVE  q \in SessionState /\ StartStep(r, q)
    <3>1. q = [[[r EXCEPT !.broker = b] EXCEPT !.phase = "over"] EXCEPT !.result = "failed"]
      BY <2>2
    <3>2. q \in SessionState
      BY <1>0, <3>1, FieldTypes
    <3>3. StartStep(r, q)
      BY <1>0, <1>1, <2>2 DEF SessionState, StartStep
    <3> QED BY <3>2, <3>3
  <2>3. ASSUME q = [r EXCEPT !.broker = "up", !.phase = "query"]
        PROVE  q \in SessionState /\ StartStep(r, q)
    BY <1>0, <1>1, <2>3 DEF SessionState, Starting, StartStep
  <2> QED BY <1>1, <1>raised, <2>1, <2>2, <2>3, StartStepAdvances DEF Starting
<1>2. CASE r.phase = "query"
  <2>1. \/ \E why \in Outcomes : q = Raise(r, why)
        \/ \E d \in {"free", "held", "unreachable"} : q = [r EXCEPT !.phase = "offer", !.device = d]
    BY <1>0, <1>2 DEF Resume, Query, SessionState
  <2>2. ASSUME NEW d \in {"free", "held", "unreachable"},
               q = [r EXCEPT !.phase = "offer", !.device = d]
        PROVE  q \in SessionState /\ StartStep(r, q)
    <3>1. q \in SessionState
      BY <1>0, <2>2, FieldTypes DEF Starting
    <3> QED BY <1>0, <1>2, <2>2, <3>1 DEF SessionState, StartStep
  <2> QED BY <1>2, <1>raised, <2>1, <2>2, StartStepAdvances DEF Starting
<1>3. CASE r.phase = "offer"
  <2>1. (\E why \in Outcomes : q = Raise(r, why)) \/ q = [r EXCEPT !.phase = "gather"]
    BY <1>3 DEF Resume, Offer
  <2>2. ASSUME q = [r EXCEPT !.phase = "gather"] PROVE q \in SessionState /\ StartStep(r, q)
    BY <1>0, <1>3, <2>2 DEF SessionState, Starting, StartStep
  <2> QED BY <1>3, <1>raised, <2>1, <2>2, StartStepAdvances DEF Starting
<1>4. CASE r.phase = "gather"
  <2>1. \/ \E why \in Outcomes : q = Raise(r, why)
        \/ q = [r EXCEPT !.ice = TRUE, !.phase = "answer", !.trickle = r.moto]
    BY <1>0, <1>4 DEF Resume, Gather, OnLocalCandidate, SessionState
  <2>2. ASSUME q = [r EXCEPT !.ice = TRUE, !.phase = "answer", !.trickle = r.moto]
        PROVE  q \in SessionState /\ StartStep(r, q)
    <3>1. q \in SessionState
      BY <1>0, <2>2 DEF SessionState, Starting
    <3>2. StartStep(r, q)
      BY <1>0, <1>4, <2>2 DEF SessionState, StartStep
    <3> QED BY <3>1, <3>2
  <2> QED BY <1>4, <1>raised, <2>1, <2>2, StartStepAdvances DEF Starting
<1>5. CASE r.phase = "answer"
  <2>1. q = Dial(r, 1) \/ \E why \in Outcomes : q = Raise(r, why)
    BY <1>5 DEF Resume, AwaitAnswer
  <2> QED BY <1>5, <1>raised, <2>1, DialAdvances, DialAssumption
<1>6. CASE r.phase = "dial"
  <2>1. \/ \E why \in Outcomes : q = Raise(r, why)
        \/ q = [r EXCEPT !.relay = "up", !.phase = "video"]
        \/ q = [r EXCEPT !.phase = "pause"]
    BY <1>6 DEF Resume, DialRelay, BindRelay
  <2>2. ASSUME q = [r EXCEPT !.relay = "up", !.phase = "video"]
        PROVE  q \in SessionState /\ StartStep(r, q)
    <3>1. q = [[r EXCEPT !.relay = "up"] EXCEPT !.phase = "video"]
      BY <2>2
    <3>2. q \in SessionState
      BY <1>0, <3>1, FieldTypes DEF Starting
    <3>3. StartStep(r, q)
      BY <1>0, <1>6, <2>2 DEF SessionState, StartStep
    <3> QED BY <3>2, <3>3
  <2>3. ASSUME q = [r EXCEPT !.phase = "pause"] PROVE q \in SessionState /\ StartStep(r, q)
    BY <1>0, <1>6, <2>3 DEF SessionState, Starting, StartStep
  <2> QED BY <1>6, <1>raised, <2>1, <2>2, <2>3, StartStepAdvances DEF Starting
<1>7. CASE r.phase = "pause"
  <2>1. q = Dial(r, r.attempt + 1)
    BY <1>7 DEF Resume
  <2>2. r.attempt + 1 \in 1..(DialAttempts + 1)
    BY <1>0, DialAssumption DEF SessionState
  <2> QED BY <1>7, <2>1, <2>2, DialAdvances
<1>8. CASE r.phase = "video"
  <2> DEFINE opened == r.relay \in {"up", "closing"}
  <2>0. (\E why \in Outcomes : q = Raise(r, why)) \/ q = [r EXCEPT !.phase = "up", !.handler = opened]
    BY <1>0, <1>8 DEF Resume, AwaitVideo, SessionState
  <2>1. \/ \E why \in Outcomes : q = Raise(r, why)
        \/ \E h \in BOOLEAN : q = [r EXCEPT !.phase = "up", !.handler = h]
    <3>1. opened \in BOOLEAN
      OBVIOUS
    <3> HIDE DEF opened, Outcomes
    <3> QED BY <2>0, <3>1, Zenon
  <2>2. ASSUME NEW h \in BOOLEAN, q = [r EXCEPT !.phase = "up", !.handler = h]
        PROVE  q \in SessionState /\ StartStep(r, q)
    BY <1>0, <1>8, <2>2 DEF SessionState, Starting, StartStep
  <2> QED BY <1>8, <1>raised, <2>1, <2>2, StartStepAdvances DEF Starting
<1>9. CASE r.phase = "up"
  <2>1. q = Raise(r, "ended")
    BY <1>9 DEF Resume, WaitClosed
  <2> QED BY <1>9, <1>raised, <2>1
<1>10. CASE r.phase \in {"new", "over"}
  BY <1>10 DEF Resume
<1> QED BY <1>0, <1>1, <1>2, <1>3, <1>4, <1>5, <1>6, <1>7, <1>8, <1>9, <1>10 DEF SessionState, Starting

\* And so does the CancelledError raised there.
LEMMA CancelAdvances ==
    ASSUME NEW r, Sound(r), NEW q \in Cancel(r) PROVE Advanced(r, q)
<1>1. r \in SessionState /\ r.phase \notin {"new", "over"}
  BY DEF Sound, Tracked, Cancel
<1>2. CASE q = Raise(r, "cancelled")
  BY <1>1, <1>2, RaiseAdvances
<1>3. CASE q = Raise([r EXCEPT !.broker = "connected"], "cancelled") /\ r.phase = "connect"
  <2>1. q = [r EXCEPT !.broker = "connected", !.phase = "over", !.result = "cancelled"]
    BY <1>1, <1>3 DEF Raise, SessionState
  <2>2. q \in SessionState /\ StartStep(r, q)
    <3>1. q = [[[r EXCEPT !.broker = "connected"] EXCEPT !.phase = "over"] EXCEPT !.result = "cancelled"]
      BY <2>1
    <3>2. q \in SessionState
      BY <1>1, <3>1, FieldTypes
    <3>3. StartStep(r, q)
      BY <1>1, <1>3, <2>1 DEF SessionState, StartStep
    <3> QED BY <3>2, <3>3
  <2> QED BY <1>3, <2>2, StartStepAdvances DEF Starting
<1> QED BY <1>1, <1>2, <1>3 DEF Cancel

-----------------------------------------------------------------------------
(* The teardown.                                                            *)

\* What one step of a teardown makes of the record: the owner's phase stays, and
\* the teardown does not begin again.
Released(r, q) ==
    /\ Sound(q) /\ FuturesKept(r, q)
    /\ q.phase = r.phase /\ q.attempt = r.attempt /\ q.close # "open"

\* async_close up to its first await.  It always has something to wait for: the
\* signaling client is there.
LEMMA BeginCloseReleases ==
    ASSUME NEW r, Tracked(r), r.phase # "new", Closes(r)
    PROVE  /\ Released(r, BeginClose(r))
           /\ BeginClose(r).close \in {"relay", "disconnect"}
<1> DEFINE answered == Resolve(r.answer, "cancelled")
           early == r.phase \in Starting
           shut == [r EXCEPT !.ended = TRUE, !.trickle = FALSE, !.ice = FALSE,
                             !.answer = answered, !.early = early]
<1>1. r \in SessionState /\ PhaseInv(r) /\ r.close = "open" /\ r.moto
  BY DEF Tracked, Closes, PhaseInv
<1>2. /\ answered \in {"pending", "answered", "invalid", "busy", "refused", "cancelled"}
      /\ r.answer # "pending" => answered = r.answer
  <2>1. r.answer \in {"pending", "answered", "invalid", "busy", "refused", "cancelled"}
    BY <1>1 DEF SessionState
  <2> QED BY <2>1 DEF Resolve
<1>3. early \in BOOLEAN /\ (r.phase \notin {"up", "over"} <=> early)
  BY <1>1 DEF SessionState, Starting
<1>4. PICK q : q = BeginClose(r)
  OBVIOUS
<1>5. PICK b \in {"none", "closing", "lost"} :
         /\ b = "none" => r.relay = "none" /\ q = [shut EXCEPT !.moto = FALSE, !.close = "disconnect"]
         /\ b # "none" => r.relay # "none" /\ q = [shut EXCEPT !.close = "relay", !.relay = b]
  BY <1>1, <1>4 DEF BeginClose, TakeMoto, Closes, SessionState
<1> HIDE DEF answered, early
<1>6. shut \in SessionState
  BY <1>1, <1>2, <1>3, FieldTypes
<1>7. /\ shut.phase = r.phase /\ shut.ended /\ ~shut.trickle /\ ~shut.ice /\ shut.answer = answered
      /\ shut.video = r.video /\ shut.relay = r.relay /\ shut.moto
      /\ shut.early = early /\ shut.attempt = r.attempt
  BY <1>1 DEF SessionState
<1> HIDE DEF shut
<1>8. CASE b = "none"
  <2>0. q = [[shut EXCEPT !.moto = FALSE] EXCEPT !.close = "disconnect"] /\ r.relay = "none"
    BY <1>5, <1>8
  <2>1. q \in SessionState
    BY <1>6, <2>0, FieldTypes
  <2>2. /\ q.phase = r.phase /\ q.ended /\ ~q.trickle /\ ~q.ice /\ q.answer = answered
        /\ q.video = r.video /\ q.relay = "none" /\ ~q.moto /\ q.close = "disconnect"
        /\ q.early = early /\ q.attempt = r.attempt
    <3>1. /\ q.phase = shut.phase /\ q.ended = shut.ended /\ q.trickle = shut.trickle /\ q.ice = shut.ice
          /\ q.answer = shut.answer /\ q.video = shut.video /\ q.relay = shut.relay /\ q.early = shut.early
          /\ ~q.moto /\ q.close = "disconnect" /\ q.attempt = shut.attempt
      BY <1>6, <2>0 DEF SessionState
    <3> QED BY <1>7, <2>0, <3>1
  <2>3. PhaseInv(q) /\ CloseInv(q)
    BY <1>3, <2>2 DEF PhaseInv, CloseInv
  <2> QED BY <1>2, <1>4, <2>1, <2>2, <2>3 DEF Released, Sound, Tracked, FuturesKept
<1>9. CASE b # "none"
  <2>0. q = [[shut EXCEPT !.close = "relay"] EXCEPT !.relay = b]
    BY <1>5, <1>9
  <2>1. q \in SessionState
    BY <1>6, <2>0, FieldTypes
  <2>2. /\ q.phase = r.phase /\ q.ended /\ ~q.trickle /\ ~q.ice /\ q.answer = answered
        /\ q.video = r.video /\ q.relay # "none" /\ q.moto /\ q.close = "relay"
        /\ q.early = early /\ q.attempt = r.attempt
    <3>1. /\ q.phase = shut.phase /\ q.ended = shut.ended /\ q.trickle = shut.trickle /\ q.ice = shut.ice
          /\ q.answer = shut.answer /\ q.video = shut.video /\ q.moto = shut.moto /\ q.early = shut.early
          /\ q.close = "relay" /\ q.relay = b /\ q.attempt = shut.attempt
      BY <1>6, <2>0 DEF SessionState
    <3> QED BY <1>7, <1>9, <3>1
  <2>3. r.phase \in {"video", "up", "over"}
    BY <1>1, <1>5, <1>9 DEF PhaseInv
  <2>4. PhaseInv(q) /\ CloseInv(q)
    BY <1>3, <2>2, <2>3 DEF PhaseInv, CloseInv
  <2> QED BY <1>2, <1>4, <2>1, <2>2, <2>4 DEF Released, Sound, Tracked, FuturesKept
<1> QED BY <1>8, <1>9
\* A teardown at one of its awaits.
TearingDown(r) == r.close \in {"relay", "disconnect", "grace", "broker"}

\* What a step of it may change: it goes from one await to the next and leaves
\* behind what that await was for, or it is cut short.
TeardownStep(r, q) ==
    /\ q.phase = r.phase /\ q.attempt = r.attempt
    /\ q.early = r.early /\ q.answer = r.answer /\ q.ended = r.ended
    /\ q.ice = r.ice /\ q.trickle = r.trickle /\ (r.video # "pending" => q.video = r.video)
    /\ r.close # "relay" => q.relay = r.relay
    /\ q.moto # r.moto => ~q.moto
    /\ \/ /\ r.close = "relay" /\ q.close = "relay" /\ q.moto = r.moto /\ q.relay = r.relay
          /\ q # r => r.video = "pending" /\ q.video # "pending"
       \/ r.close = "relay" /\ q.close = "disconnect" /\ q.relay = "none" /\ ~q.moto
       \/ r.close = "disconnect" /\ q.close = "grace" /\ q.device # "held"
       \/ r.close = "grace" /\ q.close = "broker" /\ q.device = r.device
       \/ r.close = "broker" /\ q.close = "done" /\ q.device = r.device /\ q.broker = "down"
       \/ q.close = "aborted"

\* Such a step keeps what is known of the record.
LEMMA TeardownStepReleases ==
    ASSUME NEW r, Sound(r), TearingDown(r), NEW q \in SessionState, TeardownStep(r, q)
    PROVE  Released(r, q)
<1>1. r \in SessionState /\ PhaseInv(r) /\ CloseInv(r) /\ r.close # "open" /\ r.phase # "new"
  BY DEF Sound, Tracked, PhaseInv, TearingDown
<1>2. r.close = "relay" => r.moto /\ r.phase \in {"video", "up", "over"}
  BY <1>1 DEF PhaseInv
<1>3. q.close # "open" /\ (q.close = "relay" => q.moto)
  BY <1>2 DEF TeardownStep
<1>4. PhaseInv(q)
  BY <1>1, <1>2, <1>3 DEF PhaseInv, TeardownStep
<1>5. CloseInv(q)
  <2> SUFFICES ASSUME ~q.early PROVE CloseInv(q)
    BY DEF CloseInv
  <2>1. q.phase \in {"up", "over"} /\ ~q.ice
    BY <1>1 DEF CloseInv, TeardownStep
  <2>2. q.close \in {"disconnect", "grace", "broker", "done"} => q.relay = "none"
    BY <1>1 DEF CloseInv, TeardownStep
  <2>3. /\ q.close \in {"grace", "broker", "done"} => q.device # "held"
        /\ q.close = "done" => q.broker = "down"
    BY <1>1 DEF CloseInv, TeardownStep
  <2> QED BY <2>1, <2>2, <2>3 DEF CloseInv
<1> QED BY <1>3, <1>4, <1>5 DEF Released, Sound, Tracked, FuturesKept, TeardownStep

\* The steps of a teardown that goes on and of one that is cancelled.
LEMMA CloseReleases ==
    ASSUME NEW r, Sound(r), NEW q, q \in ResumeClose(r) \/ q \in CancelClose(r)
    PROVE  TearingDown(r) /\ TeardownStep(r, q) /\ Released(r, q)
<1>1. TearingDown(r)
  BY DEF ResumeClose, CancelClose, TearingDown
<1>2. r \in SessionState
  BY DEF Sound, Tracked
<1> SUFFICES q \in SessionState /\ TeardownStep(r, q)
  BY <1>1, TeardownStepReleases
<1>aborted. ASSUME q = [r EXCEPT !.close = "aborted"] PROVE q \in SessionState /\ TeardownStep(r, q)
  <2>1. q \in SessionState
    BY <1>2, <1>aborted, FieldTypes
  <2> QED BY <1>2, <1>aborted, <2>1 DEF TeardownStep, SessionState
<1>3. CASE r.close = "relay"
  <2>1. r.moto
    BY <1>3 DEF Sound, Tracked, PhaseInv
  <2> DEFINE v == Resolve(r.video, "cancelled")
  <2>2. v \in {"ready", "cancelled"} /\ (r.video # "pending" => v = r.video)
    BY <1>2 DEF SessionState, Resolve
  <2>3. \/ q = [r EXCEPT !.video = v]
        \/ q = [r EXCEPT !.video = v, !.relay = "none", !.moto = FALSE, !.close = "disconnect"]
        \/ q = [r EXCEPT !.close = "aborted"]
        \/ q = [r EXCEPT !.relay = "lost", !.video = v, !.close = "aborted"]
    BY <1>2, <1>3, <2>1 DEF ResumeClose, CancelClose, CloseRelay, TakeMoto, SessionState
  <2> HIDE DEF v
  <2>4. CASE q = [r EXCEPT !.video = v]
    <3>1. q \in SessionState
      BY <1>2, <2>2, <2>4, FieldTypes
    <3>2. q # r => r.video = "pending" /\ q.video # "pending"
      BY <1>2, <2>2, <2>4 DEF SessionState
    <3> QED BY <1>2, <1>3, <2>2, <2>4, <3>1, <3>2 DEF TeardownStep, SessionState
  <2>5. CASE q = [r EXCEPT !.video = v, !.relay = "none", !.moto = FALSE, !.close = "disconnect"]
    <3>1. q \in SessionState
      BY <1>2, <2>2, <2>5, FieldTypes
    <3> QED BY <1>2, <1>3, <2>2, <2>5, <3>1 DEF TeardownStep, SessionState
  <2>6. CASE q = [r EXCEPT !.relay = "lost", !.video = v, !.close = "aborted"]
    <3>1. q \in SessionState
      BY <1>2, <2>2, <2>6, FieldTypes
    <3> QED BY <1>2, <1>3, <2>2, <2>6, <3>1 DEF TeardownStep, SessionState
  <2> QED BY <1>aborted, <2>3, <2>4, <2>5, <2>6
<1>4. CASE r.close = "disconnect"
  <2>1. \/ \E d \in {"free", "unreachable"} : q = [r EXCEPT !.close = "grace", !.device = d]
        \/ q = [r EXCEPT !.close = "aborted"]
        \/ q = [r EXCEPT !.close = "aborted", !.device = "free"]
    BY <1>2, <1>4 DEF ResumeClose, CancelClose, SendDisconnect, SessionState
  <2>2. ASSUME NEW d \in {"free", "unreachable"}, q = [r EXCEPT !.close = "grace", !.device = d]
        PROVE  q \in SessionState /\ TeardownStep(r, q)
    <3>1. q \in SessionState
      BY <1>2, <2>2, FieldTypes
    <3> QED BY <1>2, <1>4, <2>2, <3>1 DEF TeardownStep, SessionState
  <2>3. CASE q = [r EXCEPT !.close = "aborted", !.device = "free"]
    <3>1. q \in SessionState
      BY <1>2, <2>3, FieldTypes
    <3> QED BY <1>2, <1>4, <2>3, <3>1 DEF TeardownStep, SessionState
  <2> QED BY <1>aborted, <2>1, <2>2, <2>3
<1>5. CASE r.close = "grace"
  <2>1. \/ \E b \in {"down", "connected", "lost"} : q = [r EXCEPT !.close = "broker", !.broker = b]
        \/ q = [r EXCEPT !.close = "aborted"]
    BY <1>2, <1>5 DEF ResumeClose, CancelClose, AfterGrace, SessionState
  <2>2. ASSUME NEW b \in {"down", "connected", "lost"}, q = [r EXCEPT !.close = "broker", !.broker = b]
        PROVE  q \in SessionState /\ TeardownStep(r, q)
    <3>1. q \in SessionState
      BY <1>2, <2>2, FieldTypes
    <3> QED BY <1>2, <1>5, <2>2, <3>1 DEF TeardownStep, SessionState
  <2> QED BY <1>aborted, <2>1, <2>2
<1>6. CASE r.close = "broker"
  <2>1. q = [r EXCEPT !.close = "done", !.broker = "down"] \/ q = [r EXCEPT !.close = "aborted"]
    BY <1>6 DEF ResumeClose, CancelClose, CloseBroker
  <2>2. CASE q = [r EXCEPT !.close = "done", !.broker = "down"]
    <3>1. q \in SessionState
      BY <1>2, <2>2, FieldTypes
    <3> QED BY <1>2, <1>6, <2>2, <3>1 DEF TeardownStep, SessionState
  <2> QED BY <1>aborted, <2>1, <2>2
<1> QED BY <1>1, <1>3, <1>4, <1>5, <1>6 DEF TearingDown

-----------------------------------------------------------------------------
(* The callbacks.                                                           *)

\* What a callback may change: it takes connections away and resolves futures.
CalledBack(r, q) ==
    /\ q.phase = r.phase /\ q.attempt = r.attempt /\ q.close = r.close /\ q.early = r.early
    /\ q.moto = r.moto /\ q.ice = r.ice /\ q.device = r.device
    /\ (q.relay = "none") <=> (r.relay = "none")
    /\ q.trickle => r.trickle
    /\ r.broker = "down" => q.broker = "down"
    /\ FuturesKept(r, q)

\* That keeps what is known of the record.
LEMMA CallbackKeeps ==
    ASSUME NEW r, Sound(r), r.phase # "new", NEW q \in SessionState, CalledBack(r, q)
    PROVE  Sound(q)
<1>1. PhaseInv(q)
  BY DEF Sound, Tracked, PhaseInv, CalledBack
<1>2. CloseInv(q)
  BY DEF Sound, Tracked, CloseInv, CalledBack
<1> QED BY <1>1, <1>2 DEF Sound, Tracked, CalledBack

\* An unborn session is called back by nobody.
LEMMA CallbackEffect ==
    ASSUME NEW s \in Sessions, Sound(session[s]), Callback(s) \/ OnMediaRecord(s)
    PROVE  \E q : Becomes(s, q) /\ session[s].phase # "new" /\ Sound(q) /\ CalledBack(session[s], q)
<1> DEFINE r == session[s]
<1>1. r \in SessionState
  BY DEF Sound, Tracked
<1>2. r.phase # "new"
  <2>1. \/ r.broker \in {"connected", "up"} \/ r.trickle = TRUE
        \/ r.relay \in {"up", "closing"} \/ r.handler = TRUE
    BY <1>1 DEF Callback, OnAnswer, OnDeviceDisconnect, BrokerLost, CandidateSent, OnRelayClosed,
                OnVideoOpened, OnMediaRecord, SessionState
  <2>2. r # Unborn
    BY <2>1 DEF Unborn
  <2> QED BY <2>2 DEF Sound, Tracked, PhaseInv
<1>3. ASSUME NEW q \in SessionState, Becomes(s, q), CalledBack(r, q)
      PROVE  \E x : Becomes(s, x) /\ r.phase # "new" /\ Sound(x) /\ CalledBack(r, x)
  BY <1>2, <1>3, CallbackKeeps
<1> DEFINE Answers == {"pending", "answered", "invalid", "busy", "refused", "cancelled"}
           Videos == {"pending", "ready", "cancelled"}
<1>4. r.answer \in Answers /\ r.video \in Videos
  BY <1>1 DEF SessionState
<1>5. ASSUME NEW outcome \in Answers, OnAnswer(s, outcome)
      PROVE  \E x : Becomes(s, x) /\ r.phase # "new" /\ Sound(x) /\ CalledBack(r, x)
  <2>1. PICK a \in Answers : a = Resolve(r.answer, outcome) /\ (r.answer # "pending" => a = r.answer)
    BY <1>4 DEF Resolve
  <2>2. Becomes(s, [r EXCEPT !.answer = a])
    BY <1>5, <2>1 DEF OnAnswer
  <2>3. [r EXCEPT !.answer = a] \in SessionState
    BY <1>1, <2>1, FieldTypes
  <2>4. CalledBack(r, [r EXCEPT !.answer = a])
    BY <1>1, <2>1 DEF CalledBack, FuturesKept, SessionState
  <2> QED BY <1>3, <2>2, <2>3, <2>4
<1>6. ASSUME NEW error \in Answers, OnDeviceDisconnect(s, error)
      PROVE  \E x : Becomes(s, x) /\ r.phase # "new" /\ Sound(x) /\ CalledBack(r, x)
  <2>1. PICK a \in Answers : a = Resolve(r.answer, error) /\ (r.answer # "pending" => a = r.answer)
    BY <1>4 DEF Resolve
  <2>2. Becomes(s, [r EXCEPT !.answer = a, !.ended = TRUE])
    BY <1>6, <2>1 DEF OnDeviceDisconnect
  <2>3. [r EXCEPT !.answer = a, !.ended = TRUE] \in SessionState
    BY <1>1, <2>1, FieldTypes
  <2>4. CalledBack(r, [r EXCEPT !.answer = a, !.ended = TRUE])
    BY <1>1, <2>1 DEF CalledBack, FuturesKept, SessionState
  <2> QED BY <1>3, <2>2, <2>3, <2>4
<1>7. CASE BrokerLost(s)
  <2>1. Becomes(s, [r EXCEPT !.broker = "lost"]) /\ r.broker # "down"
    BY <1>7 DEF BrokerLost
  <2>2. [r EXCEPT !.broker = "lost"] \in SessionState
    BY <1>1, FieldTypes
  <2>3. CalledBack(r, [r EXCEPT !.broker = "lost"])
    BY <1>1, <2>1 DEF CalledBack, FuturesKept, SessionState
  <2> QED BY <1>3, <2>1, <2>2, <2>3
<1>8. CASE CandidateSent(s)
  <2>1. Becomes(s, [r EXCEPT !.trickle = FALSE])
    BY <1>8 DEF CandidateSent
  <2>2. [r EXCEPT !.trickle = FALSE] \in SessionState
    BY <1>1, FieldTypes
  <2>3. CalledBack(r, [r EXCEPT !.trickle = FALSE])
    BY <1>1 DEF CalledBack, FuturesKept, SessionState
  <2> QED BY <1>3, <2>1, <2>2, <2>3
<1>9. CASE OnRelayClosed(s)
  <2>1. r.relay \in {"up", "closing"} /\ Becomes(s, ConnectionClosed(r))
    BY <1>9 DEF OnRelayClosed
  <2>2. CASE r.relay = "closing"
    <3>1. ConnectionClosed(r) = [r EXCEPT !.relay = "lost"]
      BY <2>2 DEF ConnectionClosed
    <3>2. [r EXCEPT !.relay = "lost"] \in SessionState
      BY <1>1, FieldTypes
    <3>3. CalledBack(r, [r EXCEPT !.relay = "lost"])
      BY <1>1, <2>1 DEF CalledBack, FuturesKept, SessionState
    <3> QED BY <1>3, <2>1, <3>1, <3>2, <3>3
  <2>3. CASE r.relay # "closing"
    <3>1. PICK v \in Videos : v = Resolve(r.video, "cancelled") /\ (r.video # "pending" => v = r.video)
      BY <1>4 DEF Resolve
    <3> DEFINE q == [r EXCEPT !.relay = "lost", !.ended = TRUE, !.handler = FALSE, !.video = v]
    <3>2. ConnectionClosed(r) = q
      BY <2>3, <3>1 DEF ConnectionClosed
    <3>3. q \in SessionState
      BY <1>1, <3>1, FieldTypes
    <3>4. CalledBack(r, q)
      BY <1>1, <2>1, <3>1 DEF CalledBack, FuturesKept, SessionState
    <3> QED BY <1>3, <2>1, <3>2, <3>3, <3>4
  <2> QED BY <2>2, <2>3
<1>10. CASE OnVideoOpened(s)
  <2>1. Becomes(s, [r EXCEPT !.video = "ready"]) /\ r.video = "pending"
    BY <1>10 DEF OnVideoOpened
  <2>2. [r EXCEPT !.video = "ready"] \in SessionState
    BY <1>1, FieldTypes
  <2>3. CalledBack(r, [r EXCEPT !.video = "ready"])
    BY <1>1, <2>1 DEF CalledBack, FuturesKept, SessionState
  <2> QED BY <1>3, <2>1, <2>2, <2>3
<1>11. CASE OnMediaRecord(s)
  <2>1. Becomes(s, [r EXCEPT !.frames = TRUE])
    BY <1>11 DEF OnMediaRecord
  <2>2. [r EXCEPT !.frames = TRUE] \in SessionState
    BY <1>1, FieldTypes
  <2>3. CalledBack(r, [r EXCEPT !.frames = TRUE])
    BY <1>1 DEF CalledBack, FuturesKept, SessionState
  <2> QED BY <1>3, <2>1, <2>2, <2>3
<1> QED BY <1>5, <1>6, <1>7, <1>8, <1>9, <1>10, <1>11 DEF Callback

-----------------------------------------------------------------------------
(* The specification.                                                       *)

\* The owner closes a session that is over, unless another task has.
LEMMA FinallySound ==
    ASSUME NEW r, NEW q, Advanced(r, q)
    PROVE  Sound(Finally(q)) /\ FuturesKept(r, Finally(q))
<1>1. CASE q.phase = "over" /\ Closes(q)
  BY <1>1, BeginCloseReleases DEF Finally, Advanced, Released, FuturesKept
<1>2. CASE ~(q.phase = "over" /\ Closes(q))
  BY <1>2 DEF Finally, BeginClose, Closes, Advanced, Sound
<1> QED BY <1>1, <1>2

\* A step changes one session, which stays sound and keeps what its futures hold.
LEMMA SessionStepEffect ==
    ASSUME SessionInv, SessionNext
    PROVE  \E s \in Sessions : \E q : Becomes(s, q) /\ Sound(q) /\ FuturesKept(session[s], q)
<1>1. PICK s \in Sessions : \/ Create(s) \/ Run(s) \/ Interrupt(s) \/ CloseFromOutside(s)
                           \/ Teardown(s) \/ InterruptTeardown(s)
                           \/ Callback(s) \/ OnMediaRecord(s)
  BY DEF SessionNext
<1>2. Sound(session[s])
  BY DEF SessionInv
<1>3. CASE Create(s)
  <2>1. session[s] = Unborn
    BY <1>2, <1>3 DEF Create, Sound, Tracked, PhaseInv
  <2>2. Unborn \in SessionState
    BY DialAssumption DEF Unborn, SessionState
  <2>3. Created \in SessionState
    BY <2>2, FieldTypes DEF Created, Starting
  <2>4. PhaseInv(Created) /\ CloseInv(Created) /\ Created.phase = "connect" /\ FuturesKept(Unborn, Created)
    BY DEF Created, Unborn, PhaseInv, CloseInv, FuturesKept
  <2> QED BY <1>3, <2>1, <2>3, <2>4 DEF Create, Sound, Tracked
<1>4. CASE Run(s)
  BY <1>2, <1>4, ResumeAdvances, FinallySound DEF Run
<1>5. CASE Interrupt(s)
  BY <1>2, <1>5, CancelAdvances, FinallySound DEF Interrupt
<1>6. CASE CloseFromOutside(s)
  BY <1>2, <1>6, BeginCloseReleases DEF CloseFromOutside, Starting, Sound, Released
<1>7. CASE Teardown(s) \/ InterruptTeardown(s)
  BY <1>2, <1>7, CloseReleases DEF Teardown, InterruptTeardown, Released
<1>8. CASE Callback(s) \/ OnMediaRecord(s)
  BY <1>2, <1>8, CallbackEffect DEF CalledBack
<1> QED BY <1>1, <1>3, <1>4, <1>5, <1>6, <1>7, <1>8

\* Unborn sessions are sound.
LEMMA SessionInitInv == SessionInit => SessionInv
<1>1. Unborn \in SessionState
  BY DialAssumption DEF Unborn, SessionState
<1>2. PhaseInv(Unborn) /\ CloseInv(Unborn) /\ Unborn.phase = "new"
  BY DEF Unborn, PhaseInv, CloseInv
<1> QED BY <1>1, <1>2 DEF SessionInit, SessionInv, SessionTypeOK, Sound, Tracked

\* The invariant is inductive.
LEMMA SessionStepInv == ASSUME SessionInv, [SessionNext]_session PROVE SessionInv'
<1>1. CASE UNCHANGED session
  BY <1>1 DEF SessionInv, SessionTypeOK
<1>2. CASE SessionNext
  <2>1. PICK s \in Sessions : \E q : Becomes(s, q) /\ Sound(q)
    BY <1>2, SessionStepEffect
  <2>2. PICK q : Becomes(s, q) /\ Sound(q)
    BY <2>1
  <2> QED BY <2>2 DEF Becomes, SessionInv, SessionTypeOK, Sound, Tracked
<1> QED BY <1>1, <1>2

\* Every session is sound between any two steps, whoever runs, cancels and closes
\* it.
THEOREM SessionInvariant == SessionSpec => []SessionInv
BY SessionInitInv, SessionStepInv, PTL DEF SessionSpec

\* Every session's record has its type, whatever the number of dial attempts.
THEOREM SessionTypeCorrect == SessionSpec => []SessionTypeOK
BY SessionInvariant, PTL DEF SessionInv

\* A teardown that ran to its end has let go of the relay, the broker, the socket
\* and the device, unless it began before async_start had returned.
THEOREM TeardownReleases == SessionSpec => []TornDownHoldsNothing
<1>1. SessionInv => TornDownHoldsNothing
  BY DEF SessionInv, Sound, Tracked, PhaseInv, CloseInv, TornDownHoldsNothing
<1> QED BY <1>1, SessionInvariant, PTL

\* No candidate is published once async_close has begun, also when async_start is
\* still on its way to the candidate.
THEOREM CandidatesStop == SessionSpec => []NoCandidateOnceClosing
<1>1. SessionInv => NoCandidateOnceClosing
  BY DEF SessionInv, Sound, Tracked, PhaseInv, NoCandidateOnceClosing
<1> QED BY <1>1, SessionInvariant, PTL

\* The answer, the end and the video get one result each.
THEOREM FuturesResolveOnce == SessionSpec => ResolvedOnce
<1> DEFINE Once == \A s \in Sessions :
                      session[s].phase # "new" =>
                         /\ session[s].answer # "pending" => session'[s].answer = session[s].answer
                         /\ session[s].video # "pending" => session'[s].video = session[s].video
                         /\ session[s].ended => session'[s].ended
<1>1. SessionInv /\ [SessionNext]_session => [Once]_session
  <2> SUFFICES ASSUME SessionInv, SessionNext PROVE Once
    OBVIOUS
  <2>1. PICK s \in Sessions : \E q : Becomes(s, q) /\ FuturesKept(session[s], q)
    BY SessionStepEffect
  <2>2. PICK q : Becomes(s, q) /\ FuturesKept(session[s], q)
    BY <2>1
  <2> QED BY <2>2 DEF Becomes, FuturesKept, SessionInv, SessionTypeOK
<1>2. ResolvedOnce <=> [][Once]_session
  BY DEF ResolvedOnce
<1> HIDE DEF Once
<1> QED BY <1>1, <1>2, SessionInvariant, PTL DEF SessionSpec

-----------------------------------------------------------------------------
(* Progress.  StartReturns and EndedIsTornDown need the scheduler's         *)
(* fairness, which is TLC's part.  What they need of the code is here, for  *)
(* any number of dial attempts: async_start and async_close can always go   *)
(* on from the await they are at, and each time they do, fewer awaits are   *)
(* left, which no other task and no callback ever undoes.                   *)

\* How often async_start may still be resumed from an await.
ResumesLeft(r) ==
    CASE r.phase = "connect" -> 2 * DialAttempts + 6
      [] r.phase = "query" -> 2 * DialAttempts + 5
      [] r.phase = "offer" -> 2 * DialAttempts + 4
      [] r.phase = "gather" -> 2 * DialAttempts + 3
      [] r.phase = "answer" -> 2 * DialAttempts + 2
      [] r.phase = "dial" -> 2 * (DialAttempts - r.attempt) + 3
      [] r.phase = "pause" -> 2 * (DialAttempts - r.attempt) + 2
      [] r.phase = "video" -> 1
      [] OTHER -> 0

\* How far async_close is from its end.
StepsLeft(r) ==
    CASE r.close = "relay" /\ r.video = "pending" -> 5
      [] r.close = "relay" /\ r.video # "pending" -> 4
      [] r.close = "disconnect" -> 3
      [] r.close = "grace" -> 2
      [] r.close = "broker" -> 1
      [] OTHER -> 0

\* No await of a session is one it cannot leave: whatever it was told, async_start
\* has an outcome at each of them, a session that has ended leaves
\* async_wait_closed, its owner has begun to close one that is over, and a
\* teardown moves on.
NeverStuck ==
    \A s \in Sessions :
        /\ session[s].phase \in Starting =>
              Resume(session[s]) # {} /\ ResumesLeft(session[s]) \in 1..(2 * DialAttempts + 6)
        /\ session[s].phase = "up" /\ session[s].ended => Resume(session[s]) # {}
        /\ session[s].phase = "over" => session[s].close # "open"
        /\ TearingDown(session[s]) => \E q \in ResumeClose(session[s]) : q # session[s]

\* What one step makes of the awaits a session has left.
Nearer(s) ==
    /\ session[s].phase \in Starting =>
          /\ ResumesLeft(session'[s]) <= ResumesLeft(session[s])
          /\ Run(s) \/ Interrupt(s) => ResumesLeft(session'[s]) < ResumesLeft(session[s])
    /\ TearingDown(session[s]) =>
          /\ StepsLeft(session'[s]) <= StepsLeft(session[s])
          /\ (Teardown(s) \/ InterruptTeardown(s)) /\ session'[s] # session[s] =>
                StepsLeft(session'[s]) < StepsLeft(session[s])

\* Every resumption of async_start and every step of a teardown that does
\* anything is one of finitely many, and nothing puts either of them back.
EndApproaches == [][\A s \in Sessions : Nearer(s)]_session

\* Where async_start may be after the await it is at.
Onward(r, q) ==
    \/ q.phase \in {"up", "over"}
    \/ r.phase = "connect" /\ q.phase = "query"
    \/ r.phase = "query" /\ q.phase = "offer"
    \/ r.phase = "offer" /\ q.phase = "gather"
    \/ r.phase = "gather" /\ q.phase = "answer"
    \/ r.phase = "answer" /\ q.phase = "dial" /\ q.attempt = 1
    \/ r.phase = "dial" /\ q.phase = "pause" /\ q.attempt = r.attempt
    \/ r.phase = "dial" /\ q.phase = "video"
    \/ r.phase = "pause" /\ q.phase = "dial" /\ q.attempt = r.attempt + 1

\* That is fewer awaits from the end: a retry uses up an attempt.
LEMMA OnwardLowers ==
    ASSUME NEW r \in SessionState, r.phase \in Starting, NEW q \in SessionState, Onward(r, q)
    PROVE  ResumesLeft(q) < ResumesLeft(r)
<1>1. r.attempt \in 0..DialAttempts /\ q.attempt \in 0..DialAttempts /\ DialAttempts \in Nat \ {0}
  BY DialAssumption DEF SessionState
<1>2. CASE q.phase \in {"up", "over"}
  <2>1. ResumesLeft(q) = 0
    BY <1>2 DEF ResumesLeft
  <2>2. ResumesLeft(r) > 0
    BY <1>1 DEF ResumesLeft, Starting
  <2> QED BY <2>1, <2>2
<1>3. CASE r.phase \in {"connect", "query", "offer", "gather"} /\ q.phase \notin {"up", "over"}
  BY <1>1, <1>3 DEF Onward, ResumesLeft
<1>4. CASE r.phase \in {"answer", "dial", "pause", "video"} /\ q.phase \notin {"up", "over"}
  BY <1>1, <1>4 DEF Onward, ResumesLeft
<1> QED BY <1>2, <1>3, <1>4 DEF Starting

\* The dial loop goes on to the next attempt or gives up.
LEMMA DialOnward ==
    ASSUME NEW r \in SessionState, NEW attempt \in Nat,
           \/ r.phase = "answer" /\ attempt = 1
           \/ r.phase = "pause" /\ attempt = r.attempt + 1
    PROVE  Onward(r, Dial(r, attempt))
BY DEF Dial, Raise, Onward, SessionState

\* Raising ends async_start.
LEMMA RaiseOnward ==
    ASSUME NEW r \in SessionState, NEW why
    PROVE  Onward(r, Raise(r, why))
BY DEF Raise, Onward, SessionState

\* Whichever await async_start is at, it has an outcome there, and each one
\* brings it onward.
LEMMA ResumeOnward ==
    ASSUME NEW r \in SessionState, r.phase \in Starting
    PROVE  Resume(r) # {} /\ \A q \in Resume(r) : Onward(r, q)
<1>1. CASE r.phase = "connect"
  <2>1. Resume(r) = Connect(r)
    BY <1>1 DEF Resume
  <2>2. Raise(r, "failed") \in Connect(r)
    BY DEF Connect
  <2>3. ASSUME NEW q \in Connect(r) PROVE q.phase \in {"over", "query"}
    BY DEF Connect, Raise, SessionState
  <2> QED BY <1>1, <2>1, <2>2, <2>3 DEF Onward
<1>2. CASE r.phase = "query"
  <2>1. Resume(r) = Query(r)
    BY <1>2 DEF Resume
  <2>2. Query(r) # {}
    BY DEF Query
  <2>3. ASSUME NEW q \in Query(r) PROVE q.phase \in {"over", "offer"}
    <3>1. PICK d : q = Raise(r, "failed") \/ q = [r EXCEPT !.phase = "offer", !.device = d]
      BY DEF Query
    <3> QED BY <3>1 DEF Raise, SessionState
  <2> QED BY <1>2, <2>1, <2>2, <2>3 DEF Onward
<1>3. CASE r.phase = "offer"
  <2>1. Resume(r) = Offer(r)
    BY <1>3 DEF Resume
  <2>2. Raise(r, "failed") \in Offer(r)
    BY DEF Offer
  <2>3. ASSUME NEW q \in Offer(r) PROVE q.phase \in {"over", "gather"}
    BY DEF Offer, Raise, SessionState
  <2> QED BY <1>3, <2>1, <2>2, <2>3 DEF Onward
<1>4. CASE r.phase = "gather"
  <2>1. Resume(r) = Gather(r)
    BY <1>4 DEF Resume
  <2>2. Raise(r, "failed") \in Gather(r)
    BY DEF Gather
  <2>3. ASSUME NEW q \in Gather(r) PROVE q.phase \in {"over", "answer"}
    BY DEF Gather, OnLocalCandidate, Raise, SessionState
  <2> QED BY <1>4, <2>1, <2>2, <2>3 DEF Onward
<1>5. CASE r.phase = "answer"
  <2>1. Resume(r) = AwaitAnswer(r)
    BY <1>5 DEF Resume
  <2>2. \E q : AwaitAnswer(r) = {q} /\ (q = Dial(r, 1) \/ \E why : q = Raise(r, why))
    BY DEF AwaitAnswer
  <2> QED BY <1>5, <2>1, <2>2, DialOnward, RaiseOnward
<1>6. CASE r.phase = "dial"
  <2>1. Resume(r) = {BindRelay(r), [r EXCEPT !.phase = "pause"], Raise(r, "failed")}
    BY <1>6 DEF Resume, DialRelay
  <2>2. Onward(r, BindRelay(r))
    BY <1>6 DEF BindRelay, Onward, SessionState
  <2>3. Onward(r, [r EXCEPT !.phase = "pause"])
    BY <1>6 DEF Onward, SessionState
  <2> QED BY <2>1, <2>2, <2>3, RaiseOnward
<1>7. CASE r.phase = "pause"
  <2>1. Resume(r) = {Dial(r, r.attempt + 1)} /\ r.attempt + 1 \in Nat
    BY <1>7, DialAssumption DEF Resume, SessionState
  <2> QED BY <1>7, <2>1, DialOnward
<1>8. CASE r.phase = "video"
  <2>1. Resume(r) = AwaitVideo(r)
    BY <1>8 DEF Resume
  <2>2. r.video \in {"pending", "ready", "cancelled"}
    BY DEF SessionState
  <2>3. AwaitVideo(r) # {}
    BY <2>2 DEF AwaitVideo
  <2>4. ASSUME NEW q \in AwaitVideo(r) PROVE q.phase \in {"up", "over"}
    BY <2>2 DEF AwaitVideo, Raise, SessionState
  <2> QED BY <2>1, <2>3, <2>4 DEF Onward
<1> QED BY <1>1, <1>2, <1>3, <1>4, <1>5, <1>6, <1>7, <1>8 DEF Starting

\* So does CancelledError.
LEMMA CancelOnward ==
    ASSUME NEW r \in SessionState, r.phase \in Starting, NEW q \in Cancel(r)
    PROVE  Onward(r, q)
<1>1. q.phase = "over"
  BY DEF Cancel, Raise, SessionState
<1> QED BY <1>1 DEF Onward

\* Closing a session that is over does not bring its start back.
LEMMA FinallyLowers ==
    ASSUME NEW r, Sound(r), r.phase \in Starting, NEW q, Advanced(r, q), Onward(r, q)
    PROVE  ResumesLeft(Finally(q)) < ResumesLeft(r)
<1>1. r \in SessionState /\ q \in SessionState /\ Tracked(q) /\ q.phase # "new"
  BY DEF Sound, Tracked, Advanced
<1>2. ResumesLeft(q) < ResumesLeft(r)
  BY <1>1, OnwardLowers
<1>3. CASE q.phase = "over" /\ Closes(q)
  <2>1. BeginClose(q).phase = q.phase /\ BeginClose(q).attempt = q.attempt
    BY <1>1, <1>3, BeginCloseReleases DEF Released
  <2>2. Finally(q) = BeginClose(q)
    BY <1>3 DEF Finally
  <2> QED BY <1>2, <2>1, <2>2 DEF ResumesLeft
<1>4. CASE ~(q.phase = "over" /\ Closes(q))
  BY <1>2, <1>4 DEF Finally, BeginClose
<1> QED BY <1>3, <1>4

\* The steps of the task that runs a session.
LEMMA RunLowers ==
    ASSUME SessionInv, NEW s \in Sessions, session[s].phase \in Starting, Run(s) \/ Interrupt(s)
    PROVE  ResumesLeft(session'[s]) < ResumesLeft(session[s])
<1>1. Sound(session[s]) /\ session[s] \in SessionState
  BY DEF SessionInv, Sound, Tracked
<1>2. PICK q \in Resume(session[s]) \union Cancel(session[s]) : Becomes(s, Finally(q))
  BY DEF Run, Interrupt
<1>3. Advanced(session[s], q) /\ Onward(session[s], q)
  BY <1>1, ResumeAdvances, CancelAdvances, ResumeOnward, CancelOnward
<1>4. session'[s] = Finally(q)
  BY <1>2 DEF Becomes, SessionInv, SessionTypeOK
<1> QED BY <1>1, <1>3, <1>4, FinallyLowers

\* A step of a teardown goes on to its next await, or gives up.
LEMMA TeardownStepLowers ==
    ASSUME NEW r \in SessionState, TearingDown(r), NEW q \in SessionState, TeardownStep(r, q), q # r
    PROVE  StepsLeft(q) < StepsLeft(r)
<1>1. r.video = "pending" \/ r.video # "pending"
  OBVIOUS
<1>2. CASE r.close = "relay"
  BY <1>2 DEF TeardownStep, StepsLeft
<1>3. CASE r.close \in {"disconnect", "grace", "broker"}
  BY <1>3 DEF TeardownStep, StepsLeft
<1> QED BY <1>2, <1>3 DEF TearingDown

\* The steps of the task that closes a session.
LEMMA TeardownLowers ==
    ASSUME SessionInv, NEW s \in Sessions, Teardown(s) \/ InterruptTeardown(s), session'[s] # session[s]
    PROVE  StepsLeft(session'[s]) < StepsLeft(session[s])
<1>1. Sound(session[s]) /\ session[s] \in SessionState
  BY DEF SessionInv, Sound, Tracked
<1>2. PICK q : (q \in ResumeClose(session[s]) \/ q \in CancelClose(session[s])) /\ Becomes(s, q)
  BY DEF Teardown, InterruptTeardown
<1>3. TearingDown(session[s]) /\ TeardownStep(session[s], q) /\ q \in SessionState
  BY <1>1, <1>2, CloseReleases DEF Released, Sound, Tracked
<1>4. session'[s] = q
  BY <1>2 DEF Becomes, SessionInv, SessionTypeOK
<1> QED BY <1>1, <1>3, <1>4, TeardownStepLowers

\* A teardown where it was, with a future that may have been resolved meanwhile.
LEMMA WaitingKeeps ==
    ASSUME NEW r, NEW q, q.close = r.close, FuturesKept(r, q)
    PROVE  StepsLeft(q) <= StepsLeft(r)
<1>1. CASE r.close = "relay"
  BY <1>1 DEF FuturesKept, StepsLeft
<1>2. CASE r.close # "relay"
  BY <1>2 DEF StepsLeft
<1> QED BY <1>1, <1>2

\* The awaits left are numbers.
LEMMA LeftAreNumbers ==
    ASSUME NEW r \in SessionState
    PROVE  ResumesLeft(r) \in Int /\ StepsLeft(r) \in 0..5
<1>1. r.attempt \in Int /\ DialAttempts \in Int
  BY DialAssumption DEF SessionState
<1>2. ResumesLeft(r) \in Int
  BY <1>1 DEF ResumesLeft, SessionState, Starting
<1>3. StepsLeft(r) \in 0..5
  BY DEF StepsLeft, SessionState
<1> QED BY <1>2, <1>3

\* No task and no callback adds to what is left.
LEMMA NothingAdds ==
    ASSUME SessionInv, SessionNext, NEW s \in Sessions
    PROVE  Nearer(s)
<1> DEFINE r == session[s]
           q == session'[s]
<1>1. Sound(r) /\ r \in SessionState /\ session \in [Sessions -> SessionState]
  BY DEF SessionInv, SessionTypeOK
<1>2. PICK t \in Sessions : \/ Create(t) \/ Run(t) \/ Interrupt(t) \/ CloseFromOutside(t)
                           \/ Teardown(t) \/ InterruptTeardown(t)
                           \/ Callback(t) \/ OnMediaRecord(t)
  BY DEF SessionNext
<1>3. SessionInv' /\ q \in SessionState
  BY SessionStepInv DEF SessionInv, SessionTypeOK
<1>4. ResumesLeft(r) \in Int /\ ResumesLeft(q) \in Int /\ StepsLeft(r) \in 0..5 /\ StepsLeft(q) \in 0..5
  BY <1>1, <1>3, LeftAreNumbers
<1>5. CASE q = r
  <2>1. ResumesLeft(q) = ResumesLeft(r) /\ StepsLeft(q) = StepsLeft(r)
    BY <1>5
  <2>2. r.phase \in Starting => ~(Run(s) \/ Interrupt(s))
    BY <1>4, <2>1, RunLowers
  <2> QED BY <1>4, <1>5, <2>1, <2>2 DEF Nearer
<1>6. CASE q # r
  <2>1. t = s
    <3>1. \E x : Becomes(t, x)
      BY <1>1, <1>2, CallbackEffect DEF Create, Run, Interrupt, CloseFromOutside, Teardown, InterruptTeardown, SessionInv
    <3> QED BY <1>1, <1>6, <3>1 DEF Becomes
  <2>2. ASSUME r.phase \in Starting PROVE ResumesLeft(q) <= ResumesLeft(r)
    <3>1. CASE Run(s) \/ Interrupt(s)
      BY <1>4, <2>2, <3>1, RunLowers
    <3>2. CASE ~(Run(s) \/ Interrupt(s))
      <4>1. q.phase = r.phase /\ q.attempt = r.attempt
        <5>1. ~Create(s)
          BY <2>2 DEF Create, Starting
        <5>2. CASE CloseFromOutside(s)
          BY <1>1, <5>2, BeginCloseReleases DEF CloseFromOutside, Starting, Sound, Released, Becomes
        <5>3. CASE Teardown(s) \/ InterruptTeardown(s)
          BY <1>1, <5>3, CloseReleases DEF Teardown, InterruptTeardown, Released, Becomes
        <5>4. CASE Callback(s) \/ OnMediaRecord(s)
          BY <1>1, <5>4, CallbackEffect DEF CalledBack, Becomes
        <5> QED BY <1>2, <2>1, <3>2, <5>1, <5>2, <5>3, <5>4
      <4>2. ResumesLeft(q) = ResumesLeft(r)
        BY <4>1 DEF ResumesLeft
      <4> QED BY <1>4, <4>2
    <3> QED BY <3>1, <3>2
  <2>3. ASSUME TearingDown(r) PROVE StepsLeft(q) <= StepsLeft(r)
    <3>1. CASE Teardown(s) \/ InterruptTeardown(s)
      BY <1>4, <1>6, <3>1, TeardownLowers
    <3>2. CASE ~(Teardown(s) \/ InterruptTeardown(s))
      <4>1. q.close = r.close /\ FuturesKept(r, q)
        <5>0. r.close # "open" /\ r.phase # "new"
          BY <1>1, <2>3 DEF TearingDown, Sound, Tracked, PhaseInv
        <5>1. ~Create(s) /\ ~CloseFromOutside(s)
          BY <5>0 DEF Create, CloseFromOutside, Closes
        <5>2. CASE Run(s) \/ Interrupt(s)
          <6>1. PICK x \in Resume(r) \union Cancel(r) : Becomes(s, Finally(x))
            BY <5>2 DEF Run, Interrupt
          <6>2. Advanced(r, x)
            BY <1>1, ResumeAdvances, CancelAdvances
          <6>3. Finally(x) = x
            BY <5>0, <6>2 DEF Finally, BeginClose, Closes, Advanced
          <6> QED BY <1>1, <6>1, <6>2, <6>3 DEF Becomes, Advanced
        <5>3. CASE Callback(s) \/ OnMediaRecord(s)
          BY <1>1, <5>3, CallbackEffect DEF CalledBack, Becomes
        <5> QED BY <1>2, <2>1, <3>2, <5>1, <5>2, <5>3
      <4> QED BY <4>1, WaitingKeeps
    <3> QED BY <3>1, <3>2
  <2> QED BY <2>2, <2>3, RunLowers, TeardownLowers DEF Nearer
<1> QED BY <1>5, <1>6

\* async_start comes nearer to its result with every resumption and async_close
\* to its end, whatever the other tasks and the callbacks do in between.
THEOREM EndComesNearer == SessionSpec => EndApproaches
<1> DEFINE All == \A s \in Sessions : Nearer(s)
<1>1. SessionInv /\ [SessionNext]_session => [All]_session
  BY NothingAdds
<1>2. EndApproaches <=> [][All]_session
  BY DEF EndApproaches
<1> HIDE DEF All
<1> QED BY <1>1, <1>2, SessionInvariant, PTL DEF SessionSpec

\* A teardown has a next step.
LEMMA TeardownGoesOn ==
    ASSUME NEW r \in SessionState, TearingDown(r)
    PROVE  \E q \in ResumeClose(r) : q # r
<1>1. CASE r.close = "relay"
  <2>1. PICK q : q \in CloseRelay(r) /\ q.close \in {"disconnect", "done"}
    <3> DEFINE x == [[r EXCEPT !.video = Resolve(r.video, "cancelled")] EXCEPT !.relay = "none"]
    <3>1. TakeMoto(x) \in CloseRelay(r)
      BY DEF CloseRelay
    <3>2. TakeMoto(x).close \in {"disconnect", "done"}
      BY DEF TakeMoto, SessionState
    <3> QED BY <3>1, <3>2
  <2> QED BY <1>1, <2>1 DEF ResumeClose
<1>2. CASE r.close = "disconnect"
  <2>1. PICK d : [r EXCEPT !.close = "grace", !.device = d] \in SendDisconnect(r)
    BY DEF SendDisconnect
  <2>2. [r EXCEPT !.close = "grace", !.device = d].close = "grace"
    BY DEF SessionState
  <2> QED BY <1>2, <2>1, <2>2 DEF ResumeClose
<1>3. CASE r.close = "grace"
  <2>1. PICK b : [r EXCEPT !.close = "broker", !.broker = b] \in AfterGrace(r)
    BY DEF AfterGrace
  <2>2. [r EXCEPT !.close = "broker", !.broker = b].close = "broker"
    BY DEF SessionState
  <2> QED BY <1>3, <2>1, <2>2 DEF ResumeClose
<1>4. CASE r.close = "broker"
  <2>1. [r EXCEPT !.close = "done", !.broker = "down"] \in CloseBroker(r)
    BY DEF CloseBroker
  <2>2. [r EXCEPT !.close = "done", !.broker = "down"].close = "done"
    BY DEF SessionState
  <2> QED BY <1>4, <2>1, <2>2 DEF ResumeClose
<1> QED BY <1>1, <1>2, <1>3, <1>4 DEF TearingDown

\* Neither async_start nor async_close comes to an await that nothing ends.
THEOREM SessionsMoveOn == SessionSpec => []NeverStuck
<1>1. SessionInv => NeverStuck
  <2> SUFFICES ASSUME SessionInv, NEW s \in Sessions
               PROVE  /\ session[s].phase \in Starting =>
                            Resume(session[s]) # {} /\ ResumesLeft(session[s]) \in 1..(2 * DialAttempts + 6)
                      /\ session[s].phase = "up" /\ session[s].ended => Resume(session[s]) # {}
                      /\ session[s].phase = "over" => session[s].close # "open"
                      /\ TearingDown(session[s]) => \E q \in ResumeClose(session[s]) : q # session[s]
    BY DEF NeverStuck
  <2>1. session[s] \in SessionState /\ (session[s].phase = "over" => session[s].close # "open")
    BY DEF SessionInv, Sound, Tracked
  <2>2. ASSUME session[s].phase \in Starting PROVE ResumesLeft(session[s]) \in 1..(2 * DialAttempts + 6)
    <3>1. session[s].attempt \in 0..DialAttempts /\ DialAttempts \in Nat \ {0}
      BY <2>1, DialAssumption DEF SessionState
    <3>2. ResumesLeft(session[s]) > 0
      BY <2>2, <3>1 DEF ResumesLeft, Starting
    <3>3. ResumesLeft(session[s]) <= 2 * DialAttempts + 6
      BY <2>2, <3>1 DEF ResumesLeft, Starting
    <3>4. ResumesLeft(session[s]) \in Int
      BY <2>1, LeftAreNumbers
    <3> QED BY <3>1, <3>2, <3>3, <3>4
  <2>3. session[s].phase = "up" /\ session[s].ended => Resume(session[s]) # {}
    BY DEF Resume, WaitClosed
  <2> QED BY <2>1, <2>2, <2>3, ResumeOnward, TeardownGoesOn
<1> QED BY <1>1, SessionInvariant, PTL
=============================================================================
