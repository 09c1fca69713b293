------------------------- MODULE AccountClientProofs -------------------------
(***************************************************************************)
(* The shared login, for any number of tasks and of logins.                *)
(***************************************************************************)
EXTENDS AccountClient, TLAPS

\* Who is inside a login holds the lock, so that nobody else changes _account.
LockHeld == \A c \in Callers : task[c].pc \in LoginCalls => holder = c

\* The order of the sessions a task knows: an answer to a login that is on its way
\* is newer than _account, and every other session is at most as new.
Ordered(t) ==
    /\ t.login <= issued
    /\ t.pc = "password" /\ t.reply = "ok" => t.login > account
    /\ t.session <= account /\ t.refused <= account
    /\ t.pc \in SessionCalls /\ t.refused # 0 => t.session > t.refused
    /\ t.pc \in SessionCalls \union {"idle"} => t.login = 0

SessionsOrdered == account <= issued /\ \A c \in Callers : Ordered(task[c])

Inv == TypeOK /\ LockHeld /\ SessionsOrdered

\* A step that gives one task a new record and leaves the counters alone keeps the
\* invariant if the new record is ordered and, when it is inside a login, its task
\* has the lock.
LEMMA OneTaskMoves ==
    ASSUME Inv, NEW c \in Callers, NEW t \in Task, Become(c, t),
           account' = account, issued' = issued, valid' \subseteq valid,
           holder' \in Callers \union {None}, waiters' \in Seq(Callers),
           \A d \in Callers \ {c} : holder = d => holder' = d,
           t.pc \in LoginCalls => holder' = c,
           Ordered(t)
    PROVE  Inv'
<1>1. task' \in [Callers -> Task] /\ task'[c] = t /\ \A d \in Callers \ {c} : task'[d] = task[d]
  BY DEF Inv, TypeOK, Become
<1>2. TypeOK'
  BY <1>1 DEF Inv, TypeOK
<1>3. LockHeld'
  BY <1>1 DEF Inv, LockHeld
<1>4. SessionsOrdered'
  BY <1>1 DEF Inv, SessionsOrdered, Ordered
<1> QED BY <1>2, <1>3, <1>4 DEF Inv

\* What is known of a task's record.
LEMMA TaskFacts ==
    ASSUME Inv, NEW c \in Callers
    PROVE  /\ task[c] \in Task /\ Ordered(task[c]) /\ account \in Nat /\ issued \in Nat
           /\ holder \in Callers \union {None} /\ waiters \in Seq(Callers)
BY DEF Inv, TypeOK, SessionsOrdered

\* A task at a call that is not a login call is ordered as before.
LEMMA AtProperties ==
    ASSUME NEW t \in Task, NEW call \in {"lock"} \union LoginCalls \union SessionCalls
    PROVE  /\ At(t, call) \in Task /\ At(t, call).pc = call /\ At(t, call).reply = "none"
           /\ At(t, call).session = t.session /\ At(t, call).refused = t.refused
           /\ At(t, call).login = t.login /\ At(t, call).op = t.op /\ At(t, call).todo = t.todo
BY DEF At, Task, LoginCalls, SessionCalls

\* A task that has done nothing yet is ordered.
LEMMA BegunProperties ==
    ASSUME NEW op \in Operations, Inv
    PROVE  /\ Begun(op) \in Task /\ Ordered(Begun(op)) /\ Begun(op).pc = "idle"
           /\ Begun(op).op = op /\ Begun(op).refused = 0 /\ Begun(op).todo = 0
BY DEF Begun, Task, Ordered, Inv, TypeOK, SessionsOrdered, SessionCalls

\* A task that got a session makes its call with it, or is done.
LEMMA UseProperties ==
    ASSUME NEW t \in Task, NEW s \in Nat
    PROVE  /\ Use(t, s) \in Task /\ Use(t, s).pc \in SessionCalls \union {"idle"}
           /\ Use(t, s).reply = "none" /\ Use(t, s).login = 0
           /\ Use(t, s).session \in {0, s} /\ Use(t, s).refused \in {0, t.refused}
           /\ Use(t, s).pc \in SessionCalls =>
                 Use(t, s).session = s /\ Use(t, s).refused = t.refused
           /\ Use(t, s).pc # "devices" /\ Use(t, s).todo \in {0, t.todo}
<1> DEFINE got == [t EXCEPT !.session = s, !.login = 0]
<1>1. /\ got \in Task /\ got.session = s /\ got.login = 0 /\ got.refused = t.refused
      /\ got.todo = t.todo /\ t.op \in Operations
  BY DEF Task
<1> HIDE DEF got
<1>2. CASE t.op \in {"login", "account"}
  <2>1. Use(t, s) = Over
    BY <1>2 DEF Use
  <2> QED BY <2>1 DEF Over, Begun, Task, SessionCalls, Operations
<1>3. CASE t.op \in {"list", "discover"}
  <2>1. Use(t, s) = At(got, "homes")
    BY <1>3 DEF Use, got
  <2> QED BY <2>1, <1>1, AtProperties DEF SessionCalls
<1>4. CASE t.op = "stream"
  <2>1. Use(t, s) = At(got, "config")
    BY <1>4 DEF Use, got
  <2> QED BY <2>1, <1>1, AtProperties DEF SessionCalls
<1> QED BY <1>1, <1>2, <1>3, <1>4 DEF Operations

\* Entering async_login, from the start of an operation or after a refusal.
LEMMA LogInKeepsInv ==
    ASSUME Inv, NEW c \in Callers, NEW t \in Task, LogIn(c, t),
           t.session <= account, t.refused <= account, t.login <= issued,
           account' = account, issued' = issued, valid' = valid
    PROVE  Inv'
<1>1. holder \in Callers \union {None} /\ waiters \in Seq(Callers)
  BY TaskFacts
<1>2. CASE holder = None /\ holder' = c /\ Become(c, At(t, "token")) /\ UNCHANGED waiters
  <2>1. At(t, "token") \in Task /\ Ordered(At(t, "token")) /\ At(t, "token").pc = "token"
    BY AtProperties DEF Ordered, LoginCalls, SessionCalls
  <2>2. \A d \in Callers \ {c} : holder = d => holder' = d
    BY <1>2, AccountAssumption
  <2> QED BY <1>1, <1>2, <2>1, <2>2, OneTaskMoves
<1>3. CASE /\ waiters' = Append(waiters, c) /\ Become(c, At(t, "lock")) /\ UNCHANGED holder
  <2>1. At(t, "lock") \in Task /\ Ordered(At(t, "lock")) /\ At(t, "lock").pc = "lock"
    BY AtProperties DEF Ordered, LoginCalls, SessionCalls
  <2>2. waiters' \in Seq(Callers)
    BY <1>1, <1>3
  <2>3. At(t, "lock").pc \notin LoginCalls
    BY <2>1 DEF LoginCalls
  <2> QED BY <1>1, <1>3, <2>1, <2>2, <2>3, OneTaskMoves
<1> QED BY <1>2, <1>3 DEF LogIn

\* Operations begin.
LEMMA BeginKeepsInv ==
    ASSUME Inv, NEW c \in Callers, Login(c) \/ \E op \in Operations : Call(c, op)
    PROVE  Inv'
<1>1. CASE Login(c)
  <2>1. "login" \in Operations
    BY DEF Operations
  <2>2. Begun("login") \in Task /\ Ordered(Begun("login"))
    BY <2>1, BegunProperties
  <2> QED BY <1>1, <2>2, LogInKeepsInv DEF Login, Ordered
<1>2. ASSUME NEW op \in Operations, Call(c, op) PROVE Inv'
  <2>1. Begun(op) \in Task /\ Ordered(Begun(op)) /\ Begun(op).refused = 0
    BY BegunProperties
  <2>2. CASE account = 0 /\ LogIn(c, Begun(op))
    BY <1>2, <2>1, <2>2, LogInKeepsInv DEF Call, Ordered
  <2>3. CASE Become(c, Use(Begun(op), account)) /\ UNCHANGED <<holder, waiters>>
    <3>1. account \in Nat /\ issued \in Nat
      BY TaskFacts
    <3>2. PICK t \in Task : t = Use(Begun(op), account)
      BY <2>1, <3>1, UseProperties
    <3>3. /\ t.pc \in SessionCalls \union {"idle"} /\ t.reply = "none" /\ t.login = 0
          /\ t.session \in {0, account} /\ t.refused = 0
      BY <2>1, <3>1, <3>2, UseProperties
    <3>4. Ordered(t) /\ t.pc \notin LoginCalls
      BY <3>1, <3>3 DEF Ordered, SessionCalls, LoginCalls
    <3> QED BY <1>2, <2>3, <3>2, <3>4, TaskFacts, OneTaskMoves DEF Call
  <2> QED BY <1>2, <2>2, <2>3 DEF Call
<1> QED BY <1>1, <1>2

\* The lock passes to the first task that waits for it.
LEMMA AcquireKeepsInv == ASSUME Inv, NEW c \in Callers, AcquireLock(c) PROVE Inv'
<1>1. /\ task[c] \in Task /\ Ordered(task[c]) /\ waiters \in Seq(Callers) /\ waiters # <<>>
  BY TaskFacts DEF AcquireLock
<1>2. /\ At(task[c], "token") \in Task /\ Ordered(At(task[c], "token"))
      /\ At(task[c], "token").pc = "token"
  BY <1>1, AtProperties DEF Ordered, LoginCalls, SessionCalls
<1>3. Tail(waiters) \in Seq(Callers)
  BY <1>1
<1>4. \A d \in Callers \ {c} : holder = d => holder' = d
  BY AccountAssumption DEF AcquireLock
<1> QED BY <1>2, <1>3, <1>4, OneTaskMoves DEF AcquireLock

\* A task whose login was accepted.
LEMMA AcceptedProperties ==
    ASSUME NEW t \in Task, NEW n \in Nat
    PROVE  /\ Accepted(t, n) \in Task /\ Accepted(t, n).pc = t.pc /\ Accepted(t, n).login = n
           /\ Accepted(t, n).session = t.session /\ Accepted(t, n).refused = t.refused
BY DEF Task, Accepted

\* The gateway issues a session: it is newer than all that are known.
LEMMA IssueKeepsInv == ASSUME Inv, NEW c \in Callers, IssueSession(c) PROVE Inv'
<1>1. /\ task[c] \in Task /\ Ordered(task[c]) /\ account \in Nat /\ issued + 1 \in Nat
      /\ account <= issued /\ issued \in Nat
  BY TaskFacts DEF Inv, SessionsOrdered
<1> DEFINE t == Accepted(task[c], issued + 1)
<1>2. /\ t \in Task /\ t.pc = task[c].pc /\ t.login = issued + 1
      /\ t.session = task[c].session /\ t.refused = task[c].refused
  BY <1>1, AcceptedProperties
<1>3. /\ task' \in [Callers -> Task] /\ task'[c].pc = "password" /\ task'[c].login = issued + 1
      /\ task'[c].session = task[c].session /\ task'[c].refused = task[c].refused
      /\ \A d \in Callers \ {c} : task'[d] = task[d]
  BY <1>2 DEF Inv, TypeOK, IssueSession, Become
<1> HIDE DEF t
<1>4. TypeOK'
  BY <1>1, <1>3 DEF Inv, TypeOK, IssueSession
<1>5. LockHeld'
  BY <1>3 DEF Inv, LockHeld, IssueSession, LoginCalls
<1>6. Ordered(task[c])'
  BY <1>1, <1>3 DEF Ordered, IssueSession, SessionCalls
<1>7. ASSUME NEW d \in Callers \ {c} PROVE Ordered(task[d])'
  <2>1. Ordered(task[d]) /\ task[d].login \in Nat
    BY TaskFacts DEF Task
  <2> QED BY <1>1, <1>3, <2>1 DEF Ordered, IssueSession
<1>8. SessionsOrdered'
  BY <1>1, <1>6, <1>7 DEF SessionsOrdered, IssueSession
<1> QED BY <1>4, <1>5, <1>8 DEF Inv

\* A login is stored.  Nobody else is inside a login, so that the only answer that
\* had to be newer than _account is the one that is stored now.
LEMMA LoggedInKeepsInv == ASSUME Inv, NEW c \in Callers, LoggedIn(c) PROVE Inv'
<1> DEFINE s == task[c].login
<1>1. /\ task[c] \in Task /\ account \in Nat /\ issued \in Nat /\ s \in Nat
      /\ account < s /\ s <= issued /\ task[c].refused \in Nat /\ task[c].refused <= account
      /\ holder = c
  <2>1. task[c] \in Task /\ Ordered(task[c]) /\ account \in Nat /\ issued \in Nat
    BY TaskFacts
  <2>2. s \in Nat /\ task[c].refused \in Nat /\ task[c].pc = "password" /\ task[c].reply = "ok"
    BY <2>1 DEF LoggedIn, Task
  <2>3. holder = c
    BY <2>2 DEF Inv, LockHeld, LoginCalls
  <2> QED BY <2>1, <2>2, <2>3 DEF Ordered
<1>2. /\ Use(task[c], s) \in Task /\ Use(task[c], s).pc \in SessionCalls \union {"idle"}
      /\ Use(task[c], s).login = 0 /\ Use(task[c], s).session \in {0, s}
      /\ Use(task[c], s).refused \in {0, task[c].refused}
      /\ Use(task[c], s).pc \in SessionCalls => Use(task[c], s).session = s
  BY <1>1, UseProperties
<1>3. /\ account' = s /\ issued' = issued /\ valid' = valid /\ waiters' = waiters
      /\ holder' = None
      /\ task' \in [Callers -> Task] /\ task'[c] = Use(task[c], s)
      /\ \A d \in Callers \ {c} : task'[d] = task[d]
  BY <1>1, <1>2 DEF Inv, TypeOK, LoggedIn, Become
<1>4. \A d \in Callers \ {c} : task[d].pc \notin LoginCalls
  BY <1>1 DEF Inv, LockHeld
<1>5. TypeOK'
  BY <1>1, <1>3 DEF Inv, TypeOK
<1>6. LockHeld'
  BY <1>2, <1>3, <1>4 DEF LockHeld, LoginCalls, SessionCalls
<1>7. Ordered(task[c])'
  BY <1>1, <1>2, <1>3 DEF Ordered, SessionCalls
<1>8. ASSUME NEW d \in Callers \ {c} PROVE Ordered(task[d])'
  <2>1. Ordered(task[d]) /\ task[d].session \in Nat /\ task[d].refused \in Nat
    BY TaskFacts DEF Task
  <2> QED BY <1>1, <1>3, <1>4, <2>1 DEF Ordered, LoginCalls
<1>9. SessionsOrdered'
  BY <1>1, <1>3, <1>7, <1>8 DEF SessionsOrdered
<1> QED BY <1>5, <1>6, <1>9 DEF Inv

\* The records a task in a call made with a session goes on with.
MovesOn(t, u) ==
    \/ u = Over
    \/ /\ u \in Task /\ u.pc \in SessionCalls /\ u.session = t.session
       /\ u.refused = t.refused /\ u.login = t.login

\* An answer moves such a task on.
LEMMA MovesOnKeepsInv ==
    ASSUME Inv, NEW c \in Callers, task[c].pc \in SessionCalls,
           NEW u, MovesOn(task[c], u), Become(c, u),
           UNCHANGED <<account, holder, waiters, issued, valid>>
    PROVE  Inv'
<1>1. task[c] \in Task /\ Ordered(task[c]) /\ issued \in Nat
  BY TaskFacts
<1>2. u \in Task /\ Ordered(u) /\ u.pc \notin LoginCalls
  <2>1. CASE u = Over
    <3>1. "account" \in Operations
      BY DEF Operations
    <3> QED BY <2>1, <3>1, BegunProperties DEF Over, LoginCalls
  <2>2. CASE u # Over
    BY <1>1, <2>2 DEF MovesOn, Ordered, LoginCalls, SessionCalls
  <2> QED BY <2>1, <2>2
<1> QED BY <1>2, TaskFacts, OneTaskMoves

\* The next call of a loop, with or without a new count of what remains.
LEMMA NextCallMovesOn ==
    ASSUME NEW t \in Task, NEW n \in Nat, NEW call \in SessionCalls
    PROVE  MovesOn(t, At([t EXCEPT !.todo = n], call))
<1> DEFINE r == [t EXCEPT !.todo = n]
<1>1. r \in Task /\ r.session = t.session /\ r.refused = t.refused /\ r.login = t.login
  BY DEF Task
<1> HIDE DEF r
<1>2. MovesOn(t, At(r, call))
  BY <1>1, AtProperties DEF MovesOn
<1> QED BY <1>2 DEF r

\* A probe that is over moves on.
LEMMA NextProbeMovesOn ==
    ASSUME NEW t \in Task PROVE MovesOn(t, NextProbe(t))
<1>1. CASE t.todo > 1
  <2>1. t.todo - 1 \in Nat /\ "config" \in SessionCalls
    BY <1>1 DEF Task, SessionCalls
  <2>2. NextProbe(t) = At([t EXCEPT !.todo = t.todo - 1], "config")
    BY <1>1 DEF NextProbe
  <2> QED BY <2>1, <2>2, NextCallMovesOn
<1>2. CASE ~(t.todo > 1)
  BY <1>2 DEF NextProbe, MovesOn
<1> QED BY <1>1, <1>2

\* The end of a listing moves on.
LEMMA ListedKeepsInv ==
    ASSUME Inv, NEW c \in Callers, task[c].pc \in SessionCalls, Listed(c, task[c]),
           UNCHANGED <<account, holder, waiters, issued, valid>>
    PROVE  Inv'
<1>1. CASE Become(c, Over)
  BY <1>1, MovesOnKeepsInv DEF MovesOn
<1>2. ASSUME NEW n \in 0..MaxItems, Become(c, At([task[c] EXCEPT !.todo = n], "config"))
      PROVE  Inv'
  <2>1. task[c] \in Task /\ n \in Nat /\ "config" \in SessionCalls
    BY TaskFacts, AccountAssumption DEF SessionCalls
  <2>2. MovesOn(task[c], At([task[c] EXCEPT !.todo = n], "config"))
    BY <2>1, NextCallMovesOn
  <2> QED BY <1>2, <2>2, MovesOnKeepsInv
<1> QED BY <1>1, <1>2 DEF Listed

\* The answers to calls made with a session.
LEMMA AnswersKeepInv ==
    ASSUME Inv, NEW c \in Callers,
           HomesAnswered(c) \/ DevicesAnswered(c) \/ ConfigAnswered(c) \/ ProbeFails(c)
    PROVE  Inv'
<1>1. task[c] \in Task /\ task[c].todo \in Nat
  BY TaskFacts DEF Task
<1>2. /\ task[c].pc \in SessionCalls /\ "devices" \in SessionCalls
      /\ UNCHANGED <<account, holder, waiters, issued, valid>>
  BY DEF HomesAnswered, DevicesAnswered, ConfigAnswered, ProbeFails, SessionCalls
<1>3. CASE Listed(c, task[c])
  BY <1>2, <1>3, ListedKeepsInv
<1>4. ASSUME NEW n \in 1..MaxItems, Become(c, At([task[c] EXCEPT !.todo = n], "devices"))
      PROVE  Inv'
  <2>1. n \in Nat
    BY AccountAssumption
  <2>2. MovesOn(task[c], At([task[c] EXCEPT !.todo = n], "devices"))
    BY <1>1, <1>2, <2>1, NextCallMovesOn
  <2> QED BY <1>2, <1>4, <2>2, MovesOnKeepsInv
<1>5. CASE HomesAnswered(c)
  BY <1>3, <1>4, <1>5 DEF HomesAnswered
<1>6. CASE DevicesAnswered(c)
  <2>1. CASE task[c].todo > 1
    <3>1. task[c].todo - 1 \in Nat
      BY <1>1, <2>1
    <3>2. MovesOn(task[c], At([task[c] EXCEPT !.todo = task[c].todo - 1], "devices"))
      BY <1>1, <1>2, <3>1, NextCallMovesOn
    <3>3. Become(c, At([task[c] EXCEPT !.todo = task[c].todo - 1], "devices"))
      BY <1>6, <2>1 DEF DevicesAnswered
    <3> QED BY <1>2, <3>2, <3>3, MovesOnKeepsInv
  <2>2. CASE ~(task[c].todo > 1)
    BY <1>3, <1>6, <2>2 DEF DevicesAnswered
  <2> QED BY <2>1, <2>2
<1>7. CASE Become(c, NextProbe(task[c])) \/ Become(c, Over)
  <2>1. MovesOn(task[c], NextProbe(task[c])) /\ MovesOn(task[c], Over)
    BY <1>1, NextProbeMovesOn DEF MovesOn
  <2> QED BY <1>2, <1>7, <2>1, MovesOnKeepsInv
<1>8. CASE ConfigAnswered(c) \/ ProbeFails(c)
  BY <1>7, <1>8 DEF ConfigAnswered, ProbeFails
<1> QED BY <1>5, <1>6, <1>8

\* The gateway handles a call, or answers the first call of a login.
LEMMA HandledKeepsInv ==
    ASSUME Inv, NEW c \in Callers, HandleCall(c) \/ TokenAnswered(c)
    PROVE  Inv'
<1>1. task[c] \in Task /\ Ordered(task[c])
  BY TaskFacts
<1>2. ASSUME HandleCall(c) PROVE Inv'
  <2>1. PICK reply \in {"ok", "expired"} : Become(c, [task[c] EXCEPT !.reply = reply])
    BY <1>2 DEF HandleCall
  <2>2. MovesOn(task[c], [task[c] EXCEPT !.reply = reply])
    BY <1>1, <1>2 DEF MovesOn, HandleCall, Task
  <2>3. task[c].pc \in SessionCalls /\ UNCHANGED <<account, holder, waiters, issued, valid>>
    BY <1>2 DEF HandleCall
  <2> QED BY <2>1, <2>2, <2>3, MovesOnKeepsInv
<1>3. ASSUME TokenAnswered(c) PROVE Inv'
  <2>1. "password" \in LoginCalls /\ task[c].pc \in LoginCalls
    BY <1>3 DEF TokenAnswered, LoginCalls
  <2>2. At(task[c], "password") \in Task /\ Ordered(At(task[c], "password"))
    BY <1>1, AtProperties DEF Ordered, LoginCalls, SessionCalls
  <2>3. holder = c
    BY <2>1 DEF Inv, LockHeld
  <2> QED BY <1>3, <2>2, <2>3, TaskFacts, OneTaskMoves DEF TokenAnswered
<1> QED BY <1>2, <1>3

\* Operations end, in a call or in the queue of the lock.
LEMMA EndKeepsInv ==
    ASSUME Inv, NEW c \in Callers,
           CallFails(c) \/ RefusedAgain(c) \/ CancelledInCall(c) \/ CancelledInQueue(c)
    PROVE  Inv'
<1>1. Over \in Task /\ Ordered(Over) /\ Over.pc \notin LoginCalls
  <2>1. "account" \in Operations
    BY DEF Operations
  <2> QED BY <2>1, BegunProperties DEF Over, LoginCalls
<1>2. /\ Become(c, Over) /\ UNCHANGED <<account, issued, valid>>
      /\ holder' \in {holder, None} /\ (holder # c => holder' = holder)
  BY DEF CallFails, RefusedAgain, CancelledInCall, CancelledInQueue
<1>3. waiters' \in Seq(Callers)
  <2>1. waiters \in Seq(Callers)
    BY TaskFacts
  <2>2. CASE waiters' = waiters
    BY <2>1, <2>2
  <2>3. ASSUME NEW i \in 1..Len(waiters), waiters' = RemoveAt(waiters, i)
        PROVE  waiters' \in Seq(Callers)
    <3>1. /\ SubSeq(waiters, 1, i - 1) \in Seq(Callers)
          /\ SubSeq(waiters, i + 1, Len(waiters)) \in Seq(Callers)
      BY <2>1
    <3> QED BY <2>3, <3>1 DEF RemoveAt
  <2> QED BY <2>2, <2>3 DEF CallFails, RefusedAgain, CancelledInCall, CancelledInQueue
<1>4. holder' \in Callers \union {None} /\ \A d \in Callers \ {c} : holder = d => holder' = d
  BY <1>2, TaskFacts
<1> QED BY <1>1, <1>2, <1>3, <1>4, OneTaskMoves

\* A refused task goes for a fresh login.
LEMMA RetryKeepsInv == ASSUME Inv, NEW c \in Callers, RetryBehindLogin(c) PROVE Inv'
<1> DEFINE t == [task[c] EXCEPT !.refused = task[c].session]
<1>1. task[c] \in Task /\ Ordered(task[c])
  BY TaskFacts
<1>2. /\ t \in Task /\ t.session = task[c].session /\ t.refused = task[c].session
      /\ t.login = task[c].login
  BY <1>1 DEF Task
<1>3. LogIn(c, t) /\ UNCHANGED <<account, issued, valid>>
  BY DEF RetryBehindLogin
<1> HIDE DEF t
<1> QED BY <1>1, <1>2, <1>3, LogInKeepsInv DEF Ordered

\* The gateway withdraws a session.
LEMMA ExpireKeepsInv == ASSUME Inv, NEW s, ExpireSession(s) PROVE Inv'
<1>1. TypeOK'
  BY DEF Inv, TypeOK, ExpireSession
<1>2. LockHeld' /\ SessionsOrdered'
  BY DEF Inv, LockHeld, SessionsOrdered, Ordered, ExpireSession
<1> QED BY <1>1, <1>2 DEF Inv

\* The invariant that makes the shared login work: the lock admits one login at a
\* time, so that an answer on its way is newer than everything the client knows.
THEOREM InvHolds == Spec => []Inv
<1>1. Init => Inv
  <2> SUFFICES ASSUME Init PROVE Inv
    OBVIOUS
  <2>1. Begun("account") \in Task
    BY DEF Begun, Task, Operations
  <2>2. TypeOK
    BY <2>1 DEF Init, TypeOK
  <2>3. LockHeld /\ SessionsOrdered
    BY DEF Init, LockHeld, SessionsOrdered, Ordered, Begun, LoginCalls, SessionCalls
  <2> QED BY <2>2, <2>3 DEF Inv
<1>2. Inv /\ [Next]_vars => Inv'
  <2> SUFFICES ASSUME Inv, [Next]_vars PROVE Inv'
    OBVIOUS
  <2>1. CASE UNCHANGED vars
    BY <2>1 DEF vars, Inv, TypeOK, LockHeld, SessionsOrdered, Ordered
  <2>2. ASSUME NEW c \in Callers, Answered(c) PROVE Inv'
    BY <2>2, HandledKeepsInv, LoggedInKeepsInv, AnswersKeepInv, RetryKeepsInv, EndKeepsInv
       DEF Answered
  <2> QED BY <2>1, <2>2, BeginKeepsInv, AcquireKeepsInv, IssueKeepsInv, HandledKeepsInv,
             EndKeepsInv, ExpireKeepsInv DEF Next
<1> QED BY <1>1, <1>2, PTL DEF Spec

\* Type correctness of the client, whatever the number of tasks and logins.
THEOREM TypeCorrect == Spec => []TypeOK
BY InvHolds, PTL DEF Inv

\* The call after a refusal is made with a session issued after the refused one,
\* whatever the other tasks do to _account while this one waits for the lock.
THEOREM RetriesAreFresh == Spec => []RetriedBehindFreshLogin
<1>1. Inv => RetriedBehindFreshLogin
  BY DEF Inv, SessionsOrdered, Ordered, RetriedBehindFreshLogin
<1> QED BY <1>1, InvHolds, PTL

\* What a stream reads from _account after its config call is of the login that
\* call was made with or of a later one.
THEOREM IdentitiesAreCurrent == Spec => []IdentityNotOlder
<1>1. Inv => IdentityNotOlder
  BY DEF Inv, SessionsOrdered, Ordered, IdentityNotOlder
<1> QED BY <1>1, InvHolds, PTL

\* async_login replaces the stored session only by one the gateway issued later.
THEOREM NewestLoginWins == Spec => AccountOnlyRenewed
<1>1. Inv /\ [Next]_vars => [account' # account => account' > account]_vars
  <2> SUFFICES ASSUME Inv, Next, account' # account PROVE account' > account
    BY DEF vars
  <2>1. ASSUME NEW c \in Callers, LoggedIn(c) PROVE account' > account
    <3>1. Ordered(task[c])
      BY TaskFacts
    <3> QED BY <2>1, <3>1 DEF LoggedIn, Ordered
  <2>2. ASSUME NEW c \in Callers, Answered(c) PROVE account' > account
    BY <2>1, <2>2 DEF Answered, TokenAnswered, HomesAnswered, DevicesAnswered, ConfigAnswered,
           RetryBehindLogin, RefusedAgain, CallFails, ProbeFails
  <2> QED BY <2>2 DEF Next, Login, Call, AcquireLock, IssueSession, HandleCall,
             CancelledInQueue, CancelledInCall, ExpireSession
<1> QED BY <1>1, InvHolds, PTL DEF Spec, AccountOnlyRenewed

-----------------------------------------------------------------------------
(* Progress.  OperationEnds needs the gateway's timeouts and the scheduler, *)
(* which is TLC's part.  What it needs of the code is here, for any number  *)
(* of tasks, homes and devices: the lock is never held by a task that has   *)
(* left async_login, its queue loses nobody and lets nobody overtake, and   *)
(* each step of an operation leaves it fewer calls.                         *)

\* The lock and its queue: a held lock is held by a task inside a login, and the
\* tasks that wait for it are in the queue once each, and nobody else is.
LockIsServed ==
    /\ holder # None => task[holder].pc \in LoginCalls
    /\ \A c \in Callers : task[c].pc = "lock" <=> \E i \in 1..Len(waiters) : waiters[i] = c
    /\ \A i, j \in 1..Len(waiters) : waiters[i] = waiters[j] => i = j

\* async_login is first come, first served: no task falls back in the queue.
NobodyOvertakes ==
    [][\A i \in 1..Len(waiters), j \in 1..Len(waiters') : waiters'[j] = waiters[i] => j <= i]_vars

\* 1 while the gateway has not handled a call.
Unhandled(t) == IF t.reply = "none" THEN 1 ELSE 0

\* What is left of an operation that is not refused.
RoundLeft(t) ==
    CASE t.pc = "lock" -> 4 * MaxItems + 10
      [] t.pc = "token" -> 4 * MaxItems + 9
      [] t.pc = "password" -> 4 * MaxItems + 7 + Unhandled(t)
      [] t.pc = "homes" -> 4 * MaxItems + 5 + Unhandled(t)
      [] t.pc = "devices" -> 2 * MaxItems + 2 * t.todo + 3 + Unhandled(t)
      [] t.pc = "config" -> 2 * t.todo + 1 + Unhandled(t)
      [] OTHER -> 0

\* The refusal it has not used yet may cost it another round.
CallsLeft(t) ==
    IF t.pc # "idle" /\ t.refused = 0 THEN RoundLeft(t) + 4 * MaxItems + 11 ELSE RoundLeft(t)

\* Whatever happens to an operation, answers, refusals, failures and other tasks'
\* logins, leaves fewer calls of it than there were: it cannot go round in circles.
OperationShrinks ==
    [][\A c \in Callers :
          task[c].pc # "idle" /\ task'[c] # task[c] => CallsLeft(task'[c]) < CallsLeft(task[c])]_vars

\* A refusal is remembered, since no call is made without a session, and a loop has
\* at most MaxItems calls left.
Refusable(t) == t.todo <= MaxItems /\ (t.pc \in SessionCalls => t.session > 0)

ProgressInv == Inv /\ LockIsServed /\ \A c \in Callers : Refusable(task[c])

\* The steps an operation is made of.
Forward(t, u) ==
    \/ u.pc = "idle"
    \/ /\ u.refused = t.refused
       /\ \/ t.pc = "lock" /\ u.pc = "token"
          \/ t.pc = "token" /\ u.pc = "password"
          \/ t.pc = "password" /\ t.reply = "none" /\ u.pc = "password" /\ u.reply # "none"
          \/ t.pc = "password" /\ t.reply # "none" /\ u.pc \in {"homes", "config"}
          \/ t.pc \in SessionCalls /\ t.reply = "none" /\ u.reply # "none" /\ u.pc = t.pc /\ u.todo = t.todo
          \/ t.pc = "homes" /\ t.reply # "none" /\ u.pc \in {"devices", "config"}
          \/ t.pc = "devices" /\ t.reply # "none" /\ u.pc = "devices" /\ u.todo < t.todo
          \/ t.pc = "devices" /\ u.pc = "config"
          \/ t.pc = "config" /\ u.pc = "config" /\ u.todo < t.todo
    \/ t.pc \in SessionCalls /\ t.refused = 0 /\ u.pc \in {"lock", "token"} /\ u.refused # 0

\* Each of them leaves fewer calls.
LEMMA ForwardShrinks ==
    ASSUME NEW t \in Task, t.pc # "idle", t.todo <= MaxItems,
           NEW u \in Task, u.todo <= MaxItems, Forward(t, u)
    PROVE  CallsLeft(u) < CallsLeft(t)
<1>1. t.todo \in Nat /\ u.todo \in Nat /\ MaxItems \in Nat
  BY AccountAssumption DEF Task
<1>2. PICK x \in 0..1, y \in 0..1 : /\ x = Unhandled(t) /\ y = Unhandled(u)
                                    /\ x = 1 <=> t.reply = "none"
                                    /\ y = 1 <=> u.reply = "none"
  BY DEF Unhandled
<1>3. t.pc \in {"lock"} \union LoginCalls \union SessionCalls
  BY DEF Task
<1>4. RoundLeft(t) \in 1..(4 * MaxItems + 10)
  <2>1. CASE t.pc \in {"lock", "token", "password", "homes"}
    BY <1>1, <1>2, <2>1 DEF RoundLeft
  <2>2. CASE t.pc \in {"devices", "config"}
    BY <1>1, <1>2, <2>2 DEF RoundLeft
  <2> QED BY <1>3, <2>1, <2>2 DEF LoginCalls, SessionCalls
<1>5. CASE u.pc = "idle"
  <2>1. CallsLeft(u) = 0
    BY <1>5 DEF CallsLeft, RoundLeft
  <2> QED BY <1>1, <1>4, <2>1 DEF CallsLeft
<1>6. CASE t.refused = 0 /\ u.pc \in {"lock", "token"} /\ u.refused # 0
  <2>1. CallsLeft(u) <= 4 * MaxItems + 10
    BY <1>1, <1>6 DEF CallsLeft, RoundLeft
  <2>2. CallsLeft(u) \in Int
    BY <1>1, <1>6 DEF CallsLeft, RoundLeft
  <2>3. CallsLeft(t) = RoundLeft(t) + 4 * MaxItems + 11
    BY <1>6 DEF CallsLeft
  <2> QED BY <1>1, <1>4, <2>1, <2>2, <2>3
<1>7. CASE u.refused = t.refused /\ u.pc # "idle" /\ Forward(t, u) /\ ~(t.pc \in SessionCalls /\ u.pc \in {"lock", "token"})
  <2>1. RoundLeft(u) \in Int /\ RoundLeft(u) < RoundLeft(t)
    <3>1. CASE t.pc \in {"lock", "token"}
      BY <1>1, <1>2, <1>7, <3>1 DEF Forward, RoundLeft, SessionCalls
    <3>2. CASE t.pc = "password"
      BY <1>1, <1>2, <1>7, <3>2 DEF Forward, RoundLeft, SessionCalls
    <3>3. CASE t.pc = "homes"
      BY <1>1, <1>2, <1>7, <3>3 DEF Forward, RoundLeft, SessionCalls
    <3>4. CASE t.pc = "devices"
      BY <1>1, <1>2, <1>7, <3>4 DEF Forward, RoundLeft, SessionCalls
    <3>5. CASE t.pc = "config"
      BY <1>1, <1>2, <1>7, <3>5 DEF Forward, RoundLeft, SessionCalls
    <3> QED BY <1>3, <3>1, <3>2, <3>3, <3>4, <3>5 DEF LoginCalls, SessionCalls
  <2> QED BY <1>1, <1>4, <1>7, <2>1 DEF CallsLeft
<1> QED BY <1>5, <1>6, <1>7 DEF Forward, SessionCalls

\* How the queue changes with a task's record: it joins at the end, leaves from
\* wherever it is, or has nothing to do with the queue.
QueueFollows(c, u) ==
    \/ task[c].pc # "lock" /\ u.pc # "lock" /\ waiters' = waiters
    \/ task[c].pc # "lock" /\ u.pc = "lock" /\ waiters' = Append(waiters, c)
    \/ /\ task[c].pc = "lock" /\ u.pc # "lock"
       /\ \E i \in 1..Len(waiters) :
             /\ waiters[i] = c /\ Len(waiters') = Len(waiters) - 1
             /\ \A j \in 1..(Len(waiters) - 1) :
                   waiters'[j] = IF j < i THEN waiters[j] ELSE waiters[j + 1]

\* The lock is free afterwards, its holder is as before, or it is the task itself.
LockFollows(c, u) ==
    \/ holder' = None
    \/ holder' = c /\ u.pc \in LoginCalls
    \/ holder' = holder /\ holder # c

\* What a step makes of the task that takes it.
Steps(c, u) ==
    /\ u \in Task /\ Become(c, u) /\ Refusable(u)
    /\ task[c].pc # "idle" => Forward(task[c], u)
    /\ QueueFollows(c, u) /\ LockFollows(c, u)

\* Who is not inside a login does not hold the lock.
LEMMA OnlyLoginsHold ==
    ASSUME ProgressInv, NEW c \in Callers, task[c].pc \notin LoginCalls
    PROVE  holder # c
BY AccountAssumption DEF ProgressInv, LockIsServed

\* An operation that is over.
LEMMA OverFacts ==
    ASSUME ProgressInv
    PROVE  Over \in Task /\ Over.pc = "idle" /\ Refusable(Over)
<1>1. "account" \in Operations
  BY DEF Operations
<1>2. Over \in Task /\ Over.pc = "idle" /\ Over.todo = 0
  BY <1>1, BegunProperties DEF Over, ProgressInv
<1> QED BY <1>2, AccountAssumption DEF Refusable, SessionCalls

\* Entering async_login, from idle or after the first refusal.
LEMMA LogInSteps ==
    ASSUME ProgressInv, NEW c \in Callers, NEW t \in Task, LogIn(c, t), t.todo <= MaxItems,
           \/ task[c].pc = "idle"
           \/ task[c].pc \in SessionCalls /\ task[c].refused = 0 /\ t.refused # 0
    PROVE  \E u : Steps(c, u)
<1>1. holder # c /\ task[c].pc # "lock"
  BY OnlyLoginsHold DEF LoginCalls, SessionCalls
<1>2. ASSUME NEW call \in {"token", "lock"}
      PROVE  /\ At(t, call) \in Task /\ At(t, call).pc = call /\ Refusable(At(t, call))
             /\ task[c].pc # "idle" => Forward(task[c], At(t, call))
  <2>1. /\ At(t, call) \in Task /\ At(t, call).pc = call
        /\ At(t, call).todo = t.todo /\ At(t, call).refused = t.refused
    BY AtProperties DEF LoginCalls
  <2> QED BY <2>1 DEF Refusable, Forward, SessionCalls
<1>3. CASE /\ holder' = c /\ Become(c, At(t, "token")) /\ UNCHANGED waiters
  <2>1. QueueFollows(c, At(t, "token")) /\ LockFollows(c, At(t, "token"))
    BY <1>1, <1>2, <1>3 DEF QueueFollows, LockFollows, LoginCalls
  <2> QED BY <1>2, <1>3, <2>1 DEF Steps
<1>4. CASE /\ waiters' = Append(waiters, c) /\ Become(c, At(t, "lock")) /\ UNCHANGED holder
  <2>1. QueueFollows(c, At(t, "lock")) /\ LockFollows(c, At(t, "lock"))
    BY <1>1, <1>2, <1>4 DEF QueueFollows, LockFollows
  <2> QED BY <1>2, <1>4, <2>1 DEF Steps
<1> QED BY <1>3, <1>4 DEF LogIn

\* Operations begin.
LEMMA BeginSteps ==
    ASSUME ProgressInv, NEW c \in Callers, Login(c) \/ \E op \in Operations : Call(c, op)
    PROVE  \E u : Steps(c, u)
<1>0. Inv /\ MaxItems \in Nat
  BY AccountAssumption DEF ProgressInv
<1>1. CASE Login(c)
  <2>1. "login" \in Operations
    BY DEF Operations
  <2>2. Begun("login") \in Task /\ Begun("login").todo <= MaxItems
    BY <1>0, <2>1, BegunProperties
  <2> QED BY <1>1, <2>2, LogInSteps DEF Login
<1>2. ASSUME NEW op \in Operations, Call(c, op) PROVE \E u : Steps(c, u)
  <2>1. Begun(op) \in Task /\ Begun(op).todo = 0 /\ Begun(op).todo <= MaxItems /\ task[c].pc = "idle"
    BY <1>0, <1>2, BegunProperties DEF Call
  <2>2. CASE LogIn(c, Begun(op))
    BY <2>1, <2>2, LogInSteps
  <2>3. CASE account # 0 /\ Become(c, Use(Begun(op), account)) /\ UNCHANGED <<holder, waiters>>
    <3>1. account \in Nat
      BY <1>0, TaskFacts
    <3>2. PICK u \in Task : u = Use(Begun(op), account)
      BY <2>1, <3>1, UseProperties
    <3>3. /\ u.pc \in SessionCalls \union {"idle"} /\ u.todo = 0
          /\ u.pc \in SessionCalls => u.session = account
      BY <2>1, <3>1, <3>2, UseProperties
    <3>4. Refusable(u) /\ u.pc # "lock"
      BY <1>0, <2>3, <3>1, <3>3 DEF Refusable, SessionCalls
    <3>5. holder # c
      BY <2>1, OnlyLoginsHold DEF LoginCalls
    <3>6. QueueFollows(c, u) /\ LockFollows(c, u)
      BY <2>1, <2>3, <3>4, <3>5 DEF QueueFollows, LockFollows
    <3> QED BY <2>1, <2>3, <3>2, <3>4, <3>6 DEF Steps
  <2> QED BY <1>2, <2>2, <2>3 DEF Call
<1> QED BY <1>1, <1>2

\* The first in the queue gets the lock.
LEMMA AcquireSteps == ASSUME ProgressInv, NEW c \in Callers, AcquireLock(c) PROVE \E u : Steps(c, u)
<1>1. task[c] \in Task /\ Refusable(task[c]) /\ waiters \in Seq(Callers)
  BY TaskFacts DEF ProgressInv
<1>2. PICK u \in Task : u = At(task[c], "token") /\ u.pc = "token" /\ u.todo = task[c].todo /\ u.refused = task[c].refused
  BY <1>1, AtProperties DEF LoginCalls
<1>3. Refusable(u) /\ Forward(task[c], u)
  BY <1>1, <1>2 DEF Refusable, Forward, SessionCalls, AcquireLock
<1>4. /\ 1 \in 1..Len(waiters) /\ waiters[1] = c /\ Len(waiters') = Len(waiters) - 1
      /\ \A j \in 1..(Len(waiters) - 1) : waiters'[j] = waiters[j + 1]
  BY <1>1 DEF AcquireLock
<1>5. QueueFollows(c, u)
  BY <1>2, <1>4 DEF QueueFollows, AcquireLock
<1>6. LockFollows(c, u)
  BY <1>2 DEF LockFollows, LoginCalls, AcquireLock
<1> QED BY <1>2, <1>3, <1>5, <1>6 DEF Steps, AcquireLock

\* The second of two sequences follows the first.
LEMMA BehindTheFront ==
    ASSUME NEW S, NEW front \in Seq(S), NEW back \in Seq(S),
           NEW j \in (Len(front) + 1)..(Len(front) + Len(back))
    PROVE  (front \o back)[j] = back[j - Len(front)]
OBVIOUS

\* A cancelled task leaves the queue.
LEMMA LeaveQueueSteps == ASSUME ProgressInv, NEW c \in Callers, CancelledInQueue(c) PROVE \E u : Steps(c, u)
<1>1. waiters \in Seq(Callers) /\ task[c].pc = "lock"
  BY TaskFacts DEF ProgressInv, CancelledInQueue
<1>2. PICK i \in 1..Len(waiters) : waiters[i] = c /\ waiters' = RemoveAt(waiters, i)
  BY DEF CancelledInQueue
<1>3. /\ Len(waiters') = Len(waiters) - 1
      /\ \A j \in 1..(Len(waiters) - 1) : waiters'[j] = IF j < i THEN waiters[j] ELSE waiters[j + 1]
  <2> DEFINE front == SubSeq(waiters, 1, i - 1)
             back == SubSeq(waiters, i + 1, Len(waiters))
  <2>1. /\ front \in Seq(Callers) /\ Len(front) = i - 1
        /\ \A j \in 1..(i - 1) : front[j] = waiters[j]
    BY <1>1
  <2>2. /\ back \in Seq(Callers) /\ Len(back) = Len(waiters) - i
        /\ \A j \in 1..(Len(waiters) - i) : back[j] = waiters[j + i]
    BY <1>1
  <2>3. waiters' = front \o back
    BY <1>2 DEF RemoveAt
  <2> HIDE DEF front, back
  <2>4. Len(waiters') = Len(waiters) - 1
    BY <1>1, <2>1, <2>2, <2>3
  <2>5. ASSUME NEW j \in 1..(Len(waiters) - 1)
        PROVE  waiters'[j] = IF j < i THEN waiters[j] ELSE waiters[j + 1]
    <3>1. CASE j < i
      BY <1>1, <2>1, <2>2, <2>3, <3>1
    <3>2. CASE ~(j < i)
      <4>1. j \in (Len(front) + 1)..(Len(front) + Len(back))
        BY <1>1, <2>1, <2>2, <3>2
      <4>2. (front \o back)[j] = back[j - Len(front)]
        BY <2>1, <2>2, <4>1, BehindTheFront
      <4>3. waiters'[j] = back[j - (i - 1)]
        BY <2>1, <2>3, <4>2
      <4>4. j - (i - 1) \in 1..(Len(waiters) - i) /\ (j - (i - 1)) + i = j + 1
        BY <1>1, <3>2
      <4> QED BY <2>2, <3>2, <4>3, <4>4
    <3> QED BY <3>1, <3>2
  <2> QED BY <2>4, <2>5
<1>4. holder # c
  BY <1>1, OnlyLoginsHold DEF LoginCalls
<1>5. QueueFollows(c, Over) /\ LockFollows(c, Over)
  <2>1. QueueFollows(c, Over)
    BY <1>1, <1>2, <1>3, OverFacts DEF QueueFollows
  <2> QED BY <1>4, <2>1 DEF LockFollows, CancelledInQueue
<1> QED BY <1>5, OverFacts DEF Steps, Forward, CancelledInQueue

\* The steps inside a login.
LEMMA LoginCallSteps ==
    ASSUME ProgressInv, NEW c \in Callers, TokenAnswered(c) \/ IssueSession(c) \/ LoggedIn(c)
    PROVE  \E u : Steps(c, u)
<1>1. /\ task[c] \in Task /\ Refusable(task[c]) /\ Ordered(task[c]) /\ account \in Nat /\ issued \in Nat
      /\ task[c].login \in Nat /\ MaxItems \in Nat
  BY TaskFacts, AccountAssumption DEF ProgressInv, Task
<1>2. task[c].pc \in LoginCalls /\ task[c].pc \notin {"lock", "idle"} /\ waiters' = waiters
  BY DEF TokenAnswered, IssueSession, LoggedIn, LoginCalls
<1>3. holder = c
  BY <1>2 DEF ProgressInv, Inv, LockHeld
<1>4. ASSUME NEW u \in Task, u.pc # "lock", Become(c, u), Refusable(u), Forward(task[c], u),
             holder' = None \/ (holder' = c /\ u.pc \in LoginCalls)
      PROVE  \E v : Steps(c, v)
  <2>1. QueueFollows(c, u) /\ LockFollows(c, u)
    BY <1>2, <1>4 DEF QueueFollows, LockFollows
  <2> QED BY <1>4, <2>1 DEF Steps
<1>5. CASE TokenAnswered(c)
  <2>1. PICK u \in Task : /\ u = At(task[c], "password") /\ u.pc = "password"
                          /\ u.todo = task[c].todo /\ u.refused = task[c].refused
    BY <1>1, AtProperties DEF LoginCalls
  <2>2. Refusable(u) /\ Forward(task[c], u)
    BY <1>1, <1>5, <2>1 DEF Refusable, Forward, SessionCalls, TokenAnswered
  <2>3. Become(c, u) /\ holder' = c /\ u.pc \in LoginCalls /\ u.pc # "lock"
    BY <1>3, <1>5, <2>1 DEF TokenAnswered, LoginCalls
  <2> QED BY <1>4, <2>2, <2>3
<1>6. CASE IssueSession(c)
  <2>1. PICK u \in Task : u = Accepted(task[c], issued + 1)
    BY <1>1, AcceptedProperties
  <2>2. u.pc = "password" /\ u.refused = task[c].refused /\ u.todo = task[c].todo /\ u.reply = "ok"
    BY <1>1, <1>6, <2>1 DEF Accepted, Task, IssueSession
  <2>3. Refusable(u) /\ Forward(task[c], u)
    BY <1>1, <1>6, <2>2 DEF Refusable, Forward, SessionCalls, IssueSession
  <2>4. Become(c, u) /\ holder' = c /\ u.pc \in LoginCalls /\ u.pc # "lock"
    BY <1>3, <1>6, <2>1, <2>2 DEF IssueSession, LoginCalls
  <2> QED BY <1>4, <2>3, <2>4
<1>7. CASE LoggedIn(c)
  <2>0. PICK s \in Nat : s = task[c].login
    BY <1>1
  <2>1. PICK u \in Task : u = Use(task[c], s)
    BY <1>1, UseProperties
  <2>2. /\ u.pc \in SessionCalls \union {"idle"} /\ u.pc # "devices" /\ u.todo \in {0, task[c].todo}
        /\ u.pc \in SessionCalls => u.session = s /\ u.refused = task[c].refused
    <3>1. /\ Use(task[c], s).pc \in SessionCalls \union {"idle"} /\ Use(task[c], s).pc # "devices"
          /\ Use(task[c], s).todo \in {0, task[c].todo}
      BY <1>1, UseProperties
    <3>2. Use(task[c], s).pc \in SessionCalls =>
             Use(task[c], s).session = s /\ Use(task[c], s).refused = task[c].refused
      BY <1>1, UseProperties
    <3> QED BY <2>1, <3>1, <3>2
  <2>3. task[c].login > 0 /\ task[c].pc = "password" /\ task[c].reply = "ok"
    BY <1>1, <1>7 DEF LoggedIn, Ordered
  <2>4. Refusable(u)
    BY <1>1, <2>0, <2>2, <2>3 DEF Refusable
  <2>5. Forward(task[c], u)
    BY <2>2, <2>3 DEF Forward, SessionCalls
  <2>6. Become(c, u) /\ holder' = None /\ u.pc # "lock"
    BY <1>3, <1>7, <2>0, <2>1, <2>2 DEF LoggedIn, SessionCalls
  <2> QED BY <1>4, <2>4, <2>5, <2>6
<1> QED BY <1>5, <1>6, <1>7

\* A task in a call made with a session whose step concerns neither the lock nor
\* the queue.
LEMMA QuietSteps ==
    ASSUME ProgressInv, NEW c \in Callers, task[c].pc \in SessionCalls, NEW u \in Task,
           u.pc \in SessionCalls \union {"idle"}, Become(c, u), Refusable(u), Forward(task[c], u),
           UNCHANGED <<holder, waiters>>
    PROVE  \E v : Steps(c, v)
<1>1. holder # c /\ task[c].pc # "lock" /\ u.pc # "lock"
  BY OnlyLoginsHold DEF LoginCalls, SessionCalls
<1>2. QueueFollows(c, u) /\ LockFollows(c, u)
  BY <1>1 DEF QueueFollows, LockFollows
<1> QED BY <1>2 DEF Steps

\* Operations that end in a call, with the lock if they have it.
LEMMA EndSteps ==
    ASSUME ProgressInv, NEW c \in Callers, CallFails(c) \/ RefusedAgain(c) \/ CancelledInCall(c)
    PROVE  \E u : Steps(c, u)
<1>1. task[c].pc # "lock" /\ waiters' = waiters /\ Become(c, Over)
  BY DEF CallFails, RefusedAgain, CancelledInCall, SessionExpired, LoginCalls, SessionCalls
<1>2. holder' = None \/ (holder' = holder /\ holder # c)
  <2>1. CASE CallFails(c) \/ CancelledInCall(c)
    BY <2>1 DEF CallFails, CancelledInCall
  <2>2. CASE RefusedAgain(c)
    <3>1. holder # c
      BY <2>2, OnlyLoginsHold DEF RefusedAgain, SessionExpired, LoginCalls, SessionCalls
    <3> QED BY <2>2, <3>1 DEF RefusedAgain
  <2> QED BY <2>1, <2>2
<1>3. QueueFollows(c, Over) /\ LockFollows(c, Over)
  BY <1>1, <1>2, OverFacts DEF QueueFollows, LockFollows
<1> QED BY <1>1, <1>3, OverFacts DEF Steps, Forward

\* A refused operation goes for a fresh login and remembers which session failed.
LEMMA RetrySteps == ASSUME ProgressInv, NEW c \in Callers, RetryBehindLogin(c) PROVE \E u : Steps(c, u)
<1>1. task[c] \in Task /\ Refusable(task[c]) /\ task[c].session \in Nat
  BY TaskFacts DEF ProgressInv, Task
<1>2. task[c].pc \in SessionCalls /\ task[c].refused = 0
  BY DEF RetryBehindLogin, SessionExpired
<1>3. PICK t \in Task : t = [task[c] EXCEPT !.refused = task[c].session]
  BY <1>1 DEF Task
<1>4. t.refused = task[c].session /\ t.todo = task[c].todo
  BY <1>1, <1>3 DEF Task
<1>5. t.refused # 0 /\ t.todo <= MaxItems
  BY <1>1, <1>2, <1>4 DEF Refusable
<1>6. LogIn(c, t)
  BY <1>3 DEF RetryBehindLogin
<1> QED BY <1>2, <1>5, <1>6, LogInSteps

\* The gateway handles a call.
LEMMA HandleSteps == ASSUME ProgressInv, NEW c \in Callers, HandleCall(c) PROVE \E u : Steps(c, u)
<1>1. task[c] \in Task /\ Refusable(task[c])
  BY TaskFacts DEF ProgressInv
<1>2. PICK reply \in {"ok", "expired"} : Become(c, [task[c] EXCEPT !.reply = reply])
  BY DEF HandleCall
<1>3. PICK u \in Task : u = [task[c] EXCEPT !.reply = reply]
  BY <1>1 DEF Task
<1>4. /\ u.pc = task[c].pc /\ u.reply # "none" /\ u.todo = task[c].todo
      /\ u.refused = task[c].refused /\ u.session = task[c].session
  BY <1>1, <1>3 DEF Task
<1>5. task[c].pc \in SessionCalls /\ task[c].reply = "none" /\ UNCHANGED <<holder, waiters>>
  BY DEF HandleCall
<1>6. Refusable(u) /\ Forward(task[c], u)
  BY <1>1, <1>4, <1>5 DEF Refusable, Forward
<1> QED BY <1>2, <1>3, <1>4, <1>5, <1>6, QuietSteps

\* The next call of an operation.
LEMMA NextCallSteps ==
    ASSUME ProgressInv, NEW c \in Callers, task[c].pc \in SessionCalls,
           NEW n \in 0..MaxItems, NEW call \in {"devices", "config"},
           \/ task[c].pc = "homes" /\ task[c].reply # "none"
           \/ task[c].pc = "devices" /\ task[c].reply # "none" /\ (call = "devices" => n < task[c].todo)
           \/ task[c].pc = "config" /\ call = "config" /\ n < task[c].todo,
           Become(c, At([task[c] EXCEPT !.todo = n], call)), UNCHANGED <<holder, waiters>>
    PROVE  \E u : Steps(c, u)
<1>1. task[c] \in Task /\ Refusable(task[c]) /\ n \in Nat /\ n <= MaxItems
  BY TaskFacts, AccountAssumption DEF ProgressInv
<1>2. PICK t \in Task : t = [task[c] EXCEPT !.todo = n]
  BY <1>1 DEF Task
<1>3. t.todo = n /\ t.session = task[c].session /\ t.refused = task[c].refused
  BY <1>1, <1>2 DEF Task
<1>4. PICK u \in Task : u = At(t, call)
  BY AtProperties DEF SessionCalls
<1>5. u.pc = call /\ u.todo = n /\ u.session = task[c].session /\ u.refused = task[c].refused
  BY <1>3, <1>4, AtProperties DEF SessionCalls
<1>6. Refusable(u)
  BY <1>1, <1>5 DEF Refusable
<1>7. Forward(task[c], u)
  BY <1>5 DEF Forward
<1>8. Become(c, u) /\ u.pc \in SessionCalls
  BY <1>2, <1>4, <1>5 DEF SessionCalls
<1> QED BY <1>6, <1>7, <1>8, QuietSteps

\* The end of an operation.
LEMMA OverSteps ==
    ASSUME ProgressInv, NEW c \in Callers, task[c].pc \in SessionCalls, Become(c, Over),
           UNCHANGED <<holder, waiters>>
    PROVE  \E u : Steps(c, u)
BY OverFacts, QuietSteps DEF Forward

\* The end of a listing.
LEMMA ListedSteps ==
    ASSUME ProgressInv, NEW c \in Callers, task[c].pc \in {"homes", "devices"}, task[c].reply # "none",
           Listed(c, task[c]), UNCHANGED <<holder, waiters>>
    PROVE  \E u : Steps(c, u)
<1>1. task[c].pc \in SessionCalls
  BY DEF SessionCalls
<1>2. CASE Become(c, Over)
  BY <1>1, <1>2, OverSteps
<1>3. ASSUME NEW n \in 0..MaxItems, Become(c, At([task[c] EXCEPT !.todo = n], "config"))
      PROVE  \E u : Steps(c, u)
  BY <1>1, <1>3, NextCallSteps
<1> QED BY <1>2, <1>3 DEF Listed

\* The end of a probe.
LEMMA ProbeSteps ==
    ASSUME ProgressInv, NEW c \in Callers, task[c].pc = "config", Become(c, NextProbe(task[c])),
           UNCHANGED <<holder, waiters>>
    PROVE  \E u : Steps(c, u)
<1>1. task[c] \in Task /\ Refusable(task[c]) /\ task[c].todo \in Nat /\ MaxItems \in Nat
  BY TaskFacts, AccountAssumption DEF ProgressInv, Task
<1>2. task[c].pc \in SessionCalls
  BY DEF SessionCalls
<1>3. CASE task[c].todo > 1
  <2>1. PICK n \in 0..MaxItems : n = task[c].todo - 1 /\ n < task[c].todo
    <3>1. task[c].todo - 1 \in 0..MaxItems /\ task[c].todo - 1 < task[c].todo
      BY <1>1, <1>3 DEF Refusable
    <3> QED BY <3>1
  <2>2. Become(c, At([task[c] EXCEPT !.todo = n], "config"))
    BY <1>3, <2>1 DEF NextProbe
  <2> QED BY <1>2, <2>1, <2>2, NextCallSteps
<1>4. CASE ~(task[c].todo > 1)
  BY <1>2, <1>4, OverSteps DEF NextProbe
<1> QED BY <1>3, <1>4

\* The answers to calls made with a session.
LEMMA AnswerSteps ==
    ASSUME ProgressInv, NEW c \in Callers,
           HomesAnswered(c) \/ DevicesAnswered(c) \/ ConfigAnswered(c) \/ ProbeFails(c)
    PROVE  \E u : Steps(c, u)
<1>1. task[c] \in Task /\ Refusable(task[c]) /\ task[c].todo \in Nat /\ MaxItems \in Nat
  BY TaskFacts, AccountAssumption DEF ProgressInv, Task
<1>2. task[c].pc \in SessionCalls /\ UNCHANGED <<holder, waiters>>
  BY DEF HomesAnswered, DevicesAnswered, ConfigAnswered, ProbeFails, SessionCalls
<1>3. CASE HomesAnswered(c)
  <2>1. task[c].pc = "homes" /\ task[c].reply # "none"
    BY <1>3 DEF HomesAnswered
  <2>2. ASSUME NEW n \in 1..MaxItems, Become(c, At([task[c] EXCEPT !.todo = n], "devices"))
        PROVE  \E u : Steps(c, u)
    <3>1. n \in 0..MaxItems
      BY <1>1
    <3> QED BY <1>2, <2>1, <2>2, <3>1, NextCallSteps
  <2>3. CASE Listed(c, task[c])
    BY <1>2, <2>1, <2>3, ListedSteps
  <2> QED BY <1>3, <2>2, <2>3 DEF HomesAnswered
<1>4. CASE DevicesAnswered(c)
  <2>1. task[c].pc = "devices" /\ task[c].reply # "none"
    BY <1>4 DEF DevicesAnswered
  <2>2. CASE task[c].todo > 1
    <3>1. PICK n \in 0..MaxItems : n = task[c].todo - 1 /\ n < task[c].todo
      <4>1. task[c].todo - 1 \in 0..MaxItems /\ task[c].todo - 1 < task[c].todo
        BY <1>1, <2>2 DEF Refusable
      <4> QED BY <4>1
    <3>2. Become(c, At([task[c] EXCEPT !.todo = n], "devices"))
      BY <1>4, <2>2, <3>1 DEF DevicesAnswered
    <3> QED BY <1>2, <2>1, <3>1, <3>2, NextCallSteps
  <2>3. CASE Listed(c, task[c])
    BY <1>2, <2>1, <2>3, ListedSteps
  <2> QED BY <1>4, <2>2, <2>3 DEF DevicesAnswered
<1>5. CASE ConfigAnswered(c) \/ ProbeFails(c)
  <2>1. task[c].pc = "config" /\ (Become(c, NextProbe(task[c])) \/ Become(c, Over))
    BY <1>5 DEF ConfigAnswered, ProbeFails
  <2> QED BY <1>2, <2>1, ProbeSteps, OverSteps
<1> QED BY <1>3, <1>4, <1>5

\* Every step is the step of one task, or none of any task.
LEMMA StepOfATask ==
    ASSUME ProgressInv, Next
    PROVE  \/ UNCHANGED <<holder, waiters, task>>
           \/ \E c \in Callers : \E u : Steps(c, u)
<1>1. ASSUME NEW s, ExpireSession(s) PROVE UNCHANGED <<holder, waiters, task>>
  BY <1>1 DEF ExpireSession
<1>2. ASSUME NEW c \in Callers, Answered(c) PROVE \E u : Steps(c, u)
  BY <1>2, LoginCallSteps, AnswerSteps, RetrySteps, EndSteps DEF Answered
<1> QED BY <1>1, <1>2, BeginSteps, AcquireSteps, LoginCallSteps, HandleSteps, LeaveQueueSteps,
           EndSteps DEF Next

\* Who is in the queue after such a step, and where.
LEMMA QueueAfter ==
    ASSUME ProgressInv, NEW c \in Callers, NEW u, QueueFollows(c, u)
    PROVE  /\ \A d \in Callers \ {c} : (\E i \in 1..Len(waiters') : waiters'[i] = d) <=> task[d].pc = "lock"
           /\ (\E i \in 1..Len(waiters') : waiters'[i] = c) <=> u.pc = "lock"
           /\ \A i, j \in 1..Len(waiters') : waiters'[i] = waiters'[j] => i = j
           /\ \A i \in 1..Len(waiters), j \in 1..Len(waiters') : waiters'[j] = waiters[i] => j <= i
<1> DEFINE n == Len(waiters)
<1>1. /\ waiters \in Seq(Callers) /\ n \in Nat
      /\ \A d \in Callers : (\E i \in 1..n : waiters[i] = d) <=> task[d].pc = "lock"
      /\ \A i, j \in 1..n : waiters[i] = waiters[j] => i = j
  BY TaskFacts DEF ProgressInv, LockIsServed
<1>2. CASE task[c].pc # "lock" /\ u.pc # "lock" /\ waiters' = waiters
  <2>1. \A i, j \in 1..n : waiters[j] = waiters[i] => j <= i
    BY <1>1
  <2> QED BY <1>1, <1>2, <2>1
<1>3. CASE task[c].pc # "lock" /\ u.pc = "lock" /\ waiters' = Append(waiters, c)
  <2>1. Len(waiters') = n + 1 /\ waiters'[n + 1] = c /\ \A i \in 1..n : waiters'[i] = waiters[i]
    BY <1>1, <1>3
  <2>2. \A i \in 1..n : waiters[i] # c
    BY <1>1, <1>3
  <2>3. 1..Len(waiters') = 1..n \union {n + 1}
    BY <1>1, <2>1
  <2>4. ASSUME NEW d \in Callers \ {c}
        PROVE  (\E i \in 1..Len(waiters') : waiters'[i] = d) <=> task[d].pc = "lock"
    BY <1>1, <2>1, <2>3
  <2>5. \E i \in 1..Len(waiters') : waiters'[i] = c
    BY <2>1, <2>3
  <2>6. \A i, j \in 1..Len(waiters') : waiters'[i] = waiters'[j] => i = j
    BY <1>1, <2>1, <2>2, <2>3
  <2>7. \A i \in 1..n, j \in 1..Len(waiters') : waiters'[j] = waiters[i] => j <= i
    BY <1>1, <2>1, <2>2, <2>3
  <2> QED BY <1>3, <2>4, <2>5, <2>6, <2>7
<1>4. CASE /\ task[c].pc = "lock" /\ u.pc # "lock"
           /\ \E i \in 1..n :
                 /\ waiters[i] = c /\ Len(waiters') = n - 1
                 /\ \A j \in 1..(n - 1) : waiters'[j] = IF j < i THEN waiters[j] ELSE waiters[j + 1]
  <2>1. PICK k \in 1..n :
           /\ waiters[k] = c /\ Len(waiters') = n - 1
           /\ \A j \in 1..(n - 1) : waiters'[j] = IF j < k THEN waiters[j] ELSE waiters[j + 1]
    BY <1>4
  <2> DEFINE Old(j) == IF j < k THEN j ELSE j + 1
  <2>2. \A j \in 1..(n - 1) : Old(j) \in 1..n /\ Old(j) # k /\ j <= Old(j) /\ waiters'[j] = waiters[Old(j)]
    BY <1>1, <2>1
  <2>3. \A i \in 1..n : i # k => \E j \in 1..(n - 1) : Old(j) = i
    <3> SUFFICES ASSUME NEW i \in 1..n, i # k PROVE \E j \in 1..(n - 1) : Old(j) = i
      OBVIOUS
    <3>1. CASE i < k
      <4>1. i \in 1..(n - 1) /\ Old(i) = i
        BY <1>1, <3>1
      <4> QED BY <4>1
    <3>2. CASE i > k
      <4>1. i - 1 \in 1..(n - 1) /\ Old(i - 1) = i
        BY <1>1, <3>2
      <4> QED BY <4>1
    <3> QED BY <1>1, <3>1, <3>2
  <2>4. \A i, j \in 1..(n - 1) : Old(i) = Old(j) => i = j
    BY <1>1
  <2> HIDE DEF Old
  <2>5. ASSUME NEW d \in Callers \ {c}
        PROVE  (\E j \in 1..Len(waiters') : waiters'[j] = d) <=> task[d].pc = "lock"
    <3>1. ASSUME NEW j \in 1..(n - 1), waiters'[j] = d PROVE task[d].pc = "lock"
      BY <1>1, <2>2, <3>1
    <3>2. ASSUME task[d].pc = "lock" PROVE \E j \in 1..(n - 1) : waiters'[j] = d
      <4>1. PICK i \in 1..n : waiters[i] = d
        BY <1>1, <3>2
      <4>2. i # k
        BY <2>1, <4>1
      <4> QED BY <2>2, <2>3, <4>1, <4>2
    <3> QED BY <2>1, <3>1, <3>2
  <2>6. \A j \in 1..(n - 1) : waiters'[j] # c
    BY <1>1, <2>1, <2>2
  <2>7. \A i, j \in 1..(n - 1) : waiters'[i] = waiters'[j] => i = j
    BY <1>1, <2>2, <2>4
  <2>8. \A i \in 1..n, j \in 1..(n - 1) : waiters'[j] = waiters[i] => j <= i
    <3> SUFFICES ASSUME NEW i \in 1..n, NEW j \in 1..(n - 1), waiters'[j] = waiters[i] PROVE j <= i
      OBVIOUS
    <3>1. Old(j) \in 1..n /\ waiters[Old(j)] = waiters[i] /\ j <= Old(j)
      BY <2>2
    <3>2. Old(j) = i
      BY <1>1, <3>1
    <3> QED BY <3>1, <3>2
  <2> QED BY <1>4, <2>1, <2>5, <2>6, <2>7, <2>8
<1> QED BY <1>2, <1>3, <1>4 DEF QueueFollows

\* The invariant of the lock and its queue is kept.
LEMMA ProgressStep ==
    ASSUME ProgressInv, Inv', NEW c \in Callers, NEW u, Steps(c, u)
    PROVE  ProgressInv'
<1>1. /\ task'[c] = u /\ \A d \in Callers \ {c} : task'[d] = task[d]
      /\ waiters' \in Seq(Callers)
  BY DEF ProgressInv, Inv, TypeOK, Steps, Become
<1>2. (holder # None => task[holder].pc \in LoginCalls)'
  <2> SUFFICES ASSUME holder' # None PROVE task'[holder'].pc \in LoginCalls
    OBVIOUS
  <2>1. CASE holder' = c /\ u.pc \in LoginCalls
    BY <1>1, <2>1
  <2>2. CASE holder' = holder /\ holder # c
    <3>1. holder \in Callers \ {c}
      BY <2>2 DEF ProgressInv, Inv, TypeOK
    <3> QED BY <1>1, <2>2, <3>1 DEF ProgressInv, LockIsServed
  <2> QED BY <2>1, <2>2 DEF Steps, LockFollows
<1>3. (\A d \in Callers : task[d].pc = "lock" <=> \E i \in 1..Len(waiters) : waiters[i] = d)'
  <2> SUFFICES ASSUME NEW d \in Callers
               PROVE  task'[d].pc = "lock" <=> \E i \in 1..Len(waiters') : waiters'[i] = d
    OBVIOUS
  <2>1. CASE d = c
    BY <1>1, <2>1, QueueAfter DEF Steps
  <2>2. CASE d # c
    BY <1>1, <2>2, QueueAfter DEF Steps
  <2> QED BY <2>1, <2>2
<1>4. (\A i, j \in 1..Len(waiters) : waiters[i] = waiters[j] => i = j)'
  BY QueueAfter DEF Steps
<1>5. LockIsServed'
  BY <1>2, <1>3, <1>4 DEF LockIsServed
<1>6. (\A d \in Callers : Refusable(task[d]))'
  BY <1>1 DEF ProgressInv, Steps, Refusable
<1> QED BY <1>5, <1>6 DEF ProgressInv

\* What an idle client with a free lock satisfies, every step keeps.
THEOREM ProgressInvariant == Spec => []ProgressInv
<1>1. Init => Inv /\ LockIsServed /\ \A c \in Callers : Refusable(task[c])
  <2> SUFFICES ASSUME Init PROVE Inv /\ LockIsServed /\ \A c \in Callers : Refusable(task[c])
    OBVIOUS
  <2>1. Begun("account") \in Task
    BY DEF Begun, Task, Operations
  <2>2. Inv
    <3>1. TypeOK
      BY <2>1 DEF Init, TypeOK
    <3>2. LockHeld /\ SessionsOrdered
      BY DEF Init, LockHeld, SessionsOrdered, Ordered, Begun, LoginCalls, SessionCalls
    <3> QED BY <3>1, <3>2 DEF Inv
  <2>3. LockIsServed
    BY DEF Init, LockIsServed, Begun
  <2>4. \A c \in Callers : Refusable(task[c])
    BY AccountAssumption DEF Init, Refusable, Begun, SessionCalls
  <2> QED BY <2>2, <2>3, <2>4
<1>2. ProgressInv /\ Inv' /\ [Next]_vars => ProgressInv'
  <2> SUFFICES ASSUME ProgressInv, Inv', [Next]_vars PROVE ProgressInv'
    OBVIOUS
  <2>1. CASE UNCHANGED <<holder, waiters, task>>
    BY <2>1 DEF ProgressInv, LockIsServed, Refusable
  <2>2. CASE Next
    BY <2>1, <2>2, StepOfATask, ProgressStep
  <2> QED BY <2>1, <2>2 DEF vars
<1> QED BY <1>1, <1>2, InvHolds, PTL DEF Spec, ProgressInv

\* Nobody waits for a lock that nobody is going to release, and nobody who waits is
\* forgotten, whatever fails and whoever is cancelled.
THEOREM LockServes == Spec => []LockIsServed
BY ProgressInvariant, PTL DEF ProgressInv

\* Tasks get the lock in the order they asked for it.
THEOREM QueueIsFair == Spec => NobodyOvertakes
<1> DEFINE Kept == \A i \in 1..Len(waiters), j \in 1..Len(waiters') : waiters'[j] = waiters[i] => j <= i
<1>1. ProgressInv /\ [Next]_vars => [Kept]_vars
  <2> SUFFICES ASSUME ProgressInv, Next PROVE Kept
    OBVIOUS
  <2>1. CASE UNCHANGED <<holder, waiters, task>>
    <3>1. \A i, j \in 1..Len(waiters) : waiters[j] = waiters[i] => j <= i
      <4>1. waiters \in Seq(Callers)
        BY DEF ProgressInv, Inv, TypeOK
      <4> QED BY <4>1 DEF ProgressInv, LockIsServed
    <3> QED BY <2>1, <3>1
  <2>2. ASSUME NEW c \in Callers, NEW u, Steps(c, u) PROVE Kept
    BY <2>2, QueueAfter DEF Steps
  <2> QED BY <2>1, <2>2, StepOfATask
<1>2. NobodyOvertakes <=> [][Kept]_vars
  BY DEF NobodyOvertakes
<1> HIDE DEF Kept
<1> QED BY <1>1, <1>2, ProgressInvariant, PTL DEF Spec

\* An operation is made of finitely many steps, refusals and retries included.
THEOREM OperationsShrink == Spec => OperationShrinks
<1> DEFINE Shrinks == \A c \in Callers :
                         task[c].pc # "idle" /\ task'[c] # task[c] => CallsLeft(task'[c]) < CallsLeft(task[c])
<1>1. ProgressInv /\ [Next]_vars => [Shrinks]_vars
  <2> SUFFICES ASSUME ProgressInv, Next, NEW d \in Callers, task[d].pc # "idle", task'[d] # task[d]
               PROVE  CallsLeft(task'[d]) < CallsLeft(task[d])
    OBVIOUS
  <2>1. PICK c \in Callers : \E u : Steps(c, u)
    BY StepOfATask
  <2>2. PICK u : Steps(c, u)
    BY <2>1
  <2>3. d = c /\ task'[d] = u /\ task[d] \in Task
    BY <2>2 DEF ProgressInv, Inv, TypeOK, Steps, Become
  <2>4. u \in Task /\ u.todo <= MaxItems /\ Forward(task[d], u) /\ task[d].todo <= MaxItems
    BY <2>2, <2>3 DEF ProgressInv, Steps, Refusable
  <2> QED BY <2>3, <2>4, ForwardShrinks
<1>2. OperationShrinks <=> [][Shrinks]_vars
  BY DEF OperationShrinks
<1> HIDE DEF Shrinks
<1> QED BY <1>1, <1>2, ProgressInvariant, PTL DEF Spec
=============================================================================
