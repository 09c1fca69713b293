---------------------------- MODULE AccountClient ----------------------------
(***************************************************************************)
(* One account's login shared by the tasks that use it (client.py), over   *)
(* the calls of gateway/client.py.  A login session is its number in the   *)
(* order the gateway issued them; 0 stands for None.                       *)
(*                                                                         *)
(* The gateway (external) may withdraw a session at any time, refuse a     *)
(* good one with one of the codes that read as expired, and fail any call: *)
(* another refusal, a malformed answer, a lost connection, the 20 seconds  *)
(* of _REQUEST_TIMEOUT_SECONDS.  It answers with success only to a session *)
(* that it holds when it handles the call.                                 *)
(***************************************************************************)
EXTENDS Integers, SequencesExt

CONSTANTS
    Supervisors,   \* tasks of camera streams: each fetches a config for every session
    Applications,  \* tasks of the application that call the other methods
    None,          \* nobody holds the lock
    MaxLogins,     \* bound: sessions the gateway issues
    MaxItems       \* bound: homes of the account, and devices of the account

Callers == Supervisors \union Applications

ASSUME AccountAssumption == None \notin Callers /\ MaxLogins \in Nat /\ MaxItems \in Nat

VARIABLES
    account,    \* _account
    holder,     \* the task inside "async with self._login_lock"
    waiters,    \* the tasks queued for _login_lock, first come first
    issued,     \* the number of sessions the gateway has issued
    valid,      \* the sessions it still accepts
    task        \* what each caller is doing

vars == <<account, holder, waiters, issued, valid, task>>

Operations == {"login", "account", "list", "discover", "stream"}
LoginCalls == {"token", "password"}
SessionCalls == {"homes", "devices", "config"}

\* A caller: the call it is in, the operation it belongs to, the session the call
\* is made with, the session that was refused before a retry, the gateway's
\* answer on its way back, the session such an answer to a login hands out, and
\* the calls that remain of a loop.
Task == [pc : {"idle", "lock"} \union LoginCalls \union SessionCalls,
         op : Operations, session : Nat, refused : Nat,
         reply : {"none", "ok", "expired"}, login : Nat, todo : Nat]

Begun(op) == [pc |-> "idle", op |-> op, session |-> 0, refused |-> 0,
              reply |-> "none", login |-> 0, todo |-> 0]

Init ==
    /\ account = 0 /\ holder = None /\ waiters = <<>>
    /\ issued = 0 /\ valid = {}
    /\ task = [c \in Callers |-> Begun("account")]

Become(c, t) == task' = [task EXCEPT ![c] = t]

At(t, call) == [t EXCEPT !.pc = call, !.reply = "none"]

\* The operation is over, with a result nobody here looks at or with an exception.
Over == Begun("account")

\* What a caller does with the session it got.
Use(t, s) ==
    LET got == [t EXCEPT !.session = s, !.login = 0]
    IN  CASE t.op \in {"login", "account"}  -> Over
          [] t.op \in {"list", "discover"}  -> At(got, "homes")
          [] t.op = "stream"                -> At(got, "config")

\* Mutant: the login takes no lock.
LogInUnlocked(c, t) ==
    Become(c, At(t, "token")) /\ UNCHANGED <<holder, waiters>>

\* The lock of async_login: asyncio.Lock lets nobody overtake the tasks that wait.
LogIn(c, t) ==
    \/ /\ holder = None /\ waiters = <<>>
       /\ holder' = c
       /\ Become(c, At(t, "token"))
       /\ UNCHANGED waiters
    \/ /\ holder # None \/ waiters # <<>>
       /\ waiters' = Append(waiters, c)
       /\ Become(c, At(t, "lock"))
       /\ UNCHANGED holder

AcquireLock(c) ==
    /\ task[c].pc = "lock" /\ holder = None /\ waiters # <<>> /\ Head(waiters) = c
    /\ holder' = c /\ waiters' = Tail(waiters)
    /\ Become(c, At(task[c], "token"))
    /\ UNCHANGED <<account, issued, valid>>

\* async_login, called by the application.
Login(c) ==
    /\ task[c].pc = "idle" /\ c \in Applications
    /\ LogIn(c, Begun("login"))
    /\ UNCHANGED <<account, issued, valid>>

\* The operations that start with async_account: async_uid and
\* async_mqtt_identity ("account"), the two listings, and the supervisor's
\* async_stream_config with the identity and the uid it asks for next ("stream").
Call(c, op) ==
    /\ task[c].pc = "idle"
    /\ \/ c \in Supervisors /\ op = "stream"
       \/ c \in Applications /\ op \in {"account", "list", "discover"}
    /\ \/ account # 0 /\ Become(c, Use(Begun(op), account)) /\ UNCHANGED <<holder, waiters>>
       \/ account = 0 /\ LogIn(c, Begun(op))
    /\ UNCHANGED <<account, issued, valid>>

-----------------------------------------------------------------------------
\* The first call of a login: the key the password is encrypted under.
TokenAnswered(c) ==
    /\ task[c].pc = "token"
    /\ Become(c, At(task[c], "password"))
    /\ UNCHANGED <<account, holder, waiters, issued, valid>>

\* The answer to a login hands out a session.
Accepted(t, s) == [t EXCEPT !.reply = "ok", !.login = s]

\* The gateway accepts the password; its answer is on its way.
IssueSession(c) ==
    /\ task[c].pc = "password" /\ task[c].reply = "none" /\ issued < MaxLogins
    /\ issued' = issued + 1 /\ valid' = valid \union {issued + 1}
    /\ Become(c, Accepted(task[c], issued + 1))
    /\ UNCHANGED <<account, holder, waiters>>

\* Mutant: the caller uses the new session, the client keeps the old one.
LoggedInUnstored(c) ==
    /\ task[c].pc = "password" /\ task[c].reply = "ok"
    /\ holder' = IF holder = c THEN None ELSE holder
    /\ Become(c, Use(task[c], task[c].login))
    /\ UNCHANGED <<account, waiters, issued, valid>>

\* The login is stored and the lock released, in one step of the event loop.
LoggedIn(c) ==
    /\ task[c].pc = "password" /\ task[c].reply = "ok"
    /\ account' = task[c].login
    /\ holder' = IF holder = c THEN None ELSE holder
    /\ Become(c, Use(task[c], task[c].login))
    /\ UNCHANGED <<waiters, issued, valid>>

\* The gateway handles a call made with a session.
HandleCall(c) ==
    /\ task[c].pc \in SessionCalls /\ task[c].reply = "none"
    /\ \E reply \in {"ok", "expired"} :
          /\ reply = "ok" => task[c].session \in valid
          /\ Become(c, [task[c] EXCEPT !.reply = reply])
    /\ UNCHANGED <<account, holder, waiters, issued, valid>>

ExpireSession(s) ==
    /\ s \in valid
    /\ valid' = valid \ {s}
    /\ UNCHANGED <<account, holder, waiters, issued, task>>

-----------------------------------------------------------------------------
\* Mutant: the last probe is followed by one more.
NextProbeForEver(t) == At([t EXCEPT !.todo = @ - 1], "config")

\* A probe of async_discover_cameras is over, whatever became of it: the next
\* device, or the end.
NextProbe(t) == IF t.todo > 1 THEN At([t EXCEPT !.todo = @ - 1], "config") ELSE Over

\* All homes are listed: the end of async_list_devices, or the first probe of as
\* many devices as there are.
Listed(c, t) ==
    IF t.op = "list" THEN Become(c, Over)
    ELSE \E n \in 0..MaxItems :
            Become(c, IF n = 0 THEN Over ELSE At([t EXCEPT !.todo = n], "config"))

\* The list of homes, then the devices of each one.
HomesAnswered(c) ==
    /\ task[c].pc = "homes" /\ task[c].reply = "ok"
    /\ \/ \E n \in 1..MaxItems : Become(c, At([task[c] EXCEPT !.todo = n], "devices"))
       \/ Listed(c, task[c])
    /\ UNCHANGED <<account, holder, waiters, issued, valid>>

DevicesAnswered(c) ==
    /\ task[c].pc = "devices" /\ task[c].reply = "ok"
    /\ IF task[c].todo > 1
       THEN Become(c, At([task[c] EXCEPT !.todo = @ - 1], "devices"))
       ELSE Listed(c, task[c])
    /\ UNCHANGED <<account, holder, waiters, issued, valid>>

\* A config arrives.  The supervisor builds its broker identity and its uid from
\* _account in the same step: by then there is one, so that neither of the two
\* awaits suspends it.
ConfigAnswered(c) ==
    /\ task[c].pc = "config" /\ task[c].reply = "ok"
    /\ Become(c, IF task[c].op = "discover" THEN NextProbe(task[c]) ELSE Over)
    /\ UNCHANGED <<account, holder, waiters, issued, valid>>

\* The refusal that reaches the client has one of the _SESSION_EXPIRED_CODES.
SessionExpired(c) ==
    /\ task[c].pc \in SessionCalls /\ task[c].reply = "expired"
    /\ ~(task[c].pc = "config" /\ task[c].op = "discover")

\* Mutant: the retry asks async_account instead of logging in again.
RetryWithAccount(c) ==
    /\ SessionExpired(c)
    /\ task[c].refused = 0
    /\ Become(c, Use([task[c] EXCEPT !.refused = task[c].session], account))
    /\ UNCHANGED <<account, holder, waiters, issued, valid>>

\* A call refused as expired is made again, from its start, behind a fresh login.
RetryBehindLogin(c) ==
    /\ SessionExpired(c)
    /\ task[c].refused = 0
    /\ LogIn(c, [task[c] EXCEPT !.refused = task[c].session])
    /\ UNCHANGED <<account, issued, valid>>

\* The second refusal is raised.
RefusedAgain(c) ==
    /\ SessionExpired(c)
    /\ task[c].refused # 0
    /\ Become(c, Over)
    /\ UNCHANGED <<account, holder, waiters, issued, valid>>

\* A probe of async_discover_cameras takes every error, the refusal of the session
\* too, for a device that is not a camera.
ProbeFails(c) ==
    /\ task[c].pc = "config" /\ task[c].op = "discover"
    /\ task[c].reply # "ok"
    /\ Become(c, NextProbe(task[c]))
    /\ UNCHANGED <<account, holder, waiters, issued, valid>>

\* Mutant: a failed login keeps the lock.
CallFailsLocked(c) ==
    /\ task[c].pc \in LoginCalls \union SessionCalls
    /\ ~(task[c].pc = "config" /\ task[c].op = "discover")
    /\ Become(c, Over)
    /\ UNCHANGED <<account, holder, waiters, issued, valid>>

\* Any other failure of a call, also one after the gateway has handled it, ends
\* the operation; leaving the "async with" releases the lock.
CallFails(c) ==
    /\ task[c].pc \in LoginCalls \union SessionCalls
    /\ ~(task[c].pc = "config" /\ task[c].op = "discover")
    /\ holder' = IF holder = c THEN None ELSE holder
    /\ Become(c, Over)
    /\ UNCHANGED <<account, waiters, issued, valid>>

\* A task that waits for the lock is cancelled and leaves the queue.
CancelledInQueue(c) ==
    /\ task[c].pc = "lock"
    /\ \E i \in 1..Len(waiters) : waiters[i] = c /\ waiters' = RemoveAt(waiters, i)
    /\ Become(c, Over)
    /\ UNCHANGED <<account, holder, issued, valid>>

\* A task is cancelled inside a call, also in a probe, which catches no
\* CancelledError.
CancelledInCall(c) ==
    /\ task[c].pc \in LoginCalls \union SessionCalls
    /\ holder' = IF holder = c THEN None ELSE holder
    /\ Become(c, Over)
    /\ UNCHANGED <<account, waiters, issued, valid>>

-----------------------------------------------------------------------------
Answered(c) ==
    \/ TokenAnswered(c) \/ LoggedIn(c)
    \/ HomesAnswered(c) \/ DevicesAnswered(c) \/ ConfigAnswered(c)
    \/ RetryBehindLogin(c) \/ RefusedAgain(c)
    \/ CallFails(c) \/ ProbeFails(c)

Next ==
    \/ \E c \in Callers :
          \/ Login(c) \/ (\E op \in Operations : Call(c, op))
          \/ AcquireLock(c) \/ IssueSession(c) \/ HandleCall(c)
          \/ Answered(c) \/ CancelledInQueue(c) \/ CancelledInCall(c)
    \/ \E s \in 1..issued : ExpireSession(s)

Spec == Init /\ [][Next]_vars

\* Every HTTP call ends within its timeout, if only with a failure, and asyncio
\* resumes the first task in the queue of a lock that is free.
FairSpec == Spec /\ \A c \in Callers : WF_vars(Answered(c)) /\ WF_vars(AcquireLock(c))

-----------------------------------------------------------------------------
\* Each variable has the type the code gives it.
TypeOK ==
    /\ account \in Nat /\ issued \in Nat /\ valid \subseteq 1..issued
    /\ holder \in Callers \union {None} /\ waiters \in Seq(Callers)
    /\ task \in [Callers -> Task]

\* "retried once behind a fresh login": the call made after a refusal uses a
\* session issued later than the refused one, whatever other tasks did to
\* _account in between.
RetriedBehindFreshLogin ==
    \A c \in Callers :
        task[c].pc \in SessionCalls /\ task[c].refused # 0 => task[c].session > task[c].refused

\* The session a call is made with is never newer than _account, so that what a
\* stream reads from _account when its config arrives, the broker identity and the
\* uid, is of the login the config was fetched with or of a later one, although
\* other tasks log in while the call is under way.
IdentityNotOlder ==
    \A c \in Callers : task[c].pc \in SessionCalls => task[c].session <= account

\* Answers to logins never overtake each other: async_login replaces the stored
\* session only by one issued later.
AccountOnlyRenewed == [][account' # account => account' > account]_vars

\* Every operation comes to an end: no task stays in the queue of the lock, and
\* refusals do not go round in circles, however many tasks are refused at once.
OperationEnds == \A c \in Callers : (task[c].pc # "idle") ~> (task[c].pc = "idle")
=============================================================================
