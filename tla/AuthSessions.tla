---------------------------- MODULE AuthSessions -----------------------------
(***************************************************************************)
(* Refresh sessions: the table auth_sessions (src/internal/auth) and the   *)
(* handlers that create, rotate and revoke its rows                        *)
(* (src/internal/handler/auth.go).  Every HTTP call runs in a goroutine of *)
(* its own and makes one SQL statement at a time, so two refreshes with    *)
(* the same token, or a refresh and a logout, interleave between any two   *)
(* statements.  There is one user: a refresh token names its session, and  *)
(* the signature keeps it from naming another.                             *)
(***************************************************************************)
EXTENDS Integers, Sequences

CONSTANTS
  Call,         \* HTTP calls to /auth that may be running at a time
  AccessTTL,    \* JWT_ACCESS_TTL
  RefreshTTL,   \* JWT_REFRESH_TTL
  MaxTime,      \* bound: the clock stops here
  MaxSessions,  \* bound: rows of auth_sessions
  Failing,      \* may statements, and requests to the API, fail
  None          \* no call; no token pair

ASSUME AuthAssumption ==
  /\ AccessTTL \in Nat \ {0} /\ RefreshTTL \in Nat \ {0}
  /\ MaxTime \in Nat /\ MaxSessions \in Nat /\ Failing \in BOOLEAN
  /\ None \notin [session : Nat, access : Nat, refresh : Nat]

VARIABLES
  now,         \* time.Now()
  sessions,    \* the rows of auth_sessions, in the order of their creation
  call         \* call[c]: where the handler of call c is, or None

authVars == <<now, sessions, call>>

\* A row.  Ghost: login is the first session of the chain of rotations that
\* led to this one.
SessionType == [login : Nat, expires : Nat, revoked : BOOLEAN]

\* The expiry times of the two tokens, and the session that the refresh
\* token names as its jti.
TokenPair == [session : Nat, access : Nat, refresh : Nat]

\* A running handler, the session and expiry time of the token it was given,
\* and the pair it answers.
HandlerType ==
  [step : {"load", "revoke", "create", "undo", "logout", "ok", "error"},
   session : Nat, refresh : Nat, pair : TokenPair \cup {None}]

ASSUME HandlerAssumption == None \notin HandlerType

AuthInit ==
  /\ now = 0
  /\ sessions = << >>
  /\ call = [c \in Call |-> None]

AtStep(c, step) == call[c] # None /\ call[c].step = step
Goto(c, step) == call' = [call EXCEPT ![c].step = step]

\* The handler returns, with a 2xx answer or without.
Return(c, step, pair) ==
  call' = [call EXCEPT ![c] = [step |-> step, session |-> 0, refresh |-> 0, pair |-> pair]]
Answer(c, pair) == Return(c, "ok", pair)
Reject(c) == Return(c, "error", None)

LoginOf(s) == sessions[s].login
-----------------------------------------------------------------------------
(* The calls that clients make. *)

Receive(c, step, session, refresh) ==
  /\ call[c] = None
  /\ call' = [call EXCEPT ![c] = [step |-> step, session |-> session,
                                  refresh |-> refresh, pair |-> None]]
  /\ UNCHANGED <<now, sessions>>

\* Register and Login come to issueTokenPair once the user is in the table
\* and the password is right.
Login(c) == Receive(c, "create", 0, 0)
Refresh(c, pair) == Receive(c, "load", pair.session, pair.refresh)
Logout(c, pair) == Receive(c, "logout", pair.session, pair.refresh)

\* The answer has been read, or its reader is gone.
Close(c) ==
  /\ AtStep(c, "ok") \/ AtStep(c, "error")
  /\ call' = [call EXCEPT ![c] = None]
  /\ UNCHANGED <<now, sessions>>
-----------------------------------------------------------------------------
(* The handlers, one statement per step. *)

\* ParseRefreshToken, GetSession, and the checks on what it returns.
Valid(c) ==
  /\ now < call[c].refresh
  /\ ~ sessions[call[c].session].revoked
  /\ now <= sessions[call[c].session].expires

LoadSession(c) ==
  /\ AtStep(c, "load")
  /\ IF Valid(c) THEN Goto(c, "revoke") ELSE Reject(c)
  /\ UNCHANGED <<now, sessions>>

SetRevoked(s) == sessions' = [sessions EXCEPT ![s].revoked = TRUE]

\* Mutant: the statement of RevokeSession without "and revoked_at is null".
RevokeSessionAgain(c) ==
  /\ AtStep(c, "revoke")
  /\ SetRevoked(call[c].session)
  /\ Goto(c, "create")
  /\ UNCHANGED now

\* update ... where revoked_at is null: one of several concurrent calls
\* finds the row, the others get ErrSessionNotFound.
RevokeSession(c) ==
  /\ AtStep(c, "revoke")
  /\ IF sessions[call[c].session].revoked
     THEN Reject(c) /\ UNCHANGED sessions
     ELSE SetRevoked(call[c].session) /\ Goto(c, "create")
  /\ UNCHANGED now

\* issueTokenPair: a row of its own for every pair.
InsertSession(c) ==
  /\ Len(sessions) < MaxSessions
  /\ sessions' = Append(sessions,
       [login   |-> IF call[c].session = 0 THEN Len(sessions) + 1
                    ELSE LoginOf(call[c].session),
        expires |-> now + RefreshTTL,
        revoked |-> FALSE])

NewPair == [session |-> Len(sessions) + 1, access |-> now + AccessTTL,
            refresh |-> now + RefreshTTL]

CreateSession(c) ==
  /\ AtStep(c, "create")
  /\ InsertSession(c)
  /\ Answer(c, NewPair)
  /\ UNCHANGED now

\* NewRefreshToken fails: the new session is to be revoked again.
SignFails(c) ==
  /\ Failing
  /\ AtStep(c, "create")
  /\ InsertSession(c)
  /\ call' = [call EXCEPT ![c].step = "undo", ![c].session = Len(sessions) + 1]
  /\ UNCHANGED now

UndoSession(c) ==
  /\ AtStep(c, "undo")
  /\ SetRevoked(call[c].session)
  /\ Reject(c)
  /\ UNCHANGED now

\* Logout checks the token's signature and expiry only; that its session was
\* revoked before is no error.
LogoutSession(c) ==
  /\ AtStep(c, "logout")
  /\ IF now < call[c].refresh
     THEN SetRevoked(call[c].session) /\ Answer(c, None)
     ELSE Reject(c) /\ UNCHANGED sessions
  /\ UNCHANGED now

\* Mutant: an error of RevokeSession other than ErrSessionNotFound is ignored.
StatementFailsIgnored(c) ==
  /\ AtStep(c, "revoke")
  /\ Goto(c, "create")
  /\ UNCHANGED <<now, sessions>>

\* A statement of any handler fails, because the database does or because
\* the client has gone and the request's context is done.
StatementFails(c) ==
  /\ Failing
  /\ \E step \in {"load", "revoke", "create", "undo", "logout"} : AtStep(c, step)
  /\ Reject(c)
  /\ UNCHANGED <<now, sessions>>

\* Mutant: the pair is returned though the session may not be stored.
AnswerLostUnnoticed(c) ==
  /\ AtStep(c, "create")
  /\ Answer(c, NewPair)
  /\ UNCHANGED <<now, sessions>>

\* The statement took effect, but its answer is lost: an error all the same.
AnswerLost(c) ==
  /\ Failing
  /\ \/ /\ \E step \in {"revoke", "undo"} : AtStep(c, step)
        /\ SetRevoked(call[c].session)
     \/ /\ AtStep(c, "logout") /\ now < call[c].refresh
        /\ SetRevoked(call[c].session)
     \/ /\ AtStep(c, "create")
        /\ InsertSession(c)
  /\ Reject(c)
  /\ UNCHANGED now

HandlerStep(c) ==
  \/ LoadSession(c) \/ RevokeSession(c) \/ CreateSession(c) \/ SignFails(c)
  \/ UndoSession(c) \/ LogoutSession(c) \/ StatementFails(c) \/ AnswerLost(c)

AuthTick ==
  /\ now < MaxTime
  /\ now' = now + 1
  /\ UNCHANGED <<sessions, call>>

\* A client may send any refresh token that was ever issued, at any time and
\* as often as it likes.
Issued == {[session |-> s, access |-> 0, refresh |-> sessions[s].expires] :
             s \in DOMAIN sessions}

ClientStep(c) ==
  \/ Login(c)
  \/ \E pair \in Issued : Refresh(c, pair) \/ Logout(c, pair)
  \/ Close(c)

AuthNext == AuthTick \/ \E c \in Call : ClientStep(c) \/ HandlerStep(c)

AuthSpec == AuthInit /\ [][AuthNext]_authVars
-----------------------------------------------------------------------------
(* Properties. *)

\* Every variable keeps its type; a handler works on a session that exists,
\* and so does the client that it gives a pair to.
AuthTypeOK ==
  /\ now \in 0 .. MaxTime
  /\ sessions \in Seq(SessionType) /\ Len(sessions) <= MaxSessions
  /\ call \in [Call -> HandlerType \cup {None}]
  /\ \A c \in Call : call[c] # None =>
       /\ call[c].session \in DOMAIN sessions \cup {0}
       /\ call[c].session = 0 => call[c].step \in {"create", "ok", "error"}
       /\ call[c].pair # None => call[c].pair.session \in DOMAIN sessions
  /\ \A s \in DOMAIN sessions : LoginOf(s) \in 1 .. s

Live(s) == ~ sessions[s].revoked

\* Rotation replaces: however many calls present the same refresh token at
\* the same time, and whatever fails, a login never comes to own two sessions
\* that are not revoked.
OneLivePerLogin ==
  \A s, t \in DOMAIN sessions : Live(s) /\ Live(t) /\ LoginOf(s) = LoginOf(t) => s = t

\* A login is dead when its sessions are all revoked and no refresh is about
\* to store the next one.
Dead(login) ==
  /\ \A s \in DOMAIN sessions : LoginOf(s) = login => ~ Live(s)
  /\ \A c \in Call : AtStep(c, "create") /\ call[c].session # 0 =>
       LoginOf(call[c].session) # login

\* The logout of c revokes a session of login that was live.
LogsOut(c, login) ==
  /\ AtStep(c, "logout")
  /\ LogoutSession(c) \/ AnswerLost(c)
  /\ \E s \in DOMAIN sessions : LoginOf(s) = login /\ Live(s) /\ ~ Live(s)'

\* A logout that finds its session live ends the login, and once dead, by such
\* a logout or a failed rotation, a login cannot be revived by a refresh that
\* had read its session before.  A logout that finds its session revoked, by
\* a refresh that is about to store the next one or has stored it, is answered
\* like the others and ends nothing.
DeadLoginStaysDead ==
  [][\A login \in 1 .. Len(sessions) :
       Dead(login) \/ (\E c \in Call : LogsOut(c, login)) => Dead(login)']_authVars

\* The chain of sessions of a login, as its user sees it.
SessionsOf(login) == {s \in DOMAIN sessions : LoginOf(s) = login}

ChainOf(login) ==
  [issued   |-> SessionsOf(login),
   honoured |-> {s \in SessionsOf(login) : Live(s)},
   open     |-> ~ Dead(login)]

Chains == [login \in {LoginOf(s) : s \in DOMAIN sessions} |-> ChainOf(login)]

Chain == INSTANCE LoginChain WITH Session <- 1 .. MaxSessions, chain <- Chains

\* The handlers keep the promise that LoginChain states: every statement that
\* takes effect, by whichever call and with whatever answer, signs in, spends
\* the one honoured token of a login, issues its successor, ends the login,
\* or changes nothing that a user can tell.
ChainIsKept == Chain!ChainSpec
=============================================================================
