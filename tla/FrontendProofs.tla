--------------------------- MODULE FrontendProofs ----------------------------
(***************************************************************************)
(* Proofs about Frontend, for any number of tabs and tasks: the page uses  *)
(* the sessions as AuthSessions lets a client, it holds no pair but those  *)
(* that were issued, and the answers of two refreshes cannot overtake each *)
(* other; and a logout lasts where a tab runs one function at a time.      *)
(***************************************************************************)
EXTENDS Frontend, AuthSessionsProofs

\* The pairs that the page holds somewhere.
Held == {storage} \cup {tokens[t] : t \in Tab}
        \cup {task[c].held : c \in {d \in Call : task[d] # None}}

Names(pair, s) == pair # None /\ pair.session = s

\* The handler of c has answered a pair that nobody has read.
Unread(c) == call[c] # None /\ call[c].pair # None

\* Nobody else knows the session of an unread pair, so that it is live and the
\* latest of its login.
Secret(c, s) ==
  /\ Live(s)
  /\ \A u \in DOMAIN sessions : LoginOf(u) = LoginOf(s) => u <= s
  /\ \A pair \in Held : ~ Names(pair, s)
  /\ \A d \in Call \ {c} : call[d] # None =>
       call[d].session # s /\ ~ Names(call[d].pair, s)

UnreadIsSecret == \A c \in Call : Unread(c) => Secret(c, call[c].pair.session)

\* A pair comes with an answer, and it is what its task waits for.
CallsOK ==
  \A c \in Call : call[c] # None =>
    /\ call[c].pair # None => call[c].step = "ok" /\ IsIssued(call[c].pair)
    /\ Doing(c, "signin") \/ Doing(c, "refresh") =>
         call[c].step # "logout" /\ (call[c].step = "ok" => call[c].pair # None)

\* localStorage holds the latest pair of a login.
TabsBehind ==
  \A t \in Tab : tokens[t] # None /\ storage # None
                 /\ LoginOf(tokens[t].session) = LoginOf(storage.session)
    => tokens[t].session <= storage.session

FInv == AuthInv /\ FrontendTypeOK /\ CallsOK /\ UnreadIsSecret /\ TabsBehind

-----------------------------------------------------------------------------
(* What a statement of a handler does. *)

LEMMA HandlerRevokesOrInserts ==
  ASSUME AuthInv, NEW c \in Call, HandlerStep(c)
  PROVE  \/ sessions' = sessions
         \/ call[c].session \in DOMAIN sessions /\ SetRevoked(call[c].session)
         \/ AtStep(c, "create") /\ InsertSession(c)
<1>1. AtStep(c, "revoke") \/ AtStep(c, "undo") \/ AtStep(c, "logout")
      => call[c].session \in DOMAIN sessions
  BY DEF AuthInv, AuthTypeOK, AtStep
<1> QED BY <1>1 DEF HandlerStep, LoadSession, RevokeSession, CreateSession, SignFails,
        UndoSession, LogoutSession, StatementFails, AnswerLost

LEMMA HandlerTable ==
  ASSUME AuthInv, NEW c \in Call, HandlerStep(c)
  PROVE  /\ DOMAIN sessions \subseteq DOMAIN sessions'
         /\ \A s \in DOMAIN sessions :
              /\ LoginOf(s)' = LoginOf(s)
              /\ sessions'[s].expires = sessions[s].expires
              /\ Live(s) /\ s # call[c].session => Live(s)'
         /\ \A n \in DOMAIN sessions' \ DOMAIN sessions :
              /\ AtStep(c, "create") /\ n = Len(sessions) + 1
              /\ LoginOf(n)' = IF call[c].session = 0 THEN n ELSE LoginOf(call[c].session)
<1>1. AuthTypeOK /\ sessions \in Seq(SessionType)
  BY DEF AuthInv, AuthTypeOK
<1>2. CASE sessions' = sessions
  BY <1>2 DEF LoginOf, Live
<1>3. CASE call[c].session \in DOMAIN sessions /\ SetRevoked(call[c].session)
  <2>1. PICK s : s = call[c].session /\ s \in DOMAIN sessions /\ SetRevoked(s)
    BY <1>3
  <2>2. \A t \in DOMAIN sessions : sessions'[t].expires = sessions[t].expires
    BY <1>1, <2>1 DEF SetRevoked, SessionType
  <2>3. /\ DOMAIN sessions' = DOMAIN sessions
        /\ \A t \in DOMAIN sessions : LoginOf(t)' = LoginOf(t)
        /\ \A t \in DOMAIN sessions : Live(t)' <=> Live(t) /\ t # s
    BY <1>1, <2>1, RevokeEffect
  <2> QED BY <2>1, <2>2, <2>3
<1>4. CASE AtStep(c, "create") /\ InsertSession(c)
  <2>1. PICK n : n = Len(sessions) + 1
    OBVIOUS
  <2>2. n \in Nat
    BY <1>1, <2>1
  <2>3. /\ DOMAIN sessions' = DOMAIN sessions \cup {n}
        /\ \A t \in DOMAIN sessions : LoginOf(t)' = LoginOf(t)
        /\ \A t \in DOMAIN sessions : Live(t)' <=> Live(t)
        /\ LoginOf(n)' = IF call[c].session = 0 THEN n ELSE LoginOf(call[c].session)
    BY <1>1, <1>4, <2>1, <2>2, InsertEffect
  <2>4. \A t \in DOMAIN sessions : sessions'[t] = sessions[t]
    BY <1>1, <1>4 DEF InsertSession
  <2> QED BY <1>4, <2>1, <2>3, <2>4
<1> QED BY <1>2, <1>3, <1>4, HandlerRevokesOrInserts

LEMMA HandlerCall ==
  ASSUME AuthInv, CallsOK, NEW c \in Call, HandlerStep(c)
  PROVE  /\ call[c] # None /\ call'[c] # None
         /\ \A d \in Call \ {c} : call'[d] = call[d]
         /\ call'[c].session \in {0, call[c].session, Len(sessions) + 1}
         /\ call[c].step # "logout" =>
              call'[c].step # "logout" /\ (call'[c].step = "ok" => call'[c].pair # None)
         /\ call'[c].pair # None =>
              /\ AtStep(c, "create") /\ InsertSession(c)
              /\ call'[c].pair = NewPair /\ call'[c].step = "ok" /\ call'[c].session = 0
<1>1. /\ call \in [Call -> HandlerType \cup {None}] /\ call[c] \in HandlerType
      /\ call[c] # None /\ call[c].step \notin {"ok", "error"} /\ call[c].pair = None
  BY DEF HandlerStep, LoadSession, RevokeSession, CreateSession, SignFails, UndoSession,
     LogoutSession, StatementFails, AnswerLost, AtStep, AuthInv, AuthTypeOK, CallsOK
<1>2. now \in Nat /\ sessions \in Seq(SessionType) /\ Len(sessions) \in Nat
  BY DEF AuthInv, AuthTypeOK
<1>3. NewPair \in TokenPair /\ NewPair # None
  BY <1>2, NoneIsNoPair, AuthAssumption DEF NewPair, TokenPair
<1>4. ASSUME NEW h \in HandlerType, call' = [call EXCEPT ![c] = h]
      PROVE  call'[c] = h /\ call'[c] # None /\ \A d \in Call \ {c} : call'[d] = call[d]
  BY <1>1, <1>4, HandlerAssumption
<1>5. ASSUME NEW step \in {"revoke", "create", "undo", "logout"},
             NEW s \in {call[c].session, Len(sessions) + 1},
             call' = [call EXCEPT ![c].step = step, ![c].session = s],
             step = "logout" => call[c].step = "logout"
      PROVE  /\ call'[c] # None /\ \A d \in Call \ {c} : call'[d] = call[d]
             /\ call'[c].session = s /\ call'[c].step = step /\ call'[c].pair = None
  <2>0. PICK g : g = call[c] /\ g \in HandlerType /\ g.pair = None
    BY <1>1
  <2>1. PICK h : h = [g EXCEPT !.step = step, !.session = s]
    OBVIOUS
  <2>2. h \in HandlerType /\ h.session = s /\ h.step = step /\ h.pair = None
    <3>1. s \in Nat
      BY <1>1, <1>2 DEF HandlerType
    <3> QED BY <2>0, <2>1, <3>1 DEF HandlerType
  <2>3. call' = [call EXCEPT ![c] = h]
    BY <1>1, <1>5, <2>0, <2>1
  <2> QED BY <1>4, <2>2, <2>3
<1>6. ASSUME NEW step \in {"ok", "error"}, NEW p \in TokenPair \cup {None}, Return(c, step, p)
      PROVE  /\ call'[c] # None /\ \A d \in Call \ {c} : call'[d] = call[d]
             /\ call'[c].session = 0 /\ call'[c].step = step /\ call'[c].pair = p
  <2>1. PICK h : h = Returned(step, p)
    OBVIOUS
  <2>2. h \in HandlerType /\ h.session = 0 /\ h.step = step /\ h.pair = p
    BY <1>6, <2>1, ReturnedRests DEF Returned
  <2>3. call' = [call EXCEPT ![c] = h]
    BY <1>6, <2>1 DEF Return, Returned
  <2> QED BY <1>4, <2>2, <2>3
<1>7. CASE LoadSession(c) \/ RevokeSession(c)
  <2>1. CASE Reject(c)
    BY <1>1, <1>6, <2>1 DEF Reject
  <2>2. ASSUME NEW step \in {"revoke", "create"}, Goto(c, step)
        PROVE  call' = [call EXCEPT ![c].step = step, ![c].session = call[c].session]
    BY <1>1, <2>2 DEF Goto, HandlerType
  <2>3. CASE Goto(c, "revoke")
    BY <1>1, <1>5, <2>2, <2>3
  <2>4. CASE Goto(c, "create")
    BY <1>1, <1>5, <2>2, <2>4
  <2> QED BY <1>7, <2>1, <2>3, <2>4 DEF LoadSession, RevokeSession
<1>8. CASE CreateSession(c)
  BY <1>1, <1>3, <1>6, <1>8 DEF CreateSession, Answer
<1>9. CASE SignFails(c)
  BY <1>1, <1>5, <1>9 DEF SignFails
<1>10. CASE UndoSession(c) \/ StatementFails(c) \/ AnswerLost(c)
  BY <1>1, <1>6, <1>10 DEF UndoSession, StatementFails, AnswerLost, Reject
<1>11. CASE LogoutSession(c)
  BY <1>1, <1>6, <1>11 DEF LogoutSession, Reject, Answer, AtStep
<1> QED BY <1>7, <1>8, <1>9, <1>10, <1>11 DEF HandlerStep

-----------------------------------------------------------------------------
(* What a task does. *)

LEMMA HeldType ==
  ASSUME FInv
  PROVE  /\ storage \in Held /\ \A t \in Tab : tokens[t] \in Held
         /\ \A c \in Call : task[c] # None => task[c].held \in Held
         /\ \A pair \in Held : /\ pair \in TokenPair \cup {None} /\ IsIssued(pair)
BY DEF FInv, FrontendTypeOK, Held, TaskType

\* A client that holds an issued pair can send it.
LEMMA HeldCanBeSent ==
  ASSUME FInv, NEW c \in Call, NEW pair \in Held, pair # None,
         Refresh(c, pair) \/ Logout(c, pair)
  PROVE  ClientStep(c)
<1>1. PICK copy : copy = [session |-> pair.session, access |-> 0,
                          refresh |-> sessions[pair.session].expires]
  OBVIOUS
<1>2. pair.session \in DOMAIN sessions /\ pair.refresh = sessions[pair.session].expires
  BY HeldType DEF IsIssued
<1>3. copy \in Issued
  BY <1>1, <1>2 DEF Issued
<1>4. Refresh(c, copy) \/ Logout(c, copy)
  BY <1>1, <1>2 DEF Refresh, Logout
<1> QED BY <1>3, <1>4 DEF ClientStep

\* The call of a task, before and after a step of it.
TaskCalls(c) ==
  /\ sessions' = sessions /\ now' = now
  /\ \A d \in Call \ {c} : call'[d] = call[d]
  /\ \/ call'[c] = call[c]
     \/ call'[c] = None
     \/ /\ call[c] = None /\ call'[c] # None
        /\ call'[c].pair = None /\ call'[c].step # "ok"
        /\ call'[c].step = "logout" => ~ Doing(c, "signin")' /\ ~ Doing(c, "refresh")'
        /\ \/ call'[c].session = 0
           \/ \E pair \in Held : Names(pair, call'[c].session)

\* The page of a task, and the task itself.
TaskPage(c) ==
  /\ \A d \in Call \ {c} : task'[d] = task[d]
  /\ task' \in [Call -> TaskType \cup {None}]
  /\ task'[c] # None =>
       /\ task'[c].step \in {"signin", "refresh", "logout"} <=> call'[c] # None
       /\ task'[c].step = "signin" <=> task'[c].held = None
       /\ task'[c].held \in Held \cup {None}
       /\ task'[c].step \in {"signin", "refresh"} /\ call'[c] # None /\ call'[c] = call[c]
            => task[c] # None /\ task[c].step = task'[c].step
  /\ \/ UNCHANGED <<tokens, storage>>
     \/ endSession(TabOf[c])
     \/ call'[c] = None /\ Unread(c) /\ commitTokens(TabOf[c], call[c].pair)

LEMMA BeginPage ==
  ASSUME FInv, NEW c \in Call, NEW step, NEW held \in Held \cup {None},
         step \in {"signin", "api", "logout"}, step = "signin" <=> held = None,
         Begin(c, step, held), KeepTokens, call'[c] # None <=> step # "api", call[c] = None
  PROVE  TaskPage(c)
<1>1. PICK x : x = [step |-> step, held |-> held, access |-> 0]
  OBVIOUS
<1>2. held \in TokenPair \cup {None}
  BY HeldType
<1>3. x \in TaskType /\ x.step = step /\ x.held = held
  BY <1>1, <1>2 DEF TaskType
<1>4. task' = [task EXCEPT ![c] = x] /\ task \in [Call -> TaskType \cup {None}]
  BY <1>1 DEF Begin, FInv, FrontendTypeOK
<1>5. /\ task'[c] = x /\ task' \in [Call -> TaskType \cup {None}]
      /\ \A d \in Call \ {c} : task'[d] = task[d]
  BY <1>3, <1>4
<1> QED BY <1>3, <1>5 DEF TaskPage, KeepTokens

\* A task that goes on.
LEMMA EnterPage ==
  ASSUME FInv, NEW c \in Call, task[c] # None, task[c].step # "signin",
         NEW step \in {"api", "refresh", "retry", "next"}, NEW access \in Nat,
         task' = [task EXCEPT ![c].step = step, ![c].access = access],
         step = "refresh" <=> call'[c] # None, call'[c] # None => call[c] = None,
         \/ UNCHANGED <<tokens, storage>>
         \/ call'[c] = None /\ Unread(c) /\ commitTokens(TabOf[c], call[c].pair)
  PROVE  TaskPage(c)
<1>1. PICK x, g : g = task[c] /\ x = [g EXCEPT !.step = step, !.access = access]
  OBVIOUS
<1>2. /\ g \in TaskType /\ g.held \in Held /\ g.held # None
      /\ task \in [Call -> TaskType \cup {None}]
  BY <1>1 DEF FInv, FrontendTypeOK, Held
<1>3. x \in TaskType /\ x.step = step /\ x.held = g.held
  BY <1>1, <1>2 DEF TaskType
<1>4. task' = [task EXCEPT ![c] = x]
  BY <1>1, <1>2
<1>5. /\ task'[c] = x /\ task' \in [Call -> TaskType \cup {None}]
      /\ \A d \in Call \ {c} : task'[d] = task[d]
  BY <1>2, <1>3, <1>4
<1> QED BY <1>2, <1>3, <1>5 DEF TaskPage

LEMMA FinishPage ==
  ASSUME FInv, NEW c \in Call, Finish(c),
         \/ UNCHANGED <<tokens, storage>>
         \/ endSession(TabOf[c])
         \/ call'[c] = None /\ Unread(c) /\ commitTokens(TabOf[c], call[c].pair)
  PROVE  TaskPage(c)
<1>1. /\ task'[c] = None /\ task' \in [Call -> TaskType \cup {None}]
      /\ \A d \in Call \ {c} : task'[d] = task[d]
  BY DEF Finish, FInv, FrontendTypeOK
<1> QED BY <1>1 DEF TaskPage

\* How a step of a task uses its call.
LEMMA ReceiveEffect ==
  ASSUME FInv, NEW c \in Call, NEW step \in {"create", "load", "logout"}, NEW s \in Nat,
         NEW r \in Nat, Receive(c, step, s, r)
  PROVE  /\ sessions' = sessions /\ now' = now
         /\ \A d \in Call \ {c} : call'[d] = call[d]
         /\ call[c] = None /\ call'[c] # None
         /\ call'[c].pair = None /\ call'[c].step = step /\ call'[c].session = s
<1>1. PICK h : h = [step |-> step, session |-> s, refresh |-> r, pair |-> None]
  OBVIOUS
<1>2. h \in HandlerType /\ h # None /\ h.pair = None /\ h.step = step /\ h.session = s
  BY <1>1, HandlerAssumption DEF HandlerType
<1>3. call' = [call EXCEPT ![c] = h] /\ call \in [Call -> HandlerType \cup {None}]
  BY <1>1 DEF Receive, FInv, AuthInv, AuthTypeOK
<1>4. call'[c] = h /\ \A d \in Call \ {c} : call'[d] = call[d]
  BY <1>3
<1> QED BY <1>2, <1>4 DEF Receive

LEMMA CloseEffect ==
  ASSUME FInv, NEW c \in Call, Close(c)
  PROVE  TaskCalls(c) /\ call'[c] = None /\ call[c] # None /\ ClientStep(c)
<1>1. call' = [call EXCEPT ![c] = None] /\ call \in [Call -> HandlerType \cup {None}]
  BY DEF Close, FInv, AuthInv, AuthTypeOK
<1> QED BY <1>1 DEF Close, TaskCalls, ClientStep, AtStep

LEMMA FailsEffect ==
  ASSUME FInv, NEW c \in Call, Fails(c)
  PROVE  TaskCalls(c) /\ (ClientStep(c) \/ UNCHANGED authVars)
<1>1. CASE Close(c)
  BY <1>1, CloseEffect
<1>2. CASE UNCHANGED authVars
  BY <1>2 DEF TaskCalls, authVars
<1> QED BY <1>1, <1>2 DEF Fails

\* What a task waits for is a pair, if it is anything.
LEMMA AcceptedPair ==
  ASSUME FInv, NEW c \in Call, Doing(c, "signin") \/ Doing(c, "refresh"), Accepted(c)
  PROVE  Unread(c) /\ call[c].pair \in TokenPair
BY DEF FInv, CallsOK, Accepted, Unread, AuthInv, AuthTypeOK, HandlerType

LEMMA TaskEffect ==
  ASSUME FInv, NEW c \in Call, TaskStep(c)
  PROVE  TaskCalls(c) /\ TaskPage(c) /\ (ClientStep(c) \/ UNCHANGED authVars)
<1> USE DEF KeepTokens
<1>0. /\ TabOf[c] \in Tab
      /\ task[c] # None => task[c] \in TaskType /\ task[c].held \in Held
      /\ task \in [Call -> TaskType \cup {None}]
  BY FrontendAssumption DEF FInv, FrontendTypeOK, Held
<1>1. CASE SignIn(c)
  <2>1. Receive(c, "create", 0, 0) /\ Begin(c, "signin", None) /\ KeepTokens
    BY <1>1 DEF SignIn, Login
  <2>2. /\ sessions' = sessions /\ now' = now
        /\ \A d \in Call \ {c} : call'[d] = call[d]
        /\ call[c] = None /\ call'[c] # None
        /\ call'[c].pair = None /\ call'[c].step = "create" /\ call'[c].session = 0
    BY <2>1, ReceiveEffect
  <2>3. TaskCalls(c)
    BY <2>2 DEF TaskCalls
  <2>4. TaskPage(c)
    BY <2>1, <2>2, BeginPage
  <2> QED BY <1>1, <2>3, <2>4 DEF SignIn, ClientStep
<1>2. CASE SignedIn(c)
  <2>1. Unread(c)
    BY <1>2, AcceptedPair DEF SignedIn
  <2> QED BY <1>2, <2>1, CloseEffect, FinishPage DEF SignedIn
<1>3. CASE SignInFailed(c)
  BY <1>3, FailsEffect, FinishPage DEF SignInFailed
<1>4. CASE handleLogout(c)
  <2>1. PICK p : p = tokens[TabOf[c]]
    OBVIOUS
  <2>2. p # None /\ Logout(c, p) /\ Begin(c, "logout", p) /\ KeepTokens
    BY <1>4, <2>1 DEF handleLogout
  <2>3. p \in Held /\ p \in TokenPair
    BY <1>0, <2>1, <2>2, HeldType
  <2>4. Receive(c, "logout", p.session, p.refresh) /\ p.session \in Nat /\ p.refresh \in Nat
    BY <2>2, <2>3 DEF Logout, TokenPair
  <2>5. /\ sessions' = sessions /\ now' = now
        /\ \A d \in Call \ {c} : call'[d] = call[d]
        /\ call[c] = None /\ call'[c] # None
        /\ call'[c].pair = None /\ call'[c].step = "logout" /\ call'[c].session = p.session
    BY <2>4, ReceiveEffect
  <2>6. ~ Doing(c, "signin")' /\ ~ Doing(c, "refresh")'
    <3>1. task'[c] = [step |-> "logout", held |-> p, access |-> 0]
      BY <1>0, <2>2 DEF Begin
    <3> QED BY <3>1 DEF Doing
  <2>7. TaskCalls(c)
    BY <2>2, <2>3, <2>5, <2>6 DEF TaskCalls, Names
  <2>8. TaskPage(c)
    BY <2>2, <2>3, <2>5, BeginPage
  <2> QED BY <2>2, <2>3, <2>7, <2>8, HeldCanBeSent
<1>5. CASE LoggedOut(c)
  <2>1. TaskCalls(c) /\ (ClientStep(c) \/ UNCHANGED authVars)
    BY <1>5, CloseEffect, FailsEffect DEF LoggedOut
  <2> QED BY <1>5, <2>1, FinishPage DEF LoggedOut
<1>6. CASE StartTask(c)
  <2>1. PICK p : p = tokens[TabOf[c]]
    OBVIOUS
  <2>2. /\ p # None /\ p \in Held /\ Begin(c, "api", p) /\ KeepTokens /\ UNCHANGED authVars
        /\ call[c] = None
    BY <1>0, <1>6, <2>1, HeldType DEF StartTask, Idle
  <2>3. TaskCalls(c) /\ call'[c] = None
    BY <2>2 DEF TaskCalls, authVars
  <2> QED BY <2>2, <2>3, BeginPage
\* A task goes on without a call of its own.
<1>7. ASSUME NEW step \in {"api", "next"}, Doing(c, "api") \/ Doing(c, "retry") \/ Doing(c, "next"),
             Enter(c, step), KeepTokens, UNCHANGED authVars
      PROVE  TaskCalls(c) /\ TaskPage(c)
  <2>1. PICK a : a = task[c].access
    OBVIOUS
  <2>2. /\ task[c] # None /\ task[c].step \in {"api", "retry", "next"}
        /\ task[c] \in TaskType /\ a \in Nat
    BY <1>0, <1>7, <2>1 DEF Doing, TaskType
  <2>3. task' = [task EXCEPT ![c].step = step, ![c].access = a]
    BY <1>0, <1>7, <2>1, <2>2 DEF Enter, TaskType
  <2>4. call'[c] = None /\ call' = call
    BY <1>7, <2>2 DEF authVars, FInv, FrontendTypeOK
  <2>5. TaskCalls(c)
    BY <1>7, <2>4 DEF TaskCalls, authVars
  <2>6. TaskPage(c)
    BY <1>7, <2>2, <2>3, <2>4, EnterPage
  <2> QED BY <2>5, <2>6
<1>8. ASSUME UNCHANGED authVars PROVE TaskCalls(c)
  BY <1>8 DEF TaskCalls, authVars
<1>9. CASE RequestDone(c) \/ NextRequest(c)
  BY <1>7, <1>8, <1>9, FinishPage DEF RequestDone, NextRequest
<1>10. CASE Retry(c)
  BY <1>7, <1>8, <1>10, FinishPage DEF Retry
<1>11. CASE RequestUnauthorized(c)
  <2>1. PICK p, a : p = task[c].held /\ a = task[c].access
    OBVIOUS
  <2>2. /\ task[c] # None /\ task[c].step = "api" /\ p # None /\ Refresh(c, p)
        /\ Enter(c, "refresh") /\ KeepTokens /\ task[c] \in TaskType /\ a \in Nat
    BY <1>0, <1>11, <2>1 DEF RequestUnauthorized, Doing, FInv, FrontendTypeOK, TaskType
  <2>3. p \in Held /\ p \in TokenPair
    BY <1>0, <2>1, <2>2, HeldType
  <2>4. Receive(c, "load", p.session, p.refresh) /\ p.session \in Nat /\ p.refresh \in Nat
    BY <2>2, <2>3 DEF Refresh, TokenPair
  <2>5. /\ sessions' = sessions /\ now' = now
        /\ \A d \in Call \ {c} : call'[d] = call[d]
        /\ call[c] = None /\ call'[c] # None
        /\ call'[c].pair = None /\ call'[c].step = "load" /\ call'[c].session = p.session
    BY <2>4, ReceiveEffect
  <2>6. TaskCalls(c)
    BY <2>2, <2>3, <2>5 DEF TaskCalls, Names
  <2>7. task' = [task EXCEPT ![c].step = "refresh", ![c].access = a]
    BY <1>0, <2>1, <2>2 DEF Enter, TaskType
  <2>8. TaskPage(c)
    BY <2>2, <2>5, <2>7, EnterPage
  <2> QED BY <2>2, <2>3, <2>6, <2>8, HeldCanBeSent
<1>12. CASE Refreshed(c)
  <2>1. Unread(c) /\ call[c].pair \in TokenPair /\ Close(c)
    BY <1>12, AcceptedPair DEF Refreshed
  <2>2. TaskCalls(c) /\ call'[c] = None /\ ClientStep(c)
    BY <2>1, CloseEffect
  <2>3. PICK a : a = call[c].pair.access /\ a \in Nat
    BY <2>1 DEF TokenPair
  <2>4. /\ task[c] # None /\ task[c].step = "refresh"
        /\ task' = [task EXCEPT ![c].step = "retry", ![c].access = a]
        /\ commitTokens(TabOf[c], call[c].pair)
    BY <1>12, <2>3 DEF Refreshed, Doing
  <2>5. TaskPage(c)
    BY <2>1, <2>2, <2>3, <2>4, EnterPage
  <2> QED BY <2>2, <2>5
<1>13. CASE RefreshFailed(c)
  BY <1>13, FailsEffect, FinishPage DEF RefreshFailed
<1> QED BY <1>1, <1>2, <1>3, <1>4, <1>5, <1>6, <1>9, <1>10, <1>11, <1>12, <1>13
        DEF TaskStep

-----------------------------------------------------------------------------
(* The invariant. *)

\* What the page holds afterwards: what it held, and what it received.
Keeps(c) == \A pair \in Held' :
              \/ pair \in Held \/ pair = None
              \/ call'[c] = None /\ Unread(c) /\ pair = call[c].pair

LEMMA PageKeeps ==
  ASSUME FInv, NEW c \in Call, TaskPage(c)
  PROVE  Keeps(c)
<1>1. tokens \in [Tab -> TokenPair \cup {None}] /\ TabOf[c] \in Tab
  BY FrontendAssumption DEF FInv, FrontendTypeOK
<1>2. ASSUME NEW pair, \/ pair = storage'
                       \/ \E t \in Tab : pair = tokens'[t]
                       \/ \E d \in Call : task'[d] # None /\ pair = task'[d].held
      PROVE  \/ pair \in Held \/ pair = None
             \/ call'[c] = None /\ Unread(c) /\ pair = call[c].pair
  <2>1. CASE pair = storage'
    BY <2>1, HeldType DEF TaskPage, endSession, commitTokens
  <2>2. ASSUME NEW t \in Tab, pair = tokens'[t]
        PROVE  \/ pair \in Held \/ pair = None
               \/ call'[c] = None /\ Unread(c) /\ pair = call[c].pair
    BY <1>1, <2>2, HeldType DEF TaskPage, endSession, commitTokens
  <2>3. ASSUME NEW d \in Call, task'[d] # None, pair = task'[d].held
        PROVE  pair \in Held \cup {None}
    BY <2>3, HeldType DEF TaskPage
  <2> QED BY <1>2, <2>1, <2>2, <2>3
<1>3. \A pair \in Held' :
        \/ pair = storage'
        \/ \E t \in Tab : pair = tokens'[t]
        \/ \E d \in Call : task'[d] # None /\ pair = task'[d].held
  BY DEF Held
<1> QED BY <1>2, <1>3 DEF Keeps

LEMMA SecretStays ==
  ASSUME FInv, NEW c \in Call, TaskCalls(c), Keeps(c)
  PROVE  UnreadIsSecret'
<1> SUFFICES ASSUME NEW d \in Call, Unread(d)' PROVE Secret(d, call[d].pair.session)'
  BY DEF UnreadIsSecret
<1>1. Unread(d) /\ call'[d] = call[d] /\ sessions' = sessions
  BY DEF TaskCalls, Unread
<1>2. PICK s : s = call[d].pair.session
  OBVIOUS
<1>3. Secret(d, s) /\ s \in DOMAIN sessions /\ s # 0
  BY <1>1, <1>2 DEF FInv, UnreadIsSecret, Unread, AuthInv, AuthTypeOK
<1>4. \A pair \in Held' : ~ Names(pair, s)
  <2>1. ASSUME NEW pair \in Held', Names(pair, s)
        PROVE  FALSE
    <3>1. pair \notin Held /\ pair # None
      BY <1>3, <2>1 DEF Secret, Names
    <3>2. call'[c] = None /\ Unread(c) /\ pair = call[c].pair
      BY <3>1 DEF Keeps
    <3>3. c # d
      BY <3>2, <1>1 DEF Unread
    <3> QED BY <1>3, <2>1, <3>2, <3>3 DEF Secret, Unread
  <2> QED BY <2>1
<1>5. \A e \in Call \ {d} : call'[e] # None => call'[e].session # s /\ ~ Names(call'[e].pair, s)
  <2>1. ASSUME NEW e \in Call \ {d}, call'[e] # None
        PROVE  call'[e].session # s /\ ~ Names(call'[e].pair, s)
    <3>1. CASE call'[e] = call[e]
      BY <1>3, <2>1, <3>1 DEF Secret
    <3>2. CASE call'[e] # call[e]
      BY <1>3, <2>1, <3>2 DEF Secret, TaskCalls, Names
    <3> QED BY <3>1, <3>2
  <2> QED BY <2>1
<1>6. Secret(d, s)'
  <2>1. Live(s)' /\ \A u \in DOMAIN sessions' : LoginOf(u)' = LoginOf(s)' => u <= s
    BY <1>1, <1>3 DEF Secret, Live, LoginOf
  <2> QED BY <1>4, <1>5, <2>1 DEF Secret
<1> QED BY <1>1, <1>2, <1>6

Ordered == Replaces(storage, storage') /\ \A t \in Tab : Replaces(tokens[t], tokens'[t])

\* The pair of a read answer replaces an older one, or a pair of another login.
LEMMA CommitOrder ==
  ASSUME FInv, sessions' = sessions, NEW c \in Call, Unread(c),
         NEW pair \in Held, NEW p, p = call[c].pair
  PROVE  /\ p # None
         /\ pair # None /\ LoginOf(pair.session) = LoginOf(p.session)
              => pair.session <= p.session
         /\ Replaces(pair, p)
<1>1. pair # None => pair.session \in DOMAIN sessions
  BY HeldType DEF IsIssued
<1>2. Secret(c, p.session) /\ p # None
  BY DEF FInv, UnreadIsSecret, Unread
<1>3. pair # None /\ LoginOf(pair.session) = LoginOf(p.session)
        => pair.session <= p.session
  BY <1>1, <1>2 DEF Secret
<1> QED BY <1>2, <1>3 DEF Replaces, LoginOf

\* A step of a task keeps the page in order.
LEMMA TaskOrder ==
  ASSUME FInv, NEW c \in Call, TaskCalls(c), TaskPage(c)
  PROVE  TabsBehind' /\ Ordered
<1>1. /\ tokens \in [Tab -> TokenPair \cup {None}] /\ TabOf[c] \in Tab
      /\ sessions' = sessions /\ storage \in Held /\ \A t \in Tab : tokens[t] \in Held
      /\ \A pair \in Held : pair # None => pair.session \in Nat
  BY FrontendAssumption, HeldType DEF FInv, FrontendTypeOK, TaskCalls, TokenPair
<1>2. CASE UNCHANGED <<tokens, storage>>
  <2>1. TabsBehind'
    BY <1>1, <1>2 DEF FInv, TabsBehind, LoginOf
  <2>2. \A pair \in Held : Replaces(pair, pair)
    BY <1>1 DEF Replaces
  <2> QED BY <1>1, <1>2, <2>1, <2>2 DEF Ordered
<1>3. CASE endSession(TabOf[c])
  <2>1. /\ storage' = None /\ \A t \in Tab : tokens'[t] = None \/ tokens'[t] = tokens[t]
    BY <1>1, <1>3 DEF endSession
  <2>2. TabsBehind'
    BY <2>1 DEF TabsBehind
  <2>3. \A pair \in Held : Replaces(pair, pair) /\ Replaces(pair, None)
    BY <1>1 DEF Replaces
  <2> QED BY <1>1, <2>1, <2>2, <2>3 DEF Ordered
<1>4. CASE call'[c] = None /\ Unread(c) /\ commitTokens(TabOf[c], call[c].pair)
  <2>1. PICK p : p = call[c].pair
    OBVIOUS
  <2>2. storage' = p /\ \A t \in Tab : tokens'[t] = p \/ tokens'[t] = tokens[t]
    BY <1>1, <1>4, <2>1 DEF commitTokens
  <2>3. \A pair \in Held :
          /\ pair # None /\ LoginOf(pair.session) = LoginOf(p.session)
               => pair.session <= p.session
          /\ Replaces(pair, p) /\ Replaces(pair, pair)
    BY <1>1, <1>4, <2>1, CommitOrder DEF Replaces
  <2>4. p # None /\ p.session \in Nat
    BY <1>4, <2>1 DEF Unread, FInv, AuthInv, AuthTypeOK, HandlerType, TokenPair
  <2>5. TabsBehind'
    BY <1>1, <2>2, <2>3, <2>4 DEF TabsBehind, LoginOf
  <2> QED BY <1>1, <2>2, <2>3, <2>5 DEF Ordered
<1> QED BY <1>2, <1>3, <1>4 DEF TaskPage

\* The types of the page after a step of a task.
LEMMA TaskTypes ==
  ASSUME FInv, NEW c \in Call, TaskCalls(c), TaskPage(c)
  PROVE  FrontendTypeOK' /\ CallsOK'
<1>1. Keeps(c)
  BY PageKeeps
<1>2. \A pair \in Held' : pair \in TokenPair \cup {None} /\ IsIssued(pair)
  <2>1. Unread(c) => call[c].pair \in TokenPair \cup {None} /\ IsIssued(call[c].pair)
    BY DEF Unread, FInv, CallsOK, AuthInv, AuthTypeOK, HandlerType
  <2> QED BY <1>1, <2>1, HeldType DEF Keeps, IsIssued
<1>3. /\ storage' \in Held' /\ \A t \in Tab : tokens'[t] \in Held'
      /\ \A d \in Call : task'[d] # None => task'[d].held \in Held'
  BY DEF Held
<1>4. \A pair : IsIssued(pair)' <=> IsIssued(pair)
  BY DEF TaskCalls, IsIssued
<1>5. tokens' \in [Tab -> TokenPair \cup {None}]
  <2>1. tokens \in [Tab -> TokenPair \cup {None}]
    BY DEF FInv, FrontendTypeOK
  <2>2. \E p : tokens' = [tokens EXCEPT ![TabOf[c]] = p] \/ tokens' = tokens
    BY DEF TaskPage, endSession, commitTokens
  <2>3. tokens' = [t \in Tab |-> tokens'[t]]
    BY <2>1, <2>2
  <2> QED BY <1>2, <1>3, <2>3
<1>6. \A d \in Call : task'[d] # None =>
        /\ task'[d].step \in {"signin", "refresh", "logout"} <=> call'[d] # None
        /\ task'[d].step = "signin" <=> task'[d].held = None
  BY DEF TaskPage, TaskCalls, FInv, FrontendTypeOK
<1>7. FrontendTypeOK'
  BY <1>2, <1>3, <1>4, <1>5, <1>6 DEF FrontendTypeOK, TaskPage
<1>8. ASSUME NEW d \in Call, call'[d] # None
      PROVE  /\ call'[d].pair # None => call'[d].step = "ok" /\ IsIssued(call'[d].pair)
             /\ Doing(d, "signin")' \/ Doing(d, "refresh")' =>
                  call'[d].step # "logout" /\ (call'[d].step = "ok" => call'[d].pair # None)
  <2>1. CASE call'[d] = call[d]
    <3>1. Doing(d, "signin")' \/ Doing(d, "refresh")'
          => Doing(d, "signin") \/ Doing(d, "refresh")
      BY <1>8, <2>1 DEF TaskPage, Doing
    <3> QED BY <1>8, <2>1, <3>1 DEF FInv, CallsOK
  <2>2. CASE call'[d] # call[d]
    BY <1>8, <2>2 DEF TaskCalls
  <2> QED BY <2>1, <2>2
<1>9. CallsOK'
  <2>1. \A d \in Call : call'[d] # None =>
          /\ call'[d].pair # None => call'[d].step = "ok" /\ IsIssued(call[d].pair)'
          /\ Doing(d, "signin")' \/ Doing(d, "refresh")' =>
               call'[d].step # "logout" /\ (call'[d].step = "ok" => call'[d].pair # None)
    BY <1>8 DEF TaskCalls, IsIssued
  <2> QED BY <2>1 DEF CallsOK
<1> QED BY <1>7, <1>9

LEMMA TaskPreserves ==
  ASSUME FInv, NEW c \in Call, TaskStep(c)
  PROVE  FInv' /\ Ordered
<1>1. TaskCalls(c) /\ TaskPage(c) /\ (ClientStep(c) \/ UNCHANGED authVars)
  BY TaskEffect
<1>2. AuthInv'
  <2>1. [AuthNext]_authVars
    BY <1>1 DEF AuthNext
  <2> QED BY <2>1, NextPreserves DEF FInv
<1> QED BY <1>1, <1>2, PageKeeps, SecretStays, TaskOrder, TaskTypes DEF FInv

\* The answer of a call without a task is thrown away.
LEMMA AbandonedPreserves ==
  ASSUME FInv, NEW c \in Call, Abandoned(c)
  PROVE  FInv' /\ Ordered
<1>1. TaskCalls(c) /\ call'[c] = None /\ ClientStep(c) /\ task[c] = None
  BY CloseEffect DEF Abandoned
<1>2. TaskPage(c)
  BY <1>1 DEF Abandoned, pageVars, TaskPage, FInv, FrontendTypeOK
<1>3. AuthInv'
  <2>1. [AuthNext]_authVars
    BY <1>1 DEF AuthNext
  <2> QED BY <2>1, NextPreserves DEF FInv
<1> QED BY <1>1, <1>2, <1>3, PageKeeps, SecretStays, TaskOrder, TaskTypes DEF FInv

\* A page that is loaded again has what localStorage holds.
LEMMA ReloadPreserves ==
  ASSUME FInv, NEW t \in Tab, Reload(t)
  PROVE  FInv' /\ Ordered
<1>1. /\ tokens \in [Tab -> TokenPair \cup {None}]
      /\ task \in [Call -> TaskType \cup {None}]
      /\ storage \in TokenPair \cup {None}
  BY DEF FInv, FrontendTypeOK
<1>2. /\ sessions' = sessions /\ now' = now /\ call' = call /\ storage' = storage
      /\ tokens'[t] = storage /\ \A u \in Tab \ {t} : tokens'[u] = tokens[u]
      /\ \A c \in Call : task'[c] = None \/ task'[c] = task[c]
      /\ tokens' \in [Tab -> TokenPair \cup {None}]
      /\ task' \in [Call -> TaskType \cup {None}]
  BY <1>1 DEF Reload, authVars
<1>3. Held' \subseteq Held
  BY <1>2 DEF Held
<1>4. AuthInv'
  <2>1. [AuthNext]_authVars
    BY <1>2 DEF authVars
  <2> QED BY <2>1, NextPreserves DEF FInv
<1>5. FrontendTypeOK'
  BY <1>2 DEF FInv, FrontendTypeOK, IsIssued
<1>6. CallsOK'
  BY <1>2 DEF FInv, CallsOK, Doing, IsIssued
<1>7. UnreadIsSecret'
  <2>1. \A c \in Call : Unread(c)' <=> Unread(c)
    BY <1>2 DEF Unread
  <2>2. \A c \in Call : Unread(c) => Secret(c, call[c].pair.session)'
    BY <1>2, <1>3 DEF FInv, UnreadIsSecret, Secret, Live, LoginOf
  <2> QED BY <2>1, <2>2 DEF UnreadIsSecret
<1>8. \A pair \in Held : pair # None => pair.session \in Nat
  BY HeldType DEF TokenPair
<1>9. storage \in Held /\ \A u \in Tab : tokens[u] \in Held
  BY HeldType
<1>10. TabsBehind'
  <2>1. storage # None => storage.session <= storage.session
    BY <1>8, <1>9
  <2> QED BY <1>2, <2>1 DEF FInv, TabsBehind, LoginOf
<1>11. Ordered
  <2>1. \A pair \in Held : Replaces(pair, pair)
    BY <1>8 DEF Replaces
  <2>2. Replaces(tokens[t], storage)
    BY <1>2 DEF FInv, TabsBehind, Replaces, LoginOf
  <2> QED BY <1>2, <1>9, <2>1, <2>2 DEF Ordered
<1> QED BY <1>4, <1>5, <1>6, <1>7, <1>10, <1>11 DEF FInv

\* The pair of a session that has just been stored is known to its handler.
LEMMA NewSecret ==
  ASSUME FInv, NEW c \in Call, HandlerStep(c), UNCHANGED pageVars, call'[c].pair # None
  PROVE  /\ IsIssued(call[c].pair)' /\ Secret(c, call[c].pair.session)'
<1>1. /\ AuthInv /\ AuthTypeOK /\ CallsOK /\ sessions \in Seq(SessionType)
      /\ Len(sessions) \in Nat /\ DOMAIN sessions = 1 .. Len(sessions) /\ now \in Nat
  BY DEF FInv, AuthInv, AuthTypeOK
<1>2. PICK n : n = Len(sessions) + 1 /\ n \in Nat
  BY <1>1
<1>3. /\ \A d \in Call \ {c} : call'[d] = call[d]
      /\ AtStep(c, "create") /\ InsertSession(c) /\ call'[c].pair = NewPair
  BY <1>1, HandlerCall
<1>4. call'[c].pair.session = n /\ call'[c].pair.refresh = now + RefreshTTL
  BY <1>2, <1>3 DEF NewPair
<1>5. /\ DOMAIN sessions' = DOMAIN sessions \cup {n} /\ n \notin DOMAIN sessions
      /\ sessions'[n].expires = now + RefreshTTL /\ ~ sessions'[n].revoked
  BY <1>1, <1>2, <1>3, AuthAssumption DEF InsertSession
<1>6. IsIssued(call[c].pair)'
  BY <1>4, <1>5 DEF IsIssued
<1>7. Held' = Held
  BY DEF Held, pageVars
<1>8. \A pair \in Held' : ~ Names(pair, n)
  BY <1>5, <1>7, HeldType DEF IsIssued, Names
<1>9. \A d \in Call \ {c} : call'[d] # None => call'[d].session # n /\ ~ Names(call'[d].pair, n)
  BY <1>1, <1>2, <1>3, <1>5 DEF AuthTypeOK, Names
<1>10. Live(n)' /\ \A u \in DOMAIN sessions' : u <= n
  BY <1>1, <1>2, <1>5 DEF Live
<1>11. Secret(c, n)'
  BY <1>8, <1>9, <1>10 DEF Secret
<1> QED BY <1>4, <1>6, <1>11

\* A pair that was secret stays so: no handler works on its session, and none
\* inserts a later one, since a live session keeps its login from rotating.
LEMMA OldSecret ==
  ASSUME FInv, NEW c \in Call, HandlerStep(c), UNCHANGED pageVars,
         NEW d \in Call \ {c}, Unread(d), NEW s, s = call[d].pair.session
  PROVE  Secret(d, s)'
<1>1. /\ AuthInv /\ AuthTypeOK /\ CallsOK /\ RotationOwnsLogin
      /\ sessions \in Seq(SessionType)
      /\ Len(sessions) \in Nat /\ DOMAIN sessions = 1 .. Len(sessions)
  BY DEF FInv, AuthInv, AuthTypeOK
<1>2. s \in DOMAIN sessions /\ Secret(d, s) /\ LoginOf(s) \in 1 .. s
  BY <1>1 DEF FInv, UnreadIsSecret, Unread, AuthTypeOK
<1>3. /\ call[c] # None /\ \A e \in Call \ {c} : call'[e] = call[e]
      /\ call'[c].session \in {0, call[c].session, Len(sessions) + 1}
      /\ call'[c].pair # None => call'[c].pair = NewPair
  BY <1>1, HandlerCall
<1>4. call[c].session # s
  BY <1>2, <1>3 DEF Secret
<1>5. /\ DOMAIN sessions \subseteq DOMAIN sessions'
      /\ \A u \in DOMAIN sessions : LoginOf(u)' = LoginOf(u)
      /\ Live(s)'
      /\ \A n \in DOMAIN sessions' \ DOMAIN sessions :
           /\ AtStep(c, "create") /\ n = Len(sessions) + 1
           /\ LoginOf(n)' = IF call[c].session = 0 THEN n ELSE LoginOf(call[c].session)
  BY <1>1, <1>2, <1>4, HandlerTable DEF Secret
<1>6. ASSUME NEW u \in DOMAIN sessions', LoginOf(u)' = LoginOf(s)'
      PROVE  u <= s
  <2>1. CASE u \in DOMAIN sessions
    BY <1>2, <1>5, <1>6, <2>1 DEF Secret
  <2>2. CASE u \notin DOMAIN sessions
    <3>1. /\ AtStep(c, "create") /\ u = Len(sessions) + 1
          /\ LoginOf(s) = IF call[c].session = 0 THEN u ELSE LoginOf(call[c].session)
      BY <1>2, <1>5, <1>6, <2>2
    <3>2. LoginOf(s) # u
      BY <1>1, <1>2, <3>1
    <3>3. Rotating(c) /\ LoginOf(s) = LoginOf(call[c].session)
      BY <3>1, <3>2 DEF Rotating
    <3>4. ~ Live(s)
      BY <1>1, <1>2, <3>3 DEF RotationOwnsLogin
    <3> QED BY <1>2, <3>4 DEF Secret
  <2> QED BY <2>1, <2>2
<1>7. \A pair \in Held' : ~ Names(pair, s)
  <2>1. Held' = Held
    BY DEF Held, pageVars
  <2> QED BY <1>2, <2>1 DEF Secret
<1>8. \A e \in Call \ {d} : call'[e] # None => call'[e].session # s /\ ~ Names(call'[e].pair, s)
  <2>1. call'[c].session # s
    BY <1>1, <1>2, <1>3, <1>4
  <2>2. ~ Names(call'[c].pair, s)
    BY <1>1, <1>2, <1>3 DEF Names, NewPair
  <2> QED BY <1>2, <1>3, <2>1, <2>2 DEF Secret
<1> QED BY <1>5, <1>6, <1>7, <1>8 DEF Secret

LEMMA HandlerKeepsPage ==
  ASSUME FInv, NEW c \in Call, HandlerStep(c), UNCHANGED pageVars
  PROVE  FInv' /\ Ordered
<1>1. /\ AuthInv /\ AuthTypeOK /\ CallsOK
      /\ tokens' = tokens /\ storage' = storage /\ task' = task
  BY DEF FInv, AuthInv, pageVars
<1>2. AuthInv'
  BY <1>1, HandlerPreserves
<1>3. /\ call[c] # None /\ call'[c] # None
      /\ \A d \in Call \ {c} : call'[d] = call[d]
      /\ call[c].step # "logout" =>
           call'[c].step # "logout" /\ (call'[c].step = "ok" => call'[c].pair # None)
      /\ call'[c].pair # None => call'[c].step = "ok"
  BY <1>1, HandlerCall
<1>4. /\ DOMAIN sessions \subseteq DOMAIN sessions'
      /\ \A s \in DOMAIN sessions :
           LoginOf(s)' = LoginOf(s) /\ sessions'[s].expires = sessions[s].expires
  BY <1>1, HandlerTable
<1>5. \A pair : IsIssued(pair) => IsIssued(pair)'
  BY <1>4 DEF IsIssued
<1>6. FrontendTypeOK'
  <2>1. \A d \in Call : call'[d] # None <=> call[d] # None
    BY <1>3
  <2> QED BY <1>1, <1>5, <2>1 DEF FInv, FrontendTypeOK
<1>7. \A d \in Call \ {c} : Unread(d)' <=> Unread(d)
  BY <1>3 DEF Unread
<1>8. ASSUME NEW d \in Call, Unread(d)'
      PROVE  IsIssued(call[d].pair)' /\ Secret(d, call[d].pair.session)'
  <2>1. CASE d = c
    BY <1>8, <2>1, NewSecret DEF Unread
  <2>2. CASE d # c
    <3>1. PICK p, s : p = call[d].pair /\ s = p.session
      OBVIOUS
    <3>2. Unread(d) /\ call'[d].pair = p
      BY <1>3, <1>7, <1>8, <2>2, <3>1
    <3>3. Secret(d, s)'
      BY <2>2, <3>1, <3>2, OldSecret
    <3>4. IsIssued(p)'
      BY <1>1, <1>5, <3>1, <3>2 DEF CallsOK, Unread
    <3> QED BY <3>1, <3>2, <3>3, <3>4
  <2> QED BY <2>1, <2>2
<1>9. UnreadIsSecret'
  BY <1>8 DEF UnreadIsSecret
<1>10. CallsOK'
  BY <1>1, <1>3, <1>8 DEF CallsOK, Doing, Unread
<1>11. storage \in Held /\ \A u \in Tab : tokens[u] \in Held
  BY HeldType
<1>12. TabsBehind'
  <2>1. \A pair \in Held : pair # None => LoginOf(pair.session)' = LoginOf(pair.session)
    BY <1>4, HeldType DEF IsIssued
  <2> QED BY <1>1, <1>11, <2>1 DEF FInv, TabsBehind
<1>13. Ordered
  <2>1. \A pair \in Held : Replaces(pair, pair)
    BY HeldType DEF Replaces, TokenPair
  <2> QED BY <1>1, <1>11, <2>1 DEF Ordered
<1> QED BY <1>2, <1>6, <1>9, <1>10, <1>12, <1>13 DEF FInv

\* Time passes, or nothing happens.
LEMMA RestKeepsPage ==
  ASSUME FInv, UNCHANGED <<sessions, call, pageVars>>, AuthInv'
  PROVE  FInv' /\ Ordered
<1>1. /\ sessions' = sessions /\ call' = call
      /\ tokens' = tokens /\ storage' = storage /\ task' = task
  BY DEF pageVars
<1>2. FrontendTypeOK'
  BY <1>1 DEF FInv, FrontendTypeOK, IsIssued
<1>3. CallsOK'
  BY <1>1 DEF FInv, CallsOK, Doing, IsIssued
<1>4. UnreadIsSecret'
  BY <1>1 DEF FInv, UnreadIsSecret, Unread, Secret, Held, Live, LoginOf
<1>5. TabsBehind'
  BY <1>1 DEF FInv, TabsBehind, LoginOf
<1>6. Ordered
  <2>1. \A pair \in Held : Replaces(pair, pair)
    BY HeldType DEF Replaces, TokenPair
  <2> QED BY <1>1, <2>1, HeldType DEF Ordered
<1> QED BY <1>2, <1>3, <1>4, <1>5, <1>6 DEF FInv

LEMMA InitFInv == FrontendInit => FInv
<1> SUFFICES ASSUME FrontendInit PROVE FInv
  OBVIOUS
<1>1. AuthInv
  BY InitEstablishes DEF FrontendInit
<1> QED BY <1>1 DEF FrontendInit, AuthInit, FInv, FrontendTypeOK, IsIssued, CallsOK,
        UnreadIsSecret, Unread, TabsBehind

LEMMA FrontendStep == FInv /\ [FrontendNext]_frontendVars => FInv' /\ Ordered
<1> SUFFICES ASSUME FInv, [FrontendNext]_frontendVars PROVE FInv' /\ Ordered
  OBVIOUS
<1>1. ASSUME AuthTick \/ UNCHANGED authVars, UNCHANGED pageVars
      PROVE  FInv' /\ Ordered
  <2>1. AuthInv'
    BY <1>1, RestPreserves DEF FInv
  <2> QED BY <1>1, <2>1, RestKeepsPage DEF AuthTick, authVars
<1> QED BY <1>1, HandlerKeepsPage, TaskPreserves, AbandonedPreserves, ReloadPreserves
        DEF FrontendNext, frontendVars

LEMMA FrontendInvariant == FrontendSpec => []FInv
BY InitFInv, FrontendStep, PTL DEF FrontendSpec

-----------------------------------------------------------------------------

\* Types, for any number of tabs and tasks: a task that waits has a call, and
\* the page holds no pair but those that were issued.
THEOREM FrontendTypeCorrect == FrontendSpec => []FrontendTypeOK
<1>1. FInv => FrontendTypeOK
  BY DEF FInv
<1> QED BY <1>1, FrontendInvariant, PTL

\* The answers of two refreshes cannot overtake each other: no tab, and no
\* localStorage, goes back to an earlier pair of a login.
THEOREM PairsGoForward == FrontendSpec => CommitsAreOrdered
<1>1. FInv /\ [FrontendNext]_frontendVars =>
        [Replaces(storage, storage')
         /\ \A t \in Tab : Replaces(tokens[t], tokens'[t])]_frontendVars
  BY FrontendStep DEF Ordered
<1> QED BY <1>1, FrontendInvariant, PTL DEF FrontendSpec, CommitsAreOrdered

\* The page is a client of the sessions like any other: every step of its tabs
\* and tasks is one that AuthSessions allows, or none.
THEOREM FrontendImplementsAuth == FrontendSpec => AuthSpec
<1>1. FInv /\ [FrontendNext]_frontendVars => [AuthNext]_authVars
  <2> SUFFICES ASSUME FInv, [FrontendNext]_frontendVars PROVE [AuthNext]_authVars
    OBVIOUS
  <2>1. ASSUME NEW c \in Call, TaskStep(c)
        PROVE  [AuthNext]_authVars
    <3>1. ClientStep(c) \/ UNCHANGED authVars
      BY <2>1, TaskEffect
    <3> QED BY <3>1 DEF AuthNext
  <2>2. ASSUME NEW c \in Call, Abandoned(c)
        PROVE  [AuthNext]_authVars
    BY <2>2 DEF Abandoned, ClientStep, AuthNext
  <2> QED BY <2>1, <2>2 DEF FrontendNext, frontendVars, Reload, AuthNext
<1>2. FrontendInit => AuthInit
  BY DEF FrontendInit
<1> QED BY <1>1, <1>2, FrontendInvariant, PTL DEF FrontendSpec, AuthSpec

\* Hence, whatever the tabs do, a login has at most one live session.
THEOREM TabsShareOneSession == FrontendSpec => []OneLivePerLogin
BY FrontendImplementsAuth, OneSessionPerLogin, PTL

\* And the page is served by a chain of sessions of each login: no tab, task
\* or abandoned request gets two successors for one refresh token, or any
\* for a login that has ended.
THEOREM TabsKeepChain == FrontendSpec => ChainIsKept
BY FrontendImplementsAuth, AuthImplementsChain, PTL

-----------------------------------------------------------------------------
(* What two functions of one tab can be blamed for.                         *)

\* A function that may end the session of its tab with its next step.
AtSession(c) == task[c] # None /\ task[c].step \in {"refresh", "retry", "logout"}

\* It is then the only one of its tab.
SessionCallsAlone ==
  \A c, d \in Call : TabOf[c] = TabOf[d] /\ AtSession(c) /\ task[d] # None => c = d

\* A task that did not come to sign in runs in a tab that is signed in.
TasksSignedIn ==
  \A c \in Call : task[c] # None /\ task[c].step # "signin" => tokens[TabOf[c]] # None

\* A task that goes on keeps the tokens of its tab, or replaces them.
LEMMA TaskKeepsTokens ==
  ASSUME FInv, TasksSignedIn, NEW c \in Call, TaskStep(c)
  PROVE  /\ task'[c] # None /\ task'[c].step # "signin" => tokens'[TabOf[c]] # None
         /\ tokens[TabOf[c]] = None /\ tokens'[TabOf[c]] # None => SignedIn(c)
         /\ tokens[TabOf[c]] # None /\ tokens'[TabOf[c]] = None => AtSession(c)
         /\ \A d \in Call \ {c} : task'[d] = task[d]
         /\ \A t \in Tab \ {TabOf[c]} : tokens'[t] = tokens[t]
<1>1. /\ TabOf[c] \in Tab /\ tokens \in [Tab -> TokenPair \cup {None}]
      /\ task \in [Call -> TaskType \cup {None}] /\ None \notin TaskType
  BY FrontendAssumption, TaskAssumption DEF FInv, FrontendTypeOK
<1>2. \A step, held : Begin(c, step, held) =>
        /\ \A d \in Call \ {c} : task'[d] = task[d]
        /\ task'[c].step = step
  BY <1>1 DEF Begin
<1>3. \A step : Enter(c, step) => \A d \in Call \ {c} : task'[d] = task[d]
  BY <1>1 DEF Enter
<1>4. Finish(c) => task'[c] = None /\ \A d \in Call \ {c} : task'[d] = task[d]
  BY <1>1 DEF Finish
<1>5. /\ endSession(TabOf[c]) => /\ tokens'[TabOf[c]] = None
                                 /\ \A t \in Tab \ {TabOf[c]} : tokens'[t] = tokens[t]
      /\ \A pair : commitTokens(TabOf[c], pair) =>
           /\ tokens'[TabOf[c]] = pair
           /\ \A t \in Tab \ {TabOf[c]} : tokens'[t] = tokens[t]
  BY <1>1 DEF endSession, commitTokens
<1>6. KeepTokens => tokens' = tokens
  BY DEF KeepTokens
<1>7. CASE SignIn(c)
  BY <1>2, <1>6, <1>7 DEF SignIn
<1>8. CASE SignedIn(c)
  <2>1. call[c].pair # None
    BY <1>8 DEF SignedIn, Doing, Accepted, FInv, CallsOK
  <2> QED BY <1>4, <1>5, <1>8, <2>1 DEF SignedIn
<1>9. CASE SignInFailed(c)
  BY <1>4, <1>6, <1>9 DEF SignInFailed
<1>10. CASE handleLogout(c) \/ StartTask(c)
  BY <1>2, <1>6, <1>10 DEF handleLogout, StartTask
<1>11. CASE LoggedOut(c) \/ RefreshFailed(c)
  BY <1>4, <1>5, <1>11 DEF LoggedOut, RefreshFailed, Doing, AtSession
<1>12. CASE RequestDone(c) \/ RequestUnauthorized(c) \/ NextRequest(c)
  <2>1. tokens' = tokens /\ task[c] # None /\ task[c].step # "signin"
    BY <1>6, <1>12 DEF RequestDone, RequestUnauthorized, NextRequest, Doing
  <2>2. \A d \in Call \ {c} : task'[d] = task[d]
    BY <1>3, <1>4, <1>12 DEF RequestDone, RequestUnauthorized, NextRequest
  <2> QED BY <2>1, <2>2 DEF TasksSignedIn
<1>13. CASE Refreshed(c)
  <2>1. task[c] # None /\ task[c].step = "refresh" /\ call[c].pair # None
    BY <1>13 DEF Refreshed, Doing, Accepted, FInv, CallsOK
  <2>2. \A d \in Call \ {c} : task'[d] = task[d]
    BY <1>1, <1>13 DEF Refreshed
  <2>3. tokens'[TabOf[c]] # None /\ \A t \in Tab \ {TabOf[c]} : tokens'[t] = tokens[t]
    BY <1>5, <1>13, <2>1 DEF Refreshed
  <2> QED BY <2>1, <2>2, <2>3 DEF TasksSignedIn
<1>14. CASE Retry(c)
  <2>1. task[c] # None /\ task[c].step # "signin" /\ tokens[TabOf[c]] # None
    BY <1>14 DEF Retry, Doing, TasksSignedIn
  <2>2. \A d \in Call \ {c} : task'[d] = task[d]
    BY <1>3, <1>4, <1>14 DEF Retry
  <2> QED BY <1>4, <1>5, <1>6, <1>14, <2>1, <2>2 DEF Retry, Doing, AtSession
<1> QED BY <1>7, <1>8, <1>9, <1>10, <1>11, <1>12, <1>13, <1>14 DEF TaskStep

StaysOut ==
  \A t \in Tab :
    tokens[t] = None /\ tokens'[t] # None =>
      \/ \E c \in Call : TabOf[c] = t /\ SignedIn(c)
      \/ Reload(t)

LEMMA SignedInStep ==
  SessionCallsAlone /\ FInv /\ TasksSignedIn /\ [FrontendNext]_frontendVars
    => TasksSignedIn' /\ StaysOut
<1> SUFFICES ASSUME SessionCallsAlone, FInv, TasksSignedIn,
                    [FrontendNext]_frontendVars
             PROVE  TasksSignedIn' /\ StaysOut
  OBVIOUS
<1>1. CASE UNCHANGED pageVars
  BY <1>1 DEF pageVars, TasksSignedIn, StaysOut
<1>2. ASSUME NEW c \in Call, TaskStep(c)
      PROVE  TasksSignedIn' /\ StaysOut
  <2>1. ASSUME NEW d \in Call \ {c}, task[d] # None, task[d].step # "signin"
        PROVE  tokens'[TabOf[d]] # None
    <3>1. TabOf[d] \in Tab /\ tokens[TabOf[d]] # None
      BY <2>1, FrontendAssumption DEF TasksSignedIn
    <3>2. CASE TabOf[d] = TabOf[c]
      BY <1>2, <2>1, <3>1, <3>2, TaskKeepsTokens DEF SessionCallsAlone
    <3> QED BY <1>2, <3>1, <3>2, TaskKeepsTokens
  <2>2. TasksSignedIn'
    BY <1>2, <2>1, TaskKeepsTokens DEF TasksSignedIn
  <2>3. StaysOut
    BY <1>2, TaskKeepsTokens DEF StaysOut
  <2> QED BY <2>2, <2>3
<1>3. ASSUME NEW t \in Tab, Reload(t)
      PROVE  TasksSignedIn' /\ StaysOut
  <2>1. \A u \in Tab \ {t} : tokens'[u] = tokens[u]
    BY <1>3 DEF Reload, FInv, FrontendTypeOK
  <2>2. \A c \in Call : task'[c] # None => TabOf[c] # t /\ task'[c] = task[c]
    BY <1>3 DEF Reload
  <2>3. \A c \in Call : TabOf[c] \in Tab
    BY FrontendAssumption
  <2> QED BY <1>3, <2>1, <2>2, <2>3 DEF TasksSignedIn, StaysOut
<1>4. CASE \E c \in Call : Abandoned(c)
  BY <1>1, <1>4 DEF Abandoned
<1> QED BY <1>1, <1>2, <1>3, <1>4 DEF FrontendNext, frontendVars

\* A logout is undone only where two functions of the tab overlap, one of them
\* refreshing the session or ending it: requests may run side by side, as those
\* of loadDashboard do, but where a refresh, with the request that is repeated
\* after it, or a logout has the tab to itself, a tab without tokens gets some
\* only by signing in or by a reload, whatever fails, is answered late or
\* happens in another tab.  The page does not see to that (authedRequest).
THEOREM AloneStaysOut == FrontendSpec /\ []SessionCallsAlone => LoggedOutStaysOut
<1>1. FrontendInit => TasksSignedIn
  BY DEF FrontendInit, TasksSignedIn
<1>2. SessionCallsAlone /\ FInv /\ TasksSignedIn /\ [FrontendNext]_frontendVars =>
        /\ TasksSignedIn'
        /\ [\A t \in Tab :
              tokens[t] = None /\ tokens'[t] # None =>
                \/ \E c \in Call : TabOf[c] = t /\ SignedIn(c)
                \/ Reload(t)]_frontendVars
  BY SignedInStep DEF StaysOut
<1> QED BY <1>1, <1>2, FrontendInvariant, PTL
        DEF FrontendSpec, LoggedOutStaysOut
=============================================================================
