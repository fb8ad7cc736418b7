-------------------------- MODULE AuthSessionsProofs --------------------------
(***************************************************************************)
(* What holds of AuthSessions for any number of concurrent calls and any   *)
(* use that clients make of the tokens they were given, up to the chains   *)
(* of LoginChain.                                                          *)
(***************************************************************************)
EXTENDS AuthSessions, TLAPS

USE AuthAssumption

\* Between the revocation of a session and the insertion of its successor a
\* handler owns the login: no session of it is live, and no other handler is
\* about to insert one.
Rotating(c) == AtStep(c, "create") /\ call[c].session # 0

RotationOwnsLogin ==
  \A c \in Call : Rotating(c) =>
    /\ \A s \in DOMAIN sessions :
         LoginOf(s) = LoginOf(call[c].session) => ~ Live(s)
    /\ \A d \in Call :
         Rotating(d) /\ LoginOf(call[d].session) = LoginOf(call[c].session) => d = c

\* The inductive invariant.
AuthInv == AuthTypeOK /\ OneLivePerLogin /\ RotationOwnsLogin

-----------------------------------------------------------------------------
(* Facts about the operators. *)

\* None is no pair and no handler.
LEMMA NoneIsNoPair == None \notin TokenPair
BY DEF TokenPair

\* What SetRevoked does to the table.
LEMMA RevokeEffect ==
  ASSUME NEW s \in DOMAIN sessions, sessions \in Seq(SessionType), SetRevoked(s)
  PROVE  /\ sessions' \in Seq(SessionType)
         /\ Len(sessions') = Len(sessions)
         /\ DOMAIN sessions' = DOMAIN sessions
         /\ \A t \in DOMAIN sessions : LoginOf(t)' = LoginOf(t)
         /\ \A t \in DOMAIN sessions : Live(t)' <=> Live(t) /\ t # s
<1>1. /\ sessions[s] \in SessionType
      /\ sessions' = [sessions EXCEPT ![s] = [sessions[s] EXCEPT !.revoked = TRUE]]
  BY DEF SetRevoked
<1>2. [sessions[s] EXCEPT !.revoked = TRUE] \in SessionType
  BY <1>1 DEF SessionType
<1>3. /\ sessions' \in Seq(SessionType)
      /\ Len(sessions') = Len(sessions)
      /\ DOMAIN sessions' = DOMAIN sessions
  BY <1>1, <1>2
<1>4. \A t \in DOMAIN sessions : t # s => sessions'[t] = sessions[t]
  BY <1>1
<1>5. /\ sessions'[s].login = sessions[s].login
      /\ sessions'[s].revoked = TRUE
  BY <1>1 DEF SessionType
<1> QED BY <1>3, <1>4, <1>5 DEF LoginOf, Live

\* What InsertSession does to the table.
LEMMA InsertEffect ==
  ASSUME NEW c \in Call, NEW n \in Nat, n = Len(sessions) + 1,
         AuthTypeOK, AtStep(c, "create"), InsertSession(c)
  PROVE  /\ sessions' \in Seq(SessionType)
         /\ Len(sessions') = n
         /\ Len(sessions') <= MaxSessions
         /\ DOMAIN sessions' = DOMAIN sessions \cup {n}
         /\ n \notin DOMAIN sessions
         /\ \A t \in DOMAIN sessions : LoginOf(t)' = LoginOf(t)
         /\ \A t \in DOMAIN sessions : Live(t)' <=> Live(t)
         /\ LoginOf(n)' =
              IF call[c].session = 0 THEN n ELSE LoginOf(call[c].session)
         /\ LoginOf(n)' \in 1 .. n
<1> DEFINE x == [login   |-> IF call[c].session = 0 THEN n
                             ELSE LoginOf(call[c].session),
                 expires |-> now + RefreshTTL,
                 revoked |-> FALSE]
<1>1. /\ sessions \in Seq(SessionType) /\ Len(sessions) \in Nat
      /\ DOMAIN sessions = 1 .. Len(sessions)
      /\ call[c].session \in DOMAIN sessions \cup {0}
      /\ now \in Nat
  BY DEF AuthTypeOK, AtStep
<1>2. sessions' = Append(sessions, x) /\ Len(sessions) < MaxSessions
  BY DEF InsertSession
<1>3. call[c].session # 0 => LoginOf(call[c].session) \in 1 .. Len(sessions)
  BY <1>1 DEF AuthTypeOK
<1>4. x \in SessionType
  BY <1>1, <1>3 DEF SessionType
<1>5. /\ sessions' \in Seq(SessionType)
      /\ Len(sessions') = n
      /\ sessions'[n] = x
      /\ \A t \in DOMAIN sessions : sessions'[t] = sessions[t]
  BY <1>1, <1>2, <1>4
<1>6. DOMAIN sessions' = DOMAIN sessions \cup {n} /\ n \notin DOMAIN sessions
  <2>1. DOMAIN sessions' = 1 .. n
    BY <1>5
  <2> QED BY <2>1, <1>1
<1>7. /\ LoginOf(n)' = IF call[c].session = 0 THEN n
                                       ELSE LoginOf(call[c].session)
      /\ LoginOf(n)' \in 1 .. n
  <2>1. LoginOf(n)' = x.login
    BY <1>5 DEF LoginOf
  <2> QED BY <2>1, <1>1, <1>3
<1> QED BY <1>1, <1>2, <1>5, <1>6, <1>7 DEF LoginOf, Live

-----------------------------------------------------------------------------
(* The steps, by what they do to the table and to the handler h of c.      *)

\* A handler h that AuthTypeOK accepts, given the rows of the table.
Handles(h, rows) ==
  h # None =>
    /\ h.session \in rows \cup {0}
    /\ h.session = 0 => h.step \in {"create", "ok", "error"}
    /\ h.pair # None => h.pair.session \in rows

\* It is not in the middle of a rotation.
Resting(h) == h # None => h.step # "create" \/ h.session = 0

DeadStaysDead == \A login \in 1 .. Len(sessions) : Dead(login) => Dead(login)'

\* When the handler of c becomes h, the other handlers are as they were, and
\* if h rests, the rotations under way were under way before.
LEMMA CallEffect ==
  ASSUME NEW c \in Call, NEW h \in HandlerType \cup {None},
         AuthTypeOK, call' = [call EXCEPT ![c] = h], NEW rows,
         DOMAIN sessions \subseteq rows, DOMAIN sessions' = rows, Handles(h, rows)
  PROVE  /\ call' \in [Call -> HandlerType \cup {None}]
         /\ call'[c] = h
         /\ \A d \in Call : d # c => call'[d] = call[d]
         /\ \A d \in Call : Handles(call'[d], rows)
         /\ \A d \in Call : d # c => (Rotating(d)' <=> Rotating(d))
         /\ Resting(h) => ~ Rotating(c)'
<1>1. /\ call \in [Call -> HandlerType \cup {None}]
      /\ \A d \in Call : Handles(call[d], DOMAIN sessions)
  BY DEF AuthTypeOK, Handles
<1>2. /\ call' \in [Call -> HandlerType \cup {None}]
      /\ call'[c] = h
      /\ \A d \in Call : d # c => call'[d] = call[d]
  BY <1>1
<1>3. \A d \in Call : Handles(call'[d], rows)
  <2>1. ASSUME NEW d \in Call, d # c
        PROVE  Handles(call'[d], rows)
    BY <2>1, <1>1, <1>2 DEF Handles
  <2> QED BY <2>1, <1>2
<1>4. \A d \in Call : d # c => (Rotating(d)' <=> Rotating(d))
  BY <1>2 DEF Rotating, AtStep
<1>5. Resting(h) => ~ Rotating(c)'
  BY <1>2 DEF Resting, Rotating, AtStep
<1> QED BY <1>2, <1>3, <1>4, <1>5

-----------------------------------------------------------------------------
(* The chains of LoginChain.  A step changes that of one login, or none.   *)

ChainStep == [Chain!ChainNext]_Chains

Logins == {LoginOf(s) : s \in DOMAIN sessions}

\* A dead login, in terms of its sessions and of the rotations under way.
LEMMA DeadMeans ==
  ASSUME NEW login
  PROVE  Dead(login) <=> /\ \A s \in SessionsOf(login) : ~ Live(s)
                         /\ \A c \in Call : Rotating(c) =>
                              LoginOf(call[c].session) # login
BY DEF Dead, Rotating, SessionsOf

\* The same after the step.
LEMMA DeadMeansNext ==
  ASSUME NEW login
  PROVE  Dead(login)' <=> /\ \A s \in SessionsOf(login)' : ~ Live(s)'
                          /\ \A c \in Call : Rotating(c)' =>
                               LoginOf(call[c].session)' # login
BY DEF Dead, Rotating, SessionsOf

\* A login is served as before when its sessions, their state and the
\* rotations of it are as before.
LEMMA SameChain ==
  ASSUME NEW login, SessionsOf(login)' = SessionsOf(login),
         \A s \in SessionsOf(login) : Live(s)' <=> Live(s),
         \A c \in Call : Rotating(c)' /\ LoginOf(call[c].session)' = login <=>
                           Rotating(c) /\ LoginOf(call[c].session) = login
  PROVE  ChainOf(login)' = ChainOf(login)
<1>1. Dead(login)' <=> Dead(login)
  BY DeadMeans, DeadMeansNext
<1>2. {s \in SessionsOf(login)' : Live(s)'} = {s \in SessionsOf(login) : Live(s)}
  OBVIOUS
<1> QED BY <1>1, <1>2 DEF ChainOf

\* No step when every login is served as before.
LEMMA NoChainMoves ==
  ASSUME Logins' = Logins, \A k \in Logins : ChainOf(k)' = ChainOf(k)
  PROVE  Chains' = Chains
BY DEF Chains, Logins

\* A step when all but one are.
LEMMA OneChainMoves ==
  ASSUME NEW l, NEW issued, NEW honoured, NEW open,
         Logins' = Logins \cup {l},
         \A k \in Logins : k # l => ChainOf(k)' = ChainOf(k),
         ChainOf(l)' = [issued |-> issued, honoured |-> honoured, open |-> open]
  PROVE  Chain!Becomes(l, issued, honoured, open)
<1>1. DOMAIN Chains = Logins /\ \A k \in Logins : Chains[k] = ChainOf(k)
  BY DEF Chains, Logins
<1>2. Chains' = [k \in Logins' |-> ChainOf(k)']
  BY DEF Chains, Logins
<1> QED BY <1>1, <1>2 DEF Chain!Becomes

\* What a chain says.
LEMMA ChainSays ==
  ASSUME NEW l \in Logins
  PROVE  /\ l \in DOMAIN Chains
         /\ Chains[l].issued = SessionsOf(l)
         /\ Chains[l].honoured = {s \in SessionsOf(l) : Live(s)}
         /\ Chains[l].open = ~ Dead(l)
<1>1. DOMAIN Chains = Logins /\ Chains[l] = ChainOf(l)
  BY DEF Chains, Logins
<1> QED BY <1>1 DEF ChainOf

\* The login of a session, and a new session, are among those of LoginChain.
LEMMA LoginsBounded ==
  ASSUME AuthTypeOK, NEW s \in DOMAIN sessions
  PROVE  /\ LoginOf(s) \in Logins /\ LoginOf(s) \in 1 .. MaxSessions
         /\ s \in 1 .. MaxSessions
         /\ s \in SessionsOf(LoginOf(s))
<1>1. /\ LoginOf(s) \in 1 .. s /\ s \in 1 .. Len(sessions)
      /\ Len(sessions) \in Nat /\ Len(sessions) <= MaxSessions
  BY DEF AuthTypeOK
<1>2. LoginOf(s) \in 1 .. MaxSessions /\ s \in 1 .. MaxSessions
  BY <1>1
<1> QED BY <1>2 DEF Logins, SessionsOf

\* A login that is not dead and then is has ended.
LEMMA ChainEnds ==
  ASSUME NEW l \in Logins, l \in 1 .. MaxSessions, ~ Dead(l), Dead(l)',
         Logins' = Logins, SessionsOf(l)' = SessionsOf(l),
         \A k \in Logins : k # l => ChainOf(k)' = ChainOf(k)
  PROVE  ChainStep
<1>1. ChainOf(l)' = [issued |-> SessionsOf(l), honoured |-> {}, open |-> FALSE]
  <2>1. {s \in SessionsOf(l)' : Live(s)'} = {}
    BY DeadMeansNext
  <2> QED BY <2>1 DEF ChainOf
<1>2. Chain!Becomes(l, SessionsOf(l), {}, FALSE)
  BY <1>1, OneChainMoves
<1>3. Chain!End(l)
  BY <1>2, ChainSays DEF Chain!End
<1> QED BY <1>3 DEF ChainStep, Chain!ChainNext
-----------------------------------------------------------------------------
\* Steps that leave the table alone.
LEMMA KeepsTable ==
  ASSUME AuthInv, NEW c \in Call, NEW h \in HandlerType \cup {None},
         call' = [call EXCEPT ![c] = h], Handles(h, DOMAIN sessions), Resting(h),
         sessions' = sessions, now' = now
  PROVE  AuthInv' /\ DeadStaysDead /\ ChainStep
<1> USE DEF AuthInv
<1>1. /\ call' \in [Call -> HandlerType \cup {None}]
      /\ \A d \in Call : Handles(call'[d], DOMAIN sessions)
      /\ \A d \in Call : d # c => call'[d] = call[d]
      /\ \A d \in Call : Rotating(d)' <=> d # c /\ Rotating(d)
  BY CallEffect
<1>2. AuthTypeOK'
  BY <1>1 DEF AuthTypeOK, Handles, LoginOf
<1>3. OneLivePerLogin'
  BY DEF OneLivePerLogin, Live, LoginOf
<1>4. RotationOwnsLogin'
  BY <1>1 DEF RotationOwnsLogin, Live, LoginOf
<1>5. DeadStaysDead
  BY <1>1 DEF DeadStaysDead, Dead, Rotating, Live, LoginOf
<1>6. ChainStep
  <2>1. /\ Logins' = Logins
        /\ \A k : SessionsOf(k)' = SessionsOf(k)
        /\ \A t \in DOMAIN sessions : Live(t)' <=> Live(t)
        /\ \A d \in Call : LoginOf(call[d].session)' = sessions[call'[d].session].login
    BY DEF Logins, SessionsOf, LoginOf, Live
  <2>2. \A d \in Call : d # c => LoginOf(call[d].session)' = LoginOf(call[d].session)
    BY <1>1 DEF LoginOf
  <2>3. CASE ~ Rotating(c)
    <3>1. ASSUME NEW k \in Logins
          PROVE  ChainOf(k)' = ChainOf(k)
      <4>1. \A d \in Call : Rotating(d)' /\ LoginOf(call[d].session)' = k <=>
                             Rotating(d) /\ LoginOf(call[d].session) = k
        BY <1>1, <2>2, <2>3
      <4> QED BY <4>1, <2>1, SameChain DEF SessionsOf
    <3> QED BY <2>1, <3>1, NoChainMoves DEF ChainStep
  <2>4. CASE Rotating(c)
    <3>1. call[c].session \in DOMAIN sessions
      BY <2>4 DEF AuthTypeOK, Rotating, AtStep
    <3>2. PICK l \in Logins : l = LoginOf(call[c].session) /\ l \in 1 .. MaxSessions
      BY <3>1, LoginsBounded
    <3>3. ASSUME NEW k \in Logins, k # l
          PROVE  ChainOf(k)' = ChainOf(k)
      <4>1. \A d \in Call : Rotating(d)' /\ LoginOf(call[d].session)' = k <=>
                             Rotating(d) /\ LoginOf(call[d].session) = k
        BY <1>1, <2>2, <3>2, <3>3
      <4> QED BY <4>1, <2>1, SameChain DEF SessionsOf
    <3>4. ~ Dead(l)
      BY <2>4, <3>2, DeadMeans
    <3>5. Dead(l)'
      <4>1. \A t \in SessionsOf(l)' : ~ Live(t)'
        BY <2>1, <2>4, <3>2 DEF RotationOwnsLogin, SessionsOf
      <4>2. \A d \in Call : Rotating(d)' => LoginOf(call[d].session)' # l
        BY <1>1, <2>2, <2>4, <3>2 DEF RotationOwnsLogin
      <4> QED BY <4>1, <4>2, DeadMeansNext
    <3> QED BY <2>1, <3>2, <3>3, <3>4, <3>5, ChainEnds
  <2> QED BY <2>3, <2>4
<1> QED BY <1>2, <1>3, <1>4, <1>5, <1>6

\* Steps that revoke a session, and nothing else.
LEMMA RevokesOnly ==
  ASSUME AuthInv, NEW c \in Call, NEW h \in HandlerType \cup {None},
         call' = [call EXCEPT ![c] = h], Handles(h, DOMAIN sessions), Resting(h),
         ~ Rotating(c),
         NEW s \in DOMAIN sessions, SetRevoked(s), now' = now
  PROVE  AuthInv' /\ DeadStaysDead /\ ChainStep
<1> USE DEF AuthInv
<1>1. /\ sessions' \in Seq(SessionType)
      /\ Len(sessions') = Len(sessions)
      /\ DOMAIN sessions' = DOMAIN sessions
      /\ \A t \in DOMAIN sessions : LoginOf(t)' = LoginOf(t)
      /\ \A t \in DOMAIN sessions : Live(t)' <=> Live(t) /\ t # s
  BY RevokeEffect DEF AuthTypeOK
<1>2. /\ call' \in [Call -> HandlerType \cup {None}]
      /\ \A d \in Call : Handles(call'[d], DOMAIN sessions')
      /\ \A d \in Call : d # c => call'[d] = call[d]
      /\ \A d \in Call : Rotating(d)' <=> Rotating(d)
  BY <1>1, CallEffect
<1>3. \A d \in Call : Rotating(d) => call[d].session \in DOMAIN sessions
  BY DEF AuthTypeOK, Rotating, AtStep
<1>4. \A d \in Call : Rotating(d) =>
        /\ Rotating(d)'
        /\ call'[d].session = call[d].session
        /\ call[d].session \in DOMAIN sessions
        /\ LoginOf(call[d].session)' = LoginOf(call[d].session)
  BY <1>1, <1>2, <1>3
<1>5. AuthTypeOK'
  BY <1>1, <1>2 DEF AuthTypeOK, Handles
<1>6. OneLivePerLogin'
  BY <1>1 DEF OneLivePerLogin
<1>7. RotationOwnsLogin'
  BY <1>1, <1>2, <1>4 DEF RotationOwnsLogin
<1>8. DeadStaysDead
  BY <1>1, <1>2, <1>4 DEF DeadStaysDead, Dead, Rotating
<1>9. ChainStep
  <2>1. Logins' = Logins /\ \A k : SessionsOf(k)' = SessionsOf(k)
    BY <1>1 DEF Logins, SessionsOf
  <2>2. ASSUME NEW k
        PROVE  \A d \in Call : Rotating(d)' /\ LoginOf(call[d].session)' = k <=>
                               Rotating(d) /\ LoginOf(call[d].session) = k
    BY <1>2, <1>4
  <2>3. CASE ~ Live(s)
    <3>1. ASSUME NEW k \in Logins
          PROVE  ChainOf(k)' = ChainOf(k)
      BY <1>1, <2>1, <2>2, <2>3, SameChain DEF SessionsOf
    <3> QED BY <2>1, <3>1, NoChainMoves DEF ChainStep
  <2>4. CASE Live(s)
    <3>1. PICK l \in Logins :
            l = LoginOf(s) /\ l \in 1 .. MaxSessions /\ s \in SessionsOf(l)
      BY LoginsBounded
    <3>2. ASSUME NEW k \in Logins, k # l
          PROVE  ChainOf(k)' = ChainOf(k)
      <4>1. \A t \in SessionsOf(k) : Live(t)' <=> Live(t)
        BY <1>1, <3>1, <3>2 DEF SessionsOf
      <4> QED BY <4>1, <2>1, <2>2, SameChain
    <3>3. ~ Dead(l)
      BY <2>4, <3>1, DeadMeans
    <3>4. Dead(l)'
      <4>1. \A t \in SessionsOf(l)' : ~ Live(t)'
        BY <1>1, <2>1, <2>4, <3>1 DEF OneLivePerLogin, SessionsOf
      <4>2. \A d \in Call : Rotating(d)' => LoginOf(call[d].session)' # l
        BY <1>2, <1>4, <2>4, <3>1 DEF RotationOwnsLogin
      <4> QED BY <4>1, <4>2, DeadMeansNext
    <3> QED BY <2>1, <3>1, <3>2, <3>3, <3>4, ChainEnds
  <2> QED BY <2>3, <2>4
<1> QED BY <1>5, <1>6, <1>7, <1>8, <1>9

\* A handler that revokes a live session becomes the owner of its login.
LEMMA StartsRotation ==
  ASSUME AuthInv, NEW c \in Call, AtStep(c, "revoke"),
         NEW s \in DOMAIN sessions, s = call[c].session, Live(s), SetRevoked(s),
         Goto(c, "create"), now' = now
  PROVE  AuthInv' /\ DeadStaysDead /\ ChainStep
<1> USE DEF AuthInv
<1> DEFINE h == [call[c] EXCEPT !.step = "create"]
<1>1. /\ sessions' \in Seq(SessionType)
      /\ Len(sessions') = Len(sessions)
      /\ DOMAIN sessions' = DOMAIN sessions
      /\ \A t \in DOMAIN sessions : LoginOf(t)' = LoginOf(t)
      /\ \A t \in DOMAIN sessions : Live(t)' <=> Live(t) /\ t # s
  BY RevokeEffect DEF AuthTypeOK
<1>2. /\ call[c] \in HandlerType /\ h \in HandlerType /\ Handles(h, DOMAIN sessions)
      /\ h.session = s
      /\ call' = [call EXCEPT ![c] = h]
  BY DEF AuthTypeOK, AtStep, Goto, HandlerType, Handles
<1> HIDE DEF h
<1>3. /\ call' \in [Call -> HandlerType \cup {None}]
      /\ call'[c] = h
      /\ \A d \in Call : Handles(call'[d], DOMAIN sessions')
      /\ \A d \in Call : d # c => call'[d] = call[d]
      /\ \A d \in Call : d # c => (Rotating(d)' <=> Rotating(d))
  BY <1>1, <1>2, CallEffect
<1>4. \A d \in Call : Rotating(d) => call[d].session \in DOMAIN sessions
  BY DEF AuthTypeOK, Rotating, AtStep
<1>5. ASSUME NEW d \in Call, Rotating(d)
      PROVE  LoginOf(call[d].session) # LoginOf(s)
  BY <1>5, <1>4 DEF RotationOwnsLogin
<1>6. AuthTypeOK'
  BY <1>1, <1>3 DEF AuthTypeOK, Handles
<1>7. OneLivePerLogin'
  BY <1>1 DEF OneLivePerLogin
<1>8. ASSUME NEW t \in DOMAIN sessions, LoginOf(t) = LoginOf(s)
      PROVE  ~ Live(t)'
  BY <1>8, <1>1 DEF OneLivePerLogin
<1>9. RotationOwnsLogin'
  <2>1. ASSUME NEW d \in Call, Rotating(d)', d # c
        PROVE  /\ Rotating(d)
               /\ call'[d].session = call[d].session
               /\ call[d].session \in DOMAIN sessions
               /\ LoginOf(call[d].session)' = LoginOf(call[d].session)
               /\ LoginOf(call[d].session)' # LoginOf(s)'
    BY <2>1, <1>1, <1>3, <1>4, <1>5
  <2>2. call'[c].session = s
    BY <1>2, <1>3
  <2>3. ASSUME NEW d \in Call, Rotating(d)'
        PROVE  /\ \A t \in DOMAIN sessions' :
                    LoginOf(t)' = LoginOf(call[d].session)' => ~ Live(t)'
               /\ \A e \in Call : Rotating(e)' /\
                    LoginOf(call[e].session)' = LoginOf(call[d].session)' => e = d
    <3>1. CASE d = c
      BY <3>1, <2>1, <2>2, <1>1, <1>8
    <3>2. CASE d # c
      <4>1. \A t \in DOMAIN sessions : LoginOf(t) = LoginOf(call[d].session) => ~ Live(t)
        BY <2>1, <2>3, <3>2 DEF RotationOwnsLogin
      <4>2. \A e \in Call : Rotating(e) /\
              LoginOf(call[e].session) = LoginOf(call[d].session) => e = d
        BY <2>1, <2>3, <3>2 DEF RotationOwnsLogin
      <4> QED BY <2>1, <2>2, <2>3, <3>2, <4>1, <4>2, <1>1
    <3> QED BY <3>1, <3>2
  <2> QED BY <2>3 DEF RotationOwnsLogin
<1>10. DeadStaysDead
  <2>1. ASSUME NEW login \in 1 .. Len(sessions), Dead(login)
        PROVE  Dead(login)'
    <3>1. LoginOf(s) # login
      BY <2>1 DEF Dead
    <3>2. \A d \in Call : Rotating(d)' => LoginOf(call[d].session)' # login
      <4>1. ASSUME NEW d \in Call, d # c, Rotating(d)'
            PROVE  LoginOf(call[d].session)' # login
        BY <4>1, <2>1, <1>1, <1>3, <1>4 DEF Dead, Rotating
      <4>2. LoginOf(call[c].session)' # login
        BY <3>1, <1>1, <1>2, <1>3
      <4> QED BY <4>1, <4>2
    <3> QED BY <2>1, <3>2, <1>1 DEF Dead, Rotating
  <2> QED BY <2>1 DEF DeadStaysDead
<1>11. ChainStep
  <2>1. Logins' = Logins /\ \A k : SessionsOf(k)' = SessionsOf(k)
    BY <1>1 DEF Logins, SessionsOf
  <2>2. PICK l \in Logins :
          /\ l = LoginOf(s) /\ l \in 1 .. MaxSessions
          /\ s \in 1 .. MaxSessions /\ s \in SessionsOf(l)
    BY LoginsBounded
  <2>3. call'[c].session = s /\ Rotating(c)' /\ ~ Rotating(c)
    <3>1. h.session = s /\ h.step = "create" /\ h # None /\ s # 0
      <4>1. h.step = "create"
        BY <1>2 DEF h, HandlerType
      <4>2. h # None
        BY <1>2, HandlerAssumption
      <4>3. s # 0
        BY DEF AuthTypeOK
      <4> QED BY <1>2, <4>1, <4>2, <4>3
    <3> QED BY <1>3, <3>1 DEF Rotating, AtStep
  <2>4. ASSUME NEW k \in Logins, k # l
        PROVE  ChainOf(k)' = ChainOf(k)
    <3>1. \A t \in SessionsOf(k) : Live(t)' <=> Live(t)
      BY <1>1, <2>2, <2>4 DEF SessionsOf
    <3>2. \A d \in Call : Rotating(d)' /\ LoginOf(call[d].session)' = k <=>
                           Rotating(d) /\ LoginOf(call[d].session) = k
      <4>1. ASSUME NEW d \in Call, d # c
            PROVE  Rotating(d)' /\ LoginOf(call[d].session)' = k <=>
                   Rotating(d) /\ LoginOf(call[d].session) = k
        BY <4>1, <1>1, <1>3, <1>4
      <4>2. LoginOf(call[c].session)' = l
        BY <1>1, <2>2, <2>3
      <4> QED BY <4>1, <4>2, <2>3, <2>4
    <3> QED BY <3>1, <3>2, <2>1, SameChain
  <2>5. {t \in SessionsOf(l) : Live(t)} = {s}
    BY <2>2 DEF OneLivePerLogin, SessionsOf
  <2>6. ~ Dead(l)
    BY <2>2, DeadMeans
  <2>7. ChainOf(l)' = [issued |-> SessionsOf(l), honoured |-> {}, open |-> TRUE]
    <3>1. ~ Dead(l)'
      <4>1. LoginOf(call[c].session)' = l
        BY <1>1, <2>2, <2>3
      <4> QED BY <4>1, <2>3, DeadMeansNext
    <3>2. {t \in SessionsOf(l)' : Live(t)'} = {}
      BY <1>1, <1>8, <2>1, <2>2 DEF SessionsOf
    <3> QED BY <3>1, <3>2, <2>1 DEF ChainOf
  <2>8. Chain!Becomes(l, SessionsOf(l), {}, TRUE)
    BY <2>1, <2>2, <2>4, <2>7, OneChainMoves
  <2>9. Chain!Exchange(l, s)
    BY <2>2, <2>5, <2>6, <2>8, ChainSays DEF Chain!Exchange
  <2> QED BY <2>2, <2>9 DEF ChainStep, Chain!ChainNext
<1> QED BY <1>6, <1>7, <1>9, <1>10, <1>11

\* A handler at the end of a rotation, or of a login, inserts a session.
LEMMA InsertsSession ==
  ASSUME AuthInv, NEW c \in Call, AtStep(c, "create"),
         NEW n \in Nat, n = Len(sessions) + 1, InsertSession(c),
         NEW h \in HandlerType \cup {None}, call' = [call EXCEPT ![c] = h],
         Handles(h, DOMAIN sessions \cup {n}), Resting(h), now' = now
  PROVE  AuthInv' /\ DeadStaysDead /\ ChainStep
<1> USE DEF AuthInv
<1>1. /\ sessions' \in Seq(SessionType)
      /\ Len(sessions') = n
      /\ Len(sessions') <= MaxSessions
      /\ DOMAIN sessions' = DOMAIN sessions \cup {n}
      /\ n \notin DOMAIN sessions
      /\ \A t \in DOMAIN sessions : LoginOf(t)' = LoginOf(t)
      /\ \A t \in DOMAIN sessions : Live(t)' <=> Live(t)
      /\ LoginOf(n)' = IF call[c].session = 0 THEN n ELSE LoginOf(call[c].session)
      /\ LoginOf(n)' \in 1 .. n
  BY InsertEffect
<1>2. /\ call' \in [Call -> HandlerType \cup {None}]
      /\ \A d \in Call : Handles(call'[d], DOMAIN sessions')
      /\ \A d \in Call : d # c => call'[d] = call[d]
      /\ \A d \in Call : Rotating(d)' <=> d # c /\ Rotating(d)
  <2>1. DOMAIN sessions \subseteq DOMAIN sessions' /\ Handles(h, DOMAIN sessions')
    BY <1>1
  <2> QED BY <2>1, CallEffect
<1>3. /\ DOMAIN sessions = 1 .. Len(sessions) /\ Len(sessions) \in Nat
      /\ \A t \in DOMAIN sessions : LoginOf(t) \in 1 .. t
  BY DEF AuthTypeOK
<1>4. \A d \in Call : Rotating(d) => call[d].session \in DOMAIN sessions
  BY DEF AuthTypeOK, Rotating, AtStep
<1>5. \A d \in Call : Rotating(d)' =>
        /\ Rotating(d) /\ d # c
        /\ call'[d].session = call[d].session
        /\ call[d].session \in DOMAIN sessions
        /\ LoginOf(call[d].session)' = LoginOf(call[d].session)
  BY <1>1, <1>2, <1>4
<1>6. ASSUME NEW t \in DOMAIN sessions, LoginOf(t) = LoginOf(n)'
      PROVE  ~ Live(t)
  <2>1. call[c].session # 0
    BY <1>6, <1>1, <1>3
  <2>2. Rotating(c) /\ LoginOf(t) = LoginOf(call[c].session)
    BY <1>6, <2>1, <1>1 DEF Rotating
  <2> QED BY <2>2 DEF RotationOwnsLogin
<1>7. ASSUME NEW d \in Call, Rotating(d), d # c
      PROVE  LoginOf(call[d].session) # LoginOf(n)'
  <2>1. CASE call[c].session = 0
    BY <2>1, <1>1, <1>3, <1>4, <1>7
  <2>2. CASE call[c].session # 0
    BY <2>2, <1>1, <1>7 DEF RotationOwnsLogin, Rotating
  <2> QED BY <2>1, <2>2
<1>8. AuthTypeOK'
  BY <1>1, <1>2, <1>3 DEF AuthTypeOK, Handles
<1>9. OneLivePerLogin'
  BY <1>1, <1>6 DEF OneLivePerLogin
<1>10. RotationOwnsLogin'
  BY <1>1, <1>5, <1>7 DEF RotationOwnsLogin
<1>11. DeadStaysDead
  <2>1. ASSUME NEW login \in 1 .. Len(sessions), Dead(login)
        PROVE  Dead(login)'
    <3>1. LoginOf(n)' # login
      BY <2>1, <1>1, <1>3 DEF Dead
    <3> QED BY <2>1, <3>1, <1>1, <1>5 DEF Dead, Rotating
  <2> QED BY <2>1 DEF DeadStaysDead
<1>12. ChainStep
  <2>0. PICK l : /\ l = IF call[c].session = 0 THEN n ELSE LoginOf(call[c].session)
                 /\ LoginOf(n)' = l
    BY <1>1
  <2>1. Logins' = Logins \cup {l}
    BY <1>1, <2>0 DEF Logins
  <2>2. l \in 1 .. MaxSessions /\ n \in 1 .. MaxSessions
    BY <1>1, <1>3, <2>0
  <2>3. SessionsOf(l)' = SessionsOf(l) \cup {n}
    BY <1>1, <2>0 DEF SessionsOf
  <2>4. ASSUME NEW k \in Logins, k # l
        PROVE  ChainOf(k)' = ChainOf(k)
    <3>1. SessionsOf(k)' = SessionsOf(k)
      BY <1>1, <2>0, <2>4 DEF SessionsOf
    <3>2. \A t \in SessionsOf(k) : Live(t)' <=> Live(t)
      BY <1>1 DEF SessionsOf
    <3>3. \A d \in Call : Rotating(d)' /\ LoginOf(call[d].session)' = k <=>
                           Rotating(d) /\ LoginOf(call[d].session) = k
      <4>1. Rotating(c) => LoginOf(call[c].session) # k
        BY <2>0, <2>4 DEF Rotating
      <4>2. \A d \in Call : Rotating(d) /\ d # c =>
              LoginOf(call[d].session)' = LoginOf(call[d].session)
        BY <1>2, <1>5
      <4> QED BY <4>1, <4>2, <1>2
    <3> QED BY <3>1, <3>2, <3>3, SameChain
  <2>5. ChainOf(l)' = [issued |-> SessionsOf(l) \cup {n}, honoured |-> {n}, open |-> TRUE]
    <3>1. Live(n)'
      BY <1>1, <1>3, InsertEffect DEF InsertSession, Live
    <3>2. \A t \in SessionsOf(l) : ~ Live(t)'
      BY <1>1, <1>6, <2>0 DEF SessionsOf
    <3>3. {t \in SessionsOf(l)' : Live(t)'} = {n}
      BY <2>3, <3>1, <3>2
    <3>4. ~ Dead(l)'
      BY <2>3, <3>1, DeadMeansNext
    <3> QED BY <2>3, <3>3, <3>4 DEF ChainOf
  <2>6. Chain!Becomes(l, SessionsOf(l) \cup {n}, {n}, TRUE)
    BY <2>1, <2>4, <2>5, OneChainMoves
  <2>7. Chain!Fresh(n)
    <3>1. DOMAIN Chains = Logins /\ \A k \in Logins : n \notin SessionsOf(k)
      BY <1>1 DEF Chains, Logins, SessionsOf
    <3> QED BY <3>1, ChainSays DEF Chain!Fresh
  <2>8. CASE call[c].session = 0
    <3>1. l = n /\ l \notin Logins
      BY <1>1, <1>3, <2>8, <2>0 DEF Logins
    <3>2. SessionsOf(l) = {} /\ DOMAIN Chains = Logins
      BY <3>1 DEF SessionsOf, Logins, Chains
    <3>3. Chain!SignIn(l, n)
      BY <2>6, <2>7, <3>1, <3>2 DEF Chain!SignIn
    <3> QED BY <2>2, <3>3 DEF ChainStep, Chain!ChainNext
  <2>9. CASE call[c].session # 0
    <3>1. call[c].session \in DOMAIN sessions /\ Rotating(c)
      BY <2>9 DEF AuthTypeOK, Rotating, AtStep
    <3>2. l = LoginOf(call[c].session) /\ l \in Logins
      BY <1>1, <2>9, <3>1, LoginsBounded, <2>0
    <3>3. ~ Dead(l)
      BY <3>1, <3>2, DeadMeans
    <3>4. {t \in SessionsOf(l) : Live(t)} = {}
      BY <1>6, <2>0 DEF SessionsOf
    <3>5. Chain!Renew(l, n)
      BY <2>6, <2>7, <3>2, <3>3, <3>4, ChainSays DEF Chain!Renew
    <3> QED BY <2>2, <3>5 DEF ChainStep, Chain!ChainNext
  <2> QED BY <2>8, <2>9
<1> QED BY <1>8, <1>9, <1>10, <1>11, <1>12
-----------------------------------------------------------------------------
(* Every step of the specification is one of these. *)

\* A handler that has returned with an error, or with the pair p.
Returned(step, p) == [step |-> step, session |-> 0, refresh |-> 0, pair |-> p]

\* A handler that has returned rests and is accepted.
LEMMA ReturnedRests ==
  ASSUME NEW step \in {"ok", "error"}, NEW p \in TokenPair \cup {None}, NEW rows,
         p # None => p.session \in rows
  PROVE  /\ Returned(step, p) \in HandlerType
         /\ Handles(Returned(step, p), rows)
         /\ Resting(Returned(step, p))
BY NoneIsNoPair DEF Returned, HandlerType, Handles, Resting

\* A logout that revokes a live session leaves its login without one, and
\* there is no rotation of it: a rotation owns its login.
LEMMA LogoutEnds ==
  ASSUME AuthInv, NEW c \in Call, NEW login, LogsOut(c, login)
  PROVE  Dead(login)'
<1> USE DEF AuthInv
<1>1. PICK s \in DOMAIN sessions : s = call[c].session /\ SetRevoked(s)
  BY DEF LogsOut, LogoutSession, AnswerLost, AtStep, AuthTypeOK, Live
<1>2. /\ DOMAIN sessions' = DOMAIN sessions
      /\ \A t \in DOMAIN sessions : LoginOf(t)' = LoginOf(t)
      /\ \A t \in DOMAIN sessions : Live(t)' <=> Live(t) /\ t # s
  BY <1>1, RevokeEffect DEF AuthTypeOK
<1>3. Live(s) /\ LoginOf(s) = login
  BY <1>2 DEF LogsOut
<1>4. PICK h \in HandlerType : call' = [call EXCEPT ![c] = h] /\ Resting(h)
                              /\ Handles(h, DOMAIN sessions)
  <2>1. PICK step \in {"ok", "error"} : call' = [call EXCEPT ![c] = Returned(step, None)]
    BY DEF LogsOut, LogoutSession, AnswerLost, Answer, Reject, Return, Returned
  <2>2. /\ Returned(step, None) \in HandlerType /\ Resting(Returned(step, None))
        /\ Handles(Returned(step, None), DOMAIN sessions)
    BY ReturnedRests
  <2> QED BY <2>1, <2>2
<1>5. \A d \in Call : Rotating(d)' => Rotating(d) /\ call'[d] = call[d]
  BY <1>2, <1>4, CallEffect
<1>6. \A d \in Call : Rotating(d)' => LoginOf(call[d].session)' # login
  <2>1. ASSUME NEW d \in Call, Rotating(d)'
        PROVE  LoginOf(call[d].session)' # login
    <3>1. Rotating(d) /\ call'[d] = call[d] /\ call[d].session \in DOMAIN sessions
      BY <1>5, <2>1 DEF AuthTypeOK, Rotating, AtStep
    <3>2. LoginOf(call[d].session) # login
      BY <1>3, <3>1 DEF RotationOwnsLogin
    <3> QED BY <1>2, <3>1, <3>2
  <2> QED BY <2>1
<1>7. \A t \in SessionsOf(login)' : ~ Live(t)'
  BY <1>2, <1>3 DEF OneLivePerLogin, SessionsOf
<1> QED BY <1>6, <1>7, DeadMeansNext

\* At the start there is no session and no handler.
LEMMA InitEstablishes == AuthInit => AuthInv
BY DEF AuthInit, AuthInv, AuthTypeOK, OneLivePerLogin, RotationOwnsLogin, Rotating,
       AtStep, SessionType

\* What clients do: a request arrives, or an answer has been read.
LEMMA ClientPreserves ==
  ASSUME AuthInv, NEW c \in Call, ClientStep(c)
  PROVE  AuthInv' /\ DeadStaysDead /\ ChainStep
<1>1. ASSUME NEW step \in {"create", "load", "logout"},
             NEW s \in DOMAIN sessions \cup {0}, NEW r \in Nat,
             s = 0 <=> step = "create", Receive(c, step, s, r)
      PROVE  AuthInv' /\ DeadStaysDead /\ ChainStep
  <2> DEFINE h == [step |-> step, session |-> s, refresh |-> r, pair |-> None]
  <2>1. h \in HandlerType
    BY DEF AuthInv, AuthTypeOK, HandlerType
  <2>2. Handles(h, DOMAIN sessions) /\ Resting(h)
    BY <1>1 DEF Handles, Resting
  <2>3. call' = [call EXCEPT ![c] = h] /\ sessions' = sessions /\ now' = now
    BY <1>1 DEF Receive
  <2> HIDE DEF h
  <2> QED BY <2>1, <2>2, <2>3, KeepsTable
<1>2. CASE Login(c)
  BY <1>1, <1>2 DEF Login
<1>3. ASSUME NEW pair \in Issued, Refresh(c, pair) \/ Logout(c, pair)
      PROVE  AuthInv' /\ DeadStaysDead /\ ChainStep
  <2>1. /\ pair.session \in DOMAIN sessions
        /\ pair.session # 0
        /\ pair.refresh \in Nat
    <3>1. PICK t \in DOMAIN sessions :
            pair = [session |-> t, access |-> 0, refresh |-> sessions[t].expires]
      BY DEF Issued
    <3>2. sessions \in Seq(SessionType) /\ sessions[t] \in SessionType
      BY DEF AuthInv, AuthTypeOK
    <3>3. DOMAIN sessions = 1 .. Len(sessions) /\ Len(sessions) \in Nat
      BY <3>2
    <3> QED BY <3>1, <3>2, <3>3 DEF SessionType
  <2> QED BY <1>1, <1>3, <2>1 DEF Refresh, Logout
<1>4. CASE Close(c)
  BY <1>4, KeepsTable DEF Close, Handles, Resting
<1> QED BY <1>2, <1>3, <1>4 DEF ClientStep

\* What the handlers do, one statement at a time.
LEMMA HandlerPreserves ==
  ASSUME AuthInv, NEW c \in Call, HandlerStep(c)
  PROVE  AuthInv' /\ DeadStaysDead /\ ChainStep
<1> DEFINE s == call[c].session
           n == Len(sessions) + 1
<1>1. /\ call[c] \in HandlerType
      /\ call[c].session \in DOMAIN sessions \cup {0}
      /\ call[c].session = 0 => call[c].step \in {"create", "ok", "error"}
      /\ call[c].pair # None => call[c].pair.session \in DOMAIN sessions
      /\ n \in Nat
      /\ sessions \in Seq(SessionType)
      /\ now \in Nat
  BY DEF HandlerStep, LoadSession, RevokeSession, CreateSession, SignFails, UndoSession,
         LogoutSession, StatementFails, AnswerLost, AtStep, AuthInv, AuthTypeOK
<1>2. ASSUME Reject(c), sessions' = sessions, now' = now
      PROVE  AuthInv' /\ DeadStaysDead /\ ChainStep
  <2>1. call' = [call EXCEPT ![c] = Returned("error", None)]
    BY <1>2 DEF Reject, Return, Returned
  <2> QED BY <1>2, <2>1, ReturnedRests, KeepsTable
<1>3. ASSUME NEW step \in {"ok", "error"}, Return(c, step, None),
             s # 0, ~ Rotating(c), SetRevoked(s), now' = now
      PROVE  AuthInv' /\ DeadStaysDead /\ ChainStep
  <2>1. call' = [call EXCEPT ![c] = Returned(step, None)]
    BY <1>3 DEF Return, Returned
  <2> QED BY <1>1, <1>3, <2>1, ReturnedRests, RevokesOnly
<1>4. CASE LoadSession(c)
  <2>1. CASE Valid(c)
    <3> DEFINE h == [call[c] EXCEPT !.step = "revoke"]
    <3>1. h \in HandlerType /\ Handles(h, DOMAIN sessions) /\ Resting(h)
      BY <1>1, <1>4 DEF LoadSession, AtStep, HandlerType, Handles, Resting
    <3>2. call' = [call EXCEPT ![c] = h] /\ sessions' = sessions /\ now' = now
      BY <1>4, <2>1 DEF LoadSession, Goto
    <3> HIDE DEF h
    <3> QED BY <3>1, <3>2, KeepsTable
  <2>2. CASE ~ Valid(c)
    BY <1>2, <1>4, <2>2 DEF LoadSession
  <2> QED BY <2>1, <2>2
<1>5. CASE RevokeSession(c)
  <2>1. CASE sessions[s].revoked
    BY <1>2, <1>5, <2>1 DEF RevokeSession
  <2>2. CASE ~ sessions[s].revoked
    <3>1. s \in DOMAIN sessions /\ Live(s)
      BY <1>1, <1>5, <2>2 DEF RevokeSession, AtStep, Live
    <3> QED BY <1>5, <2>2, <3>1, StartsRotation DEF RevokeSession
  <2> QED BY <2>1, <2>2
<1>6. CASE CreateSession(c)
  <2>1. NewPair \in TokenPair /\ NewPair.session = n
    BY <1>1 DEF NewPair, TokenPair
  <2>2. NewPair.session \in DOMAIN sessions \cup {n}
    BY <2>1
  <2>3. call' = [call EXCEPT ![c] = Returned("ok", NewPair)]
    BY <1>6 DEF CreateSession, Answer, Return, Returned
  <2>4. /\ Returned("ok", NewPair) \in HandlerType
        /\ Handles(Returned("ok", NewPair), DOMAIN sessions \cup {n})
        /\ Resting(Returned("ok", NewPair))
    BY <2>1, <2>2, ReturnedRests
  <2> QED BY <1>1, <1>6, <2>3, <2>4, InsertsSession DEF CreateSession
<1>7. CASE SignFails(c)
  <2> DEFINE h == [call[c] EXCEPT !.step = "undo", !.session = n]
  <2>1. h \in HandlerType
    BY <1>1 DEF HandlerType
  <2>2. Handles(h, DOMAIN sessions \cup {n}) /\ Resting(h)
    BY <1>1 DEF Handles, Resting, HandlerType
  <2>3. call' = [call EXCEPT ![c] = h]
    BY <1>7 DEF SignFails
  <2> HIDE DEF h
  <2> QED BY <1>1, <1>7, <2>1, <2>2, <2>3, InsertsSession DEF SignFails
<1>8. CASE UndoSession(c)
  BY <1>1, <1>3, <1>8 DEF UndoSession, AtStep, Rotating, Reject
<1>9. CASE LogoutSession(c)
  <2>1. CASE now < call[c].refresh
    BY <1>1, <1>3, <1>9, <2>1 DEF LogoutSession, AtStep, Rotating, Answer
  <2>2. CASE ~ (now < call[c].refresh)
    BY <1>2, <1>9, <2>2 DEF LogoutSession
  <2> QED BY <2>1, <2>2
<1>10. CASE StatementFails(c)
  BY <1>2, <1>10 DEF StatementFails
<1>11. CASE AnswerLost(c)
  <2>1. CASE SetRevoked(s) /\ s # 0 /\ ~ Rotating(c)
    BY <1>3, <1>11, <2>1 DEF AnswerLost, Reject
  <2>2. CASE AtStep(c, "create") /\ InsertSession(c)
    <3>1. call' = [call EXCEPT ![c] = Returned("error", None)]
      BY <1>11 DEF AnswerLost, Reject, Return, Returned
    <3>2. now' = now
      BY <1>11 DEF AnswerLost
    <3>3. /\ Returned("error", None) \in HandlerType
          /\ Handles(Returned("error", None), DOMAIN sessions \cup {n})
          /\ Resting(Returned("error", None))
      BY ReturnedRests
    <3> QED BY <1>1, <2>2, <3>1, <3>2, <3>3, InsertsSession
  <2> QED BY <1>1, <1>11, <2>1, <2>2 DEF AnswerLost, AtStep, Rotating
<1> QED BY <1>4, <1>5, <1>6, <1>7, <1>8, <1>9, <1>10, <1>11 DEF HandlerStep

\* The clock, and steps of others.
LEMMA RestPreserves ==
  ASSUME AuthInv, AuthTick \/ UNCHANGED authVars
  PROVE  AuthInv' /\ DeadStaysDead /\ ChainStep
<1>1. sessions' = sessions /\ call' = call /\ now' \in 0 .. MaxTime
  BY DEF AuthTick, authVars, AuthInv, AuthTypeOK
<1>2. AuthTypeOK'
  BY <1>1 DEF AuthInv, AuthTypeOK, LoginOf
<1>3. OneLivePerLogin' /\ RotationOwnsLogin'
  BY <1>1 DEF AuthInv, OneLivePerLogin, RotationOwnsLogin, Rotating, AtStep, Live, LoginOf
<1>4. DeadStaysDead
  BY <1>1 DEF DeadStaysDead, Dead, AtStep, Live, LoginOf
<1>5. ChainStep
  BY <1>1 DEF ChainStep, Chains, ChainOf, SessionsOf, Dead, AtStep, Live, LoginOf
<1> QED BY <1>2, <1>3, <1>4, <1>5 DEF AuthInv

\* The invariant is inductive, and no step revives a login.
LEMMA NextPreserves ==
  ASSUME AuthInv, [AuthNext]_authVars
  PROVE  AuthInv' /\ DeadStaysDead /\ ChainStep
BY ClientPreserves, HandlerPreserves, RestPreserves DEF AuthNext

\* The invariant holds of every behaviour of the handlers.
LEMMA AuthInvariant == AuthSpec => []AuthInv
<1>1. AuthInv /\ [AuthNext]_authVars => AuthInv'
  BY NextPreserves
<1> QED BY <1>1, InitEstablishes, PTL DEF AuthSpec
-----------------------------------------------------------------------------
\* The table and the handlers of src/internal/handler/auth.go keep their
\* types, and every session that a handler or an answer names is stored.
THEOREM AuthTypeCorrect == AuthSpec => []AuthTypeOK
<1>1. AuthInv => AuthTypeOK
  BY DEF AuthInv
<1> QED BY <1>1, AuthInvariant, PTL

\* However many refreshes and logouts present the same token at the same
\* time, and whatever statement fails, a login has at most one session that
\* is not revoked.
THEOREM OneSessionPerLogin == AuthSpec => []OneLivePerLogin
<1>1. AuthInv => OneLivePerLogin
  BY DEF AuthInv
<1> QED BY <1>1, AuthInvariant, PTL

\* A logout that finds its session live ends the login, and a login whose
\* sessions are all revoked, with no rotation under way, gets no session again:
\* a refresh that read the session before is refused by RevokeSession.
THEOREM DeadLoginsStayDead == AuthSpec => DeadLoginStaysDead
<1>1. AuthInv /\ [AuthNext]_authVars =>
        [\A login \in 1 .. Len(sessions) :
           Dead(login) \/ (\E c \in Call : LogsOut(c, login)) => Dead(login)']_authVars
  BY NextPreserves, LogoutEnds DEF DeadStaysDead
<1> QED BY <1>1, AuthInvariant, PTL DEF AuthSpec, DeadLoginStaysDead

\* What goes on in the handlers looks to a user like the chain of sessions
\* of LoginChain: a token is exchanged once, for one successor, and a login
\* that was ended gets nothing more.
THEOREM AuthImplementsChain == AuthSpec => ChainIsKept
<1>1. AuthInit => Chain!ChainInit
  <2> SUFFICES ASSUME AuthInit PROVE Chains = [l \in {} |-> {}]
    BY DEF Chain!ChainInit
  <2>1. {LoginOf(s) : s \in DOMAIN sessions} = {}
    BY DEF AuthInit
  <2> QED BY <2>1 DEF Chains
<1>2. AuthInv /\ [AuthNext]_authVars => [Chain!ChainNext]_Chains
  BY NextPreserves DEF ChainStep
<1> QED BY <1>1, <1>2, AuthInvariant, PTL DEF AuthSpec, ChainIsKept, Chain!ChainSpec
=============================================================================
