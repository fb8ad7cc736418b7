------------------------------ MODULE Frontend -------------------------------
(***************************************************************************)
(* How the browser keeps a user signed in (src/frontend/src/App.tsx): the  *)
(* token pair of each tab (React state), its copy in localStorage, and the *)
(* asynchronous functions of the page.  A task is one such function: it    *)
(* makes its requests one after the other, all of them through the         *)
(* authedRequest of the render it was created in, so with the tokens of    *)
(* that time.  Every task is named by the call it makes to AuthSessions.   *)
(***************************************************************************)
EXTENDS AuthSessions

CONSTANTS
  Tab,     \* browser tabs on the same localStorage
  TabOf    \* TabOf[c]: the tab in which task c runs

ASSUME FrontendAssumption == TabOf \in [Call -> Tab]

VARIABLES
  tokens,   \* tokens[t]: the state variable tokens of tab t, or None
  storage,  \* the pair in localStorage, or None
  task      \* task[c]: where task c is, or None

pageVars == <<tokens, storage, task>>
frontendVars == <<authVars, pageVars>>

\* held: the tokens in the closure of the task; access: the expiry time of
\* the access token it got by refreshing.
TaskType == [step : {"signin", "api", "refresh", "retry", "next", "logout"},
             held : TokenPair \cup {None}, access : Nat]

ASSUME TaskAssumption == None \notin TaskType

FrontendInit ==
  /\ AuthInit
  /\ tokens = [t \in Tab |-> None]
  /\ storage = None
  /\ task = [c \in Call |-> None]

Doing(c, step) == task[c] # None /\ task[c].step = step
Idle(c) == task[c] = None /\ call[c] = None
Answered(c) == call[c] # None /\ call[c].step \in {"ok", "error"}
Accepted(c) == call[c] # None /\ call[c].step = "ok"

Begin(c, step, held) ==
  task' = [task EXCEPT ![c] = [step |-> step, held |-> held, access |-> 0]]
Enter(c, step) == task' = [task EXCEPT ![c].step = step]
Finish(c) == task' = [task EXCEPT ![c] = None]

\* The call is refused, or the request fails on its way and the call goes on
\* without its task.
Fails(c) ==
  \/ Answered(c) /\ ~ Accepted(c) /\ Close(c)
  \/ Failing /\ UNCHANGED authVars

commitTokens(t, pair) == tokens' = [tokens EXCEPT ![t] = pair] /\ storage' = pair
endSession(t) == tokens' = [tokens EXCEPT ![t] = None] /\ storage' = None
KeepTokens == UNCHANGED <<tokens, storage>>

\* AuthMiddleware: the signature and the expiry time decide, no table.
Authorized(access) == now < access
-----------------------------------------------------------------------------
(* Signing in and out. *)

\* One at a time: authBusy disables the button.
SignIn(c) ==
  /\ Idle(c) /\ tokens[TabOf[c]] = None
  /\ \A d \in Call : TabOf[d] = TabOf[c] => ~ Doing(d, "signin")
  /\ Login(c)
  /\ Begin(c, "signin", None)
  /\ KeepTokens

SignedIn(c) ==
  /\ Doing(c, "signin") /\ Accepted(c)
  /\ commitTokens(TabOf[c], call[c].pair)
  /\ Finish(c)
  /\ Close(c)

SignInFailed(c) ==
  /\ Doing(c, "signin") /\ Fails(c)
  /\ Finish(c)
  /\ KeepTokens

handleLogout(c) ==
  /\ Idle(c) /\ tokens[TabOf[c]] # None
  /\ Logout(c, tokens[TabOf[c]])
  /\ Begin(c, "logout", tokens[TabOf[c]])
  /\ KeepTokens

\* Whatever the answer.
LoggedOut(c) ==
  /\ Doing(c, "logout")
  /\ \/ Accepted(c) /\ Close(c)
     \/ Fails(c)
  /\ endSession(TabOf[c])
  /\ Finish(c)
-----------------------------------------------------------------------------
(* authedRequest. *)

StartTask(c) ==
  /\ Idle(c) /\ tokens[TabOf[c]] # None
  /\ Begin(c, "api", tokens[TabOf[c]])
  /\ KeepTokens /\ UNCHANGED authVars

\* The request succeeds; or it is refused for its token; or it fails, and
\* the task with it.
RequestDone(c) ==
  /\ Doing(c, "api")
  /\ \/ Authorized(task[c].held.access) /\ Enter(c, "next")
     \/ Failing /\ Finish(c)
  /\ KeepTokens /\ UNCHANGED authVars

RequestUnauthorized(c) ==
  /\ Doing(c, "api") /\ ~ Authorized(task[c].held.access)
  /\ Refresh(c, task[c].held)
  /\ Enter(c, "refresh")
  /\ KeepTokens

\* Mutant: the pair that is stored still names the session that is gone.
RefreshedHalf(c) ==
  /\ Doing(c, "refresh") /\ Accepted(c)
  /\ commitTokens(TabOf[c], [call[c].pair EXCEPT !.session = task[c].held.session])
  /\ task' = [task EXCEPT ![c].step = "retry", ![c].access = call[c].pair.access]
  /\ Close(c)

Refreshed(c) ==
  /\ Doing(c, "refresh") /\ Accepted(c)
  /\ commitTokens(TabOf[c], call[c].pair)
  /\ task' = [task EXCEPT ![c].step = "retry", ![c].access = call[c].pair.access]
  /\ Close(c)

RefreshFailed(c) ==
  /\ Doing(c, "refresh") /\ Fails(c)
  /\ endSession(TabOf[c])
  /\ Finish(c)

\* The repeated request is inside the try of the refresh: if it fails, for
\* any reason, the session is ended.
Retry(c) ==
  /\ Doing(c, "retry")
  /\ \/ Authorized(task[c].access) /\ Enter(c, "next") /\ KeepTokens
     \/ ~ Authorized(task[c].access) /\ endSession(TabOf[c]) /\ Finish(c)
     \/ Failing /\ endSession(TabOf[c]) /\ Finish(c)
  /\ UNCHANGED authVars

\* Most tasks save something and then load the list: the second request is
\* made by the same closure.
NextRequest(c) ==
  /\ Doing(c, "next")
  /\ Enter(c, "api") \/ Finish(c)
  /\ KeepTokens /\ UNCHANGED authVars
-----------------------------------------------------------------------------
(* The page is loaded again: its tasks are gone, their calls go on. *)

Reload(t) ==
  /\ tokens' = [tokens EXCEPT ![t] = storage]
  /\ task' = [c \in Call |-> IF TabOf[c] = t THEN None ELSE task[c]]
  /\ UNCHANGED <<authVars, storage>>

Abandoned(c) == task[c] = None /\ Close(c) /\ UNCHANGED pageVars

TaskStep(c) ==
  \/ SignIn(c) \/ SignedIn(c) \/ SignInFailed(c) \/ handleLogout(c) \/ LoggedOut(c)
  \/ StartTask(c) \/ RequestDone(c) \/ RequestUnauthorized(c)
  \/ Refreshed(c) \/ RefreshFailed(c) \/ Retry(c) \/ NextRequest(c)

FrontendNext ==
  \/ (AuthTick \/ \E c \in Call : HandlerStep(c)) /\ UNCHANGED pageVars
  \/ \E c \in Call : TaskStep(c) \/ Abandoned(c)
  \/ \E t \in Tab : Reload(t)

FrontendSpec == FrontendInit /\ [][FrontendNext]_frontendVars
-----------------------------------------------------------------------------
(* Properties. *)

\* What a client holds was issued as it stands.
IsIssued(pair) ==
  pair # None =>
    /\ pair.session \in DOMAIN sessions
    /\ pair.refresh = sessions[pair.session].expires

\* Every variable keeps its type, a task that waits has a call, and the page
\* holds no pair but those that were issued.
FrontendTypeOK ==
  /\ tokens \in [Tab -> TokenPair \cup {None}]
  /\ storage \in TokenPair \cup {None}
  /\ task \in [Call -> TaskType \cup {None}]
  /\ \A c \in Call : task[c] # None =>
       /\ task[c].step \in {"signin", "refresh", "logout"} <=> call[c] # None
       /\ task[c].step = "signin" <=> task[c].held = None
       /\ IsIssued(task[c].held)
  /\ IsIssued(storage) /\ \A t \in Tab : IsIssued(tokens[t])

\* Of two pairs of one login the later one replaces the earlier one and never
\* the reverse, in the tabs and in localStorage: the answers of two refreshes
\* cannot overtake each other, since a session is exchanged only once.
Replaces(old, new) ==
  old # None /\ new # None /\ sessions'[old.session].login = sessions'[new.session].login
    => old.session <= new.session

CommitsAreOrdered ==
  [][Replaces(storage, storage') /\ \A t \in Tab : Replaces(tokens[t], tokens'[t])]_frontendVars
-----------------------------------------------------------------------------
(* Properties that the code is said to have and does not. *)

Refreshable(pair) == now < pair.refresh /\ Live(pair.session)

\* README: the refresh token has a lifetime of JWT_REFRESH_TTL.  A tab drops
\* its tokens only to log out, or when they cannot be refreshed any more.
SessionKept ==
  [][\A t \in Tab :
       tokens[t] # None /\ tokens'[t] = None =>
         \/ \E c \in Call : TabOf[c] = t /\ LoggedOut(c)
         \/ ~ Refreshable(tokens[t])
         \/ Reload(t)]_frontendVars

\* App.tsx: "Logout still clears local credentials if the server session is
\* already gone."  A tab that has no tokens gets some only by signing in, or
\* from another tab.
LoggedOutStaysOut ==
  [][\A t \in Tab :
       tokens[t] = None /\ tokens'[t] # None =>
         \/ \E c \in Call : TabOf[c] = t /\ SignedIn(c)
         \/ Reload(t)]_frontendVars
=============================================================================
