---------------------------- MODULE TelegramLink -----------------------------
(***************************************************************************)
(* Linking a Telegram chat: the API stores a one-time token and returns a  *)
(* deep link; opening it sends "/start <token>" to Telegram, from where    *)
(* the bot process (src/internal/telegramlink/bot.go) fetches it by long   *)
(* polling, consumes the token, enables the channel and replies.  The bot  *)
(* may be stopped at any point and started again, and during a deployment  *)
(* more than one may run.                                                  *)
(***************************************************************************)
EXTENDS AlertChannels

CONSTANTS
  Bot,                    \* processes of cmd/bot
  TokenTTL,               \* lifetime of a link token
  MaxTime, MaxTokens,     \* bounds: the clock, the tokens and the messages,
  MaxUpdates, MaxFaults   \* and the requests and statements that fail

ASSUME TelegramAssumption ==
  /\ TokenTTL \in Nat \ {0}
  /\ {MaxTime, MaxTokens, MaxUpdates, MaxFaults} \subseteq Nat

VARIABLES
  now,         \* time.Now()
  tokens,      \* the rows of telegram_link_tokens
  updates,     \* the messages sent to the bot; update_id is the index
  confirmed,   \* Telegram: the updates up to this one are never delivered again
  bot,         \* bot[b]: where process b is, or None when it does not run
  faults,      \* requests and statements that have failed
  handled,     \* ghost: the updates for which handleUpdate has returned
  replies      \* ghost: what chats were told about which token

linkVars == <<now, tokens, updates, confirmed, bot, faults, handled, replies>>
telegramVars == <<channelVars, linkVars>>

\* Ghost: linked is the sequence of the chats that the token was used for.
TokenType == [expires : Nat, used : BOOLEAN, linked : Seq(Chat)]

\* Another text than /start; or /start with a token, 0 if there is none.  A
\* token that was never stored is refused as a used one is.
UpdateType == [chat : Chat, start : BOOLEAN, token : Nat]

Text == {"connected", "invalid", "temporary"}
ReplyType == [chat : Chat, token : Nat, text : Text]

\* offset, and the updates of the last answer that are still to be handled;
\* in handleUpdate: the update, the time LinkChat was called, and the reply.
BotType ==
  [step : {"loop", "update", "commit", "reply"}, offset : Nat, batch : Seq(Nat),
   update : Nat, at : Nat, text : Text \cup {None}]

ASSUME NoBotAssumption == None \notin BotType \cup Text

NewBot == [step |-> "loop", offset |-> 0, batch |-> << >>, update |-> 0, at |-> 0, text |-> None]

TelegramInit ==
  /\ ChannelsInit
  /\ now = 0
  /\ tokens = << >>
  /\ updates = << >>
  /\ confirmed = 0
  /\ bot = [b \in Bot |-> None]
  /\ faults = 0
  /\ handled = {}
  /\ replies = {}

At(b, step) == bot[b] # None /\ bot[b].step = step
Update(b) == updates[bot[b].update]

Fault == faults < MaxFaults /\ faults' = faults + 1
-----------------------------------------------------------------------------
(* The user. *)

CreateLinkToken ==
  /\ Len(tokens) < MaxTokens
  /\ tokens' = Append(tokens, [expires |-> now + TokenTTL, used |-> FALSE, linked |-> << >>])
  /\ UNCHANGED <<channelVars, now, updates, confirmed, bot, faults, handled, replies>>

\* A link may be opened in any chat, and again.
SendMessage ==
  /\ Len(updates) < MaxUpdates
  /\ \E chat \in Chat, start \in BOOLEAN, token \in 0 .. Len(tokens) :
       /\ start \/ token = 0
       /\ updates' = Append(updates, [chat |-> chat, start |-> start, token |-> token])
  /\ UNCHANGED <<channelVars, now, tokens, confirmed, bot, faults, handled, replies>>

LinkTick ==
  /\ now < MaxTime
  /\ now' = now + 1
  /\ UNCHANGED <<channelVars, tokens, updates, confirmed, bot, faults, handled, replies>>
-----------------------------------------------------------------------------
(* Bot.Run. *)

Start(b) ==
  /\ bot[b] = None
  /\ bot' = [bot EXCEPT ![b] = NewBot]
  /\ UNCHANGED <<channelVars, now, tokens, updates, confirmed, faults, handled, replies>>

\* A crash or SIGTERM: once the context is done no request or statement has
\* an effect, and the next getUpdates ends the loop.  An open transaction is
\* rolled back.
Stop(b) ==
  /\ bot[b] # None
  /\ bot' = [bot EXCEPT ![b] = None]
  /\ UNCHANGED <<channelVars, now, tokens, updates, confirmed, faults, handled, replies>>

\* getUpdates with an offset: what comes before it is confirmed.
Confirm(b) ==
  confirmed' = IF bot[b].offset > confirmed THEN bot[b].offset - 1 ELSE confirmed

\* Mutant: the loop does not wait for handleUpdate.
PollAlways(b) ==
  /\ bot[b] # None
  /\ Confirm(b)
  /\ \E n \in confirmed' .. Len(updates) :
       bot' = [bot EXCEPT ![b].batch = [i \in 1 .. n - confirmed' |-> confirmed' + i],
                          ![b].offset = IF n > confirmed' THEN n + 1 ELSE bot[b].offset]
  /\ UNCHANGED <<channelVars, now, tokens, updates, faults, handled, replies>>

\* The answer holds some of the updates that are not confirmed, from the
\* first one on, and none only if there is none.
Poll(b) ==
  /\ At(b, "loop") /\ bot[b].batch = << >>
  /\ Confirm(b)
  /\ \E n \in confirmed' .. Len(updates) :
       /\ n = confirmed' => n = Len(updates)
       /\ bot' = [bot EXCEPT ![b].batch = [i \in 1 .. n - confirmed' |-> confirmed' + i]]
  /\ UNCHANGED <<channelVars, now, tokens, updates, faults, handled, replies>>

\* The request, or its answer, is lost; the loop goes on after a delay.
PollFails(b) ==
  /\ At(b, "loop") /\ bot[b].batch = << >>
  /\ Fault
  /\ Confirm(b) \/ UNCHANGED confirmed
  /\ UNCHANGED <<channelVars, now, tokens, updates, bot, handled, replies>>
-----------------------------------------------------------------------------
(* handleUpdate. *)

Answer(b, text) == bot' = [bot EXCEPT ![b].step = "reply", ![b].text = text]

Taking(b, u) ==
  [bot[b] EXCEPT !.batch = Tail(bot[b].batch),
                 !.offset = IF u >= bot[b].offset THEN u + 1 ELSE bot[b].offset]

\* Mutant: the offset is one too far.
TakeOffByOne(b) ==
  /\ At(b, "loop") /\ bot[b].batch # << >>
  /\ LET u == Head(bot[b].batch)
     IN /\ bot' = [bot EXCEPT ![b] = [Taking(b, u) EXCEPT !.offset = u + 2]]
        /\ handled' = handled \cup {u}
  /\ UNCHANGED <<channelVars, now, tokens, updates, confirmed, faults, replies>>

Take(b) ==
  /\ At(b, "loop") /\ bot[b].batch # << >>
  /\ LET u == Head(bot[b].batch)
         next == Taking(b, u)
     IN \/ /\ ~ updates[u].start
           /\ bot' = [bot EXCEPT ![b] = next]
           /\ handled' = handled \cup {u}
        \/ /\ updates[u].start /\ updates[u].token = 0
           /\ bot' = [bot EXCEPT ![b] = [next EXCEPT !.step = "reply", !.update = u,
                                                   !.text = "invalid"]]
           /\ UNCHANGED handled
        \/ /\ updates[u].start /\ updates[u].token # 0
           /\ bot' = [bot EXCEPT ![b] = [next EXCEPT !.step = "update", !.update = u, !.at = now]]
           /\ UNCHANGED handled
  /\ UNCHANGED <<channelVars, now, tokens, updates, confirmed, faults, replies>>

\* The row of token t is locked by a transaction that is still open.
TokenLocked(t) == \E b \in Bot : At(b, "commit") /\ Update(b).token = t

\* Mutant: the token is checked before the transaction takes the lock.
LinkBeginUnlocked(b) ==
  /\ At(b, "update")
  /\ LET token == tokens[Update(b).token]
     IN IF ~ token.used /\ bot[b].at < token.expires
        THEN bot' = [bot EXCEPT ![b].step = "commit"]
        ELSE Answer(b, "invalid")
  /\ UNCHANGED <<channelVars, now, tokens, updates, confirmed, faults, handled, replies>>

\* Mutant: a token that was used, perhaps by this very message before a
\* restart, is taken for a link that was made.
LinkBeginAgain(b) ==
  /\ At(b, "update") /\ ~ TokenLocked(Update(b).token)
  /\ LET token == tokens[Update(b).token]
     IN IF token.used THEN Answer(b, "connected")
        ELSE IF bot[b].at < token.expires
        THEN bot' = [bot EXCEPT ![b].step = "commit"]
        ELSE Answer(b, "invalid")
  /\ UNCHANGED <<channelVars, now, tokens, updates, confirmed, faults, handled, replies>>

\* The first statement of ConsumeLinkToken waits for the lock of the row and
\* then decides by the row as it is.
LinkBegin(b) ==
  /\ At(b, "update") /\ ~ TokenLocked(Update(b).token)
  /\ LET token == tokens[Update(b).token]
     IN IF ~ token.used /\ bot[b].at < token.expires
        THEN bot' = [bot EXCEPT ![b].step = "commit"]
        ELSE Answer(b, "invalid")
  /\ UNCHANGED <<channelVars, now, tokens, updates, confirmed, faults, handled, replies>>

Consume(t, chat) ==
  tokens' = [tokens EXCEPT ![t].used = TRUE, ![t].linked = Append(@, chat)]

Link(b) ==
  /\ At(b, "commit")
  /\ Upsert(Update(b).chat)
  /\ Consume(Update(b).token, Update(b).chat)
  /\ UNCHANGED <<patch, now, updates, confirmed, handled, replies>>

LinkCommit(b) == Link(b) /\ Answer(b, "connected") /\ UNCHANGED faults

\* The commit succeeds and its answer is lost.
LinkCommitUnknown(b) == Link(b) /\ Answer(b, "temporary") /\ Fault

\* A statement fails and the transaction is rolled back.
LinkFails(b) ==
  /\ At(b, "update") \/ At(b, "commit")
  /\ Answer(b, "temporary")
  /\ Fault
  /\ UNCHANGED <<channelVars, now, tokens, updates, confirmed, handled, replies>>

\* Mutant: a message that cannot be sent ends the batch.
ReplyFailsReturns(b) ==
  /\ At(b, "reply")
  /\ bot' = [bot EXCEPT ![b].step = "loop", ![b].batch = << >>,
                        ![b].offset = Len(updates) + 1]
  /\ Fault
  /\ UNCHANGED <<channelVars, now, tokens, updates, confirmed, handled, replies>>

Returns(b) ==
  /\ At(b, "reply")
  /\ bot' = [bot EXCEPT ![b].step = "loop", ![b].update = 0, ![b].at = 0, ![b].text = None]
  /\ handled' = handled \cup {bot[b].update}
  /\ UNCHANGED <<channelVars, now, tokens, updates, confirmed>>

Reply(b) ==
  /\ Returns(b)
  /\ replies' = replies \cup
       {[chat |-> Update(b).chat, token |-> Update(b).token, text |-> bot[b].text]}
  /\ UNCHANGED faults

\* The message is lost, and only logged.
ReplyFails(b) == Returns(b) /\ Fault /\ UNCHANGED replies

BotStep(b) ==
  \/ Poll(b) \/ PollFails(b) \/ Take(b) \/ LinkBegin(b) \/ LinkCommit(b)
  \/ LinkCommitUnknown(b) \/ LinkFails(b) \/ Reply(b) \/ ReplyFails(b)

TelegramNext ==
  \/ CreateLinkToken \/ SendMessage \/ LinkTick
  \/ ChannelStep /\ UNCHANGED linkVars
  \/ \E b \in Bot : Start(b) \/ Stop(b) \/ BotStep(b)

\* A process that runs goes on, and nothing starts one that was stopped.
\* PostgreSQL grants a row lock in the order in which it was asked for, so a
\* process that waits for a token gets it between the attempts of others.
TelegramSpec ==
  /\ TelegramInit /\ [][TelegramNext]_telegramVars
  /\ \A b \in Bot : WF_telegramVars(BotStep(b)) /\ SF_telegramVars(LinkBegin(b))
-----------------------------------------------------------------------------
(* Properties. *)

\* Every variable keeps its type; a process works on updates and tokens that
\* exist, and asks at most for the update after the last one sent.
TelegramTypeOK ==
  /\ ChannelsTypeOK
  /\ now \in 0 .. MaxTime /\ faults \in 0 .. MaxFaults
  /\ tokens \in Seq(TokenType) /\ updates \in Seq(UpdateType)
  /\ \A u \in DOMAIN updates : updates[u].token \in DOMAIN tokens \cup {0}
  /\ confirmed \in 0 .. Len(updates)
  /\ bot \in [Bot -> BotType \cup {None}]
  /\ \A b \in Bot : bot[b] # None =>
       /\ bot[b].offset \in 0 .. Len(updates) + 1
       /\ bot[b].batch \in Seq(DOMAIN updates)
       /\ bot[b].step # "loop" => bot[b].update \in DOMAIN updates
       /\ bot[b].step = "reply" <=> bot[b].text # None
  /\ handled \subseteq DOMAIN updates
  /\ replies \subseteq ReplyType

\* openapi.yaml: "a one-time deep link".  A token connects one chat at most,
\* though it is delivered again after a restart and two processes may work on
\* it at the same time.
OneLinkPerToken ==
  \A t \in DOMAIN tokens : Len(tokens[t].linked) = IF tokens[t].used THEN 1 ELSE 0

\* Telegram forgets an update only when it has been handled: a stop in the
\* middle of a batch loses none.
ConfirmedWasHandled == 1 .. confirmed \subseteq handled

\* A chat that was told it is connected is the one its token was used for,
\* whatever failed and whoever else sent the token.  Who was told that a link
\* is invalid sent one that has been used, by this chat or another, or has
\* expired, or is none; and who was told to try again met a failure.
RepliesTellTheTruth ==
  \A r \in replies :
    /\ r.text = "connected" => tokens[r.token].linked = <<r.chat>>
    /\ r.text = "invalid" =>
         r.token = 0 \/ tokens[r.token].used \/ tokens[r.token].expires <= now
    /\ r.text = "temporary" => faults > 0

\* What a user sees of the tables and of the replies.
Opened == [t \in DOMAIN tokens |-> tokens[t].linked]
Connected(row, chat) == row.type = "telegram" /\ row.address = chat /\ row.enabled
Reached == {chat \in Chat :
              \E id \in DOMAIN channels : Exists(id) /\ Connected(channels[id], chat)}
Told == {<<r.token, r.chat>> : r \in {r \in replies : r.text = "connected"}}

Linking == INSTANCE DeepLink WITH
  Token <- 1 .. MaxTokens, opened <- Opened, reached <- Reached, told <- Told

\* The bot keeps the promise that DeepLink states: with any number of
\* processes, restarts and failures a token is used in the very step that
\* makes alerts reach the chat, once, and before the chat is told.
LinksAreKept == Linking!LinkingSpec

\* As long as a process keeps running, every message is handled: there is
\* always another time at which none is left, or the process has stopped.
StartAnswered ==
  \A b \in Bot : []<>(bot[b] = None \/ handled = DOMAIN updates)
=============================================================================
