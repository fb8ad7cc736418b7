------------------------- MODULE TelegramLinkProofs --------------------------
(***************************************************************************)
(* Theorems about TelegramLink.  One about tokens: the row lock that the   *)
(* update of ConsumeLinkToken takes makes the check of used_at and its     *)
(* assignment one step, so a token links one chat and replies are true.    *)
(* One about updates: a process asks for updates past the ones it took     *)
(* only after it has handled them all.  And one about both: what users see *)
(* is what DeepLink promises.                                              *)
(***************************************************************************)
EXTENDS TelegramLink, AlertChannelsProofs, SequenceTheorems

\* From its first statement on, a transaction is the only one on its token,
\* and the token is not used.
LockedTokensAreUnused ==
  \A b \in Bot :
    /\ At(b, "update") \/ At(b, "commit") => Update(b).token \in DOMAIN tokens
    /\ At(b, "commit") => ~ tokens[Update(b).token].used
    /\ \A c \in Bot : At(b, "commit") /\ At(c, "commit") /\ Update(b).token = Update(c).token
                        => b = c

IsLinked(t, chat) == t \in DOMAIN tokens /\ tokens[t].used /\ tokens[t].linked = <<chat>>

\* What is to be said, or was said, about a token is true of it.
RepliesAreTrue ==
  /\ \A b \in Bot : At(b, "reply") /\ bot[b].text = "connected"
       => IsLinked(Update(b).token, Update(b).chat)
  /\ \A r \in replies : r.text = "connected" => IsLinked(r.token, r.chat)

\* A token that is none, has been used, or is past its time.
Refused(t) ==
  \/ t = 0
  \/ t \in DOMAIN tokens /\ (tokens[t].used \/ tokens[t].expires <= now)

Reason(text, t) ==
  /\ text = "invalid" => Refused(t)
  /\ text = "temporary" => faults > 0

\* What is to be said, or was said, has a reason; LinkChat was called by now.
ReasonsGiven ==
  /\ \A b \in Bot : /\ At(b, "reply") => Reason(bot[b].text, Update(b).token)
                    /\ At(b, "update") => bot[b].at <= now
  /\ \A r \in replies : Reason(r.text, r.token)

TokenInv == TelegramTypeOK /\ LockedTokensAreUnused /\ OneLinkPerToken /\ RepliesAreTrue

\* All updates before u are handled, but for the one that b is working on.
HandledBefore(b, u) ==
  \A v \in 1 .. u - 1 : v \in handled \/ (bot[b].step # "loop" /\ v = bot[b].update)

\* The batch is a run of consecutive updates, and what precedes it, and what
\* precedes the offset, has been taken by this process or confirmed.
TakenInOrder ==
  \A b \in Bot : bot[b] # None =>
    /\ \A i \in DOMAIN bot[b].batch : bot[b].batch[i] = bot[b].batch[1] + i - 1
    /\ bot[b].batch # << >> => HandledBefore(b, bot[b].batch[1])
    /\ HandledBefore(b, bot[b].offset)

DeliveryInv == TelegramTypeOK /\ TakenInOrder /\ ConfirmedWasHandled
-----------------------------------------------------------------------------
(* Types. *)

LEMMA TypeInit == TelegramInit => TelegramTypeOK
BY TelegramAssumption
DEF TelegramInit, TelegramTypeOK, ChannelsInit, ChannelsTypeOK

LEMMA RunningType ==
  ASSUME TelegramTypeOK, NEW b \in Bot, bot[b] # None
  PROVE  bot[b] \in BotType
BY DEF TelegramTypeOK

LEMMA UpdateRecord ==
  ASSUME TelegramTypeOK, NEW b \in Bot, bot[b].update \in DOMAIN updates
  PROVE  /\ Update(b) \in UpdateType /\ Update(b).chat \in Chat
         /\ Update(b).token \in DOMAIN tokens \cup {0} /\ Update(b).token \in Nat
<1>1. \A i \in DOMAIN updates : updates[i] \in UpdateType
  BY DEF TelegramTypeOK
<1>2. Update(b) \in UpdateType
  BY <1>1 DEF Update
<1>3. Update(b).chat \in Chat /\ Update(b).token \in Nat
  BY <1>2 DEF UpdateType
<1> QED
  BY <1>2, <1>3 DEF TelegramTypeOK, Update

\* What TelegramTypeOK says of the bot when only bot[b] changes.
BotOK(b) ==
  bot[b] # None =>
    /\ bot[b].offset \in 0 .. Len(updates) + 1
    /\ bot[b].batch \in Seq(DOMAIN updates)
    /\ bot[b].step # "loop" => bot[b].update \in DOMAIN updates
    /\ bot[b].step = "reply" <=> bot[b].text # None

LEMMA OneBotChanges ==
  ASSUME TelegramTypeOK, NEW b \in Bot, NEW new \in BotType \cup {None},
         bot' = [bot EXCEPT ![b] = new], UNCHANGED updates,
         new # None =>
           /\ new.offset \in 0 .. Len(updates) + 1
           /\ new.batch \in Seq(DOMAIN updates)
           /\ new.step # "loop" => new.update \in DOMAIN updates
           /\ new.step = "reply" <=> new.text # None
  PROVE  /\ bot' \in [Bot -> BotType \cup {None}]
         /\ \A c \in Bot : BotOK(c)'
<1>1. bot \in [Bot -> BotType \cup {None}] /\ \A c \in Bot : BotOK(c)
  BY DEF TelegramTypeOK, BotOK
<1>2. bot' \in [Bot -> BotType \cup {None}] /\ bot'[b] = new
  BY <1>1
<1>3. BotOK(b)'
  BY <1>2 DEF BotOK
<1>4. ASSUME NEW c \in Bot, c # b
      PROVE  BotOK(c)'
  BY <1>1, <1>4 DEF BotOK
<1> QED
  BY <1>2, <1>3, <1>4

\* The parts of TelegramTypeOK that are not about the channels and processes.
RestOK ==
  /\ now \in 0 .. MaxTime /\ faults \in 0 .. MaxFaults
  /\ tokens \in Seq(TokenType) /\ updates \in Seq(UpdateType)
  /\ \A u \in DOMAIN updates : updates[u].token \in DOMAIN tokens \cup {0}
  /\ confirmed \in 0 .. Len(updates)
  /\ handled \subseteq DOMAIN updates
  /\ replies \subseteq ReplyType

LEMMA TypeParts ==
  TelegramTypeOK <=> /\ ChannelsTypeOK /\ RestOK
                     /\ bot \in [Bot -> BotType \cup {None}]
                     /\ \A b \in Bot : BotOK(b)
BY DEF TelegramTypeOK, RestOK, BotOK

LEMMA UserType ==
  ASSUME TelegramTypeOK, CreateLinkToken \/ SendMessage \/ LinkTick
  PROVE  TelegramTypeOK'
<1>0. /\ ChannelsTypeOK /\ RestOK /\ bot \in [Bot -> BotType \cup {None}]
      /\ \A b \in Bot : BotOK(b)
  BY TypeParts
<1>1. CASE CreateLinkToken
  <2>1. /\ tokens' \in Seq(TokenType) /\ Len(tokens') = Len(tokens) + 1
        /\ Len(tokens) \in Nat /\ DOMAIN tokens = 1 .. Len(tokens)
        /\ DOMAIN tokens' = 1 .. Len(tokens')
    <3>1. [expires |-> now + TokenTTL, used |-> FALSE, linked |-> << >>] \in TokenType
      BY <1>0, TelegramAssumption DEF RestOK, TokenType
    <3> QED
      BY <3>1, <1>0, <1>1 DEF RestOK, CreateLinkToken
  <2>2. RestOK'
    BY <2>1, <1>0, <1>1 DEF RestOK, CreateLinkToken
  <2> QED
    BY <2>2, <1>0, <1>1 DEF TelegramTypeOK, RestOK, BotOK, ChannelsTypeOK,
       CreateLinkToken, channelVars
<1>2. CASE SendMessage
  <2>1. PICK m \in UpdateType :
          updates' = Append(updates, m) /\ m.token \in DOMAIN tokens \cup {0}
    <3>1. PICK chat \in Chat, start \in BOOLEAN, token \in 0 .. Len(tokens) :
            updates' = Append(updates, [chat |-> chat, start |-> start, token |-> token])
      BY <1>2 DEF SendMessage
    <3>2. [chat |-> chat, start |-> start, token |-> token] \in UpdateType
      BY DEF UpdateType
    <3>3. token \in DOMAIN tokens \cup {0}
      BY <1>0 DEF RestOK
    <3> QED
      BY <3>1, <3>2, <3>3
  <2>2. /\ updates' \in Seq(UpdateType) /\ Len(updates') = Len(updates) + 1
        /\ Len(updates) \in Nat /\ DOMAIN updates = 1 .. Len(updates)
        /\ DOMAIN updates' = 1 .. Len(updates')
        /\ updates'[Len(updates')] = m
        /\ \A u \in DOMAIN updates : updates'[u] = updates[u]
    BY <2>1, <1>0 DEF RestOK
  <2>3. RestOK'
    BY <2>1, <2>2, <1>0, <1>2 DEF RestOK, SendMessage
  <2>4. DOMAIN updates \subseteq DOMAIN updates'
    BY <2>2
  <2>5. ASSUME NEW s \in Seq(DOMAIN updates)
        PROVE  s \in Seq(DOMAIN updates')
    BY <2>4
  <2>6. ASSUME NEW b \in Bot
        PROVE  BotOK(b)'
    <3>1. BotOK(b) /\ bot' = bot
      BY <1>0, <1>2 DEF SendMessage
    <3> QED
      BY <3>1, <2>2, <2>4, <2>5 DEF BotOK
  <2> QED
    BY <2>3, <2>6, <1>0, <1>2 DEF TelegramTypeOK, RestOK, BotOK, ChannelsTypeOK,
       SendMessage, channelVars
<1>3. CASE LinkTick
  BY <1>0, <1>3, TelegramAssumption DEF TelegramTypeOK, RestOK, BotOK, ChannelsTypeOK,
     LinkTick, channelVars
<1> QED
  BY <1>1, <1>2, <1>3

\* A step of one process that leaves messages, and maybe tokens, alone.
LEMMA ProcessType ==
  ASSUME TelegramTypeOK, NEW b \in Bot, NEW new \in BotType \cup {None},
         bot' = [bot EXCEPT ![b] = new], UNCHANGED updates, RestOK', ChannelsTypeOK',
         new # None =>
           /\ new.offset \in 0 .. Len(updates) + 1
           /\ new.batch \in Seq(DOMAIN updates)
           /\ new.step # "loop" => new.update \in DOMAIN updates
           /\ new.step = "reply" <=> new.text # None
  PROVE  TelegramTypeOK'
<1>1. bot' \in [Bot -> BotType \cup {None}] /\ \A c \in Bot : BotOK(c)'
  BY OneBotChanges
<1> QED
  BY <1>1 DEF TelegramTypeOK, RestOK, BotOK

LEMMA StartStopType ==
  ASSUME TelegramTypeOK, NEW b \in Bot, Start(b) \/ Stop(b)
  PROVE  TelegramTypeOK'
<1>1. RestOK' /\ ChannelsTypeOK' /\ UNCHANGED updates
  BY DEF TelegramTypeOK, RestOK, ChannelsTypeOK, Start, Stop, channelVars
<1>2. CASE Start(b)
  <2>1. /\ NewBot \in BotType /\ NewBot.offset = 0 /\ NewBot.batch = << >>
        /\ NewBot.step = "loop" /\ NewBot.text = None
    BY DEF NewBot, BotType
  <2>2. bot' = [bot EXCEPT ![b] = NewBot] /\ Len(updates) \in Nat
    BY <1>2 DEF Start, TelegramTypeOK
  <2>3. << >> \in Seq(DOMAIN updates) /\ 0 \in 0 .. Len(updates) + 1
    BY <2>2
  <2> QED
    BY <1>1, <2>1, <2>2, <2>3, ProcessType
<1>3. CASE Stop(b)
  BY <1>1, <1>3, ProcessType DEF Stop
<1> QED
  BY <1>2, <1>3

\* The updates in an answer of getUpdates.
LEMMA Consecutive ==
  ASSUME NEW c \in Nat, NEW n \in Nat, NEW len \in Nat, c <= n, n <= len
  PROVE  /\ [i \in 1 .. n - c |-> c + i] \in Seq(1 .. len)
         /\ [i \in 1 .. n - c |-> c + i] \in Seq(Nat)
<1> DEFINE k == n - c
           s == [i \in 1 .. k |-> c + i]
<1>1. k \in Nat /\ \A i \in 1 .. k : c + i \in 1 .. len
  OBVIOUS
<1> HIDE DEF k
<1>2. s \in [1 .. k -> 1 .. len] /\ s \in [1 .. k -> Nat]
  BY <1>1
<1>3. s \in Seq(1 .. len) /\ s \in Seq(Nat)
  BY <1>1, <1>2, SeqDef
<1> QED
  BY <1>3 DEF k

LEMMA PollType ==
  ASSUME TelegramTypeOK, NEW b \in Bot, Poll(b)
  PROVE  TelegramTypeOK'
<1>1. bot[b] \in BotType /\ BotOK(b) /\ bot[b].step = "loop"
  BY RunningType DEF TelegramTypeOK, BotOK, Poll, At
<1>2. confirmed' \in 0 .. Len(updates) /\ Len(updates) \in Nat /\ DOMAIN updates = 1 .. Len(updates)
  <2>1. /\ Len(updates) \in Nat /\ DOMAIN updates = 1 .. Len(updates)
        /\ confirmed \in 0 .. Len(updates)
    BY DEF TelegramTypeOK
  <2>2. bot[b] # None /\ Confirm(b)
    BY DEF Poll, At
  <2>3. bot[b].offset \in 0 .. Len(updates) + 1
    BY <1>1, <2>2 DEF BotOK
  <2> QED
    BY <2>1, <2>2, <2>3 DEF Confirm
<1>3. RestOK' /\ ChannelsTypeOK' /\ UNCHANGED updates
  BY <1>2 DEF TelegramTypeOK, RestOK, ChannelsTypeOK, Poll, channelVars
<1>4. PICK n \in confirmed' .. Len(updates) :
        bot' = [bot EXCEPT ![b].batch = [i \in 1 .. n - confirmed' |-> confirmed' + i]]
  BY DEF Poll
<1> DEFINE answer == [i \in 1 .. n - confirmed' |-> confirmed' + i]
           new == [bot[b] EXCEPT !.batch = answer]
<1>5. answer \in Seq(DOMAIN updates) /\ answer \in Seq(Nat)
  <2>1. confirmed' \in Nat /\ n \in Nat /\ confirmed' <= n /\ n <= Len(updates)
    BY <1>2
  <2> QED
    BY <2>1, <1>2, Consecutive
<1> HIDE DEF answer
<1>6. /\ new \in BotType /\ new.batch = answer /\ new.offset = bot[b].offset
      /\ new.step = "loop" /\ new.text = bot[b].text
  BY <1>1, <1>5 DEF BotType
<1>7. bot' = [bot EXCEPT ![b] = new]
  BY <1>4 DEF answer
<1>8. /\ new.offset \in 0 .. Len(updates) + 1
      /\ new.step # "loop" => new.update \in DOMAIN updates
      /\ new.step = "reply" <=> new.text # None
  BY <1>1, <1>6 DEF BotOK, Poll, At
<1> HIDE DEF new
<1> QED
  BY <1>3, <1>5, <1>6, <1>7, <1>8, ProcessType

LEMMA TakeType ==
  ASSUME TelegramTypeOK, NEW b \in Bot, Take(b)
  PROVE  TelegramTypeOK'
<1> DEFINE u == Head(bot[b].batch)
           new == Taking(b, u)
<1>1. bot[b] \in BotType /\ BotOK(b) /\ bot[b].step = "loop" /\ bot[b].text = None
  BY RunningType DEF TelegramTypeOK, BotOK, Take, At
<1>2. /\ bot[b].batch \in Seq(DOMAIN updates) /\ bot[b].batch # << >>
      /\ bot[b].batch \in Seq(Nat) /\ Len(updates) \in Nat
      /\ DOMAIN updates = 1 .. Len(updates)
  BY <1>1 DEF BotOK, BotType, Take, TelegramTypeOK, At
<1>3. /\ u \in DOMAIN updates /\ u \in Nat
      /\ Tail(bot[b].batch) \in Seq(DOMAIN updates) /\ Tail(bot[b].batch) \in Seq(Nat)
  BY <1>2, HeadTailProperties
<1> HIDE DEF u
<1>4. /\ new \in BotType /\ new.step = "loop" /\ new.text = None
      /\ new.batch \in Seq(DOMAIN updates) /\ new.offset \in 0 .. Len(updates) + 1
  <2> DEFINE offset == IF u >= bot[b].offset THEN u + 1 ELSE bot[b].offset
             rest == Tail(bot[b].batch)
  <2>1. bot[b].offset \in 0 .. Len(updates) + 1
    BY <1>1 DEF BotOK, Take, At
  <2>2. offset \in 0 .. Len(updates) + 1 /\ offset \in Nat
    BY <2>1, <1>2, <1>3
  <2>3. new = [bot[b] EXCEPT !.batch = rest, !.offset = offset]
    BY DEF Taking
  <2> HIDE DEF offset, rest, new
  <2> QED
    BY <1>1, <1>3, <2>2, <2>3 DEF BotType, rest
<1>5. RestOK' /\ ChannelsTypeOK' /\ UNCHANGED updates
  BY <1>3 DEF TelegramTypeOK, RestOK, ChannelsTypeOK, Take, channelVars, u
<1> HIDE DEF new
<1>6. CASE bot' = [bot EXCEPT ![b] = new]
  BY <1>1, <1>4, <1>5, <1>6, ProcessType DEF BotType
<1>7. CASE bot' = [bot EXCEPT ![b] = [new EXCEPT !.step = "reply", !.update = u,
                                                 !.text = "invalid"]]
  <2> DEFINE next == [new EXCEPT !.step = "reply", !.update = u, !.text = "invalid"]
  <2>1. /\ next \in BotType /\ next.step = "reply" /\ next.update = u
        /\ next.text = "invalid" /\ next.batch = new.batch /\ next.offset = new.offset
    BY <1>3, <1>4 DEF BotType, Text
  <2>2. "invalid" # None
    BY NoBotAssumption DEF Text
  <2> HIDE DEF next
  <2>3. bot' = [bot EXCEPT ![b] = next]
    BY <1>7 DEF next
  <2> QED
    BY <2>1, <2>2, <2>3, <1>3, <1>4, <1>5, ProcessType
<1>8. CASE bot' = [bot EXCEPT ![b] = [new EXCEPT !.step = "update", !.update = u, !.at = now]]
  <2> DEFINE next == [new EXCEPT !.step = "update", !.update = u, !.at = now]
  <2>1. now \in Nat
    BY TelegramAssumption DEF TelegramTypeOK
  <2>2. /\ next \in BotType /\ next.step = "update" /\ next.update = u
        /\ next.text = None /\ next.batch = new.batch /\ next.offset = new.offset
    BY <1>3, <1>4, <2>1 DEF BotType
  <2> HIDE DEF next
  <2>3. bot' = [bot EXCEPT ![b] = next]
    BY <1>8 DEF next
  <2> QED
    BY <2>2, <2>3, <1>3, <1>4, <1>5, ProcessType
<1> QED
  BY <1>6, <1>7, <1>8 DEF Take, new, u

\* From the start of LinkChat to the reply, what changes is the step and the text.
LEMMA StepType ==
  ASSUME TelegramTypeOK, NEW b \in Bot, bot[b] # None, bot[b].step # "loop",
         NEW step \in {"update", "commit", "reply"}, NEW text \in Text \cup {None},
         step = "reply" <=> text # None,
         bot' = [bot EXCEPT ![b].step = step, ![b].text = text],
         UNCHANGED updates, RestOK', ChannelsTypeOK'
  PROVE  TelegramTypeOK'
<1> DEFINE new == [bot[b] EXCEPT !.step = step, !.text = text]
<1>1. bot[b] \in BotType /\ BotOK(b)
  BY RunningType DEF TelegramTypeOK, BotOK
<1>2. /\ new \in BotType /\ new.step = step /\ new.text = text /\ new.batch = bot[b].batch
      /\ new.offset = bot[b].offset /\ new.update = bot[b].update
  BY <1>1 DEF BotType
<1>3. bot' = [bot EXCEPT ![b] = new]
  BY DEF TelegramTypeOK
<1> HIDE DEF new
<1> QED
  BY <1>1, <1>2, <1>3, ProcessType DEF BotOK

LEMMA TextType == {"connected", "invalid", "temporary"} \subseteq Text /\ None \notin Text
BY NoBotAssumption DEF Text

LEMMA UnlockedType ==
  ASSUME TelegramTypeOK, NEW b \in Bot, PollFails(b) \/ LinkBegin(b) \/ LinkFails(b)
  PROVE  TelegramTypeOK'
<1>1. ChannelsTypeOK'
  BY DEF TelegramTypeOK, ChannelsTypeOK, PollFails, LinkBegin, LinkFails, channelVars
<1>2. CASE PollFails(b)
  <2>1. BotOK(b) /\ bot[b] # None
    BY <1>2 DEF TelegramTypeOK, BotOK, PollFails, At
  <2>2. confirmed' \in 0 .. Len(updates) /\ bot' = bot /\ updates' = updates
    BY <2>1, <1>2 DEF BotOK, TelegramTypeOK, PollFails, Confirm
  <2> QED
    BY <2>2, <1>1, <1>2, TelegramAssumption DEF TelegramTypeOK, PollFails, Fault
<1>3. CASE LinkBegin(b)
  <2>1. RestOK'
    BY <1>3 DEF TelegramTypeOK, RestOK, LinkBegin
  <2>2. bot[b] \in BotType /\ bot[b] # None /\ bot[b].step = "update" /\ bot[b].text = None
    BY <1>3, RunningType DEF LinkBegin, At, TelegramTypeOK
  <2>3. CASE bot' = [bot EXCEPT ![b].step = "commit"]
    <3>1. bot' = [bot EXCEPT ![b].step = "commit", ![b].text = None]
      BY <2>2, <2>3 DEF TelegramTypeOK, BotType
    <3> QED
      BY <3>1, <2>1, <2>2, <1>1, <1>3, StepType DEF LinkBegin
  <2>4. CASE Answer(b, "invalid")
    BY <2>1, <2>2, <2>4, <1>1, <1>3, StepType, TextType DEF LinkBegin, Answer
  <2> QED
    BY <2>3, <2>4, <1>3 DEF LinkBegin
<1>4. CASE LinkFails(b)
  <2>1. RestOK'
    BY <1>4, TelegramAssumption DEF TelegramTypeOK, RestOK, LinkFails, Fault
  <2>2. bot[b] # None /\ bot[b].step # "loop"
    BY <1>4 DEF LinkFails, At
  <2> QED
    BY <2>1, <2>2, <1>1, <1>4, StepType, TextType DEF LinkFails, Answer
<1> QED
  BY <1>2, <1>3, <1>4

\* What a commit does to the token.
LEMMA ConsumeType ==
  ASSUME TelegramTypeOK, NEW t \in DOMAIN tokens, NEW chat \in Chat, Consume(t, chat)
  PROVE  /\ tokens' \in Seq(TokenType) /\ DOMAIN tokens' = DOMAIN tokens
         /\ tokens'[t].used /\ tokens'[t].linked = Append(tokens[t].linked, chat)
         /\ tokens'[t].expires = tokens[t].expires
         /\ \A i \in DOMAIN tokens : i # t => tokens'[i] = tokens[i]
<1> DEFINE new == [tokens[t] EXCEPT !.used = TRUE, !.linked = Append(@, chat)]
<1>1. tokens \in Seq(TokenType) /\ tokens[t] \in TokenType
  BY DEF TelegramTypeOK
<1>2. /\ new \in TokenType /\ new.used /\ new.linked = Append(tokens[t].linked, chat)
      /\ new.expires = tokens[t].expires
  <2>1. tokens[t].linked \in Seq(Chat)
    BY <1>1 DEF TokenType
  <2>2. Append(tokens[t].linked, chat) \in Seq(Chat)
    BY <2>1
  <2> QED
    BY <1>1, <2>2 DEF TokenType
<1>3. tokens' = [tokens EXCEPT ![t] = new]
  BY <1>1 DEF Consume, TokenType
<1> HIDE DEF new
<1> QED
  BY <1>1, <1>2, <1>3

LEMMA LinkType ==
  ASSUME TelegramTypeOK, ChannelsInv, LockedTokensAreUnused,
         NEW b \in Bot, LinkCommit(b) \/ LinkCommitUnknown(b)
  PROVE  TelegramTypeOK' /\ ChannelsInv'
<1>1. /\ Link(b) /\ bot[b] # None /\ bot[b].step = "commit" /\ BotOK(b)
      /\ bot[b].update \in DOMAIN updates /\ faults' \in 0 .. MaxFaults
  BY TelegramAssumption
  DEF LinkCommit, LinkCommitUnknown, Link, At, TelegramTypeOK, BotOK, Fault
<1>2. Update(b) \in UpdateType /\ Update(b).chat \in Chat /\ Update(b).token \in DOMAIN tokens
  BY <1>1, UpdateRecord DEF LockedTokensAreUnused, At
<1>3. tokens' \in Seq(TokenType) /\ DOMAIN tokens' = DOMAIN tokens
  BY <1>1, <1>2, ConsumeType DEF Link
<1>4. RestOK'
  BY <1>1, <1>3 DEF TelegramTypeOK, RestOK, Link
<1>5. ChannelsInv' /\ ChannelsTypeOK'
  BY <1>1, <1>2, UpsertOK DEF Link, ChannelsInv
<1>6. PICK text \in {"connected", "temporary"} : Answer(b, text)
  BY DEF LinkCommit, LinkCommitUnknown
<1>7. TelegramTypeOK'
  BY <1>1, <1>4, <1>5, <1>6, StepType, TextType DEF Answer, Link
<1> QED
  BY <1>5, <1>7

LEMMA ReturnsType ==
  ASSUME TelegramTypeOK, NEW b \in Bot, Reply(b) \/ ReplyFails(b)
  PROVE  TelegramTypeOK'
<1> DEFINE new == [bot[b] EXCEPT !.step = "loop", !.update = 0, !.at = 0, !.text = None]
<1>1. /\ bot[b] \in BotType /\ BotOK(b) /\ bot[b] # None /\ Returns(b)
      /\ bot[b].step = "reply" /\ bot[b].update \in DOMAIN updates /\ bot[b].text \in Text
  BY RunningType DEF Reply, ReplyFails, Returns, At, TelegramTypeOK, BotOK, BotType
<1>2. /\ new \in BotType /\ new.step = "loop" /\ new.text = None
      /\ new.batch = bot[b].batch /\ new.offset = bot[b].offset
  BY <1>1 DEF BotType
<1>3. bot' = [bot EXCEPT ![b] = new]
  BY <1>1 DEF TelegramTypeOK, BotType, Returns
<1>4. Update(b).chat \in Chat /\ Update(b).token \in Nat
  BY <1>1, UpdateRecord
<1>5. [chat |-> Update(b).chat, token |-> Update(b).token, text |-> bot[b].text] \in ReplyType
  BY <1>1, <1>4 DEF ReplyType
<1>6. RestOK' /\ ChannelsTypeOK' /\ UNCHANGED updates
  BY <1>1, <1>5, TelegramAssumption
  DEF TelegramTypeOK, RestOK, ChannelsTypeOK, Returns, Reply, ReplyFails, Fault, channelVars
<1> HIDE DEF new
<1> QED
  BY <1>1, <1>2, <1>3, <1>6, ProcessType DEF BotOK

-----------------------------------------------------------------------------
(* Tokens. *)

\* The commit of a link cannot disturb a process that holds another token, nor
\* a reply: the token it uses was not used before.
LEMMA UserToken ==
  ASSUME TokenInv, CreateLinkToken \/ SendMessage \/ LinkTick
  PROVE  (LockedTokensAreUnused /\ OneLinkPerToken /\ RepliesAreTrue)'
<1>1. /\ bot' = bot /\ replies' = replies
      /\ tokens \in Seq(TokenType) /\ updates \in Seq(UpdateType)
  BY DEF TokenInv, TelegramTypeOK, CreateLinkToken, SendMessage, LinkTick
<1>2. /\ DOMAIN tokens \subseteq DOMAIN tokens'
      /\ \A t \in DOMAIN tokens : tokens'[t] = tokens[t]
      /\ \A t \in DOMAIN tokens' \ DOMAIN tokens :
           ~ tokens'[t].used /\ tokens'[t].linked = << >>
  <2>1. CASE tokens' = tokens
    BY <2>1
  <2>2. CASE CreateLinkToken
    <3> DEFINE new == [expires |-> now + TokenTTL, used |-> FALSE, linked |-> << >>]
    <3>1. tokens' = Append(tokens, new) /\ ~ new.used /\ new.linked = << >>
      BY <2>2 DEF CreateLinkToken
    <3> HIDE DEF new
    <3>2. /\ Len(tokens) \in Nat /\ Len(tokens') = Len(tokens) + 1
          /\ DOMAIN tokens = 1 .. Len(tokens) /\ DOMAIN tokens' = 1 .. Len(tokens')
          /\ \A t \in DOMAIN tokens : tokens'[t] = tokens[t]
          /\ tokens'[Len(tokens')] = new
      BY <3>1, <1>1
    <3> QED
      BY <3>1, <3>2
  <2> QED
    BY <2>1, <2>2 DEF SendMessage, LinkTick
<1>3. ASSUME NEW b \in Bot, bot[b] # None, bot[b].step # "loop"
      PROVE  Update(b)' = Update(b)
  <2>1. bot[b].update \in DOMAIN updates
    BY <1>3 DEF TokenInv, TelegramTypeOK
  <2>2. CASE updates' = updates
    BY <2>2, <1>1 DEF Update
  <2>3. CASE SendMessage
    <3>1. PICK m : updates' = Append(updates, m)
      BY <2>3 DEF SendMessage
    <3>2. updates'[bot[b].update] = updates[bot[b].update]
      BY <3>1, <2>1, <1>1
    <3> QED
      BY <3>2, <1>1 DEF Update
  <2> QED
    BY <2>2, <2>3 DEF CreateLinkToken, LinkTick
<1>4. LockedTokensAreUnused'
  BY <1>1, <1>2, <1>3 DEF TokenInv, LockedTokensAreUnused, At
<1>5. OneLinkPerToken'
  BY <1>2 DEF TokenInv, OneLinkPerToken
<1>6. RepliesAreTrue'
  BY <1>1, <1>2, <1>3 DEF TokenInv, RepliesAreTrue, IsLinked, At
<1> QED
  BY <1>4, <1>5, <1>6

\* A step of a process that leaves the tokens as they are.
LEMMA KeepToken ==
  ASSUME TokenInv, NEW b \in Bot, UNCHANGED <<tokens, updates>>,
         \A c \in Bot : c # b => bot'[c] = bot[c],
         At(b, "update")' => Update(b)'.token \in DOMAIN tokens,
         At(b, "commit")' => /\ Update(b)'.token \in DOMAIN tokens
                             /\ ~ tokens[Update(b)'.token].used
                             /\ ~ \E c \in Bot \ {b} : /\ At(c, "commit")
                                                       /\ Update(c).token = Update(b)'.token,
         At(b, "reply")' /\ bot'[b].text = "connected"
           => IsLinked(Update(b)'.token, Update(b)'.chat),
         \A r \in replies' : r.text = "connected" => IsLinked(r.token, r.chat)
  PROVE  (LockedTokensAreUnused /\ OneLinkPerToken /\ RepliesAreTrue)'
<1>1. \A c \in Bot : c # b => /\ Update(c)' = Update(c)
                              /\ \A step : At(c, step)' <=> At(c, step)
  BY DEF Update, At
<1>2. LockedTokensAreUnused'
  BY <1>1 DEF TokenInv, LockedTokensAreUnused
<1>3. OneLinkPerToken'
  BY DEF TokenInv, OneLinkPerToken
<1>4. RepliesAreTrue'
  BY <1>1 DEF TokenInv, RepliesAreTrue, IsLinked
<1> QED
  BY <1>2, <1>3, <1>4

\* Only bot[b] changes in a step of process b.
LEMMA OthersStay ==
  ASSUME TelegramTypeOK, NEW b \in Bot, Start(b) \/ Stop(b) \/ BotStep(b)
  PROVE  \A c \in Bot : c # b => bot'[c] = bot[c]
BY DEF TelegramTypeOK, Start, Stop, BotStep, Poll, PollFails, Take, LinkBegin, LinkCommit,
   LinkCommitUnknown, LinkFails, Reply, ReplyFails, Returns, Answer

LEMMA LoopToken ==
  ASSUME TokenInv, NEW b \in Bot, Start(b) \/ Stop(b) \/ Poll(b) \/ PollFails(b) \/ Take(b)
  PROVE  (LockedTokensAreUnused /\ OneLinkPerToken /\ RepliesAreTrue)'
<1>1. /\ UNCHANGED <<tokens, updates, replies>> /\ TelegramTypeOK
      /\ \A r \in replies : r.text = "connected" => IsLinked(r.token, r.chat)
  BY DEF TokenInv, RepliesAreTrue, Start, Stop, Poll, PollFails, Take
<1>2. \A c \in Bot : c # b => bot'[c] = bot[c]
  BY <1>1, OthersStay DEF BotStep
<1>3. CASE Start(b) \/ Stop(b) \/ Poll(b) \/ PollFails(b)
  <2>1. bot'[b] = None \/ bot'[b].step = "loop"
    BY <1>1, <1>3, RunningType
    DEF Start, Stop, Poll, PollFails, NewBot, At, TelegramTypeOK, BotType
  <2>2. ~ At(b, "update")' /\ ~ At(b, "commit")' /\ ~ At(b, "reply")'
    BY <2>1 DEF At
  <2> QED
    BY <1>1, <1>2, <2>2, KeepToken
<1>4. CASE Take(b)
  <2> DEFINE u == Head(bot[b].batch)
             new == Taking(b, u)
  <2>1. bot[b] \in BotType /\ bot[b].step = "loop" /\ bot[b].text = None /\ BotOK(b)
    BY <1>1, <1>4, RunningType DEF Take, At, TelegramTypeOK, BotOK
  <2>2. new.step = "loop" /\ DOMAIN new = DOMAIN bot[b]
        /\ DOMAIN bot[b] = {"step", "offset", "batch", "update", "at", "text"}
    BY <2>1 DEF Taking, BotType
  <2>3. u \in DOMAIN updates
    BY <1>4, <2>1, HeadTailProperties DEF Take, At, BotOK
  <2>4. updates[u].token \in DOMAIN tokens \cup {0}
    BY <2>3, <1>1 DEF TelegramTypeOK
  <2> HIDE DEF new, u
  <2>5. CASE bot' = [bot EXCEPT ![b] = new]
    <3>1. ~ At(b, "update")' /\ ~ At(b, "commit")' /\ ~ At(b, "reply")'
      BY <2>2, <2>5, <1>1 DEF At, TelegramTypeOK
    <3> QED
      BY <1>1, <1>2, <3>1, KeepToken
  <2>6. CASE bot' = [bot EXCEPT ![b] = [new EXCEPT !.step = "reply", !.update = u,
                                                   !.text = "invalid"]]
    <3>1. bot'[b].step = "reply" /\ bot'[b].text = "invalid"
      BY <2>2, <2>6, <1>1 DEF TelegramTypeOK
    <3>2. ~ At(b, "update")' /\ ~ At(b, "commit")' /\ bot'[b].text # "connected"
      BY <3>1 DEF At
    <3> QED
      BY <1>1, <1>2, <3>2, KeepToken
  <2>7. CASE /\ bot' = [bot EXCEPT ![b] = [new EXCEPT !.step = "update", !.update = u, !.at = now]]
             /\ updates[u].token # 0
    <3>1. bot'[b].step = "update" /\ bot'[b].update = u
      BY <2>2, <2>7, <1>1 DEF TelegramTypeOK
    <3>2. ~ At(b, "commit")' /\ ~ At(b, "reply")' /\ Update(b)'.token \in DOMAIN tokens
      BY <3>1, <2>4, <2>7, <1>1 DEF At, Update
    <3> QED
      BY <1>1, <1>2, <3>2, KeepToken
  <2> QED
    BY <2>5, <2>6, <2>7, <1>4 DEF Take, new, u
<1> QED
  BY <1>3, <1>4

LEMMA BeginToken ==
  ASSUME TokenInv, NEW b \in Bot, LinkBegin(b)
  PROVE  (LockedTokensAreUnused /\ OneLinkPerToken /\ RepliesAreTrue)'
<1>1. /\ UNCHANGED <<tokens, updates, replies>> /\ TelegramTypeOK
      /\ \A r \in replies : r.text = "connected" => IsLinked(r.token, r.chat)
      /\ bot[b] \in BotType /\ bot[b].step = "update"
      /\ Update(b).token \in DOMAIN tokens
  BY RunningType
  DEF TokenInv, RepliesAreTrue, LockedTokensAreUnused, LinkBegin, At
<1>2. \A c \in Bot : c # b => bot'[c] = bot[c]
  BY <1>1, OthersStay DEF BotStep
<1>3. CASE /\ bot' = [bot EXCEPT ![b].step = "commit"]
           /\ ~ tokens[Update(b).token].used
  <2>1. bot'[b].step = "commit" /\ bot'[b].update = bot[b].update
    BY <1>1, <1>3 DEF TelegramTypeOK, BotType
  <2>2. Update(b)' = Update(b) /\ ~ At(b, "update")' /\ ~ At(b, "reply")'
    BY <1>1, <2>1 DEF Update, At
  <2>3. ~ \E c \in Bot \ {b} : At(c, "commit") /\ Update(c).token = Update(b).token
    BY DEF LinkBegin, TokenLocked
  <2> QED
    BY <1>1, <1>2, <1>3, <2>2, <2>3, KeepToken
<1>4. CASE Answer(b, "invalid")
  <2>1. bot'[b].step = "reply" /\ bot'[b].text = "invalid"
    BY <1>1, <1>4 DEF TelegramTypeOK, BotType, Answer
  <2>2. ~ At(b, "update")' /\ ~ At(b, "commit")' /\ bot'[b].text # "connected"
    BY <2>1 DEF At
  <2> QED
    BY <1>1, <1>2, <2>2, KeepToken
<1> QED
  BY <1>3, <1>4 DEF LinkBegin

\* The transaction commits: no other one holds the token, and no reply that
\* says "connected" can be about it, for it was not used.
LEMMA LinkToken ==
  ASSUME TokenInv, NEW b \in Bot, LinkCommit(b) \/ LinkCommitUnknown(b)
  PROVE  (LockedTokensAreUnused /\ OneLinkPerToken /\ RepliesAreTrue)'
<1>0. PICK t, chat : t = Update(b).token /\ chat = Update(b).chat
  OBVIOUS
<1>1. /\ Link(b) /\ TelegramTypeOK /\ bot[b] \in BotType /\ At(b, "commit")
      /\ UNCHANGED <<updates, replies>> /\ bot[b].update \in DOMAIN updates
  BY RunningType DEF TokenInv, TelegramTypeOK, LinkCommit, LinkCommitUnknown, Link, At
<1>2. t \in DOMAIN tokens /\ ~ tokens[t].used /\ chat \in Chat
  BY <1>0, <1>1, UpdateRecord DEF TokenInv, LockedTokensAreUnused
<1>3. Len(tokens[t].linked) = 0 /\ tokens[t].linked \in Seq(Chat)
  <2>1. tokens[t] \in TokenType
    BY <1>1, <1>2 DEF TelegramTypeOK
  <2> QED
    BY <2>1, <1>2 DEF TokenInv, OneLinkPerToken, TokenType
<1>4. /\ DOMAIN tokens' = DOMAIN tokens
      /\ tokens'[t].used /\ tokens'[t].linked = Append(tokens[t].linked, chat)
      /\ \A i \in DOMAIN tokens : i # t => tokens'[i] = tokens[i]
  BY <1>0, <1>1, <1>2, ConsumeType DEF Link
<1>5. tokens'[t].linked = <<chat>> /\ Len(<<chat>>) = 1
  <2>1. tokens[t].linked = << >>
    BY <1>3
  <2> QED
    BY <2>1, <1>4
<1>6. PICK text \in {"connected", "temporary"} : Answer(b, text)
  BY DEF LinkCommit, LinkCommitUnknown
<1>7. bot'[b].step = "reply" /\ bot'[b].update = bot[b].update /\ bot'[b] # None
  <2> DEFINE new == [bot[b] EXCEPT !.step = "reply", !.text = text]
  <2>1. bot'[b] = new
    BY <1>1, <1>6 DEF TelegramTypeOK, BotType, Answer
  <2>2. new \in BotType /\ new.step = "reply" /\ new.update = bot[b].update
    BY <1>1 DEF BotType, Text
  <2> HIDE DEF new
  <2> QED
    BY <2>1, <2>2, NoBotAssumption
<1>8. Update(b)' = Update(b) /\ ~ At(b, "update")' /\ ~ At(b, "commit")'
  BY <1>1, <1>7 DEF Update, At
<1>9. ASSUME NEW c \in Bot, c # b
      PROVE  Update(c)' = Update(c) /\ \A step : At(c, step)' <=> At(c, step)
  <2>1. bot'[c] = bot[c]
    BY <1>1, <1>9, OthersStay DEF BotStep
  <2> QED
    BY <2>1, <1>1 DEF Update, At
<1>10. LockedTokensAreUnused'
  <2>1. ASSUME NEW c \in Bot, At(c, "commit")'
        PROVE  c # b /\ At(c, "commit") /\ Update(c).token \in DOMAIN tokens
               /\ Update(c).token # t
    BY <2>1, <1>0, <1>1, <1>8, <1>9 DEF TokenInv, LockedTokensAreUnused
  <2>2. ASSUME NEW c \in Bot
        PROVE  /\ (At(c, "update") \/ At(c, "commit") => Update(c).token \in DOMAIN tokens)'
               /\ (At(c, "commit") => ~ tokens[Update(c).token].used)'
    <3>1. CASE c = b
      BY <3>1, <1>8
    <3>2. CASE c # b
      BY <3>2, <2>1, <1>4, <1>9 DEF TokenInv, LockedTokensAreUnused
    <3> QED
      BY <3>1, <3>2
  <2>3. ASSUME NEW c \in Bot, NEW d \in Bot,
               (At(c, "commit") /\ At(d, "commit") /\ Update(c).token = Update(d).token)'
        PROVE  c = d
    BY <2>1, <2>3, <1>9 DEF TokenInv, LockedTokensAreUnused
  <2> QED
    BY <2>2, <2>3 DEF LockedTokensAreUnused
<1>11. OneLinkPerToken'
  BY <1>2, <1>4, <1>5 DEF TokenInv, OneLinkPerToken
<1>12. \A i \in DOMAIN tokens : \A ch : IsLinked(i, ch) => IsLinked(i, ch)'
  BY <1>2, <1>4 DEF IsLinked
<1>13. RepliesAreTrue'
  <2>1. IsLinked(t, chat)'
    BY <1>2, <1>4, <1>5 DEF IsLinked
  <2>2. ASSUME NEW c \in Bot, (At(c, "reply") /\ bot[c].text = "connected")'
        PROVE  IsLinked(Update(c).token, Update(c).chat)'
    <3>1. CASE c = b
      BY <3>1, <2>1, <1>0, <1>8 DEF IsLinked
    <3>2. CASE c # b
      <4>1. bot'[c] = bot[c]
        BY <3>2, <1>1, OthersStay DEF BotStep
      <4>2. IsLinked(Update(c).token, Update(c).chat)
        BY <3>2, <4>1, <2>2, <1>9 DEF TokenInv, RepliesAreTrue
      <4>3. Update(c)' = Update(c) /\ Update(c).token \in DOMAIN tokens
        BY <3>2, <4>2, <1>9 DEF IsLinked
      <4> QED
        BY <4>2, <4>3, <1>2, <1>4 DEF IsLinked
    <3> QED
      BY <3>1, <3>2
  <2>3. ASSUME NEW r \in replies, r.text = "connected"
        PROVE  IsLinked(r.token, r.chat)'
    <3>1. IsLinked(r.token, r.chat)
      BY <2>3 DEF TokenInv, RepliesAreTrue
    <3> QED
      BY <3>1, <1>2, <1>4 DEF IsLinked
  <2> QED
    BY <2>2, <2>3, <1>1 DEF RepliesAreTrue
<1> QED
  BY <1>10, <1>11, <1>13

LEMMA ReplyToken ==
  ASSUME TokenInv, NEW b \in Bot, LinkFails(b) \/ Reply(b) \/ ReplyFails(b)
  PROVE  (LockedTokensAreUnused /\ OneLinkPerToken /\ RepliesAreTrue)'
<1>1. /\ UNCHANGED <<tokens, updates>> /\ TelegramTypeOK /\ bot[b] \in BotType
      /\ \A r \in replies : r.text = "connected" => IsLinked(r.token, r.chat)
  BY RunningType
  DEF TokenInv, RepliesAreTrue, LinkFails, Reply, ReplyFails, Returns, At
<1>2. \A c \in Bot : c # b => bot'[c] = bot[c]
  BY <1>1, OthersStay DEF BotStep
<1>3. CASE LinkFails(b)
  <2>1. bot'[b].step = "reply" /\ bot'[b].text = "temporary" /\ replies' = replies
    BY <1>1, <1>3 DEF TelegramTypeOK, BotType, Answer, LinkFails
  <2>2. ~ At(b, "update")' /\ ~ At(b, "commit")' /\ bot'[b].text # "connected"
    BY <2>1 DEF At
  <2> QED
    BY <1>1, <1>2, <2>1, <2>2, KeepToken
<1>4. CASE Reply(b) \/ ReplyFails(b)
  <2>1. bot'[b].step = "loop"
    BY <1>1, <1>4 DEF TelegramTypeOK, BotType, Returns, Reply, ReplyFails
  <2>2. ~ At(b, "update")' /\ ~ At(b, "commit")' /\ ~ At(b, "reply")'
    BY <2>1 DEF At
  <2>3. \A r \in replies' : r.text = "connected" => IsLinked(r.token, r.chat)
    BY <1>1, <1>4 DEF Reply, ReplyFails, Returns, TokenInv, RepliesAreTrue
  <2> QED
    BY <1>1, <1>2, <2>2, <2>3, KeepToken
<1> QED
  BY <1>3, <1>4

-----------------------------------------------------------------------------
(* The reasons of what is said. *)

\* Time and failures add up, and nothing of a token or an update is undone.
Grows ==
  /\ now <= now' /\ faults <= faults'
  /\ \A t \in DOMAIN tokens :
       /\ t \in DOMAIN tokens'
       /\ tokens[t].used => tokens'[t].used
       /\ tokens'[t].expires = tokens[t].expires
  /\ \A u \in DOMAIN updates : updates'[u] = updates[u]

LEMMA StepGrows ==
  ASSUME TokenInv, [TelegramNext]_telegramVars
  PROVE  Grows
<1>1. /\ now \in Nat /\ faults \in Nat
      /\ tokens \in Seq(TokenType) /\ updates \in Seq(UpdateType)
  BY TelegramAssumption DEF TokenInv, TelegramTypeOK
<1>2. now <= now'
  <2>1. now' = now \/ LinkTick
    BY DEF TelegramNext, telegramVars, linkVars, CreateLinkToken, SendMessage, Start, Stop,
       BotStep, Poll, PollFails, Take, LinkBegin, LinkCommit, LinkCommitUnknown, Link, LinkFails,
       Reply, ReplyFails, Returns
  <2> QED BY <1>1, <2>1 DEF LinkTick
<1>3. faults <= faults'
  <2>1. faults' = faults \/ Fault
    BY DEF TelegramNext, telegramVars, linkVars, CreateLinkToken, SendMessage, LinkTick, Start,
       Stop, BotStep, Poll, PollFails, Take, LinkBegin, LinkCommit, LinkCommitUnknown, LinkFails,
       Reply, ReplyFails
  <2> QED BY <1>1, <2>1 DEF Fault
<1>4. /\ tokens' = tokens \/ CreateLinkToken \/ \E b \in Bot : Link(b)
      /\ updates' = updates \/ SendMessage
  BY DEF TelegramNext, telegramVars, linkVars, CreateLinkToken, SendMessage, LinkTick, Start,
      Stop, BotStep, Poll, PollFails, Take, LinkBegin, LinkCommit, LinkCommitUnknown, Link,
      LinkFails, Reply, ReplyFails, Returns
<1>5. ASSUME NEW t \in DOMAIN tokens
      PROVE  /\ t \in DOMAIN tokens'
             /\ tokens[t].used => tokens'[t].used
             /\ tokens'[t].expires = tokens[t].expires
  <2>1. CASE CreateLinkToken
    <3>1. PICK new : tokens' = Append(tokens, new)
      BY <2>1 DEF CreateLinkToken
    <3>2. t \in DOMAIN tokens' /\ tokens'[t] = tokens[t]
      BY <1>1, <3>1
    <3> QED BY <3>2
  <2>2. ASSUME NEW b \in Bot, Link(b)
        PROVE  /\ t \in DOMAIN tokens'
               /\ tokens[t].used => tokens'[t].used
               /\ tokens'[t].expires = tokens[t].expires
    <3>1. At(b, "commit") /\ bot[b].update \in DOMAIN updates
      BY <2>2 DEF Link, At, TokenInv, TelegramTypeOK
    <3>2. Update(b).chat \in Chat /\ Update(b).token \in DOMAIN tokens
      BY <3>1, UpdateRecord DEF TokenInv, LockedTokensAreUnused
    <3>3. Consume(Update(b).token, Update(b).chat)
      BY <2>2 DEF Link
    <3> QED BY <3>2, <3>3, ConsumeType DEF TokenInv
  <2> QED BY <1>4, <2>1, <2>2
<1>6. ASSUME NEW u \in DOMAIN updates
      PROVE  updates'[u] = updates[u]
  <2>1. CASE SendMessage
    <3>1. PICK m : updates' = Append(updates, m)
      BY <2>1 DEF SendMessage
    <3> QED BY <1>1, <3>1
  <2> QED BY <1>4, <2>1
<1> QED BY <1>2, <1>3, <1>5, <1>6 DEF Grows

\* A reason remains one.
LEMMA ReasonStays ==
  ASSUME TokenInv, TelegramTypeOK', Grows, NEW text, NEW t, Reason(text, t)
  PROVE  Reason(text, t)'
<1>1. now \in Nat /\ faults \in Nat /\ now' \in Nat /\ faults' \in Nat
  BY TelegramAssumption DEF TokenInv, TelegramTypeOK
<1>2. t \in DOMAIN tokens => tokens[t].expires \in Nat
  <2>1. tokens \in Seq(TokenType)
    BY DEF TokenInv, TelegramTypeOK
  <2>2. t \in DOMAIN tokens => tokens[t] \in TokenType
    BY <2>1
  <2> QED BY <2>2 DEF TokenType
<1> QED BY <1>1, <1>2 DEF Grows, Reason, Refused

\* A process that gets to a reply, or to a token, has a reason to.
Begins(b) ==
  /\ (At(b, "reply") => Reason(bot[b].text, Update(b).token))'
  /\ (At(b, "update") => bot[b].at <= now)'

LEMMA KeepReasons ==
  ASSUME TokenInv, TelegramTypeOK', ReasonsGiven, Grows,
         \A b \in Bot : bot'[b] = bot[b] \/ Begins(b),
         \A r \in replies' : r \in replies \/ Reason(r.text, r.token)
  PROVE  ReasonsGiven'
<1>1. \A r \in replies' : Reason(r.text, r.token)'
  BY ReasonStays DEF ReasonsGiven
<1>2. ASSUME NEW b \in Bot, bot'[b] = bot[b]
      PROVE  Begins(b)
  <2>1. ASSUME At(b, "reply")
        PROVE  Update(b)' = Update(b) /\ Reason(bot[b].text, Update(b).token)
    <3>1. bot[b].update \in DOMAIN updates
      BY <2>1 DEF TokenInv, TelegramTypeOK, At
    <3> QED BY <1>2, <2>1, <3>1 DEF Grows, Update, ReasonsGiven
  <2>2. (At(b, "reply") => Reason(bot[b].text, Update(b).token))'
    <3>1. PICK text, t : text = bot[b].text /\ t = Update(b).token
      OBVIOUS
    <3>2. ASSUME At(b, "reply")
          PROVE  Reason(text, t)' /\ text = bot'[b].text /\ t = Update(b)'.token
      BY <1>2, <2>1, <3>1, <3>2, ReasonStays
    <3> QED BY <1>2, <3>2 DEF At, Reason, Refused
  <2>3. At(b, "update") => bot[b].at <= now'
    <3>1. ASSUME At(b, "update")
          PROVE  bot[b].at \in Nat /\ bot[b].at <= now
      BY <3>1, RunningType DEF At, TokenInv, BotType, ReasonsGiven
    <3>2. now \in Nat /\ now' \in Nat
      BY TelegramAssumption DEF TokenInv, TelegramTypeOK
    <3> QED BY <3>1, <3>2 DEF Grows
  <2> QED BY <1>2, <2>2, <2>3 DEF Begins, At
<1>3. \A b \in Bot : Begins(b)
  BY <1>2
<1> QED BY <1>1, <1>3 DEF ReasonsGiven, Begins, Reason, Refused

LEMMA TakeReasons ==
  ASSUME TokenInv, NEW b \in Bot, Take(b)
  PROVE  Begins(b)
<1> DEFINE u == Head(bot[b].batch)
           new == Taking(b, u)
<1>1. /\ TelegramTypeOK /\ bot[b] \in BotType /\ bot[b].step = "loop" /\ BotOK(b)
      /\ UNCHANGED <<now, tokens, updates>> /\ now \in Nat
  <2>1. TelegramTypeOK /\ bot[b] # None /\ bot[b].step = "loop" /\ now \in Nat
        /\ UNCHANGED <<now, tokens, updates>>
    BY TelegramAssumption DEF TokenInv, Take, At, TelegramTypeOK
  <2> QED BY <2>1, RunningType DEF TelegramTypeOK, BotOK
<1>2. new.step = "loop" /\ DOMAIN new = DOMAIN bot[b]
      /\ DOMAIN bot[b] = {"step", "offset", "batch", "update", "at", "text"}
  BY <1>1 DEF Taking, BotType
<1> HIDE DEF new, u
<1>3. CASE bot' = [bot EXCEPT ![b] = new]
  BY <1>1, <1>2, <1>3 DEF Begins, At, TelegramTypeOK
<1>4. CASE /\ updates[u].token = 0
           /\ bot' = [bot EXCEPT ![b] = [new EXCEPT !.step = "reply", !.update = u,
                                                   !.text = "invalid"]]
  <2>1. bot'[b].step = "reply" /\ bot'[b].update = u /\ bot'[b].text = "invalid"
    BY <1>1, <1>2, <1>4 DEF TelegramTypeOK
  <2>2. Refused(Update(b).token)'
    BY <1>1, <1>4, <2>1 DEF Update, Refused
  <2> QED BY <2>1, <2>2 DEF Begins, At, Reason
<1>5. CASE bot' = [bot EXCEPT ![b] = [new EXCEPT !.step = "update", !.update = u, !.at = now]]
  <2>1. bot'[b].step = "update" /\ bot'[b].at = now
    BY <1>1, <1>2, <1>5 DEF TelegramTypeOK
  <2> QED BY <1>1, <2>1 DEF Begins, At
<1> QED
  BY <1>3, <1>4, <1>5 DEF Take, new, u

LEMMA BeginReasons ==
  ASSUME TokenInv, ReasonsGiven, NEW b \in Bot, LinkBegin(b)
  PROVE  Begins(b)
<1>1. /\ TelegramTypeOK /\ bot[b] \in BotType /\ At(b, "update")
      /\ UNCHANGED <<now, tokens, updates>>
      /\ Update(b).token \in DOMAIN tokens
  BY RunningType DEF TokenInv, LockedTokensAreUnused, LinkBegin, At
<1>2. CASE bot' = [bot EXCEPT ![b].step = "commit"]
  <2>1. bot'[b].step = "commit"
    BY <1>1, <1>2 DEF TelegramTypeOK, BotType
  <2> QED BY <2>1 DEF Begins, At
<1>3. CASE /\ Answer(b, "invalid")
           /\ ~ (~ tokens[Update(b).token].used /\ bot[b].at < tokens[Update(b).token].expires)
  <2>1. bot'[b].step = "reply" /\ bot'[b].text = "invalid" /\ bot'[b].update = bot[b].update
    BY <1>1, <1>3 DEF TelegramTypeOK, BotType, Answer
  <2>2. bot[b].at \in Nat /\ bot[b].at <= now /\ now \in Nat
    BY <1>1, TelegramAssumption DEF BotType, ReasonsGiven, TelegramTypeOK
  <2>3. tokens[Update(b).token].expires \in Nat
    <3>1. tokens \in Seq(TokenType)
      BY <1>1 DEF TelegramTypeOK
    <3>2. tokens[Update(b).token] \in TokenType
      BY <1>1, <3>1
    <3> QED BY <3>2 DEF TokenType
  <2>4. Refused(Update(b).token)
    BY <1>1, <1>3, <2>2, <2>3 DEF Refused
  <2>5. Update(b)' = Update(b)
    BY <1>1, <2>1 DEF Update
  <2>6. Refused(Update(b).token)'
    BY <1>1, <2>4, <2>5 DEF Refused
  <2> QED BY <2>1, <2>5, <2>6 DEF Begins, At, Reason, Refused
<1> QED
  BY <1>2, <1>3 DEF LinkBegin

LEMMA AnswerReasons ==
  ASSUME TokenInv, NEW b \in Bot, LinkCommit(b) \/ LinkCommitUnknown(b) \/ LinkFails(b)
  PROVE  Begins(b) /\ replies' = replies
<1>1. /\ TelegramTypeOK /\ bot[b] \in BotType /\ replies' = replies /\ faults \in Nat
  BY RunningType, TelegramAssumption
  DEF TokenInv, TelegramTypeOK, LinkCommit, LinkCommitUnknown, LinkFails, Link, At
<1>2. PICK text \in {"connected", "temporary"} :
        Answer(b, text) /\ (text = "temporary" => Fault)
  BY DEF LinkCommit, LinkCommitUnknown, LinkFails
<1>3. bot'[b].step = "reply" /\ bot'[b].text = text
  <2> DEFINE new == [bot[b] EXCEPT !.step = "reply", !.text = text]
  <2>1. bot'[b] = new
    BY <1>1, <1>2 DEF TelegramTypeOK, BotType, Answer
  <2>2. new.step = "reply" /\ new.text = text
    BY <1>1 DEF BotType
  <2> HIDE DEF new
  <2> QED BY <2>1, <2>2
<1>4. text = "temporary" => faults' > 0
  BY <1>1, <1>2 DEF Fault
<1> QED
  BY <1>1, <1>3, <1>4 DEF Begins, At, Reason

LEMMA ReasonStep ==
  ASSUME TokenInv, TelegramTypeOK', ReasonsGiven, [TelegramNext]_telegramVars
  PROVE  ReasonsGiven'
<1>1. Grows /\ TelegramTypeOK
  BY StepGrows DEF TokenInv
<1>2. CASE UNCHANGED <<bot, replies>>
  BY <1>1, <1>2, KeepReasons
<1>3. ASSUME NEW b \in Bot, Start(b) \/ Stop(b) \/ BotStep(b)
      PROVE  ReasonsGiven'
  <2>1. \A c \in Bot : c # b => bot'[c] = bot[c]
    BY <1>1, <1>3, OthersStay
  <2>2. SUFFICES /\ bot'[b] = bot[b] \/ Begins(b)
                 /\ \A r \in replies' : r \in replies \/ Reason(r.text, r.token)
    BY <1>1, <2>1, <2>2, KeepReasons
  <2>3. CASE Start(b) \/ Stop(b) \/ Poll(b) \/ PollFails(b)
    <3>1. bot'[b] = None \/ bot'[b].step = "loop"
      BY <1>1, <2>3, RunningType
      DEF Start, Stop, Poll, PollFails, NewBot, At, TelegramTypeOK, BotType
    <3>2. replies' = replies
      BY <2>3 DEF Start, Stop, Poll, PollFails
    <3> QED BY <3>1, <3>2 DEF Begins, At
  <2>4. CASE Take(b)
    BY <1>1, <2>4, TakeReasons DEF Take
  <2>5. CASE LinkBegin(b)
    BY <1>1, <2>5, BeginReasons DEF LinkBegin
  <2>6. CASE LinkCommit(b) \/ LinkCommitUnknown(b) \/ LinkFails(b)
    BY <2>6, AnswerReasons
  <2>7. CASE Reply(b) \/ ReplyFails(b)
    <3>1. bot'[b].step = "loop" /\ At(b, "reply")
      BY <1>1, <2>7, RunningType DEF TelegramTypeOK, BotType, Returns, Reply, ReplyFails, At
    <3>2. Reason(bot[b].text, Update(b).token)
      BY <3>1 DEF ReasonsGiven
    <3>3. \A r \in replies' : r \in replies \/ Reason(r.text, r.token)
      BY <2>7, <3>2 DEF Reply, ReplyFails
    <3> QED BY <3>1, <3>3 DEF Begins, At
  <2> QED BY <1>3, <2>3, <2>4, <2>5, <2>6, <2>7 DEF BotStep
<1> QED
  BY <1>2, <1>3 DEF TelegramNext, telegramVars, linkVars, CreateLinkToken, SendMessage, LinkTick

-----------------------------------------------------------------------------
(* Updates. *)

InOrder(b) ==
  bot[b] # None =>
    /\ \A i \in DOMAIN bot[b].batch : bot[b].batch[i] = bot[b].batch[1] + i - 1
    /\ bot[b].batch # << >> => HandledBefore(b, bot[b].batch[1])
    /\ HandledBefore(b, bot[b].offset)

LEMMA KeepDelivery ==
  ASSUME DeliveryInv, NEW b \in Bot, \A c \in Bot : c # b => bot'[c] = bot[c],
         handled \subseteq handled', InOrder(b)', 1 .. confirmed' \subseteq handled'
  PROVE  (TakenInOrder /\ ConfirmedWasHandled)'
<1>1. ASSUME NEW c \in Bot
      PROVE  InOrder(c)'
  <2>1. CASE c # b
    BY <2>1 DEF DeliveryInv, TakenInOrder, InOrder, HandledBefore
  <2> QED
    BY <2>1
<1> QED
  BY <1>1 DEF TakenInOrder, InOrder, ConfirmedWasHandled

LEMMA UserDelivery ==
  ASSUME DeliveryInv, CreateLinkToken \/ SendMessage \/ LinkTick \/ UNCHANGED linkVars
  PROVE  (TakenInOrder /\ ConfirmedWasHandled)'
BY DEF DeliveryInv, TakenInOrder, HandledBefore, ConfirmedWasHandled, CreateLinkToken,
   SendMessage, LinkTick, linkVars

\* What an offset or an earlier answer has confirmed is handled, for the
\* process asks only when it works on no update.
LEMMA ConfirmDelivery ==
  ASSUME DeliveryInv, NEW b \in Bot, At(b, "loop"), Confirm(b) \/ UNCHANGED confirmed
  PROVE  confirmed' \in Nat /\ 1 .. confirmed' \subseteq handled
<1>1. confirmed \in Nat /\ bot[b].offset \in Nat
  BY DEF DeliveryInv, TelegramTypeOK, At
<1>2. HandledBefore(b, bot[b].offset) /\ bot[b].step = "loop"
  BY DEF DeliveryInv, TakenInOrder, At
<1>3. 1 .. confirmed \subseteq handled
  BY DEF DeliveryInv, ConfirmedWasHandled
<1>4. 1 .. bot[b].offset - 1 \subseteq handled
  BY <1>2 DEF HandledBefore
<1> QED
  BY <1>1, <1>3, <1>4 DEF Confirm

LEMMA PollDelivery ==
  ASSUME DeliveryInv, NEW b \in Bot, Poll(b) \/ PollFails(b)
  PROVE  (TakenInOrder /\ ConfirmedWasHandled)'
<1>1. /\ TelegramTypeOK /\ bot[b] \in BotType /\ At(b, "loop") /\ InOrder(b) /\ handled' = handled
      /\ Confirm(b) \/ UNCHANGED confirmed
  BY RunningType DEF DeliveryInv, TakenInOrder, InOrder, Poll, PollFails, At
<1>2. confirmed' \in Nat /\ 1 .. confirmed' \subseteq handled'
  BY <1>1, ConfirmDelivery
<1>3. \A c \in Bot : c # b => bot'[c] = bot[c]
  BY <1>1, OthersStay DEF BotStep
<1>4. CASE PollFails(b)
  <2>1. InOrder(b)'
    BY <1>1, <1>4 DEF InOrder, HandledBefore, PollFails
  <2> QED
    BY <1>1, <1>2, <1>3, <2>1, KeepDelivery
<1>5. CASE Poll(b)
  <2>1. PICK n \in confirmed' .. Len(updates) :
          bot' = [bot EXCEPT ![b].batch = [i \in 1 .. n - confirmed' |-> confirmed' + i]]
    BY <1>5 DEF Poll
  <2>2. PICK answer : answer = [i \in 1 .. n - confirmed' |-> confirmed' + i]
    OBVIOUS
  <2>3. /\ bot'[b].batch = answer /\ bot'[b].offset = bot[b].offset
        /\ bot'[b].step = bot[b].step /\ bot'[b].update = bot[b].update
    BY <2>1, <2>2, <1>1 DEF TelegramTypeOK, BotType
  <2>4. \A i \in DOMAIN answer : answer[i] = answer[1] + i - 1
    <3>1. DOMAIN answer = 1 .. n - confirmed' /\ n \in Int
      BY <2>2, <1>1 DEF TelegramTypeOK
    <3>2. ASSUME NEW i \in DOMAIN answer
          PROVE  answer[i] = answer[1] + i - 1
      <4>0. n - confirmed' \in Int
        BY <3>1, <1>2
      <4>1. 1 \in DOMAIN answer /\ i \in Int
        <5> DEFINE k == n - confirmed'
        <5>1. k \in Int /\ DOMAIN answer = 1 .. k
          BY <3>1, <4>0
        <5> HIDE DEF k
        <5> QED
          BY <5>1
      <4>2. answer[i] = confirmed' + i /\ answer[1] = confirmed' + 1
        BY <2>2, <3>1, <4>1
      <4> QED
        BY <4>1, <4>2, <1>2
    <3> QED
      BY <3>2
  <2>5. answer # << >> => answer[1] = confirmed' + 1
    <3>1. n - confirmed' \in Int
      BY <1>1, <1>2 DEF TelegramTypeOK
    <3>2. CASE n - confirmed' < 1
      BY <2>2, <3>1, <3>2
    <3>3. CASE n - confirmed' >= 1
      BY <2>2, <3>1, <3>3
    <3> QED
      BY <3>1, <3>2, <3>3
  <2>6. answer # << >> => HandledBefore(b, answer[1])'
    BY <2>5, <1>2 DEF HandledBefore
  <2>7. HandledBefore(b, bot[b].offset)'
    BY <2>3, <1>1 DEF InOrder, HandledBefore, At
  <2>8. InOrder(b)'
    BY <2>3, <2>4, <2>6, <2>7 DEF InOrder, HandledBefore
  <2> QED
    BY <1>1, <1>2, <1>3, <2>8, KeepDelivery
<1> QED
  BY <1>4, <1>5

\* The first update of the batch is taken: all before it are handled.
LEMMA TakeDelivery ==
  ASSUME DeliveryInv, NEW b \in Bot, Take(b)
  PROVE  (TakenInOrder /\ ConfirmedWasHandled)'
<1>1. /\ TelegramTypeOK /\ bot[b] \in BotType /\ bot[b].step = "loop" /\ InOrder(b)
      /\ bot[b].batch \in Seq(Nat) /\ bot[b].batch # << >> /\ bot[b] # None
      /\ bot[b].offset \in Nat /\ UNCHANGED confirmed
  BY RunningType DEF DeliveryInv, TakenInOrder, InOrder, Take, At, BotType
<1>2. PICK u, rest, offset :
        /\ u = Head(bot[b].batch) /\ rest = Tail(bot[b].batch)
        /\ offset = IF u >= bot[b].offset THEN u + 1 ELSE bot[b].offset
  OBVIOUS
<1>3. /\ u = bot[b].batch[1] /\ u \in Nat /\ rest \in Seq(Nat)
      /\ Len(rest) = Len(bot[b].batch) - 1 /\ Len(bot[b].batch) \in Nat
      /\ \A i \in 1 .. Len(rest) : rest[i] = bot[b].batch[i + 1]
  BY <1>1, <1>2, HeadTailProperties
<1>4. \A i \in 1 .. Len(rest) : rest[i] = u + i
  <2>1. ASSUME NEW i \in 1 .. Len(rest)
        PROVE  rest[i] = u + i
    <3>1. i + 1 \in DOMAIN bot[b].batch /\ i \in Nat
      BY <1>1, <1>3
    <3>2. bot[b].batch[i + 1] = u + (i + 1) - 1
      BY <3>1, <1>1, <1>3 DEF InOrder
    <3> QED
      BY <3>1, <3>2, <1>3
  <2> QED
    BY <2>1
<1>5. /\ bot'[b].batch = rest /\ bot'[b].offset = offset
      /\ handled \subseteq handled'
      /\ u \in handled' \/ (bot'[b].step # "loop" /\ bot'[b].update = u)
  <2>1. Taking(b, u) = [bot[b] EXCEPT !.batch = rest, !.offset = offset]
    BY <1>2 DEF Taking
  <2>2. PICK next : next = Taking(b, u)
    OBVIOUS
  <2>3. /\ DOMAIN next = {"step", "offset", "batch", "update", "at", "text"}
        /\ next.batch = rest /\ next.offset = offset
    BY <2>1, <2>2, <1>1 DEF BotType
  <2>4. CASE bot' = [bot EXCEPT ![b] = next] /\ handled' = handled \cup {u}
    BY <2>3, <2>4, <1>1 DEF TelegramTypeOK
  <2>5. CASE /\ bot' = [bot EXCEPT ![b] = [next EXCEPT !.step = "reply", !.update = u,
                                                       !.text = "invalid"]]
             /\ handled' = handled
    BY <2>3, <2>5, <1>1 DEF TelegramTypeOK
  <2>6. CASE /\ bot' = [bot EXCEPT ![b] = [next EXCEPT !.step = "update", !.update = u, !.at = now]]
             /\ handled' = handled
    BY <2>3, <2>6, <1>1 DEF TelegramTypeOK
  <2> QED
    BY <2>2, <2>4, <2>5, <2>6, <1>2 DEF Take
<1>6. 1 .. u - 1 \subseteq handled
  BY <1>1, <1>3 DEF InOrder, HandledBefore
<1>7. 1 .. bot[b].offset - 1 \subseteq handled
  BY <1>1 DEF InOrder, HandledBefore
<1>8. HandledBefore(b, u + 1)'
  <2>1. ASSUME NEW v \in 1 .. u + 1 - 1
        PROVE  v \in 1 .. u - 1 \/ v = u
    BY <1>3
  <2>2. ASSUME NEW v \in 1 .. u + 1 - 1
        PROVE  v \in handled' \/ (bot'[b].step # "loop" /\ v = bot'[b].update)
    <3>1. CASE v \in 1 .. u - 1
      BY <3>1, <1>5, <1>6
    <3>2. CASE v = u
      BY <3>2, <1>5
    <3> QED
      BY <2>1, <3>1, <3>2
  <2>3. u \in Nat
    BY <1>3
  <2> QED
    BY <2>2, <2>3 DEF HandledBefore
<1>9. HandledBefore(b, bot[b].offset)'
  BY <1>2, <1>5, <1>7, <1>8 DEF HandledBefore
<1>10. rest # << >> => rest[1] = u + 1
  BY <1>3, <1>4
<1>11. \A i \in DOMAIN rest : rest[i] = rest[1] + i - 1
  <2>1. ASSUME NEW i \in DOMAIN rest
        PROVE  rest[i] = rest[1] + i - 1
    <3>1. i \in 1 .. Len(rest) /\ 1 \in 1 .. Len(rest) /\ i \in Nat
      BY <1>3
    <3>2. rest[i] = u + i /\ rest[1] = u + 1
      BY <3>1, <1>4
    <3>3. u \in Nat /\ i \in Nat
      BY <1>3, <3>1
    <3> QED
      BY <3>2, <3>3
  <2> QED
    BY <2>1
<1>12. InOrder(b)'
  BY <1>5, <1>8, <1>9, <1>10, <1>11 DEF InOrder, HandledBefore
<1>13. \A c \in Bot : c # b => bot'[c] = bot[c]
  BY <1>1, OthersStay DEF BotStep
<1>14. 1 .. confirmed' \subseteq handled'
  BY <1>1, <1>5 DEF DeliveryInv, ConfirmedWasHandled
<1> QED
  BY <1>5, <1>12, <1>13, <1>14, KeepDelivery

LEMMA OtherDelivery ==
  ASSUME DeliveryInv, NEW b \in Bot,
         Start(b) \/ Stop(b) \/ LinkBegin(b) \/ LinkCommit(b) \/ LinkCommitUnknown(b)
         \/ LinkFails(b) \/ Reply(b) \/ ReplyFails(b)
  PROVE  (TakenInOrder /\ ConfirmedWasHandled)'
<1>1. /\ TelegramTypeOK /\ InOrder(b) /\ UNCHANGED confirmed /\ handled \subseteq handled'
      /\ 1 .. confirmed \subseteq handled
      /\ bot[b] # None => bot[b] \in BotType
  BY DEF DeliveryInv, TakenInOrder, InOrder, ConfirmedWasHandled, TelegramTypeOK,
     Start, Stop, LinkBegin, LinkCommit, LinkCommitUnknown, Link, LinkFails,
     Reply, ReplyFails, Returns
<1>2. \A c \in Bot : c # b => bot'[c] = bot[c]
  BY <1>1, OthersStay DEF BotStep
<1>3. CASE Start(b)
  <2>1. bot'[b] = NewBot
    BY <1>1, <1>3 DEF Start, TelegramTypeOK
  <2>2. bot'[b].batch = << >> /\ bot'[b].offset = 0
    BY <2>1 DEF NewBot
  <2>3. InOrder(b)'
    BY <2>2 DEF InOrder, HandledBefore
  <2> QED
    BY <1>1, <1>2, <2>3, KeepDelivery
<1>4. CASE Stop(b)
  <2>1. InOrder(b)'
    BY <1>1, <1>4 DEF Stop, TelegramTypeOK, InOrder
  <2> QED
    BY <1>1, <1>2, <2>1, KeepDelivery
<1>5. CASE LinkBegin(b) \/ LinkCommit(b) \/ LinkCommitUnknown(b) \/ LinkFails(b)
  <2>1. bot[b] # None /\ bot[b].step # "loop"
    BY <1>5 DEF LinkBegin, LinkCommit, LinkCommitUnknown, Link, LinkFails, At
  <2>2. /\ bot'[b].batch = bot[b].batch /\ bot'[b].offset = bot[b].offset
        /\ bot'[b].update = bot[b].update /\ bot'[b].step # "loop"
    BY <1>1, <1>5, <2>1
    DEF LinkBegin, LinkCommit, LinkCommitUnknown, LinkFails, Answer, TelegramTypeOK, BotType
  <2>3. InOrder(b)'
    BY <1>1, <2>1, <2>2 DEF InOrder, HandledBefore
  <2> QED
    BY <1>1, <1>2, <2>3, KeepDelivery
<1>6. CASE Reply(b) \/ ReplyFails(b)
  <2>1. bot[b] # None /\ handled' = handled \cup {bot[b].update} /\ Returns(b)
    BY <1>6 DEF Reply, ReplyFails, Returns, At
  <2>2. bot'[b].batch = bot[b].batch /\ bot'[b].offset = bot[b].offset
    BY <1>1, <2>1 DEF Returns, TelegramTypeOK, BotType
  <2>3. InOrder(b)'
    BY <1>1, <2>1, <2>2 DEF InOrder, HandledBefore
  <2> QED
    BY <1>1, <1>2, <2>3, KeepDelivery
<1> QED
  BY <1>3, <1>4, <1>5, <1>6

-----------------------------------------------------------------------------
(* Theorems. *)

LEMMA TypeStep ==
  ASSUME ChannelsInv, TelegramTypeOK, LockedTokensAreUnused, [TelegramNext]_telegramVars
  PROVE  ChannelsInv' /\ TelegramTypeOK'
<1>1. CASE CreateLinkToken \/ SendMessage \/ LinkTick
  <2>1. UNCHANGED channelVars
    BY <1>1 DEF CreateLinkToken, SendMessage, LinkTick
  <2> QED
    BY <1>1, <2>1, UserType, ChannelStepOK
<1>2. CASE ChannelStep /\ UNCHANGED linkVars
  BY <1>2, ChannelStepOK DEF linkVars, TelegramTypeOK, ChannelsInv
<1>3. ASSUME NEW b \in Bot, Start(b) \/ Stop(b) \/ BotStep(b)
      PROVE  ChannelsInv' /\ TelegramTypeOK'
  <2>1. CASE LinkCommit(b) \/ LinkCommitUnknown(b)
    BY <2>1, LinkType
  <2>2. CASE Start(b) \/ Stop(b) \/ Poll(b) \/ PollFails(b) \/ Take(b) \/ LinkBegin(b)
             \/ LinkFails(b) \/ Reply(b) \/ ReplyFails(b)
    <3>1. UNCHANGED channelVars
      BY <2>2 DEF Start, Stop, Poll, PollFails, Take, LinkBegin, LinkFails, Reply,
         ReplyFails, Returns
    <3>2. ChannelsInv'
      BY <3>1, ChannelStepOK
    <3>3. TelegramTypeOK'
      BY <2>2, StartStopType, PollType, TakeType, UnlockedType, ReturnsType
    <3> QED
      BY <3>2, <3>3
  <2> QED
    BY <2>1, <2>2, <1>3 DEF BotStep
<1>4. CASE UNCHANGED telegramVars
  <2>1. UNCHANGED channelVars /\ UNCHANGED linkVars
    BY <1>4 DEF telegramVars
  <2> QED
    BY <2>1, ChannelStepOK DEF linkVars, TelegramTypeOK, ChannelsInv
<1> QED
  BY <1>1, <1>2, <1>3, <1>4 DEF TelegramNext

LEMMA TokenStep ==
  ASSUME TokenInv, [TelegramNext]_telegramVars
  PROVE  (LockedTokensAreUnused /\ OneLinkPerToken /\ RepliesAreTrue)'
<1>1. CASE CreateLinkToken \/ SendMessage \/ LinkTick
  BY <1>1, UserToken
<1>2. CASE UNCHANGED linkVars
  <2>1. UNCHANGED <<tokens, updates, bot, replies>>
    BY <1>2 DEF linkVars
  <2> QED
    BY <2>1 DEF TokenInv, LockedTokensAreUnused, OneLinkPerToken, RepliesAreTrue,
       IsLinked, At, Update
<1>3. ASSUME NEW b \in Bot, Start(b) \/ Stop(b) \/ BotStep(b)
      PROVE  (LockedTokensAreUnused /\ OneLinkPerToken /\ RepliesAreTrue)'
  BY <1>3, LoopToken, BeginToken, LinkToken, ReplyToken DEF BotStep
<1> QED
  BY <1>1, <1>2, <1>3 DEF TelegramNext, telegramVars

LEMMA DeliveryStep ==
  ASSUME DeliveryInv, [TelegramNext]_telegramVars
  PROVE  (TakenInOrder /\ ConfirmedWasHandled)'
<1>1. CASE CreateLinkToken \/ SendMessage \/ LinkTick \/ UNCHANGED linkVars
  BY <1>1, UserDelivery
<1>2. ASSUME NEW b \in Bot, Start(b) \/ Stop(b) \/ BotStep(b)
      PROVE  (TakenInOrder /\ ConfirmedWasHandled)'
  BY <1>2, PollDelivery, TakeDelivery, OtherDelivery DEF BotStep
<1> QED
  BY <1>1, <1>2 DEF TelegramNext, telegramVars

TokensBounded == Len(tokens) <= MaxTokens

LEMMA BoundStep ==
  ASSUME TokenInv, TokensBounded, [TelegramNext]_telegramVars
  PROVE  TokensBounded'
<1>1. tokens \in Seq(TokenType)
  BY DEF TokenInv, TelegramTypeOK
<1>2. CASE CreateLinkToken
  BY <1>1, <1>2, TelegramAssumption DEF CreateLinkToken, TokensBounded
<1>3. ASSUME NEW b \in Bot, Link(b)
      PROVE  TokensBounded'
  BY <1>1, <1>3 DEF Link, Consume, TokensBounded
<1>4. CASE UNCHANGED tokens
  BY <1>4 DEF TokensBounded
<1> QED
  BY <1>2, <1>3, <1>4
  DEF TelegramNext, telegramVars, linkVars, SendMessage, LinkTick, Start, Stop, BotStep, Poll,
      PollFails, Take, LinkBegin, LinkCommit, LinkCommitUnknown, LinkFails, Reply, ReplyFails,
      Returns

TelegramInv == ChannelsInv /\ TokenInv /\ ReasonsGiven /\ DeliveryInv /\ TokensBounded

LEMMA TelegramInvariant == TelegramSpec => []TelegramInv
<1>1. TelegramInit => TelegramInv
  <2> SUFFICES ASSUME TelegramInit PROVE TelegramInv
    OBVIOUS
  <2>1. TelegramTypeOK
    BY TypeInit
  <2>2. ChannelsInv
    BY DEF TelegramInit, ChannelsInit, ChannelsInv, ChannelsTypeOK, PatchesValid, ChannelsValid
  <2>3. LockedTokensAreUnused /\ OneLinkPerToken /\ RepliesAreTrue
    BY DEF TelegramInit, LockedTokensAreUnused, OneLinkPerToken, RepliesAreTrue, At
  <2>4. TakenInOrder /\ ConfirmedWasHandled
    BY DEF TelegramInit, TakenInOrder, ConfirmedWasHandled
  <2>5. TokensBounded /\ ReasonsGiven
    BY TelegramAssumption DEF TelegramInit, TokensBounded, ReasonsGiven, At
  <2> QED
    BY <2>1, <2>2, <2>3, <2>4, <2>5 DEF TelegramInv, TokenInv, DeliveryInv
<1>2. TelegramInv /\ [TelegramNext]_telegramVars => TelegramInv'
  BY TypeStep, TokenStep, ReasonStep, DeliveryStep, BoundStep DEF TelegramInv, TokenInv, DeliveryInv
<1> QED
  BY <1>1, <1>2, PTL DEF TelegramSpec

-----------------------------------------------------------------------------
(* The promise of DeepLink. *)

LinkingStep == [Linking!LinkingNext]_Linking!linkingVars

\* Steps that the user of a link does not see.
LEMMA LinkingStutter ==
  ASSUME UNCHANGED <<tokens, channels, replies>>
  PROVE  LinkingStep
BY DEF LinkingStep, Linking!linkingVars, Opened, Reached, Told, Exists

LEMMA LinkingOffer ==
  ASSUME TelegramInv, CreateLinkToken
  PROVE  LinkingStep
<1> DEFINE new == [expires |-> now + TokenTTL, used |-> FALSE, linked |-> << >>]
<1>1. tokens \in Seq(TokenType) /\ tokens' = Append(tokens, new)
  BY DEF TelegramInv, TokenInv, TelegramTypeOK, CreateLinkToken
<1>2. UNCHANGED <<Reached, Told>>
  BY DEF CreateLinkToken, channelVars, Reached, Told, Exists
<1>3. new.linked = << >>
  OBVIOUS
<1> HIDE DEF new
<1>4. PICK n \in Nat : n = Len(tokens)
  BY <1>1
<1>5. /\ DOMAIN tokens = 1 .. n /\ DOMAIN tokens' = 1 .. n + 1
      /\ \A t \in 1 .. n : tokens'[t] = tokens[t]
      /\ tokens'[n + 1] = new
  BY <1>1, <1>4
<1>6. /\ Opened = [t \in 1 .. n |-> tokens[t].linked]
      /\ Opened' = [t \in 1 .. n + 1 |-> tokens'[t].linked]
  BY <1>5 DEF Opened
<1>7. Len(Opened) = n
  BY <1>6
<1>8. Opened' = Append(Opened, << >>)
  BY <1>3, <1>5, <1>6, <1>7
<1> QED BY <1>2, <1>8 DEF LinkingStep, Linking!LinkingNext, Linking!Offer

LEMMA LinkingEdit ==
  ASSUME ChannelStep /\ UNCHANGED linkVars
  PROVE  LinkingStep
<1>1. UNCHANGED <<Opened, Told>> /\ Reached' \subseteq Chat
  BY DEF linkVars, Opened, Told, Reached
<1> QED BY <1>1 DEF LinkingStep, Linking!LinkingNext, Linking!Edit

\* The bot's statement on the channels makes alerts reach the chat.
LEMMA UpsertReaches ==
  ASSUME ChannelsTypeOK, NEW chat \in Chat, Upsert(chat)
  PROVE  Reached' = Reached \cup {chat}
<1> DEFINE row == [type |-> "telegram", address |-> chat, enabled |-> TRUE]
<1>1. channels \in Seq(Row \cup {None}) /\ row \in Row
  BY DEF ChannelsTypeOK, Row
<1>2. ASSUME NEW other \in Chat
      PROVE  other \in Reached' <=> other \in Reached \cup {chat}
  <2>1. CASE ~ Taken(row, 0) /\ Insert(row)
    <3>1. PICK n \in Nat : n = Len(channels)
      BY <1>1
    <3>2. /\ DOMAIN channels = 1 .. n /\ DOMAIN channels' = 1 .. n + 1
          /\ \A i \in 1 .. n : channels'[i] = channels[i]
          /\ channels'[n + 1] = row
      BY <1>1, <2>1, <3>1 DEF Insert
    <3>3. row # None /\ (Connected(row, other) <=> other = chat)
      BY <1>1, NoneAssumption DEF Connected
    <3> HIDE DEF row
    <3> QED BY <3>2, <3>3 DEF Reached, Exists, Connected
  <2>2. ASSUME NEW id \in DOMAIN channels, Exists(id), SameKey(row, channels[id]),
               channels' = [channels EXCEPT ![id].enabled = TRUE]
        PROVE  other \in Reached' <=> other \in Reached \cup {chat}
    <3>1. channels[id] \in Row
      BY <1>1, <2>2 DEF Exists
    <3>2. channels[id].type = "telegram" /\ channels[id].address = chat
      BY <2>2 DEF SameKey
    <3>3. channels' = [channels EXCEPT ![id] = row]
      <4>1. [channels[id] EXCEPT !.enabled = TRUE] = row
        <5>1. PICK r \in Row : r = channels[id]
          BY <3>1
        <5>2. PICK e : e = [r EXCEPT !.enabled = TRUE]
          OBVIOUS
        <5>3. e \in Row /\ e.type = r.type /\ e.address = r.address /\ e.enabled = TRUE
          BY <5>2 DEF Row
        <5>4. e = [type |-> e.type, address |-> e.address, enabled |-> e.enabled]
          BY <5>3 DEF Row
        <5>5. r.type = "telegram" /\ r.address = chat
          BY <3>2, <5>1
        <5> QED BY <5>1, <5>2, <5>3, <5>4, <5>5
      <4> QED BY <2>2, <4>1
    <3>4. /\ DOMAIN channels' = DOMAIN channels /\ channels'[id] = row
          /\ \A i \in DOMAIN channels : i # id => channels'[i] = channels[i]
      BY <1>1, <3>3
    <3>5. row # None /\ (Connected(row, other) <=> other = chat)
      BY <1>1, NoneAssumption DEF Connected
    <3>6. Connected(channels[id], other) => other = chat
      BY <3>2 DEF Connected
    <3> HIDE DEF row
    <3> QED BY <2>2, <3>4, <3>5, <3>6 DEF Reached, Exists
  <2> QED BY <2>1, <2>2 DEF Upsert
<1> QED BY <1>2 DEF Reached

LEMMA LinkingConnect ==
  ASSUME TelegramInv, NEW b \in Bot, Link(b)
  PROVE  LinkingStep
<1>1. PICK t, chat : t = Update(b).token /\ chat = Update(b).chat
  OBVIOUS
<1>2. /\ TelegramTypeOK /\ ChannelsTypeOK /\ At(b, "commit")
      /\ bot[b].update \in DOMAIN updates
  BY DEF TelegramInv, TokenInv, TelegramTypeOK, Link, At
<1>3. t \in DOMAIN tokens /\ ~ tokens[t].used /\ chat \in Chat
  BY <1>1, <1>2, UpdateRecord DEF TelegramInv, TokenInv, LockedTokensAreUnused
<1>4. tokens[t] \in TokenType /\ tokens \in Seq(TokenType)
  BY <1>2, <1>3 DEF TelegramTypeOK
<1>5. tokens[t].linked = << >>
  <2>1. tokens[t].linked \in Seq(Chat) /\ Len(tokens[t].linked) = 0
    BY <1>3, <1>4 DEF TelegramInv, TokenInv, OneLinkPerToken, TokenType
  <2> QED BY <2>1
<1>6. /\ DOMAIN tokens' = DOMAIN tokens
      /\ tokens'[t].linked = Append(tokens[t].linked, chat)
      /\ \A i \in DOMAIN tokens : i # t => tokens'[i] = tokens[i]
  BY <1>1, <1>2, <1>3, ConsumeType DEF Link
<1>7. tokens'[t].linked = <<chat>>
  BY <1>5, <1>6
<1>8. t \in 1 .. MaxTokens
  BY <1>3, <1>4, TelegramAssumption DEF TelegramInv, TokensBounded
<1>9. t \in DOMAIN Opened /\ Opened[t] = << >>
  BY <1>3, <1>5 DEF Opened
<1>10. Opened' = [Opened EXCEPT ![t] = <<chat>>]
  BY <1>3, <1>6, <1>7 DEF Opened
<1>11. Reached' = Reached \cup {chat}
  BY <1>1, <1>2, <1>3, UpsertReaches DEF Link
<1>12. UNCHANGED Told
  BY DEF Link, Told
<1>13. Linking!Connect(t, chat)
  BY <1>9, <1>10, <1>11, <1>12 DEF Linking!Connect
<1> QED BY <1>3, <1>8, <1>13 DEF LinkingStep, Linking!LinkingNext

LEMMA LinkingTell ==
  ASSUME TelegramInv, NEW b \in Bot, Reply(b)
  PROVE  LinkingStep
<1>1. PICK t, chat : t = Update(b).token /\ chat = Update(b).chat
  OBVIOUS
<1>2. PICK text : text = bot[b].text
  OBVIOUS
<1>3. replies' = replies \cup {[chat |-> chat, token |-> t, text |-> text]}
  BY <1>1, <1>2 DEF Reply
<1>4. UNCHANGED <<tokens, channels>>
  BY DEF Reply, Returns, channelVars
<1>5. UNCHANGED <<Opened, Reached>>
  BY <1>4 DEF Opened, Reached, Exists
<1>6. CASE text # "connected"
  <2>1. Told' = Told
    BY <1>3, <1>6 DEF Told
  <2> QED BY <1>5, <2>1 DEF LinkingStep, Linking!linkingVars
<1>7. CASE text = "connected"
  <2>1. t \in DOMAIN tokens /\ tokens[t].linked = <<chat>>
    BY <1>1, <1>2, <1>7 DEF Reply, Returns, TelegramInv, TokenInv, RepliesAreTrue, IsLinked
  <2>2. Told' = Told \cup {<<t, chat>>}
    <3> DEFINE new == [chat |-> chat, token |-> t, text |-> text]
    <3>1. new.chat = chat /\ new.token = t /\ new.text = "connected"
      BY <1>7
    <3>2. replies' = replies \cup {new}
      BY <1>3
    <3> HIDE DEF new
    <3>3. {r \in replies' : r.text = "connected"} =
            {r \in replies : r.text = "connected"} \cup {new}
      BY <3>1, <3>2
    <3> QED BY <3>1, <3>3 DEF Told
  <2>3. t \in 1 .. MaxTokens
    BY <2>1, TelegramAssumption DEF TelegramInv, TokenInv, TelegramTypeOK, TokensBounded
  <2>4. chat \in Chat
    BY <1>1, UpdateRecord DEF Reply, Returns, At, TelegramInv, TokenInv, TelegramTypeOK
  <2>5. Linking!Tell(t, chat)
    BY <1>5, <2>1, <2>2 DEF Linking!Tell, Opened
  <2> QED BY <2>3, <2>4, <2>5 DEF LinkingStep, Linking!LinkingNext
<1> QED BY <1>6, <1>7

LEMMA EveryLinkingStep ==
  ASSUME TelegramInv, [TelegramNext]_telegramVars
  PROVE  LinkingStep
<1>1. CASE CreateLinkToken
  BY <1>1, LinkingOffer
<1>2. CASE ChannelStep /\ UNCHANGED linkVars
  BY <1>2, LinkingEdit
<1>3. ASSUME NEW b \in Bot, Link(b) \/ Reply(b)
      PROVE  LinkingStep
  BY <1>3, LinkingConnect, LinkingTell
<1>4. CASE UNCHANGED <<tokens, channels, replies>>
  BY <1>4, LinkingStutter
<1> QED
  BY <1>1, <1>2, <1>3, <1>4
  DEF TelegramNext, telegramVars, linkVars, channelVars, SendMessage, LinkTick, Start, Stop,
      BotStep, Poll, PollFails, Take, LinkBegin, LinkCommit, LinkCommitUnknown, LinkFails,
      ReplyFails, Returns
-----------------------------------------------------------------------------
\* Every variable keeps its type, and no process works on an update or a
\* token that does not exist.
THEOREM TelegramTypeCorrect == TelegramSpec => []TelegramTypeOK
BY TelegramInvariant, PTL DEF TelegramInv, TokenInv

\* A token links one chat, however many processes, redeliveries, stops and
\* failures there are (PostgresRepository.ConsumeLinkToken).
THEOREM TokensAreOneTime == TelegramSpec => []OneLinkPerToken
BY TelegramInvariant, PTL DEF TelegramInv, TokenInv

\* "Connected" is said only to the chat that the token has linked, and stays
\* true; "invalid" of a token that is used, expired or none; and "temporary"
\* after a failure (Bot.handleUpdate).
THEOREM BotTellsTheTruth == TelegramSpec => []RepliesTellTheTruth
<1>1. TelegramInv => RepliesTellTheTruth
  BY DEF TelegramInv, TokenInv, RepliesAreTrue, IsLinked, ReasonsGiven, Reason, Refused,
     RepliesTellTheTruth
<1> QED
  BY <1>1, TelegramInvariant, PTL

\* No update is confirmed before it is handled (the offset of Bot.Run).
THEOREM NoUpdateSkipped == TelegramSpec => []ConfirmedWasHandled
BY TelegramInvariant, PTL DEF TelegramInv, DeliveryInv

\* Two writers of alert_channels that know nothing of each other, the API and
\* the bot, leave valid rows with distinct keys.
THEOREM ChannelsStayValidWithBot == TelegramSpec => []ChannelsValid
BY TelegramInvariant, PTL DEF TelegramInv, ChannelsInv

\* The bot and the API together do what DeepLink promises to who opens a
\* link: the token is used, once, in the transaction that enables the channel.
THEOREM BotImplementsDeepLink == TelegramSpec => LinksAreKept
<1>1. TelegramInit => Linking!LinkingInit
  <2> SUFFICES ASSUME TelegramInit PROVE Opened = << >> /\ Reached = {} /\ Told = {}
    BY DEF Linking!LinkingInit
  <2> QED BY DEF TelegramInit, ChannelsInit, Opened, Reached, Told
<1>2. TelegramInv /\ [TelegramNext]_telegramVars =>
        [Linking!LinkingNext]_Linking!linkingVars
  BY EveryLinkingStep DEF LinkingStep
<1> QED
  BY <1>1, <1>2, TelegramInvariant, PTL DEF TelegramSpec, LinksAreKept, Linking!LinkingSpec
==============================================================================
