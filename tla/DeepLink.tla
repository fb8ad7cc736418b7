------------------------------- MODULE DeepLink -------------------------------
(***************************************************************************)
(* What a user who opens deep links is promised, without processes,        *)
(* updates, offsets or transactions: a link connects one chat, for good;   *)
(* the moment it does, alerts reach that chat; and a chat is told that it  *)
(* is connected only when it is.  What alerts reach otherwise is up to the *)
(* owner of the channels.                                                  *)
(***************************************************************************)
EXTENDS Sequences

CONSTANTS Chat, Token    \* chats; the tokens that links can carry

VARIABLES
  opened,    \* opened[l]: << >>, or the one chat that the link with token l connected
  reached,   \* the chats that alerts are sent to
  told       \* the pairs of a link and a chat that was told it is connected

linkingVars == <<opened, reached, told>>

LinkingInit == opened = << >> /\ reached = {} /\ told = {}

Offer ==
  /\ opened' = Append(opened, << >>)
  /\ UNCHANGED <<reached, told>>

Connect(l, chat) ==
  /\ l \in DOMAIN opened /\ opened[l] = << >>
  /\ opened' = [opened EXCEPT ![l] = <<chat>>]
  /\ reached' = reached \cup {chat}
  /\ UNCHANGED told

Tell(l, chat) ==
  /\ l \in DOMAIN opened /\ opened[l] = <<chat>>
  /\ told' = told \cup {<<l, chat>>}
  /\ UNCHANGED <<opened, reached>>

Edit ==
  /\ reached' \subseteq Chat
  /\ UNCHANGED <<opened, told>>

LinkingNext ==
  \/ Offer \/ Edit
  \/ \E l \in Token, chat \in Chat : Connect(l, chat) \/ Tell(l, chat)

LinkingSpec == LinkingInit /\ [][LinkingNext]_linkingVars
=============================================================================
