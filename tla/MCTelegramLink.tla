--------------------------- MODULE MCTelegramLink ----------------------------
(***************************************************************************)
(* A small instance of TelegramLink: two bot processes and two chats.  The *)
(* API deletes channels; its other calls are in MCAlertChannels.           *)
(***************************************************************************)
EXTENDS TelegramLink

CONSTANTS b1, b2, chat1, chat2, url1

\* The chats are alike: the first message comes from chat1, and so do those
\* without a token, which say nothing about their chat.
ChatsAlike ==
  \A u \in DOMAIN updates : u = 1 \/ updates[u].token = 0 => updates[u].chat = chat1

\* Before there is a token nothing depends on the time, which begins with it.
TimeBegins ==
  /\ now > 0 => tokens # << >>
  /\ \A t \in DOMAIN tokens : tokens[t].expires = TokenTTL
=============================================================================
