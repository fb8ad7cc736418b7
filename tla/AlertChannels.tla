--------------------------- MODULE AlertChannels -----------------------------
(***************************************************************************)
(* The channels that alerts are sent to: the table alert_channels and the  *)
(* API on it (src/internal/alertchannel).  A PATCH reads the row, merges   *)
(* the fields it was given, validates the result and writes all columns,   *)
(* in two statements without a transaction.  These are the channels of one *)
(* user: every statement names its user_id.                                *)
(***************************************************************************)
EXTENDS Integers, Sequences

CONSTANTS
  Patch,         \* PATCH calls that may be running at a time
  Chat, Url,     \* addresses: chat ids, and URLs with a host and http or https
  Fields,        \* the sets of fields that clients send in a PATCH
  MaxChannels,   \* bound: rows ever created by the API
  None           \* no row; no call

ASSUME ChannelsAssumption ==
  /\ Chat \cap Url = {}
  /\ Fields \subseteq (SUBSET {"type", "address", "enabled"}) \ {{}}
  /\ MaxChannels \in Nat

VARIABLES
  channels,   \* the rows in the order of their creation; None when deleted
  patch       \* patch[p]: the row that call p is about to write, or None

channelVars == <<channels, patch>>

Row == [type : {"telegram", "webhook"}, address : Chat \cup Url, enabled : BOOLEAN]
PatchType == [id : Nat, given : Fields, row : Row]

ASSUME NoneAssumption == None \notin Row \cup PatchType

ChannelsInit == channels = << >> /\ patch = [p \in Patch |-> None]

\* normalizeAndValidate, of trimmed and non-empty fields.
Valid(row) == row.type = "webhook" => row.address \in Url

\* The unique index on user_id, type and address.
SameKey(row, other) == row.type = other.type /\ row.address = other.address
Exists(id) == channels[id] # None
Taken(row, id) ==
  \E i \in DOMAIN channels : i # id /\ Exists(i) /\ SameKey(row, channels[i])
-----------------------------------------------------------------------------
(* The calls of the API.  One that is refused, with 400, 404 or 409,       *)
(* changes nothing.                                                        *)

Insert(row) == channels' = Append(channels, row)

Create ==
  /\ Len(channels) < MaxChannels
  /\ \E row \in Row : Valid(row) /\ ~ Taken(row, 0) /\ Insert(row)
  /\ UNCHANGED patch

\* Mutant: the fields that are not given get a zero value.
MergeZero(row, given, input) ==
  [f \in DOMAIN row |-> IF f \in given THEN input[f] ELSE None]

Merge(row, given, input) ==
  [f \in DOMAIN row |-> IF f \in given THEN input[f] ELSE row[f]]

\* Service.Update up to its second statement.
UpdateLoad(p) ==
  /\ patch[p] = None
  /\ \E id \in DOMAIN channels, given \in Fields, input \in Row :
       /\ Exists(id)
       /\ Valid(Merge(channels[id], given, input))
       /\ patch' = [patch EXCEPT ![p] =
                      [id |-> id, given |-> given, row |-> Merge(channels[id], given, input)]]
  /\ UNCHANGED channels

\* Mutant: only the columns that were given are written.
UpdateStoreGiven(p) ==
  /\ patch[p] # None
  /\ LET id == patch[p].id
         row == IF Exists(id) THEN Merge(channels[id], patch[p].given, patch[p].row)
                ELSE patch[p].row
     IN channels' = IF Exists(id) /\ ~ Taken(row, id)
                    THEN [channels EXCEPT ![id] = row] ELSE channels
  /\ patch' = [patch EXCEPT ![p] = None]

\* All columns are written, if the row still exists and its key is free.
UpdateStore(p) ==
  /\ patch[p] # None
  /\ channels' = IF Exists(patch[p].id) /\ ~ Taken(patch[p].row, patch[p].id)
                 THEN [channels EXCEPT ![patch[p].id] = patch[p].row] ELSE channels
  /\ patch' = [patch EXCEPT ![p] = None]

\* The second statement fails, without effect.
UpdateFails(p) ==
  /\ patch[p] # None
  /\ patch' = [patch EXCEPT ![p] = None]
  /\ UNCHANGED channels

Delete ==
  /\ \E id \in DOMAIN channels : Exists(id) /\ channels' = [channels EXCEPT ![id] = None]
  /\ UNCHANGED patch

\* Mutant: the row is inserted without is_enabled = true.
UpsertDisabled(chat) ==
  LET row == [type |-> "telegram", address |-> chat, enabled |-> FALSE]
  IN \/ ~ Taken(row, 0) /\ Insert(row)
     \/ \E id \in DOMAIN channels :
          /\ Exists(id) /\ SameKey(row, channels[id])
          /\ channels' = [channels EXCEPT ![id].enabled = TRUE]

\* The bot links a chat: insert ... on conflict do update set enabled = true.
Upsert(chat) ==
  LET row == [type |-> "telegram", address |-> chat, enabled |-> TRUE]
  IN \/ ~ Taken(row, 0) /\ Insert(row)
     \/ \E id \in DOMAIN channels :
          /\ Exists(id) /\ SameKey(row, channels[id])
          /\ channels' = [channels EXCEPT ![id].enabled = TRUE]

ChannelStep ==
  \/ Create \/ Delete
  \/ \E p \in Patch : UpdateLoad(p) \/ UpdateStore(p) \/ UpdateFails(p)

ChannelNext ==
  \/ ChannelStep
  \/ \E chat \in Chat :
       /\ Upsert(chat) /\ UNCHANGED patch
       /\ Len(channels') <= MaxChannels

ChannelSpec == ChannelsInit /\ [][ChannelNext]_channelVars
-----------------------------------------------------------------------------
(* Properties. *)

ChannelsTypeOK ==
  /\ channels \in Seq(Row \cup {None})
  /\ patch \in [Patch -> PatchType \cup {None}]
  /\ \A p \in Patch : patch[p] # None => patch[p].id \in DOMAIN channels

\* Whatever PATCH calls overlap, and though each validates a row that may be
\* out of date, a stored row is one that normalizeAndValidate accepts, and no
\* two rows have one key, also when the bot inserts or enables one.
ChannelsValid ==
  \A id \in DOMAIN channels : Exists(id) => Valid(channels[id]) /\ ~ Taken(channels[id], id)
=============================================================================
