------------------------ MODULE AlertChannelsProofs --------------------------
(***************************************************************************)
(* Theorems about AlertChannels: whatever PATCH calls overlap, the stored  *)
(* rows are valid and their keys distinct.  The row a call is about to     *)
(* write is one that normalizeAndValidate has accepted (PatchesValid), and *)
(* no call depends on the row it has read being still the same.            *)
(***************************************************************************)
EXTENDS AlertChannels, TLAPS

\* normalizeAndValidate stands between the read and the write of a PATCH.
PatchesValid == \A p \in Patch : patch[p] # None => Valid(patch[p].row)

ChannelsInv == ChannelsTypeOK /\ PatchesValid /\ ChannelsValid

LEMMA MergeType ==
  ASSUME NEW row \in Row, NEW given, NEW input \in Row
  PROVE  Merge(row, given, input) \in Row
BY DEF Merge, Row

LEMMA InsertOK ==
  ASSUME ChannelsInv, NEW row \in Row, Valid(row), ~ Taken(row, 0), Insert(row),
         UNCHANGED patch
  PROVE  ChannelsInv'
<1>1. /\ channels \in Seq(Row \cup {None}) /\ channels' = Append(channels, row)
      /\ row # None
  BY NoneAssumption DEF ChannelsInv, ChannelsTypeOK, Insert
<1>2. /\ Len(channels') = Len(channels) + 1 /\ Len(channels) \in Nat
      /\ DOMAIN channels = 1 .. Len(channels) /\ DOMAIN channels' = 1 .. Len(channels')
      /\ channels' \in Seq(Row \cup {None})
      /\ channels'[Len(channels')] = row
      /\ \A i \in DOMAIN channels : channels'[i] = channels[i]
  BY <1>1
<1>3. ChannelsTypeOK'
  BY <1>2 DEF ChannelsInv, ChannelsTypeOK
<1>4. PatchesValid'
  BY DEF ChannelsInv, PatchesValid
<1>5. \A i \in DOMAIN channels : Exists(i) => ~ SameKey(row, channels[i])
  <2>1. \A i \in DOMAIN channels : i # 0
    BY <1>2
  <2> QED
    BY <2>1 DEF Taken
<1>6. ASSUME NEW id \in DOMAIN channels', Exists(id)'
      PROVE  (Valid(channels[id]) /\ ~ Taken(channels[id], id))'
  <2>1. CASE id = Len(channels')
    BY <2>1, <1>2, <1>5 DEF Taken, Exists
  <2>2. CASE id # Len(channels')
    <3>1. id \in DOMAIN channels /\ channels'[id] = channels[id] /\ Exists(id)
      BY <2>2, <1>2, <1>6 DEF Exists
    <3>2. Valid(channels[id]) /\ ~ Taken(channels[id], id)
      BY <3>1 DEF ChannelsInv, ChannelsValid
    <3>3. ~ SameKey(channels[id], row)
      BY <3>1, <1>5 DEF SameKey
    <3>4. \A i \in DOMAIN channels' : i # id /\ channels'[i] # None
            => ~ SameKey(channels[id], channels'[i])
      BY <3>2, <3>3, <1>2 DEF Taken, Exists
    <3> QED
      BY <3>1, <3>2, <3>4 DEF Taken, Exists
  <2> QED
    BY <2>1, <2>2
<1>7. ChannelsValid'
  BY <1>6 DEF ChannelsValid
<1> QED
  BY <1>3, <1>4, <1>7 DEF ChannelsInv

LEMMA OverwriteOK ==
  ASSUME ChannelsInv, NEW id \in DOMAIN channels, NEW row \in Row,
         Valid(row), ~ Taken(row, id),
         channels' = [channels EXCEPT ![id] = row],
         ChannelsTypeOK', PatchesValid'
  PROVE  ChannelsInv'
<1>1. /\ channels \in Seq(Row \cup {None}) /\ DOMAIN channels' = DOMAIN channels
      /\ channels'[id] = row
      /\ \A i \in DOMAIN channels : i # id => channels'[i] = channels[i]
  BY DEF ChannelsInv, ChannelsTypeOK
<1>2. ASSUME NEW j \in DOMAIN channels', Exists(j)'
      PROVE  (Valid(channels[j]) /\ ~ Taken(channels[j], j))'
  <2>1. CASE j = id
    BY <2>1, <1>1 DEF Taken, Exists
  <2>2. CASE j # id
    <3>1. Exists(j) /\ channels'[j] = channels[j] /\ j \in DOMAIN channels
      BY <2>2, <1>1, <1>2 DEF Exists
    <3>2. Valid(channels[j]) /\ ~ Taken(channels[j], j)
      BY <3>1 DEF ChannelsInv, ChannelsValid
    <3>3. ~ SameKey(channels[j], row)
      BY <3>1, <2>2 DEF Taken, SameKey
    <3> QED
      BY <3>1, <3>2, <3>3, <1>1 DEF Taken, Exists
  <2> QED
    BY <2>1, <2>2
<1>3. ChannelsValid'
  BY <1>2 DEF ChannelsValid
<1> QED
  BY <1>3 DEF ChannelsInv

LEMMA DeleteOK ==
  ASSUME ChannelsInv, NEW id \in DOMAIN channels,
         channels' = [channels EXCEPT ![id] = None], UNCHANGED patch
  PROVE  ChannelsInv'
<1>1. /\ channels \in Seq(Row \cup {None}) /\ DOMAIN channels' = DOMAIN channels
      /\ channels' \in Seq(Row \cup {None})
      /\ channels'[id] = None
      /\ \A i \in DOMAIN channels : i # id => channels'[i] = channels[i]
  BY DEF ChannelsInv, ChannelsTypeOK
<1>2. ChannelsTypeOK' /\ PatchesValid'
  BY <1>1 DEF ChannelsInv, ChannelsTypeOK, PatchesValid
<1>3. ChannelsValid'
  BY <1>1 DEF ChannelsInv, ChannelsValid, Taken, Exists
<1> QED
  BY <1>2, <1>3 DEF ChannelsInv

\* The bot's statement keeps the invariant too; TelegramLink uses this.
LEMMA UpsertOK ==
  ASSUME ChannelsInv, NEW chat \in Chat, Upsert(chat), UNCHANGED patch
  PROVE  ChannelsInv'
<1> DEFINE row == [type |-> "telegram", address |-> chat, enabled |-> TRUE]
<1>1. row \in Row /\ Valid(row)
  BY DEF Row, Valid
<1>2. CASE ~ Taken(row, 0) /\ Insert(row)
  BY <1>1, <1>2, InsertOK
<1>3. ASSUME NEW id \in DOMAIN channels, Exists(id), SameKey(row, channels[id]),
             channels' = [channels EXCEPT ![id].enabled = TRUE]
      PROVE  ChannelsInv'
  <2> DEFINE new == [channels[id] EXCEPT !.enabled = TRUE]
  <2>1. channels \in Seq(Row \cup {None}) /\ channels[id] \in Row
    BY <1>3 DEF ChannelsInv, ChannelsTypeOK, Exists
  <2>2. new \in Row /\ new.type = channels[id].type /\ new.address = channels[id].address
    BY <2>1 DEF Row
  <2>3. Valid(channels[id]) /\ ~ Taken(channels[id], id)
    BY <1>3 DEF ChannelsInv, ChannelsValid
  <2>4. Valid(new) /\ ~ Taken(new, id)
    BY <2>2, <2>3 DEF Valid, Taken, SameKey
  <2>5. channels' = [channels EXCEPT ![id] = new]
    BY <1>3
  <2>6. ChannelsTypeOK' /\ PatchesValid'
    BY <2>1, <2>2, <2>5 DEF ChannelsInv, ChannelsTypeOK, PatchesValid
  <2> HIDE DEF new
  <2> QED
    BY <2>2, <2>4, <2>5, <2>6, OverwriteOK
<1> QED
  BY <1>2, <1>3 DEF Upsert

LEMMA ChannelStepOK ==
  ASSUME ChannelsInv, [ChannelStep]_channelVars
  PROVE  ChannelsInv'
<1>1. CASE Create
  BY <1>1, InsertOK DEF Create
<1>2. CASE Delete
  BY <1>2, DeleteOK DEF Delete
<1>3. ASSUME NEW p \in Patch, UpdateLoad(p)
      PROVE  ChannelsInv'
  <2>1. PICK id \in DOMAIN channels, given \in Fields, input \in Row :
          /\ Exists(id)
          /\ Valid(Merge(channels[id], given, input))
          /\ patch' = [patch EXCEPT ![p] =
               [id |-> id, given |-> given, row |-> Merge(channels[id], given, input)]]
    BY <1>3 DEF UpdateLoad
  <2> DEFINE new == [id |-> id, given |-> given, row |-> Merge(channels[id], given, input)]
  <2>2. channels \in Seq(Row \cup {None}) /\ channels[id] \in Row /\ id \in Nat
    BY <2>1 DEF ChannelsInv, ChannelsTypeOK, Exists
  <2>3. Merge(channels[id], given, input) \in Row
    BY <2>2, MergeType
  <2>4. new \in PatchType /\ new.id = id /\ Valid(new.row)
    BY <2>1, <2>2, <2>3 DEF PatchType
  <2>5. patch' = [patch EXCEPT ![p] = new] /\ UNCHANGED channels
    BY <2>1, <1>3 DEF UpdateLoad
  <2> HIDE DEF new
  <2>6. ChannelsTypeOK'
    BY <2>4, <2>5 DEF ChannelsInv, ChannelsTypeOK
  <2>7. PatchesValid'
    BY <2>4, <2>5 DEF ChannelsInv, ChannelsTypeOK, PatchesValid
  <2>8. ChannelsValid'
    BY <2>5 DEF ChannelsInv, ChannelsValid, Taken, Exists
  <2> QED
    BY <2>6, <2>7, <2>8 DEF ChannelsInv
<1>4. ASSUME NEW p \in Patch, patch[p] # None, patch' = [patch EXCEPT ![p] = None],
             UNCHANGED channels
      PROVE  ChannelsInv'
  BY <1>4 DEF ChannelsInv, ChannelsTypeOK, PatchesValid, ChannelsValid, Taken, Exists
<1>5. ASSUME NEW p \in Patch, UpdateStore(p)
      PROVE  ChannelsInv'
  <2>1. /\ patch[p].id \in DOMAIN channels /\ patch[p].row \in Row /\ Valid(patch[p].row)
        /\ channels \in Seq(Row \cup {None})
    BY <1>5 DEF ChannelsInv, ChannelsTypeOK, PatchesValid, PatchType, UpdateStore
  <2>2. CASE UNCHANGED channels
    BY <2>2, <1>4, <1>5 DEF UpdateStore
  <2>3. CASE /\ ~ Taken(patch[p].row, patch[p].id)
             /\ channels' = [channels EXCEPT ![patch[p].id] = patch[p].row]
    <3>1. ChannelsTypeOK' /\ PatchesValid'
      BY <2>1, <2>3, <1>5 DEF ChannelsInv, ChannelsTypeOK, PatchesValid, UpdateStore
    <3> QED
      BY <3>1, <2>1, <2>3, OverwriteOK
  <2> QED
    BY <2>2, <2>3, <1>5 DEF UpdateStore
<1>6. CASE UNCHANGED channelVars
  BY <1>6 DEF channelVars, ChannelsInv, ChannelsTypeOK, PatchesValid, ChannelsValid, Taken, Exists
<1> QED
  BY <1>1, <1>2, <1>3, <1>4, <1>5, <1>6 DEF ChannelStep, UpdateFails

LEMMA ChannelsInvariant == ChannelSpec => []ChannelsInv
<1>1. ChannelsInit => ChannelsInv
  BY DEF ChannelsInit, ChannelsInv, ChannelsTypeOK, PatchesValid, ChannelsValid
<1>2. ChannelsInv /\ [ChannelNext]_channelVars => ChannelsInv'
  BY ChannelStepOK, UpsertOK DEF ChannelNext
<1> QED
  BY <1>1, <1>2, PTL DEF ChannelSpec

\* A PATCH never writes back anything but a row, to an id that was given out.
THEOREM ChannelsTypeCorrect == ChannelSpec => []ChannelsTypeOK
<1>1. ChannelsInv => ChannelsTypeOK
  BY DEF ChannelsInv
<1> QED
  BY <1>1, ChannelsInvariant, PTL

\* Overlapping PATCH calls, creations, deletions and the bot leave only valid
\* rows with distinct keys in the table, though the row that a PATCH validates
\* may be gone or changed when it writes (Service.Update).
THEOREM ChannelsStayValid == ChannelSpec => []ChannelsValid
<1>1. ChannelsInv => ChannelsValid
  BY DEF ChannelsInv
<1> QED
  BY <1>1, ChannelsInvariant, PTL
==============================================================================
