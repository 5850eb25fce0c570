-------------------------- MODULE SqlStorage_proofs --------------------------
(***************************************************************************)
(* Proofs about SqlStorage, for any number of clients, ids, strings and    *)
(* hashes, and for both backends.                                          *)
(***************************************************************************)
EXTENDS SqlStorage, TLAPS

Pcs == {"idle", "plain", "hash", "tx", "unmark"}

\* The typing and the call records that belong to each program point.
CallOK ==
  \A c \in Clients :
    /\ Saving(c) => call[c] \in SaveArgs
    /\ pc[c] = "unmark" => call[c] \in Ids

TypeInv == TypeOK /\ CallOK

\* TypeOK is not inductive alone: SaveCheckHash and SaveTx read fields of call[c].
LEMMA TypeInvInit == Init => TypeInv
BY IdsAssumption, NullAssumption DEF Init, TypeInv, TypeOK, CallOK, Saving

LEMMA SavingFacts ==
  ASSUME TypeInv, NEW c \in Clients, Saving(c)
  PROVE  /\ call[c] \in SaveArgs
         /\ call[c].id \in Ids /\ call[c].blob \in Blobs
         /\ call[c].isPlaintext \in BOOLEAN /\ call[c].burn \in BOOLEAN
         /\ call[c].ttl \in Nat /\ call[c].expires \in Int
         /\ HashOf[call[c].blob] \in Hashes
BY HashAssumption, TTLAssumption DEF TypeInv, CallOK, SaveArgs

\* Finish leaves the client without a call.
LEMMA FinishTyped ==
  ASSUME TypeInv, NEW c \in Clients, Finish(c)
  PROVE  /\ pc' \in [Clients -> Pcs]
         /\ call' \in [Clients -> SaveArgs \cup Ids \cup {Null}]
         /\ knownBans' \in [Clients -> SUBSET (Hashes \X Kinds)]
         /\ CallOK'
<1>1. pc' \in [Clients -> Pcs] /\ call' \in [Clients -> SaveArgs \cup Ids \cup {Null}]
  BY DEF TypeInv, TypeOK, Finish, Pcs
<1>2. knownBans' \in [Clients -> SUBSET (Hashes \X Kinds)]
  BY DEF TypeInv, TypeOK, Finish
<1>3. CallOK'
  BY DEF TypeInv, TypeOK, CallOK, Finish, Saving
<1> QED BY <1>1, <1>2, <1>3

\* DeleteRows keeps the tables well typed, whatever rows it removes.
LEMMA DeleteRowsTyped ==
  ASSUME TypeOK, NEW S \in SUBSET Ids, DeleteRows(S)
  PROVE  /\ rows' \in [Ids -> Row \cup {Null}]
         /\ hashIndex' \in [Hashes -> Ids \cup {Null}]
         /\ burned' \subseteq Ids
         /\ banned' \in [Hashes -> Kinds \cup {Null}]
<1>1. ASSUME NEW i \in Ids, rows[i] # Null
      PROVE  [rows[i] EXCEPT !.ref = Null] \in Row
  BY <1>1 DEF TypeOK, Row
<1>2. rows' \in [Ids -> Row \cup {Null}]
  BY <1>1 DEF TypeOK, DeleteRows
<1>3. hashIndex' \in [Hashes -> Ids \cup {Null}]
  BY DEF TypeOK, DeleteRows
<1> QED BY <1>2, <1>3 DEF TypeOK, DeleteRows

\* Every statement keeps the tables and the call records well typed.
LEMMA TypeInvStep == TypeInv /\ [Next]_vars => TypeInv'
<1> SUFFICES ASSUME TypeInv, [Next]_vars PROVE TypeInv'
  OBVIOUS
<1> USE DEF tables
<1>1. ASSUME NEW c \in Clients, NEW i \in Ids, NEW b \in Blobs, NEW isPlaintext \in BOOLEAN,
             NEW burn \in BOOLEAN, NEW ttl \in TTLs,
             SaveStart(c, i, b, isPlaintext, burn, ttl)
      PROVE  TypeInv'
  <2>1. call'[c] \in SaveArgs
    BY <1>1, TTLAssumption DEF SaveStart, TypeInv, TypeOK, SaveArgs
  <2>2. TypeOK'
    BY <1>1, <2>1 DEF SaveStart, TypeInv, TypeOK, BansInForce
  <2>3. CallOK'
    BY <1>1, <2>1 DEF SaveStart, TypeInv, TypeOK, CallOK, Saving
  <2> QED BY <2>2, <2>3 DEF TypeInv
<1>2. ASSUME NEW c \in Clients, SaveCheckPlaintext(c) PROVE TypeInv'
  <2>1. CASE Finish(c)
    BY <1>2, <2>1, FinishTyped DEF SaveCheckPlaintext, TypeInv, TypeOK, Pcs
  <2>2. CASE ~Finish(c)
    BY <1>2, <2>2 DEF SaveCheckPlaintext, TypeInv, TypeOK, CallOK, Saving
  <2> QED BY <2>1, <2>2
<1>3. ASSUME NEW c \in Clients, SaveCheckHash(c) PROVE TypeInv'
  <2>1. CASE Finish(c)
    BY <1>3, <2>1, FinishTyped DEF SaveCheckHash, TypeInv, TypeOK, Pcs
  <2>2. CASE ~Finish(c)
    <3>1. call[c] \in SaveArgs /\ Clock + call[c].ttl \in Int
      BY <1>3, SavingFacts, SkewAssumption DEF SaveCheckHash, Saving, TypeInv, TypeOK, Clock
    <3>2. [call[c] EXCEPT !.expires = Clock + call[c].ttl] \in SaveArgs
      BY <3>1 DEF SaveArgs
    <3>3. /\ call' = [call EXCEPT ![c] = [call[c] EXCEPT !.expires = Clock + call[c].ttl]]
          /\ pc' = [pc EXCEPT ![c] = "tx"]
          /\ UNCHANGED <<rows, hashIndex, burned, banned, now, text, reads, knownBans>>
      BY <1>3, <2>2 DEF SaveCheckHash
    <3>4. TypeOK'
      BY <3>2, <3>3 DEF TypeInv, TypeOK
    <3>5. CallOK'
      BY <3>2, <3>3 DEF TypeInv, TypeOK, CallOK, Saving
    <3> QED BY <3>4, <3>5 DEF TypeInv
  <2> QED BY <2>1, <2>2
<1>4. ASSUME NEW c \in Clients, SaveTx(c) PROVE TypeInv'
  <2> DEFINE a == call[c]
             h == HashOf[a.blob]
  <2>1. /\ a.id \in Ids /\ a.blob \in Blobs /\ h \in Hashes
        /\ a.expires \in Int /\ a.burn \in BOOLEAN
    BY <1>4, SavingFacts DEF SaveTx, Saving
  <2>2. NewRow(a, hashIndex[h]) \in Row
    BY <2>1 DEF NewRow, Row, TypeInv, TypeOK
  <2>3. /\ rows' \in [Ids -> Row \cup {Null}]
        /\ hashIndex' \in [Hashes -> Ids \cup {Null}]
        /\ text' \in [Ids -> Blobs \cup {Null}]
    BY <1>4, <2>1, <2>2 DEF SaveTx, TypeInv, TypeOK
  <2> QED BY <1>4, <2>3, FinishTyped DEF SaveTx, TypeInv, TypeOK, Pcs
<1>5. ASSUME NEW c \in Clients, SaveError(c) PROVE TypeInv'
  BY <1>5, FinishTyped DEF SaveError, TypeInv, TypeOK, Pcs
<1>6. ASSUME NEW i \in Ids, Claim(i), reads' \in [Ids -> Nat] PROVE TypeInv'
  BY <1>6 DEF Claim, TypeInv, TypeOK, CallOK, Saving
<1>7. ASSUME NEW i \in Ids, GetPaste(i) PROVE TypeInv'
  <2>1. reads' \in [Ids -> Nat]
    BY <1>7 DEF GetPaste, TypeInv, TypeOK
  <2> QED BY <1>6, <1>7, <2>1 DEF GetPaste
<1>8. ASSUME NEW i \in Ids, GetPasteAnswerLost(i) PROVE TypeInv'
  BY <1>6, <1>8 DEF GetPasteAnswerLost, TypeInv, TypeOK
<1>9. ASSUME NEW i \in Ids, MarkBurned(i) PROVE TypeInv'
  BY <1>9 DEF MarkBurned, TypeInv, TypeOK, CallOK, Saving
<1>10. ASSUME NEW c \in Clients, NEW i \in Ids, DeletePaste(c, i) PROVE TypeInv'
  <2>1. DeleteRows({i})
    BY <1>10 DEF DeletePaste
  <2>2. /\ rows' \in [Ids -> Row \cup {Null}]
        /\ hashIndex' \in [Hashes -> Ids \cup {Null}]
        /\ burned' \subseteq Ids
        /\ banned' \in [Hashes -> Kinds \cup {Null}]
    BY <2>1, DeleteRowsTyped DEF TypeInv
  <2>3. /\ pc' \in [Clients -> Pcs]
        /\ call' \in [Clients -> SaveArgs \cup Ids \cup {Null}]
        /\ CallOK'
    BY <1>10 DEF DeletePaste, TypeInv, TypeOK, CallOK, Saving, Pcs
  <2> QED BY <1>10, <2>2, <2>3 DEF DeletePaste, TypeInv, TypeOK, Pcs
<1>11. ASSUME NEW c \in Clients, DeleteMarker(c) PROVE TypeInv'
  BY <1>11, FinishTyped DEF DeleteMarker, TypeInv, TypeOK, Pcs
<1>12. ASSUME NEW h \in Hashes, NEW kind \in Kinds, Ban(h, kind) PROVE TypeInv'
  BY <1>12 DEF Ban, TypeInv, TypeOK, CallOK, Saving
<1>13. ASSUME CleanupExpired PROVE TypeInv'
  <2> DEFINE S == {i \in Ids : rows[i] # Null /\ rows[i].expires < now}
  <2>1. S \in SUBSET Ids /\ DeleteRows(S)
    BY <1>13 DEF CleanupExpired
  <2>2. /\ rows' \in [Ids -> Row \cup {Null}]
        /\ hashIndex' \in [Hashes -> Ids \cup {Null}]
        /\ burned' \subseteq Ids
        /\ banned' \in [Hashes -> Kinds \cup {Null}]
    BY <2>1, DeleteRowsTyped DEF TypeInv
  <2> QED BY <1>13, <2>2 DEF CleanupExpired, TypeInv, TypeOK, CallOK, Saving
<1>13a. ASSUME NEW i \in Ids, DeletePasteAnswerLost(i) PROVE TypeInv'
  <2>1. DeleteRows({i})
    BY <1>13a DEF DeletePasteAnswerLost
  <2>2. /\ rows' \in [Ids -> Row \cup {Null}]
        /\ hashIndex' \in [Hashes -> Ids \cup {Null}]
        /\ burned' \subseteq Ids
        /\ banned' \in [Hashes -> Kinds \cup {Null}]
    BY <2>1, DeleteRowsTyped DEF TypeInv
  <2> QED BY <1>13a, <2>2 DEF DeletePasteAnswerLost, TypeInv, TypeOK, CallOK, Saving
<1>14. ASSUME Tick PROVE TypeInv'
  BY <1>14 DEF Tick, TypeInv, TypeOK, CallOK, Saving
<1>15. CASE UNCHANGED vars
  BY <1>15 DEF vars, TypeInv, TypeOK, CallOK, Saving
<1> QED
  BY <1>1, <1>2, <1>3, <1>4, <1>5, <1>7, <1>8, <1>9, <1>10, <1>11, <1>12, <1>13, <1>13a,
     <1>14, <1>15 DEF Next, SavePaste, BanContentHash, BanPlaintextHash, Kinds

\* Every reachable state of the tables and of the calls in progress is well typed.
THEOREM TypeCorrect == Spec => []TypeOK
<1>1. TypeInv => TypeOK
  BY DEF TypeInv
<1> QED BY <1>1, TypeInvInit, TypeInvStep, PTL DEF Spec

-----------------------------------------------------------------------------
(* The inductive invariant.  The properties of SqlStorage are not inductive *)
(* alone: a row must be known to carry the text of its id, a pending save   *)
(* to own an id nobody else stores, and a pending DeleteMarker to name an   *)
(* id whose row is gone for good.                                           *)

\* A row belongs to the id's only save, and holds its text or no content.
RowText ==
  \A i \in Ids : rows[i] # Null =>
    /\ text[i] # Null
    /\ rows[i].hash = HashOf[text[i]]
    /\ rows[i].content \in {Null, text[i]}

SaveOwnsId ==
  \A c \in Clients : Saving(c) =>
    /\ text[call[c].id] = Null
    /\ \A d \in Clients : Saving(d) /\ d # c => call[d].id # call[c].id

UnmarkGone ==
  \A c \in Clients : pc[c] = "unmark" => text[call[c]] # Null /\ rows[call[c]] = Null

ReadsStored == \A i \in Ids : reads[i] # 0 => text[i] # Null

StoreInv ==
  /\ TypeInv
  /\ ReferentialIntegrity
  /\ SingleCopy
  /\ BurnOnce
  /\ RowText
  /\ SaveOwnsId
  /\ UnmarkGone
  /\ ReadsStored

\* Bans are for good, so what a call knew banned is still banned at its checks.
BansKnown ==
  \A c \in Clients : \A hk \in knownBans[c] : banned[hk[1]] = hk[2]

PlaintextChecked ==
  \A c \in Clients : pc[c] \in {"hash", "tx"} /\ call[c].isPlaintext =>
    <<PlainHashOf[call[c].blob], "plaintext">> \notin knownBans[c]

BanInv == TypeInv /\ BansKnown /\ PlaintextChecked /\ BanChecked

LEMMA StoreInvInit == Init => StoreInv
<1> SUFFICES ASSUME Init PROVE StoreInv
  OBVIOUS
<1>1. TypeInv
  BY TypeInvInit
<1>2. ReferentialIntegrity /\ SingleCopy /\ BurnOnce
  BY DEF Init, ReferentialIntegrity, SingleCopy, BurnOnce
<1>3. RowText /\ SaveOwnsId /\ UnmarkGone /\ ReadsStored
  BY DEF Init, RowText, SaveOwnsId, UnmarkGone, ReadsStored, Saving
<1> QED BY <1>1, <1>2, <1>3 DEF StoreInv

\* The parts of StoreInv about the tables survive a step that leaves the rows,
\* the index, the texts and the reads alone and only adds markers of stored rows.
LEMMA TablesKept ==
  ASSUME StoreInv, UNCHANGED <<rows, hashIndex, text, reads>>,
         burned \subseteq burned', \A i \in burned' : rows[i] # Null
  PROVE  ReferentialIntegrity' /\ SingleCopy' /\ BurnOnce' /\ RowText' /\ ReadsStored'
BY DEF StoreInv, ReferentialIntegrity, SingleCopy, BurnOnce, RowText, ReadsStored

\* The parts of StoreInv about the calls survive the end of a call.
LEMMA FinishKeepsCalls ==
  ASSUME StoreInv, NEW c \in Clients, Finish(c), UNCHANGED <<rows, text>>
  PROVE  SaveOwnsId' /\ UnmarkGone'
BY DEF StoreInv, TypeInv, TypeOK, Finish, SaveOwnsId, UnmarkGone, Saving

\* Deleting rows keeps the tables consistent: the cascades remove what pointed
\* at a deleted row, and no text and no read is forgotten.
LEMMA DeleteRowsKeepsTables ==
  ASSUME StoreInv, NEW S \in SUBSET Ids, DeleteRows(S), UNCHANGED <<text, reads>>
  PROVE  ReferentialIntegrity' /\ SingleCopy' /\ BurnOnce' /\ RowText' /\ ReadsStored'
<1>1. ASSUME NEW i \in Ids, rows'[i] # Null
      PROVE  /\ i \notin S
             /\ rows[i] # Null
             /\ rows'[i].content = rows[i].content
             /\ rows'[i].hash = rows[i].hash
             /\ rows'[i].ref = IF rows[i].ref \in S THEN Null ELSE rows[i].ref
  BY <1>1 DEF DeleteRows, StoreInv, TypeInv, TypeOK, Row
<1>2. ASSUME NEW i \in Ids, i \notin S, rows[i] # Null
      PROVE  rows'[i] # Null
  BY <1>2, NullAssumption DEF DeleteRows, StoreInv, TypeInv, TypeOK, Row
<1>3. /\ \A h \in Hashes :
           hashIndex'[h] = IF hashIndex[h] \in S THEN Null ELSE hashIndex[h]
      /\ burned' = burned \ S
  BY DEF DeleteRows, StoreInv, TypeInv, TypeOK
<1>4. ReferentialIntegrity'
  <2>1. \A i \in burned' : rows'[i] # Null
    BY <1>2, <1>3 DEF StoreInv, ReferentialIntegrity, TypeInv, TypeOK
  <2>2. ASSUME NEW h \in Hashes, hashIndex'[h] # Null
        PROVE  /\ rows'[hashIndex'[h]] # Null
               /\ rows'[hashIndex'[h]].hash = h
               /\ rows'[hashIndex'[h]].content # Null
    <3>1. hashIndex'[h] = hashIndex[h] /\ hashIndex[h] \in Ids \ S
      BY <1>3, <2>2 DEF StoreInv, TypeInv, TypeOK
    <3> QED BY <1>1, <1>2, <2>2, <3>1 DEF StoreInv, ReferentialIntegrity
  <2>3. ASSUME NEW i \in Ids, rows'[i] # Null, rows'[i].ref # Null
        PROVE  /\ rows'[i].content = Null
               /\ rows'[rows'[i].ref] # Null
               /\ rows'[rows'[i].ref].hash = rows'[i].hash
               /\ rows'[rows'[i].ref].content # Null
    <3>1. rows'[i].ref = rows[i].ref /\ rows[i].ref \in Ids \ S
      BY <1>1, <2>3 DEF StoreInv, TypeInv, TypeOK, Row
    <3> QED BY <1>1, <1>2, <2>3, <3>1 DEF StoreInv, ReferentialIntegrity
  <2> QED BY <2>1, <2>2, <2>3 DEF ReferentialIntegrity
<1>5. SingleCopy'
  BY <1>1, <1>3 DEF StoreInv, SingleCopy, TypeInv, TypeOK, Row
<1>6. BurnOnce'
  BY <1>1, <1>3 DEF StoreInv, BurnOnce, DeleteRows
<1>7. RowText'
  BY <1>1 DEF StoreInv, RowText
<1>8. ReadsStored'
  BY DEF StoreInv, ReadsStored
<1> QED BY <1>4, <1>5, <1>6, <1>7, <1>8

\* Deleting rows cannot disturb the calls in progress.
LEMMA DeleteRowsKeepsCalls ==
  ASSUME StoreInv, NEW S \in SUBSET Ids, DeleteRows(S), UNCHANGED <<pc, call, text>>
  PROVE  SaveOwnsId' /\ UnmarkGone'
BY DEF StoreInv, TypeInv, TypeOK, CallOK, DeleteRows, SaveOwnsId, UnmarkGone, Saving

\* The save transaction: the new row takes an id nobody else owns; it either
\* holds the content, and the index had no entry, or points at the index's row.
LEMMA SaveTxKeeps ==
  ASSUME StoreInv, NEW c \in Clients, SaveTx(c)
  PROVE  /\ ReferentialIntegrity' /\ SingleCopy' /\ BurnOnce' /\ RowText'
         /\ SaveOwnsId' /\ UnmarkGone' /\ ReadsStored'
<1> DEFINE a == call[c]
           h == HashOf[a.blob]
           j == hashIndex[h]
<1>1. a.id \in Ids /\ a.blob \in Blobs /\ h \in Hashes /\ j \in Ids \cup {Null}
      /\ a.blob # Null
  BY SavingFacts, IdsAssumption DEF SaveTx, Saving, StoreInv, TypeInv, TypeOK
<1>2. text[a.id] = Null
  BY DEF SaveTx, Saving, StoreInv, SaveOwnsId
<1>3. rows[a.id] = Null /\ j # a.id /\ a.id \notin burned /\ reads[a.id] = 0
  <2>1. rows[a.id] = Null
    BY <1>1, <1>2 DEF StoreInv, RowText
  <2>2. a.id \notin burned
    BY <2>1 DEF StoreInv, ReferentialIntegrity
  <2>3. j # a.id
    BY <1>1, <2>1, IdsAssumption DEF StoreInv, ReferentialIntegrity
  <2>4. reads[a.id] = 0
    BY <1>1, <1>2 DEF StoreInv, ReadsStored
  <2> QED BY <2>1, <2>2, <2>3, <2>4
<1>4. /\ rows' = [rows EXCEPT ![a.id] = NewRow(a, j)]
      /\ hashIndex' = [hashIndex EXCEPT ![h] = IF j = Null THEN a.id ELSE j]
      /\ text' = [text EXCEPT ![a.id] = a.blob]
      /\ UNCHANGED <<burned, reads>>
      /\ Finish(c)
  BY DEF SaveTx
<1>5. /\ NewRow(a, j) # Null
      /\ NewRow(a, j).hash = h
      /\ NewRow(a, j).ref = j
      /\ NewRow(a, j).content = IF j = Null THEN a.blob ELSE Null
  <2>1. NewRow(a, j) \in Row
    BY <1>1, SavingFacts DEF NewRow, Row, SaveTx, Saving, StoreInv
  <2> QED BY <2>1, NullAssumption DEF NewRow
<1>6. /\ \A i \in Ids : i # a.id => rows'[i] = rows[i] /\ text'[i] = text[i]
      /\ rows'[a.id] = NewRow(a, j) /\ text'[a.id] = a.blob
      /\ \A g \in Hashes : g # h => hashIndex'[g] = hashIndex[g]
      /\ hashIndex'[h] = IF j = Null THEN a.id ELSE j
  BY <1>1, <1>4 DEF StoreInv, TypeInv, TypeOK
<1> HIDE DEF a, h, j
<1>7. \A i \in Ids : rows[i] # Null => i # a.id
  BY <1>3
<1>8. j # Null => rows[j] # Null /\ rows[j].hash = h /\ rows[j].content # Null
  BY <1>1 DEF StoreInv, ReferentialIntegrity, j
<1>9. ReferentialIntegrity'
  <2>1. \A i \in burned' : rows'[i] # Null
    BY <1>3, <1>4, <1>6 DEF StoreInv, ReferentialIntegrity, TypeInv, TypeOK
  <2>2. ASSUME NEW g \in Hashes, hashIndex'[g] # Null
        PROVE  /\ rows'[hashIndex'[g]] # Null
               /\ rows'[hashIndex'[g]].hash = g
               /\ rows'[hashIndex'[g]].content # Null
    <3>1. CASE g # h
      <4>1. hashIndex[g] \in Ids /\ rows[hashIndex[g]] # Null
        BY <1>6, <2>2, <3>1 DEF StoreInv, ReferentialIntegrity, TypeInv, TypeOK
      <4> QED BY <1>6, <1>7, <2>2, <3>1, <4>1 DEF StoreInv, ReferentialIntegrity
    <3>2. CASE g = h /\ j = Null
      BY <1>1, <1>5, <1>6, <3>2
    <3>3. CASE g = h /\ j # Null
      BY <1>1, <1>6, <1>7, <1>8, <3>3
    <3> QED BY <3>1, <3>2, <3>3
  <2>3. ASSUME NEW i \in Ids, rows'[i] # Null, rows'[i].ref # Null
        PROVE  /\ rows'[i].content = Null
               /\ rows'[rows'[i].ref] # Null
               /\ rows'[rows'[i].ref].hash = rows'[i].hash
               /\ rows'[rows'[i].ref].content # Null
    <3>1. CASE i = a.id
      BY <1>1, <1>5, <1>6, <1>7, <1>8, <2>3, <3>1
    <3>2. CASE i # a.id
      <4>1. rows[i].ref \in Ids /\ rows[rows[i].ref] # Null
        BY <1>6, <2>3, <3>2 DEF StoreInv, ReferentialIntegrity, TypeInv, TypeOK, Row
      <4> QED BY <1>6, <1>7, <2>3, <3>2, <4>1 DEF StoreInv, ReferentialIntegrity
    <3> QED BY <3>1, <3>2
  <2> QED BY <2>1, <2>2, <2>3 DEF ReferentialIntegrity
<1>10. SingleCopy'
  <2> SUFFICES ASSUME NEW i \in Ids, rows'[i] # Null, rows'[i].content # Null
               PROVE  hashIndex'[rows'[i].hash] = i
    BY DEF SingleCopy
  <2>1. CASE i = a.id
    BY <1>5, <1>6, <2>1
  <2>2. CASE i # a.id
    <3>1. rows[i] # Null /\ rows'[i] = rows[i] /\ rows[i].hash \in Hashes
      BY <1>6, <2>2 DEF StoreInv, TypeInv, TypeOK, Row
    <3>2. hashIndex[rows[i].hash] = i
      BY <3>1 DEF StoreInv, SingleCopy
    <3>3. CASE rows[i].hash = h
      BY <1>6, <3>1, <3>2, <3>3, IdsAssumption DEF j
    <3>4. CASE rows[i].hash # h
      BY <1>6, <3>1, <3>2, <3>4
    <3> QED BY <3>3, <3>4
  <2> QED BY <2>1, <2>2
<1>11. BurnOnce' /\ ReadsStored'
  BY <1>1, <1>3, <1>4, <1>6 DEF StoreInv, BurnOnce, ReadsStored
<1>12. RowText'
  <2> SUFFICES ASSUME NEW i \in Ids, rows'[i] # Null
               PROVE  /\ text'[i] # Null
                      /\ rows'[i].hash = HashOf[text'[i]]
                      /\ rows'[i].content \in {Null, text'[i]}
    BY DEF RowText
  <2>1. CASE i = a.id
    BY <1>1, <1>5, <1>6, <2>1 DEF h
  <2>2. CASE i # a.id
    BY <1>6, <2>2 DEF StoreInv, RowText
  <2> QED BY <2>1, <2>2
<1>13. SaveOwnsId'
  <2> SUFFICES ASSUME NEW d \in Clients, Saving(d)'
               PROVE  /\ text'[call'[d].id] = Null
                      /\ \A e \in Clients : Saving(e)' /\ e # d => call'[e].id # call'[d].id
    BY DEF SaveOwnsId
  <2>1. ASSUME NEW e \in Clients, Saving(e)'
        PROVE  e # c /\ Saving(e) /\ call'[e] = call[e]
    BY <1>4, <2>1 DEF Finish, Saving, StoreInv, TypeInv, TypeOK
  <2>2. Saving(c)
    BY DEF SaveTx, Saving
  <2>3. call[d].id # a.id /\ text[call[d].id] = Null /\ call[d].id \in Ids
    BY <2>1, <2>2, SavingFacts DEF StoreInv, SaveOwnsId, a
  <2>4. \A e \in Clients : Saving(e)' /\ e # d => call'[e].id # call'[d].id
    BY <2>1 DEF StoreInv, SaveOwnsId
  <2> QED BY <1>6, <2>1, <2>3, <2>4
<1>14. UnmarkGone'
  BY <1>2, <1>4, <1>6 DEF StoreInv, UnmarkGone, Finish, TypeInv, TypeOK, CallOK, a
<1> QED BY <1>9, <1>10, <1>11, <1>12, <1>13, <1>14

\* Every statement of every call keeps StoreInv.
LEMMA StoreInvStep == StoreInv /\ [Next]_vars => StoreInv'
<1> SUFFICES ASSUME StoreInv, [Next]_vars PROVE StoreInv'
  OBVIOUS
<1> USE DEF tables
<1> DEFINE Tables == ReferentialIntegrity /\ SingleCopy /\ BurnOnce /\ RowText /\ ReadsStored
           Calls  == SaveOwnsId /\ UnmarkGone
<1>0. TypeInv'
  BY TypeInvStep DEF StoreInv
<1>0a. \A i \in burned : rows[i] # Null
  BY DEF StoreInv, ReferentialIntegrity
<1>1. ASSUME NEW c \in Clients, NEW i \in Ids, NEW b \in Blobs, NEW isPlaintext \in BOOLEAN,
             NEW burn \in BOOLEAN, NEW ttl \in TTLs,
             SaveStart(c, i, b, isPlaintext, burn, ttl)
      PROVE  Tables' /\ Calls'
  <2>1. Tables'
    BY <1>1, <1>0a, TablesKept DEF SaveStart
  <2>2. call'[c].id = i /\ \A d \in Clients : d # c => call'[d] = call[d] /\ pc'[d] = pc[d]
    BY <1>1 DEF SaveStart, StoreInv, TypeInv, TypeOK
  <2>3. SaveOwnsId'
    BY <1>1, <2>2 DEF SaveStart, Fresh, StoreInv, SaveOwnsId, Saving
  <2>4. UnmarkGone'
    BY <1>1, <2>2 DEF SaveStart, StoreInv, UnmarkGone, TypeInv, TypeOK
  <2> QED BY <2>1, <2>3, <2>4
<1>2. ASSUME NEW c \in Clients, SaveCheckPlaintext(c) PROVE Tables' /\ Calls'
  <2>1. Tables'
    BY <1>2, <1>0a, TablesKept DEF SaveCheckPlaintext
  <2>2. CASE Finish(c)
    BY <1>2, <2>1, <2>2, FinishKeepsCalls DEF SaveCheckPlaintext
  <2>3. CASE ~Finish(c)
    BY <1>2, <2>1, <2>3 DEF SaveCheckPlaintext, StoreInv, TypeInv, TypeOK, SaveOwnsId,
       UnmarkGone, Saving
  <2> QED BY <2>2, <2>3
<1>3. ASSUME NEW c \in Clients, SaveCheckHash(c) PROVE Tables' /\ Calls'
  <2>1. Tables'
    BY <1>3, <1>0a, TablesKept DEF SaveCheckHash
  <2>2. CASE Finish(c)
    BY <1>3, <2>1, <2>2, FinishKeepsCalls DEF SaveCheckHash
  <2>3. CASE ~Finish(c)
    <3>1. call[c] \in SaveArgs
      BY <1>3, SavingFacts DEF SaveCheckHash, Saving, StoreInv
    <3>2. /\ call'[c].id = call[c].id
          /\ \A d \in Clients : d # c => call'[d] = call[d] /\ pc'[d] = pc[d]
      BY <1>3, <2>3, <3>1 DEF SaveCheckHash, SaveArgs, StoreInv, TypeInv, TypeOK
    <3>3. SaveOwnsId'
      BY <1>3, <3>2 DEF SaveCheckHash, StoreInv, SaveOwnsId, Saving
    <3>4. UnmarkGone'
      BY <1>3, <2>3, <3>2 DEF SaveCheckHash, StoreInv, UnmarkGone, TypeInv, TypeOK
    <3> QED BY <2>1, <3>3, <3>4
  <2> QED BY <2>2, <2>3
<1>4. ASSUME NEW c \in Clients, SaveTx(c) PROVE Tables' /\ Calls'
  BY <1>4, SaveTxKeeps
<1>5. ASSUME NEW c \in Clients, SaveError(c) PROVE Tables' /\ Calls'
  BY <1>5, <1>0a, TablesKept, FinishKeepsCalls DEF SaveError
<1>6. ASSUME NEW i \in Ids, GetPaste(i) PROVE Tables' /\ Calls'
  <2>1. i \notin burned /\ rows[i] # Null /\ text[i] # Null
    BY <1>6 DEF GetPaste, Claim, GetResult, Visible, StoreInv, RowText
  <2>2. reads[i] = 0
    BY <2>1 DEF StoreInv, BurnOnce, TypeInv, TypeOK
  <2>3. Tables'
    BY <1>6, <2>1, <2>2 DEF GetPaste, Claim, StoreInv, ReferentialIntegrity, SingleCopy,
       BurnOnce, RowText, ReadsStored, TypeInv, TypeOK
  <2> QED BY <1>6, <2>3 DEF GetPaste, Claim, StoreInv, SaveOwnsId, UnmarkGone, Saving
<1>7. ASSUME NEW i \in Ids, GetPasteAnswerLost(i) PROVE Tables' /\ Calls'
  <2>1. rows[i] # Null
    BY <1>7 DEF GetPasteAnswerLost, Claim, GetResult, Visible
  <2>2. Tables'
    BY <1>7, <1>0a, <2>1, TablesKept DEF GetPasteAnswerLost, Claim
  <2> QED BY <1>7, <2>2 DEF GetPasteAnswerLost, Claim, StoreInv, SaveOwnsId, UnmarkGone, Saving
<1>8. ASSUME NEW i \in Ids, MarkBurned(i) PROVE Tables' /\ Calls'
  <2>1. Tables'
    BY <1>8, <1>0a, TablesKept DEF MarkBurned
  <2> QED BY <1>8, <2>1 DEF MarkBurned, StoreInv, SaveOwnsId, UnmarkGone, Saving
<1>9. ASSUME NEW c \in Clients, NEW i \in Ids, DeletePaste(c, i) PROVE Tables' /\ Calls'
  <2>1. DeleteRows({i}) /\ UNCHANGED <<text, reads>>
    BY <1>9 DEF DeletePaste
  <2>2. Tables'
    BY <2>1, DeleteRowsKeepsTables
  <2>3. rows'[i] = Null /\ \A j \in Ids : rows[j] = Null => rows'[j] = Null
    BY <2>1 DEF DeleteRows
  <2>4. CASE Remote
    <3>1. /\ pc' = [pc EXCEPT ![c] = "unmark"] /\ call' = [call EXCEPT ![c] = i]
          /\ pc[c] = "idle" /\ text[i] # Null
      BY <1>9, <2>4 DEF DeletePaste, Stored
    <3>2. SaveOwnsId'
      BY <2>1, <3>1 DEF StoreInv, SaveOwnsId, Saving, TypeInv, TypeOK
    <3>3. UnmarkGone'
      BY <2>1, <2>3, <3>1 DEF StoreInv, UnmarkGone, TypeInv, TypeOK, CallOK
    <3> QED BY <2>2, <3>2, <3>3
  <2>5. CASE ~Remote
    BY <1>9, <2>1, <2>2, <2>5, DeleteRowsKeepsCalls DEF DeletePaste
  <2> QED BY <2>4, <2>5
<1>10. ASSUME NEW c \in Clients, DeleteMarker(c) PROVE Tables' /\ Calls'
  <2>1. call[c] \in Ids /\ rows[call[c]] = Null
    BY <1>10 DEF DeleteMarker, StoreInv, UnmarkGone, TypeInv, CallOK
  <2>2. call[c] \notin burned
    BY <2>1 DEF StoreInv, ReferentialIntegrity
  <2>3. burned' = burned
    BY <1>10, <2>2 DEF DeleteMarker
  <2> QED BY <1>10, <1>0a, <2>3, TablesKept, FinishKeepsCalls DEF DeleteMarker
<1>11. ASSUME NEW h \in Hashes, NEW kind \in Kinds, Ban(h, kind) PROVE Tables' /\ Calls'
  <2>1. Tables'
    BY <1>11, <1>0a, TablesKept DEF Ban
  <2> QED BY <1>11, <2>1 DEF Ban, StoreInv, SaveOwnsId, UnmarkGone, Saving
<1>12. ASSUME CleanupExpired PROVE Tables' /\ Calls'
  <2> DEFINE S == {i \in Ids : rows[i] # Null /\ rows[i].expires < now}
  <2>1. S \in SUBSET Ids /\ DeleteRows(S) /\ UNCHANGED <<text, reads, pc, call>>
    BY <1>12 DEF CleanupExpired
  <2> HIDE DEF S
  <2> QED BY <2>1, DeleteRowsKeepsTables, DeleteRowsKeepsCalls
<1>12a. ASSUME NEW i \in Ids, DeletePasteAnswerLost(i) PROVE Tables' /\ Calls'
  BY <1>12a, DeleteRowsKeepsTables, DeleteRowsKeepsCalls DEF DeletePasteAnswerLost
<1>13. ASSUME Tick PROVE Tables' /\ Calls'
  <2>1. Tables'
    BY <1>13, <1>0a, TablesKept DEF Tick
  <2> QED BY <1>13, <2>1 DEF Tick, StoreInv, SaveOwnsId, UnmarkGone, Saving
<1>14. ASSUME UNCHANGED vars PROVE Tables' /\ Calls'
  <2>1. Tables'
    BY <1>14, <1>0a, TablesKept DEF vars
  <2> QED BY <1>14, <2>1 DEF vars, StoreInv, SaveOwnsId, UnmarkGone, Saving
<1>15. Tables' /\ Calls'
  BY <1>1, <1>2, <1>3, <1>4, <1>5, <1>6, <1>7, <1>8, <1>9, <1>10, <1>11, <1>12, <1>12a,
     <1>13, <1>14 DEF Next, SavePaste, BanContentHash, BanPlaintextHash, Kinds
<1> QED BY <1>0, <1>15 DEF StoreInv

LEMMA StoreInvAlways == Spec => []StoreInv
BY StoreInvInit, StoreInvStep, PTL DEF Spec

\* What the foreign keys do not say, the statements keep: one hop from every
\* reference to content of the same digest.
THEOREM ReferencesResolve == Spec => []ReferentialIntegrity
<1>1. StoreInv => ReferentialIntegrity
  BY DEF StoreInv
<1> QED BY <1>1, StoreInvAlways, PTL

\* Concurrent saves of the same content store it once.
THEOREM ContentStoredOnce == Spec => []SingleCopy
<1>1. StoreInv => SingleCopy
  BY DEF StoreInv
<1> QED BY <1>1, StoreInvAlways, PTL

\* No interleaving of calls returns a burn-after-read paste's content twice.
THEOREM AtMostOneReader == Spec => []BurnOnce
<1>1. StoreInv => BurnOnce
  BY DEF StoreInv
<1> QED BY <1>1, StoreInvAlways, PTL

\* ContentIntegrity follows from StoreInv: two rows of one digest have one text.
LEMMA ContentOfText ==
  ASSUME StoreInv, NEW i \in Ids, rows[i] # Null
  PROVE  /\ ContentOf(i) \in {Null, text[i]}
         /\ rows[i].ref # Null => ContentOf(i) = text[i]
         /\ rows[i].ref = Null => ContentOf(i) = rows[i].content
<1>1. CASE rows[i].ref = Null
  BY <1>1 DEF ContentOf, StoreInv, RowText
<1>2. CASE rows[i].ref # Null
  <2> DEFINE j == rows[i].ref
  <2>1. j \in Ids /\ rows[j] # Null /\ rows[j].hash = rows[i].hash /\ rows[j].content # Null
    BY <1>2 DEF StoreInv, ReferentialIntegrity, TypeInv, TypeOK, Row
  <2>2. rows[j].content = text[j] /\ HashOf[text[j]] = HashOf[text[i]]
        /\ text[i] \in Blobs /\ text[j] \in Blobs
    BY <2>1 DEF StoreInv, RowText, TypeInv, TypeOK
  <2>3. text[j] = text[i]
    BY <2>2, HashAssumption
  <2> QED BY <1>2, <2>1, <2>2, <2>3 DEF ContentOf
<1> QED BY <1>1, <1>2

LEMMA ContentIntact == StoreInv => ContentIntegrity
BY ContentOfText DEF ContentIntegrity

LEMMA ContentIntactNext == StoreInv' => ContentIntegrity'
BY ContentIntact, PTL

\* A reader is never handed another paste's content.
THEOREM ReadersGetTheirText == Spec => []ContentIntegrity
BY ContentIntact, StoreInvAlways, PTL

-----------------------------------------------------------------------------
(* Ban enforcement.                                                        *)

LEMMA BanInvInit == Init => BanInv
BY TypeInvInit DEF Init, BanInv, BansKnown, PlaintextChecked, BanChecked

\* A step that ends call c, or leaves the calls alone, keeps the ban facts: a
\* ban in force stays in force under its type.
LEMMA BanFactsKept ==
  ASSUME BanInv, \A h \in Hashes : banned[h] # Null => banned'[h] = banned[h],
         \/ UNCHANGED <<pc, call, knownBans>>
         \/ \E c \in Clients : Finish(c)
         \/ \E c \in Clients :
              /\ pc[c] = "idle" /\ knownBans' = knownBans
              /\ \A d \in Clients \ {c} : pc'[d] = pc[d] /\ call'[d] = call[d]
              /\ pc'[c] \notin {"plain", "hash", "tx"}
  PROVE  BansKnown' /\ PlaintextChecked' /\ BanChecked'
<1>1. ASSUME NEW c \in Clients, NEW hk \in knownBans[c]
      PROVE  banned'[hk[1]] = hk[2]
  <2>1. hk[1] \in Hashes /\ hk[2] \in Kinds /\ banned[hk[1]] = hk[2]
    BY <1>1 DEF BanInv, BansKnown, TypeInv, TypeOK
  <2> QED BY <2>1, IdsAssumption
<1>2. ASSUME NEW c \in Clients
      PROVE  knownBans'[c] \subseteq knownBans[c]
  BY DEF BanInv, TypeInv, TypeOK, Finish
<1>3. BansKnown'
  BY <1>1, <1>2 DEF BansKnown
<1>4. ASSUME NEW c \in Clients, pc'[c] \in {"hash", "tx"}
      PROVE  pc[c] = pc'[c] /\ call'[c] = call[c] /\ knownBans'[c] = knownBans[c]
  BY <1>4 DEF BanInv, TypeInv, TypeOK, Finish
<1>5. PlaintextChecked'
  BY <1>4 DEF BanInv, PlaintextChecked
<1>6. BanChecked'
  BY <1>4 DEF BanInv, BanChecked
<1> QED BY <1>3, <1>5, <1>6

LEMMA BanInvStep == BanInv /\ [Next]_vars => BanInv'
<1> SUFFICES ASSUME BanInv, [Next]_vars PROVE BanInv'
  OBVIOUS
<1> USE DEF tables
<1> DEFINE Facts == BansKnown /\ PlaintextChecked /\ BanChecked
<1>0. TypeInv'
  BY TypeInvStep DEF BanInv
<1>1. ASSUME NEW c \in Clients, NEW i \in Ids, NEW b \in Blobs, NEW isPlaintext \in BOOLEAN,
             NEW burn \in BOOLEAN, NEW ttl \in TTLs,
             SaveStart(c, i, b, isPlaintext, burn, ttl)
      PROVE  Facts'
  <2>1. /\ \A d \in Clients : d # c => /\ pc'[d] = pc[d] /\ call'[d] = call[d]
                                       /\ knownBans'[d] = knownBans[d]
        /\ knownBans'[c] = BansInForce
        /\ pc'[c] = IF isPlaintext THEN "plain" ELSE "hash"
        /\ call'[c].isPlaintext = isPlaintext
        /\ banned' = banned
    BY <1>1 DEF SaveStart, BanInv, TypeInv, TypeOK
  <2>2. BansKnown'
    BY <2>1 DEF BanInv, BansKnown, BansInForce
  <2>3. PlaintextChecked'
    BY <2>1 DEF BanInv, PlaintextChecked
  <2>4. BanChecked'
    BY <2>1 DEF BanInv, BanChecked
  <2> QED BY <2>2, <2>3, <2>4
<1>2. ASSUME NEW c \in Clients, SaveCheckPlaintext(c) PROVE Facts'
  <2>1. CASE Finish(c)
    BY <1>2, <2>1, BanFactsKept DEF SaveCheckPlaintext
  <2>2. CASE ~Finish(c)
    <3>1. /\ banned[PlainHashOf[call[c].blob]] # "plaintext"
          /\ pc' = [pc EXCEPT ![c] = "hash"]
          /\ UNCHANGED <<call, knownBans, banned>>
      BY <1>2, <2>2 DEF SaveCheckPlaintext, IsBanned
    <3>2. <<PlainHashOf[call[c].blob], "plaintext">> \notin knownBans[c]
      BY <3>1 DEF BanInv, BansKnown
    <3>3. BansKnown'
      BY <3>1 DEF BanInv, BansKnown
    <3>4. PlaintextChecked'
      BY <3>1, <3>2 DEF BanInv, PlaintextChecked, TypeInv, TypeOK
    <3>5. BanChecked'
      BY <3>1 DEF BanInv, BanChecked, TypeInv, TypeOK
    <3> QED BY <3>3, <3>4, <3>5
  <2> QED BY <2>1, <2>2
<1>3. ASSUME NEW c \in Clients, SaveCheckHash(c) PROVE Facts'
  <2>1. CASE Finish(c)
    BY <1>3, <2>1, BanFactsKept DEF SaveCheckHash
  <2>2. CASE ~Finish(c)
    <3>0. call[c] \in SaveArgs
      BY <1>3, SavingFacts DEF SaveCheckHash, Saving, BanInv
    <3>1. /\ banned[HashOf[call[c].blob]] # "ciphertext"
          /\ pc[c] = "hash"
          /\ pc' = [pc EXCEPT ![c] = "tx"]
          /\ call' = [call EXCEPT ![c].expires = Clock + call[c].ttl]
          /\ UNCHANGED <<knownBans, banned>>
      BY <1>3, <2>2 DEF SaveCheckHash, IsBanned
    <3>2. <<HashOf[call[c].blob], "ciphertext">> \notin knownBans[c]
      BY <3>1 DEF BanInv, BansKnown
    <3>3. /\ call'[c].blob = call[c].blob /\ call'[c].isPlaintext = call[c].isPlaintext
          /\ \A d \in Clients : d # c => call'[d] = call[d] /\ pc'[d] = pc[d]
      BY <3>0, <3>1 DEF BanInv, TypeInv, TypeOK, SaveArgs
    <3>4. BansKnown'
      BY <3>1 DEF BanInv, BansKnown
    <3>5. PlaintextChecked'
      BY <3>1, <3>3 DEF BanInv, PlaintextChecked, TypeInv, TypeOK
    <3>6. BanChecked'
      BY <3>1, <3>2, <3>3 DEF BanInv, BanChecked, PlaintextChecked, TypeInv, TypeOK
    <3> QED BY <3>4, <3>5, <3>6
  <2> QED BY <2>1, <2>2
<1>4. ASSUME NEW c \in Clients, SaveTx(c) PROVE Facts'
  BY <1>4, BanFactsKept DEF SaveTx
<1>5. ASSUME NEW c \in Clients, SaveError(c) PROVE Facts'
  BY <1>5, BanFactsKept DEF SaveError
<1>6. ASSUME NEW i \in Ids, GetPaste(i) \/ GetPasteAnswerLost(i) \/ MarkBurned(i) PROVE Facts'
  BY <1>6, BanFactsKept DEF GetPaste, GetPasteAnswerLost, Claim, MarkBurned
<1>7. ASSUME NEW c \in Clients, NEW i \in Ids, DeletePaste(c, i) PROVE Facts'
  <2>1. banned' = banned /\ pc[c] = "idle" /\ knownBans' = knownBans
    BY <1>7 DEF DeletePaste, DeleteRows
  <2>2. \/ UNCHANGED <<pc, call, knownBans>>
        \/ /\ pc'[c] = "unmark"
           /\ \A d \in Clients \ {c} : pc'[d] = pc[d] /\ call'[d] = call[d]
    BY <1>7 DEF DeletePaste, BanInv, TypeInv, TypeOK
  <2> QED BY <2>1, <2>2, BanFactsKept
<1>8. ASSUME NEW c \in Clients, DeleteMarker(c) PROVE Facts'
  BY <1>8, BanFactsKept DEF DeleteMarker
<1>9. ASSUME NEW h \in Hashes, NEW kind \in Kinds, Ban(h, kind) PROVE Facts'
  <2>1. \A g \in Hashes : banned[g] # Null => banned'[g] = banned[g]
    BY <1>9 DEF Ban, BanInv, TypeInv, TypeOK
  <2> QED BY <1>9, <2>1, BanFactsKept DEF Ban
<1>10. ASSUME CleanupExpired \/ Tick PROVE Facts'
  BY <1>10, BanFactsKept DEF CleanupExpired, DeleteRows, Tick
<1>10a. ASSUME NEW i \in Ids, DeletePasteAnswerLost(i) PROVE Facts'
  BY <1>10a, BanFactsKept DEF DeletePasteAnswerLost, DeleteRows
<1>11. ASSUME UNCHANGED vars PROVE Facts'
  BY <1>11, BanFactsKept DEF vars
<1>12. Facts'
  BY <1>1, <1>2, <1>3, <1>4, <1>5, <1>6, <1>7, <1>8, <1>9, <1>10, <1>10a,
     <1>11 DEF Next, SavePaste, BanContentHash, BanPlaintextHash, Kinds
<1> QED BY <1>0, <1>12 DEF BanInv

\* Content banned before a save began never reaches the save's transaction.
THEOREM BansEnforced == Spec => []BanChecked
<1>1. BanInv => BanChecked
  BY DEF BanInv
<1> QED BY <1>1, BanInvInit, BanInvStep, PTL DEF Spec

-----------------------------------------------------------------------------
(* The tables implement PasteStore.                                        *)

\* A step that only takes pastes from view is the store's Hide.
LEMMA HidingStep ==
  ASSUME UNCHANGED <<text, reads>>,
         \A i \in Ids : Shown'[i] \in {Null, Shown[i]}
  PROVE  PS!StoreNext
<1> DEFINE S == {i \in Ids : Shown'[i] = Null}
<1>1. S \in SUBSET Ids
  OBVIOUS
<1>2. Shown' = [i \in Ids |-> IF i \in S THEN Null ELSE Shown[i]]
  BY DEF Shown
<1>3. PS!Hide(S)
  BY <1>2 DEF PS!Hide
<1> QED BY <1>1, <1>3 DEF PS!StoreNext

\* A step that leaves rows, markers, clock and history alone is a stutter.
LEMMA StutterStep ==
  ASSUME UNCHANGED <<rows, burned, now, text, reads>>
  PROVE  UNCHANGED PS!storeVars
BY DEF PS!storeVars, Shown, Visible, ContentOf

\* Deleting rows shows no reader anything new.
LEMMA DeleteRowsHides ==
  ASSUME StoreInv, NEW S \in SUBSET Ids, DeleteRows(S), now' = now
  PROVE  \A i \in Ids : Shown'[i] \in {Null, Shown[i]}
<1> SUFFICES ASSUME NEW i \in Ids, Shown'[i] # Null PROVE Shown'[i] = Shown[i]
  OBVIOUS
<1>1. i \notin burned' /\ rows'[i] # Null /\ rows'[i].expires > now
      /\ Shown'[i] = ContentOf(i)'
  BY DEF Shown, Visible
<1>2. i \notin S /\ rows[i] # Null /\ i \notin burned
  BY <1>1 DEF DeleteRows
<1>3. rows[i] \in Row
  BY <1>2 DEF StoreInv, TypeInv, TypeOK
<1>4. CASE rows[i].ref \in S
  <2>1. rows[i].content = Null
    BY <1>2, <1>4, IdsAssumption DEF StoreInv, ReferentialIntegrity
  <2>2. rows'[i].ref = Null /\ rows'[i].content = Null
    BY <1>2, <1>3, <1>4, <2>1 DEF DeleteRows, Row
  <2> QED BY <1>1, <2>2 DEF ContentOf
<1>5. CASE rows[i].ref \notin S
  <2>1. rows'[i] = rows[i]
    BY <1>2, <1>5 DEF DeleteRows
  <2>2. Visible(i)
    BY <1>1, <1>2, <2>1 DEF Visible
  <2>3. CASE rows[i].ref = Null
    BY <1>1, <1>2, <2>1, <2>2, <2>3 DEF Shown, ContentOf
  <2>4. CASE rows[i].ref # Null
    <3> DEFINE j == rows[i].ref
    <3>1. j \in Ids /\ j \notin S /\ rows[j] # Null
      BY <1>2, <1>3, <1>5, <2>4 DEF Row, StoreInv, ReferentialIntegrity
    <3>2. rows'[j] # Null => rows'[j].content = rows[j].content
      BY <3>1 DEF DeleteRows, StoreInv, TypeInv, TypeOK, Row
    <3> QED BY <1>1, <1>2, <2>1, <2>2, <2>4, <3>1, <3>2 DEF Shown, ContentOf
  <2> QED BY <2>3, <2>4
<1> QED BY <1>4, <1>5

\* A new marker takes its paste from view and no other.
LEMMA MarkerHides ==
  ASSUME NEW i \in Ids, burned' = burned \cup {i}, UNCHANGED <<rows, now>>
  PROVE  /\ \A k \in Ids : Shown'[k] \in {Null, Shown[k]}
         /\ Shown' = [Shown EXCEPT ![i] = Null]
BY DEF Shown, Visible, ContentOf

\* The save transaction is the store's Put.
LEMMA SaveTxPuts ==
  ASSUME StoreInv, StoreInv', NEW c \in Clients, SaveTx(c)
  PROVE  PS!StoreNext
<1> DEFINE a == call[c]
<1>1. a.id \in Ids /\ a.blob \in Blobs /\ HashOf[a.blob] \in Hashes
  BY SavingFacts DEF SaveTx, Saving, StoreInv
<1>2. text[a.id] = Null /\ rows[a.id] = Null
  BY <1>1 DEF SaveTx, Saving, StoreInv, SaveOwnsId, RowText
<1>3. /\ \A i \in Ids : i # a.id => rows'[i] = rows[i]
      /\ text' = [text EXCEPT ![a.id] = a.blob]
      /\ text'[a.id] = a.blob
      /\ UNCHANGED <<burned, now, reads>>
  BY <1>1 DEF SaveTx, StoreInv, TypeInv, TypeOK
<1> HIDE DEF a
<1>4. ASSUME NEW i \in Ids, i # a.id PROVE Shown'[i] = Shown[i]
  <2>1. rows'[i] = rows[i]
    BY <1>3, <1>4
  <2>2. CASE rows[i] = Null
    BY <1>3, <2>1, <2>2 DEF Shown, Visible
  <2>3. CASE rows[i] # Null
    <3>1. rows[i].ref # Null => rows[i].ref \in Ids /\ rows[rows[i].ref] # Null
      BY <2>3 DEF StoreInv, ReferentialIntegrity, TypeInv, TypeOK, Row
    <3>2. rows[i].ref # Null => rows'[rows[i].ref] = rows[rows[i].ref]
      BY <1>2, <1>3, <3>1
    <3>3. ContentOf(i)' = ContentOf(i)
      BY <2>1, <3>2 DEF ContentOf
    <3> QED BY <1>3, <2>1, <3>3 DEF Shown, Visible
  <2> QED BY <2>2, <2>3
<1>5. Shown[a.id] = Null
  BY <1>1, <1>2 DEF Shown, Visible
<1>6. Shown'[a.id] \in {Null, a.blob}
  <2>1. ContentIntegrity'
    BY ContentIntactNext
  <2>2. \A i \in Ids : Shown'[i] \in {Null, text'[i]}
    BY <2>1 DEF ContentIntegrity, Shown, Visible
  <2> QED BY <1>1, <1>3, <2>2
<1>7. Shown' \in {Shown, [Shown EXCEPT ![a.id] = a.blob]}
  <2>1. /\ Shown = [i \in Ids |-> Shown[i]]
        /\ Shown' = [i \in Ids |-> Shown'[i]]
    BY DEF Shown
  <2>2. CASE Shown'[a.id] = Null
    <3>1. \A i \in Ids : Shown'[i] = Shown[i]
      BY <1>4, <1>5, <2>2
    <3> QED BY <2>1, <3>1
  <2>3. CASE Shown'[a.id] = a.blob
    BY <1>4, <2>1, <2>3
  <2> QED BY <1>6, <2>2, <2>3
<1>8. PS!Put(a.id, a.blob)
  BY <1>2, <1>3, <1>7 DEF PS!Put
<1> QED BY <1>1, <1>8 DEF PS!StoreNext

\* Every step of the tables is a step of the store or a stutter.
LEMMA StepImplements ==
  StoreInv /\ StoreInv' /\ [Next]_vars => [PS!StoreNext]_(PS!storeVars)
<1> SUFFICES ASSUME StoreInv, StoreInv', [Next]_vars
             PROVE  PS!StoreNext \/ UNCHANGED PS!storeVars
  OBVIOUS
<1> USE DEF tables
<1>1. ASSUME NEW c \in Clients, SavePaste(c)
      PROVE  PS!StoreNext \/ UNCHANGED PS!storeVars
  <2>1. CASE SaveTx(c)
    BY <2>1, SaveTxPuts
  <2>2. CASE ~SaveTx(c)
    <3>1. UNCHANGED <<rows, burned, now, text, reads>>
      BY <1>1, <2>2 DEF SavePaste, SaveStart, SaveCheckPlaintext, SaveCheckHash, SaveError
    <3> QED BY <3>1, StutterStep
  <2> QED BY <2>1, <2>2
<1>2. ASSUME NEW i \in Ids, GetPaste(i) PROVE PS!StoreNext
  <2>1. i \notin burned /\ Visible(i) /\ ContentOf(i) # Null
    BY <1>2 DEF GetPaste, Claim, GetResult
  <2>2. Shown[i] # Null
    BY <2>1 DEF Shown
  <2>3. reads[i] = 0
    <3>1. rows[i] # Null /\ reads[i] \in Nat
      BY <2>1 DEF Visible, StoreInv, TypeInv, TypeOK
    <3> QED BY <2>1, <3>1 DEF StoreInv, BurnOnce
  <2>4. Shown' = [Shown EXCEPT ![i] = Null]
    BY <1>2, MarkerHides DEF GetPaste, Claim
  <2>5. reads' = [reads EXCEPT ![i] = 1] /\ text' = text
    BY <1>2, <2>3 DEF GetPaste, Claim, StoreInv, TypeInv, TypeOK
  <2>6. PS!Take(i)
    BY <2>2, <2>3, <2>4, <2>5 DEF PS!Take
  <2> QED BY <2>6 DEF PS!StoreNext
<1>3. ASSUME NEW i \in Ids, GetPasteAnswerLost(i) \/ MarkBurned(i) PROVE PS!StoreNext
  <2>1. burned' = burned \cup {i} /\ UNCHANGED <<rows, now, text, reads>>
    BY <1>3 DEF GetPasteAnswerLost, Claim, MarkBurned
  <2> QED BY <2>1, MarkerHides, HidingStep
<1>4. ASSUME NEW S \in SUBSET Ids, DeleteRows(S), UNCHANGED <<now, text, reads>>
      PROVE  PS!StoreNext
  BY <1>4, DeleteRowsHides, HidingStep
<1>5. ASSUME NEW c \in Clients, NEW i \in Ids, DeletePaste(c, i) PROVE PS!StoreNext
  BY <1>4, <1>5 DEF DeletePaste
<1>5a. ASSUME NEW i \in Ids, DeletePasteAnswerLost(i) PROVE PS!StoreNext
  BY <1>4, <1>5a DEF DeletePasteAnswerLost
<1>6. ASSUME NEW c \in Clients, DeleteMarker(c) PROVE UNCHANGED PS!storeVars
  <2>1. call[c] \notin burned
    BY <1>6 DEF DeleteMarker, StoreInv, UnmarkGone, ReferentialIntegrity
  <2>2. UNCHANGED <<rows, burned, now, text, reads>>
    BY <1>6, <2>1 DEF DeleteMarker
  <2> QED BY <2>2, StutterStep
<1>7. ASSUME NEW h \in Hashes, NEW kind \in Kinds, Ban(h, kind)
      PROVE  UNCHANGED PS!storeVars
  BY <1>7, StutterStep DEF Ban
<1>8. ASSUME CleanupExpired PROVE PS!StoreNext
  <2>1. PICK S \in SUBSET Ids : DeleteRows(S)
    BY <1>8 DEF CleanupExpired
  <2> QED BY <1>4, <1>8, <2>1 DEF CleanupExpired
<1>9. ASSUME Tick PROVE PS!StoreNext
  <2>1. now' = now + 1 /\ UNCHANGED <<rows, burned, text, reads>>
    BY <1>9 DEF Tick
  <2>2. \A i \in Ids : Visible(i)' => Visible(i)
    BY <2>1 DEF Visible, StoreInv, TypeInv, TypeOK, Row
  <2>3. \A i \in Ids : Shown'[i] \in {Null, Shown[i]}
    BY <2>1, <2>2 DEF Shown, ContentOf
  <2> QED BY <2>1, <2>3, HidingStep
<1>10. CASE UNCHANGED vars
  BY <1>10, StutterStep DEF vars
<1> QED
  BY <1>1, <1>2, <1>3, <1>5, <1>5a, <1>6, <1>7, <1>8, <1>9, <1>10
     DEF Next, BanContentHash, BanPlaintextHash, Kinds

\* The SQL backends implement the promise of a paste store: put once, shown
\* unchanged, taken once if burn-after-read, never shown again afterwards.
THEOREM Implements == Spec => ImplementsStore
<1>1. Init => PS!StoreInit
  BY DEF Init, PS!StoreInit, Shown, Visible
<1>2. StoreInv /\ StoreInv' /\ [Next]_vars => [PS!StoreNext]_(PS!storeVars)
  BY StepImplements
<1> QED BY <1>1, <1>2, StoreInvAlways, PTL DEF Spec, ImplementsStore, PS!StoreSpec

=============================================================================
