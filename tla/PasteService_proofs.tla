------------------------- MODULE PasteService_proofs -------------------------
(***************************************************************************)
(* Proofs about PasteService, for any number of handlers, workers, ids and *)
(* crashes, and for both backends.  They stand on those about SqlStorage:  *)
(* every step of the service but a crash is a step of the storage or       *)
(* leaves it alone.                                                        *)
(***************************************************************************)
EXTENDS PasteService, SqlStorage_proofs

-----------------------------------------------------------------------------
(* Typing.                                                                 *)

\* What the service adds to the storage's TypeOK.
ServiceTyped ==
  /\ task \in [Ids -> T!Statuses]
  /\ got \in [Handlers -> Loaded \cup {Null}]
  /\ told \in [Handlers -> Answer \cup {Null}]
  /\ served \in [Ids -> Nat]
  /\ gone \subseteq Ids
  /\ crashes \in 0..MaxCrashes

LEMMA TellTyped ==
  ASSUME ServiceTyped, NEW h \in Handlers, NEW code \in Codes, NEW cause \in Causes,
         Tell(h, code, cause)
  PROVE  told' \in [Handlers -> Answer \cup {Null}]
<1>1. (got[h] # Null /\ got[h].late) \in BOOLEAN
  BY DEF ServiceTyped, Loaded
<1>2. [code |-> code, cause |-> cause, late |-> got[h] # Null /\ got[h].late] \in Answer
  BY <1>1 DEF Answer
<1> QED BY <1>2 DEF Tell, ServiceTyped

LEMMA HushTyped ==
  ASSUME ServiceTyped, NEW h \in Handlers, Hush(h)
  PROVE  told' \in [Handlers -> Answer \cup {Null}]
BY DEF Hush, ServiceTyped

LEMMA AnsweredTyped ==
  ASSUME ServiceTyped, NEW h \in Handlers, Answered(h)
  PROVE  got' \in [Handlers -> Loaded \cup {Null}]
BY DEF Answered, ServiceTyped

LEMMA SettleTyped ==
  ASSUME ServiceTyped, NEW i \in Ids,
         T!Accept(i) \/ T!Reject(i) \/ T!Succeed(i) \/ T!GiveUp(i)
  PROVE  task' \in [Ids -> T!Statuses]
BY DEF ServiceTyped, T!Accept, T!Reject, T!Succeed, T!GiveUp, T!Settle, T!Statuses

LEMMA AnswersAreTyped ==
  /\ {200, 403, 404, 410, 500} = Codes
  /\ {"created", "served", "banned", "notfound", "burned", "expired", "error"} = Causes
BY DEF Codes, Causes

LEMMA ServiceTypedStep ==
  TypeInv /\ RowText /\ ServiceTyped /\ [ServiceNext]_serviceVars => ServiceTyped'
<1> SUFFICES ASSUME TypeInv, RowText, ServiceTyped, [ServiceNext]_serviceVars PROVE ServiceTyped'
  OBVIOUS
<1> USE AnswersAreTyped
<1>1. ASSUME NEW h \in Handlers, CreateStart(h) PROVE ServiceTyped'
  BY <1>1, HushTyped DEF CreateStart, ServiceTyped
<1>2. ASSUME NEW h \in Handlers, CreateChecks(h) \/ CreateSaved(h) \/ CreateFails(h)
      PROVE  ServiceTyped'
  BY <1>2, TellTyped DEF CreateChecks, CreateSaved, CreateFails, SaveAnswer, ServiceTyped
<1>3. ASSUME NEW h \in Handlers, NEW i \in Ids, ReadContent(h, i) PROVE ServiceTyped'
  <2>1. rows[i].expires \in Int /\ rows[i].burn \in BOOLEAN
    BY <1>3 DEF ReadContent, GetResult, Visible, TypeInv, TypeOK, Row
  <2>2. [id |-> i, expires |-> rows[i].expires, burn |-> rows[i].burn, late |-> i \in gone] \in Loaded
    BY <2>1 DEF Loaded
  <2> QED BY <1>3, <2>2, HushTyped DEF ReadContent, Load, ServiceTyped
<1>4. ASSUME NEW h \in Handlers, NEW i \in Ids, ReadNotFound(h, i) \/ ReadBurned(h, i) \/ ReadFails(h, i)
      PROVE  ServiceTyped'
  BY <1>4, TellTyped DEF ReadNotFound, ReadBurned, ReadFails, ServiceTyped
<1>5. ASSUME NEW h \in Handlers, Serve(h) PROVE ServiceTyped'
  <2>1. got[h].id \in Ids
    BY <1>5 DEF Serve, ServiceTyped, Loaded
  <2>2. task' \in [Ids -> T!Statuses]
    BY <1>5, <2>1, SettleTyped DEF Serve, QueueDeletion, ServiceTyped
  <2>3. served' \in [Ids -> Nat]
    BY <1>5, <2>1 DEF Serve, Served, ServiceTyped
  <2> QED BY <1>5, <2>2, <2>3, TellTyped, AnsweredTyped DEF Serve, Served, ServiceTyped
<1>6. ASSUME NEW h \in Handlers, got[h] # Null, Expired(h), UNCHANGED <<task, served, crashes>>
      PROVE  ServiceTyped'
  <2>1. got[h].id \in Ids
    BY <1>6 DEF ServiceTyped, Loaded
  <2> QED BY <1>6, <2>1, TellTyped, AnsweredTyped DEF Expired, ServiceTyped
<1>7. ASSUME NEW h \in Handlers, ExpireDelete(h) \/ ExpireMarker(h) \/ ExpireFails(h)
      PROVE  ServiceTyped'
  BY <1>6, <1>7 DEF ExpireDelete, ExpireMarker, ExpireFails, ServiceTyped
<1>8. ASSUME NEW w \in Workers, NEW i \in Ids, Erase(w, i) \/ EraseFails(w, i) PROVE ServiceTyped'
  BY <1>8, SettleTyped DEF Erase, EraseFails, ServiceTyped
<1>9. ASSUME NEW w \in Workers, EraseMarker(w) PROVE ServiceTyped'
  <2>1. call[w] \in Ids
    BY <1>9, ClientsAssumption DEF EraseMarker, DeleteMarker, TypeInv, CallOK
  <2> QED BY <1>9, <2>1, SettleTyped DEF EraseMarker, ServiceTyped
<1>10. CASE Crash
  BY <1>10, CrashesAssumption DEF Crash, ServiceTyped, T!Statuses
<1>11. CASE Environment \/ UNCHANGED serviceVars
  BY <1>11 DEF Environment, serviceVars, ServiceTyped
<1> QED BY <1>1, <1>2, <1>3, <1>4, <1>5, <1>7, <1>8, <1>9, <1>10, <1>11
      DEF ServiceNext, Request, Handle, Work

-----------------------------------------------------------------------------
(* The storage under the service.                                          *)

LEMMA StorageStep ==
  ASSUME ServiceTyped, [ServiceNext]_serviceVars
  PROVE  [Next]_vars \/ Crash
<1>1. ASSUME NEW h \in Handlers, Request(h) PROVE [Next]_vars
  BY <1>1, ClientsAssumption DEF Request, CreateStart, ReadContent, ReadNotFound, ReadBurned,
     ReadFails, Next, SavePaste
<1>2. ASSUME NEW h \in Handlers, ExpireDelete(h) PROVE [Next]_vars
  <2>1. got[h].id \in Ids
    BY <1>2 DEF ExpireDelete, ServiceTyped, Loaded
  <2> QED BY <1>2, <2>1, ClientsAssumption DEF ExpireDelete, Next
<1>2a. ASSUME NEW h \in Handlers, ExpireFails(h) PROVE [Next]_vars
  <2>1. got[h].id \in Ids
    BY <1>2a DEF ExpireFails, ServiceTyped, Loaded
  <2> QED BY <1>2a, <2>1 DEF ExpireFails, Next
<1>3. ASSUME NEW h \in Handlers, Handle(h) PROVE [Next]_vars
  BY <1>2, <1>2a, <1>3, ClientsAssumption DEF Handle, CreateChecks, CreateSaved, CreateFails, Serve,
     ExpireMarker, Next, SavePaste
<1>4. ASSUME NEW w \in Workers, Work(w) PROVE [Next]_vars
  BY <1>4, ClientsAssumption DEF Work, Erase, EraseMarker, EraseFails, Next
<1>5. CASE Environment
  BY <1>5 DEF Environment, Next
<1> QED BY <1>1, <1>3, <1>4, <1>5 DEF ServiceNext, serviceVars

\* A crash ends the calls; the tables and what was promised about them survive it.
LEMMA CrashKeepsStore == StoreInv /\ Crash => StoreInv'
<1> SUFFICES ASSUME StoreInv, Crash PROVE StoreInv'
  OBVIOUS
<1>1. UNCHANGED <<rows, hashIndex, burned, banned, now, text, reads>>
  BY DEF Crash, tables
<1>2. TypeInv' /\ SaveOwnsId' /\ UnmarkGone'
  BY <1>1 DEF Crash, StoreInv, TypeInv, TypeOK, CallOK, SaveOwnsId, UnmarkGone, Saving
<1>3. \A i \in burned' : rows[i] # Null
  BY <1>1 DEF StoreInv, ReferentialIntegrity
<1> QED BY <1>1, <1>2, <1>3, TablesKept DEF StoreInv

LEMMA ServiceKeepsStore ==
  ASSUME StoreInv, ServiceTyped, [ServiceNext]_serviceVars
  PROVE  StoreInv'
BY StorageStep, CrashKeepsStore, StoreInvStep

\* What happens to an id that a save has used: its row keeps its deadline until it
\* goes for good, what was read was read, and what is hidden stays hidden.
Settled(i) ==
  /\ text'[i] # Null
  /\ rows[i] = Null => rows'[i] = Null
  /\ rows'[i] # Null => rows'[i].expires = rows[i].expires
  /\ reads[i] = 1 => reads'[i] = 1
  /\ reads[i] <= reads'[i]
  /\ Shown[i] = Null => Shown'[i] = Null

LEMMA UntouchedSettled ==
  ASSUME StoreInv, NEW i \in Ids, text[i] # Null, UNCHANGED <<rows, burned, text, reads>>,
         now' \in {now, now + 1}
  PROVE  Settled(i)
<1>1. reads[i] \in Nat /\ now \in Nat /\ (rows[i] # Null => rows[i].expires \in Int)
  BY DEF StoreInv, TypeInv, TypeOK, Row
<1>2. Shown[i] = Null => Shown'[i] = Null
  BY <1>1 DEF Shown, Visible, ContentOf
<1> QED BY <1>1, <1>2 DEF Settled

LEMMA HiddenStays ==
  ASSUME StoreInv, StoreInv', [Next]_vars, NEW i \in Ids, text[i] # Null, Shown[i] = Null
  PROVE  Shown'[i] = Null
<1>1. PS!StoreNext \/ UNCHANGED PS!storeVars
  BY StepImplements
<1>2. ASSUME NEW j \in Ids, NEW b \in Blobs, PS!Put(j, b) PROVE Shown'[i] = Null
  <2>1. j # i /\ Shown' \in {Shown, [Shown EXCEPT ![j] = b]}
    BY <1>2 DEF PS!Put
  <2> QED BY <2>1 DEF Shown
<1>3. ASSUME NEW j \in Ids, PS!Take(j) PROVE Shown'[i] = Null
  <2>1. Shown' = [Shown EXCEPT ![j] = Null]
    BY <1>3 DEF PS!Take
  <2> QED BY <2>1 DEF Shown
<1>4. ASSUME NEW S \in SUBSET Ids, PS!Hide(S) PROVE Shown'[i] = Null
  <2>1. Shown' = [k \in Ids |-> IF k \in S THEN Null ELSE Shown[k]]
    BY <1>4 DEF PS!Hide
  <2> QED BY <2>1
<1>5. CASE UNCHANGED PS!storeVars
  BY <1>5 DEF PS!storeVars
<1> QED BY <1>1, <1>2, <1>3, <1>4, <1>5 DEF PS!StoreNext

LEMMA RowsSettle ==
  ASSUME StoreInv, NEW S \in SUBSET Ids, DeleteRows(S), UNCHANGED <<now, text, reads>>,
         NEW i \in Ids, text[i] # Null
  PROVE  /\ text'[i] # Null
         /\ rows[i] = Null => rows'[i] = Null
         /\ rows'[i] # Null => rows'[i].expires = rows[i].expires
         /\ reads'[i] = reads[i]
<1>1. rows[i] # Null => rows[i] \in Row
  BY DEF StoreInv, TypeInv, TypeOK
<1> QED BY <1>1 DEF DeleteRows, Row

LEMMA ClockRuns == [Next]_vars => now' \in {now, now + 1}
<1> SUFFICES ASSUME [Next]_vars PROVE now' \in {now, now + 1}
  OBVIOUS
<1>1. ASSUME NEW c \in Clients, SavePaste(c) PROVE now' = now
  BY <1>1 DEF SavePaste, SaveStart, SaveCheckPlaintext, SaveCheckHash, SaveTx, SaveError
<1>2. ASSUME NEW c \in Clients, NEW i \in Ids, DeletePaste(c, i) PROVE now' = now
  BY <1>2 DEF DeletePaste
<1>3. ASSUME NEW i \in Ids, GetPaste(i) \/ GetPasteAnswerLost(i) \/ MarkBurned(i) PROVE now' = now
  BY <1>3 DEF GetPaste, GetPasteAnswerLost, Claim, MarkBurned
<1>2a. ASSUME NEW i \in Ids, DeletePasteAnswerLost(i) PROVE now' = now
  BY <1>2a DEF DeletePasteAnswerLost
<1>4. ASSUME NEW c \in Clients, DeleteMarker(c) PROVE now' = now
  BY <1>4 DEF DeleteMarker
<1>5. ASSUME NEW h \in Hashes, BanContentHash(h) \/ BanPlaintextHash(h) PROVE now' = now
  BY <1>5 DEF BanContentHash, BanPlaintextHash, Ban
<1>6. CASE CleanupExpired \/ Tick \/ UNCHANGED vars
  BY <1>6 DEF CleanupExpired, Tick, vars
<1> QED BY <1>1, <1>2, <1>2a, <1>3, <1>4, <1>5, <1>6 DEF Next

LEMMA StoreSettles ==
  ASSUME StoreInv, StoreInv', [Next]_vars, NEW i \in Ids, text[i] # Null
  PROVE  Settled(i)
<1> USE DEF tables
<1>0. reads[i] \in Nat /\ now \in Nat
  BY DEF StoreInv, TypeInv, TypeOK
<1>1. ASSUME NEW c \in Clients, SaveTx(c) PROVE Settled(i)
  <2>1. call[c].id # i /\ call[c].id \in Ids
    BY <1>1, SavingFacts DEF SaveTx, Saving, StoreInv, SaveOwnsId
  <2>2. rows'[i] = rows[i] /\ text'[i] = text[i] /\ UNCHANGED <<now, reads>>
    BY <1>1, <2>1 DEF SaveTx, StoreInv, TypeInv, TypeOK
  <2> QED BY <1>0, <2>2, HiddenStays DEF Settled
<1>2. ASSUME NEW c \in Clients, SavePaste(c), ~SaveTx(c) PROVE Settled(i)
  <2>1. UNCHANGED <<rows, burned, now, text, reads>>
    BY <1>2 DEF SavePaste, SaveStart, SaveCheckPlaintext, SaveCheckHash, SaveError
  <2> QED BY <1>0, <2>1, HiddenStays DEF Settled
<1>3. ASSUME NEW j \in Ids, GetPaste(j) PROVE Settled(i)
  <2>1. UNCHANGED <<rows, now, text>> /\ reads' = [reads EXCEPT ![j] = @ + 1]
    BY <1>3 DEF GetPaste, Claim
  <2>2. reads[i] <= reads'[i] /\ reads'[i] \in Nat /\ reads'[i] <= 1
    BY <1>0, <2>1 DEF StoreInv, BurnOnce, TypeInv, TypeOK
  <2> QED BY <1>0, <2>1, <2>2, HiddenStays DEF Settled
<1>4. ASSUME UNCHANGED <<rows, text, reads>>, now' \in {now, now + 1}
      PROVE  Settled(i)
  BY <1>0, <1>4, HiddenStays DEF Settled
<1>5. ASSUME NEW j \in Ids, GetPasteAnswerLost(j) \/ MarkBurned(j) PROVE Settled(i)
  BY <1>4, <1>5 DEF GetPasteAnswerLost, Claim, MarkBurned
<1>6. ASSUME NEW S \in SUBSET Ids, DeleteRows(S), UNCHANGED <<now, text, reads>>
      PROVE  Settled(i)
  BY <1>0, <1>6, RowsSettle, HiddenStays DEF Settled
<1>7. ASSUME NEW c \in Clients, NEW j \in Ids, DeletePaste(c, j) PROVE Settled(i)
  BY <1>6, <1>7 DEF DeletePaste
<1>7a. ASSUME NEW j \in Ids, DeletePasteAnswerLost(j) PROVE Settled(i)
  BY <1>6, <1>7a DEF DeletePasteAnswerLost
<1>8. ASSUME NEW c \in Clients, DeleteMarker(c) PROVE Settled(i)
  BY <1>4, <1>8 DEF DeleteMarker
<1>9. ASSUME NEW h \in Hashes, NEW kind \in Kinds, Ban(h, kind) PROVE Settled(i)
  BY <1>4, <1>9 DEF Ban
<1>10. CASE CleanupExpired
  <2>1. PICK S \in SUBSET Ids : DeleteRows(S)
    BY <1>10 DEF CleanupExpired
  <2> QED BY <1>6, <1>10, <2>1 DEF CleanupExpired
<1>11. CASE Tick \/ UNCHANGED vars
  BY <1>4, <1>11 DEF Tick, vars
<1> QED BY <1>1, <1>2, <1>3, <1>5, <1>7, <1>7a, <1>8, <1>9, <1>10, <1>11
      DEF Next, BanContentHash, BanPlaintextHash, Kinds

LEMMA ServiceSettles ==
  ASSUME StoreInv, ServiceTyped, [ServiceNext]_serviceVars
  PROVE  now <= now' /\ \A i \in Ids : text[i] # Null => Settled(i)
<1>1. now \in Nat
  BY DEF StoreInv, TypeInv, TypeOK
<1>2. CASE [Next]_vars
  <2>1. StoreInv'
    BY ServiceKeepsStore
  <2>2. \A i \in Ids : text[i] # Null => Settled(i)
    BY <1>2, <2>1, StoreSettles
  <2>3. now <= now'
    BY <1>1, <1>2, ClockRuns
  <2> QED BY <2>2, <2>3
<1>3. CASE Crash
  <2>1. UNCHANGED <<rows, burned, text, reads, now>>
    BY <1>3 DEF Crash, tables
  <2> QED BY <1>1, <2>1, UntouchedSettled
<1> QED BY <1>2, <1>3, StorageStep

-----------------------------------------------------------------------------
(* What handlers hold between GetPaste's return and their answer.          *)

Holds(h, i) == got[h] # Null /\ got[h].id = i

\* The paste is stored or was, and its row has the deadline the handler has.  A
\* handler at the second statement of a deletion has seen the deadline pass.
HeldPastes ==
  \A h \in Handlers : got[h] # Null =>
    /\ text[got[h].id] # Null
    /\ rows[got[h].id] # Null => rows[got[h].id].expires = got[h].expires
    /\ pc[h] = "unmark" => Clock > got[h].expires

\* Only the handler that claimed a burn paste holds it, and has not served it.
HeldClaims ==
  \A h \in Handlers : got[h] # Null /\ got[h].burn =>
    /\ reads[got[h].id] = 1 /\ served[got[h].id] = 0
    /\ \A g \in Handlers : got[g] # Null /\ got[g].burn /\ got[g].id = got[h].id => g = h

\* The program's clock has passed the deadline.  The storage may show the paste yet.
Overdue(i) == rows[i] # Null /\ rows[i].expires < Clock

\* What somebody was told is gone is hidden from readers, or overdue.
GoneHidden == \A i \in gone : text[i] # Null /\ (Shown[i] = Null \/ Overdue(i))

\* So whoever has loaded it since finds it expired.
HeldInTime ==
  \A h \in Handlers : got[h] # Null /\ got[h].late => Clock > got[h].expires

ServiceInv ==
  /\ StoreInv /\ ServiceTyped
  /\ HeldPastes /\ HeldClaims /\ GoneHidden /\ HeldInTime
  /\ ServedOnce /\ GoneStaysGone /\ DoneIsErased

LEMMA ServiceInvInit == ServiceInit => ServiceInv
<1> SUFFICES ASSUME ServiceInit PROVE ServiceInv
  OBVIOUS
<1>1. StoreInv
  BY StoreInvInit DEF ServiceInit
<1>2. ServiceTyped
  BY CrashesAssumption DEF ServiceInit, T!TasksInit, ServiceTyped, T!Statuses
<1>3. HeldPastes /\ HeldClaims /\ GoneHidden /\ HeldInTime
  BY DEF ServiceInit, HeldPastes, HeldClaims, GoneHidden, HeldInTime
<1>4. ServedOnce /\ GoneStaysGone /\ DoneIsErased
  BY DEF ServiceInit, Init, T!TasksInit, ServedOnce, GoneStaysGone, DoneIsErased
<1> QED BY <1>1, <1>2, <1>3, <1>4 DEF ServiceInv

\* The assumptions of the lemmas below: what a step of the service does to the
\* storage and to the typing.
Moved ==
  /\ StoreInv' /\ ServiceTyped'
  /\ now <= now' /\ \A i \in Ids : text[i] # Null => Settled(i)

LEMMA ShiftKeepsOrder ==
  ASSUME NEW a \in Nat, NEW b \in Nat, NEW d \in Int, a <= b
  PROVE  a + d \in Int /\ b + d \in Int /\ a + d <= b + d
OBVIOUS

\* The handlers' clock only advances, as the database's does.
LEMMA ClockAdvances ==
  ASSUME ServiceInv, Moved
  PROVE  Clock \in Int /\ Clock' \in Int /\ Clock <= Clock'
<1>1. now \in Nat /\ now' \in Nat /\ now <= now'
  BY DEF ServiceInv, Moved, StoreInv, TypeInv, TypeOK
<1>2. Skew \in Int
  BY SkewAssumption
<1>3. now + Skew \in Int /\ now' + Skew \in Int /\ now + Skew <= now' + Skew
  BY <1>1, <1>2, ShiftKeepsOrder
<1> QED BY <1>3 DEF Clock

\* A step after which no handler holds more than it did.
LEMMA HoldersKept ==
  ASSUME ServiceInv, Moved, UNCHANGED served,
         \A h \in Handlers : got'[h] \in {got[h], Null},
         \A h \in Handlers : got'[h] # Null /\ pc'[h] = "unmark" =>
           pc[h] = "unmark" \/ Clock > got[h].expires
  PROVE  HeldPastes' /\ HeldClaims' /\ HeldInTime' /\ ServedOnce'
<1>1. ASSUME NEW h \in Handlers, got'[h] # Null
      PROVE  /\ got'[h] = got[h] /\ got[h] \in Loaded /\ got[h].id \in Ids
             /\ got[h].expires \in Int /\ text[got[h].id] # Null /\ Settled(got[h].id)
  <2>1. got'[h] = got[h] /\ got[h] \in Loaded /\ text[got[h].id] # Null
    BY <1>1 DEF ServiceInv, ServiceTyped, HeldPastes
  <2> QED BY <2>1 DEF Loaded, Moved
<1>2. Clock \in Int /\ Clock' \in Int /\ Clock <= Clock'
  BY ClockAdvances
<1>3. HeldPastes'
  <2> SUFFICES ASSUME NEW h \in Handlers, got'[h] # Null
               PROVE  /\ text'[got'[h].id] # Null
                      /\ rows'[got'[h].id] # Null => rows'[got'[h].id].expires = got'[h].expires
                      /\ pc'[h] = "unmark" => Clock' > got'[h].expires
    BY DEF HeldPastes
  <2> QED BY <1>1, <1>2 DEF Settled, ServiceInv, HeldPastes
<1>4. HeldClaims'
  <2> SUFFICES ASSUME NEW h \in Handlers, got'[h] # Null, got'[h].burn
               PROVE  /\ reads'[got'[h].id] = 1 /\ served'[got'[h].id] = 0
                      /\ \A g \in Handlers :
                           got'[g] # Null /\ got'[g].burn /\ got'[g].id = got'[h].id => g = h
    BY DEF HeldClaims
  <2> QED BY <1>1 DEF Settled, ServiceInv, HeldClaims
<1>5. HeldInTime'
  BY <1>1, <1>2 DEF ServiceInv, HeldInTime
<1>6. ServedOnce'
  <2> SUFFICES ASSUME NEW i \in Ids PROVE served[i] <= reads'[i] /\ served[i] <= 1
    BY DEF ServedOnce
  <2>1. served[i] \in Nat /\ reads[i] \in Nat /\ reads'[i] \in Nat /\ served[i] <= reads[i] /\ served[i] <= 1
    BY DEF ServiceInv, ServiceTyped, Moved, StoreInv, TypeInv, TypeOK, ServedOnce
  <2>2. CASE text[i] = Null
    <3>1. reads[i] = 0
      BY <2>2 DEF ServiceInv, StoreInv, ReadsStored
    <3> QED BY <2>1, <3>1
  <2>3. CASE text[i] # Null
    BY <2>1, <2>3 DEF Moved, Settled
  <2> QED BY <2>2, <2>3
<1> QED BY <1>3, <1>4, <1>5, <1>6

\* An overdue paste stays so until its row goes.
LEMMA OverdueStays ==
  ASSUME ServiceInv, Moved, NEW i \in Ids, text[i] # Null, Overdue(i)
  PROVE  Shown'[i] = Null \/ Overdue(i)'
<1>1. Clock \in Int /\ Clock' \in Int /\ Clock <= Clock'
  BY ClockAdvances
<1>2. rows[i].expires \in Int
  BY DEF Overdue, ServiceInv, StoreInv, TypeInv, TypeOK, Row
<1>3. CASE rows'[i] = Null
  BY <1>3 DEF Shown, Visible
<1>4. CASE rows'[i] # Null
  BY <1>1, <1>2, <1>4 DEF Moved, Settled, Overdue
<1> QED BY <1>3, <1>4

\* Nobody is told that an id is gone while a reader might still be answered with it.
LEMMA GoneKept ==
  ASSUME ServiceInv, Moved,
         \A i \in gone' \ gone : text[i] # Null /\ (Shown[i] = Null \/ Overdue(i))
  PROVE  GoneHidden'
<1>1. ASSUME NEW i \in gone' PROVE i \in Ids /\ text[i] # Null /\ (Shown[i] = Null \/ Overdue(i))
  BY <1>1 DEF ServiceInv, ServiceTyped, GoneHidden, Moved
<1> QED BY <1>1, OverdueStays DEF GoneHidden, Moved, Settled

LEMMA AnswersKept ==
  ASSUME ServiceInv,
         \A h \in Handlers : told'[h] = told[h] \/ told'[h] = Null \/ told'[h].cause # "served"
  PROVE  GoneStaysGone'
BY DEF ServiceInv, GoneStaysGone

LEMMA TasksKept ==
  ASSUME ServiceInv, Moved,
         \A i \in Ids : \/ task'[i] = task[i]
                        \/ task'[i] \in {"queued", "rejected"} /\ reads[i] = 1
                        \/ task[i] = "queued" /\ task'[i] = "failed"
                        \/ task[i] = "queued" /\ task'[i] = "deleted" /\ rows'[i] = Null
  PROVE  DoneIsErased'
<1> SUFFICES ASSUME NEW i \in Ids
             PROVE  /\ task'[i] = "deleted" => rows'[i] = Null /\ i \notin burned'
                    /\ task'[i] # "none" => reads'[i] = 1
  BY DEF DoneIsErased
<1>1. reads[i] = 1 => text[i] # Null
  BY DEF ServiceInv, StoreInv, ReadsStored
<1>2. rows'[i] = Null => i \notin burned'
  BY DEF Moved, StoreInv, ReferentialIntegrity
<1>3. task[i] = "deleted" => rows[i] = Null
  BY DEF ServiceInv, DoneIsErased
<1>4. task[i] # "none" => reads[i] = 1
  BY DEF ServiceInv, DoneIsErased
<1>5. reads[i] = 1 => Settled(i)
  BY <1>1 DEF Moved
<1> QED BY <1>2, <1>3, <1>4, <1>5 DEF Settled

\* A step of a save, and the end of a deletion, begin no deletion.
LEMMA CallsMove ==
  ASSUME TypeInv, NEW c \in Clients, SavePaste(c) \/ DeleteMarker(c)
  PROVE  \A d \in Clients : pc'[d] = "unmark" => pc[d] = "unmark"
<1>1. ASSUME Finish(c) PROVE \A d \in Clients : pc'[d] = "unmark" => pc[d] = "unmark"
  BY <1>1 DEF Finish, TypeInv, TypeOK
<1>2. ASSUME NEW label \in {"plain", "hash", "tx"}, pc' = [pc EXCEPT ![c] = label]
      PROVE  \A d \in Clients : pc'[d] = "unmark" => pc[d] = "unmark"
  BY <1>2 DEF TypeInv, TypeOK
<1>3. Finish(c) \/ \E label \in {"plain", "hash", "tx"} : pc' = [pc EXCEPT ![c] = label]
  BY DEF SavePaste, SaveStart, SaveCheckPlaintext, SaveCheckHash, SaveTx, SaveError, DeleteMarker
<1> QED BY <1>1, <1>2, <1>3

LEMMA OtherAnswer ==
  ASSUME NEW h \in Handlers, NEW code, NEW cause, cause # "served", ServiceTyped,
         Tell(h, code, cause) \/ Hush(h) \/ UNCHANGED told
  PROVE  \A g \in Handlers : told'[g] = told[g] \/ told'[g] = Null \/ told'[g].cause # "served"
<1>1. CASE Tell(h, code, cause)
  <2>1. told'[h].cause = cause /\ \A g \in Handlers \ {h} : told'[g] = told[g]
    BY <1>1 DEF Tell, ServiceTyped
  <2> QED BY <2>1
<1>2. CASE Hush(h) \/ UNCHANGED told
  BY <1>2 DEF Hush, ServiceTyped
<1> QED BY <1>1, <1>2

LEMMA ServiceInvStep == ServiceInv /\ [ServiceNext]_serviceVars => ServiceInv'
<1> SUFFICES ASSUME ServiceInv, [ServiceNext]_serviceVars PROVE ServiceInv'
  OBVIOUS
<1> USE ClientsAssumption
<1> DEFINE Readers == HeldPastes /\ HeldClaims /\ HeldInTime /\ ServedOnce
           Promises == GoneHidden /\ GoneStaysGone /\ DoneIsErased
<1>0. TypeInv /\ StoreInv /\ ServiceTyped /\ RowText
  BY DEF ServiceInv, StoreInv
<1>1. Moved
  BY <1>0, ServiceTypedStep, ServiceKeepsStore, ServiceSettles DEF Moved
<1>2. ASSUME NEW h \in Handlers, SavePaste(h) \/ UNCHANGED vars,
             UNCHANGED <<task, got, served, gone>>,
             Hush(h) \/ UNCHANGED told \/ \E code, cause : cause # "served" /\ Tell(h, code, cause)
      PROVE  (Readers /\ Promises)'
  <2>1. \A d \in Handlers : pc'[d] = "unmark" => pc[d] = "unmark"
    BY <1>0, <1>2, CallsMove DEF vars
  <2>2. Readers'
    BY <1>1, <1>2, <2>1, HoldersKept
  <2>3. GoneStaysGone'
    BY <1>0, <1>2, OtherAnswer, AnswersKept
  <2> QED BY <1>1, <1>2, <2>2, <2>3, GoneKept, TasksKept
<1>2a. ASSUME UNCHANGED <<pc, task, got, told, served, gone>> PROVE (Readers /\ Promises)'
  <2>1. Readers'
    BY <1>1, <1>2a, HoldersKept
  <2>2. GoneHidden' /\ GoneStaysGone'
    BY <1>1, <1>2a, GoneKept, AnswersKept
  <2>3. DoneIsErased'
    BY <1>1, <1>2a, TasksKept
  <2> QED BY <2>1, <2>2, <2>3
<1>3. ASSUME NEW h \in Handlers, CreateStart(h) PROVE (Readers /\ Promises)'
  BY <1>2, <1>3 DEF CreateStart, SavePaste
<1>4. ASSUME NEW h \in Handlers, CreateChecks(h) \/ CreateSaved(h) \/ CreateFails(h)
      PROVE  (Readers /\ Promises)'
  BY <1>2, <1>4 DEF CreateChecks, CreateSaved, CreateFails, SavePaste, SaveAnswer
<1>5. ASSUME NEW h \in Handlers, NEW i \in Ids, ReadContent(h, i) PROVE (Readers /\ Promises)'
  <2>1. /\ i \notin burned /\ rows[i] # Null /\ Shown[i] # Null
        /\ got' = [got EXCEPT ![h] = [id |-> i, expires |-> rows[i].expires,
                                      burn |-> rows[i].burn, late |-> i \in gone]]
        /\ pc' = pc /\ pc[h] = "idle" /\ got[h] = Null /\ Hush(h)
        /\ UNCHANGED <<task, served, gone>>
    BY <1>5 DEF ReadContent, Free, GetResult, Shown, Visible, Load, GetPaste, Claim, vars
  <2>2. /\ got'[h] = [id |-> i, expires |-> rows[i].expires,
                      burn |-> rows[i].burn, late |-> i \in gone]
        /\ \A g \in Handlers \ {h} : got'[g] = got[g]
    BY <1>0, <2>1 DEF ServiceTyped
  <2>3. text[i] # Null /\ text'[i] # Null /\ Settled(i)
    BY <1>1, <2>1 DEF Moved, Settled, ServiceInv, StoreInv, RowText
  <2>4. rows[i].burn => reads[i] = 0 /\ reads'[i] = 1 /\ served[i] = 0
    <3>1. reads[i] = 0
      BY <2>1 DEF ServiceInv, StoreInv, BurnOnce, TypeInv, TypeOK
    <3>2. rows[i].burn => reads'[i] = 1
      BY <1>5, <3>1 DEF ReadContent, GetPaste, ServiceInv, StoreInv, TypeInv, TypeOK
    <3>3. served[i] \in Nat /\ served[i] <= reads[i]
      BY DEF ServiceInv, ServiceTyped, ServedOnce
    <3> QED BY <3>1, <3>2, <3>3
  <2>5. ASSUME NEW g \in Handlers \ {h}, got[g] # Null
        PROVE  got[g].id \in Ids /\ Settled(got[g].id) /\ got[g].expires \in Int
    BY <1>1, <2>5 DEF ServiceInv, ServiceTyped, HeldPastes, Moved, Loaded
  <2>6. Clock \in Int /\ Clock' \in Int /\ Clock <= Clock'
    BY <1>1, ClockAdvances
  <2>7. HeldPastes'
    <3> SUFFICES ASSUME NEW g \in Handlers, got'[g] # Null
                 PROVE  /\ text'[got'[g].id] # Null
                        /\ rows'[got'[g].id] # Null => rows'[got'[g].id].expires = got'[g].expires
                        /\ pc'[g] = "unmark" => Clock' > got'[g].expires
      BY DEF HeldPastes
    <3>1. CASE g = h
      BY <2>1, <2>2, <2>3, <3>1 DEF Settled
    <3>2. CASE g # h
      BY <2>1, <2>2, <2>5, <2>6, <3>2 DEF Settled, ServiceInv, HeldPastes
    <3> QED BY <3>1, <3>2
  <2>8. HeldClaims'
    <3> SUFFICES ASSUME NEW g \in Handlers, got'[g] # Null, got'[g].burn
                 PROVE  /\ reads'[got'[g].id] = 1 /\ served[got'[g].id] = 0
                        /\ \A f \in Handlers :
                             got'[f] # Null /\ got'[f].burn /\ got'[f].id = got'[g].id => f = g
      BY <2>1 DEF HeldClaims
    <3>1. ASSUME NEW f \in Handlers \ {h}, got[f] # Null, got[f].burn, rows[i].burn PROVE got[f].id # i
      BY <2>4, <3>1 DEF ServiceInv, HeldClaims
    <3>2. CASE g = h
      BY <2>2, <2>4, <3>1, <3>2
    <3>3. CASE g # h
      BY <2>2, <2>5, <3>1, <3>3 DEF Settled, ServiceInv, HeldClaims
    <3> QED BY <3>2, <3>3
  <2>9. HeldInTime'
    <3> SUFFICES ASSUME NEW g \in Handlers, got'[g] # Null, got'[g].late
                 PROVE  Clock' > got'[g].expires
      BY DEF HeldInTime
    <3>1. CASE g = h
      <4>1. i \in gone
        <5>1. i \notin gone => (i \in gone) = FALSE
          OBVIOUS
        <5>2. ASSUME i \notin gone PROVE got'[h] = [id |-> i, expires |-> rows[i].expires,
                                                   burn |-> rows[i].burn, late |-> FALSE]
          BY <2>2, <5>1, <5>2, Zenon
        <5>3. i \notin gone => ~got'[h].late
          BY <5>2
        <5> QED BY <3>1, <5>3
      <4>2. Overdue(i)
        BY <2>1, <4>1 DEF ServiceInv, GoneHidden
      <4>3. rows[i].expires \in Int
        BY <2>1, <1>0 DEF TypeInv, TypeOK, Row
      <4>4. got'[h].expires = rows[i].expires
        BY <2>2
      <4> QED BY <2>6, <3>1, <4>2, <4>3, <4>4 DEF Overdue
    <3>2. CASE g # h
      BY <2>2, <2>5, <2>6, <3>2 DEF ServiceInv, HeldInTime
    <3> QED BY <3>1, <3>2
  <2>10. ServedOnce'
    <3> SUFFICES ASSUME NEW j \in Ids PROVE served[j] <= reads'[j] /\ served[j] <= 1
      BY <2>1 DEF ServedOnce
    <3>1. reads[j] <= reads'[j]
      BY <1>5 DEF ReadContent, GetPaste, vars, ServiceInv, StoreInv, TypeInv, TypeOK
    <3> QED BY <1>1, <3>1 DEF ServiceInv, ServiceTyped, ServedOnce, Moved, StoreInv, TypeInv, TypeOK
  <2>11. Promises'
    BY <1>0, <1>1, <2>1, OtherAnswer, GoneKept, AnswersKept, TasksKept
  <2> QED BY <2>7, <2>8, <2>9, <2>10, <2>11
<1>6. ASSUME NEW h \in Handlers, NEW i \in Ids, ReadNotFound(h, i) \/ ReadBurned(h, i)
      PROVE  (Readers /\ Promises)'
  <2>1. UNCHANGED <<vars, task, got, served>>
    BY <1>6 DEF ReadNotFound, ReadBurned
  <2>2. Readers'
    BY <1>1, <2>1, HoldersKept DEF vars
  <2>3. \A j \in gone' \ gone : text[j] # Null /\ Shown[j] = Null
    BY <1>6 DEF ReadNotFound, ReadBurned, Stored, GetResult, Shown, Visible, ServiceInv, StoreInv,
       RowText, ReferentialIntegrity
  <2>4. GoneStaysGone'
    BY <1>0, <1>6, OtherAnswer, AnswersKept DEF ReadNotFound, ReadBurned
  <2> QED BY <1>1, <2>1, <2>2, <2>3, <2>4, GoneKept, TasksKept
<1>7. ASSUME NEW h \in Handlers, NEW i \in Ids, ReadFails(h, i) PROVE (Readers /\ Promises)'
  <2>1. UNCHANGED <<pc, task, got, served, gone>> /\ Tell(h, 500, "error")
    BY <1>7 DEF ReadFails, GetPasteAnswerLost, Claim, vars
  <2> QED BY <1>0, <1>1, <2>1, OtherAnswer, HoldersKept, GoneKept, AnswersKept, TasksKept
<1>8. ASSUME NEW h \in Handlers, Serve(h) PROVE (Readers /\ Promises)'
  <2> DEFINE i == got[h].id
  <2>1. /\ got[h] # Null /\ got[h] \in Loaded /\ i \in Ids /\ ~got[h].late
        /\ UNCHANGED <<vars, gone>>
    <3>1. got[h] # Null /\ got[h] \in Loaded /\ Clock <= got[h].expires /\ UNCHANGED <<vars, gone>>
      BY <1>8 DEF Serve, ServiceInv, ServiceTyped
    <3>2. Clock \in Int /\ got[h].expires \in Int
      BY <3>1, SkewAssumption DEF Clock, Loaded, ServiceInv, StoreInv, TypeInv, TypeOK
    <3> QED BY <3>1, <3>2 DEF ServiceInv, HeldInTime, Loaded
  <2>2. /\ got'[h] = Null /\ \A g \in Handlers \ {h} : got'[g] = got[g]
        /\ told'[h].late = FALSE /\ \A g \in Handlers \ {h} : told'[g] = told[g]
        /\ served' = IF got[h].burn THEN [served EXCEPT ![i] = @ + 1] ELSE served
    BY <1>8, <2>1 DEF Serve, Served, Answered, Tell, ServiceInv, ServiceTyped
  <2>3. HeldPastes' /\ HeldInTime'
    BY <2>1, <2>2 DEF vars, Clock, ServiceInv, HeldPastes, HeldInTime
  <2>4. got[h].burn => reads[i] = 1 /\ served[i] = 0 /\ served'[i] = 1
    BY <2>1, <2>2 DEF ServiceInv, HeldClaims, ServiceTyped
  <2>5. \A j \in Ids \ {i} : served'[j] = served[j]
    BY <2>2 DEF ServiceInv, ServiceTyped
  <2>6. HeldClaims'
    <3> SUFFICES ASSUME NEW g \in Handlers, got'[g] # Null, got'[g].burn
                 PROVE  /\ reads'[got'[g].id] = 1 /\ served'[got'[g].id] = 0
                        /\ \A f \in Handlers :
                             got'[f] # Null /\ got'[f].burn /\ got'[f].id = got'[g].id => f = g
      BY DEF HeldClaims
    <3>1. g # h /\ got'[g] = got[g] /\ got[g].id \in Ids
      BY <2>2 DEF ServiceInv, ServiceTyped, Loaded
    <3>2. got[h].burn => got[g].id # i
      BY <2>1, <3>1 DEF ServiceInv, HeldClaims
    <3> QED BY <2>1, <2>2, <2>5, <3>1, <3>2 DEF vars, ServiceInv, HeldClaims
  <2>7. ServedOnce'
    <3> SUFFICES ASSUME NEW j \in Ids PROVE served'[j] <= reads[j] /\ served'[j] <= 1
      BY <2>1 DEF vars, ServedOnce
    <3> QED BY <2>2, <2>4, <2>5 DEF ServiceInv, ServedOnce
  <2>8. GoneStaysGone'
    BY <2>2 DEF ServiceInv, GoneStaysGone
  <2>9. DoneIsErased'
    <3>1. \A j \in Ids : task'[j] = task[j] \/ (task'[j] \in {"queued", "rejected"} /\ reads[j] = 1)
      BY <1>8, <2>1, <2>4 DEF Serve, QueueDeletion, T!Accept, T!Reject, T!Settle, ServiceInv, ServiceTyped
    <3> QED BY <1>1, <3>1, TasksKept
  <2> QED BY <1>1, <2>1, <2>3, <2>6, <2>7, <2>8, <2>9, GoneKept
<1>9. ASSUME NEW h \in Handlers, got[h] # Null, Clock > got[h].expires, Expired(h), UNCHANGED <<task, served>>,
             \A d \in Handlers \ {h} : pc'[d] = "unmark" => pc[d] = "unmark"
      PROVE  (Readers /\ Promises)'
  <2>1. got[h] \in Loaded /\ got[h].id \in Ids /\ got[h].expires \in Int /\ text[got[h].id] # Null
    BY <1>9 DEF ServiceInv, ServiceTyped, Loaded, HeldPastes
  <2>2. Shown[got[h].id] = Null \/ Overdue(got[h].id)
    BY <1>9, <2>1 DEF Overdue, Shown, Visible, ServiceInv, HeldPastes, StoreInv, TypeInv, TypeOK
  <2>3. \A d \in Handlers : got'[d] \in {got[d], Null}
    BY <1>9 DEF Expired, Answered, ServiceInv, ServiceTyped
  <2>4. Readers'
    BY <1>1, <1>9, <2>3, HoldersKept
  <2>5. GoneHidden'
    BY <1>1, <1>9, <2>1, <2>2, GoneKept DEF Expired
  <2>6. GoneStaysGone'
    BY <1>0, <1>9, OtherAnswer, AnswersKept DEF Expired
  <2> QED BY <1>1, <1>9, <2>4, <2>5, <2>6, TasksKept
<1>10. ASSUME NEW h \in Handlers, ExpireDelete(h) PROVE (Readers /\ Promises)'
  <2>1. Clock > got[h].expires /\ got[h] # Null /\ UNCHANGED <<task, served>>
        /\ \A d \in Handlers \ {h} : pc'[d] = pc[d]
    BY <1>10 DEF ExpireDelete, DeletePaste, ServiceInv, StoreInv, TypeInv, TypeOK
  <2>2. CASE Remote
    <3>1. UNCHANGED <<told, gone, got>>
      BY <1>10, <2>2 DEF ExpireDelete
    <3> QED BY <1>1, <2>1, <3>1, HoldersKept, GoneKept, AnswersKept, TasksKept
  <2>3. CASE ~Remote
    BY <1>9, <1>10, <2>1, <2>3 DEF ExpireDelete
  <2> QED BY <2>2, <2>3
<1>11. ASSUME NEW h \in Handlers, ExpireMarker(h) PROVE (Readers /\ Promises)'
  <2>1. Clock > got[h].expires
    BY <1>11 DEF ExpireMarker, DeleteMarker, ServiceInv, HeldPastes
  <2>2. \A d \in Handlers : pc'[d] = "unmark" => pc[d] = "unmark"
    BY <1>0, <1>11, CallsMove DEF ExpireMarker
  <2> QED BY <1>9, <1>11, <2>1, <2>2 DEF ExpireMarker
<1>12. ASSUME NEW h \in Handlers, ExpireFails(h) PROVE (Readers /\ Promises)'
  <2>1. \A d \in Handlers : pc'[d] = pc[d]
    BY <1>12 DEF ExpireFails, DeletePasteAnswerLost, vars
  <2> QED BY <1>9, <1>12, <2>1 DEF ExpireFails
<1>13. ASSUME NEW w \in Workers, UNCHANGED <<got, told, served, gone>>,
              \A d \in Handlers : pc'[d] = "unmark" => pc[d] = "unmark", DoneIsErased'
       PROVE  (Readers /\ Promises)'
  BY <1>1, <1>13, HoldersKept, GoneKept, AnswersKept
<1>14. ASSUME NEW w \in Workers, NEW i \in Ids, Erase(w, i) PROVE (Readers /\ Promises)'
  <2>1. \A d \in Handlers : pc'[d] = pc[d]
    BY <1>14 DEF Erase, DeletePaste, ServiceInv, StoreInv, TypeInv, TypeOK
  <2>2. rows'[i] = Null
    BY <1>14 DEF Erase, DeletePaste, DeleteRows
  <2>3. DoneIsErased'
    BY <1>1, <1>14, <2>2, TasksKept DEF Erase, T!Succeed, T!Settle, ServiceInv, ServiceTyped
  <2> QED BY <1>13, <1>14, <2>1, <2>3 DEF Erase
<1>15. ASSUME NEW w \in Workers, EraseMarker(w) PROVE (Readers /\ Promises)'
  <2>1. \A d \in Handlers : pc'[d] = "unmark" => pc[d] = "unmark"
    BY <1>0, <1>15, CallsMove DEF EraseMarker
  <2>2. call[w] \in Ids /\ rows'[call[w]] = Null
    BY <1>15 DEF EraseMarker, DeleteMarker, ServiceInv, StoreInv, TypeInv, CallOK, UnmarkGone
  <2>3. DoneIsErased'
    BY <1>1, <1>15, <2>2, TasksKept DEF EraseMarker, T!Succeed, T!Settle, ServiceInv, ServiceTyped
  <2> QED BY <1>13, <1>15, <2>1, <2>3 DEF EraseMarker
<1>16. ASSUME NEW w \in Workers, NEW i \in Ids, EraseFails(w, i) PROVE (Readers /\ Promises)'
  <2>1. DoneIsErased'
    BY <1>1, <1>16, TasksKept DEF EraseFails, T!GiveUp, T!Settle, ServiceInv, ServiceTyped
  <2>2. pc' = pc
    BY <1>16 DEF EraseFails, DeletePasteAnswerLost, vars
  <2> QED BY <1>13, <1>16, <2>1, <2>2 DEF EraseFails
<1>17. ASSUME Crash PROVE (Readers /\ Promises)'
  <2>1. /\ \A h \in Handlers : got'[h] = Null /\ told'[h] = Null
        /\ UNCHANGED <<served, gone>>
        /\ \A i \in Ids : task'[i] = IF task[i] = "queued" THEN "failed" ELSE task[i]
    BY <1>17 DEF Crash
  <2>2. Readers'
    BY <1>1, <2>1, HoldersKept
  <2>3. GoneHidden' /\ GoneStaysGone'
    BY <1>1, <2>1, GoneKept, AnswersKept
  <2>4. DoneIsErased'
    BY <1>1, <2>1, TasksKept
  <2> QED BY <2>2, <2>3, <2>4
<1>18. ASSUME Environment PROVE (Readers /\ Promises)'
  <2>1. UNCHANGED <<pc, task, got, told, served, gone>>
    BY <1>18 DEF Environment, Tick, CleanupExpired, BanContentHash, BanPlaintextHash, Ban
  <2> QED BY <1>2a, <2>1
<1>19. ASSUME UNCHANGED serviceVars PROVE (Readers /\ Promises)'
  BY <1>2a, <1>19 DEF serviceVars, vars
<1> HIDE DEF Readers, Promises
<1>20. (Readers /\ Promises)'
  BY <1>3, <1>4, <1>5, <1>6, <1>7, <1>8, <1>10, <1>11, <1>12, <1>14, <1>15, <1>16, <1>17, <1>18, <1>19
     DEF ServiceNext, Request, Handle, Work
<1> QED BY <1>1, <1>20 DEF ServiceInv, Moved, Readers, Promises

LEMMA ServiceInvAlways == ServiceSpec => []ServiceInv
BY ServiceInvInit, ServiceInvStep, PTL DEF ServiceSpec

-----------------------------------------------------------------------------

\* Every reachable state of the tables, the requests and the deletions is well typed.
THEOREM ServiceTypeCorrect == ServiceSpec => []ServiceTypeOK
<1>1. ServiceInv => ServiceTypeOK
  BY DEF ServiceInv, StoreInv, TypeInv, ServiceTyped, ServiceTypeOK
<1> QED BY <1>1, ServiceInvAlways, PTL

\* The tables keep all that SqlStorage promises of them with the handlers, the
\* workers and the restarts around them.
THEOREM TablesSurvive ==
  ServiceSpec => [](ReferentialIntegrity /\ SingleCopy /\ ContentIntegrity /\ BurnOnce)
<1>1. ServiceInv => ReferentialIntegrity /\ SingleCopy /\ ContentIntegrity /\ BurnOnce
  BY ContentIntact DEF ServiceInv, StoreInv
<1> QED BY <1>1, ServiceInvAlways, PTL

\* And no content that was banned when a request's save began is written by it.
THEOREM BansSurvive == ServiceSpec => []BanChecked
<1>1. ServiceInit => BanInv
  BY BanInvInit DEF ServiceInit
<1>2. BanInv /\ Crash => BanInv'
  <2> SUFFICES ASSUME BanInv, Crash PROVE BanInv'
    OBVIOUS
  <2>1. TypeInv'
    BY DEF Crash, tables, BanInv, TypeInv, TypeOK, CallOK, Saving
  <2>2. BansKnown' /\ PlaintextChecked' /\ BanChecked'
    BY DEF Crash, BansKnown, PlaintextChecked, BanChecked
  <2> QED BY <2>1, <2>2 DEF BanInv
<1>3. ServiceInv /\ BanInv /\ [ServiceNext]_serviceVars => BanInv'
  BY <1>2, StorageStep, BanInvStep DEF ServiceInv
<1>4. BanInv => BanChecked
  BY DEF BanInv
<1> QED BY <1>1, <1>3, <1>4, ServiceInvAlways, PTL DEF ServiceSpec

\* Handlers, workers, lost answers and crashes are nothing but steps of a paste
\* store: the service implements PasteStore, as its tables alone do.
THEOREM ServiceImplementsStore == ServiceSpec => ImplementsStore
<1>1. ServiceInit => PS!StoreInit
  BY DEF ServiceInit, Init, PS!StoreInit, Shown, Visible
<1>2. Crash => UNCHANGED PS!storeVars
  BY DEF Crash, tables, PS!storeVars, Shown, Visible, ContentOf
<1>3. ServiceInv /\ ServiceInv' /\ [ServiceNext]_serviceVars => [PS!StoreNext]_(PS!storeVars)
  BY <1>2, StorageStep, StepImplements DEF ServiceInv
<1> QED BY <1>1, <1>3, ServiceInvAlways, PTL DEF ServiceSpec, ImplementsStore, PS!StoreSpec

\* A burn-after-read paste is served once, by the handler whose GetPaste claimed it.
THEOREM OneResponse == ServiceSpec => []ServedOnce
<1>1. ServiceInv => ServedOnce
  BY DEF ServiceInv
<1> QED BY <1>1, ServiceInvAlways, PTL

\* No request that begins after a reader was told "gone" is answered with the text.
THEOREM NothingComesBack == ServiceSpec => []GoneStaysGone
<1>1. ServiceInv => GoneStaysGone
  BY DEF ServiceInv
<1> QED BY <1>1, ServiceInvAlways, PTL

\* What the queue reports deleted is gone, and was claimed by a reader before.
THEOREM DeletionsAreReal == ServiceSpec => []DoneIsErased
<1>1. ServiceInv => DoneIsErased
  BY DEF ServiceInv
<1> QED BY <1>1, ServiceInvAlways, PTL

\* A row goes only when its paste was claimed or its lifetime is over.
LEMMA ErasedStep ==
  ServiceInv /\ [ServiceNext]_serviceVars =>
    \A i \in Ids : rows[i] # Null /\ rows'[i] = Null => i \in burned \/ rows[i].expires < now \/ rows[i].expires < Clock
<1> SUFFICES ASSUME ServiceInv, [ServiceNext]_serviceVars, NEW i \in Ids,
                    rows[i] # Null, rows'[i] = Null
             PROVE  i \in burned \/ rows[i].expires < now \/ rows[i].expires < Clock
  OBVIOUS
<1> USE ClientsAssumption DEF tables
<1> DEFINE Reason == i \in burned \/ rows[i].expires < now \/ rows[i].expires < Clock
<1>0. rows[i].expires \in Int /\ now \in Nat /\ Clock \in Int /\ rows' # rows
  BY SkewAssumption DEF Clock, ServiceInv, StoreInv, TypeInv, TypeOK, Row
<1>1. ASSUME NEW c \in Clients, SaveTx(c) PROVE FALSE
  <2> DEFINE row == NewRow(call[c], hashIndex[HashOf[call[c].blob]])
  <2>1. call[c].id \in Ids /\ call[c] \in SaveArgs /\ HashOf[call[c].blob] \in Hashes
        /\ hashIndex[HashOf[call[c].blob]] \in Ids \cup {Null}
    BY <1>1, SavingFacts DEF SaveTx, Saving, ServiceInv, StoreInv, TypeInv, TypeOK
  <2>2. row \in Row
    BY <2>1 DEF NewRow, Row, SaveArgs
  <2>3. rows' = [rows EXCEPT ![call[c].id] = row]
    BY <1>1 DEF SaveTx
  <2> HIDE DEF row
  <2> QED BY <2>1, <2>2, <2>3, NullAssumption DEF ServiceInv, StoreInv, TypeInv, TypeOK
<1>2. ASSUME NEW j \in Ids, DeleteRows({j}),
             reads[j] = 1 \/ (rows[j] # Null => Clock > rows[j].expires)
      PROVE  Reason
  <2>1. rows[i] \in Row /\ [rows[i] EXCEPT !.ref = Null] \in Row
    BY DEF ServiceInv, StoreInv, TypeInv, TypeOK, Row
  <2>2. i = j
    BY <1>2, <2>1, NullAssumption DEF DeleteRows
  <2> QED BY <1>0, <1>2, <2>2 DEF ServiceInv, StoreInv, BurnOnce
<1>3. ASSUME NEW h \in Handlers, Request(h) PROVE FALSE
  BY <1>0, <1>3 DEF Request, CreateStart, SaveStart, ReadContent, ReadNotFound, ReadBurned,
     ReadFails, GetPaste, GetPasteAnswerLost, Claim, vars
<1>4. ASSUME NEW h \in Handlers, ExpireDelete(h) PROVE Reason
  <2>1. got[h].id \in Ids /\ DeleteRows({got[h].id})
    BY <1>4 DEF ExpireDelete, DeletePaste, ServiceInv, ServiceTyped, Loaded
  <2>2. rows[got[h].id] # Null => Clock > rows[got[h].id].expires
    BY <1>4 DEF ExpireDelete, ServiceInv, HeldPastes
  <2> QED BY <1>2, <2>1, <2>2
<1>4a. ASSUME NEW h \in Handlers, ExpireFails(h) PROVE Reason
  <2>1. got[h].id \in Ids /\ DeleteRows({got[h].id})
    BY <1>0, <1>4a DEF ExpireFails, DeletePasteAnswerLost, vars, ServiceInv, ServiceTyped, Loaded
  <2>2. rows[got[h].id] # Null => Clock > rows[got[h].id].expires
    BY <1>4a DEF ExpireFails, ServiceInv, HeldPastes
  <2> QED BY <1>2, <2>1, <2>2
<1>5. ASSUME NEW h \in Handlers, Handle(h), ~ExpireDelete(h), ~ExpireFails(h) PROVE FALSE
  BY <1>0, <1>1, <1>5 DEF Handle, CreateChecks, SaveCheckPlaintext, SaveCheckHash, CreateSaved,
     CreateFails, SaveError, Serve, ExpireMarker, DeleteMarker, vars
<1>6. ASSUME NEW w \in Workers, NEW j \in Ids, Erase(w, j) PROVE Reason
  <2>1. DeleteRows({j}) /\ reads[j] = 1
    BY <1>6 DEF Erase, DeletePaste, ServiceInv, DoneIsErased
  <2> QED BY <1>2, <2>1
<1>6a. ASSUME NEW w \in Workers, NEW j \in Ids, EraseFails(w, j) PROVE Reason
  <2>1. DeleteRows({j}) /\ reads[j] = 1
    BY <1>0, <1>6a DEF EraseFails, DeletePasteAnswerLost, vars, ServiceInv, DoneIsErased
  <2> QED BY <1>2, <2>1
<1>7. ASSUME NEW w \in Workers, EraseMarker(w) PROVE FALSE
  BY <1>0, <1>7 DEF EraseMarker, DeleteMarker
<1>8. ASSUME CleanupExpired PROVE Reason
  <2>1. rows[i] \in Row /\ [rows[i] EXCEPT !.ref = Null] \in Row
    BY DEF ServiceInv, StoreInv, TypeInv, TypeOK, Row
  <2> QED BY <1>0, <1>8, <2>1, NullAssumption DEF CleanupExpired, DeleteRows
<1>9. ASSUME Environment PROVE Reason
  BY <1>0, <1>8, <1>9 DEF Environment, Tick, BanContentHash, BanPlaintextHash, Ban
<1>10. ASSUME Crash \/ UNCHANGED serviceVars PROVE FALSE
  BY <1>0, <1>10 DEF Crash, serviceVars, vars
<1> QED BY <1>3, <1>4, <1>4a, <1>5, <1>6, <1>6a, <1>7, <1>9, <1>10 DEF ServiceNext, Work

\* No handler, worker, sweep or crash erases a paste that others may still read.
THEOREM ErasedOnlyForReason == ServiceSpec => ErasedForReason
<1>1. ServiceInv /\ [ServiceNext]_serviceVars =>
        [\A i \in Ids : rows[i] # Null /\ rows'[i] = Null =>
           i \in burned \/ rows[i].expires < now \/ rows[i].expires < Clock]_serviceVars
  BY ErasedStep
<1> QED BY <1>1, ServiceInvAlways, PTL DEF ServiceSpec, ErasedForReason

=============================================================================
