-------------------------- MODULE GcsStorage_proofs --------------------------
(***************************************************************************)
(* Proofs about GcsStorage, for any number of clients, ids and strings,    *)
(* any number of failing requests and bans, and every order of requests.   *)
(***************************************************************************)
EXTENDS GcsStorage, TLAPS

Pcs == {"idle"} \cup SaveLabels \cup ReadLabels \cup EraseLabels
Labels == SaveLabels \cup ReadLabels \cup EraseLabels
Bans == Blobs \X {"ciphertext", "plaintext"}

\* The typing of the bucket, the clock and the history.
BucketTyped ==
  /\ pastes \in [Ids -> Object \cup {Null}]
  /\ burns \subseteq Ids
  /\ hashes \in [Blobs -> Ids \cup {Null}]
  /\ banned \subseteq Bans
  /\ now \in Nat /\ faults \in 0..MaxFaults
  /\ text \in [Ids -> Blobs \cup {Null}]
  /\ reads \in [Ids -> Nat] /\ outlived \subseteq Ids

\* ... and of the calls: from SaveFind on, a save has its deadline.
CallsTyped ==
  /\ pc \in [Clients -> Pcs]
  /\ call \in [Clients -> SaveCall \cup ReadCall \cup Ids \cup {Null}]
  /\ \A c \in Clients :
       /\ pc[c] = "idle" => call[c] = Null
       /\ pc[c] \in SaveLabels => call[c] \in SaveCall
       /\ pc[c] \in {"object", "index"} => call[c].expires \in Nat
       /\ pc[c] \in ReadLabels => call[c] \in ReadCall
       /\ pc[c] \in EraseLabels => call[c] \in Ids

TypeInv == BucketTyped /\ CallsTyped

LEMMA TypeInvInit == Init => TypeInv
BY FaultsAssumption DEF Init, TypeInv, BucketTyped, CallsTyped, Pcs, SaveLabels, ReadLabels, EraseLabels

LEMMA TypeInvIsTyped == TypeInv => TypeOK
<1> SUFFICES ASSUME TypeInv PROVE TypeOK
  OBVIOUS
<1>1. ASSUME NEW c \in Clients
      PROVE  call[c] \in CASE pc[c] = "idle" -> {Null}
                           [] pc[c] \in SaveLabels -> SaveCall
                           [] pc[c] \in ReadLabels -> ReadCall
                           [] pc[c] \in EraseLabels -> Ids
  BY DEF TypeInv, CallsTyped, Pcs, SaveLabels, ReadLabels, EraseLabels
<1> QED BY <1>1 DEF TypeInv, BucketTyped, CallsTyped, TypeOK, Pcs, Bans

\* A call that moves on leaves the others alone, and stays typed if its new record
\* belongs to its new label.
CallFits(c) ==
  /\ pc'[c] = "idle" => call'[c] = Null
  /\ pc'[c] \in SaveLabels => call'[c] \in SaveCall
  /\ pc'[c] \in {"object", "index"} => call'[c].expires \in Nat
  /\ pc'[c] \in ReadLabels => call'[c] \in ReadCall
  /\ pc'[c] \in EraseLabels => call'[c] \in Ids

LEMMA MoveTyped ==
  ASSUME CallsTyped, NEW c \in Clients, NEW label \in Pcs, NEW args,
         pc' = [pc EXCEPT ![c] = label],
         call' = [call EXCEPT ![c] = args],
         label = "idle" => args = Null,
         label \in SaveLabels => args \in SaveCall,
         label \in {"object", "index"} => args.expires \in Nat,
         label \in ReadLabels => args \in ReadCall,
         label \in EraseLabels => args \in Ids
  PROVE  CallsTyped'
<1>1. args \in SaveCall \cup ReadCall \cup Ids \cup {Null}
  BY DEF Pcs
<1>2. pc' \in [Clients -> Pcs] /\ call' \in [Clients -> SaveCall \cup ReadCall \cup Ids \cup {Null}]
  BY <1>1 DEF CallsTyped
<1>3. /\ pc'[c] = label /\ call'[c] = args
      /\ \A d \in Clients \ {c} : pc'[d] = pc[d] /\ call'[d] = call[d]
  BY DEF CallsTyped
<1> QED BY <1>2, <1>3 DEF CallsTyped

LEMMA ReturnTyped ==
  ASSUME CallsTyped, NEW c \in Clients, Return(c)
  PROVE  CallsTyped'
<1>1. "idle" \in Pcs /\ "idle" \notin SaveLabels \cup ReadLabels \cup EraseLabels
  BY DEF Pcs, SaveLabels, ReadLabels, EraseLabels
<1> QED BY <1>1, MoveTyped DEF Return

\* Going on with the same record.
LEMMA GotoTyped ==
  ASSUME CallsTyped, NEW c \in Clients, NEW label, Goto(c, label), UNCHANGED call,
         \/ pc[c] \in SaveLabels /\ label \in SaveLabels \ {"object", "index"}
         \/ pc[c] = "object" /\ label = "index"
         \/ pc[c] \in ReadLabels /\ label \in ReadLabels
  PROVE  CallsTyped'
<1>1. call' = [call EXCEPT ![c] = call[c]]
  BY DEF CallsTyped
<1>2. label \in Pcs /\ label # "idle"
  BY DEF Pcs, SaveLabels, ReadLabels, EraseLabels
<1> QED BY <1>1, <1>2, MoveTyped DEF Goto, CallsTyped, SaveLabels, ReadLabels, EraseLabels

\* The object of a save is well formed.
LEMMA WriteTyped ==
  ASSUME TypeInv, NEW c \in Clients, pc[c] = "object", WriteObject(c), faults' \in 0..MaxFaults
  PROVE  BucketTyped'
<1>1. call[c] \in SaveCall /\ call[c].expires \in Nat
  BY DEF TypeInv, CallsTyped, SaveLabels
<1>2. [content |-> IF call[c].original = Null THEN call[c].blob ELSE Null,
       ref |-> call[c].original, expires |-> call[c].expires, burn |-> call[c].burn] \in Object
  BY <1>1 DEF SaveCall, Object
<1> QED BY <1>1, <1>2 DEF WriteObject, SaveCall, TypeInv, BucketTyped

LEMMA FaultTyped == ASSUME faults \in 0..MaxFaults, Fault PROVE faults' \in 0..MaxFaults
BY FaultsAssumption DEF Fault

LEMMA TypeInvStep == TypeInv /\ [Next]_vars => TypeInv'
<1> SUFFICES ASSUME TypeInv, [Next]_vars PROVE TypeInv'
  OBVIOUS
<1> USE DEF bucket
<1>0. BucketTyped /\ CallsTyped
  BY DEF TypeInv
<1>1. ASSUME NEW c \in Clients, NEW i \in Ids, NEW b \in Blobs, NEW isPlaintext \in BOOLEAN,
             NEW burn \in BOOLEAN, NEW ttl \in TTLs, SaveStart(c, i, b, isPlaintext, burn, ttl)
      PROVE  TypeInv'
  <2> DEFINE args == [id |-> i, blob |-> b, isPlaintext |-> isPlaintext, burn |-> burn,
                      ttl |-> ttl, original |-> Null, expires |-> Null, known |-> banned]
             label == IF isPlaintext THEN "plain" ELSE "hash"
  <2>1. args \in SaveCall
    BY <1>0 DEF SaveCall, BucketTyped, Bans
  <2>2. pc' = [pc EXCEPT ![c] = label] /\ call' = [call EXCEPT ![c] = args]
    BY <1>1 DEF SaveStart, Begin
  <2>3. label \in {"plain", "hash"}
    OBVIOUS
  <2> HIDE DEF args, label
  <2>4. CallsTyped'
    BY <1>0, <2>1, <2>2, <2>3, MoveTyped DEF Pcs, SaveLabels, ReadLabels, EraseLabels
  <2> QED BY <1>0, <1>1, <2>4 DEF SaveStart, TypeInv, BucketTyped
<1>2. ASSUME NEW c \in Clients, SaveCheckPlaintext(c) \/ SaveCheckHash(c) PROVE TypeInv'
  <2>1. pc[c] \in SaveLabels /\ {"hash", "find"} \subseteq SaveLabels \ {"object", "index"}
    BY <1>2 DEF SaveCheckPlaintext, SaveCheckHash, At, SaveLabels
  <2>2. CallsTyped'
    BY <1>0, <1>2, <2>1, ReturnTyped, GotoTyped DEF SaveCheckPlaintext, SaveCheckHash, CheckBan
  <2> QED BY <1>0, <1>2, <2>2
        DEF SaveCheckPlaintext, SaveCheckHash, CheckBan, TypeInv, BucketTyped
<1>3. ASSUME NEW c \in Clients, SaveFind(c) PROVE TypeInv'
  <2> DEFINE args == [call[c] EXCEPT !.original = hashes[call[c].blob],
                                     !.expires = now + call[c].ttl]
  <2>1. pc[c] = "find" /\ call[c] \in SaveCall
    BY <1>0, <1>3 DEF SaveFind, At, CallsTyped, SaveLabels
  <2>2. call[c].blob \in Blobs /\ call[c].ttl \in Nat
    BY <2>1, TTLAssumption DEF SaveCall
  <2>3. hashes[call[c].blob] \in Ids \cup {Null} /\ now + call[c].ttl \in Nat
    BY <1>0, <2>2 DEF BucketTyped
  <2>4. args \in SaveCall /\ args.expires \in Nat
    BY <2>1, <2>3 DEF SaveCall
  <2>5. call' = [call EXCEPT ![c] = args] /\ pc' = [pc EXCEPT ![c] = "object"]
    BY <1>3 DEF SaveFind, Goto
  <2> HIDE DEF args
  <2>6. CallsTyped'
    BY <1>0, <2>4, <2>5, MoveTyped DEF Pcs, SaveLabels, ReadLabels, EraseLabels
  <2> QED BY <1>0, <1>3, <2>6 DEF SaveFind, TypeInv, BucketTyped
<1>4. ASSUME NEW c \in Clients, SaveObject(c) PROVE TypeInv'
  <2>1. BucketTyped'
    BY <1>0, <1>4, WriteTyped DEF SaveObject, At, BucketTyped
  <2>2. CallsTyped'
    BY <1>0, <1>4, ReturnTyped, GotoTyped DEF SaveObject, At
  <2> QED BY <2>1, <2>2 DEF TypeInv
<1>5. ASSUME NEW c \in Clients, SaveIndex(c) PROVE TypeInv'
  <2>1. call[c] \in SaveCall
    BY <1>0, <1>5 DEF SaveIndex, At, CallsTyped, SaveLabels
  <2>2. CallsTyped'
    BY <1>0, <1>5, ReturnTyped DEF SaveIndex
  <2> QED BY <1>0, <1>5, <2>1, <2>2 DEF SaveIndex, TypeInv, BucketTyped, SaveCall
<1>6. ASSUME NEW c \in Clients, SaveError(c) PROVE TypeInv'
  <2>1. CallsTyped' /\ faults' \in 0..MaxFaults
    BY <1>0, <1>6, ReturnTyped, FaultTyped DEF SaveError, BucketTyped
  <2>2. call[c] \in SaveCall
    BY <1>0, <1>6 DEF SaveError, Saving, CallsTyped
  <2>3. CASE At(c, "object") /\ WriteObject(c)
    BY <2>1, <2>3, WriteTyped DEF At, TypeInv
  <2>4. CASE UNCHANGED <<bucket, now, text, reads, outlived>>
    BY <1>0, <2>1, <2>4 DEF TypeInv, BucketTyped
  <2>5. CASE /\ hashes' = [hashes EXCEPT ![call[c].blob] = call[c].id]
             /\ UNCHANGED <<pastes, burns, banned, now, text, reads, outlived>>
    BY <1>0, <2>1, <2>2, <2>5 DEF TypeInv, BucketTyped, SaveCall
  <2> QED BY <1>6, <2>3, <2>4, <2>5 DEF SaveError
<1>7. ASSUME NEW c \in Clients, NEW i \in Ids, ReadStart(c, i) PROVE TypeInv'
  <2> DEFINE args == [id |-> i, ref |-> pastes[i].ref, expires |-> pastes[i].expires,
                      burn |-> pastes[i].burn]
  <2>1. args \in ReadCall
    BY <1>0, <1>7 DEF ReadStart, ReadCall, BucketTyped, Object
  <2>2. pc' = [pc EXCEPT ![c] = "marker"] /\ call' = [call EXCEPT ![c] = args]
    BY <1>7 DEF ReadStart, Begin
  <2> HIDE DEF args
  <2>3. CallsTyped'
    BY <1>0, <2>1, <2>2, MoveTyped DEF Pcs, SaveLabels, ReadLabels, EraseLabels
  <2> QED BY <1>0, <1>7, <2>3 DEF ReadStart, TypeInv, BucketTyped
<1>8. ASSUME NEW c \in Clients, ReadMarker(c) \/ ReadReference(c) PROVE TypeInv'
  <2>1. CallsTyped'
    BY <1>0, <1>8, ReturnTyped, GotoTyped DEF ReadMarker, ReadReference, At, ReadLabels
  <2>2. faults' \in 0..MaxFaults
    BY <1>0, <1>8, FaultTyped DEF ReadMarker, ReadReference, BucketTyped
  <2> QED BY <1>0, <1>8, <2>1, <2>2 DEF ReadMarker, ReadReference, TypeInv, BucketTyped
<1>9. ASSUME NEW c \in Clients, ReadClock(c) PROVE TypeInv'
  <2>1. call[c] \in ReadCall
    BY <1>0, <1>9 DEF ReadClock, At, CallsTyped, ReadLabels
  <2>2. CallsTyped'
    BY <1>0, <1>9, GotoTyped DEF ReadClock, At, ReadLabels
  <2>3. faults' \in 0..MaxFaults
    BY <1>0, <1>9, FaultTyped DEF ReadClock, RemoveTarget, BucketTyped
  <2> QED BY <1>0, <1>9, <2>1, <2>2, <2>3 DEF ReadClock, RemoveTarget, TypeInv, BucketTyped, ReadCall
<1>10. ASSUME NEW c \in Clients, ReadSweep(c) \/ ReadClaim(c) PROVE TypeInv'
  <2>1. call[c] \in ReadCall
    BY <1>0, <1>10 DEF ReadSweep, ReadClaim, At, CallsTyped, ReadLabels
  <2>2. CallsTyped'
    BY <1>0, <1>10, ReturnTyped, GotoTyped DEF ReadSweep, ReadClaim, At, ReadLabels
  <2>3. faults' \in 0..MaxFaults
    BY <1>0, <1>10, FaultTyped DEF ReadSweep, ReadClaim, BucketTyped
  <2> QED BY <1>0, <1>10, <2>1, <2>2, <2>3 DEF ReadSweep, ReadClaim, TypeInv, BucketTyped, ReadCall
<1>11. ASSUME NEW c \in Clients, ReadContent(c) PROVE TypeInv'
  <2>1. call[c].id \in Ids
    BY <1>0, <1>11 DEF ReadContent, At, CallsTyped, ReadLabels, ReadCall
  <2>2. reads' \in [Ids -> Nat]
    BY <1>0, <1>11, <2>1 DEF ReadContent, BucketTyped
  <2> QED BY <1>0, <1>11, <2>2, ReturnTyped DEF ReadContent, TypeInv, BucketTyped
<1>12. ASSUME NEW c \in Clients, ReadError(c) PROVE TypeInv'
  <2>1. call[c].id \in Ids
    BY <1>0, <1>12 DEF ReadError, CallsTyped, ReadLabels, ReadCall
  <2>2. CallsTyped' /\ faults' \in 0..MaxFaults
    BY <1>0, <1>12, ReturnTyped, FaultTyped DEF ReadError, BucketTyped
  <2>3. burns' \subseteq Ids
    BY <1>0, <1>12, <2>1 DEF ReadError, BucketTyped
  <2> QED BY <1>0, <1>12, <2>2, <2>3 DEF ReadError, TypeInv, BucketTyped
<1>13. ASSUME NEW c \in Clients, NEW i \in Ids, DeleteObject(c, i) PROVE TypeInv'
  <2>1. CallsTyped'
    BY <1>0, <1>13, MoveTyped DEF DeleteObject, Begin, Pcs, SaveLabels, ReadLabels, EraseLabels
  <2> QED BY <1>0, <1>13, <2>1 DEF DeleteObject, TypeInv, BucketTyped
<1>14. ASSUME NEW c \in Clients, DeleteMarker(c) \/ DeleteMarkerError(c) PROVE TypeInv'
  <2>1. CallsTyped' /\ faults' \in 0..MaxFaults
    BY <1>0, <1>14, ReturnTyped, FaultTyped DEF DeleteMarker, DeleteMarkerError, BucketTyped
  <2> QED BY <1>0, <1>14, <2>1 DEF DeleteMarker, DeleteMarkerError, TypeInv, BucketTyped
<1>15. ASSUME NEW i \in Ids, MarkBurned(i) PROVE TypeInv'
  BY <1>0, <1>15 DEF MarkBurned, TypeInv, BucketTyped, CallsTyped
<1>16. ASSUME NEW b \in Blobs, BanContentHash(b) \/ BanPlaintextHash(b) PROVE TypeInv'
  BY <1>0, <1>16 DEF BanContentHash, BanPlaintextHash, Ban, Bans, TypeInv, BucketTyped, CallsTyped
<1>17. CASE Tick
  BY <1>0, <1>17 DEF Tick, TypeInv, BucketTyped, CallsTyped
<1>18. CASE UNCHANGED vars
  BY <1>0, <1>18 DEF vars, TypeInv, BucketTyped, CallsTyped
<1> QED
  BY <1>1, <1>2, <1>3, <1>4, <1>5, <1>6, <1>7, <1>8, <1>9, <1>10, <1>11, <1>12, <1>13, <1>14,
     <1>15, <1>16, <1>17, <1>18 DEF Next, SavePaste, GetPaste, DeletePaste

\* The bucket, every call in progress and the history keep their types.
THEOREM TypeCorrect == Spec => []TypeOK
BY TypeInvInit, TypeInvStep, TypeInvIsTyped, PTL DEF Spec

-----------------------------------------------------------------------------
(* Content.  What was written once is settled: an id that carries a text    *)
(* carries it for good, and if it holds the content itself it never becomes *)
(* a reference, since no later save gets its id.                            *)

Settled(j, b) == text[j] = b /\ (pastes[j] # Null => pastes[j].ref = Null)

\* An object holds its text, or refers to one that is settled on the same text.
Objects ==
  \A i \in Ids : pastes[i] # Null =>
    /\ text[i] # Null
    /\ pastes[i].ref = Null => pastes[i].content = text[i]
    /\ pastes[i].ref # Null => Settled(pastes[i].ref, text[i])

Entries == \A b \in Blobs : hashes[b] # Null => Settled(hashes[b], b)

\* What a call may rely on between two of its requests.
CallKnows(c) ==
  /\ pc[c] \in SaveLabels \ {"index"} => text[call[c].id] = Null
  /\ pc[c] = "object" /\ call[c].original # Null => Settled(call[c].original, call[c].blob)
  /\ pc[c] = "index" => Settled(call[c].id, call[c].blob)
  /\ pc[c] \in ReadLabels =>
       text[call[c].id] # Null /\ Settled(Target(call[c]), text[call[c].id])
  /\ pc[c] \in EraseLabels => text[call[c]] # Null

SavesApart ==
  \A c, d \in Clients : Saving(c) /\ Saving(d) /\ c # d => call[c].id # call[d].id

ContentInv == Objects /\ Entries /\ (\A c \in Clients : CallKnows(c)) /\ SavesApart

LEMMA ContentInvInit == Init => ContentInv
BY DEF Init, ContentInv, Objects, Entries, CallKnows, SavesApart, Saving, SaveLabels, ReadLabels,
       EraseLabels

\* A step that writes no object: objects may go.
Kept == text' = text /\ \A i \in Ids : pastes'[i] \in {pastes[i], Null}

\* Another client's step.
Idle(c) == pc'[c] = pc[c] /\ call'[c] = call[c]

\* A save in progress keeps its id, and none begins.
SameSave(c) == Saving(c)' => Saving(c) /\ call'[c].id = call[c].id

LEMMA CallStays ==
  ASSUME TypeInv, NEW c \in Clients, CallKnows(c), Kept, Idle(c)
  PROVE  CallKnows(c)'
<1>1. pc[c] \in SaveLabels => call[c].id \in Ids /\ call[c].original \in Ids \cup {Null}
  BY DEF TypeInv, CallsTyped, SaveCall
<1>2. pc[c] \in ReadLabels => call[c].id \in Ids /\ Target(call[c]) \in Ids
  BY DEF TypeInv, CallsTyped, ReadCall, Target
<1>3. Target(call[c])' = Target(call[c])
  BY DEF Target, Idle
<1> QED BY <1>1, <1>2, <1>3 DEF CallKnows, Kept, Idle, Settled, SaveLabels

LEMMA ContentKept ==
  ASSUME TypeInv, ContentInv, Kept, UNCHANGED hashes,
         \A d \in Clients : Idle(d) \/ (CallKnows(d)' /\ SameSave(d))
  PROVE  ContentInv'
<1>1. Objects'
  <2> SUFFICES ASSUME NEW i \in Ids, pastes'[i] # Null
               PROVE  /\ text'[i] # Null
                      /\ pastes'[i].ref = Null => pastes'[i].content = text'[i]
                      /\ pastes'[i].ref # Null => Settled(pastes[i].ref, text[i])'
    BY DEF Objects
  <2>1. pastes'[i] = pastes[i] /\ pastes[i].ref \in Ids \cup {Null}
    BY DEF Kept, TypeInv, BucketTyped, Object
  <2> QED BY <2>1 DEF Kept, ContentInv, Objects, Settled
<1>2. Entries'
  BY DEF Kept, ContentInv, Entries, Settled, TypeInv, BucketTyped
<1>3. \A d \in Clients : CallKnows(d)'
  BY CallStays DEF ContentInv
<1>4. SavesApart'
  BY DEF ContentInv, SavesApart, Idle, SameSave, Saving
<1> QED BY <1>1, <1>2, <1>3, <1>4 DEF ContentInv

\* The end of a call leaves nothing to know.
LEMMA ReturnKnows ==
  ASSUME TypeInv, NEW c \in Clients, Return(c)
  PROVE  /\ CallKnows(c)' /\ SameSave(c)
         /\ \A d \in Clients \ {c} : Idle(d)
<1>1. pc'[c] = "idle"
  BY DEF Return, TypeInv, CallsTyped
<1> QED BY <1>1 DEF Return, TypeInv, CallsTyped, CallKnows, SameSave, Saving, Idle, SaveLabels,
                    ReadLabels, EraseLabels

LEMMA ReturnKeepsContent ==
  ASSUME TypeInv, ContentInv, Kept, UNCHANGED hashes, NEW c \in Clients, Return(c)
  PROVE  ContentInv'
BY ReturnKnows, ContentKept

\* Going on with the same record within the saves before their write, or within
\* the reads.
LEMMA GotoKeepsContent ==
  ASSUME TypeInv, ContentInv, Kept, UNCHANGED <<hashes, call>>, NEW c \in Clients,
         NEW label, Goto(c, label),
         \/ pc[c] \in SaveLabels \ {"index"} /\ label \in SaveLabels \ {"object", "index"}
         \/ pc[c] \in ReadLabels /\ label \in ReadLabels
  PROVE  ContentInv'
<1>1. pc'[c] = label /\ \A d \in Clients \ {c} : Idle(d)
  BY DEF Goto, TypeInv, CallsTyped, Idle
<1>2. pc[c] \in SaveLabels => call[c].id \in Ids
  BY DEF TypeInv, CallsTyped, SaveCall
<1>3. pc[c] \in ReadLabels => call[c].id \in Ids /\ Target(call[c]) \in Ids
  BY DEF TypeInv, CallsTyped, ReadCall, Target
<1>4. Target(call[c])' = Target(call[c])
  BY DEF Target
<1>5. CallKnows(c)' /\ SameSave(c)
  BY <1>1, <1>2, <1>3, <1>4 DEF ContentInv, CallKnows, Kept, Settled, SameSave, Saving,
     SaveLabels, ReadLabels, EraseLabels
<1> QED BY <1>1, <1>5, ContentKept

\* The write of a save: its id had no text, so nothing settled is touched.
LEMMA WriteSettles ==
  ASSUME TypeInv, ContentInv, NEW c \in Clients, pc[c] = "object", WriteObject(c)
  PROVE  /\ \A j \in Ids, b \in Blobs : Settled(j, b) => Settled(j, b)' /\ j # call[c].id
         /\ \A j \in Ids : j # call[c].id => text'[j] = text[j] /\ pastes'[j] = pastes[j]
         /\ text'[call[c].id] = call[c].blob /\ pastes'[call[c].id].ref = call[c].original
         /\ Objects' /\ Entries'
         /\ \A d \in Clients \ {c} : Idle(d) => CallKnows(d)'
<1> DEFINE a == call[c]
<1>1. a \in SaveCall /\ a.id \in Ids /\ a.blob \in Blobs /\ text[a.id] = Null /\ a.blob # Null
  BY IdsAssumption DEF TypeInv, CallsTyped, SaveLabels, SaveCall, ContentInv, CallKnows
<1>2. /\ text'[a.id] = a.blob
      /\ pastes'[a.id] = [content |-> IF a.original = Null THEN a.blob ELSE Null,
                          ref |-> a.original, expires |-> a.expires, burn |-> a.burn]
      /\ \A j \in Ids : j # a.id => text'[j] = text[j] /\ pastes'[j] = pastes[j]
      /\ hashes' = hashes
  BY <1>1 DEF WriteObject, TypeInv, BucketTyped
<1>3. a.original # Null => a.original \in Ids /\ Settled(a.original, a.blob)
  BY <1>1 DEF SaveCall, ContentInv, CallKnows
<1> HIDE DEF a
<1>4. ASSUME NEW j \in Ids, NEW b \in Blobs, Settled(j, b)
      PROVE  Settled(j, b)' /\ j # a.id
  BY <1>1, <1>2, <1>4, IdsAssumption DEF Settled
<1>5. text'[a.id] = a.blob /\ pastes'[a.id].ref = a.original
  BY <1>2
<1>6. Objects'
  <2> SUFFICES ASSUME NEW i \in Ids, pastes'[i] # Null
               PROVE  /\ text'[i] # Null
                      /\ pastes'[i].ref = Null => pastes'[i].content = text'[i]
                      /\ pastes'[i].ref # Null => Settled(pastes[i].ref, text[i])'
    BY DEF Objects
  <2>1. CASE i = a.id
    BY <1>1, <1>2, <1>3, <1>4, <2>1 DEF Settled
  <2>2. CASE i # a.id
    <3>1. pastes[i] # Null /\ pastes[i].ref \in Ids \cup {Null} /\ text[i] \in Blobs \cup {Null}
      BY <1>2, <2>2 DEF TypeInv, BucketTyped, Object
    <3> QED BY <1>2, <1>4, <2>2, <3>1 DEF ContentInv, Objects, Settled
  <2> QED BY <2>1, <2>2
<1>7. Entries'
  BY <1>2, <1>4 DEF ContentInv, Entries, TypeInv, BucketTyped
<1>8. ASSUME NEW d \in Clients \ {c}, Idle(d) PROVE CallKnows(d)'
  <2>1. CallKnows(d)
    BY DEF ContentInv
  <2>2. CASE pc[d] \in SaveLabels
    <3>1. call[d] \in SaveCall /\ call[d].id \in Ids /\ call[d].blob \in Blobs
          /\ call[d].original \in Ids \cup {Null}
      BY <2>2 DEF TypeInv, CallsTyped, SaveCall
    <3>2. call[d].id # a.id
      BY <2>2 DEF ContentInv, SavesApart, Saving, a, SaveLabels
    <3> QED BY <1>2, <1>4, <1>8, <2>1, <2>2, <3>1, <3>2
          DEF CallKnows, Idle, SaveLabels, ReadLabels, EraseLabels
  <2>3. CASE pc[d] \in ReadLabels
    <3>1. call[d].id \in Ids /\ Target(call[d]) \in Ids /\ text[call[d].id] \in Blobs
      BY <2>1, <2>3 DEF TypeInv, BucketTyped, CallsTyped, ReadCall, Target, CallKnows
    <3>2. call[d].id # a.id /\ Settled(Target(call[d]), text[call[d].id])
      BY <1>1, <2>1, <2>3 DEF CallKnows
    <3>3. Settled(Target(call[d]), text[call[d].id])' /\ text'[call[d].id] # Null
      BY <1>2, <1>4, <1>8, <3>1, <3>2, IdsAssumption DEF Idle, Settled, Target
    <3> QED BY <1>8, <2>3, <3>3 DEF CallKnows, Idle, SaveLabels, ReadLabels, EraseLabels
  <2>4. CASE pc[d] \in EraseLabels
    BY <1>1, <1>2, <1>8, <2>1, <2>4 DEF CallKnows, Idle, SaveLabels, ReadLabels, EraseLabels,
       TypeInv, CallsTyped
  <2>5. CASE pc[d] = "idle"
    BY <1>8, <2>5 DEF CallKnows, Idle, SaveLabels, ReadLabels, EraseLabels
  <2> QED BY <2>2, <2>3, <2>4, <2>5 DEF TypeInv, CallsTyped, Pcs
<1> QED BY <1>2, <1>4, <1>5, <1>6, <1>7, <1>8 DEF a

LEMMA ContentInvStep == TypeInv /\ TypeInv' /\ ContentInv /\ [Next]_vars => ContentInv'
<1> SUFFICES ASSUME TypeInv, TypeInv', ContentInv, [Next]_vars PROVE ContentInv'
  OBVIOUS
<1> USE DEF bucket
<1>0. ASSUME UNCHANGED <<pastes, text>> PROVE Kept
  BY <1>0 DEF Kept
<1>1. ASSUME NEW c \in Clients, NEW i \in Ids, NEW b \in Blobs, NEW isPlaintext \in BOOLEAN,
             NEW burn \in BOOLEAN, NEW ttl \in TTLs, SaveStart(c, i, b, isPlaintext, burn, ttl)
      PROVE  ContentInv'
  <2>1. /\ pc'[c] \in {"plain", "hash"} /\ call'[c].id = i /\ text'[i] = Null
        /\ \A d \in Clients \ {c} : Idle(d) /\ (Saving(d) => call[d].id # i)
        /\ Kept /\ UNCHANGED hashes
    BY <1>0, <1>1 DEF SaveStart, Begin, Fresh, TypeInv, CallsTyped, Idle
  <2>2. Objects' /\ Entries'
    <3>1. ASSUME NEW k \in Ids, pastes[k] # Null PROVE pastes[k].ref \in Ids \cup {Null}
      BY <3>1 DEF TypeInv, BucketTyped, Object
    <3> QED BY <1>1, <3>1 DEF SaveStart, ContentInv, Objects, Entries, Settled
  <2>3. CallKnows(c)'
    BY <2>1 DEF CallKnows, SaveLabels, ReadLabels, EraseLabels
  <2>4. \A d \in Clients : CallKnows(d)'
    BY <2>1, <2>3, CallStays DEF ContentInv
  <2>5. SavesApart'
    BY <2>1 DEF ContentInv, SavesApart, Saving, Idle
  <2> QED BY <2>2, <2>4, <2>5 DEF ContentInv
<1>2. ASSUME NEW c \in Clients, SaveCheckPlaintext(c) \/ SaveCheckHash(c) PROVE ContentInv'
  <2>1. /\ pc[c] \in SaveLabels \ {"index"} /\ {"hash", "find"} \subseteq SaveLabels \ {"object", "index"}
        /\ Kept /\ UNCHANGED hashes
    BY <1>0, <1>2 DEF SaveCheckPlaintext, SaveCheckHash, CheckBan, At, SaveLabels
  <2> QED BY <1>2, <2>1, ReturnKeepsContent, GotoKeepsContent
        DEF SaveCheckPlaintext, SaveCheckHash, CheckBan
<1>3. ASSUME NEW c \in Clients, SaveFind(c) PROVE ContentInv'
  <2>1. pc[c] = "find" /\ call[c] \in SaveCall
    BY <1>3 DEF SaveFind, At, TypeInv, CallsTyped, SaveLabels
  <2>2. /\ pc'[c] = "object"
        /\ call'[c] = [call[c] EXCEPT !.original = hashes[call[c].blob], !.expires = now + call[c].ttl]
        /\ \A d \in Clients \ {c} : Idle(d)
        /\ Kept /\ UNCHANGED <<hashes, text, pastes>>
    BY <1>0, <1>3 DEF SaveFind, Goto, TypeInv, CallsTyped, Idle
  <2>3. /\ call'[c].id = call[c].id /\ call'[c].blob = call[c].blob
        /\ call'[c].original = hashes[call[c].blob] /\ call[c].blob \in Blobs
    BY <2>1, <2>2 DEF SaveCall
  <2>4. CallKnows(c)'
    BY <2>1, <2>2, <2>3 DEF ContentInv, CallKnows, Entries, Settled, SaveLabels, ReadLabels,
       EraseLabels
  <2>5. SameSave(c)
    BY <2>1, <2>3 DEF SameSave, Saving, SaveLabels
  <2> QED BY <2>2, <2>4, <2>5, ContentKept
<1>4. ASSUME NEW c \in Clients, pc[c] = "object", WriteObject(c),
             \/ Return(c)
             \/ Goto(c, "index") /\ UNCHANGED call /\ call[c].original = Null
      PROVE  ContentInv'
  <2>1. \A d \in Clients \ {c} : Idle(d)
    BY <1>4 DEF Return, Goto, Idle, TypeInv, CallsTyped
  <2>2. CallKnows(c)' /\ SameSave(c)
    <3>1. CASE Return(c)
      BY <3>1, ReturnKnows
    <3>2. CASE Goto(c, "index") /\ UNCHANGED call /\ call[c].original = Null
      <4>1. pc'[c] = "index" /\ call'[c] = call[c]
        BY <3>2 DEF Goto, TypeInv, CallsTyped
      <4>2. text'[call[c].id] = call[c].blob /\ pastes'[call[c].id].ref = Null
        BY <1>4, <3>2, WriteSettles
      <4> QED BY <1>4, <4>1, <4>2 DEF CallKnows, Settled, SameSave, Saving, SaveLabels,
                 ReadLabels, EraseLabels
    <3> QED BY <1>4, <3>1, <3>2
  <2>3. \A d \in Clients : CallKnows(d)'
    BY <1>4, <2>1, <2>2, WriteSettles
  <2>4. SavesApart'
    BY <2>1, <2>2 DEF ContentInv, SavesApart, Idle, SameSave, Saving
  <2> QED BY <1>4, <2>3, <2>4, WriteSettles DEF ContentInv
<1>5. ASSUME NEW c \in Clients, pc[c] = "index", Return(c), UNCHANGED <<pastes, text>>,
             hashes' = [hashes EXCEPT ![call[c].blob] = call[c].id]
      PROVE  ContentInv'
  <2>1. call[c].id \in Ids /\ call[c].blob \in Blobs /\ Settled(call[c].id, call[c].blob)
    BY <1>5 DEF TypeInv, CallsTyped, SaveLabels, SaveCall, ContentInv, CallKnows
  <2>2. Entries'
    BY <1>5, <2>1 DEF ContentInv, Entries, Settled, TypeInv, BucketTyped
  <2>3. Objects'
    <3>1. ASSUME NEW k \in Ids, pastes[k] # Null PROVE pastes[k].ref \in Ids \cup {Null}
      BY <3>1 DEF TypeInv, BucketTyped, Object
    <3> QED BY <1>5, <3>1 DEF ContentInv, Objects, Settled
  <2>4. \A d \in Clients : CallKnows(d)'
    BY <1>0, <1>5, ReturnKnows, CallStays DEF ContentInv
  <2>5. SavesApart'
    BY <1>5, ReturnKnows DEF ContentInv, SavesApart, Idle, SameSave, Saving
  <2> QED BY <2>2, <2>3, <2>4, <2>5 DEF ContentInv
<1>6. ASSUME NEW c \in Clients, SaveObject(c) \/ SaveIndex(c) PROVE ContentInv'
  BY <1>4, <1>5, <1>6 DEF SaveObject, SaveIndex, At
<1>7. ASSUME NEW c \in Clients, SaveError(c) PROVE ContentInv'
  BY <1>0, <1>4, <1>5, <1>7, ReturnKeepsContent DEF SaveError, At
<1>8. ASSUME NEW c \in Clients, NEW i \in Ids, ReadStart(c, i) PROVE ContentInv'
  <2>1. /\ pc'[c] = "marker" /\ call'[c].id = i /\ call'[c].ref = pastes[i].ref
        /\ \A d \in Clients \ {c} : Idle(d)
        /\ Kept /\ UNCHANGED <<hashes, text, pastes>> /\ pastes[i] # Null
    BY <1>0, <1>8 DEF ReadStart, Begin, TypeInv, CallsTyped, Idle
  <2>2. Target(call[c])' = IF pastes[i].ref = Null THEN i ELSE pastes[i].ref
    BY <2>1 DEF Target
  <2>3. text[i] # Null /\ Settled(IF pastes[i].ref = Null THEN i ELSE pastes[i].ref, text[i])
    BY <2>1 DEF ContentInv, Objects, Settled
  <2>4. CallKnows(c)' /\ SameSave(c)
    BY <2>1, <2>2, <2>3 DEF CallKnows, SameSave, Settled, Saving, SaveLabels, ReadLabels,
       EraseLabels
  <2> QED BY <2>1, <2>4, ContentKept
<1>9. ASSUME NEW c \in Clients,
             ReadMarker(c) \/ ReadReference(c) \/ ReadSweep(c) \/ ReadClaim(c) \/ ReadContent(c)
               \/ ReadError(c)
      PROVE  ContentInv'
  <2>1. /\ Return(c) \/ (UNCHANGED call /\ \E label \in ReadLabels : Goto(c, label))
        /\ pc[c] \in ReadLabels /\ Kept /\ UNCHANGED hashes
    BY <1>0, <1>9 DEF ReadMarker, ReadReference, ReadSweep, ReadClaim, ReadContent, ReadError, At,
       ReadLabels
  <2> QED BY <2>1, ReturnKeepsContent, GotoKeepsContent
<1>10. ASSUME NEW c \in Clients, ReadClock(c) PROVE ContentInv'
  <2>1. UNCHANGED <<call, hashes, text>> /\ pc[c] \in ReadLabels
        /\ \E label \in ReadLabels : Goto(c, label)
    BY <1>10 DEF ReadClock, At, ReadLabels
  <2>2. Kept
    BY <1>10 DEF ReadClock, RemoveTarget, Kept, TypeInv, BucketTyped
  <2> QED BY <2>1, <2>2, GotoKeepsContent
<1>11. ASSUME NEW c \in Clients, NEW i \in Ids, DeleteObject(c, i) PROVE ContentInv'
  <2>1. Kept /\ UNCHANGED <<hashes, text>>
    BY <1>11 DEF DeleteObject, Kept, TypeInv, BucketTyped
  <2>2. /\ pc'[c] = "unmark" /\ call'[c] = i /\ text'[i] # Null
        /\ \A d \in Clients \ {c} : Idle(d)
    BY <1>11 DEF DeleteObject, Begin, Idle, TypeInv, CallsTyped
  <2>3. CallKnows(c)' /\ SameSave(c)
    BY <2>2 DEF CallKnows, SameSave, Saving, SaveLabels, ReadLabels, EraseLabels
  <2> QED BY <2>1, <2>2, <2>3, ContentKept
<1>12. ASSUME NEW c \in Clients, DeleteMarker(c) \/ DeleteMarkerError(c) PROVE ContentInv'
  BY <1>0, <1>12, ReturnKeepsContent DEF DeleteMarker, DeleteMarkerError
<1>13. ASSUME UNCHANGED <<pastes, hashes, text, pc, call>> PROVE ContentInv'
  BY <1>0, <1>13, ContentKept DEF Idle
<1>14. ASSUME NEW i \in Ids, MarkBurned(i) PROVE ContentInv'
  BY <1>13, <1>14 DEF MarkBurned
<1>15. ASSUME NEW b \in Blobs, BanContentHash(b) \/ BanPlaintextHash(b) PROVE ContentInv'
  BY <1>13, <1>15 DEF BanContentHash, BanPlaintextHash, Ban
<1>16. CASE Tick \/ UNCHANGED vars
  BY <1>13, <1>16 DEF Tick, vars
<1> QED
  BY <1>1, <1>2, <1>3, <1>6, <1>7, <1>8, <1>9, <1>10, <1>11, <1>12, <1>14, <1>15, <1>16
     DEF Next, SavePaste, GetPaste, DeletePaste

LEMMA TypeInvariant == Spec => []TypeInv
BY TypeInvInit, TypeInvStep, PTL DEF Spec

LEMMA ContentInvariant == Spec => []ContentInv
BY TypeInvariant, ContentInvInit, ContentInvStep, PTL DEF Spec

\* A settled id that is still there holds its text.
LEMMA SettledHolds ==
  ASSUME TypeInv, ContentInv, NEW j \in Ids, NEW b, Settled(j, b), pastes[j] # Null
  PROVE  text[j] = b /\ pastes[j].content = b
BY DEF ContentInv, Objects, Settled

\* The bucket never hands out another paste's text, although saves of the same
\* content race for the index, originals are deleted under their references and
\* every request can fail, with its write applied or not.
THEOREM ReadersGetTheirText == Spec => []ContentIntegrity
<1>1. TypeInv /\ ContentInv => ContentIntegrity
  <2> SUFFICES ASSUME TypeInv, ContentInv PROVE ContentIntegrity
    OBVIOUS
  <2> DEFINE Original(i, j) ==
               text[j] = text[i] /\ (pastes[j] # Null => pastes[j].content = text[i])
  <2>1. ASSUME NEW i \in Ids, pastes[i] # Null
        PROVE  Original(i, IF pastes[i].ref = Null THEN i ELSE pastes[i].ref)
    <3>1. pastes[i].ref \in Ids \cup {Null}
      BY <2>1 DEF TypeInv, BucketTyped, Object
    <3>2. CASE pastes[i].ref = Null
      BY <2>1, <3>2 DEF ContentInv, Objects
    <3>3. CASE pastes[i].ref # Null
      <4>1. pastes[i].ref \in Ids /\ Settled(pastes[i].ref, text[i])
        BY <2>1, <3>1, <3>3 DEF ContentInv, Objects
      <4> QED BY <3>3, <4>1, SettledHolds DEF Settled
    <3> QED BY <3>2, <3>3
  <2>2. ASSUME NEW b \in Blobs, hashes[b] # Null
        PROVE  text[hashes[b]] = b /\ (pastes[hashes[b]] # Null => pastes[hashes[b]].ref = Null)
    BY <2>2 DEF ContentInv, Entries, Settled
  <2>3. ASSUME NEW c \in Clients, pc[c] \in ReadLabels
        PROVE  Original(call[c].id, Target(call[c]))
    <3>1. Target(call[c]) \in Ids
      BY <2>3 DEF TypeInv, CallsTyped, ReadCall, Target
    <3>2. Settled(Target(call[c]), text[call[c].id])
      BY <2>3 DEF ContentInv, CallKnows
    <3> QED BY <3>1, <3>2, SettledHolds DEF Settled
  <2> QED BY <2>1, <2>2, <2>3 DEF ContentIntegrity
<1> QED BY <1>1, TypeInvariant, ContentInvariant, PTL

-----------------------------------------------------------------------------
(* Burn after read.  An original whose removals all succeeded is claimed    *)
(* once while its object is there: its marker outlives the object.          *)

\* A reader that has claimed the burn paste i and goes for its content.
Reader(c, i) == pc[c] = "content" /\ call[c].id = i /\ call[c].burn

\* A marker is removed after its object; only references are read through another.
CallBurns(c) ==
  /\ pc[c] \in ReadLabels /\ call[c].ref # Null => call[c].id \in outlived
  /\ pc[c] = "sweep" => call[c].id \in outlived \/ pastes[call[c].id] = Null
  /\ pc[c] = "unmark" => pastes[call[c]] = Null

References == \A i \in Ids : pastes[i] # Null /\ pastes[i].ref # Null => i \in outlived

\* While the object is there its first claim is marked, and it is the only one.
ClaimedOnce ==
  \A i \in Ids \ outlived : pastes[i] # Null =>
    /\ reads[i] > 0 => i \in burns
    /\ \A c \in Clients : Reader(c, i) =>
         i \in burns /\ reads[i] = 0 /\ \A d \in Clients : Reader(d, i) => d = c

ReadsStored == \A i \in Ids : reads[i] > 0 => text[i] # Null

BurnInv ==
  /\ BurnOnceOriginal /\ References /\ ClaimedOnce /\ ReadsStored
  /\ \A c \in Clients : CallBurns(c)

LEMMA BurnInvInit == Init => BurnInv
BY DEF Init, BurnInv, BurnOnceOriginal, References, ClaimedOnce, ReadsStored, CallBurns, ReadLabels

\* Objects may go, markers are only added or belong to an object that is gone, and
\* nobody gets to the content of a burn paste.
LEMMA BurnKept ==
  ASSUME TypeInv, BurnInv, Kept, UNCHANGED reads, outlived \subseteq outlived',
         \A i \in burns \ burns' : i \in outlived \/ pastes[i] = Null,
         \A d \in Clients : Idle(d) \/ (CallBurns(d)' /\ \A i \in Ids : ~Reader(d, i)')
  PROVE  BurnInv'
<1>1. BurnOnceOriginal' /\ ReadsStored'
  BY DEF BurnInv, BurnOnceOriginal, ReadsStored, Kept
<1>2. References'
  BY DEF BurnInv, References, Kept
<1>3. ASSUME NEW d \in Clients PROVE CallBurns(d)'
  <2>1. CASE Idle(d)
    <3>1. pc[d] \in ReadLabels => call[d].id \in Ids
      BY DEF TypeInv, CallsTyped, ReadCall
    <3>2. pc[d] = "unmark" => call[d] \in Ids
      BY DEF TypeInv, CallsTyped, EraseLabels
    <3> QED BY <2>1, <3>1, <3>2 DEF BurnInv, CallBurns, Idle, Kept, ReadLabels
  <2> QED BY <2>1
<1>4. ASSUME NEW d \in Clients, NEW i \in Ids, Reader(d, i)' PROVE Reader(d, i)
  BY <1>4 DEF Reader, Idle
<1>5. ClaimedOnce'
  <2> SUFFICES ASSUME NEW i \in Ids \ outlived', pastes'[i] # Null
               PROVE  /\ reads'[i] > 0 => i \in burns'
                      /\ \A c \in Clients : Reader(c, i)' =>
                           /\ i \in burns' /\ reads'[i] = 0
                           /\ \A d \in Clients : Reader(d, i)' => d = c
    BY DEF ClaimedOnce
  <2>1. pastes[i] # Null /\ i \in Ids \ outlived /\ (i \in burns => i \in burns')
    BY DEF Kept
  <2> QED BY <1>4, <2>1 DEF BurnInv, ClaimedOnce
<1> QED BY <1>1, <1>2, <1>3, <1>5 DEF BurnInv

LEMMA ReturnBurns ==
  ASSUME TypeInv, NEW c \in Clients, Return(c)
  PROVE  /\ CallBurns(c)' /\ \A i \in Ids : ~Reader(c, i)'
         /\ \A d \in Clients \ {c} : Idle(d)
<1>1. pc'[c] = "idle"
  BY DEF Return, TypeInv, CallsTyped
<1> QED BY <1>1, ReturnKnows DEF CallBurns, Reader, ReadLabels

LEMMA GotoBurns ==
  ASSUME TypeInv, BurnInv, NEW c \in Clients, NEW label, Goto(c, label), UNCHANGED call,
         outlived \subseteq outlived',
         (pc[c] \in SaveLabels /\ label \in SaveLabels) \/ (pc[c] \in ReadLabels /\ label \in ReadLabels),
         label = "content" => ~call[c].burn,
         label = "sweep" => call[c].id \in outlived' \/ pastes'[call[c].id] = Null
  PROVE  /\ CallBurns(c)' /\ \A i \in Ids : ~Reader(c, i)'
         /\ \A d \in Clients \ {c} : Idle(d)
<1>1. pc'[c] = label /\ call'[c] = call[c] /\ \A d \in Clients \ {c} : Idle(d)
  BY DEF Goto, TypeInv, CallsTyped, Idle
<1> QED BY <1>1 DEF BurnInv, CallBurns, Reader, SaveLabels, ReadLabels

LEMMA BurnInvStep == TypeInv /\ TypeInv' /\ ContentInv /\ BurnInv /\ [Next]_vars => BurnInv'
<1> SUFFICES ASSUME TypeInv, TypeInv', ContentInv, BurnInv, [Next]_vars PROVE BurnInv'
  OBVIOUS
<1> USE DEF bucket
<1>0. ASSUME UNCHANGED <<pastes, text>> PROVE Kept
  BY <1>0 DEF Kept
<1>1. ASSUME NEW c \in Clients, NEW i \in Ids, NEW b \in Blobs, NEW isPlaintext \in BOOLEAN,
             NEW burn \in BOOLEAN, NEW ttl \in TTLs, SaveStart(c, i, b, isPlaintext, burn, ttl)
      PROVE  BurnInv'
  <2>1. pc'[c] \in {"plain", "hash"} /\ \A d \in Clients \ {c} : Idle(d)
    BY <1>1 DEF SaveStart, Begin, TypeInv, CallsTyped, Idle
  <2>2. CallBurns(c)' /\ \A j \in Ids : ~Reader(c, j)'
    BY <2>1 DEF CallBurns, Reader, ReadLabels
  <2> QED BY <1>0, <1>1, <2>1, <2>2, BurnKept DEF SaveStart
<1>2. ASSUME NEW c \in Clients, SaveCheckPlaintext(c) \/ SaveCheckHash(c) PROVE BurnInv'
  <2>1. Return(c) \/ (UNCHANGED call /\ \E label \in {"hash", "find"} : Goto(c, label))
    BY <1>2 DEF SaveCheckPlaintext, SaveCheckHash, CheckBan
  <2>2. pc[c] \in SaveLabels /\ {"hash", "find"} \subseteq SaveLabels /\ Kept
        /\ UNCHANGED <<reads, burns, outlived>>
    BY <1>0, <1>2 DEF SaveCheckPlaintext, SaveCheckHash, CheckBan, At, SaveLabels
  <2>3. CallBurns(c)' /\ (\A i \in Ids : ~Reader(c, i)') /\ \A d \in Clients \ {c} : Idle(d)
    BY <2>1, <2>2, ReturnBurns, GotoBurns
  <2> QED BY <2>2, <2>3, BurnKept
<1>3. ASSUME NEW c \in Clients, SaveFind(c) PROVE BurnInv'
  <2>1. pc'[c] = "object" /\ \A d \in Clients \ {c} : Idle(d)
    BY <1>3 DEF SaveFind, Goto, TypeInv, CallsTyped, Idle
  <2>2. CallBurns(c)' /\ \A j \in Ids : ~Reader(c, j)'
    BY <2>1 DEF CallBurns, Reader, ReadLabels
  <2> QED BY <1>0, <1>3, <2>1, <2>2, BurnKept DEF SaveFind
<1>4. ASSUME NEW c \in Clients, pc[c] = "object", WriteObject(c),
             \/ Return(c)
             \/ Goto(c, "index") /\ UNCHANGED call
      PROVE  BurnInv'
  <2> DEFINE i == call[c].id
  <2>1. call[c] \in SaveCall /\ i \in Ids /\ text[i] = Null /\ reads[i] = 0
    BY <1>4 DEF TypeInv, BucketTyped, CallsTyped, SaveLabels, SaveCall, ContentInv, CallKnows,
       BurnInv, ReadsStored
  <2>2. /\ \A j \in Ids \ {i} : pastes'[j] = pastes[j] /\ text'[j] = text[j]
        /\ pastes'[i].ref = call[c].original /\ text'[i] # Null
        /\ UNCHANGED <<burns, reads>>
        /\ outlived' = IF call[c].original = Null THEN outlived ELSE outlived \cup {i}
    BY <1>4, <2>1, IdsAssumption, WriteSettles DEF WriteObject, SaveCall
  <2>3. \A d \in Clients \ {c} : Idle(d)
    BY <1>4 DEF Return, Goto, Idle, TypeInv, CallsTyped
  <2>4. pc'[c] \in {"idle", "index"}
    BY <1>4 DEF Return, Goto, TypeInv, CallsTyped
  <2> HIDE DEF i
  <2>5. ASSUME NEW d \in Clients \ {c}
        PROVE  /\ pc[d] \in ReadLabels => call[d].id \in Ids \ {i}
               /\ pc[d] = "unmark" => call[d] \in Ids \ {i}
    BY <2>1 DEF TypeInv, CallsTyped, ReadCall, EraseLabels, ContentInv, CallKnows
  <2>6. \A d \in Clients : CallBurns(d)'
    <3>1. CallBurns(c)'
      BY <2>4 DEF CallBurns, ReadLabels
    <3>2. ASSUME NEW d \in Clients \ {c} PROVE CallBurns(d)'
      BY <2>2, <2>3, <2>5 DEF CallBurns, BurnInv, Idle, ReadLabels
    <3> QED BY <3>1, <3>2
  <2>7. ASSUME NEW d \in Clients, NEW j \in Ids, Reader(d, j)'
        PROVE  Reader(d, j) /\ j # i
    <3>1. d # c
      BY <2>4, <2>7 DEF Reader
    <3> QED BY <2>3, <2>5, <2>7, <3>1 DEF Reader, Idle, ReadLabels
  <2>8. ClaimedOnce'
    <3> SUFFICES ASSUME NEW j \in Ids \ outlived', pastes'[j] # Null
                 PROVE  /\ reads'[j] > 0 => j \in burns'
                        /\ \A e \in Clients : Reader(e, j)' =>
                             /\ j \in burns' /\ reads'[j] = 0
                             /\ \A d \in Clients : Reader(d, j)' => d = e
      BY DEF ClaimedOnce
    <3>1. CASE j = i
      BY <2>1, <2>2, <2>7, <3>1
    <3>2. CASE j # i
      BY <2>2, <2>7, <3>2 DEF BurnInv, ClaimedOnce
    <3> QED BY <3>1, <3>2
  <2>9. BurnOnceOriginal' /\ References' /\ ReadsStored'
    BY <2>1, <2>2 DEF BurnInv, BurnOnceOriginal, References, ReadsStored
  <2> QED BY <2>6, <2>8, <2>9 DEF BurnInv
<1>5. ASSUME NEW c \in Clients, Return(c), UNCHANGED <<pastes, text, reads, outlived>>,
             burns \subseteq burns'
      PROVE  BurnInv'
  BY <1>0, <1>5, ReturnBurns, BurnKept
<1>6. ASSUME NEW c \in Clients, SaveObject(c) \/ SaveIndex(c) \/ SaveError(c) PROVE BurnInv'
  BY <1>4, <1>5, <1>6 DEF SaveObject, SaveIndex, SaveError, At, WriteObject
<1>7. ASSUME NEW c \in Clients, NEW i \in Ids, ReadStart(c, i) PROVE BurnInv'
  <2>1. /\ pc'[c] = "marker" /\ call'[c].id = i /\ call'[c].ref = pastes[i].ref
        /\ \A d \in Clients \ {c} : Idle(d)
        /\ Kept /\ UNCHANGED <<burns, reads, outlived>> /\ pastes[i] # Null
    BY <1>0, <1>7 DEF ReadStart, Begin, TypeInv, CallsTyped, Idle
  <2>2. CallBurns(c)' /\ \A j \in Ids : ~Reader(c, j)'
    BY <2>1 DEF CallBurns, Reader, BurnInv, References
  <2> QED BY <2>1, <2>2, BurnKept
<1>8. ASSUME NEW c \in Clients, ReadMarker(c) \/ ReadReference(c) PROVE BurnInv'
  <2>1. Return(c) \/ (UNCHANGED call /\ \E label \in {"reference", "clock"} : Goto(c, label))
    BY <1>8 DEF ReadMarker, ReadReference
  <2>2. pc[c] \in ReadLabels /\ {"reference", "clock"} \subseteq ReadLabels /\ Kept
        /\ UNCHANGED <<reads, burns, outlived>>
    BY <1>0, <1>8 DEF ReadMarker, ReadReference, At, ReadLabels
  <2>3. CallBurns(c)' /\ (\A i \in Ids : ~Reader(c, i)') /\ \A d \in Clients \ {c} : Idle(d)
    BY <2>1, <2>2, ReturnBurns, GotoBurns
  <2> QED BY <2>2, <2>3, BurnKept
<1>9. ASSUME NEW c \in Clients, ReadClock(c) PROVE BurnInv'
  <2>1. /\ pc[c] \in ReadLabels /\ UNCHANGED <<burns, reads, call, text>>
        /\ outlived \subseteq outlived'
    BY <1>9 DEF ReadClock, RemoveTarget, At, ReadLabels
  <2>2. call[c] \in ReadCall
    BY <2>1 DEF TypeInv, CallsTyped
  <2>3. Kept
    BY <1>9 DEF ReadClock, RemoveTarget, Kept, TypeInv, BucketTyped
  <2>4. CASE now > call[c].expires
    <3>1. Goto(c, "sweep") /\ RemoveTarget(call[c])
      BY <1>9, <2>4 DEF ReadClock
    <3>2. call[c].id \in outlived' \/ pastes'[call[c].id] = Null
      <4>1. CASE call[c].ref # Null
        BY <2>1, <4>1 DEF BurnInv, CallBurns
      <4>2. CASE call[c].ref = Null
        BY <2>2, <3>1, <4>2 DEF RemoveTarget, Target, ReadCall, TypeInv, BucketTyped
      <4> QED BY <4>1, <4>2
    <3>3. CallBurns(c)' /\ (\A i \in Ids : ~Reader(c, i)') /\ \A d \in Clients \ {c} : Idle(d)
      BY <2>1, <3>1, <3>2, GotoBurns DEF ReadLabels
    <3> QED BY <2>1, <2>3, <3>3, BurnKept
  <2>5. CASE ~(now > call[c].expires)
    <3>1. Goto(c, IF call[c].burn THEN "claim" ELSE "content") /\ UNCHANGED outlived
      BY <1>9, <2>5 DEF ReadClock
    <3>2. CallBurns(c)' /\ (\A i \in Ids : ~Reader(c, i)') /\ \A d \in Clients \ {c} : Idle(d)
      BY <2>1, <3>1, GotoBurns DEF ReadLabels
    <3> QED BY <2>1, <2>3, <3>2, BurnKept
  <2> QED BY <2>4, <2>5
<1>10. ASSUME NEW c \in Clients, ReadSweep(c) PROVE BurnInv'
  <2>1. call[c].id \in outlived \/ pastes[call[c].id] = Null
    BY <1>10 DEF ReadSweep, At, BurnInv, CallBurns
  <2> QED BY <1>0, <1>10, <2>1, ReturnBurns, BurnKept DEF ReadSweep
<1>11. ASSUME NEW c \in Clients, ReadClaim(c), call[c].id \notin burns PROVE BurnInv'
  <2> DEFINE i == call[c].id
  <2>1. call[c] \in ReadCall /\ i \in Ids
    BY <1>11 DEF ReadClaim, At, TypeInv, CallsTyped, ReadLabels, ReadCall
  <2>2. /\ pc[c] = "claim" /\ pc'[c] = "content" /\ call'[c] = call[c]
        /\ \A d \in Clients \ {c} : Idle(d)
        /\ burns' = burns \cup {i} /\ UNCHANGED <<pastes, text, reads, outlived>>
    BY <1>11 DEF ReadClaim, At, Goto, Idle, TypeInv, CallsTyped
  <2> HIDE DEF i
  <2>3. i \notin outlived /\ pastes[i] # Null =>
          reads[i] = 0 /\ \A d \in Clients : ~Reader(d, i)
    BY <1>11, <2>1 DEF BurnInv, ClaimedOnce, TypeInv, BucketTyped, i
  <2>4. \A d \in Clients, j \in Ids : Reader(d, j)' => Reader(d, j) \/ (d = c /\ j = i)
    BY <2>2 DEF Reader, Idle, i
  <2>5. ClaimedOnce'
    <3> SUFFICES ASSUME NEW j \in Ids \ outlived', pastes'[j] # Null
                 PROVE  /\ reads'[j] > 0 => j \in burns'
                        /\ \A e \in Clients : Reader(e, j)' =>
                             /\ j \in burns' /\ reads'[j] = 0
                             /\ \A d \in Clients : Reader(d, j)' => d = e
      BY DEF ClaimedOnce
    <3>1. CASE j = i
      BY <2>2, <2>3, <2>4, <3>1
    <3>2. CASE j # i
      BY <2>2, <2>4, <3>2 DEF BurnInv, ClaimedOnce
    <3> QED BY <3>1, <3>2
  <2>6. \A d \in Clients : CallBurns(d)'
    BY <2>2 DEF BurnInv, CallBurns, Idle, ReadLabels
  <2>7. BurnOnceOriginal' /\ References' /\ ReadsStored'
    BY <2>2 DEF BurnInv, BurnOnceOriginal, References, ReadsStored
  <2> QED BY <2>5, <2>6, <2>7 DEF BurnInv
<1>12. ASSUME NEW c \in Clients, ReadClaim(c), call[c].id \in burns PROVE BurnInv'
  BY <1>5, <1>12 DEF ReadClaim
<1>13. ASSUME NEW c \in Clients, ReadContent(c) PROVE BurnInv'
  <2> DEFINE i == call[c].id
  <2>1. call[c] \in ReadCall /\ i \in Ids /\ text[i] # Null
    BY <1>13 DEF ReadContent, At, TypeInv, CallsTyped, ReadLabels, ReadCall, ContentInv, CallKnows
  <2>2. UNCHANGED <<pastes, burns, text, outlived>> /\ Return(c) /\ pc[c] = "content"
    BY <1>13 DEF ReadContent, At
  <2>3. CASE reads' = reads
    BY <1>5, <2>2, <2>3
  <2>4. CASE call[c].burn /\ pastes[Target(call[c])] # Null
    <3>1. reads' = [reads EXCEPT ![i] = @ + 1]
      BY <1>13, <2>4 DEF ReadContent
    <3>2. Reader(c, i)
      BY <2>2, <2>4 DEF Reader
    <3> HIDE DEF i
    <3>3. ASSUME i \notin outlived
          PROVE  /\ pastes[i] # Null /\ reads[i] = 0 /\ i \in burns
                 /\ \A d \in Clients : Reader(d, i) => d = c
      <4>1. Target(call[c]) = i
        BY <2>2, <3>3 DEF BurnInv, CallBurns, ReadLabels, Target, i
      <4> QED BY <2>1, <2>4, <3>2, <3>3, <4>1 DEF BurnInv, ClaimedOnce
    <3>4. /\ \A j \in Ids \ {i} : reads'[j] = reads[j]
          /\ reads'[i] = reads[i] + 1 /\ reads[i] \in Nat
      BY <2>1, <3>1 DEF TypeInv, BucketTyped
    <3>5. /\ \A d \in Clients, j \in Ids : Reader(d, j)' => Reader(d, j) /\ d # c
          /\ \A d \in Clients : CallBurns(d)'
      BY <2>2, ReturnBurns DEF BurnInv, CallBurns, Reader, Idle
    <3>6. BurnOnceOriginal' /\ References' /\ ReadsStored'
      BY <2>1, <2>2, <3>3, <3>4 DEF BurnInv, BurnOnceOriginal, References, ReadsStored
    <3>7. ClaimedOnce'
      <4> SUFFICES ASSUME NEW j \in Ids \ outlived', pastes'[j] # Null
                   PROVE  /\ reads'[j] > 0 => j \in burns'
                          /\ \A e \in Clients : Reader(e, j)' =>
                               /\ j \in burns' /\ reads'[j] = 0
                               /\ \A d \in Clients : Reader(d, j)' => d = e
        BY DEF ClaimedOnce
      <4>1. CASE j = i
        BY <2>2, <3>3, <3>5, <4>1
      <4>2. CASE j # i
        BY <2>2, <3>4, <3>5, <4>2 DEF BurnInv, ClaimedOnce
      <4> QED BY <4>1, <4>2
    <3> QED BY <3>5, <3>6, <3>7 DEF BurnInv
  <2> QED BY <1>13, <2>3, <2>4 DEF ReadContent
<1>14. ASSUME NEW c \in Clients, ReadError(c) PROVE BurnInv'
  BY <1>5, <1>14 DEF ReadError
<1>15. ASSUME NEW c \in Clients, NEW i \in Ids, DeleteObject(c, i) PROVE BurnInv'
  <2>1. Kept /\ UNCHANGED <<burns, reads, outlived>> /\ pastes'[i] = Null
    BY <1>15 DEF DeleteObject, Kept, TypeInv, BucketTyped
  <2>2. pc'[c] = "unmark" /\ call'[c] = i /\ \A d \in Clients \ {c} : Idle(d)
    BY <1>15 DEF DeleteObject, Begin, Idle, TypeInv, CallsTyped
  <2>3. CallBurns(c)' /\ \A j \in Ids : ~Reader(c, j)'
    BY <2>1, <2>2 DEF CallBurns, Reader, ReadLabels
  <2> QED BY <2>1, <2>2, <2>3, BurnKept
<1>16. ASSUME NEW c \in Clients, DeleteMarker(c) PROVE BurnInv'
  <2>1. pastes[call[c]] = Null
    BY <1>16 DEF DeleteMarker, At, BurnInv, CallBurns
  <2> QED BY <1>0, <1>16, <2>1, ReturnBurns, BurnKept DEF DeleteMarker
<1>17. ASSUME NEW c \in Clients, DeleteMarkerError(c) PROVE BurnInv'
  BY <1>5, <1>17 DEF DeleteMarkerError
<1>18. ASSUME UNCHANGED <<pastes, text, reads, outlived, pc, call>>, burns \subseteq burns'
       PROVE  BurnInv'
  BY <1>0, <1>18, BurnKept DEF Idle
<1>19. ASSUME NEW i \in Ids, MarkBurned(i) PROVE BurnInv'
  BY <1>18, <1>19 DEF MarkBurned
<1>20. ASSUME NEW b \in Blobs, BanContentHash(b) \/ BanPlaintextHash(b) PROVE BurnInv'
  BY <1>18, <1>20 DEF BanContentHash, BanPlaintextHash, Ban
<1>21. CASE Tick \/ UNCHANGED vars
  BY <1>18, <1>21 DEF Tick, vars
<1> QED
  BY <1>1, <1>2, <1>3, <1>6, <1>7, <1>8, <1>9, <1>10, <1>11, <1>12, <1>13, <1>14, <1>15, <1>16,
     <1>17, <1>19, <1>20, <1>21 DEF Next, SavePaste, GetPaste, DeletePaste

\* One reader gets the content of an original, whatever readers, deletions, expiry
\* sweeps and failing requests are interleaved, as long as no removal of its own
\* object failed.
THEOREM OriginalsReadOnce == Spec => []BurnOnceOriginal
<1>1. BurnInv => BurnOnceOriginal
  BY DEF BurnInv
<1> QED BY <1>1, TypeInvariant, ContentInvariant, BurnInvInit, BurnInvStep, PTL DEF Spec

-----------------------------------------------------------------------------
(* Bans.  They only grow, so what a save finds unbanned was unbanned when   *)
(* it began.                                                                *)

\* The checks a save has behind it, in the bans it found at its beginning.
SaveChecked(c) ==
  /\ pc[c] \in SaveLabels => call[c].known \subseteq banned
  /\ pc[c] \in SaveLabels \ {"plain"} /\ call[c].isPlaintext =>
       <<call[c].blob, "plaintext">> \notin call[c].known
  /\ pc[c] \in {"find", "object", "index"} =>
       <<call[c].blob, "ciphertext">> \notin call[c].known

BanInv == \A c \in Clients : SaveChecked(c)

\* A call that is no save, and one that has come no further, has nothing to check.
LEMMA BanKept ==
  ASSUME BanInv, banned \subseteq banned',
         \A d \in Clients : Idle(d) \/ pc'[d] \notin SaveLabels \/ SaveChecked(d)'
  PROVE  BanInv'
<1> SUFFICES ASSUME NEW d \in Clients PROVE SaveChecked(d)'
  BY DEF BanInv
<1>1. CASE Idle(d)
  BY <1>1 DEF BanInv, SaveChecked, Idle
<1>2. CASE pc'[d] \notin SaveLabels
  BY <1>2 DEF SaveChecked, SaveLabels
<1> QED BY <1>1, <1>2

LEMMA BanInvStep == TypeInv /\ BanInv /\ [Next]_vars => BanInv'
<1> SUFFICES ASSUME TypeInv, BanInv, [Next]_vars PROVE BanInv'
  OBVIOUS
<1> USE DEF bucket
<1>1. ASSUME NEW c \in Clients, Return(c), UNCHANGED banned PROVE BanInv'
  <2>1. pc'[c] \notin SaveLabels /\ \A d \in Clients \ {c} : Idle(d)
    BY <1>1 DEF Return, Idle, TypeInv, CallsTyped, SaveLabels
  <2> QED BY <1>1, <2>1, BanKept
<1>2. ASSUME NEW c \in Clients, NEW label \in ReadLabels \cup EraseLabels, pc'[c] = label,
             \A d \in Clients \ {c} : Idle(d), UNCHANGED banned
      PROVE  BanInv'
  <2>1. pc'[c] \notin SaveLabels
    BY <1>2 DEF SaveLabels, ReadLabels, EraseLabels
  <2> QED BY <1>2, <2>1, BanKept
<1>3. ASSUME NEW c \in Clients, NEW i \in Ids, NEW b \in Blobs, NEW isPlaintext \in BOOLEAN,
             NEW burn \in BOOLEAN, NEW ttl \in TTLs, SaveStart(c, i, b, isPlaintext, burn, ttl)
      PROVE  BanInv'
  <2>1. /\ pc'[c] = IF isPlaintext THEN "plain" ELSE "hash"
        /\ call'[c].known = banned /\ call'[c].isPlaintext = isPlaintext
        /\ UNCHANGED banned /\ \A d \in Clients \ {c} : Idle(d)
    BY <1>3 DEF SaveStart, Begin, Idle, TypeInv, CallsTyped
  <2>2. SaveChecked(c)'
    BY <2>1 DEF SaveChecked
  <2> QED BY <2>1, <2>2, BanKept
<1>4. ASSUME NEW c \in Clients, SaveCheckPlaintext(c) \/ SaveCheckHash(c) PROVE BanInv'
  <2> DEFINE kind == IF At(c, "plain") THEN "plaintext" ELSE "ciphertext"
             next == IF At(c, "plain") THEN "hash" ELSE "find"
  <2>1. pc[c] \in {"plain", "hash"} /\ UNCHANGED banned
        /\ (Return(c) \/ (<<call[c].blob, kind>> \notin banned /\ Goto(c, next) /\ UNCHANGED call))
    BY <1>4 DEF SaveCheckPlaintext, SaveCheckHash, CheckBan, At
  <2>2. CASE Return(c)
    BY <1>1, <2>1, <2>2
  <2>3. CASE <<call[c].blob, kind>> \notin banned /\ Goto(c, next) /\ UNCHANGED call
    <3>1. /\ pc'[c] = next /\ call'[c] = call[c]
          /\ \A d \in Clients \ {c} : Idle(d)
      BY <2>3 DEF Goto, Idle, TypeInv, CallsTyped
    <3>2. SaveChecked(c)'
      BY <2>1, <2>3, <3>1 DEF BanInv, SaveChecked, SaveLabels, At
    <3> QED BY <2>1, <3>1, <3>2, BanKept
  <2> QED BY <2>1, <2>2, <2>3
<1>5. ASSUME NEW c \in Clients, SaveFind(c) PROVE BanInv'
  <2>1. call[c] \in SaveCall /\ pc[c] = "find"
    BY <1>5 DEF SaveFind, At, TypeInv, CallsTyped, SaveLabels
  <2>2. /\ pc'[c] = "object" /\ UNCHANGED banned /\ \A d \in Clients \ {c} : Idle(d)
        /\ call'[c] = [call[c] EXCEPT !.original = hashes[call[c].blob], !.expires = now + call[c].ttl]
    BY <1>5 DEF SaveFind, Goto, Idle, TypeInv, CallsTyped
  <2>3. /\ call'[c].known = call[c].known /\ call'[c].blob = call[c].blob
        /\ call'[c].isPlaintext = call[c].isPlaintext
    BY <2>1, <2>2 DEF SaveCall
  <2>4. SaveChecked(c)'
    BY <2>1, <2>2, <2>3 DEF BanInv, SaveChecked, SaveLabels
  <2> QED BY <2>2, <2>4, BanKept
<1>6. ASSUME NEW c \in Clients, SaveObject(c), call[c].original = Null PROVE BanInv'
  <2>1. /\ pc[c] = "object" /\ pc'[c] = "index" /\ call'[c] = call[c] /\ UNCHANGED banned
        /\ \A d \in Clients \ {c} : Idle(d)
    BY <1>6 DEF SaveObject, WriteObject, At, Goto, Idle, TypeInv, CallsTyped
  <2>2. SaveChecked(c)'
    BY <2>1 DEF BanInv, SaveChecked, SaveLabels
  <2> QED BY <2>1, <2>2, BanKept
<1>7. ASSUME NEW c \in Clients,
             \/ SaveObject(c) /\ call[c].original # Null
             \/ SaveIndex(c) \/ SaveError(c) \/ ReadSweep(c) \/ ReadContent(c) \/ ReadError(c)
             \/ DeleteMarker(c) \/ DeleteMarkerError(c)
      PROVE  BanInv'
  BY <1>1, <1>7 DEF SaveObject, SaveIndex, SaveError, WriteObject, ReadSweep, ReadContent, ReadError,
     DeleteMarker, DeleteMarkerError
<1>8. ASSUME NEW c \in Clients, NEW i \in Ids, ReadStart(c, i) \/ DeleteObject(c, i) PROVE BanInv'
  <2>1. pc'[c] \in {"marker", "unmark"} /\ UNCHANGED banned /\ \A d \in Clients \ {c} : Idle(d)
    BY <1>8 DEF ReadStart, DeleteObject, Begin, Idle, TypeInv, CallsTyped
  <2> QED BY <1>2, <2>1 DEF ReadLabels, EraseLabels
<1>9. ASSUME NEW c \in Clients, ReadMarker(c) \/ ReadReference(c) \/ ReadClock(c) \/ ReadClaim(c)
      PROVE  BanInv'
  <2>1. UNCHANGED banned
        /\ (Return(c) \/ (UNCHANGED call /\ \E label \in ReadLabels : Goto(c, label)))
    BY <1>9 DEF ReadMarker, ReadReference, ReadClock, ReadClaim, RemoveTarget, ReadLabels
  <2>2. ASSUME NEW label \in ReadLabels, Goto(c, label), UNCHANGED call
        PROVE  pc'[c] = label /\ \A d \in Clients \ {c} : Idle(d)
    BY <2>2 DEF Goto, Idle, TypeInv, CallsTyped
  <2> QED BY <1>1, <1>2, <2>1, <2>2
<1>10. ASSUME UNCHANGED <<pc, call>>, banned \subseteq banned' PROVE BanInv'
  BY <1>10, BanKept DEF Idle
<1>11. ASSUME NEW i \in Ids, MarkBurned(i) PROVE BanInv'
  BY <1>10, <1>11 DEF MarkBurned
<1>12. ASSUME NEW b \in Blobs, BanContentHash(b) \/ BanPlaintextHash(b) PROVE BanInv'
  BY <1>10, <1>12 DEF BanContentHash, BanPlaintextHash, Ban
<1>13. CASE Tick \/ UNCHANGED vars
  BY <1>10, <1>13 DEF Tick, vars
<1> QED
  BY <1>3, <1>4, <1>5, <1>6, <1>7, <1>8, <1>9, <1>11, <1>12, <1>13
     DEF Next, SavePaste, GetPaste, DeletePaste

\* A save that goes on to look for its content and to write it was checked against
\* every ban that was in force when it began: the plaintext's if the caller sent
\* one, and the stored text's.
THEOREM BansEnforced == Spec => []BanChecked
<1>1. Init => BanInv
  BY DEF Init, BanInv, SaveChecked, SaveLabels
<1>2. BanInv => BanChecked
  BY DEF BanInv, SaveChecked, BanChecked, SaveLabels
<1> QED BY <1>1, <1>2, TypeInvariant, BanInvStep, PTL DEF Spec

=============================================================================
