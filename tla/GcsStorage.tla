----------------------------- MODULE GcsStorage -----------------------------
(***************************************************************************)
(* The object-storage backend, GCSBackend (src/services/storage_gcs.go,    *)
(* build tag gcp).  It keeps the pastes of SqlStorage in a bucket: one     *)
(* object per paste, one per burn marker, one per index entry and one per  *)
(* banned hash.                                                            *)
(*                                                                         *)
(* There are no transactions: an operation is a sequence of requests, each *)
(* atomic on one object, and requests of other goroutines fall between any *)
(* two of them.  A request can fail, and a write that failed may have been *)
(* applied.  An object is written once under a name no other save uses, so *)
(* its generation changes only by its deletion.                            *)
(***************************************************************************)
EXTENDS Naturals, FiniteSets

CONSTANTS
  Clients,      \* goroutines that may have a storage call in progress
  Ids,          \* ids GenerateID may return
  Blobs,        \* strings that are stored; one stands for its own digest, and for
                \* that of the plaintext in it (the bucket keeps the two apart)
  TTLs,         \* lifetimes a request may ask for
  MaxTime,      \* bound: the clock stops here
  MaxFaults,    \* bound: how many requests fail
  MaxBans,      \* bound: how many digests are ever banned
  Null          \* no object, no reference

VARIABLES
  pastes,       \* pastes/<id>
  burns,        \* burns/<id>: the ids that have a burn marker
  hashes,       \* hashes/<digest>: the paste that holds the content
  banned,       \* banned-hashes/<kind>/<digest>: pairs of a digest and a kind
  now,          \* the clock, in seconds
  faults,       \* how many requests have failed
  pc,           \* per client: the next request of its call
  call,         \* per client: the arguments and locals of its call
  text,         \* history: the string each id was saved with
  reads,        \* history: how often a burn paste's content was returned
  outlived      \* history: ids whose content may outlive their marker - they
                \* were saved as references, or their removal once failed

bucket == <<pastes, burns, hashes, banned>>
vars == <<pastes, burns, hashes, banned, now, faults, pc, call, text, reads, outlived>>

Object == [content: Blobs \cup {Null}, ref: Ids \cup {Null}, expires: Nat, burn: BOOLEAN]

\* `known` is history: the bans in force when the save began.
SaveCall == [id: Ids, blob: Blobs, isPlaintext: BOOLEAN, burn: BOOLEAN, ttl: TTLs,
             original: Ids \cup {Null}, expires: Nat \cup {Null},
             known: SUBSET (Blobs \X {"ciphertext", "plaintext"})]

\* A read keeps the metadata of the paste's object as its first request found it.
ReadCall == [id: Ids, ref: Ids \cup {Null}, expires: Nat, burn: BOOLEAN]

SaveLabels == {"plain", "hash", "find", "object", "index"}
ReadLabels == {"marker", "reference", "clock", "sweep", "claim", "content"}
EraseLabels == {"unmark"}

ASSUME IdsAssumption == Null \notin Ids \cup Blobs
ASSUME NullAssumption == Null \notin Object \cup SaveCall \cup ReadCall
ASSUME TTLAssumption == TTLs \subseteq Nat
ASSUME FaultsAssumption == MaxFaults \in Nat

TypeOK ==
  /\ pastes \in [Ids -> Object \cup {Null}]
  /\ burns \subseteq Ids
  /\ hashes \in [Blobs -> Ids \cup {Null}]
  /\ banned \subseteq Blobs \X {"ciphertext", "plaintext"}
  /\ now \in Nat /\ faults \in 0..MaxFaults
  /\ pc \in [Clients -> {"idle"} \cup SaveLabels \cup ReadLabels \cup EraseLabels]
  /\ \A c \in Clients :
       call[c] \in CASE pc[c] = "idle" -> {Null}
                     [] pc[c] \in SaveLabels -> SaveCall
                     [] pc[c] \in ReadLabels -> ReadCall
                     [] pc[c] \in EraseLabels -> Ids
  /\ text \in [Ids -> Blobs \cup {Null}]
  /\ reads \in [Ids -> Nat] /\ outlived \subseteq Ids

Init ==
  /\ pastes = [i \in Ids |-> Null]
  /\ burns = {}
  /\ hashes = [b \in Blobs |-> Null]
  /\ banned = {}
  /\ now = 0 /\ faults = 0
  /\ pc = [c \in Clients |-> "idle"]
  /\ call = [c \in Clients |-> Null]
  /\ text = [i \in Ids |-> Null]
  /\ reads = [i \in Ids |-> 0] /\ outlived = {}

-----------------------------------------------------------------------------

At(c, label) == pc[c] = label
Goto(c, label) == pc' = [pc EXCEPT ![c] = label]
Begin(c, label, args) ==
  /\ pc[c] = "idle"
  /\ pc' = [pc EXCEPT ![c] = label]
  /\ call' = [call EXCEPT ![c] = args]
Return(c) ==
  /\ pc' = [pc EXCEPT ![c] = "idle"]
  /\ call' = [call EXCEPT ![c] = Null]

Fault == faults < MaxFaults /\ faults' = faults + 1

-----------------------------------------------------------------------------
(* SavePaste.                                                              *)

Saving(c) == pc[c] \in SaveLabels

\* GenerateID never returns an id that is stored or being stored.
Fresh(i) ==
  /\ text[i] = Null
  /\ \A c \in Clients : Saving(c) => call[c].id # i

SaveStart(c, i, b, isPlaintext, burn, ttl) ==
  /\ Fresh(i)
  /\ Begin(c, IF isPlaintext THEN "plain" ELSE "hash",
           [id |-> i, blob |-> b, isPlaintext |-> isPlaintext, burn |-> burn,
            ttl |-> ttl, original |-> Null, expires |-> Null, known |-> banned])
  /\ UNCHANGED <<bucket, now, faults, text, reads, outlived>>

CheckBan(c, kind, next) ==
  /\ IF <<call[c].blob, kind>> \in banned
       THEN Return(c)
       ELSE Goto(c, next) /\ UNCHANGED call
  /\ UNCHANGED <<bucket, now, faults, text, reads, outlived>>

SaveCheckPlaintext(c) == At(c, "plain") /\ CheckBan(c, "plaintext", "hash")

\* Mutated form of SaveCheckHash: an envelope is checked by its plaintext only.
SaveCheckHash_CiphertextOnly(c) ==
  /\ At(c, "hash")
  /\ IF call[c].isPlaintext
       THEN /\ Goto(c, "find")
            /\ UNCHANGED <<call, bucket, now, faults, text, reads, outlived>>
       ELSE CheckBan(c, "ciphertext", "find")

SaveCheckHash(c) == At(c, "hash") /\ CheckBan(c, "ciphertext", "find")

\* Mutated form of SaveFind: the entry is claimed before the object is written.
SaveFind_IndexFirst(c) ==
  /\ At(c, "find")
  /\ Goto(c, "object")
  /\ call' = [call EXCEPT ![c].original = hashes[call[c].blob],
                          ![c].expires = now + call[c].ttl]
  /\ hashes' = [hashes EXCEPT ![call[c].blob] = call[c].id]
  /\ UNCHANGED <<pastes, burns, banned, now, faults, text, reads, outlived>>

\* Mutated form of SaveFind: the deadline is not set.
SaveFind_NoDeadline(c) ==
  /\ At(c, "find")
  /\ Goto(c, "object")
  /\ call' = [call EXCEPT ![c].original = hashes[call[c].blob]]
  /\ UNCHANGED <<bucket, now, faults, text, reads, outlived>>

\* findByContentHash, and the lifetime starts.
SaveFind(c) ==
  /\ At(c, "find")
  /\ Goto(c, "object")
  /\ call' = [call EXCEPT ![c].original = hashes[call[c].blob],
                          ![c].expires = now + call[c].ttl]
  /\ UNCHANGED <<bucket, now, faults, text, reads, outlived>>

WriteObject(c) ==
  LET a == call[c] IN
    /\ pastes' = [pastes EXCEPT ![a.id] =
                    [content |-> IF a.original = Null THEN a.blob ELSE Null,
                     ref |-> a.original, expires |-> a.expires, burn |-> a.burn]]
    /\ text' = [text EXCEPT ![a.id] = a.blob]
    /\ outlived' = IF a.original = Null THEN outlived ELSE outlived \cup {a.id}
    /\ UNCHANGED <<burns, hashes, banned, now, reads>>

\* createReferencePaste is the last request of a deduplicated save.
SaveObject(c) ==
  /\ At(c, "object")
  /\ WriteObject(c)
  /\ IF call[c].original = Null THEN Goto(c, "index") /\ UNCHANGED call ELSE Return(c)
  /\ UNCHANGED faults

\* createHashIndex replaces what a concurrent save of the same content wrote.
SaveIndex(c) ==
  /\ At(c, "index")
  /\ hashes' = [hashes EXCEPT ![call[c].blob] = call[c].id]
  /\ Return(c)
  /\ UNCHANGED <<pastes, burns, banned, now, faults, text, reads, outlived>>

\* A request fails: the save ends, with the object written or not.  A failed
\* index write is only logged.
SaveError(c) ==
  /\ Saving(c)
  /\ Fault
  /\ Return(c)
  /\ \/ UNCHANGED <<bucket, now, text, reads, outlived>>
     \/ At(c, "object") /\ WriteObject(c)
     \/ /\ At(c, "index")
        /\ hashes' = [hashes EXCEPT ![call[c].blob] = call[c].id]
        /\ UNCHANGED <<pastes, burns, banned, now, text, reads, outlived>>

-----------------------------------------------------------------------------
(* GetPaste.  Its answers are content, "burned" (no content), not found and*)
(* an error; only the first hands a text out.                              *)

\* The object the content is read from.
Target(a) == IF a.ref = Null THEN a.id ELSE a.ref

\* Step 1: the metadata of the paste; there is none for an unknown id.
ReadStart(c, i) ==
  /\ pastes[i] # Null
  /\ Begin(c, "marker", [id |-> i, ref |-> pastes[i].ref, expires |-> pastes[i].expires,
                         burn |-> pastes[i].burn])
  /\ UNCHANGED <<bucket, now, faults, text, reads, outlived>>

\* Step 2: the marker.  An error of this request counts as "no marker".
ReadMarker(c) ==
  /\ At(c, "marker")
  /\ \/ call[c].id \in burns /\ Return(c) /\ UNCHANGED faults
     \/ /\ \/ call[c].id \notin burns /\ UNCHANGED faults
           \/ Fault
        /\ Goto(c, "reference")
        /\ UNCHANGED call
  /\ UNCHANGED <<bucket, now, text, reads, outlived>>

\* Step 4: the referenced object must be there.
ReadReference(c) ==
  /\ At(c, "reference")
  /\ IF pastes[Target(call[c])] = Null /\ call[c].ref # Null
       THEN Return(c)
       ELSE Goto(c, "clock") /\ UNCHANGED call
  /\ UNCHANGED <<bucket, now, faults, text, reads, outlived>>

RemoveTarget(a) ==
  \/ /\ pastes' = [pastes EXCEPT ![Target(a)] = Null]
     /\ UNCHANGED <<faults, outlived>>
  \/ /\ Fault
     /\ outlived' = outlived \cup {a.id}
     /\ UNCHANGED pastes

\* Step 5: an expired paste is removed: the object its content is read from,
\* then the paste's own marker.  Both outcomes are ignored.
ReadClock(c) ==
  /\ At(c, "clock")
  /\ IF now > call[c].expires
       THEN Goto(c, "sweep") /\ RemoveTarget(call[c])
       ELSE /\ Goto(c, IF call[c].burn THEN "claim" ELSE "content")
            /\ UNCHANGED <<pastes, faults, outlived>>
  /\ UNCHANGED <<burns, hashes, banned, now, call, text, reads>>

ReadSweep(c) ==
  /\ At(c, "sweep")
  /\ \/ burns' = burns \ {call[c].id} /\ UNCHANGED faults
     \/ Fault /\ UNCHANGED burns
  /\ Return(c)
  /\ UNCHANGED <<pastes, hashes, banned, now, text, reads, outlived>>

\* Mutated form of ReadClaim: the marker is written without DoesNotExist.
ReadClaim_NoPrecondition(c) ==
  /\ At(c, "claim")
  /\ Goto(c, "content")
  /\ burns' = burns \cup {call[c].id}
  /\ UNCHANGED <<pastes, hashes, banned, now, faults, call, text, reads, outlived>>

\* Step 6: the marker is written if it does not exist.
ReadClaim(c) ==
  /\ At(c, "claim")
  /\ IF call[c].id \in burns
       THEN Return(c)
       ELSE Goto(c, "content") /\ UNCHANGED call
  /\ burns' = burns \cup {call[c].id}
  /\ UNCHANGED <<pastes, hashes, banned, now, faults, text, reads, outlived>>

\* Step 7: the content, if the object whose metadata was read is still there.
ReadContent(c) ==
  /\ At(c, "content")
  /\ LET a == call[c] IN
       reads' = IF a.burn /\ pastes[Target(a)] # Null
                  THEN [reads EXCEPT ![a.id] = @ + 1] ELSE reads
  /\ Return(c)
  /\ UNCHANGED <<bucket, now, faults, text, outlived>>

\* Any other request of a read fails, the claim with or without effect.
ReadError(c) ==
  /\ pc[c] \in {"reference", "claim", "content"}
  /\ Fault
  /\ Return(c)
  /\ burns' \in IF At(c, "claim") THEN {burns, burns \cup {call[c].id}} ELSE {burns}
  /\ UNCHANGED <<pastes, hashes, banned, now, text, reads, outlived>>

-----------------------------------------------------------------------------
(* The other operations.                                                   *)

\* DeletePaste: the object, whether or not it exists, then its marker.
DeleteObject(c, i) ==
  /\ text[i] # Null
  /\ pastes' = [pastes EXCEPT ![i] = Null]
  /\ Begin(c, "unmark", i)
  /\ UNCHANGED <<burns, hashes, banned, now, faults, text, reads, outlived>>

DeleteMarker(c) ==
  /\ At(c, "unmark")
  /\ burns' = burns \ {call[c]}
  /\ Return(c)
  /\ UNCHANGED <<pastes, hashes, banned, now, faults, text, reads, outlived>>

DeleteMarkerError(c) ==
  /\ At(c, "unmark")
  /\ Fault
  /\ Return(c)
  /\ UNCHANGED <<bucket, now, text, reads, outlived>>

\* MarkBurned writes the marker of any id it is given.
MarkBurned(i) ==
  /\ text[i] # Null
  /\ burns' = burns \cup {i}
  /\ UNCHANGED <<pastes, hashes, banned, now, faults, pc, call, text, reads, outlived>>

Ban(b, kind) ==
  /\ Cardinality(banned) < MaxBans
  /\ banned' = banned \cup {<<b, kind>>}
  /\ UNCHANGED <<pastes, burns, hashes, now, faults, pc, call, text, reads, outlived>>

BanContentHash(b) == Ban(b, "ciphertext")
BanPlaintextHash(b) == Ban(b, "plaintext")

Tick ==
  /\ now < MaxTime
  /\ now' = now + 1
  /\ UNCHANGED <<bucket, faults, pc, call, text, reads, outlived>>

-----------------------------------------------------------------------------

SavePaste(c) ==
  \/ \E i \in Ids, b \in Blobs, isPlaintext, burn \in BOOLEAN, ttl \in TTLs :
        SaveStart(c, i, b, isPlaintext, burn, ttl)
  \/ SaveCheckPlaintext(c)
  \/ SaveCheckHash(c)
  \/ SaveFind(c)
  \/ SaveObject(c)
  \/ SaveIndex(c)
  \/ SaveError(c)

GetPaste(c) ==
  \/ \E i \in Ids : ReadStart(c, i)
  \/ ReadMarker(c)
  \/ ReadReference(c)
  \/ ReadClock(c)
  \/ ReadSweep(c)
  \/ ReadClaim(c)
  \/ ReadContent(c)
  \/ ReadError(c)

DeletePaste(c) ==
  \/ \E i \in Ids : DeleteObject(c, i)
  \/ DeleteMarker(c)
  \/ DeleteMarkerError(c)

Next ==
  \/ \E c \in Clients : SavePaste(c) \/ GetPaste(c) \/ DeletePaste(c)
  \/ \E i \in Ids : MarkBurned(i)
  \/ \E b \in Blobs : BanContentHash(b) \/ BanPlaintextHash(b)
  \/ Tick

Spec == Init /\ [][Next]_vars

-----------------------------------------------------------------------------
(* Correctness.                                                            *)

\* A reader gets the string its id was saved with or nothing: every reference,
\* in the bucket or in the hands of a save or of a read, and every index entry
\* leads in one hop to an id of the same content that is no reference itself.
ContentIntegrity ==
  LET Original(i, j) ==
        text[j] = text[i] /\ (pastes[j] # Null => pastes[j].content = text[i])
  IN  /\ \A i \in Ids : pastes[i] # Null =>
           Original(i, IF pastes[i].ref = Null THEN i ELSE pastes[i].ref)
      /\ \A b \in Blobs : hashes[b] # Null =>
           /\ text[hashes[b]] = b
           /\ pastes[hashes[b]] # Null => pastes[hashes[b]].ref = Null
      /\ \A c \in Clients : pc[c] \in ReadLabels => Original(call[c].id, Target(call[c]))

\* One reader gets the content of a burn-after-read paste that holds its content
\* itself, whatever concurrent readers, deletions and lost answers do: a reader
\* that claims again after the marker was removed finds no object to read.
BurnOnceOriginal == \A i \in Ids : reads[i] > 1 => i \in outlived

\* A save never writes content that was banned before it began.
BanChecked ==
  \A c \in Clients : pc[c] \in {"find", "object", "index"} =>
    /\ <<call[c].blob, "ciphertext">> \notin call[c].known
    /\ call[c].isPlaintext => <<call[c].blob, "plaintext">> \notin call[c].known

\* The comment on GetPaste's claim: "only ONE concurrent reader can successfully
\* create the burn marker.  Others will fail and return ErrNotFound".
BurnOnce == \A i \in Ids : reads[i] <= 1

=============================================================================
