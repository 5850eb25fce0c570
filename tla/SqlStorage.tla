----------------------------- MODULE SqlStorage -----------------------------
(***************************************************************************)
(* The SQL storage backends of bincrypt: SQLiteBackend and PostgresBackend *)
(* (src/services/storage_sqlite.go, storage_postgres.go) behind the        *)
(* StorageService facade.  They share one schema and one algorithm.        *)
(*                                                                         *)
(* A call is a sequence of database statements; other goroutines run       *)
(* between them.  SavePaste makes its two ban checks outside its           *)
(* transaction, so each is a step of its own.  A transaction is one step:  *)
(* SQLite has a single connection, PostgreSQL runs it SERIALIZABLE and     *)
(* aborts it when it cannot be ordered (SaveError, and a GetPaste that     *)
(* answers an error changes nothing).  A transaction whose commit answer   *)
(* is lost is that transaction; only its caller is told an error.          *)
(*                                                                         *)
(* The columns no statement reads back (plaintext_hash, size_bytes,        *)
(* is_plaintext, created_at, reason, banned_at) are left out, and a digest *)
(* is a member of Hashes: SHA-256 is taken to be collision free.           *)
(***************************************************************************)
EXTENDS Integers, FiniteSets

CONSTANTS
  Clients,      \* goroutines that may have a storage call in progress
  Ids,          \* ids GenerateID may return
  Blobs,        \* strings that are stored: ciphertexts and plaintext envelopes
  Hashes,       \* SHA-256 digests
  HashOf,       \* [Blobs -> Hashes]: digest of the stored string
  PlainHashOf,  \* [Blobs -> Hashes \cup {Null}]: digest of an envelope's
                \* "content" field, Null for what is no envelope
  TTLs,         \* lifetimes a request may ask for
  Remote,       \* TRUE: PostgreSQL (a commit's answer can be lost, DeletePaste
                \* is two statements, rows can be swept); FALSE: SQLite
  Skew,         \* how far the program's clock is ahead of the database's
  MaxTime,      \* bound: the clock stops here
  MaxBans,      \* bound: how many hashes are ever banned
  Null          \* SQL NULL, and "no row"

VARIABLES
  rows,         \* table pastes: [Ids -> Row \cup {Null}]
  hashIndex,    \* table hash_index: [Hashes -> Ids \cup {Null}]
  burned,       \* table burned_pastes
  banned,       \* table banned_hashes: hash_type by hash
  now,          \* the database's clock, in seconds
  pc,           \* per client: the next statement of its call
  call,         \* per client: the arguments of its call
  text,         \* history: the string each id was saved with
  reads,        \* history: how often a burn paste's content was returned
  knownBans     \* history, per client: the bans in force when its call began

tables == <<rows, hashIndex, burned, banned>>
vars == <<rows, hashIndex, burned, banned, now, pc, call, text, reads, knownBans>>

Kinds == {"ciphertext", "plaintext"}

Row == [content: Blobs \cup {Null}, ref: Ids \cup {Null}, hash: Hashes,
        expires: Int, burn: BOOLEAN]

SaveArgs == [id: Ids, blob: Blobs, isPlaintext: BOOLEAN, burn: BOOLEAN,
             ttl: TTLs, expires: Int]

ASSUME IdsAssumption == Null \notin Ids \cup Blobs \cup Hashes \cup Kinds
ASSUME HashAssumption ==
  /\ HashOf \in [Blobs -> Hashes]
  /\ \A a, b \in Blobs : HashOf[a] = HashOf[b] => a = b
  /\ PlainHashOf \in [Blobs -> Hashes \cup {Null}]
ASSUME TTLAssumption == TTLs \subseteq Nat
ASSUME RemoteAssumption == Remote \in BOOLEAN
ASSUME SkewAssumption == Skew \in Int /\ (~Remote => Skew = 0)
ASSUME NullAssumption == Null \notin Row /\ Null \notin SaveArgs

TypeOK ==
  /\ rows \in [Ids -> Row \cup {Null}]
  /\ hashIndex \in [Hashes -> Ids \cup {Null}]
  /\ burned \subseteq Ids
  /\ banned \in [Hashes -> Kinds \cup {Null}]
  /\ now \in Nat
  /\ pc \in [Clients -> {"idle", "plain", "hash", "tx", "unmark"}]
  /\ call \in [Clients -> SaveArgs \cup Ids \cup {Null}]
  /\ text \in [Ids -> Blobs \cup {Null}]
  /\ reads \in [Ids -> Nat]
  /\ knownBans \in [Clients -> SUBSET (Hashes \X Kinds)]

Init ==
  /\ rows = [i \in Ids |-> Null]
  /\ hashIndex = [h \in Hashes |-> Null]
  /\ burned = {}
  /\ banned = [h \in Hashes |-> Null]
  /\ now = 0
  /\ pc = [c \in Clients |-> "idle"]
  /\ call = [c \in Clients |-> Null]
  /\ text = [i \in Ids |-> Null]
  /\ reads = [i \in Ids |-> 0]
  /\ knownBans = [c \in Clients |-> {}]

-----------------------------------------------------------------------------
(* Queries.                                                                *)

Saving(c) == pc[c] \in {"plain", "hash", "tx"}

IsBanned(h, kind) == banned[h] = kind

\* What time.Now() reads in the program.
Clock == now + Skew

\* The WHERE clause of GetPaste's metadata query: the database's NOW().
Visible(i) == rows[i] # Null /\ rows[i].expires > now

\* Content is read from the referenced row when there is one: one hop.
ContentOf(i) ==
  LET holder == IF rows[i].ref # Null THEN rows[i].ref ELSE i
  IN  IF rows[holder] = Null THEN Null ELSE rows[holder].content

\* Mutated form of GetResult: the marker is not looked at.
GetResult_NoBurnCheck(i) ==
  IF Visible(i) /\ ContentOf(i) # Null THEN "content" ELSE "notfound"

\* What GetPaste answers: "burned" is ("", IsBurned, nil) - a paste without
\* content - and "notfound" is ErrNotFound, with the transaction rolled back.
GetResult(i) ==
  IF i \in burned THEN "burned"
  ELSE IF Visible(i) /\ ContentOf(i) # Null THEN "content"
  ELSE "notfound"

-----------------------------------------------------------------------------
(* SavePaste, one statement at a time.                                     *)

\* GenerateID never returns an id that is stored or being stored.
Fresh(i) ==
  /\ text[i] = Null
  /\ \A c \in Clients : Saving(c) => call[c].id # i

BansInForce == {hk \in Hashes \X Kinds : banned[hk[1]] = hk[2]}

Finish(c) ==
  /\ pc' = [pc EXCEPT ![c] = "idle"]
  /\ call' = [call EXCEPT ![c] = Null]
  /\ knownBans' = [knownBans EXCEPT ![c] = {}]

\* CreatePaste hands over either a ciphertext or an envelope it built itself.
SaveStart(c, i, b, isPlaintext, burn, ttl) ==
  /\ pc[c] = "idle"
  /\ Fresh(i)
  /\ isPlaintext => PlainHashOf[b] # Null
  /\ pc' = [pc EXCEPT ![c] = IF isPlaintext THEN "plain" ELSE "hash"]
  /\ call' = [call EXCEPT ![c] = [id |-> i, blob |-> b, isPlaintext |-> isPlaintext,
                                  burn |-> burn, ttl |-> ttl, expires |-> 0]]
  /\ knownBans' = [knownBans EXCEPT ![c] = BansInForce]
  /\ UNCHANGED <<tables, now, text, reads>>

SaveCheckPlaintext(c) ==
  /\ pc[c] = "plain"
  /\ IF IsBanned(PlainHashOf[call[c].blob], "plaintext")
       THEN Finish(c)
       ELSE pc' = [pc EXCEPT ![c] = "hash"] /\ UNCHANGED <<call, knownBans>>
  /\ UNCHANGED <<tables, now, text, reads>>

\* The lifetime starts here, by the program's clock, before the transaction.
SaveCheckHash(c) ==
  /\ pc[c] = "hash"
  /\ IF IsBanned(HashOf[call[c].blob], "ciphertext")
       THEN Finish(c)
       ELSE /\ pc' = [pc EXCEPT ![c] = "tx"]
            /\ call' = [call EXCEPT ![c].expires = Clock + call[c].ttl]
            /\ UNCHANGED knownBans
  /\ UNCHANGED <<tables, now, text, reads>>

\* The row and the index entry the save transaction writes.
NewRow(a, original) ==
  [content |-> IF original = Null THEN a.blob ELSE Null,
   ref     |-> original,
   hash    |-> HashOf[a.blob],
   expires |-> a.expires,
   burn    |-> a.burn]

\* Mutated form of SaveTx: the index takes the newest paste (ON CONFLICT UPDATE).
SaveTx_IndexReplaced(c) ==
  /\ pc[c] = "tx"
  /\ LET a == call[c]
         h == HashOf[a.blob]
     IN  /\ rows' = [rows EXCEPT ![a.id] = NewRow(a, hashIndex[h])]
         /\ hashIndex' = [hashIndex EXCEPT ![h] = a.id]
         /\ text' = [text EXCEPT ![a.id] = a.blob]
  /\ Finish(c)
  /\ UNCHANGED <<burned, banned, now, reads>>

\* Mutated form of SaveTx: an envelope is deduplicated by its plaintext digest.
SaveTx_PlaintextKey(c) ==
  /\ pc[c] = "tx"
  /\ LET a == call[c]
         h == IF a.isPlaintext THEN PlainHashOf[a.blob] ELSE HashOf[a.blob]
     IN  /\ rows' = [rows EXCEPT ![a.id] = NewRow(a, hashIndex[h])]
         /\ hashIndex' = [hashIndex EXCEPT ![h] = IF @ = Null THEN a.id ELSE @]
         /\ text' = [text EXCEPT ![a.id] = a.blob]
  /\ Finish(c)
  /\ UNCHANGED <<burned, banned, now, reads>>

SaveTx(c) ==
  /\ pc[c] = "tx"
  /\ LET a == call[c]
         h == HashOf[a.blob]
     IN  /\ rows' = [rows EXCEPT ![a.id] = NewRow(a, hashIndex[h])]
         /\ hashIndex' = [hashIndex EXCEPT ![h] = IF @ = Null THEN a.id ELSE @]
         /\ text' = [text EXCEPT ![a.id] = a.blob]
  /\ Finish(c)
  /\ UNCHANGED <<burned, banned, now, reads>>

\* A statement fails or the request's context ends: nothing was written.
SaveError(c) ==
  /\ Saving(c)
  /\ Finish(c)
  /\ UNCHANGED <<tables, now, text, reads>>

-----------------------------------------------------------------------------
(* GetPaste: one transaction.  It writes only for a burn-after-read paste. *)

Claim(i) ==
  /\ GetResult(i) = "content"
  /\ rows[i].burn
  /\ burned' = burned \cup {i}
  /\ UNCHANGED <<rows, hashIndex, banned, now, pc, call, text, knownBans>>

GetPaste(i) == Claim(i) /\ reads' = [reads EXCEPT ![i] = @ + 1]

\* The commit took effect on the server and its answer never arrived: GetPaste
\* reports an error, and nobody gets the content.
GetPasteAnswerLost(i) == Remote /\ Claim(i) /\ UNCHANGED reads

-----------------------------------------------------------------------------
(* The other operations of StorageBackend.                                 *)

Stored(i) == text[i] # Null

\* burned_pastes.paste_id is a foreign key: no row, no marker.
MarkBurned(i) ==
  /\ rows[i] # Null
  /\ burned' = burned \cup {i}
  /\ UNCHANGED <<rows, hashIndex, banned, now, pc, call, text, reads, knownBans>>

\* Mutated form of DeleteRows: hash_index has no ON DELETE CASCADE.
DeleteRows_NoCascade(S) ==
  /\ rows' = [i \in Ids |->
                IF i \in S \/ rows[i] = Null THEN Null
                ELSE IF rows[i].ref \in S THEN [rows[i] EXCEPT !.ref = Null]
                ELSE rows[i]]
  /\ burned' = burned \ S
  /\ UNCHANGED <<hashIndex, banned>>

\* DELETE FROM pastes, with the foreign keys' ON DELETE SET NULL (references_id)
\* and ON DELETE CASCADE (hash_index, burned_pastes).
DeleteRows(S) ==
  /\ rows' = [i \in Ids |->
                IF i \in S \/ rows[i] = Null THEN Null
                ELSE IF rows[i].ref \in S THEN [rows[i] EXCEPT !.ref = Null]
                ELSE rows[i]]
  /\ hashIndex' = [h \in Hashes |-> IF hashIndex[h] \in S THEN Null ELSE hashIndex[h]]
  /\ burned' = burned \ S
  /\ UNCHANGED banned

\* Mutated form of DeletePaste: the marker goes first, the row is still there.
DeletePaste_MarkerFirst(c, i) ==
  /\ pc[c] = "idle"
  /\ Stored(i)
  /\ burned' = burned \ {i}
  /\ UNCHANGED <<rows, hashIndex, banned, now, pc, call, text, reads, knownBans>>

\* Callers know only ids that a save has stored.
DeletePaste(c, i) ==
  /\ pc[c] = "idle"
  /\ Stored(i)
  /\ DeleteRows({i})
  /\ IF Remote
       THEN /\ pc' = [pc EXCEPT ![c] = "unmark"]
            /\ call' = [call EXCEPT ![c] = i]
       ELSE UNCHANGED <<pc, call>>
  /\ UNCHANGED <<now, text, reads, knownBans>>

\* PostgreSQL only: the row was deleted and the answer never arrived; DeletePaste
\* returns an error, and there is no second statement.
DeletePasteAnswerLost(i) ==
  /\ Remote
  /\ Stored(i)
  /\ DeleteRows({i})
  /\ UNCHANGED <<now, pc, call, text, reads, knownBans>>

\* PostgreSQL only: the second statement, whose outcome is ignored.
DeleteMarker(c) ==
  /\ pc[c] = "unmark"
  /\ burned' = burned \ {call[c]}
  /\ Finish(c)
  /\ UNCHANGED <<rows, hashIndex, banned, now, text, reads>>

\* Mutated form of Ban: the conflict clause sets hash_type too.
Ban_TypeReplaced(h, kind) ==
  /\ banned[h] = Null => Cardinality({g \in Hashes : banned[g] # Null}) < MaxBans
  /\ banned' = [banned EXCEPT ![h] = kind]
  /\ UNCHANGED <<rows, hashIndex, burned, now, pc, call, text, reads, knownBans>>

\* On a conflict the statement updates reason and banned_at, not hash_type.
Ban(h, kind) ==
  /\ banned[h] = Null => Cardinality({g \in Hashes : banned[g] # Null}) < MaxBans
  /\ banned' = [banned EXCEPT ![h] = IF @ = Null THEN kind ELSE @]
  /\ UNCHANGED <<rows, hashIndex, burned, now, pc, call, text, reads, knownBans>>

BanContentHash(h) == Ban(h, "ciphertext")
\* Mutated form of BanPlaintextHash: a hash_type outside the CHECK constraint.
BanPlaintextHash_BadType(h) == Ban(h, "plain")
BanPlaintextHash(h) == Ban(h, "plaintext")

\* cleanup_expired_pastes(), scheduled by the operator of a PostgreSQL server.
CleanupExpired ==
  /\ Remote
  /\ DeleteRows({i \in Ids : rows[i] # Null /\ rows[i].expires < now})
  /\ UNCHANGED <<now, pc, call, text, reads, knownBans>>

Tick ==
  /\ now < MaxTime
  /\ now' = now + 1
  /\ UNCHANGED <<tables, pc, call, text, reads, knownBans>>

-----------------------------------------------------------------------------

SavePaste(c) ==
  \/ \E i \in Ids, b \in Blobs, isPlaintext, burn \in BOOLEAN, ttl \in TTLs :
        SaveStart(c, i, b, isPlaintext, burn, ttl)
  \/ SaveCheckPlaintext(c)
  \/ SaveCheckHash(c)
  \/ SaveTx(c)
  \/ SaveError(c)

Next ==
  \/ \E c \in Clients : SavePaste(c)
  \/ \E i \in Ids : GetPaste(i)
  \/ \E i \in Ids : GetPasteAnswerLost(i)
  \/ \E i \in Ids : MarkBurned(i)
  \/ \E c \in Clients, i \in Ids : DeletePaste(c, i)
  \/ \E i \in Ids : DeletePasteAnswerLost(i)
  \/ \E c \in Clients : DeleteMarker(c)
  \/ \E h \in Hashes : BanContentHash(h)
  \/ \E h \in Hashes : BanPlaintextHash(h)
  \/ CleanupExpired
  \/ Tick

Spec == Init /\ [][Next]_vars

-----------------------------------------------------------------------------
(* Correctness.                                                            *)

\* The tables agree with each other at every statement boundary: a burn marker
\* belongs to a stored paste; the index points at a row of that digest that
\* holds the content itself; a reference leads in ONE hop to a row that holds
\* content of the same digest (GetPaste follows references_id only once).
ReferentialIntegrity ==
  /\ \A i \in burned : rows[i] # Null
  /\ \A h \in Hashes : LET j == hashIndex[h] IN
       j # Null => rows[j] # Null /\ rows[j].hash = h /\ rows[j].content # Null
  /\ \A i \in Ids : rows[i] # Null /\ rows[i].ref # Null =>
       LET j == rows[i].ref IN
         /\ rows[i].content = Null
         /\ rows[j] # Null /\ rows[j].hash = rows[i].hash /\ rows[j].content # Null

\* Deduplication under concurrent saves: no two rows hold the same content, and
\* the row that holds it is the one the index names, so the next save finds it.
SingleCopy ==
  \A i \in Ids : rows[i] # Null /\ rows[i].content # Null =>
    hashIndex[rows[i].hash] = i

\* A reader gets the string its id was saved with, or nothing: deduplication,
\* deletion of a shared original and expiry never hand out another's content.
ContentIntegrity ==
  \A i \in Ids : rows[i] # Null => ContentOf(i) \in {Null, text[i]}

\* GetPaste returns the content of a burn-after-read paste to one reader, and
\* while the row is still stored its marker stays.
BurnOnce ==
  \A i \in Ids :
    /\ reads[i] <= 1
    /\ reads[i] = 1 => i \in burned \/ rows[i] = Null

\* The ban checks run before the save's transaction, in statements of their own:
\* a ban may slip in between, but a save never gets as far as its transaction
\* with content that was banned before the save began.
BanChecked ==
  \A c \in Clients : pc[c] = "tx" =>
    /\ <<HashOf[call[c].blob], "ciphertext">> \notin knownBans[c]
    /\ call[c].isPlaintext =>
         <<PlainHashOf[call[c].blob], "plaintext">> \notin knownBans[c]

\* What the callers of the store see of these tables.
Shown ==
  [i \in Ids |-> IF i \in burned \/ ~Visible(i) THEN Null ELSE ContentOf(i)]

PS == INSTANCE PasteStore WITH shown <- Shown

\* The tables implement the store: an id is put once, shown unchanged until it
\* is read, expires or is deleted, and never shown again.
ImplementsStore == PS!StoreSpec

\* A deduplicated paste is as readable as the paste it shares its content with
\* (storage_sqlite_test.go asserts it for two live pastes): until it expires or
\* is burned, GetPaste finds its content.
DuplicateReadable ==
  \A i \in Ids : Visible(i) /\ i \notin burned => ContentOf(i) # Null

=============================================================================
