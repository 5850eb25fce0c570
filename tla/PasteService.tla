---------------------------- MODULE PasteService ----------------------------
(***************************************************************************)
(* The paste API: the handlers CreatePaste and GetPasteAPI                 *)
(* (src/handlers_paste.go) over the tables of SqlStorage and the deletion  *)
(* queue of DeletionTasks, in a process that may die and be started again. *)
(*                                                                         *)
(* A handler's call of the storage is the storage's own step (or steps);   *)
(* between them, and between them and the handler's answer, other handlers *)
(* and workers run, the clock ticks and the operator's tools ban hashes    *)
(* and sweep expired rows.  Malformed requests are answered before the     *)
(* storage is touched and are left out.                                    *)
(***************************************************************************)
EXTENDS SqlStorage

CONSTANTS
  Handlers,    \* request goroutines
  Workers,     \* goroutines of the deletion queue
  MaxCrashes   \* bound: how often the process dies

VARIABLES
  task,        \* what has become of the deletion of each id
  got,         \* per handler: the paste GetPaste returned, until it is answered
  told,        \* per handler: its answer, until its next request
  served,      \* history: how often the text of a burn paste left in a 200
  gone,        \* history: ids some reader was told are gone
  crashes      \* how often the process has died

serviceVars == <<vars, task, got, told, served, gone, crashes>>

\* The goroutines that call the storage.
ASSUME ClientsAssumption == Clients = Handlers \cup Workers /\ Handlers \cap Workers = {}
ASSUME CrashesAssumption == MaxCrashes \in Nat

T == INSTANCE DeletionTasks

\* What GetPasteAPI holds between GetPaste's return and its answer.  `late` is
\* history: some reader had been told that the id is gone before this one asked.
Loaded == [id: Ids, expires: Int, burn: BOOLEAN, late: BOOLEAN]

Codes == {200, 403, 404, 410, 500}
Causes == {"created", "served", "banned", "notfound", "burned", "expired", "error"}
Answer == [code: Codes, cause: Causes, late: BOOLEAN]

ServiceTypeOK ==
  /\ TypeOK
  /\ task \in [Ids -> T!Statuses]
  /\ got \in [Handlers -> Loaded \cup {Null}]
  /\ told \in [Handlers -> Answer \cup {Null}]
  /\ served \in [Ids -> Nat]
  /\ gone \subseteq Ids
  /\ crashes \in 0..MaxCrashes

ServiceInit ==
  /\ Init
  /\ T!TasksInit
  /\ got = [h \in Handlers |-> Null]
  /\ told = [h \in Handlers |-> Null]
  /\ served = [i \in Ids |-> 0]
  /\ gone = {}
  /\ crashes = 0

-----------------------------------------------------------------------------

Free(h) == pc[h] = "idle" /\ got[h] = Null

Tell(h, code, cause) ==
  told' = [told EXCEPT ![h] = [code |-> code, cause |-> cause,
                               late |-> got[h] # Null /\ got[h].late]]

Hush(h) == told' = [told EXCEPT ![h] = Null]

\* The handler's answers when the storage call leaves it idle.
SaveAnswer(h, code, cause) ==
  IF pc'[h] = "idle" THEN Tell(h, code, cause) ELSE UNCHANGED told

-----------------------------------------------------------------------------
(* CreatePaste.                                                            *)

CreateStart(h) ==
  /\ Free(h)
  /\ \E i \in Ids, b \in Blobs, isPlaintext, burn \in BOOLEAN, ttl \in TTLs :
        SaveStart(h, i, b, isPlaintext, burn, ttl)
  /\ Hush(h)
  /\ UNCHANGED <<task, got, served, gone, crashes>>

CreateChecks(h) ==
  /\ SaveCheckPlaintext(h) \/ SaveCheckHash(h)
  /\ SaveAnswer(h, 403, "banned")
  /\ UNCHANGED <<task, got, served, gone, crashes>>

CreateSaved(h) ==
  /\ SaveTx(h)
  /\ SaveAnswer(h, 200, "created")
  /\ UNCHANGED <<task, got, served, gone, crashes>>

\* SavePaste returned an error; the paste may have been committed all the same.
CreateFails(h) ==
  /\ SaveError(h) \/ (Remote /\ SaveTx(h))
  /\ SaveAnswer(h, 500, "error")
  /\ UNCHANGED <<task, got, served, gone, crashes>>

-----------------------------------------------------------------------------
(* GetPasteAPI.  GetPaste is one transaction, so a request is born with it.*)

Load(h, i) ==
  /\ got' = [got EXCEPT ![h] = [id |-> i, expires |-> rows[i].expires,
                                burn |-> rows[i].burn, late |-> i \in gone]]
  /\ Hush(h)

\* Mutated form of ReadContent: GetPaste leaves the claim to the handler's answer.
ReadContent_ClaimLater(h, i) ==
  /\ Free(h)
  /\ GetResult(i) = "content"
  /\ UNCHANGED vars
  /\ Load(h, i)
  /\ UNCHANGED <<task, served, gone, crashes>>

\* GetPaste returned content; a burn-after-read paste was claimed by it.
ReadContent(h, i) ==
  /\ Free(h)
  /\ GetResult(i) = "content"
  /\ IF rows[i].burn THEN GetPaste(i) ELSE UNCHANGED vars
  /\ Load(h, i)
  /\ UNCHANGED <<task, served, gone, crashes>>

\* Only an id that was handed out can be gone; any other is unknown.
ReadNotFound(h, i) ==
  /\ Free(h)
  /\ GetResult(i) = "notfound"
  /\ Tell(h, 404, "notfound")
  /\ gone' = IF Stored(i) THEN gone \cup {i} ELSE gone
  /\ UNCHANGED <<vars, task, got, served, crashes>>

\* GetPaste returned the burned paste and no content: ValidateBase64 refuses the
\* empty string before IsBurned is looked at.
ReadBurned(h, i) ==
  /\ Free(h)
  /\ GetResult(i) = "burned"
  /\ Tell(h, 500, "burned")
  /\ gone' = gone \cup {i}
  /\ UNCHANGED <<vars, task, got, served, crashes>>

\* GetPaste returned an error; a claim may have been committed all the same.
ReadFails(h, i) ==
  /\ Free(h)
  /\ UNCHANGED vars \/ GetPasteAnswerLost(i)
  /\ Tell(h, 500, "error")
  /\ UNCHANGED <<task, got, served, gone, crashes>>

Answered(h) == got' = [got EXCEPT ![h] = Null]

Served(h) ==
  LET g == got[h] IN
    /\ Tell(h, 200, "served")
    /\ served' = IF g.burn THEN [served EXCEPT ![g.id] = @ + 1] ELSE served
    /\ Answered(h)

\* An id is queued once (DoneIsErased); a second try would find nothing to delete.
QueueDeletion(i) ==
  IF task[i] = "none" THEN T!Accept(i) \/ T!Reject(i) ELSE UNCHANGED task

\* Mutated form of Serve: every paste that was read is queued for deletion.
Serve_QueueAlways(h) ==
  /\ pc[h] = "idle" /\ got[h] # Null
  /\ Clock <= got[h].expires
  /\ QueueDeletion(got[h].id)
  /\ Served(h)
  /\ UNCHANGED <<vars, gone, crashes>>

\* Mutated form of Serve: the handler trusts the database's clock.
Serve_NoClock(h) ==
  /\ pc[h] = "idle" /\ got[h] # Null
  /\ IF got[h].burn THEN QueueDeletion(got[h].id) ELSE UNCHANGED task
  /\ Served(h)
  /\ UNCHANGED <<vars, gone, crashes>>

\* The paste is served; a claimed one is queued for deletion, and served even
\* when the queue refuses it.
Serve(h) ==
  /\ pc[h] = "idle" /\ got[h] # Null
  /\ Clock <= got[h].expires
  /\ IF got[h].burn THEN QueueDeletion(got[h].id) ELSE UNCHANGED task
  /\ Served(h)
  /\ UNCHANGED <<vars, gone, crashes>>

Expired(h) == Tell(h, 410, "expired") /\ gone' = gone \cup {got[h].id} /\ Answered(h)

\* The paste has expired by the program's clock, if not yet by the database's: it
\* may be ahead, and time has passed since GetPaste.
\* DeletePaste's error is ignored, and so is its second statement.
ExpireDelete(h) ==
  /\ pc[h] = "idle" /\ got[h] # Null
  /\ Clock > got[h].expires
  /\ DeletePaste(h, got[h].id)
  /\ IF Remote THEN UNCHANGED <<told, gone, got>> ELSE Expired(h)
  /\ UNCHANGED <<task, served, crashes>>

ExpireMarker(h) ==
  /\ got[h] # Null
  /\ DeleteMarker(h)
  /\ Expired(h)
  /\ UNCHANGED <<task, served, crashes>>

ExpireFails(h) ==
  /\ pc[h] = "idle" /\ got[h] # Null
  /\ Clock > got[h].expires
  /\ UNCHANGED vars \/ DeletePasteAnswerLost(got[h].id)
  /\ Expired(h)
  /\ UNCHANGED <<task, served, crashes>>

-----------------------------------------------------------------------------
(* A worker of the deletion queue.                                         *)

\* Mutated form of Erase: the marker is removed before the row.
Erase_MarkerFirst(w, i) ==
  /\ pc[w] = "idle" /\ task[i] = "queued"
  /\ burned' = burned \ {i}
  /\ T!Succeed(i)
  /\ UNCHANGED <<rows, hashIndex, banned, now, pc, call, text, reads, knownBans>>
  /\ UNCHANGED <<got, told, served, gone, crashes>>

Erase(w, i) ==
  /\ pc[w] = "idle" /\ task[i] = "queued"
  /\ \A v \in Workers : pc[v] = "unmark" => call[v] # i
  /\ DeletePaste(w, i)
  /\ IF Remote THEN UNCHANGED task ELSE T!Succeed(i)
  /\ UNCHANGED <<got, told, served, gone, crashes>>

EraseMarker(w) ==
  /\ DeleteMarker(w)
  /\ T!Succeed(call[w])
  /\ UNCHANGED <<got, told, served, gone, crashes>>

\* The delete failed or its five seconds ran out, with effect or without: it is
\* logged, not retried.
EraseFails(w, i) ==
  /\ pc[w] = "idle" /\ task[i] = "queued"
  /\ \A v \in Workers : pc[v] = "unmark" => call[v] # i
  /\ UNCHANGED vars \/ DeletePasteAnswerLost(i)
  /\ T!GiveUp(i)
  /\ UNCHANGED <<got, told, served, gone, crashes>>

-----------------------------------------------------------------------------
(* The process and its environment.                                        *)

\* The process dies and is started again.  The tables survive; the requests, the
\* queue and the workers do not, and nothing looks for unfinished deletions.
Crash ==
  /\ crashes < MaxCrashes
  /\ crashes' = crashes + 1
  /\ pc' = [c \in Clients |-> "idle"]
  /\ call' = [c \in Clients |-> Null]
  /\ knownBans' = [c \in Clients |-> {}]
  /\ got' = [h \in Handlers |-> Null]
  /\ told' = [h \in Handlers |-> Null]
  /\ task' = [i \in Ids |-> IF task[i] = "queued" THEN "failed" ELSE task[i]]
  /\ UNCHANGED <<tables, now, text, reads, served, gone>>

Environment ==
  /\ \/ Tick
     \/ CleanupExpired
     \/ \E h \in Hashes : BanContentHash(h) \/ BanPlaintextHash(h)
  /\ UNCHANGED <<task, got, told, served, gone, crashes>>

Request(h) ==
  \/ CreateStart(h)
  \/ \E i \in Ids : ReadContent(h, i)
  \/ \E i \in Ids : ReadNotFound(h, i)
  \/ \E i \in Ids : ReadBurned(h, i)
  \/ \E i \in Ids : ReadFails(h, i)

Handle(h) ==
  \/ CreateChecks(h)
  \/ CreateSaved(h)
  \/ CreateFails(h)
  \/ Serve(h)
  \/ ExpireDelete(h)
  \/ ExpireMarker(h)
  \/ ExpireFails(h)

Work(w) ==
  \/ \E i \in Ids : Erase(w, i)
  \/ EraseMarker(w)
  \/ \E i \in Ids : EraseFails(w, i)

ServiceNext ==
  \/ \E h \in Handlers : Request(h)
  \/ \E h \in Handlers : Handle(h)
  \/ \E w \in Workers : Work(w)
  \/ Crash
  \/ Environment

\* A request that was begun is answered, and a worker works while there is work
\* (DeletionQueue!ImplementsTasks).
Fairness ==
  /\ \A h \in Handlers : WF_serviceVars(Handle(h))
  /\ \A w \in Workers : WF_serviceVars(Work(w))

ServiceSpec == ServiceInit /\ [][ServiceNext]_serviceVars /\ Fairness

-----------------------------------------------------------------------------
(* Correctness.                                                            *)

\* The text of a burn-after-read paste leaves the service in one 200 at most,
\* across handlers, workers and restarts, and never without the claim of GetPaste.
ServedOnce == \A i \in Ids : served[i] <= reads[i] /\ served[i] <= 1

\* What a reader has been told is gone stays gone: no request that was born
\* afterwards is answered with the text.
GoneStaysGone ==
  \A h \in Handlers : told[h] # Null /\ told[h].cause = "served" => ~told[h].late

\* A paste is erased for a reason only: its one reader has claimed it, or its
\* lifetime is over by one of the two clocks.  No handler, worker, sweep or lost
\* answer erases a paste before.
ErasedForReason ==
  [][\A i \in Ids : rows[i] # Null /\ rows'[i] = Null =>
       i \in burned \/ rows[i].expires < now \/ rows[i].expires < Clock]_serviceVars

\* A deletion that is reported done is done: neither the row nor its marker is
\* left, and a paste is queued only after a reader has claimed it.
DoneIsErased ==
  \A i \in Ids :
    /\ task[i] = "deleted" => rows[i] = Null /\ i \notin burned
    /\ task[i] # "none" => reads[i] = 1

-----------------------------------------------------------------------------
(* What the sources say and the code does not do.                          *)

\* The handler means to answer 410 for a paste that is already burned (its branch
\* on IsBurned, under the comment "Paste was already burned ..."): ValidateBase64
\* has refused the empty content before that branch is reached.
BurnedIsGone ==
  \A h \in Handlers : told[h] # Null /\ told[h].cause = "burned" => told[h].code = 410

\* A paste that was read once is deleted (viewer.html: "automatically deleted
\* after viewing"): its row does not stay in the tables for good.
BurnedErased ==
  \A i \in Ids : served[i] = 1 ~> rows[i] = Null

=============================================================================
