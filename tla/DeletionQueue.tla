---------------------------- MODULE DeletionQueue ----------------------------
(***************************************************************************)
(* The deletion queue of src/services/deletion_queue.go: a buffered        *)
(* channel of paste ids, a pool of worker goroutines that delete them, and *)
(* a Shutdown that closes the channel and waits for the pool, or gives up. *)
(*                                                                         *)
(* QueueDeletion and Shutdown are taken apart at the mutex and at the      *)
(* check-then-act on `closed` it protects: Go panics on a send to a closed *)
(* channel and on a second close.  The handlers queue an id once, when     *)
(* GetPaste has claimed it (SqlStorage!BurnOnce).  The storage behind a    *)
(* worker is an outcome: DeletePaste returns nil or an error, always an    *)
(* error when its context was cancelled before the call.                   *)
(***************************************************************************)
EXTENDS Naturals, Sequences, FiniteSets

CONSTANTS
  Producers,   \* request handlers
  Workers,     \* worker goroutines
  Stoppers,    \* goroutines that call Shutdown
  Ids,         \* paste ids
  Capacity,    \* buffer of the channel
  Null         \* no goroutine, no id

ASSUME CapacityAssumption == Capacity \in Nat \ {0}
ASSUME WorkersAssumption == IsFiniteSet(Workers) /\ Workers # {}
ASSUME DistinctAssumption ==
  /\ Producers \cap Stoppers = {}
  /\ Workers \cap (Producers \cup Stoppers) = {}
  /\ Null \notin Producers \cup Stoppers \cup Ids

VARIABLES
  tasks,       \* the channel's buffer
  chanClosed,  \* close(q.tasks) has happened
  closed,      \* q.closed
  cancelled,   \* q.ctx is cancelled
  mu,          \* holder of q.mu
  pc,          \* program counter of every goroutine
  item,        \* the id a producer sends or a worker deletes
  doomed,      \* workers whose current DeletePaste got a cancelled context
  status,      \* history, per id: what has become of its deletion
  panicked     \* a goroutine sent on, or closed, a closed channel

vars == <<tasks, chanClosed, closed, cancelled, mu, pc, item, doomed, status, panicked>>

PCs == {"idle", "locked", "sending",                        \* producer
        "receive", "delete", "exited",                      \* worker
        "closing", "unlocking", "waiting", "ok", "timeout"} \* Shutdown

Statuses == {"none", "rejected", "queued", "deleted", "failed"}

Goroutines == Producers \cup Workers \cup Stoppers

TypeOK ==
  /\ tasks \in Seq(Ids) /\ Len(tasks) <= Capacity
  /\ chanClosed \in BOOLEAN /\ closed \in BOOLEAN
  /\ cancelled \in BOOLEAN /\ panicked \in BOOLEAN
  /\ mu \in Producers \cup Stoppers \cup {Null}
  /\ pc \in [Goroutines -> PCs]
  /\ item \in [Producers \cup Workers -> Ids \cup {Null}]
  /\ doomed \subseteq Workers
  /\ status \in [Ids -> Statuses]

Init ==
  /\ tasks = <<>>
  /\ chanClosed = FALSE /\ closed = FALSE
  /\ cancelled = FALSE /\ panicked = FALSE
  /\ mu = Null
  /\ pc = [g \in Goroutines |-> IF g \in Workers THEN "receive" ELSE "idle"]
  /\ item = [g \in Producers \cup Workers |-> Null]
  /\ doomed = {}
  /\ status = [i \in Ids |-> "none"]

Goto(g, label) == pc' = [pc EXCEPT ![g] = label]

Lock(g) == mu = Null /\ mu' = g
Unlock(g) == mu = g /\ mu' = Null

-----------------------------------------------------------------------------
(* QueueDeletion.                                                          *)

\* Mutated form of QueueLock: the closed flag is read without the mutex.
QueueLock_NoMutex(p, i) ==
  /\ pc[p] = "idle"
  /\ status[i] = "none" /\ \A q \in Producers : item[q] # i
  /\ mu' = p
  /\ Goto(p, "locked")
  /\ item' = [item EXCEPT ![p] = i]
  /\ UNCHANGED <<tasks, chanClosed, closed, cancelled, doomed, status, panicked>>

QueueLock(p, i) ==
  /\ pc[p] = "idle"
  /\ status[i] = "none" /\ \A q \in Producers : item[q] # i
  /\ Lock(p)
  /\ Goto(p, "locked")
  /\ item' = [item EXCEPT ![p] = i]
  /\ UNCHANGED <<tasks, chanClosed, closed, cancelled, doomed, status, panicked>>

Reply(p, answer) ==
  /\ status' = [status EXCEPT ![item[p]] = answer]
  /\ item' = [item EXCEPT ![p] = Null]
  /\ Goto(p, "idle")
  /\ Unlock(p)

QueueCheck(p) ==
  /\ pc[p] = "locked"
  /\ IF closed
       THEN Reply(p, "rejected")
       ELSE Goto(p, "sending") /\ UNCHANGED <<mu, item, status>>
  /\ UNCHANGED <<tasks, chanClosed, closed, cancelled, doomed, panicked>>

\* Mutated form of QueueSend: the id is dropped and nil returned when full.
QueueSend_DropWhenFull(p) ==
  /\ pc[p] = "sending"
  /\ panicked' = (panicked \/ chanClosed)
  /\ tasks' = IF Len(tasks) < Capacity THEN Append(tasks, item[p]) ELSE tasks
  /\ Reply(p, "queued")
  /\ UNCHANGED <<chanClosed, closed, cancelled, doomed>>

\* Mutated form of QueueSend: the select has no default and the channel no bound.
QueueSend_Unbounded(p) ==
  /\ pc[p] = "sending"
  /\ panicked' = (panicked \/ chanClosed)
  /\ tasks' = Append(tasks, item[p])
  /\ Reply(p, "queued")
  /\ UNCHANGED <<chanClosed, closed, cancelled, doomed>>

\* The select with a default: it sends, or finds the buffer full.
QueueSend(p) ==
  /\ pc[p] = "sending"
  /\ panicked' = (panicked \/ chanClosed)
  /\ IF Len(tasks) < Capacity
       THEN tasks' = Append(tasks, item[p]) /\ Reply(p, "queued")
       ELSE UNCHANGED tasks /\ Reply(p, "rejected")
  /\ UNCHANGED <<chanClosed, closed, cancelled, doomed>>

-----------------------------------------------------------------------------
(* worker.                                                                 *)

Receive(w) ==
  /\ pc[w] = "receive"
  /\ tasks # <<>>
  /\ item' = [item EXCEPT ![w] = Head(tasks)]
  /\ tasks' = Tail(tasks)
  /\ doomed' = IF cancelled THEN doomed \cup {w} ELSE doomed
  /\ Goto(w, "delete")
  /\ UNCHANGED <<chanClosed, closed, cancelled, mu, status, panicked>>

\* DeletePaste returned: an error is logged, never retried.
Deleted(w, outcome) ==
  /\ pc[w] = "delete"
  /\ status' = [status EXCEPT ![item[w]] = outcome]
  /\ item' = [item EXCEPT ![w] = Null]
  /\ doomed' = doomed \ {w}
  /\ Goto(w, "receive")
  /\ UNCHANGED <<tasks, chanClosed, closed, cancelled, mu, panicked>>

DeleteOK(w) == w \notin doomed /\ Deleted(w, "deleted")
DeleteFails(w) == Deleted(w, "failed")

\* Mutated form of WorkerExit: the worker leaves without draining the buffer.
WorkerExit_NoDrain(w) ==
  /\ pc[w] = "receive"
  /\ chanClosed
  /\ Goto(w, "exited")
  /\ UNCHANGED <<tasks, chanClosed, closed, cancelled, mu, item, doomed, status, panicked>>

\* The range loop ends when the channel is closed and drained.
WorkerExit(w) ==
  /\ pc[w] = "receive"
  /\ tasks = <<>> /\ chanClosed
  /\ Goto(w, "exited")
  /\ UNCHANGED <<tasks, chanClosed, closed, cancelled, mu, item, doomed, status, panicked>>

-----------------------------------------------------------------------------
(* Shutdown.                                                               *)

ShutdownLock(s) ==
  /\ pc[s] = "idle"
  /\ Lock(s)
  /\ Goto(s, "locked")
  /\ UNCHANGED <<tasks, chanClosed, closed, cancelled, item, doomed, status, panicked>>

ShutdownCheck(s) ==
  /\ pc[s] = "locked"
  /\ Goto(s, IF closed THEN "unlocking" ELSE "closing")
  /\ closed' = TRUE
  /\ UNCHANGED <<tasks, chanClosed, cancelled, mu, item, doomed, status, panicked>>

\* Mutated form of ShutdownClose: the flag is set and the channel left open.
ShutdownClose_FlagOnly(s) ==
  /\ pc[s] = "closing"
  /\ Goto(s, "unlocking")
  /\ UNCHANGED <<tasks, chanClosed, closed, cancelled, mu, item, doomed, status, panicked>>

ShutdownClose(s) ==
  /\ pc[s] = "closing"
  /\ panicked' = (panicked \/ chanClosed)
  /\ chanClosed' = TRUE
  /\ Goto(s, "unlocking")
  /\ UNCHANGED <<tasks, closed, cancelled, mu, item, doomed, status>>

\* Mutated form of ShutdownUnlock: the context is cancelled before the wait.
ShutdownUnlock_CancelFirst(s) ==
  /\ pc[s] = "unlocking"
  /\ Unlock(s)
  /\ cancelled' = TRUE
  /\ Goto(s, "waiting")
  /\ UNCHANGED <<tasks, chanClosed, closed, item, doomed, status, panicked>>

ShutdownUnlock(s) ==
  /\ pc[s] = "unlocking"
  /\ Unlock(s)
  /\ Goto(s, "waiting")
  /\ UNCHANGED <<tasks, chanClosed, closed, cancelled, item, doomed, status, panicked>>

\* Mutated form of ShutdownDone: it waits for an empty buffer, not for the pool.
ShutdownDone_BufferOnly(s) ==
  /\ pc[s] = "waiting"
  /\ tasks = <<>>
  /\ cancelled' = TRUE
  /\ Goto(s, "ok")
  /\ UNCHANGED <<tasks, chanClosed, closed, mu, item, doomed, status, panicked>>

\* wg.Wait() has returned.
ShutdownDone(s) ==
  /\ pc[s] = "waiting"
  /\ \A w \in Workers : pc[w] = "exited"
  /\ cancelled' = TRUE
  /\ Goto(s, "ok")
  /\ UNCHANGED <<tasks, chanClosed, closed, mu, item, doomed, status, panicked>>

\* time.After(timeout) fired; nothing says the pool has not finished too.
ShutdownTimeout(s) ==
  /\ pc[s] = "waiting"
  /\ cancelled' = TRUE
  /\ Goto(s, "timeout")
  /\ UNCHANGED <<tasks, chanClosed, closed, mu, item, doomed, status, panicked>>

-----------------------------------------------------------------------------

Produce(p) ==
  \/ \E i \in Ids : QueueLock(p, i)
  \/ QueueCheck(p)
  \/ QueueSend(p)

Work(w) ==
  \/ Receive(w)
  \/ DeleteOK(w)
  \/ DeleteFails(w)
  \/ WorkerExit(w)

Stop(s) ==
  \/ ShutdownLock(s)
  \/ ShutdownCheck(s)
  \/ ShutdownClose(s)
  \/ ShutdownUnlock(s)
  \/ ShutdownDone(s)
  \/ ShutdownTimeout(s)

Next ==
  \/ \E p \in Producers : Produce(p)
  \/ \E w \in Workers : Work(w)
  \/ \E s \in Stoppers : Stop(s)

(***************************************************************************)
(* Fairness.  A handler inside QueueDeletion runs on, but nobody has to    *)
(* call it.  A worker runs on; its DeletePaste returns because its context *)
(* ends after five seconds (line 79).  A Shutdown that holds or waits goes *)
(* on: its timer fires (line 158).  Nobody has to call Shutdown either.    *)
(***************************************************************************)
Fairness ==
  /\ \A p \in Producers : WF_vars(QueueCheck(p) \/ QueueSend(p))
  /\ \A w \in Workers : WF_vars(Work(w))
  /\ \A s \in Stoppers : WF_vars(Stop(s) /\ pc[s] # "idle")

Spec == Init /\ [][Next]_vars /\ Fairness

-----------------------------------------------------------------------------
(* Correctness.                                                            *)

\* The mutex makes `closed` and the channel agree: no handler sends on a closed
\* channel and no two Shutdowns close it.
NoPanic == ~panicked

\* An accepted deletion is in exactly one place until it has been tried: once in
\* the buffer, or in one worker's hands.
Pending == {i \in Ids : status[i] = "queued"}
InBuffer == {tasks[k] : k \in 1..Len(tasks)}
InHand == {item[w] : w \in {v \in Workers : pc[v] = "delete"}}

ExactlyOnce ==
  /\ Pending = InBuffer \cup InHand
  /\ InBuffer \cap InHand = {}
  /\ Cardinality(InBuffer) = Len(tasks)
  /\ \A v, w \in Workers : pc[v] = "delete" /\ pc[w] = "delete" /\ item[v] = item[w] => v = w

\* When Shutdown returns nil every accepted deletion has been tried and no worker
\* runs any more: the server may close the storage.
GracefulDrain ==
  \A s \in Stoppers : pc[s] = "ok" =>
    /\ Pending = {}
    /\ \A w \in Workers : pc[w] = "exited"

\* A deletion is started with a dead context only after some Shutdown ran out of
\* time: a graceful drain, and a second Shutdown beside it, doom none.
DoomedByTimeout ==
  doomed # {} => \E s \in Stoppers : pc[s] = "timeout"

DT == INSTANCE DeletionTasks WITH task <- status

\* The channel, its workers and Shutdown implement the promise made to the
\* handlers: every accepted deletion is eventually tried, once, with or without a
\* Shutdown beside it, and what was settled stays settled.
ImplementsTasks == DT!TasksSpec

\* Once the queue refuses deletions the pool ends, and every Shutdown that was
\* called returns, the second one too.
PoolEnds ==
  closed ~> /\ \A w \in Workers : pc[w] = "exited"
            /\ \A s \in Stoppers : pc[s] \in {"idle", "ok", "timeout"}

=============================================================================
