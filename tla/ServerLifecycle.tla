--------------------------- MODULE ServerLifecycle ---------------------------
(***************************************************************************)
(* Start and Shutdown of the server (src/server.go) around the deletion    *)
(* queue: Shutdown stops the HTTP server, then the queue, then the         *)
(* in-memory rate limiter, and closes the storage last.                    *)
(*                                                                         *)
(* The queue is DeletionQueue itself: the handlers are its producers and   *)
(* every call of Server.Shutdown is one of its stoppers.  The rate         *)
(* limiter is RateLimitService.Stop and its cleanup goroutine              *)
(* (src/services/ratelimit.go), two channels with a buffer of one.         *)
(* net/http is external: Shutdown closes the listener, waits for the       *)
(* handlers in flight, and gives up when its context ends.                 *)
(***************************************************************************)
EXTENDS DeletionQueue

VARIABLES
  httpServer,     \* Start has assigned s.httpServer
  listening,      \* ListenAndServe: before it listens, its listener open, and closed
  inflight,       \* handlers that serve a request
  step,           \* per call of Shutdown: where it is
  stopCleanup,    \* the value in the limiter's stopCleanup channel is there
  cleanupDone,    \* the value in its cleanupDone channel is there
  cleaner,        \* the cleanup goroutine runs
  storageClosed,  \* the storage has been closed
  early           \* history: a Shutdown found no HTTP server to stop

limiterVars == <<stopCleanup, cleanupDone, cleaner>>
httpVars == <<httpServer, listening, inflight, early>>
serverVars == <<vars, limiterVars, httpVars, step, storageClosed>>

Steps == {"idle", "http", "queue", "limiter", "waitCleanup", "storage", "done", "failed"}

ServerTypeOK ==
  /\ TypeOK
  /\ httpServer \in BOOLEAN /\ listening \in {"new", "open", "closed"}
  /\ inflight \subseteq Producers
  /\ step \in [Stoppers -> Steps]
  /\ stopCleanup \in BOOLEAN /\ cleanupDone \in BOOLEAN /\ cleaner \in BOOLEAN
  /\ storageClosed \in BOOLEAN /\ early \in BOOLEAN

ServerInit ==
  /\ Init
  /\ httpServer = FALSE /\ listening = "new"
  /\ inflight = {}
  /\ step = [s \in Stoppers |-> "idle"]
  /\ stopCleanup = FALSE /\ cleanupDone = FALSE /\ cleaner = TRUE
  /\ storageClosed = FALSE /\ early = FALSE

StepTo(s, label) == step' = [step EXCEPT ![s] = label]

-----------------------------------------------------------------------------
(* Start and the requests.                                                 *)

\* Start assigns s.httpServer, which Shutdown may see at once.
Start ==
  /\ ~httpServer
  /\ httpServer' = TRUE
  /\ UNCHANGED <<vars, limiterVars, listening, inflight, early, step, storageClosed>>

\* It listens, unless a Shutdown has come between.
ListenAndServe ==
  /\ httpServer /\ listening = "new"
  /\ listening' = "open"
  /\ UNCHANGED <<vars, limiterVars, httpServer, inflight, early, step, storageClosed>>

RequestStart(p) ==
  /\ listening = "open" /\ p \notin inflight
  /\ inflight' = inflight \cup {p}
  /\ UNCHANGED <<vars, limiterVars, httpServer, listening, early, step, storageClosed>>

RequestQueues(p) ==
  /\ p \in inflight
  /\ Produce(p)
  /\ UNCHANGED <<limiterVars, httpVars, step, storageClosed>>

RequestEnd(p) ==
  /\ p \in inflight /\ pc[p] = "idle"
  /\ inflight' = inflight \ {p}
  /\ UNCHANGED <<vars, limiterVars, httpServer, listening, early, step, storageClosed>>

-----------------------------------------------------------------------------
(* The pool and the cleanup goroutine.                                     *)

\* The storage is closed with the pool alive only after the queue's context was
\* cancelled: what a worker takes up then is doomed, and a statement in flight may
\* still finish.
PoolWork(w) ==
  /\ Work(w)
  /\ UNCHANGED <<limiterVars, httpVars, step, storageClosed>>

\* Mutated form of CleanupExit: the deferred send on cleanupDone is missing.
CleanupExit_NoSignal ==
  /\ cleaner /\ stopCleanup
  /\ stopCleanup' = FALSE
  /\ cleaner' = FALSE
  /\ UNCHANGED <<vars, cleanupDone, httpVars, step, storageClosed>>

CleanupExit ==
  /\ cleaner /\ stopCleanup
  /\ stopCleanup' = FALSE
  /\ cleaner' = FALSE
  /\ cleanupDone' = TRUE
  /\ UNCHANGED <<vars, httpVars, step, storageClosed>>

-----------------------------------------------------------------------------
(* Shutdown.                                                               *)

\* s.httpServer is read without synchronisation with Start; http.Server.Shutdown
\* closes the listener for good, and one that is not open yet will not be.
ShutdownStart(s) ==
  /\ step[s] = "idle"
  /\ IF httpServer
       THEN StepTo(s, "http") /\ listening' = "closed" /\ UNCHANGED early
       ELSE StepTo(s, "queue") /\ early' = TRUE /\ UNCHANGED listening
  /\ UNCHANGED <<vars, limiterVars, httpServer, inflight, storageClosed>>

\* Mutated form of HttpStopped: Shutdown does not wait for the handlers in flight.
HttpStopped_NoWait(s) ==
  /\ step[s] = "http"
  /\ StepTo(s, "queue")
  /\ UNCHANGED <<vars, limiterVars, httpVars, storageClosed>>

HttpStopped(s) ==
  /\ step[s] = "http"
  /\ inflight = {}
  /\ StepTo(s, "queue")
  /\ UNCHANGED <<vars, limiterVars, httpVars, storageClosed>>

\* Mutated form of HttpTimeout: the error is logged and the shutdown goes on.
HttpTimeout_GoesOn(s) ==
  /\ step[s] = "http"
  /\ StepTo(s, "queue")
  /\ UNCHANGED <<vars, limiterVars, httpVars, storageClosed>>

\* The context ends first: Shutdown returns, and nothing else is shut down.
HttpTimeout(s) ==
  /\ step[s] = "http"
  /\ StepTo(s, "failed")
  /\ UNCHANGED <<vars, limiterVars, httpVars, storageClosed>>

\* Mutated form of StopQueue: the queue's Shutdown is not waited for.
StopQueue_NoWait(s) ==
  /\ step[s] = "queue"
  /\ Stop(s)
  /\ IF pc'[s] = "waiting" THEN StepTo(s, "limiter") ELSE UNCHANGED step
  /\ UNCHANGED <<limiterVars, httpVars, storageClosed>>

\* The queue's Shutdown; its timeout is logged and the shutdown goes on.
StopQueue(s) ==
  /\ step[s] = "queue"
  /\ Stop(s)
  /\ IF pc'[s] \in {"ok", "timeout"} THEN StepTo(s, "limiter") ELSE UNCHANGED step
  /\ UNCHANGED <<limiterVars, httpVars, storageClosed>>

\* RateLimitService.Stop: it sends if the buffer is free, and then waits.
StopLimiter(s) ==
  /\ step[s] = "limiter"
  /\ stopCleanup' = TRUE
  /\ StepTo(s, IF stopCleanup THEN "storage" ELSE "waitCleanup")
  /\ UNCHANGED <<vars, cleanupDone, cleaner, httpVars, storageClosed>>

LimiterStopped(s) ==
  /\ step[s] = "waitCleanup"
  /\ cleanupDone
  /\ cleanupDone' = FALSE
  /\ StepTo(s, "storage")
  /\ UNCHANGED <<vars, stopCleanup, cleaner, httpVars, storageClosed>>

CloseStorage(s) ==
  /\ step[s] = "storage"
  /\ storageClosed' = TRUE
  /\ StepTo(s, "done")
  /\ UNCHANGED <<vars, limiterVars, httpVars>>

Shutdown(s) ==
  \/ HttpStopped(s)
  \/ HttpTimeout(s)
  \/ StopQueue(s)
  \/ StopLimiter(s)
  \/ LimiterStopped(s)
  \/ CloseStorage(s)

ServerNext ==
  \/ Start
  \/ ListenAndServe
  \/ \E p \in Producers : RequestStart(p)
  \/ \E p \in Producers : RequestQueues(p)
  \/ \E p \in Producers : RequestEnd(p)
  \/ \E w \in Workers : PoolWork(w)
  \/ CleanupExit
  \/ \E s \in Stoppers : ShutdownStart(s)
  \/ \E s \in Stoppers : Shutdown(s)

\* The goroutines of the server run on; a handler inside QueueDeletion too, since
\* it holds the queue's mutex.  Nothing makes a client finish its request.
ServerFairness ==
  /\ \A p \in Producers : WF_serverVars(RequestQueues(p) /\ pc[p] # "idle")
  /\ \A w \in Workers : WF_serverVars(PoolWork(w))
  /\ WF_serverVars(CleanupExit)
  /\ \A s \in Stoppers : WF_serverVars(Shutdown(s))

ServerSpec == ServerInit /\ [][ServerNext]_serverVars /\ ServerFairness

-----------------------------------------------------------------------------
(* Correctness.                                                            *)

Ended(s) == step[s] \in {"done", "failed"}

\* The queue refuses no deletion of a handler because of a shutdown, and the
\* storage is not closed under a handler: the HTTP server is stopped first, and
\* when it cannot be, nothing is.  Only a Shutdown that overtakes Start is exempt.
HandlersFirst == closed \/ storageClosed => inflight = {} \/ early

\* The storage is closed under a running deletion, or with accepted deletions
\* untried, only when the queue's Shutdown ran out of time.
StorageLast ==
  storageClosed =>
    \/ Pending = {} /\ \A w \in Workers : pc[w] = "exited"
    \/ \E s \in Stoppers : pc[s] = "timeout"

\* Of the calls of Shutdown that were made, one returns: the HTTP server and the
\* queue are waited for with a timeout, and the cleanup goroutine answers.
OneReturns == (\E s \in Stoppers : step[s] # "idle") ~> (\E s \in Stoppers : Ended(s))

-----------------------------------------------------------------------------

\* Shutdown "is idempotent and can be called multiple times safely" (its comment):
\* every call returns.  The second RateLimitService.Stop finds the buffer free
\* again and waits for a goroutine that has exited.
EveryCallReturns == \A s \in Stoppers : step[s] # "idle" ~> Ended(s)

=============================================================================
