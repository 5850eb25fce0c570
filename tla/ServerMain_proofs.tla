-------------------------- MODULE ServerMain_proofs --------------------------
(***************************************************************************)
(* Proofs of the order in which the program is taken down: no handler      *)
(* after the HTTP server has been stopped (HandlersFirst), no secret       *)
(* needed after their provider has been closed (SecretsLast), the storage  *)
(* closed after the deletions (StorageLast), and main's return after that  *)
(* (ExitDrained).                                                          *)
(*                                                                         *)
(* Every step of the program is a step of DeletionQueue or leaves it       *)
(* alone, so what DeletionQueue_proofs shows of a step holds here.         *)
(***************************************************************************)
EXTENDS ServerMain, DeletionQueue_proofs

\* Where a Shutdown is when it has left the HTTP server behind.
Beyond == {"queue", "limiter", "waitCleanup", "storage", "done"}

Stopped == httpServer /\ listening = "closed"

\* A Shutdown that found an HTTP server has closed its listener for good; beyond
\* it the handlers are gone; and only a Shutdown beyond it closes anything.
OrderInv ==
  /\ step \in [Stoppers -> Steps]
  /\ listening # "new" => httpServer
  /\ \A s \in Stoppers : step[s] \in {"http", "failed"} => Stopped
  /\ \A s \in Stoppers : step[s] \in Beyond => early \/ (Stopped /\ inflight = {})
  /\ closed \/ storageClosed => \E s \in Stoppers : step[s] \in Beyond

\* main gets to config.Close when its Shutdown has returned.
MainInv == main \in {"closing", "closed", "leaving", "exited"} => Ended(Main)

-----------------------------------------------------------------------------
(* What the steps do, as far as the two invariants can tell.               *)

\* The flag of the queue is set by a Shutdown, and left alone by the others.
LEMMA FlagOfQueue ==
  /\ \A p \in Producers : RequestQueues(p) => closed' = closed
  /\ \A w \in Workers : PoolWork(w) => closed' = closed
  BY DEF RequestQueues, PoolWork, Work, Produce, QueueLock, QueueCheck, QueueSend,
         Receive, DeleteOK, DeleteFails, Deleted, WorkerExit

\* The steps of the handlers, the workers and the cleanup leave Shutdown alone.
Beside ==
  /\ UNCHANGED <<closed, httpServer, early, step, storageClosed>>
  /\ listening' = listening \/ (httpServer /\ listening' = "closed")
  /\ inflight' \subseteq inflight

\* What a step of Shutdown does: it goes on, and it may set a flag once it is beyond
\* the HTTP server.
Along(s) ==
  \/ /\ step[s] = "http"
     /\ \/ inflight = {} /\ step' = [step EXCEPT ![s] = "queue"]
        \/ step' = [step EXCEPT ![s] = "failed"]
     /\ UNCHANGED <<closed, storageClosed>>
  \/ /\ step[s] \in Beyond \ {"done"}
     /\ \E label \in Beyond : step' = [step EXCEPT ![s] = label]
  \/ step[s] \in Beyond \ {"done"} /\ step' = step

LEMMA ShutdownAlong ==
  ASSUME NEW s \in Stoppers, Shutdown(s), OrderInv
  PROVE  Along(s) /\ UNCHANGED httpVars
  <1>1. CASE HttpStopped(s) \/ HttpTimeout(s)
    BY <1>1 DEF HttpStopped, HttpTimeout, Along, StepTo, vars, httpVars
  <1>2. CASE StopQueue(s)
    BY <1>2 DEF StopQueue, Along, Beyond, StepTo, httpVars
  <1>3. CASE StopLimiter(s)
    <2>1. \E label \in Beyond : step' = [step EXCEPT ![s] = label]
      BY <1>3 DEF StopLimiter, StepTo, Beyond
    <2> QED BY <1>3, <2>1 DEF StopLimiter, Along, Beyond, httpVars
  <1>4. CASE LimiterStopped(s) \/ CloseStorage(s)
    BY <1>4 DEF LimiterStopped, CloseStorage, Along, Beyond, StepTo, httpVars
  <1> QED BY <1>1, <1>2, <1>3, <1>4 DEF Shutdown

-----------------------------------------------------------------------------
(* The order is kept.                                                      *)

LEMMA OrderInit == MainInit => OrderInv
  BY DEF MainInit, ServerInit, Init, OrderInv, Steps, Beyond, Stopped

LEMMA BesideKeepsOrder == OrderInv /\ Beside => OrderInv'
  BY DEF OrderInv, Beside, Stopped

LEMMA AlongKeepsOrder ==
  ASSUME OrderInv, NEW s \in Stoppers, Along(s), UNCHANGED httpVars
  PROVE  OrderInv'
  <1>1. CASE /\ step[s] = "http"
             /\ \/ inflight = {} /\ step' = [step EXCEPT ![s] = "queue"]
                \/ step' = [step EXCEPT ![s] = "failed"]
             /\ UNCHANGED <<closed, storageClosed>>
    <2>1. Stopped BY <1>1 DEF OrderInv
    <2>2. \A t \in Stoppers : step[t] \in Beyond => step'[t] \in Beyond
      BY <1>1 DEF OrderInv, Beyond
    <2> QED BY <1>1, <2>1, <2>2 DEF OrderInv, httpVars, Stopped, Beyond, Steps
  <1>2. CASE /\ step[s] \in Beyond \ {"done"}
             /\ \E label \in Beyond : step' = [step EXCEPT ![s] = label]
    <2>1. early \/ (Stopped /\ inflight = {}) BY <1>2 DEF OrderInv
    <2>2. step'[s] \in Beyond BY <1>2 DEF OrderInv
    <2> QED BY <1>2, <2>1, <2>2 DEF OrderInv, httpVars, Stopped, Beyond, Steps
  <1>3. CASE step[s] \in Beyond \ {"done"} /\ step' = step
    BY <1>3 DEF OrderInv, httpVars, Stopped
  <1> QED BY <1>1, <1>2, <1>3 DEF Along

LEMMA OrderStep == OrderInv /\ [MainNext]_allVars => OrderInv'
  <1> SUFFICES ASSUME OrderInv, [MainNext]_allVars PROVE OrderInv'
    OBVIOUS
  <1>1. CASE Listen
    <2>1. CASE Start \/ ListenAndServe
      BY <2>1 DEF Start, ListenAndServe, OrderInv, Stopped, Beyond, vars
    <2>2. ASSUME NEW p \in Producers, RequestStart(p) PROVE OrderInv'
      BY <2>2 DEF RequestStart, OrderInv, Stopped, vars
    <2> QED BY <1>1, <2>1, <2>2 DEF Listen
  <1>2. ASSUME NEW p \in Producers, Handle(p) PROVE OrderInv'
    BY <1>2, FlagOfQueue, BesideKeepsOrder DEF Handle, RequestQueues, Beside, httpVars
  <1>3. ASSUME NEW p \in Producers, Answer(p) PROVE OrderInv'
    BY <1>3, BesideKeepsOrder DEF Answer, RequestEnd, Beside, vars
  <1>4. ASSUME NEW w \in Workers, RunWorker(w) PROVE OrderInv'
    BY <1>4, FlagOfQueue, BesideKeepsOrder DEF RunWorker, PoolWork, Beside, httpVars
  <1>5. CASE RunCleanup
    BY <1>5, BesideKeepsOrder DEF RunCleanup, CleanupExit, Beside, vars, httpVars
  <1>6. ASSUME NEW s \in Stoppers, CallShutdown(s) PROVE OrderInv'
    <2>1. CASE httpServer
      <3>1. \A t \in Stoppers : step[t] \in Beyond => step'[t] \in Beyond
        BY <1>6, <2>1 DEF CallShutdown, ShutdownStart, StepTo, OrderInv, Beyond
      <3> QED BY <1>6, <2>1, <3>1
            DEF CallShutdown, ShutdownStart, StepTo, OrderInv, Stopped, Steps, Beyond, vars
    <2>2. CASE ~httpServer
      <3>1. early' /\ step'[s] \in Beyond
        BY <1>6, <2>2 DEF CallShutdown, ShutdownStart, StepTo, OrderInv, Beyond
      <3> QED BY <1>6, <2>2, <3>1
            DEF CallShutdown, ShutdownStart, StepTo, OrderInv, Stopped, Steps, Beyond, vars
    <2> QED BY <2>1, <2>2
  <1>7. ASSUME NEW s \in Stoppers, RunShutdown(s) PROVE OrderInv'
    BY <1>7, ShutdownAlong, AlongKeepsOrder DEF RunShutdown
  <1>8. CASE AcceptFails
    BY <1>8, BesideKeepsOrder DEF AcceptFails, Beside, vars
  <1>9. CASE UNCHANGED serverVars
    BY <1>9, BesideKeepsOrder DEF serverVars, vars, httpVars, Beside
  <1>10. ASSUME NEW p \in Producers, ReadSecret(p) \/ SecretRead(p) PROVE OrderInv'
    BY <1>9, <1>10 DEF ReadSecret, SecretRead
  <1>11. CASE Signal \/ MainStep
    BY <1>9, <1>11 DEF Signal, MainStep, StartReturns, ShutdownReturns, CloseProvider,
                       RunDeferred, Exit, MainGoto
  <1> QED
    BY <1>1, <1>2, <1>3, <1>4, <1>5, <1>6, <1>7, <1>8, <1>9, <1>10, <1>11
       DEF MainNext, allVars

LEMMA OrderInvariant == MainSpec => []OrderInv
  BY OrderInit, OrderStep, PTL DEF MainSpec

\* Neither a deletion is refused nor the storage closed while a handler runs,
\* whatever the number of handlers, workers and calls of Shutdown, and even when
\* Accept fails on its own; a Shutdown that overtook Start is exempt.
THEOREM HandlersStopFirst == MainSpec => []HandlersFirst
  <1>1. OrderInv => HandlersFirst
    BY DEF OrderInv, HandlersFirst
  <1> QED BY <1>1, OrderInvariant, PTL

-----------------------------------------------------------------------------
(* The provider of secrets.                                                *)

LEMMA MainInvInit == MainInit => MainInv
  BY DEF MainInit, MainInv

\* A Shutdown that has returned stays so: no step moves it.
LEMMA EndedStays ==
  ASSUME OrderInv, [MainNext]_allVars, NEW t \in Stoppers, Ended(t)
  PROVE  Ended(t)'
  <1>1. ASSUME NEW s \in Stoppers, CallShutdown(s) PROVE Ended(t)'
    BY <1>1 DEF CallShutdown, ShutdownStart, StepTo, Ended, OrderInv
  <1>2. ASSUME NEW s \in Stoppers, RunShutdown(s) PROVE Ended(t)'
    <2>1. Along(s) BY <1>2, ShutdownAlong DEF RunShutdown
    <2>2. s # t BY <2>1 DEF Along, Ended, Beyond
    <2> QED BY <2>1, <2>2 DEF Along, Ended, OrderInv
  <1>3. CASE step' = step
    BY <1>3 DEF Ended
  <1>4. \/ \E s \in Stoppers : CallShutdown(s) \/ RunShutdown(s)
        \/ step' = step
    BY DEF MainNext, allVars, serverVars, Listen, Start, ListenAndServe, RequestStart, Handle,
           RequestQueues, Answer, RequestEnd, RunWorker, PoolWork, RunCleanup, CleanupExit, AcceptFails,
           ReadSecret, SecretRead, Signal, MainStep, StartReturns, ShutdownReturns,
           CloseProvider, RunDeferred, Exit, MainGoto
  <1> QED BY <1>1, <1>2, <1>3, <1>4

LEMMA MainInvStep == OrderInv /\ MainInv /\ [MainNext]_allVars => MainInv'
  <1> SUFFICES ASSUME OrderInv, MainInv, [MainNext]_allVars PROVE MainInv'
    OBVIOUS
  <1>1. Ended(Main) => Ended(Main)'
    BY EndedStays, MainAssumption
  <1>2. CASE ShutdownReturns
    BY <1>1, <1>2 DEF ShutdownReturns, MainInv
  <1>3. CASE CloseProvider \/ RunDeferred \/ Exit
    BY <1>1, <1>3 DEF CloseProvider, RunDeferred, Exit, MainGoto, MainInv
  <1>4. CASE Signal \/ StartReturns
    BY <1>4 DEF Signal, StartReturns, MainGoto, MainInv
  <1>5. CASE main' = main
    BY <1>1, <1>5 DEF MainInv
  <1>6. \/ ShutdownReturns \/ CloseProvider \/ RunDeferred \/ Exit
        \/ Signal \/ StartReturns \/ main' = main
    BY DEF MainNext, allVars, mainVars, Listen, Handle, Answer, RunWorker, RunCleanup,
           CallShutdown, RunShutdown, AcceptFails, ReadSecret, SecretRead, MainStep
  <1> QED BY <1>2, <1>3, <1>4, <1>5, <1>6

LEMMA MainInvariant == MainSpec => []MainInv
  BY OrderInvariant, MainInvInit, MainInvStep, PTL DEF MainSpec

\* The provider of secrets is closed with no request left, unless the HTTP server
\* could not be stopped or was overtaken: for every number of requests.
THEOREM SecretsCloseLast == MainSpec => []SecretsLast
  <1>1. OrderInv /\ MainInv => SecretsLast
    BY MainAssumption DEF OrderInv, MainInv, SecretsLast, Ended, Beyond
  <1> QED BY <1>1, MainInvariant, OrderInvariant, PTL

-----------------------------------------------------------------------------
(* The queue in the program.                                               *)

LEMMA QueueInit == MainInit => Init
  BY DEF MainInit, ServerInit

\* A handler, a worker and a Shutdown move the queue as DeletionQueue lets them;
\* what else the program does is not seen by it.
LEMMA QueueMoves == [MainNext]_allVars => [Next]_vars
  <1> SUFFICES ASSUME [MainNext]_allVars PROVE [Next]_vars
    OBVIOUS
  <1>1. ASSUME NEW p \in Producers, Handle(p) PROVE Next
    BY <1>1 DEF Handle, RequestQueues, Next
  <1>2. ASSUME NEW w \in Workers, RunWorker(w) PROVE Next
    BY <1>2 DEF RunWorker, PoolWork, Work, Next
  <1>3. ASSUME NEW s \in Stoppers, RunShutdown(s) PROVE Next \/ UNCHANGED vars
    BY <1>3 DEF RunShutdown, Shutdown, HttpStopped, HttpTimeout, StopQueue, StopLimiter,
                LimiterStopped, CloseStorage, Next
  <1>4. CASE \E s \in Stoppers : CallShutdown(s)
    BY <1>4 DEF CallShutdown, ShutdownStart
  <1>5. CASE Listen \/ AcceptFails \/ RunCleanup \/ (\E p \in Producers : Answer(p))
    BY <1>5 DEF Listen, Start, ListenAndServe, RequestStart, AcceptFails, RunCleanup, CleanupExit,
                Answer, RequestEnd
  <1>6. CASE Signal \/ MainStep \/ (\E p \in Producers : ReadSecret(p) \/ SecretRead(p))
    BY <1>6 DEF Signal, MainStep, StartReturns, ShutdownReturns, CloseProvider, RunDeferred,
                Exit, MainGoto, ReadSecret, SecretRead, serverVars
  <1>7. CASE UNCHANGED allVars
    BY <1>7 DEF allVars, serverVars
  <1> QED BY <1>1, <1>2, <1>3, <1>4, <1>5, <1>6, <1>7 DEF MainNext

\* What is invariant of the queue, whoever moves it.
QueueInv == TypeInv /\ MutexInv /\ DrainInv /\ OnceInv /\ DoomInv

LEMMA QueueInvariant == MainSpec => []QueueInv
  <1>1. MainInit => QueueInv
    BY QueueInit, TypeInit, MutexInit, DrainInit, OnceInit, DoomInit DEF QueueInv
  <1>2. QueueInv /\ [MainNext]_allVars => QueueInv'
    BY QueueMoves, TypeStep, MutexStep, DrainStep, OnceStep, DoomStep DEF QueueInv
  <1> QED BY <1>1, <1>2, PTL DEF MainSpec

\* The queue keeps what it promises in the program, where handlers come and go with
\* their requests and Server.Shutdown is called by main or by anybody: no panic, no
\* accepted deletion lost, doubled or doomed but by a Shutdown that ran out of time.
THEOREM QueueHoldsUp ==
  MainSpec => [](NoPanic /\ ExactlyOnce /\ GracefulDrain /\ DoomedByTimeout)
  <1>1. QueueInv => NoPanic /\ ExactlyOnce /\ GracefulDrain /\ DoomedByTimeout
    BY OnceIsExact, DrainIsGraceful DEF QueueInv, MutexInv, NoPanic, DoomInv, DoomedByTimeout
  <1> QED BY <1>1, QueueInvariant, PTL

\* Every step of the program is one that a deletion queue may make, or none that
\* DeletionTasks sees.
THEOREM ProgramImplementsTasks == MainSpec => DT!TasksInit /\ [][DT!TasksNext]_status
  <1>1. MainInit => DT!TasksInit
    BY QueueInit DEF Init, DT!TasksInit
  <1>2. QueueInv /\ [MainNext]_allVars => [DT!TasksNext]_status
    BY QueueMoves, TasksStep DEF QueueInv
  <1> QED BY <1>1, <1>2, QueueInvariant, PTL DEF MainSpec

-----------------------------------------------------------------------------
(* Types.                                                                  *)

\* The queue's types are its own proof's, at both ends of a step.
LEMMA MainTypeStep == MainTypeOK /\ TypeOK' /\ [MainNext]_allVars => MainTypeOK'
  <1> SUFFICES ASSUME MainTypeOK, TypeOK', [MainNext]_allVars PROVE MainTypeOK'
    OBVIOUS
  <1> USE DEF MainTypeOK, ServerTypeOK, limiterVars, httpVars, mainVars
  <1>1. CASE Listen \/ AcceptFails \/ RunCleanup
    BY <1>1 DEF Listen, Start, ListenAndServe, RequestStart, AcceptFails, RunCleanup, CleanupExit
  <1>2. ASSUME NEW p \in Producers, Handle(p) PROVE MainTypeOK'
    BY <1>2 DEF Handle, RequestQueues
  <1>3. ASSUME NEW p \in Producers, Answer(p) PROVE MainTypeOK'
    BY <1>3 DEF Answer, RequestEnd
  <1>4. ASSUME NEW w \in Workers, RunWorker(w) PROVE MainTypeOK'
    BY <1>4 DEF RunWorker, PoolWork
  <1>5. ASSUME NEW s \in Stoppers, CallShutdown(s) PROVE MainTypeOK'
    BY <1>5 DEF CallShutdown, ShutdownStart, StepTo, Steps
  <1>6. ASSUME NEW s \in Stoppers, RunShutdown(s) PROVE MainTypeOK'
    BY <1>6 DEF RunShutdown, Shutdown, HttpStopped, HttpTimeout, StopQueue, StopLimiter,
                LimiterStopped, CloseStorage, StepTo, Steps
  <1>7. ASSUME NEW p \in Producers, ReadSecret(p) \/ SecretRead(p) PROVE MainTypeOK'
    BY <1>7 DEF ReadSecret, SecretRead, serverVars
  <1>8. CASE Signal \/ MainStep
    BY <1>8 DEF Signal, MainStep, StartReturns, ShutdownReturns, CloseProvider, RunDeferred,
                Exit, MainGoto, MainSteps, serverVars
  <1>9. CASE UNCHANGED allVars
    BY <1>9 DEF allVars, serverVars
  <1> QED BY <1>1, <1>2, <1>3, <1>4, <1>5, <1>6, <1>7, <1>8, <1>9 DEF MainNext

\* The variables of the program have their types, the queue's among them: and a
\* request that reads a secret, or is in its handler, is in flight (CORS, CSP).
THEOREM MainTypeCorrect == MainSpec => []MainTypeOK
  <1>1. MainInit /\ TypeInv => MainTypeOK
    BY DEF MainInit, ServerInit, TypeInv, MainTypeOK, ServerTypeOK, Steps, MainSteps
  <1>2. QueueInv => TypeInv /\ TypeOK
    BY DEF QueueInv, TypeInv
  <1> QED BY <1>1, <1>2, MainTypeStep, QueueInvariant, PTL DEF MainSpec

-----------------------------------------------------------------------------
(* The deletions.                                                          *)

\* A Shutdown that goes on to the limiter has had the queue's answer, for good; the
\* storage is closed by one that ends with that; and a worker has an id in its
\* hands only while it deletes it.
CloseInv ==
  /\ \A s \in Stoppers : step[s] \in Beyond \ {"queue"} => pc[s] \in {"ok", "timeout"}
  /\ storageClosed => \E s \in Stoppers : step[s] = "done"
  /\ \A w \in Workers : pc[w] # "delete" => item[w] = Null

LEMMA CloseInit == MainInit => CloseInv
  BY DEF MainInit, ServerInit, Init, CloseInv, Beyond

\* What a step of the queue does to a Shutdown that has its answer, and to the
\* workers' hands.
LEMMA AnswerStays ==
  ASSUME TypeInv, [Next]_vars, NEW s \in Stoppers, pc[s] \in {"ok", "timeout"}
  PROVE  pc'[s] = pc[s]
  <1> USE DistinctAssumption DEF TypeInv, TypeOK, Goroutines, Goto
  <1>1. ASSUME NEW p \in Producers, Produce(p) PROVE pc'[s] = pc[s]
    BY <1>1 DEF Produce, QueueLock, QueueCheck, QueueSend, Reply
  <1>2. ASSUME NEW w \in Workers, Work(w) PROVE pc'[s] = pc[s]
    BY <1>2 DEF Work, Receive, DeleteOK, DeleteFails, Deleted, WorkerExit
  <1>3. ASSUME NEW t \in Stoppers, Stop(t) PROVE pc'[s] = pc[s]
    BY <1>3 DEF Stop, ShutdownLock, ShutdownCheck, ShutdownClose, ShutdownUnlock,
                ShutdownDone, ShutdownTimeout
  <1>4. CASE UNCHANGED vars
    BY <1>4 DEF vars
  <1> QED BY <1>1, <1>2, <1>3, <1>4 DEF Next

HandsEmpty == \A w \in Workers : pc[w] # "delete" => item[w] = Null

LEMMA HandsStayEmpty ==
  ASSUME TypeInv, HandsEmpty, [Next]_vars
  PROVE  HandsEmpty'
  <1> USE DistinctAssumption DEF TypeInv, TypeOK, Goroutines, Goto, HandsEmpty
  <1>1. ASSUME NEW p \in Producers, Produce(p) PROVE HandsEmpty'
    BY <1>1 DEF Produce, QueueLock, QueueCheck, QueueSend, Reply
  <1>2. ASSUME NEW w \in Workers, Work(w) PROVE HandsEmpty'
    BY <1>2 DEF Work, Receive, DeleteOK, DeleteFails, Deleted, WorkerExit
  <1>3. ASSUME NEW t \in Stoppers, Stop(t) PROVE HandsEmpty'
    BY <1>3 DEF Stop, ShutdownLock, ShutdownCheck, ShutdownClose, ShutdownUnlock,
                ShutdownDone, ShutdownTimeout
  <1>4. CASE UNCHANGED vars
    BY <1>4 DEF vars
  <1> QED BY <1>1, <1>2, <1>3, <1>4 DEF Next

\* How the program moves a Shutdown on: to the limiter with the queue's answer, and
\* through the rest; only its last step closes the storage.
LEMMA ShutdownMoves ==
  ASSUME OrderInv, [MainNext]_allVars, NEW t \in Stoppers
  PROVE  /\ step'[t] \in Beyond \ {"queue"} =>
              step[t] \in Beyond \ {"queue"} \/ pc'[t] \in {"ok", "timeout"}
         /\ step[t] = "done" => step'[t] = "done"
         /\ storageClosed' = storageClosed \/ \E s \in Stoppers : step'[s] = "done"
  <1> USE DEF StepTo, OrderInv, Beyond
  <1>1. ASSUME NEW s \in Stoppers, CallShutdown(s)
        PROVE  /\ storageClosed' = storageClosed
               /\ \E label \in {"http", "queue"} : step' = [step EXCEPT ![s] = label]
               /\ step[s] = "idle"
    BY <1>1 DEF CallShutdown, ShutdownStart
  <1>2. ASSUME NEW s \in Stoppers, RunShutdown(s), ~CloseStorage(s), ~StopQueue(s)
        PROVE  /\ storageClosed' = storageClosed
               /\ \/ /\ step[s] = "http"
                     /\ \E label \in {"queue", "failed"} : step' = [step EXCEPT ![s] = label]
                  \/ /\ step[s] \in {"limiter", "waitCleanup"}
                     /\ \E label \in {"waitCleanup", "storage"} : step' = [step EXCEPT ![s] = label]
    BY <1>2 DEF RunShutdown, Shutdown, HttpStopped, HttpTimeout, StopLimiter, LimiterStopped
  <1>3. ASSUME NEW s \in Stoppers, StopQueue(s)
        PROVE  /\ storageClosed' = storageClosed /\ step[s] = "queue"
               /\ \/ step' = step
                  \/ step' = [step EXCEPT ![s] = "limiter"] /\ pc'[s] \in {"ok", "timeout"}
    BY <1>3 DEF StopQueue
  <1>4. ASSUME NEW s \in Stoppers, CloseStorage(s)
        PROVE  step[s] = "storage" /\ step' = [step EXCEPT ![s] = "done"]
    BY <1>4 DEF CloseStorage
  <1>5. \/ \E s \in Stoppers : CallShutdown(s) \/ RunShutdown(s)
        \/ step' = step /\ storageClosed' = storageClosed
    BY DEF MainNext, allVars, serverVars, Listen, Start, ListenAndServe, RequestStart, Handle,
           RequestQueues, Answer, RequestEnd, RunWorker, PoolWork, RunCleanup, CleanupExit, AcceptFails,
           ReadSecret, SecretRead, Signal, MainStep, StartReturns, ShutdownReturns,
           CloseProvider, RunDeferred, Exit, MainGoto
  <1> QED BY <1>1, <1>2, <1>3, <1>4, <1>5

LEMMA CloseStep == TypeInv /\ OrderInv /\ CloseInv /\ [MainNext]_allVars => CloseInv'
  <1> SUFFICES ASSUME TypeInv, OrderInv, CloseInv, [MainNext]_allVars PROVE CloseInv'
    OBVIOUS
  <1>1. [Next]_vars BY QueueMoves
  <1>2. HandsEmpty' BY <1>1, HandsStayEmpty DEF CloseInv, HandsEmpty
  <1>3. ASSUME NEW s \in Stoppers, step'[s] \in Beyond \ {"queue"}
        PROVE  pc'[s] \in {"ok", "timeout"}
    <2>1. CASE pc'[s] \in {"ok", "timeout"}
      BY <2>1
    <2>2. CASE step[s] \in Beyond \ {"queue"}
      <3>1. pc[s] \in {"ok", "timeout"} BY <2>2 DEF CloseInv
      <3> QED BY <1>1, <3>1, AnswerStays
    <2> QED BY <1>3, <2>1, <2>2, ShutdownMoves
  <1>4. storageClosed' => \E s \in Stoppers : step'[s] = "done"
    <2>1. storageClosed' = storageClosed \/ \E s \in Stoppers : step'[s] = "done"
      BY ShutdownMoves, MainAssumption
    <2>2. \A s \in Stoppers : step[s] = "done" => step'[s] = "done"
      BY ShutdownMoves
    <2> QED BY <2>1, <2>2 DEF CloseInv
  <1> QED BY <1>2, <1>3, <1>4 DEF CloseInv, HandsEmpty

LEMMA CloseInvariant == MainSpec => []CloseInv
  <1>1. QueueInv => TypeInv
    BY DEF QueueInv
  <1> QED BY <1>1, CloseInit, CloseStep, QueueInvariant, OrderInvariant, PTL DEF MainSpec

\* The storage is closed with every accepted deletion tried and the pool gone, or
\* some Shutdown of the queue ran out of time: for every number of calls of
\* Server.Shutdown, whichever of them closes it.
THEOREM StorageClosesLast == MainSpec => []StorageLast
  <1>1. QueueInv /\ CloseInv => StorageLast
    BY DrainIsGraceful DEF QueueInv, GracefulDrain, CloseInv, StorageLast, Beyond
  <1> QED BY <1>1, QueueInvariant, CloseInvariant, PTL

\* main returns with no accepted deletion untried and none running, unless the HTTP
\* server or the queue ran out of time.
THEOREM ExitsDrained == MainSpec => []ExitDrained
  <1>1. QueueInv /\ CloseInv /\ MainInv => ExitDrained
    <2> SUFFICES ASSUME DrainInv, CloseInv, Ended(Main), step[Main] # "failed", pc[Main] # "timeout"
                 PROVE  Pending = {} /\ \A w \in Workers : item[w] = Null
      BY DEF QueueInv, MainInv, ExitDrained
    <2>1. pc[Main] = "ok"
      BY MainAssumption DEF CloseInv, Ended, Beyond
    <2> QED BY <2>1, MainAssumption, DrainIsGraceful DEF GracefulDrain, CloseInv
  <1> QED BY <1>1, QueueInvariant, CloseInvariant, MainInvariant, PTL

=============================================================================
