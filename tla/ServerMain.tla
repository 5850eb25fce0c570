------------------------------ MODULE ServerMain ------------------------------
(***************************************************************************)
(* The program around the server: main (src/main.go) waits for a signal or *)
(* for Start's error, calls Server.Shutdown, and closes the provider of    *)
(* secrets (src/config/secrets.go), which every request reads in CORS and  *)
(* in CSP before it reaches its handler.                                   *)
(*                                                                         *)
(* The server is ServerLifecycle.  A program is this one, in which main    *)
(* alone calls Shutdown, once; or a test of the server, in which anybody   *)
(* does, and there is no main.  providerMu is a sync.RWMutex: a waiting    *)
(* Lock keeps new readers out.                                             *)
(*                                                                         *)
(* External: a listener that fails to bind or to accept, and the Secret    *)
(* Manager's client, whose requests have a timeout.                        *)
(***************************************************************************)
EXTENDS ServerLifecycle

CONSTANT Main  \* the call of Shutdown that is main's

ASSUME MainAssumption == Main \in Stoppers

VARIABLES
  program,  \* main's program, or a test's
  main,     \* where main is
  reading,  \* requests that hold providerMu for reading
  ready     \* requests that have read their secrets, and may be in the handler

mainVars == <<program, main, reading, ready>>
allVars == <<serverVars, mainVars>>

\* "closing" and "leaving": it waits in config.Close for providerMu, the second
\* time in a deferred call.
MainSteps == {"serving", "stopping", "closing", "closed", "leaving", "exited", "crashed"}

MainTypeOK ==
  /\ ServerTypeOK
  /\ program \in {"main", "test"} /\ main \in MainSteps
  /\ reading \subseteq inflight
  /\ ready \subseteq inflight \ reading

MainInit ==
  /\ ServerInit
  /\ program \in {"main", "test"} /\ main = "serving"
  /\ reading = {} /\ ready = {}

Alive == main \notin {"exited", "crashed"}

-----------------------------------------------------------------------------
(* The server's steps in the program.                                      *)

Listen ==
  /\ Alive
  /\ Start \/ ListenAndServe \/ \E p \in Producers : RequestStart(p)
  /\ UNCHANGED mainVars

Handle(p) ==
  /\ Alive
  /\ p \in ready
  /\ RequestQueues(p)
  /\ UNCHANGED mainVars

\* A request ends in its handler, or in a middleware in front of it.
Answer(p) ==
  /\ Alive
  /\ p \notin reading
  /\ RequestEnd(p)
  /\ ready' = ready \ {p}
  /\ UNCHANGED <<program, main, reading>>

RunWorker(w) ==
  /\ Alive
  /\ PoolWork(w)
  /\ UNCHANGED mainVars

RunCleanup ==
  /\ Alive
  /\ CleanupExit
  /\ UNCHANGED mainVars

CallShutdown(s) ==
  /\ Alive
  /\ program = "main" => s = Main /\ main = "stopping"
  /\ ShutdownStart(s)
  /\ UNCHANGED mainVars

RunShutdown(s) ==
  /\ Alive
  /\ Shutdown(s)
  /\ UNCHANGED mainVars

\* ListenAndServe cannot bind its port, or Accept fails for good.
AcceptFails ==
  /\ Alive
  /\ httpServer /\ listening # "closed"
  /\ listening' = "closed"
  /\ UNCHANGED <<vars, limiterVars, httpServer, inflight, early, step, storageClosed, mainVars>>

-----------------------------------------------------------------------------
(* GetSecret, in a middleware or, again, in a handler.                     *)

ReadSecret(p) ==
  /\ Alive
  /\ p \in inflight \ reading /\ pc[p] = "idle"
  /\ main \notin {"closing", "leaving"}
  /\ reading' = reading \cup {p}
  /\ ready' = ready \ {p}
  /\ UNCHANGED <<serverVars, program, main>>

\* Mutated form of SecretRead: the read lock is not released.
SecretRead_KeepsLock(p) ==
  /\ Alive
  /\ p \in reading /\ p \notin ready
  /\ ready' = ready \cup {p}
  /\ UNCHANGED <<serverVars, program, main, reading>>

SecretRead(p) ==
  /\ Alive
  /\ p \in reading
  /\ reading' = reading \ {p}
  /\ ready' = ready \cup {p}
  /\ UNCHANGED <<serverVars, program, main>>

-----------------------------------------------------------------------------
(* main.                                                                   *)

MainGoto(from, to) ==
  /\ program = "main" /\ main = from
  /\ main' = to
  /\ UNCHANGED <<serverVars, program, reading, ready>>

Signal == MainGoto("serving", "stopping")

\* Start has returned its error, and main has not had a signal: os.Exit, and
\* nothing is shut down.
StartReturns ==
  /\ httpServer /\ listening = "closed"
  /\ MainGoto("serving", "crashed")

\* Mutated form of ShutdownReturns: main does not wait for Shutdown.
ShutdownReturns_NoWait == MainGoto("stopping", "closing")

\* Shutdown's error is logged.
ShutdownReturns ==
  /\ Ended(Main)
  /\ MainGoto("stopping", "closing")

CloseProvider ==
  /\ reading = {}
  /\ MainGoto("closing", "closed")

RunDeferred == MainGoto("closed", "leaving")

Exit ==
  /\ reading = {}
  /\ MainGoto("leaving", "exited")

MainStep == StartReturns \/ ShutdownReturns \/ CloseProvider \/ RunDeferred \/ Exit

MainNext ==
  \/ Listen
  \/ \E p \in Producers : Handle(p)
  \/ \E p \in Producers : Answer(p)
  \/ \E w \in Workers : RunWorker(w)
  \/ RunCleanup
  \/ \E s \in Stoppers : CallShutdown(s)
  \/ \E s \in Stoppers : RunShutdown(s)
  \/ AcceptFails
  \/ \E p \in Producers : ReadSecret(p)
  \/ \E p \in Producers : SecretRead(p)
  \/ Signal
  \/ MainStep

\* As in ServerLifecycle; moreover main runs on, calls Shutdown when it is told to
\* stop, and the reading of a secret ends.
MainFairness ==
  /\ \A p \in Producers : WF_allVars(Handle(p) /\ pc[p] # "idle")
  /\ \A p \in Producers : WF_allVars(SecretRead(p))
  /\ \A w \in Workers : WF_allVars(RunWorker(w))
  /\ WF_allVars(RunCleanup)
  /\ \A s \in Stoppers : WF_allVars(RunShutdown(s))
  /\ WF_allVars(CallShutdown(Main) /\ program = "main")
  /\ WF_allVars(MainStep)

MainSpec == MainInit /\ [][MainNext]_allVars /\ MainFairness

-----------------------------------------------------------------------------
(* Correctness.                                                            *)

\* The provider of secrets is closed when no request needs it any more, unless
\* the HTTP server could not be stopped: its shutdown ran out of time, or the
\* signal overtook Start.
SecretsLast ==
  main \in {"closed", "leaving", "exited"} => inflight = {} \/ early \/ step[Main] = "failed"

\* main returns with accepted deletions untried, or under a running one, only
\* after it has logged that the HTTP server or the queue ran out of time.
ExitDrained ==
  main = "exited" =>
    \/ Pending = {} /\ \A w \in Workers : item[w] = Null
    \/ step[Main] = "failed" \/ pc[Main] = "timeout"

\* A signal ends the program: every part of Shutdown returns, and config.Close
\* gets providerMu from the requests that read secrets, even from those that the
\* HTTP server gave up waiting for.
MainEnds == main = "stopping" ~> main = "exited"

=============================================================================
