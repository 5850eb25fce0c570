------------------------------ MODULE RateLimits ------------------------------
(***************************************************************************)
(* The rate limits of a request (src/middleware.go) over a limiter that    *)
(* several servers share: GlobalRateLimit in front of every route, and     *)
(* RateLimiter in front of the routes that have a limit of their own.      *)
(*                                                                         *)
(* When the shared store fails, the first lets the request pass and the    *)
(* second answers 503.  The limiter is SlidingWindow, a request makes one  *)
(* call of it per middleware it reaches; the key of a call is the client's *)
(* address as ClientAddress finds it.                                      *)
(***************************************************************************)
EXTENDS ClientAddress, Integers, FiniteSets

CONSTANTS
  MaxRequests,
  Loads,     \* what requests there may be: sequences of Kind, in the order they arrive
  Backends, Servers, Offset, Window, MaxLag, MaxTries, MaxTime, Null,
  GlobalLimit, ActionLimit

Requests == 1..MaxRequests
Limiters == {"global", "action"}
Calls == Requests \X Limiters
Keys == Limiters \X Addresses
LimitOf(l) == IF l = "global" THEN GlobalLimit ELSE ActionLimit
Limit == [k \in Keys |-> LimitOf(k[1])]

\* origin is the client itself, behind the proxies or not; limited says whether
\* the route has a limit of its own; a request is served by one server.
Kind == [peer: Addresses, headers: [HeaderNames -> Seq(Addresses \cup {Null})],
         origin: Addresses, limited: BOOLEAN, server: Servers]

ASSUME RequestsAssumption == MaxRequests \in Nat
ASSUME LoadsAssumption == Loads \subseteq Seq(Kind) /\ \A load \in Loads : Len(load) <= MaxRequests

VARIABLES
  backend, now, entries, expiry, call,
  kind       \* what the requests are: a member of Loads

W == INSTANCE SlidingWindow

ASSUME WindowAssumption == W!WindowConstants

vars == <<backend, now, entries, expiry, call, kind>>

TypeOK ==
  /\ W!TypeOK
  /\ kind \in Loads

Init ==
  /\ W!Init
  /\ kind \in Loads

KeyOf(l, q) == <<l, GetClientIP(kind[q].peer, kind[q].headers)>>

Ask(q, l) == W!CheckStart(<<q, l>>, KeyOf(l, q), kind[q].server)

Result(q, l) == call[<<q, l>>].answer

-----------------------------------------------------------------------------
(* What a middleware does with its limiter's answer, and what has become   *)
(* of a request.                                                           *)

\* Mutated form of GlobalRateLimit: an error counts as a refusal.
GlobalRateLimit_OnError(answer) ==
  CASE answer = "allowed" -> "next"
    [] answer \in {"refused", "error"} -> "429"
    [] answer = "none" -> "waiting"

GlobalRateLimit(answer) ==
  CASE answer \in {"allowed", "error"} -> "next"
    [] answer = "refused" -> "429"
    [] answer = "none" -> "waiting"

\* Mutated form of RateLimiter: an error lets the request pass.
RateLimiter_OnError(answer) == GlobalRateLimit(answer)

RateLimiter(answer) ==
  CASE answer = "allowed" -> "next"
    [] answer = "refused" -> "429"
    [] answer = "error" -> "503"
    [] answer = "none" -> "waiting"

\* "next" is the handler behind the middlewares, or InputValidation, which refuses
\* some requests in between.
Outcome(q) ==
  LET first == GlobalRateLimit(Result(q, "global")) IN
    IF first = "next" /\ kind[q].limited
      THEN RateLimiter(Result(q, "action")) ELSE first

-----------------------------------------------------------------------------

Arrive(q) ==
  /\ q > 1 => call[<<q - 1, "global">>].pc # "idle"
  /\ Ask(q, "global")
  /\ UNCHANGED kind

Entering(q) ==
  /\ GlobalRateLimit(Result(q, "global")) = "next"
  /\ kind[q].limited
  /\ call[<<q, "action">>].pc = "idle"

EnterRoute(q) ==
  /\ Entering(q)
  /\ Ask(q, "action")
  /\ UNCHANGED kind

Check(q) ==
  /\ \E l \in Limiters : W!CheckRateLimit(<<q, l>>)
  /\ UNCHANGED kind

Serve(q) == Check(q) \/ EnterRoute(q)

\* No time passes between two middlewares of a request.
Environment ==
  /\ \A q \in DOMAIN kind : ~Entering(q)
  /\ W!Environment
  /\ UNCHANGED kind

Next ==
  \/ \E q \in DOMAIN kind : Arrive(q)
  \/ \E q \in DOMAIN kind : Serve(q)
  \/ Environment

\* A request that has arrived is served: its goroutine runs, and the calls to the
\* store have timeouts.
Fairness == \A q \in Requests : WF_vars(q \in DOMAIN kind /\ Serve(q))

Spec == Init /\ [][Next]_vars /\ Fairness

-----------------------------------------------------------------------------
(* Correctness.                                                            *)

\* The furthest two readings of the clock can be from the order of their calls.
Spread == MaxLag + Max({Offset[s] : s \in Servers})

\* Requests of a client that a limiter has let pass to what it guards.  The global
\* one does not count those that pass because the store failed.
Passed(l, o) ==
  {q \in DOMAIN kind : /\ kind[q].origin = o
                       /\ IF l = "global" THEN Result(q, l) = "allowed"
                                          ELSE kind[q].limited /\ Outcome(q) = "next"}

PassedAt(l, q) == LET c == call[<<q, l>>] IN IF c.when = Null THEN c.at ELSE c.when

\* A sorted set has no two members of one score: on Redis, requests of the same
\* clock tick count once.
Slots(l, S) == IF backend = "redis" THEN {call[<<q, l>>].at : q \in S} ELSE S

\* In any window, less what clocks and delays may be apart, a client's requests
\* that are handled are no more than the limit: with any number of servers, with
\* repeated scripts, aborted transactions, lost answers, and failures that the
\* global limiter ignores.
WithinWindow ==
  \A l \in Limiters, o \in Addresses :
    \A q \in Passed(l, o) :
      LET inWindow == {r \in Passed(l, o) :
                         PassedAt(l, r) \in PassedAt(l, q)..(PassedAt(l, q) + Window - Spread - 1)}
      IN  Cardinality(Slots(l, inWindow)) <= LimitOf(l)

\* Who is refused has used up the limit itself: LimitOf requests of the same client
\* were counted in the window, the refused one perhaps among them (its first
\* answer was lost).  Not the requests of others behind the same proxy, not an
\* outage, and not one request counted twice.
RefusedForOwn ==
  \A q \in DOMAIN kind :
    Outcome(q) = "429" =>
      LET l == IF Result(q, "action") = "refused" THEN "action" ELSE "global"
          own == {r \in DOMAIN kind : /\ kind[r].origin = kind[q].origin
                                      /\ call[<<r, l>>].when # Null
                                      /\ call[<<r, l>>].at > call[<<q, l>>].at - Window}
      IN  Cardinality(own) >= LimitOf(l)

\* The reset time of a refusal is honest, where there is one (Firestore): another
\* request that reads a clock at or after it is refused only because it saw a
\* request counted that the first had not seen.
ResetHonest ==
  \A c, d \in Calls :
    /\ c # d
    /\ call[c].resetAt # Null /\ call[d].answer = "refused"
    /\ call[c].key = call[d].key
    /\ call[d].at >= call[c].resetAt
    => ~(call[d].seen \subseteq call[c].seen)

Waiting(q) == call[<<q, "global">>].pc # "idle" /\ Outcome(q) = "waiting"

\* Every request is answered: scripts and transactions are not repeated for ever.
\* There are finitely many requests, so at some time nobody waits.
AllAnswered ==
  (\E q \in DOMAIN kind : Waiting(q)) ~> (\A q \in DOMAIN kind : ~Waiting(q))

=============================================================================
