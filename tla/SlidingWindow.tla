---------------------------- MODULE SlidingWindow ----------------------------
(***************************************************************************)
(* The rate limiters that several servers share: RedisRateLimitService     *)
(* (src/services/ratelimit_redis.go, one Lua script per call on a sorted   *)
(* set) and FirestoreRateLimitService (ratelimit_firestore.go, one         *)
(* transaction per call on a list of timestamps).  Which of them it is was *)
(* decided once, by the environment (ratelimit_factory.go).                *)
(*                                                                         *)
(* A call reads its server's clock before it talks to the store, and every *)
(* repetition of the command or of the transaction's closure uses that     *)
(* reading.  A tick of the clock is the finest difference of two scores:   *)
(* a Lua number of nanoseconds since 1970 is rounded to 256.               *)
(*                                                                         *)
(* External: go-redis repeats a command that failed or whose answer was    *)
(* lost (MaxRetries), and the Firestore client a transaction that was      *)
(* aborted; a commit whose answer is lost is an error.                     *)
(***************************************************************************)
EXTENDS Integers, FiniteSets, FiniteSetsExt

CONSTANTS
  Backends,  \* RATE_LIMITER_TYPE: a subset of {"redis", "firestore"}
  Calls,     \* calls of CheckRateLimit
  Keys,
  Servers,
  Limit,     \* per key: requests in a window
  Window,
  Offset,    \* per server: how far its clock is ahead
  MaxLag,    \* how long a call may take from its reading of the clock to its end
  MaxTries,  \* repetitions of a command or a transaction
  MaxTime,   \* bound: the clock stops here
  Null       \* no server, no key, no time, no call

\* What the constants are; assumed where they get their values (RateLimits).
WindowConstants ==
  /\ Window \in Nat \ {0} /\ MaxLag \in Nat /\ MaxTries \in Nat
  /\ IsFiniteSet(Servers) /\ Offset \in [Servers -> Nat]
  /\ Limit \in [Keys -> Nat \ {0}]
  /\ Backends \subseteq {"redis", "firestore"}
  /\ Null \notin Calls \cup Keys \cup Servers \cup Int

VARIABLES
  backend,
  now,       \* true time
  entries,   \* per key: the members of the sorted set, or the elements of the list
  expiry,    \* per key: the time the store may drop it
  call       \* per call: where it is, its arguments, and its answer

vars == <<backend, now, entries, expiry, call>>

\* An element of a list is itself, a member of a sorted set is its score.
Entry == [at: Int, by: Calls \cup {Null}]
Call == [pc: {"idle", "sent", "got", "done"}, key: Keys \cup {Null},
         began: Nat,                   \* history: 0 once it is done
         at: Int, tries: 0..MaxTries, seen: SUBSET Entry,
         when: Nat \cup {Null},        \* history: when its entry was stored
         answer: {"none", "allowed", "refused", "error"},
         resetAt: Int \cup {Null}]

TypeOK ==
  /\ backend \in Backends
  /\ now \in Nat
  /\ entries \in [Keys -> SUBSET Entry]
  /\ expiry \in [Keys -> Nat]
  /\ call \in [Calls -> Call]

NoCall == [pc |-> "idle", key |-> Null, began |-> 0, at |-> 0, tries |-> 0, seen |-> {},
           when |-> Null, answer |-> "none", resetAt |-> Null]

Init ==
  /\ backend \in Backends
  /\ now = 0
  /\ entries = [k \in Keys |-> {}]
  /\ expiry = [k \in Keys |-> 0]
  /\ call = [c \in Calls |-> NoCall]

\* Mutated form of Live: an entry as old as the window counts.
Live_Closed(es, t) == {e \in es : e.at >= t - Window}

\* ZREMRANGEBYSCORE leaves, and After(windowStart) accepts, what is younger than
\* the window.
Live(es, t) == {e \in es : e.at > t - Window}

\* Mutated form of Member: a repeated script adds a member of its own.
Member_PerTry(c) ==
  [at |-> call[c].at + call[c].tries, by |-> IF backend = "redis" THEN Null ELSE c]

Member(c) == [at |-> call[c].at, by |-> IF backend = "redis" THEN Null ELSE c]

HasRoom(c, es) == Cardinality(Live(es, call[c].at)) < Limit[call[c].key]

-----------------------------------------------------------------------------
(* CheckRateLimit: how it begins and ends.                                 *)

CheckStart(c, k, s) ==
  /\ call[c].pc = "idle"
  /\ call' = [call EXCEPT ![c] =
                [NoCall EXCEPT !.pc = "sent", !.key = k, !.began = now, !.at = now + Offset[s]]]
  /\ UNCHANGED <<backend, now, entries, expiry>>

Done(r, answer) == [r EXCEPT !.pc = "done", !.began = 0, !.tries = 0, !.answer = answer]

Counted(c) == [call[c] EXCEPT !.when = IF @ = Null THEN now ELSE @]

\* Mutated form of Again: there is no limit to the repetitions.
Again_Forever(r) == [r EXCEPT !.pc = "sent", !.seen = {}]

\* Mutated form of Again: there is one repetition too many.
Again_OneMore(r) ==
  IF r.tries <= MaxTries
    THEN [r EXCEPT !.pc = "sent", !.tries = @ + 1, !.seen = {}]
    ELSE Done([r EXCEPT !.seen = {}], "error")

\* What was tried is tried again, or given up with an error.  MaxTries stands for
\* all the library's repetitions: go-redis counts those of EVALSHA and of the EVAL
\* that follows it when the script is not loaded separately.
Again(r) ==
  IF r.tries < MaxTries
    THEN [r EXCEPT !.pc = "sent", !.tries = @ + 1, !.seen = {}]
    ELSE Done([r EXCEPT !.seen = {}], "error")

-----------------------------------------------------------------------------
(* Redis.                                                                  *)

\* The script prunes and counts, and if there is room it adds the call and sets
\* the key's EXPIRE, which the server's own clock measures.
Script(c) ==
  LET k == call[c].key
      kept == Live(entries[k], call[c].at)
  IN  IF HasRoom(c, kept)
        THEN /\ entries' = [entries EXCEPT ![k] = kept \cup {Member(c)}]
             /\ expiry' = [expiry EXCEPT ![k] = now + Window]
        ELSE entries' = [entries EXCEPT ![k] = kept] /\ UNCHANGED expiry

\* The reset time of a refusal is lost: the script answers a string where the code
\* expects an int64.
RunScript(c) ==
  /\ backend = "redis" /\ call[c].pc = "sent"
  /\ Script(c)
  /\ call' = [call EXCEPT ![c] =
                IF HasRoom(c, entries[@.key])
                  THEN Done(Counted(c), "allowed") ELSE Done(@, "refused")]
  /\ UNCHANGED <<backend, now>>

\* The script ran and its answer was lost.
RunScriptLost(c) ==
  /\ backend = "redis" /\ call[c].pc = "sent"
  /\ Script(c)
  /\ call' = [call EXCEPT ![c] = Again(IF HasRoom(c, entries[@.key]) THEN Counted(c) ELSE @)]
  /\ UNCHANGED <<backend, now>>

CommandFails(c) ==
  /\ backend = "redis" /\ call[c].pc = "sent"
  /\ call' = [call EXCEPT ![c] = Again(@)]
  /\ UNCHANGED <<backend, now, entries, expiry>>

-----------------------------------------------------------------------------
(* Firestore.                                                              *)

TxGet(c) ==
  /\ backend = "firestore" /\ call[c].pc = "sent"
  /\ call' = [call EXCEPT ![c] = [call[c] EXCEPT !.pc = "got", !.seen = entries[call[c].key]]]
  /\ UNCHANGED <<backend, now, entries, expiry>>

\* The closure writes nothing when it refuses.
TxRefuse(c) ==
  /\ backend = "firestore" /\ call[c].pc = "got"
  /\ ~HasRoom(c, call[c].seen)
  /\ LET oldest == Min({e.at : e \in Live(call[c].seen, call[c].at)})
     IN  call' = [call EXCEPT ![c] = [Done(@, "refused") EXCEPT !.resetAt = oldest + Window]]
  /\ UNCHANGED <<backend, now, entries, expiry>>

\* The document is replaced: what the closure has kept, the call, and expiresAt.
SetDocument(c) ==
  LET k == call[c].key IN
    /\ entries' = [entries EXCEPT ![k] = Live(call[c].seen, call[c].at) \cup {Member(c)}]
    /\ expiry' = [expiry EXCEPT ![k] = call[c].at + 2 * Window]

\* Mutated form of TxApplied: what was read may have changed.
TxApplied_Blind(c) ==
  /\ backend = "firestore" /\ call[c].pc = "got"
  /\ HasRoom(c, call[c].seen)
  /\ SetDocument(c)

\* The commit succeeds only if the document is what the transaction has read.
TxApplied(c) ==
  /\ backend = "firestore" /\ call[c].pc = "got"
  /\ HasRoom(c, call[c].seen)
  /\ entries[call[c].key] = call[c].seen
  /\ SetDocument(c)

TxCommit(c) ==
  /\ TxApplied(c)
  /\ call' = [call EXCEPT ![c] = Done([Counted(c) EXCEPT !.seen = {}], "allowed")]
  /\ UNCHANGED <<backend, now>>

TxCommitLost(c) ==
  /\ TxApplied(c)
  /\ call' = [call EXCEPT ![c] = Done([Counted(c) EXCEPT !.seen = {}], "error")]
  /\ UNCHANGED <<backend, now>>

\* The transaction is aborted, for a conflict or not; the closure runs again.
TxAborted(c) ==
  /\ backend = "firestore" /\ call[c].pc = "got"
  /\ call' = [call EXCEPT ![c] = Again(@)]
  /\ UNCHANGED <<backend, now, entries, expiry>>

TxFails(c) ==
  /\ backend = "firestore" /\ call[c].pc \in {"sent", "got"}
  /\ call' = [call EXCEPT ![c] = Done([@ EXCEPT !.seen = {}], "error")]
  /\ UNCHANGED <<backend, now, entries, expiry>>

CheckRateLimit(c) ==
  \/ RunScript(c)
  \/ RunScriptLost(c)
  \/ CommandFails(c)
  \/ TxGet(c)
  \/ TxRefuse(c)
  \/ TxCommit(c)
  \/ TxCommitLost(c)
  \/ TxAborted(c)
  \/ TxFails(c)

-----------------------------------------------------------------------------

\* EXPIRE, or the TTL policy on expiresAt.
Expire(k) ==
  /\ entries[k] # {} /\ now >= expiry[k]
  /\ entries' = [entries EXCEPT ![k] = {}]
  /\ expiry' = [expiry EXCEPT ![k] = 0]
  /\ UNCHANGED <<backend, now, call>>

\* Time does not overtake a call by more than MaxLag.
Tick ==
  /\ now < MaxTime
  /\ \A c \in Calls : call[c].pc \in {"sent", "got"} => now - call[c].began < MaxLag
  /\ now' = now + 1
  /\ UNCHANGED <<backend, entries, expiry, call>>

Environment == Tick \/ \E k \in Keys : Expire(k)

Next ==
  \/ \E c \in Calls, k \in Keys, s \in Servers : CheckStart(c, k, s)
  \/ \E c \in Calls : CheckRateLimit(c)
  \/ Environment

Spec == Init /\ [][Next]_vars

=============================================================================
