----------------------------- MODULE TokenBucket -----------------------------
(***************************************************************************)
(* The in-memory rate limiter, RateLimitService                            *)
(* (src/services/ratelimit.go): a token bucket per key, refilled from the  *)
(* time that has passed, and a goroutine that forgets idle buckets.        *)
(*                                                                         *)
(* CheckRateLimit and cleanup read the clock BEFORE they take the mutex,   *)
(* so a bucket meets readings out of order; a section under the mutex is   *)
(* one step.  Time is counted in ticks of which a token takes Period:      *)
(* the rate limit/window is 1/Period, and the window Limit*Period.  Every  *)
(* call of a key passes the same limit and window.  int(elapsed*rate) is   *)
(* exact here; in Go a rounding error can delay a token by an instant.     *)
(***************************************************************************)
EXTENDS Integers

CONSTANTS
  Clients,   \* request goroutines
  Keys,      \* "<action>:<client address>"
  Limit,     \* tokens of a full bucket
  Period,    \* ticks a token takes
  Idle,      \* a bucket that was not used for longer is forgotten (two hours)
  MaxLag,    \* how long a goroutine may be on its way from clock to mutex
  MaxTime,   \* bound: the clock stops here
  Null       \* no bucket, no reading

VARIABLES
  now,       \* the clock
  buckets,   \* r.buckets
  req,       \* per client: the key and the reading of its call, until it has the mutex
  sweep,     \* the reading of the cleanup in progress
  watch,     \* history: the requests of one key admitted since some moment
  denied     \* history, per key: the first reading refused since the last admission

vars == <<now, buckets, req, sweep, watch, denied>>

Bucket == [tokens: 0..Limit, lastRefill: Nat, lastAccessed: Nat]
Watch == [key: Keys, at: Nat, count: Nat]

ASSUME LimitAssumption == Limit \in Nat \ {0} /\ Period \in Nat \ {0} /\ MaxLag \in Nat
\* Two hours against windows of a minute (server.go): an idle bucket is full.
ASSUME IdleAssumption == Idle \in Nat /\ Idle >= Limit * Period + 2 * MaxLag
ASSUME NullAssumption == Null \notin Nat /\ Null \notin Bucket /\ Null \notin Watch
                         /\ Null \notin [key: Keys, at: Nat]

TypeOK ==
  /\ now \in Nat
  /\ buckets \in [Keys -> Bucket \cup {Null}]
  /\ req \in [Clients -> [key: Keys, at: Nat] \cup {Null}]
  /\ sweep \in Nat \cup {Null}
  /\ watch \in Watch \cup {Null}
  /\ denied \in [Keys -> Nat \cup {Null}]

Init ==
  /\ now = 0
  /\ buckets = [k \in Keys |-> Null]
  /\ req = [c \in Clients |-> Null]
  /\ sweep = Null
  /\ watch = Null
  /\ denied = [k \in Keys |-> Null]

-----------------------------------------------------------------------------
(* CheckRateLimit.                                                         *)

ReadClock(c, k) ==
  /\ req[c] = Null
  /\ req' = [req EXCEPT ![c] = [key |-> k, at |-> now]]
  /\ UNCHANGED <<now, buckets, sweep, watch, denied>>

\* Mutated form of Refill: the bucket may hold more than its limit.
Refill_NoCap(b, t) ==
  LET earned == (t - b.lastRefill) \div Period IN
    IF earned > 0
      THEN [tokens |-> b.tokens + earned, lastRefill |-> t, lastAccessed |-> t]
      ELSE [b EXCEPT !.lastAccessed = t]

\* Mutated form of Refill: lastRefill moves on although no token was earned.
Refill_Always(b, t) ==
  LET earned == (t - b.lastRefill) \div Period
      full == IF b.tokens + earned > Limit THEN Limit ELSE b.tokens + earned
  IN  [tokens |-> IF earned > 0 THEN full ELSE b.tokens,
       lastRefill |-> t, lastAccessed |-> t]

\* Whole tokens only; lastRefill moves when there are some, and then drops the
\* fraction.  An older reading than lastRefill earns nothing.
Refill(b, t) ==
  LET earned == (t - b.lastRefill) \div Period
      full == IF b.tokens + earned > Limit THEN Limit ELSE b.tokens + earned
  IN  IF earned > 0
        THEN [tokens |-> full, lastRefill |-> t, lastAccessed |-> t]
        ELSE [b EXCEPT !.lastAccessed = t]

NewBucket(t) == [tokens |-> Limit, lastRefill |-> t, lastAccessed |-> t]

Filled(k, t) == IF buckets[k] = Null THEN NewBucket(t) ELSE Refill(buckets[k], t)

\* The section under the mutex when a token is left.
Admit(c) ==
  /\ req[c] # Null
  /\ LET k == req[c].key
         b == Filled(k, req[c].at)
     IN  /\ b.tokens > 0
         /\ buckets' = [buckets EXCEPT ![k] = [b EXCEPT !.tokens = @ - 1]]
         /\ denied' = [denied EXCEPT ![k] = Null]
         /\ watch' = IF watch # Null /\ watch.key = k
                       THEN [watch EXCEPT !.count = @ + 1] ELSE watch
  /\ req' = [req EXCEPT ![c] = Null]
  /\ UNCHANGED <<now, sweep>>

\* ... and when none is: the caller is told to come back after Period.
Deny(c) ==
  /\ req[c] # Null
  /\ LET k == req[c].key
         b == Filled(k, req[c].at)
     IN  /\ b.tokens = 0
         /\ buckets' = [buckets EXCEPT ![k] = b]
         /\ denied' = [denied EXCEPT ![k] = IF @ = Null THEN req[c].at ELSE @]
  /\ req' = [req EXCEPT ![c] = Null]
  /\ UNCHANGED <<now, sweep, watch>>

CheckRateLimit(c) ==
  \/ \E k \in Keys : ReadClock(c, k)
  \/ Admit(c)
  \/ Deny(c)

-----------------------------------------------------------------------------
(* cleanup.                                                                *)

CleanupStart ==
  /\ sweep = Null
  /\ sweep' = now
  /\ UNCHANGED <<now, buckets, req, watch, denied>>

\* Mutated form of Expired: a bucket is forgotten when it was last refilled
\* one window ago, used or not.
Expired_OnRefill(b) == b # Null /\ sweep - b.lastRefill >= Period

Expired(b) == b # Null /\ sweep - b.lastAccessed > Idle

Cleanup ==
  /\ sweep # Null
  /\ buckets' = [k \in Keys |-> IF Expired(buckets[k]) THEN Null ELSE buckets[k]]
  /\ sweep' = Null
  /\ UNCHANGED <<now, req, watch, denied>>

-----------------------------------------------------------------------------

\* Time does not overtake a goroutine that is on its way by more than MaxLag.
Tick ==
  /\ now < MaxTime
  /\ \A c \in Clients : req[c] # Null => now - req[c].at < MaxLag
  /\ sweep # Null => now - sweep < MaxLag
  /\ now' = now + 1
  /\ UNCHANGED <<buckets, req, sweep, watch, denied>>

\* History: somebody starts to count.
StartWatch(k) ==
  /\ watch = Null
  /\ watch' = [key |-> k, at |-> now, count |-> 0]
  /\ UNCHANGED <<now, buckets, req, sweep, denied>>

Next ==
  \/ \E c \in Clients : CheckRateLimit(c)
  \/ CleanupStart
  \/ Cleanup
  \/ Tick
  \/ \E k \in Keys : StartWatch(k)

Spec == Init /\ [][Next]_vars

-----------------------------------------------------------------------------
(* Correctness.                                                            *)

\* From any moment on and for any length of time, a key is admitted for a full
\* bucket and for one token with each Period that passes (MaxLag longer for the
\* readings under way): whatever order readings reach the bucket in, and although
\* cleanup forgets buckets and they are re-created full.
WithinRate ==
  watch # Null =>
    watch.count * Period <= Limit * Period + (now - watch.at) + MaxLag

\* A refusal names the time to come back ("duration until next request is
\* allowed"): a request of the key that reads the clock later than that is
\* admitted, unless another was since.  Being polled does not starve the bucket,
\* although each refill drops the fraction of a token.
RetryHonest ==
  [][\A c \in Clients :
       LET k == req[c].key IN
         req[c] # Null /\ req'[c] = Null /\ denied[k] # Null
           /\ req[c].at >= denied[k] + Period + MaxLag
         => denied'[k] = Null]_vars

=============================================================================
