-------------------------- MODULE TokenBucket_proofs --------------------------
(***************************************************************************)
(* Proofs about the in-memory rate limiter, for any number of goroutines   *)
(* and keys, any limit, period and lag: no key is admitted at more than    *)
(* its rate (WithinRate), and a refusal names a time at which a request is *)
(* admitted (RetryHonest), although readings of the clock reach the bucket *)
(* out of order and idle buckets are forgotten.                            *)
(***************************************************************************)
EXTENDS TokenBucket, TLAPS

-----------------------------------------------------------------------------
(* The invariant.                                                          *)

\* A reading is at most MaxLag old when it is used.
Fresh(t) == t <= now /\ now <= t + MaxLag

ReadingsFresh ==
  /\ \A c \in Clients : req[c] # Null => Fresh(req[c].at)
  /\ sweep # Null => sweep <= now

\* A bucket is never full between two calls, since a call that finds a token takes
\* one; and it was refilled hardly later than it was used.
BucketsUsed ==
  \A k \in Keys : buckets[k] # Null =>
    /\ buckets[k].tokens < Limit
    /\ buckets[k].lastRefill <= now
    /\ buckets[k].lastRefill <= buckets[k].lastAccessed + MaxLag

\* What a key was admitted for since `watch.at`, and the tokens its bucket still
\* has, are covered by a full bucket and the time up to the last refill; without a
\* bucket, the time alone has to pay for it, because the next one is full again.
Paid ==
  watch # Null =>
    /\ watch.at <= now
    /\ IF buckets[watch.key] = Null
         THEN watch.count * Period <= now - watch.at
         ELSE \/ watch.count = 0
              \/ (watch.count + buckets[watch.key].tokens) * Period
                   <= Limit * Period + buckets[watch.key].lastRefill - watch.at + MaxLag

\* The bucket of a key that was refused is empty, and was refilled before.
RefusedEmpty ==
  \A k \in Keys : denied[k] # Null /\ buckets[k] # Null =>
    /\ buckets[k].tokens = 0
    /\ buckets[k].lastRefill <= denied[k] + MaxLag

BucketInv == TypeOK /\ ReadingsFresh /\ BucketsUsed /\ Paid /\ RefusedEmpty

-----------------------------------------------------------------------------
(* Arithmetic.                                                             *)

LEMMA WholeTokens ==
  ASSUME NEW elapsed \in Int
  PROVE  /\ elapsed \div Period \in Int
         /\ (elapsed \div Period) * Period <= elapsed
         /\ elapsed < (elapsed \div Period) * Period + Period
  BY LimitAssumption

LEMMA Distributes ==
  ASSUME NEW a \in Int, NEW b \in Int
  PROVE  (a + b) * Period = a * Period + b * Period
  BY LimitAssumption

LEMMA Grows ==
  ASSUME NEW a \in Int, NEW b \in Int, a <= b
  PROVE  a * Period <= b * Period
  BY LimitAssumption

-----------------------------------------------------------------------------
(* What a call finds in its bucket.                                        *)

\* Refill gives the bucket either the whole tokens of the time since the last
\* refill, and then at least one, or nothing, and then less than Period has passed.
LEMMA Refilled ==
  ASSUME NEW b \in Bucket, b.tokens < Limit, NEW t \in Nat
  PROVE  /\ Refill(b, t) \in Bucket
         /\ Refill(b, t).lastAccessed = t
         /\ \/ /\ Refill(b, t).lastRefill = t
               /\ Refill(b, t).tokens > 0
               /\ Refill(b, t).tokens * Period <= b.tokens * Period + (t - b.lastRefill)
            \/ /\ Refill(b, t).lastRefill = b.lastRefill
               /\ Refill(b, t).tokens = b.tokens
               /\ t - b.lastRefill < Period
  <1> DEFINE earned == (t - b.lastRefill) \div Period
             full == IF b.tokens + earned > Limit THEN Limit ELSE b.tokens + earned
  <1>0. b.tokens \in 0..Limit /\ b.lastRefill \in Nat /\ b.lastAccessed \in Nat
    BY DEF Bucket
  <1>1. /\ earned \in Int
        /\ earned * Period <= t - b.lastRefill
        /\ t - b.lastRefill < earned * Period + Period
    BY <1>0, WholeTokens
  <1> HIDE DEF earned
  <1>2. CASE earned > 0
    <2>1. Refill(b, t) = [tokens |-> full, lastRefill |-> t, lastAccessed |-> t]
      BY <1>2 DEF Refill, earned
    <2>2. full \in 0..Limit /\ full > 0 /\ full <= b.tokens + earned
      BY <1>0, <1>1, <1>2, LimitAssumption
    <2> HIDE DEF full
    <2>3. full * Period <= (b.tokens + earned) * Period
      BY <1>0, <1>1, <2>2, Grows
    <2>4. (b.tokens + earned) * Period = b.tokens * Period + earned * Period
      <3>1. b.tokens \in Int BY <1>0, LimitAssumption
      <3> QED BY <1>1, <3>1, Distributes
    <2>5. full * Period <= b.tokens * Period + (t - b.lastRefill)
      <3>1. /\ full * Period \in Int /\ b.tokens * Period \in Int /\ earned * Period \in Int
            /\ t - b.lastRefill \in Int /\ (b.tokens + earned) * Period \in Int
        BY <1>0, <1>1, <2>2, LimitAssumption
      <3> QED BY <1>1, <2>3, <2>4, <3>1
    <2> QED BY <2>1, <2>2, <2>5 DEF Bucket
  <1>3. CASE ~(earned > 0)
    <2>1. Refill(b, t) = [b EXCEPT !.lastAccessed = t]
      BY <1>3 DEF Refill, earned
    <2>2. earned * Period <= 0 * Period
      BY <1>1, <1>3, Grows
    <2>3. t - b.lastRefill < Period
      <3>1. earned * Period \in Int /\ 0 * Period = 0 /\ t - b.lastRefill \in Int /\ Period \in Int
        BY <1>0, <1>1, LimitAssumption
      <3> QED BY <1>1, <2>2, <3>1
    <2>4. b = [tokens |-> b.tokens, lastRefill |-> b.lastRefill, lastAccessed |-> b.lastAccessed]
      BY DEF Bucket
    <2>5. Refill(b, t) = [tokens |-> b.tokens, lastRefill |-> b.lastRefill, lastAccessed |-> t]
      BY <2>1, <2>4
    <2> QED BY <1>0, <2>3, <2>5 DEF Bucket
  <1> QED BY <1>2, <1>3

\* The bucket that a call with a fresh reading works on.
LEMMA Found ==
  ASSUME BucketInv, NEW c \in Clients, req[c] # Null,
         NEW k, k = req[c].key, NEW t, t = req[c].at, NEW b, b = Filled(k, t)
  PROVE  /\ k \in Keys /\ t \in Nat /\ Fresh(t) /\ b \in Bucket
         /\ b.lastAccessed = t
         /\ b.lastRefill <= now /\ b.lastRefill <= t + MaxLag
         /\ buckets[k] = Null => b.lastRefill = t /\ b.tokens = Limit
         /\ buckets[k] # Null =>
              /\ buckets[k] \in Bucket
              /\ \/ /\ b.lastRefill = t
                    /\ b.tokens > 0
                    /\ b.tokens * Period <= buckets[k].tokens * Period + (t - buckets[k].lastRefill)
                 \/ /\ b.lastRefill = buckets[k].lastRefill
                    /\ b.tokens = buckets[k].tokens
                    /\ t - buckets[k].lastRefill < Period
  <1>1. k \in Keys /\ t \in Nat /\ Fresh(t)
    BY DEF BucketInv, TypeOK, ReadingsFresh
  <1>2. now \in Nat /\ MaxLag \in Nat /\ Limit \in Nat
    BY LimitAssumption DEF BucketInv, TypeOK
  <1>3. CASE buckets[k] = Null
    <2>1. b = [tokens |-> Limit, lastRefill |-> t, lastAccessed |-> t]
      BY <1>3 DEF Filled, NewBucket
    <2> QED BY <1>1, <1>2, <1>3, <2>1 DEF Bucket, Fresh
  <1>4. CASE buckets[k] # Null
    <2>1. /\ b = Refill(buckets[k], t) /\ buckets[k] \in Bucket /\ buckets[k].tokens < Limit
          /\ buckets[k].lastRefill <= now /\ buckets[k].lastRefill \in Nat
      BY <1>1, <1>4 DEF Filled, BucketInv, TypeOK, BucketsUsed, Bucket
    <2>2. /\ b \in Bucket
          /\ b.lastAccessed = t
          /\ \/ /\ b.lastRefill = t
                /\ b.tokens > 0
                /\ b.tokens * Period <= buckets[k].tokens * Period + (t - buckets[k].lastRefill)
             \/ /\ b.lastRefill = buckets[k].lastRefill
                /\ b.tokens = buckets[k].tokens
                /\ t - buckets[k].lastRefill < Period
      BY <1>1, <2>1, Refilled
    <2>3. b.lastRefill <= now /\ b.lastRefill <= t + MaxLag
      BY <1>1, <1>2, <2>1, <2>2 DEF Fresh
    <2> QED BY <1>1, <1>4, <2>1, <2>2, <2>3
  <1> QED BY <1>3, <1>4

-----------------------------------------------------------------------------
(* The invariant is kept.                                                  *)

LEMMA BucketInit == Init => BucketInv
  BY NullAssumption, LimitAssumption
     DEF Init, BucketInv, TypeOK, ReadingsFresh, BucketsUsed, Paid, RefusedEmpty

\* The moves of time and of a goroutine that has not got the mutex.
LEMMA BesideStep ==
  ASSUME BucketInv,
         \/ \E c \in Clients, k \in Keys : ReadClock(c, k)
         \/ CleanupStart \/ Tick \/ \E k \in Keys : StartWatch(k)
         \/ UNCHANGED vars
  PROVE  BucketInv'
  <1> USE NullAssumption, LimitAssumption DEF BucketInv
  <1>1. ASSUME NEW c \in Clients, NEW k \in Keys, ReadClock(c, k) PROVE BucketInv'
    <2>1. TypeOK' BY <1>1 DEF TypeOK, ReadClock
    <2>2. ReadingsFresh' BY <1>1 DEF TypeOK, ReadClock, ReadingsFresh, Fresh
    <2> QED BY <1>1, <2>1, <2>2 DEF ReadClock, BucketsUsed, Paid, RefusedEmpty
  <1>2. CASE CleanupStart
    <2>1. TypeOK' BY <1>2 DEF TypeOK, CleanupStart
    <2>2. ReadingsFresh' BY <1>2 DEF TypeOK, CleanupStart, ReadingsFresh, Fresh
    <2> QED BY <1>2, <2>1, <2>2 DEF CleanupStart, BucketsUsed, Paid, RefusedEmpty
  <1>3. CASE Tick
    <2>1. TypeOK' BY <1>3 DEF TypeOK, Tick
    <2>2. ReadingsFresh' BY <1>3 DEF TypeOK, Tick, ReadingsFresh, Fresh
    <2>3. BucketsUsed' BY <1>3 DEF TypeOK, Bucket, Tick, BucketsUsed
    <2>4. Paid'
      <3>1. watch # Null => watch.at \in Nat /\ watch.count * Period \in Int
        BY DEF TypeOK, Watch
      <3> QED BY <1>3, <3>1 DEF TypeOK, Tick, Paid
    <2> QED BY <1>3, <2>1, <2>2, <2>3, <2>4 DEF Tick, RefusedEmpty
  <1>4. ASSUME NEW k \in Keys, StartWatch(k) PROVE BucketInv'
    <2>1. TypeOK' BY <1>4 DEF TypeOK, StartWatch, Watch
    <2>2. Paid' BY <1>4 DEF TypeOK, StartWatch, Paid
    <2> QED BY <1>4, <2>1, <2>2 DEF StartWatch, ReadingsFresh, Fresh, BucketsUsed, RefusedEmpty
  <1>5. CASE UNCHANGED vars
    BY <1>5 DEF vars, TypeOK, ReadingsFresh, Fresh, BucketsUsed, Paid, RefusedEmpty
  <1> QED BY <1>1, <1>2, <1>3, <1>4, <1>5

\* Cleanup forgets a bucket only when the time since it was used pays for a full one.
LEMMA CleanupStep == BucketInv /\ Cleanup => BucketInv'
  <1> SUFFICES ASSUME BucketInv, Cleanup PROVE BucketInv'
    OBVIOUS
  <1> USE NullAssumption, LimitAssumption DEF BucketInv
  <1>1. \A k \in Keys : buckets'[k] = buckets[k] \/ buckets'[k] = Null
    BY DEF Cleanup
  <1>2. TypeOK'
    BY <1>1 DEF Cleanup, TypeOK
  <1>3. ReadingsFresh'
    BY DEF Cleanup, ReadingsFresh, Fresh
  <1>4. BucketsUsed' /\ RefusedEmpty'
    BY <1>1 DEF Cleanup, BucketsUsed, RefusedEmpty
  <1>5. Paid'
    <2> SUFFICES ASSUME watch # Null PROVE Paid'
      BY DEF Cleanup, Paid
    <2> DEFINE k == watch.key
    <2>1. /\ k \in Keys /\ watch.at \in Nat /\ watch.count \in Nat /\ watch.at <= now
          /\ watch.count * Period \in Int
      BY DEF TypeOK, Watch, Paid
    <2>2. CASE buckets'[k] = buckets[k]
      BY <2>1, <2>2 DEF Cleanup, Paid
    <2>3. CASE buckets[k] # Null /\ buckets'[k] = Null
      <3> DEFINE b == buckets[k]
      <3>1. /\ b \in Bucket /\ b.tokens \in Nat /\ b.lastRefill \in Nat /\ b.lastAccessed \in Nat
            /\ b.lastRefill <= b.lastAccessed + MaxLag
        BY <2>1, <2>3 DEF TypeOK, Bucket, BucketsUsed
      <3>2. sweep \in Nat /\ sweep <= now /\ sweep - b.lastAccessed > Idle
        BY <2>1, <2>3 DEF Cleanup, Expired, TypeOK, ReadingsFresh
      <3>3. b.lastRefill + Limit * Period + MaxLag < now
        BY <3>1, <3>2, IdleAssumption DEF TypeOK
      <3>4. watch.count * Period <= now - watch.at
        <4>1. CASE watch.count = 0
          BY <2>1, <4>1 DEF TypeOK
        <4>2. CASE (watch.count + b.tokens) * Period <= Limit * Period + b.lastRefill - watch.at + MaxLag
          <5>1. watch.count * Period <= (watch.count + b.tokens) * Period
            BY <2>1, <3>1, Grows
          <5>2. (watch.count + b.tokens) * Period \in Int /\ Limit * Period \in Int /\ now \in Int
            BY <2>1, <3>1 DEF TypeOK
          <5> QED BY <2>1, <3>1, <3>3, <4>2, <5>1, <5>2
        <4> QED BY <2>1, <2>3, <4>1, <4>2 DEF Paid
      <3> QED BY <2>1, <2>3, <3>4 DEF Cleanup, Paid
    <2> QED BY <1>1, <2>1, <2>2, <2>3
  <1> QED BY <1>2, <1>3, <1>4, <1>5

\* What the goroutines' readings and the key of a call become when it has its answer.
LEMMA Answered ==
  ASSUME BucketInv, NEW c \in Clients, req' = [req EXCEPT ![c] = Null], UNCHANGED <<now, sweep>>
  PROVE  ReadingsFresh' /\ req' \in [Clients -> [key: Keys, at: Nat] \cup {Null}]
  BY DEF BucketInv, TypeOK, ReadingsFresh, Fresh

\* An admission takes one of the tokens that are paid for.
LEMMA AdmitStep ==
  ASSUME BucketInv, NEW c \in Clients, Admit(c)
  PROVE  BucketInv'
  <1> USE NullAssumption, LimitAssumption
  <1> DEFINE k == req[c].key
             t == req[c].at
             b == Filled(k, t)
             left == [b EXCEPT !.tokens = @ - 1]
  <1>1. /\ req[c] # Null /\ b.tokens > 0
        /\ buckets' = [buckets EXCEPT ![k] = left]
        /\ denied' = [denied EXCEPT ![k] = Null]
        /\ watch' = IF watch # Null /\ watch.key = k
                      THEN [watch EXCEPT !.count = @ + 1] ELSE watch
        /\ req' = [req EXCEPT ![c] = Null]
        /\ UNCHANGED <<now, sweep>>
    BY DEF Admit
  <1>2. /\ k \in Keys /\ t \in Nat /\ Fresh(t) /\ b \in Bucket
        /\ b.lastAccessed = t
        /\ b.lastRefill <= now /\ b.lastRefill <= t + MaxLag
        /\ buckets[k] = Null => b.lastRefill = t /\ b.tokens = Limit
        /\ buckets[k] # Null =>
             /\ buckets[k] \in Bucket
             /\ \/ /\ b.lastRefill = t
                   /\ b.tokens > 0
                   /\ b.tokens * Period <= buckets[k].tokens * Period + (t - buckets[k].lastRefill)
                \/ /\ b.lastRefill = buckets[k].lastRefill
                   /\ b.tokens = buckets[k].tokens
                   /\ t - buckets[k].lastRefill < Period
    BY <1>1, Found
  <1> HIDE DEF k, t, b
  <1>3. /\ b.tokens \in Nat /\ b.tokens <= Limit /\ b.lastRefill \in Nat
        /\ left \in Bucket /\ left.tokens = b.tokens - 1 /\ left.lastRefill = b.lastRefill
        /\ left.lastAccessed = t
    BY <1>1, <1>2 DEF Bucket
  <1> HIDE DEF left
  <1>4. /\ buckets \in [Keys -> Bucket \cup {Null}]
        /\ buckets'[k] = left /\ left # Null
        /\ \A j \in Keys \ {k} : buckets'[j] = buckets[j]
    BY <1>1, <1>2, <1>3 DEF BucketInv, TypeOK
  <1>5. TypeOK'
    <2>1. watch' \in Watch \cup {Null}
      BY <1>1, <1>2 DEF BucketInv, TypeOK, Watch
    <2>2. buckets' \in [Keys -> Bucket \cup {Null}] /\ denied' \in [Keys -> Nat \cup {Null}]
      BY <1>1, <1>2, <1>3 DEF BucketInv, TypeOK
    <2> QED BY <1>1, <2>1, <2>2, Answered DEF BucketInv, TypeOK
  <1>6. BucketsUsed'
    BY <1>1, <1>2, <1>3, <1>4 DEF BucketInv, BucketsUsed
  <1>7. RefusedEmpty'
    BY <1>1, <1>2, <1>4 DEF BucketInv, TypeOK, RefusedEmpty
  <1>8. Paid'
    <2>1. CASE watch = Null \/ watch.key # k
      <3>1. watch' = watch /\ (watch # Null => watch.key \in Keys \ {k})
        BY <1>1, <2>1 DEF BucketInv, TypeOK, Watch
      <3> QED BY <1>1, <1>4, <3>1 DEF BucketInv, Paid
    <2>2. CASE watch # Null /\ watch.key = k
      <3> DEFINE n == watch.count
                 w == watch.at
      <3>1. /\ n \in Nat /\ w \in Nat /\ w <= now /\ now \in Nat /\ MaxLag \in Nat
            /\ watch'.count = n + 1 /\ watch'.at = w /\ watch'.key = k /\ watch' # Null
        BY <1>1, <2>2 DEF BucketInv, TypeOK, Watch, Paid
      <3> DEFINE admitted == n * Period
                 spare == b.tokens * Period
                 full == Limit * Period
                 r == b.lastRefill
                 Covered == (n + b.tokens) * Period <= full + r - w + MaxLag
      <3>2. /\ w <= t + MaxLag /\ now <= t + MaxLag
            /\ full \in Nat /\ admitted \in Nat /\ spare \in Nat /\ r \in Nat /\ t \in Nat
            /\ Covered <=> admitted + spare <= full + r - w + MaxLag
        <4>1. n \in Int /\ b.tokens \in Int BY <1>3, <3>1
        <4>2. (n + b.tokens) * Period = admitted + spare
          BY <4>1, Distributes
        <4> QED BY <1>2, <1>3, <3>1, <4>2 DEF Fresh
      <3> HIDE DEF Covered
      <3>3. ASSUME buckets[k] = Null PROVE Covered
        <4>1. admitted <= now - w
          BY <2>2, <3>3 DEF BucketInv, Paid
        <4>2. spare = full /\ r = t
          BY <1>2, <3>3
        <4> HIDE DEF admitted, spare, full, r, n, w
        <4> QED BY <3>1, <3>2, <4>1, <4>2
      <3>4. ASSUME buckets[k] # Null /\ n = 0 PROVE Covered
        <4>1. admitted = 0 /\ spare <= full
          BY <1>3, <3>4, Grows
        <4>2. ASSUME r = t PROVE Covered
          <5> HIDE DEF admitted, spare, full, r, n, w
          <5> QED BY <3>1, <3>2, <4>1, <4>2
        <4>3. ASSUME b.tokens = buckets[k].tokens /\ t - r < Period PROVE Covered
          <5>1. b.tokens + 1 <= Limit
            BY <1>2, <1>3, <3>4, <4>3 DEF BucketInv, BucketsUsed
          <5>2. (b.tokens + 1) * Period <= full
            BY <1>3, <5>1, Grows
          <5>3. (b.tokens + 1) * Period = spare + 1 * Period
            <6>1. b.tokens \in Int /\ 1 \in Int BY <1>3
            <6> QED BY <6>1, Distributes
          <5>4. spare + Period <= full
            <6>1. 1 * Period = Period OBVIOUS
            <6> QED BY <5>2, <5>3, <6>1
          <5> HIDE DEF admitted, spare, full, r, n, w
          <5> QED BY <3>1, <3>2, <4>1, <4>3, <5>4
        <4> QED BY <1>2, <3>4, <4>2, <4>3
      <3>5. ASSUME buckets[k] # Null /\ n # 0 PROVE Covered
        <4> DEFINE o == buckets[k]
                   had == o.tokens * Period
                   q == o.lastRefill
        <4>1. o.tokens \in Nat /\ q \in Nat /\ had \in Nat
          BY <1>2, <3>5 DEF Bucket
        <4>2. (n + o.tokens) * Period <= full + q - w + MaxLag
          BY <2>2, <3>5 DEF BucketInv, Paid
        <4>3. (n + o.tokens) * Period = admitted + had
          <5>1. n \in Int /\ o.tokens \in Int BY <3>1, <4>1
          <5> QED BY <5>1, Distributes
        <4>4. admitted + had <= full + q - w + MaxLag
          BY <4>2, <4>3
        <4>5. ASSUME spare <= had + (t - q) /\ r = t PROVE Covered
          <5> HIDE DEF admitted, spare, full, r, n, w, had, q
          <5> QED BY <3>1, <3>2, <4>1, <4>4, <4>5
        <4>6. ASSUME b.tokens = o.tokens /\ r = q PROVE Covered
          <5>1. spare = had BY <4>6
          <5> HIDE DEF admitted, spare, full, r, n, w, had, q
          <5> QED BY <3>1, <3>2, <4>1, <4>4, <4>6, <5>1
        <4> QED BY <1>2, <3>5, <4>5, <4>6
      <3>6. Covered
        <4> HIDE DEF n, w
        <4> QED BY <3>1, <3>3, <3>4, <3>5
      <3>7. watch'.count + left.tokens = n + b.tokens
        BY <1>3, <3>1
      <3> QED BY <1>1, <1>3, <1>4, <3>1, <3>6, <3>7 DEF Paid, Covered
    <2> QED BY <2>1, <2>2
  <1> QED BY <1>1, <1>5, <1>6, <1>7, <1>8, Answered DEF BucketInv

\* A refusal finds an empty bucket, and leaves it as it was but for its use.
LEMMA DenyLeaves ==
  ASSUME BucketInv, NEW c \in Clients, Deny(c), NEW k, k = req[c].key, NEW t, t = req[c].at
  PROVE  /\ k \in Keys /\ t \in Nat /\ Fresh(t)
         /\ buckets[k] # Null /\ buckets[k] \in Bucket /\ buckets[k].tokens = 0
         /\ t - buckets[k].lastRefill < Period
         /\ buckets' = [buckets EXCEPT ![k] = Filled(k, t)]
         /\ Filled(k, t) \in Bucket
         /\ Filled(k, t).tokens = 0
         /\ Filled(k, t).lastRefill = buckets[k].lastRefill
         /\ Filled(k, t).lastRefill <= now
         /\ Filled(k, t).lastRefill <= t + MaxLag
         /\ Filled(k, t).lastAccessed = t
  <1> DEFINE b == Filled(k, t)
  <1>1. req[c] # Null /\ b.tokens = 0 /\ buckets' = [buckets EXCEPT ![k] = b]
    BY DEF Deny
  <1>2. b = Filled(k, t) OBVIOUS
  <1> HIDE DEF b
  <1>3. /\ k \in Keys /\ t \in Nat /\ Fresh(t) /\ b \in Bucket
        /\ b.lastAccessed = t
        /\ b.lastRefill <= now /\ b.lastRefill <= t + MaxLag
        /\ buckets[k] = Null => b.lastRefill = t /\ b.tokens = Limit
        /\ buckets[k] # Null =>
             /\ buckets[k] \in Bucket
             /\ \/ b.tokens > 0
                \/ /\ b.lastRefill = buckets[k].lastRefill
                   /\ b.tokens = buckets[k].tokens
                   /\ t - buckets[k].lastRefill < Period
    BY <1>1, <1>2, Found
  <1>4. buckets[k] # Null
    BY <1>1, <1>3, LimitAssumption
  <1> QED BY <1>1, <1>2, <1>3, <1>4

LEMMA DenyStep ==
  ASSUME BucketInv, NEW c \in Clients, Deny(c)
  PROVE  BucketInv'
  <1> USE NullAssumption, LimitAssumption
  <1> DEFINE k == req[c].key
             t == req[c].at
             b == Filled(k, t)
  <1>1. /\ denied' = [denied EXCEPT ![k] = IF @ = Null THEN t ELSE @]
        /\ req' = [req EXCEPT ![c] = Null]
        /\ UNCHANGED <<now, sweep, watch>>
    BY DEF Deny
  <1>2. /\ k \in Keys /\ t \in Nat /\ Fresh(t)
        /\ buckets[k] # Null /\ buckets[k] \in Bucket /\ buckets[k].tokens = 0
        /\ buckets' = [buckets EXCEPT ![k] = b]
        /\ b \in Bucket /\ b.tokens = 0 /\ b.lastRefill = buckets[k].lastRefill
        /\ b.lastRefill <= now /\ b.lastRefill <= t + MaxLag /\ b.lastAccessed = t
    BY DenyLeaves
  <1> HIDE DEF k, t, b
  <1>3. /\ buckets'[k] = b /\ b # Null
        /\ \A j \in Keys \ {k} : buckets'[j] = buckets[j]
    BY <1>2 DEF BucketInv, TypeOK
  <1>4. TypeOK'
    <2>1. buckets' \in [Keys -> Bucket \cup {Null}] /\ denied' \in [Keys -> Nat \cup {Null}]
      BY <1>1, <1>2 DEF BucketInv, TypeOK
    <2> QED BY <1>1, <2>1, Answered DEF BucketInv, TypeOK
  <1>5. BucketsUsed'
    BY <1>1, <1>2, <1>3 DEF BucketInv, BucketsUsed
  <1>6. RefusedEmpty'
    <2>1. b.lastRefill <= denied'[k] + MaxLag
      BY <1>1, <1>2 DEF BucketInv, TypeOK, RefusedEmpty
    <2>2. \A j \in Keys \ {k} : denied'[j] = denied[j]
      BY <1>1 DEF BucketInv, TypeOK
    <2> QED BY <1>2, <1>3, <2>1, <2>2 DEF BucketInv, RefusedEmpty
  <1>7. Paid'
    <2>1. watch # Null => watch.key \in Keys
      BY DEF BucketInv, TypeOK, Watch
    <2>2. watch # Null /\ watch.key = k => Paid'
      BY <1>1, <1>2, <1>3 DEF BucketInv, Paid
    <2>3. ~(watch # Null /\ watch.key = k) => Paid'
      BY <1>1, <1>3, <2>1 DEF BucketInv, Paid
    <2> QED BY <2>2, <2>3
  <1> QED BY <1>1, <1>4, <1>5, <1>6, <1>7, Answered DEF BucketInv

LEMMA BucketStep == BucketInv /\ [Next]_vars => BucketInv'
  BY BesideStep, CleanupStep, AdmitStep, DenyStep DEF Next, CheckRateLimit

LEMMA BucketInvariant == Spec => []BucketInv
  BY BucketInit, BucketStep, PTL DEF Spec

-----------------------------------------------------------------------------
(* What the limiter promises.                                              *)

\* The buckets, the readings and the histories have their types.
THEOREM TypeCorrect == Spec => []TypeOK
  <1>1. BucketInv => TypeOK
    BY DEF BucketInv
  <1> QED BY <1>1, BucketInvariant, PTL

\* From any moment on a key is admitted for a full bucket and for one token with each
\* Period: for every number of goroutines, in whatever order their readings reach
\* the bucket, and although cleanup forgets buckets (CheckRateLimit, cleanup).
THEOREM NeverAboveRate == Spec => []WithinRate
  <1>1. BucketInv => WithinRate
    <2> SUFFICES ASSUME BucketInv, watch # Null
                 PROVE  watch.count * Period <= Limit * Period + (now - watch.at) + MaxLag
      BY DEF WithinRate
    <2> USE LimitAssumption
    <2>1. /\ watch.key \in Keys /\ watch.count \in Nat /\ watch.at \in Nat /\ watch.at <= now
          /\ now \in Nat /\ watch.count * Period \in Nat /\ Limit * Period \in Nat
      BY DEF BucketInv, TypeOK, Watch, Paid
    <2>2. CASE buckets[watch.key] = Null
      BY <2>1, <2>2 DEF BucketInv, Paid
    <2>3. CASE buckets[watch.key] # Null /\ watch.count = 0
      BY <2>1, <2>3
    <2>4. CASE buckets[watch.key] # Null /\ watch.count # 0
      <3> DEFINE b == buckets[watch.key]
      <3>1. b.tokens \in Nat /\ b.lastRefill \in Nat /\ b.lastRefill <= now
        BY <2>1, <2>4 DEF BucketInv, TypeOK, BucketsUsed, Bucket
      <3>2. watch.count * Period <= (watch.count + b.tokens) * Period
        BY <2>1, <3>1, Grows
      <3>3. (watch.count + b.tokens) * Period <= Limit * Period + b.lastRefill - watch.at + MaxLag
        BY <2>4 DEF BucketInv, Paid
      <3>4. (watch.count + b.tokens) * Period \in Int
        BY <2>1, <3>1
      <3> QED BY <2>1, <3>1, <3>2, <3>3, <3>4
    <2> QED BY <2>2, <2>3, <2>4
  <1> QED BY <1>1, BucketInvariant, PTL

\* A request that reads the clock a Period after its key was first refused is
\* admitted, unless another was: however often the bucket is polled in between.
THEOREM RetryIsHonest == Spec => RetryHonest
  <1> DEFINE Honest == \A c \in Clients :
               LET k == req[c].key IN
                 req[c] # Null /\ req'[c] = Null /\ denied[k] # Null
                   /\ req[c].at >= denied[k] + Period + MaxLag
                 => denied'[k] = Null
  <1>1. BucketInv /\ [Next]_vars => [Honest]_vars
    <2> SUFFICES ASSUME BucketInv, Next, NEW c \in Clients,
                        req[c] # Null, req'[c] = Null, denied[req[c].key] # Null,
                        req[c].at >= denied[req[c].key] + Period + MaxLag
                 PROVE  denied'[req[c].key] = Null
      OBVIOUS
    <2> DEFINE k == req[c].key
    <2>1. /\ req \in [Clients -> [key: Keys, at: Nat] \cup {Null}]
          /\ k \in Keys /\ denied \in [Keys -> Nat \cup {Null}]
      BY DEF BucketInv, TypeOK
    <2>2. Admit(c) \/ Deny(c)
      BY <2>1, NullAssumption DEF Next, CheckRateLimit, ReadClock, Admit, Deny, CleanupStart, Cleanup, Tick, StartWatch
    <2>3. CASE Admit(c)
      BY <2>1, <2>3 DEF Admit
    <2>4. ~Deny(c)
      <3> SUFFICES ASSUME Deny(c) PROVE FALSE
        OBVIOUS
      <3>1. /\ buckets[k] # Null /\ buckets[k] \in Bucket
            /\ req[c].at - buckets[k].lastRefill < Period
        BY DenyLeaves
      <3>2. buckets[k].lastRefill <= denied[k] + MaxLag
        BY <2>1, <3>1 DEF BucketInv, RefusedEmpty
      <3> QED BY <2>1, <3>1, <3>2, LimitAssumption DEF Bucket
    <2> QED BY <2>2, <2>3, <2>4
  <1> QED BY <1>1, BucketInvariant, PTL DEF Spec, RetryHonest

=============================================================================
