-------------------------- MODULE RateLimits_proofs --------------------------
(***************************************************************************)
(* Proofs about the limiters that several servers share, behind the rate   *)
(* limits of a request: for any number of requests, servers and keys, any  *)
(* skew of the clocks and any delays, no client passes more often than its *)
(* limit in a window (WithinWindow), nobody is refused for the requests of *)
(* others or for one that counted twice (RefusedForOwn), and the reset     *)
(* time of a refusal is honest (ResetHonest), on Redis and on Firestore.   *)
(***************************************************************************)
EXTENDS RateLimits, FiniteSetTheorems, WellFoundedInduction, TLAPS

\* What the loads say of the origin of a request is what GetClientIP finds.
Attributed ==
  \A load \in Loads : \A q \in DOMAIN load :
    GetClientIP(load[q].peer, load[q].headers) = load[q].origin

-----------------------------------------------------------------------------
(* The invariant.                                                          *)

Running(c) == call[c].pc \in {"sent", "got"}
Counted(c) == call[c].when # Null

\* A call belongs to a request that has arrived, and to its client's key; it has an
\* answer when it is done, and it is counted when that is "allowed".
CallsMade ==
  \A c \in Calls :
    /\ call[c].pc = "idle" => call[c] = W!NoCall
    /\ call[c].pc # "idle" => c[1] \in DOMAIN kind /\ call[c].key = KeyOf(c[2], c[1])
    /\ Running(c) => call[c].answer = "none" /\ call[c].resetAt = Null
    /\ call[c].pc = "sent" => call[c].seen = {}
    /\ call[c].answer = "allowed" => Counted(c)

\* A running call has read a server's clock lately, and so had a counted one when
\* it was counted.
CallsOnTime ==
  \A c \in Calls :
    /\ Running(c) => /\ call[c].began <= now /\ now <= call[c].began + MaxLag
                     /\ \E s \in Servers : call[c].at = call[c].began + Offset[s]
    /\ Counted(c) => /\ call[c].when <= now
                     /\ call[c].when <= call[c].at + MaxLag

\* The store never holds more than the limit of a key, nor has a transaction read
\* more.
Sized ==
  /\ \A k \in Keys : IsFiniteSet(entries[k]) /\ Cardinality(entries[k]) <= Limit[k]
  /\ \A c \in Calls : call[c].pc # "idle" =>
       IsFiniteSet(call[c].seen) /\ Cardinality(call[c].seen) <= Limit[call[c].key]

\* What the store holds, and what a transaction has read, are calls of that key
\* that were counted.
Owned(k, e) == \E d \in Calls : call[d].key = k /\ Counted(d) /\ W!Member(d) = e

Sourced ==
  /\ \A k \in Keys : \A e \in entries[k] : Owned(k, e)
  /\ \A c \in Calls : \A e \in call[c].seen : Owned(call[c].key, e)

\* The entry of a counted call stays for the length of the window that the limit
\* holds for, and the store does not expire it in that time.
Kept ==
  \A c \in Calls : Counted(c) /\ now < call[c].when + Window - Spread =>
    /\ W!Member(c) \in entries[call[c].key]
    /\ call[c].when + Window - Spread <= expiry[call[c].key]

\* The entries of one key that were counted from t on, as long as a window is.
CountedFrom(k, t) ==
  {W!Member(c) : c \in {d \in Calls : /\ call[d].key = k /\ Counted(d)
                                      /\ t <= call[d].when
                                      /\ call[d].when < t + Window - Spread}}

WindowsKept ==
  \A k \in Keys, t \in Nat : Cardinality(CountedFrom(k, t)) <= Limit[k]

\* The counted calls of the same key that a call has in its window.
OwnCalls(c) ==
  {d \in Calls : call[d].key = call[c].key /\ Counted(d) /\ call[d].at > call[c].at - Window}

\* Who was refused had the limit's number of own calls; on Firestore that is what
\* its transaction saw, and its reset time is an entry's that it saw.
Refusals ==
  \A c \in Calls :
    /\ call[c].answer = "refused" => Cardinality(OwnCalls(c)) >= Limit[call[c].key]
    /\ call[c].answer = "refused" /\ backend = "firestore" =>
         Cardinality(W!Live(call[c].seen, call[c].at)) >= Limit[call[c].key]
    /\ call[c].resetAt # Null =>
         /\ backend = "firestore" /\ call[c].pc = "done"
         /\ \E e \in call[c].seen : call[c].resetAt = e.at + Window

LimitsInv ==
  /\ TypeOK /\ CallsMade /\ CallsOnTime /\ Sized /\ Sourced /\ Kept /\ WindowsKept /\ Refusals

-----------------------------------------------------------------------------
(* Finite sets.                                                            *)

\* A finite set of integers that is not empty has a greatest element and a least:
\* one that leaves a minimal set of elements beyond it.
LEMMA GreatestExists ==
  ASSUME NEW S, IsFiniteSet(S), S \subseteq Int, S # {}
  PROVE  \E x \in S : \A y \in S : x >= y
  <1> DEFINE Above(x) == {y \in S : y > x}
             T == {Above(x) : x \in S}
  <1>1. T \subseteq FiniteSubsetsOf(S) /\ T # {}
    <2>1. \A x \in S : Above(x) \in SUBSET S
      OBVIOUS
    <2>2. \A x \in S : IsFiniteSet(Above(x))
      BY <2>1, FS_Subset
    <2> QED BY <2>1, <2>2 DEF FiniteSubsetsOf
  <1>2. PICK U \in T : \A V \in T : ~(<<V, U>> \in StrictSubsetOrdering(S))
    BY <1>1, FS_StrictSubsetOrderingWellFounded, WFMin
  <1>3. PICK x \in S : U = Above(x)
    BY <1>2
  <1>4. ASSUME NEW y \in S, y > x PROVE FALSE
    <2>1. Above(y) \in T
      OBVIOUS
    <2>2. x \in Int /\ y \in Int /\ \A z \in S : z \in Int
      OBVIOUS
    <2>3. Above(y) \subseteq Above(x)
      <3>1. ASSUME NEW z \in S, z > y PROVE z > x
        BY <1>4, <2>2, <3>1
      <3> QED BY <3>1
    <2>4. y \in Above(x) /\ y \notin Above(y)
      BY <1>4, <2>2
    <2>5. <<Above(y), U>> \in StrictSubsetOrdering(S)
      BY <1>3, <2>3, <2>4 DEF StrictSubsetOrdering
    <2> QED BY <1>2, <2>1, <2>5
  <1> QED BY <1>4

LEMMA LeastExists ==
  ASSUME NEW S, IsFiniteSet(S), S \subseteq Int, S # {}
  PROVE  \E x \in S : \A y \in S : x <= y
  <1> DEFINE Below(x) == {y \in S : y < x}
             T == {Below(x) : x \in S}
  <1>1. T \subseteq FiniteSubsetsOf(S) /\ T # {}
    <2>1. \A x \in S : Below(x) \in SUBSET S
      OBVIOUS
    <2>2. \A x \in S : IsFiniteSet(Below(x))
      BY <2>1, FS_Subset
    <2> QED BY <2>1, <2>2 DEF FiniteSubsetsOf
  <1>2. PICK U \in T : \A V \in T : ~(<<V, U>> \in StrictSubsetOrdering(S))
    BY <1>1, FS_StrictSubsetOrderingWellFounded, WFMin
  <1>3. PICK x \in S : U = Below(x)
    BY <1>2
  <1>4. ASSUME NEW y \in S, y < x PROVE FALSE
    <2>1. Below(y) \in T
      OBVIOUS
    <2>2. x \in Int /\ y \in Int /\ \A z \in S : z \in Int
      OBVIOUS
    <2>3. Below(y) \subseteq Below(x)
      <3>1. ASSUME NEW z \in S, z < y PROVE z < x
        BY <1>4, <2>2, <3>1
      <3> QED BY <3>1
    <2>4. y \in Below(x) /\ y \notin Below(y)
      BY <1>4, <2>2
    <2>5. <<Below(y), U>> \in StrictSubsetOrdering(S)
      BY <1>3, <2>3, <2>4 DEF StrictSubsetOrdering
    <2> QED BY <1>2, <2>1, <2>5
  <1> QED BY <1>4

\* A set that is covered by a function on a finite set is no larger.
LEMMA CoveredIsSmaller ==
  ASSUME NEW S, IsFiniteSet(S), NEW f, DOMAIN f = S, NEW T, \A t \in T : \E s \in S : f[s] = t
  PROVE  IsFiniteSet(T) /\ Cardinality(T) <= Cardinality(S)
  <1> DEFINE R == {f[s] : s \in S}
             g == [s \in S |-> f[s]]
  <1>1. g \in Surjection(S, R)
    BY DEF Surjection
  <1>2. IsFiniteSet(R) /\ Cardinality(R) <= Cardinality(S)
    BY <1>1, FS_Surjection
  <1>3. T \in SUBSET R
    OBVIOUS
  <1>4. IsFiniteSet(T) /\ Cardinality(T) <= Cardinality(R)
    BY <1>2, <1>3, FS_Subset
  <1> QED BY <1>2, <1>4, FS_CardinalityType

-----------------------------------------------------------------------------
(* The constants.                                                          *)

\* SlidingWindow has the operators on sets that this module has.
LEMMA SameOperators ==
  /\ \A S : W!IsFiniteSet(S) <=> IsFiniteSet(S)
  /\ \A S : W!Cardinality(S) = Cardinality(S)
  /\ \A S : W!Min(S) = Min(S)
  <1>1. \A S : W!IsFiniteSet(S) <=> IsFiniteSet(S)
    BY DEF W!IsFiniteSet, IsFiniteSet
  <1>2. \A S : W!Cardinality(S) = Cardinality(S)
    BY DEF W!Cardinality, Cardinality
  <1>3. \A S : W!Min(S) = Min(S)
    BY DEF W!Min, Min
  <1> QED BY <1>1, <1>2, <1>3

LEMMA LimitsAre ==
  /\ Window \in Nat \ {0} /\ MaxLag \in Nat /\ MaxTries \in Nat
  /\ IsFiniteSet(Servers) /\ Offset \in [Servers -> Nat]
  /\ Limit \in [Keys -> Nat \ {0}]
  /\ Null \notin Calls /\ Null \notin Keys /\ Null \notin Int
  BY WindowAssumption, SameOperators DEF W!WindowConstants

\* The furthest a clock is ahead is part of Spread.
LEMMA SpreadCovers ==
  ASSUME Servers # {}
  PROVE  Spread \in Nat /\ \A s \in Servers : MaxLag + Offset[s] <= Spread
  <1> DEFINE S == {Offset[s] : s \in Servers}
  <1>1. S \subseteq Nat /\ S # {}
    BY LimitsAre
  <1>2. IsFiniteSet(S)
    <2> DEFINE f == [s \in Servers |-> Offset[s]]
    <2>1. \A t \in S : \E s \in Servers : f[s] = t
      OBVIOUS
    <2> QED BY <2>1, LimitsAre, CoveredIsSmaller
  <1>3. \E x \in S : \A y \in S : x >= y
    BY <1>1, <1>2, GreatestExists
  <1>4. Max(S) \in S /\ \A y \in S : Max(S) >= y
    BY <1>3 DEF Max
  <1>5. \A s \in Servers : Offset[s] \in S
    OBVIOUS
  <1>6. Spread = MaxLag + Max(S)
    BY DEF Spread
  <1> HIDE DEF S
  <1>7. \A s \in Servers : Offset[s] \in Nat /\ Max(S) >= Offset[s]
    BY <1>4, <1>5, LimitsAre
  <1>8. Max(S) \in Nat
    BY <1>1, <1>4
  <1> QED BY <1>6, <1>7, <1>8, LimitsAre

LEMMA CallsFinite == IsFiniteSet(Requests) /\ IsFiniteSet(Calls)
  <1>1. IsFiniteSet(Requests)
    BY RequestsAssumption, FS_Interval DEF Requests
  <1>2. IsFiniteSet(Limiters)
    <2>1. Limiters = {"global"} \cup {"action"}
      BY DEF Limiters
    <2> QED BY <2>1, FS_Singleton, FS_AddElement
  <1> QED BY <1>1, <1>2, FS_Product DEF Calls

\* GetClientIP answers an address: the peer's, or one that a trusted header names.
LEMMA ClientIsAddress ==
  ASSUME NEW peer \in Addresses, NEW headers
  PROVE  GetClientIP(peer, headers) \in Addresses
  <1> DEFINE naming == {i \in DOMAIN TrustedHeaders :
                          Named(TrustedHeaders[i], headers[TrustedHeaders[i]]) # {}}
  <1>1. CASE naming # {}
    <2>1. DOMAIN TrustedHeaders = 1..Len(TrustedHeaders) /\ Len(TrustedHeaders) \in Nat
      BY HeadersAssumption
    <2>2. IsFiniteSet(naming) /\ naming \subseteq Int
      <3>1. IsFiniteSet(1..Len(TrustedHeaders))
        BY <2>1, FS_Interval
      <3>2. naming \in SUBSET (1..Len(TrustedHeaders))
        BY <2>1
      <3> QED BY <2>1, <3>1, <3>2, FS_Subset
    <2>3. Min(naming) \in naming
      BY <1>1, <2>2, LeastExists DEF Min
    <2>4. \A h, values : Named(h, values) # {} => values[1] \in Addresses
      BY DEF Named
    <2> QED BY <2>3, <2>4 DEF GetClientIP
  <1>2. CASE naming = {}
    BY <1>2 DEF GetClientIP
  <1> QED BY <1>1, <1>2

LEMMA KeysOfRequests ==
  ASSUME TypeOK, NEW q \in DOMAIN kind, NEW l \in Limiters
  PROVE  /\ q \in Requests /\ <<q, l>> \in Calls
         /\ KeyOf(l, q) \in Keys /\ kind[q].server \in Servers
  <1>1. kind \in Seq(Kind) /\ Len(kind) <= MaxRequests
    BY LoadsAssumption DEF TypeOK
  <1>2. q \in 1..Len(kind) /\ kind[q] \in Kind
    BY <1>1
  <1>3. kind[q].peer \in Addresses /\ kind[q].server \in Servers
    BY <1>2 DEF Kind
  <1> QED BY <1>1, <1>2, <1>3, ClientIsAddress, RequestsAssumption DEF KeyOf, Keys, Calls, Requests

-----------------------------------------------------------------------------
(* What the steps do.                                                      *)

HasSpace(c, es) == Cardinality(W!Live(es, call[c].at)) < Limit[call[c].key]

\* A running call goes on to r: with the same key and reading, and with an answer
\* when it is done.
GoesOn(c, r) ==
  /\ Running(c)
  /\ call' = [call EXCEPT ![c] = r]
  /\ r \in W!Call
  /\ r.key = call[c].key /\ r.at = call[c].at
  /\ \/ /\ r.pc \in {"sent", "got"}
        /\ r.began = call[c].began /\ r.answer = "none" /\ r.resetAt = Null
     \/ r.pc = "done" /\ r.answer \in {"allowed", "refused", "error"}
  /\ UNCHANGED <<backend, now, kind>>

\* It counts: it puts its entry to the others that are in its window.
Counts(c, r) ==
  /\ GoesOn(c, r)
  /\ r.pc # "got" /\ r.seen = {} /\ r.resetAt = Null /\ r.answer # "refused"
  /\ r.when = IF call[c].when = Null THEN now ELSE call[c].when
  /\ LET k == call[c].key IN
       /\ HasSpace(c, entries[k])
       /\ entries' = [entries EXCEPT ![k] = W!Live(@, call[c].at) \cup {W!Member(c)}]
       /\ \E until \in {now + Window, call[c].at + 2 * Window} :
            expiry' = [expiry EXCEPT ![k] = until]

\* It only removes what is not in its window.
Prunes(c, r) ==
  /\ GoesOn(c, r)
  /\ r.pc # "got" /\ r.seen = {} /\ r.resetAt = Null /\ r.answer # "allowed"
  /\ r.when = call[c].when
  /\ r.answer = "refused" => backend = "redis" /\ ~HasSpace(c, entries[call[c].key])
  /\ entries' = [entries EXCEPT ![call[c].key] = W!Live(@, call[c].at)]
  /\ expiry' = expiry

\* It leaves the store alone: it reads, or gives up for now or for good, or is
\* refused by what it has read.
Looks(c, r) ==
  /\ GoesOn(c, r)
  /\ r.when = call[c].when /\ r.answer # "allowed"
  /\ \/ r.pc = "got" /\ r.seen = entries[call[c].key]
     \/ r.pc # "got" /\ r.seen = {} /\ r.resetAt = Null /\ r.answer # "refused"
     \/ /\ backend = "firestore" /\ r.answer = "refused" /\ r.pc = "done"
        /\ r.seen = call[c].seen /\ ~HasSpace(c, r.seen)
        /\ \E e \in r.seen : r.resetAt = e.at + Window
  /\ UNCHANGED <<entries, expiry>>

\* The fields that Done, Counted and Again change.
LEMMA DoneFields ==
  ASSUME NEW r \in W!Call, NEW a \in {"allowed", "refused", "error"}
  PROVE  LET d == W!Done(r, a) IN
           /\ d \in W!Call /\ d.pc = "done" /\ d.answer = a
           /\ d.key = r.key /\ d.at = r.at /\ d.seen = r.seen /\ d.when = r.when
           /\ d.resetAt = r.resetAt
  <1>1. 0 \in 0..MaxTries
    BY LimitsAre
  <1>2. a \in {"none", "allowed", "refused", "error"}
    OBVIOUS
  <1> DEFINE q == [r EXCEPT !.pc = "done", !.began = 0]
  <1>3. W!Done(r, a) = [q EXCEPT !.tries = 0, !.answer = a]
    BY DEF W!Done
  <1>4. /\ q \in W!Call /\ q.pc = "done" /\ q.key = r.key /\ q.at = r.at /\ q.seen = r.seen
        /\ q.when = r.when /\ q.resetAt = r.resetAt
    BY DEF W!Call
  <1> HIDE DEF q, W!Done
  <1> QED BY <1>1, <1>2, <1>3, <1>4 DEF W!Call

LEMMA CountedFields ==
  ASSUME TypeOK, NEW c \in Calls
  PROVE  LET d == W!Counted(c) IN
           /\ d \in W!Call
           /\ d.when = IF call[c].when = Null THEN now ELSE call[c].when
           /\ d.pc = call[c].pc /\ d.key = call[c].key /\ d.at = call[c].at /\ d.seen = call[c].seen
           /\ d.began = call[c].began /\ d.answer = call[c].answer /\ d.resetAt = call[c].resetAt
  BY DEF TypeOK, W!TypeOK, W!Call, W!Counted

LEMMA AgainFields ==
  ASSUME NEW r \in W!Call
  PROVE  LET d == W!Again(r) IN
           /\ d \in W!Call /\ d.key = r.key /\ d.at = r.at /\ d.seen = {} /\ d.when = r.when
           /\ d.resetAt = r.resetAt
           /\ \/ d.pc = "sent" /\ d.began = r.began /\ d.answer = r.answer
              \/ d.pc = "done" /\ d.answer = "error"
  <1>1. CASE r.tries < MaxTries
    <2>1. MaxTries \in Nat
      BY LimitsAre
    <2>2. W!Again(r) = [r EXCEPT !.pc = "sent", !.tries = @ + 1, !.seen = {}]
      BY <1>1 DEF W!Again
    <2>3. r.tries + 1 \in 0..MaxTries
      BY <1>1, <2>1 DEF W!Call
    <2> QED BY <2>2, <2>3 DEF W!Call
  <1>2. CASE ~(r.tries < MaxTries)
    <2>1. [r EXCEPT !.seen = {}] \in W!Call
      BY DEF W!Call
    <2>2. W!Again(r) = W!Done([r EXCEPT !.seen = {}], "error")
      BY <1>2 DEF W!Again
    <2>3. /\ [r EXCEPT !.seen = {}].key = r.key /\ [r EXCEPT !.seen = {}].at = r.at
          /\ [r EXCEPT !.seen = {}].seen = {} /\ [r EXCEPT !.seen = {}].when = r.when
          /\ [r EXCEPT !.seen = {}].resetAt = r.resetAt
      BY DEF W!Call
    <2> DEFINE q == [r EXCEPT !.seen = {}]
    <2>4. "error" \in {"allowed", "refused", "error"}
      OBVIOUS
    <2> HIDE DEF q
    <2>5. /\ W!Done(q, "error") \in W!Call /\ W!Done(q, "error").pc = "done"
          /\ W!Done(q, "error").answer = "error" /\ W!Done(q, "error").key = q.key
          /\ W!Done(q, "error").at = q.at /\ W!Done(q, "error").seen = q.seen
          /\ W!Done(q, "error").when = q.when /\ W!Done(q, "error").resetAt = q.resetAt
      BY <2>1, <2>4, DoneFields DEF q
    <2> QED BY <2>2, <2>3, <2>5 DEF q
  <1> QED BY <1>1, <1>2

LEMMA LiveTwice ==
  ASSUME NEW es, NEW t
  PROVE  W!Live(W!Live(es, t), t) = W!Live(es, t)
  BY DEF W!Live

\* A step of a call's own is one of the three.
LEMMA CheckMoves ==
  ASSUME TypeOK, CallsMade, Sized, NEW c \in Calls, W!CheckRateLimit(c), UNCHANGED kind
  PROVE  \E r : Counts(c, r) \/ Prunes(c, r) \/ Looks(c, r)
  <1> DEFINE k == call[c].key
             t == call[c].at
             seenless == [call[c] EXCEPT !.seen = {}]
  <1> USE LimitsAre
  <1>1. /\ call[c] \in W!Call /\ call \in [Calls -> W!Call]
        /\ entries \in [Keys -> SUBSET W!Entry] /\ expiry \in [Keys -> Nat]
    BY DEF TypeOK, W!TypeOK
  <1>2. \A es : W!HasRoom(c, es) <=> HasSpace(c, es)
    BY SameOperators DEF W!HasRoom, HasSpace
  <1>3. \A es : HasSpace(c, W!Live(es, t)) <=> HasSpace(c, es)
    BY LiveTwice DEF HasSpace
  <1>4. /\ seenless \in W!Call /\ seenless.key = k /\ seenless.at = t /\ seenless.seen = {}
        /\ seenless.when = call[c].when /\ seenless.resetAt = call[c].resetAt
    BY <1>1 DEF W!Call
  <1>5. Running(c) => call[c].answer = "none" /\ call[c].resetAt = Null /\ k \in Keys
    <2>1. Running(c) => k = KeyOf(c[2], c[1]) /\ c[1] \in DOMAIN kind
      BY DEF CallsMade, Running
    <2>2. c[2] \in Limiters
      BY DEF Calls
    <2> QED BY <2>1, <2>2, KeysOfRequests DEF CallsMade
  <1>6. call[c].pc = "sent" => call[c].seen = {}
    BY DEF CallsMade
  <1>7. ASSUME W!RunScript(c) PROVE \E r : Counts(c, r) \/ Prunes(c, r)
    <2>1. backend = "redis" /\ call[c].pc = "sent" /\ Running(c) /\ UNCHANGED <<backend, now, kind>>
      BY <1>7 DEF W!RunScript, Running
    <2>2. CASE HasSpace(c, entries[k])
      <3> DEFINE r == W!Done(W!Counted(c), "allowed")
      <3>1. /\ entries' = [entries EXCEPT ![k] = W!Live(@, t) \cup {W!Member(c)}]
            /\ expiry' = [expiry EXCEPT ![k] = now + Window]
        BY <1>2, <1>3, <1>7, <2>2 DEF W!RunScript, W!Script
      <3>2. call' = [call EXCEPT ![c] = r]
        BY <1>2, <1>7, <2>2 DEF W!RunScript
      <3>3. /\ r \in W!Call /\ r.pc = "done" /\ r.answer = "allowed"
            /\ r.key = k /\ r.at = t /\ r.seen = call[c].seen /\ r.resetAt = call[c].resetAt
            /\ r.when = IF call[c].when = Null THEN now ELSE call[c].when
        BY CountedFields, DoneFields
      <3> HIDE DEF r
      <3> QED BY <1>5, <1>6, <2>1, <2>2, <3>1, <3>2, <3>3 DEF Counts, GoesOn
    <2>3. CASE ~HasSpace(c, entries[k])
      <3> DEFINE r == W!Done(call[c], "refused")
      <3>1. entries' = [entries EXCEPT ![k] = W!Live(@, t)] /\ expiry' = expiry
        BY <1>1, <1>2, <1>3, <1>7, <2>3 DEF W!RunScript, W!Script
      <3>2. call' = [call EXCEPT ![c] = r]
        BY <1>2, <1>7, <2>3 DEF W!RunScript
      <3>3. /\ r \in W!Call /\ r.pc = "done" /\ r.answer = "refused"
            /\ r.key = k /\ r.at = t /\ r.seen = call[c].seen /\ r.resetAt = call[c].resetAt
            /\ r.when = call[c].when
        BY <1>1, DoneFields
      <3> HIDE DEF r
      <3> QED BY <1>5, <1>6, <2>1, <2>3, <3>1, <3>2, <3>3 DEF Prunes, GoesOn
    <2> QED BY <2>2, <2>3
  <1>8. ASSUME W!RunScriptLost(c) PROVE \E r : Counts(c, r) \/ Prunes(c, r)
    <2>1. backend = "redis" /\ call[c].pc = "sent" /\ Running(c) /\ UNCHANGED <<backend, now, kind>>
      BY <1>8 DEF W!RunScriptLost, Running
    <2>2. CASE HasSpace(c, entries[k])
      <3> DEFINE r == W!Again(W!Counted(c))
      <3>1. /\ entries' = [entries EXCEPT ![k] = W!Live(@, t) \cup {W!Member(c)}]
            /\ expiry' = [expiry EXCEPT ![k] = now + Window]
        BY <1>2, <1>3, <1>8, <2>2 DEF W!RunScriptLost, W!Script
      <3>2. call' = [call EXCEPT ![c] = r]
        BY <1>2, <1>8, <2>2 DEF W!RunScriptLost
      <3>3. /\ r \in W!Call /\ r.key = k /\ r.at = t /\ r.seen = {} /\ r.resetAt = call[c].resetAt
            /\ r.when = IF call[c].when = Null THEN now ELSE call[c].when
            /\ \/ r.pc = "sent" /\ r.began = call[c].began /\ r.answer = call[c].answer
               \/ r.pc = "done" /\ r.answer = "error"
        BY CountedFields, AgainFields
      <3> HIDE DEF r
      <3> QED BY <1>5, <1>6, <2>1, <2>2, <3>1, <3>2, <3>3 DEF Counts, GoesOn
    <2>3. CASE ~HasSpace(c, entries[k])
      <3> DEFINE r == W!Again(call[c])
      <3>1. entries' = [entries EXCEPT ![k] = W!Live(@, t)] /\ expiry' = expiry
        BY <1>1, <1>2, <1>3, <1>8, <2>3 DEF W!RunScriptLost, W!Script
      <3>2. call' = [call EXCEPT ![c] = r]
        BY <1>2, <1>8, <2>3 DEF W!RunScriptLost
      <3>3. /\ r \in W!Call /\ r.key = k /\ r.at = t /\ r.seen = {} /\ r.resetAt = call[c].resetAt
            /\ r.when = call[c].when
            /\ \/ r.pc = "sent" /\ r.began = call[c].began /\ r.answer = call[c].answer
               \/ r.pc = "done" /\ r.answer = "error"
        BY <1>1, AgainFields
      <3> HIDE DEF r
      <3> QED BY <1>5, <1>6, <2>1, <2>3, <3>1, <3>2, <3>3 DEF Prunes, GoesOn
    <2> QED BY <2>2, <2>3
  <1>9. ASSUME W!CommandFails(c) \/ W!TxAborted(c) PROVE \E r : Looks(c, r)
    <2> DEFINE r == W!Again(call[c])
    <2>1. /\ Running(c) /\ UNCHANGED <<backend, now, kind, entries, expiry>>
          /\ call' = [call EXCEPT ![c] = r]
      BY <1>9 DEF W!CommandFails, W!TxAborted, Running
    <2>2. /\ r \in W!Call /\ r.key = k /\ r.at = t /\ r.seen = {} /\ r.resetAt = call[c].resetAt
          /\ r.when = call[c].when
          /\ \/ r.pc = "sent" /\ r.began = call[c].began /\ r.answer = call[c].answer
             \/ r.pc = "done" /\ r.answer = "error"
      BY <1>1, AgainFields
    <2> HIDE DEF r
    <2> QED BY <1>5, <2>1, <2>2 DEF Looks, GoesOn
  <1>10. ASSUME W!TxGet(c) PROVE \E r : Looks(c, r)
    <2> DEFINE r == [call[c] EXCEPT !.pc = "got", !.seen = entries[k]]
    <2>1. /\ Running(c) /\ UNCHANGED <<backend, now, kind, entries, expiry>>
          /\ call' = [call EXCEPT ![c] = r]
      BY <1>10 DEF W!TxGet, Running
    <2>2. entries[k] \subseteq W!Entry
      BY <1>1, <1>5, <2>1
    <2>3. /\ r \in W!Call /\ r.key = k /\ r.at = t /\ r.seen = entries[k] /\ r.when = call[c].when
          /\ r.pc = "got" /\ r.began = call[c].began /\ r.answer = call[c].answer
          /\ r.resetAt = call[c].resetAt
      BY <1>1, <2>2 DEF W!Call
    <2> HIDE DEF r
    <2> QED BY <1>5, <2>1, <2>3 DEF Looks, GoesOn
  <1>11. ASSUME W!TxFails(c) PROVE \E r : Looks(c, r)
    <2> DEFINE r == W!Done(seenless, "error")
    <2>1. /\ Running(c) /\ UNCHANGED <<backend, now, kind, entries, expiry>>
          /\ call' = [call EXCEPT ![c] = r]
      BY <1>11 DEF W!TxFails, Running
    <2> HIDE DEF seenless
    <2>2. /\ r \in W!Call /\ r.pc = "done" /\ r.answer = "error"
          /\ r.key = k /\ r.at = t /\ r.seen = {} /\ r.resetAt = call[c].resetAt
          /\ r.when = call[c].when
      BY <1>4, DoneFields
    <2> HIDE DEF r
    <2> QED BY <1>5, <2>1, <2>2 DEF Looks, GoesOn
  <1>12. ASSUME W!TxCommit(c) \/ W!TxCommitLost(c) PROVE \E r : Counts(c, r)
    <2> DEFINE counted == [W!Counted(c) EXCEPT !.seen = {}]
    <2>1. PICK a \in {"allowed", "error"} : call' = [call EXCEPT ![c] = W!Done(counted, a)]
      BY <1>12 DEF W!TxCommit, W!TxCommitLost
    <2> DEFINE r == W!Done(counted, a)
    <2>2. Running(c) /\ W!TxApplied(c) /\ UNCHANGED <<backend, now, kind>>
      BY <1>12 DEF W!TxCommit, W!TxCommitLost, W!TxApplied, Running
    <2>3. /\ HasSpace(c, entries[k])
          /\ entries' = [entries EXCEPT ![k] = W!Live(@, t) \cup {W!Member(c)}]
          /\ expiry' = [expiry EXCEPT ![k] = t + 2 * Window]
      BY <1>2, <2>2 DEF W!TxApplied, W!SetDocument
    <2>4. /\ counted \in W!Call /\ counted.key = k /\ counted.at = t /\ counted.seen = {}
          /\ counted.when = IF call[c].when = Null THEN now ELSE call[c].when
          /\ counted.resetAt = call[c].resetAt
      <3>1. /\ W!Counted(c) \in W!Call /\ W!Counted(c).key = k /\ W!Counted(c).at = t
            /\ W!Counted(c).when = IF call[c].when = Null THEN now ELSE call[c].when
            /\ W!Counted(c).resetAt = call[c].resetAt
        BY CountedFields
      <3> QED BY <3>1 DEF W!Call
    <2> HIDE DEF counted
    <2>5. /\ r \in W!Call /\ r.pc = "done" /\ r.answer = a
          /\ r.key = k /\ r.at = t /\ r.seen = {} /\ r.resetAt = call[c].resetAt
          /\ r.when = IF call[c].when = Null THEN now ELSE call[c].when
      BY <2>4, DoneFields
    <2>6. call' = [call EXCEPT ![c] = r]
      BY <2>1
    <2> HIDE DEF r
    <2> QED BY <1>5, <2>2, <2>3, <2>5, <2>6 DEF Counts, GoesOn
  <1>13. ASSUME W!TxRefuse(c) PROVE \E r : Looks(c, r)
    <2> DEFINE S == {e.at : e \in W!Live(call[c].seen, t)}
               done == W!Done(call[c], "refused")
               r == [done EXCEPT !.resetAt = Min(S) + Window]
    <2>1. /\ Running(c) /\ backend = "firestore" /\ ~HasSpace(c, call[c].seen)
          /\ UNCHANGED <<backend, now, kind, entries, expiry>>
      BY <1>2, <1>13 DEF W!TxRefuse, Running
    <2>2. call' = [call EXCEPT ![c] = r]
      BY <1>13, SameOperators DEF W!TxRefuse
    <2>3. /\ W!Live(call[c].seen, t) \in SUBSET call[c].seen
          /\ IsFiniteSet(call[c].seen) /\ call[c].seen \subseteq W!Entry
      BY <1>1, <2>1 DEF W!Live, W!Call, Sized, Running
    <2>4. S \subseteq Int /\ IsFiniteSet(S)
      <3>1. IsFiniteSet(W!Live(call[c].seen, t))
        BY <2>3, FS_Subset
      <3> DEFINE live == W!Live(call[c].seen, t)
                 f == [e \in live |-> e.at]
      <3>2. DOMAIN f = live /\ \A x \in S : \E e \in live : f[e] = x
        OBVIOUS
      <3>3. IsFiniteSet(S)
        <4> HIDE DEF f, S
        <4> QED BY <3>1, <3>2, CoveredIsSmaller
      <3> QED BY <2>3, <3>3 DEF W!Entry
    <2>5. S # {}
      <3>1. ASSUME W!Live(call[c].seen, t) = {} PROVE FALSE
        <4>1. Cardinality(W!Live(call[c].seen, t)) = 0
          BY <3>1, FS_EmptySet
        <4>2. Limit[k] \in Nat \ {0}
          BY <1>5, <2>1
        <4> QED BY <2>1, <4>1, <4>2 DEF HasSpace
      <3>2. \A e \in W!Live(call[c].seen, t) : e.at \in S
        OBVIOUS
      <3> QED BY <3>1, <3>2
    <2>6. Min(S) \in S
      BY <2>4, <2>5, LeastExists DEF Min
    <2>7. \E e \in call[c].seen : Min(S) = e.at
      BY <2>3, <2>6
    <2>8. Min(S) + Window \in Int
      BY <2>4, <2>6
    <2> HIDE DEF S
    <2>9. /\ done \in W!Call /\ done.pc = "done" /\ done.answer = "refused"
          /\ done.key = k /\ done.at = t /\ done.seen = call[c].seen
          /\ done.when = call[c].when
      BY <1>1, DoneFields
    <2> HIDE DEF done
    <2>10. /\ r \in W!Call /\ r.pc = "done" /\ r.answer = "refused"
           /\ r.key = k /\ r.at = t /\ r.seen = call[c].seen
           /\ r.when = call[c].when /\ r.resetAt = Min(S) + Window
      BY <2>8, <2>9 DEF W!Call
    <2> HIDE DEF r
    <2> QED BY <2>1, <2>2, <2>7, <2>10 DEF Looks, GoesOn
  <1> QED BY <1>7, <1>8, <1>9, <1>10, <1>11, <1>12, <1>13 DEF W!CheckRateLimit

\* A middleware asks: a call begins, for the client's key, at the request's server.
Begins(c, s) ==
  /\ call[c].pc = "idle" /\ c[1] \in DOMAIN kind
  /\ call' = [call EXCEPT ![c] = [W!NoCall EXCEPT !.pc = "sent", !.key = KeyOf(c[2], c[1]),
                                                  !.began = now, !.at = now + Offset[s]]]
  /\ UNCHANGED <<backend, now, entries, expiry, kind>>

\* Nothing else happens.
LEMMA Moves ==
  ASSUME TypeOK, CallsMade, Sized, [Next]_vars
  PROVE  /\ UNCHANGED <<backend, kind>>
         /\ \/ \E c \in Calls, s \in Servers : Begins(c, s)
            \/ \E c \in Calls : \E r : Counts(c, r) \/ Prunes(c, r) \/ Looks(c, r)
            \/ \E k \in Keys : W!Expire(k)
            \/ W!Tick
            \/ UNCHANGED vars
  <1>1. ASSUME NEW q \in DOMAIN kind, NEW l \in Limiters, Ask(q, l), UNCHANGED kind
        PROVE  /\ UNCHANGED backend
               /\ \E c \in Calls, s \in Servers : Begins(c, s)
    <2> DEFINE c == <<q, l>>
               s == kind[q].server
    <2>1. c \in Calls /\ s \in Servers /\ c[1] = q /\ c[2] = l
      BY KeysOfRequests
    <2>2. W!CheckStart(c, KeyOf(c[2], c[1]), s)
      BY <1>1 DEF Ask
    <2>3. UNCHANGED backend /\ Begins(c, s)
      <3> HIDE DEF c, s
      <3> QED BY <1>1, <2>1, <2>2 DEF W!CheckStart, Begins
    <2> QED BY <2>1, <2>3
  <1>2. ASSUME NEW q \in DOMAIN kind, Arrive(q) PROVE Ask(q, "global") /\ UNCHANGED kind
    BY <1>2 DEF Arrive
  <1>3. ASSUME NEW q \in DOMAIN kind, EnterRoute(q) PROVE Ask(q, "action") /\ UNCHANGED kind
    BY <1>3 DEF EnterRoute
  <1>4. "global" \in Limiters /\ "action" \in Limiters
    BY DEF Limiters
  <1>5. ASSUME NEW q \in DOMAIN kind, Check(q)
        PROVE  /\ UNCHANGED <<backend, kind>>
               /\ \E c \in Calls : \E r : Counts(c, r) \/ Prunes(c, r) \/ Looks(c, r)
    <2>1. PICK l \in Limiters : W!CheckRateLimit(<<q, l>>)
      BY <1>5 DEF Check
    <2>2. UNCHANGED kind
      BY <1>5 DEF Check
    <2>3. <<q, l>> \in Calls
      BY KeysOfRequests
    <2>4. PICK r : Counts(<<q, l>>, r) \/ Prunes(<<q, l>>, r) \/ Looks(<<q, l>>, r)
      BY <2>1, <2>2, <2>3, CheckMoves
    <2>5. UNCHANGED backend
      BY <2>4 DEF Counts, Prunes, Looks, GoesOn
    <2> QED BY <2>2, <2>3, <2>4, <2>5
  <1>6. ASSUME Environment
        PROVE  UNCHANGED <<backend, kind>> /\ (W!Tick \/ \E k \in Keys : W!Expire(k))
    BY <1>6 DEF Environment, W!Environment, W!Tick, W!Expire
  <1>7. CASE Next
    <2>1. CASE \E q \in DOMAIN kind : Arrive(q)
      BY <1>1, <1>2, <1>4, <2>1
    <2>2. CASE \E q \in DOMAIN kind : EnterRoute(q)
      BY <1>1, <1>3, <1>4, <2>2
    <2>3. CASE \E q \in DOMAIN kind : Check(q)
      BY <1>5, <2>3
    <2>4. CASE Environment
      BY <1>6, <2>4
    <2> QED BY <1>7, <2>1, <2>2, <2>3, <2>4 DEF Next, Serve
  <1>8. CASE UNCHANGED vars
    BY <1>8 DEF vars
  <1> QED BY <1>7, <1>8

\* A call that is running or done is of a request that has arrived, of a server.
LEMMA CallersAre ==
  ASSUME TypeOK, CallsMade, NEW c \in Calls, call[c].pc # "idle"
  PROVE  /\ call[c].key \in Keys
         /\ Spread \in Nat /\ \A s \in Servers : MaxLag + Offset[s] <= Spread
  <1>1. call[c].key = KeyOf(c[2], c[1]) /\ c[1] \in DOMAIN kind /\ c[2] \in Limiters
    BY DEF CallsMade, Calls
  <1>2. call[c].key \in Keys /\ kind[c[1]].server \in Servers
    BY <1>1, KeysOfRequests
  <1> QED BY <1>2, SpreadCovers

LEMMA CountedRan ==
  ASSUME TypeOK, CallsMade, NEW c \in Calls, Counted(c)
  PROVE  call[c].pc # "idle" /\ call[c].when \in Nat
  BY DEF CallsMade, Counted, W!NoCall, TypeOK, W!TypeOK, W!Call

\* What becomes of a call: its key, its reading and the time it counted stay, and
\* it counts once, now.
LEMMA CallsStay ==
  ASSUME TypeOK, CallsMade, Sized, [Next]_vars, NEW d \in Calls
  PROVE  /\ now' = now \/ now' = now + 1
         /\ call[d].pc # "idle" =>
              call'[d].pc # "idle" /\ call'[d].key = call[d].key /\ call'[d].at = call[d].at
         /\ Counted(d) => call'[d].when = call[d].when
         /\ ~Counted(d) /\ Counted(d)' =>
              Running(d) /\ now' = now /\ call'[d].when = now
  <1>1. call \in [Calls -> W!Call]
    BY DEF TypeOK, W!TypeOK
  <1>2. Counted(d) => call[d].pc # "idle"
    BY CountedRan
  <1>3. ASSUME NEW c \in Calls, NEW s \in Servers, Begins(c, s)
        PROVE  now' = now /\ (d = c => call[d].pc = "idle" /\ call'[d].when = Null)
                          /\ (d # c => call'[d] = call[d])
    BY <1>1, <1>3 DEF Begins, W!NoCall
  <1>4. ASSUME NEW c \in Calls, NEW r, Counts(c, r) \/ Prunes(c, r) \/ Looks(c, r)
        PROVE  /\ now' = now
               /\ d = c => /\ Running(d) /\ call'[d].pc # "idle"
                           /\ call'[d].key = call[d].key /\ call'[d].at = call[d].at
                           /\ call'[d].when = call[d].when \/ (call[d].when = Null /\ call'[d].when = now)
               /\ d # c => call'[d] = call[d]
    <2>1. GoesOn(c, r) /\ (r.when = call[c].when \/ (call[c].when = Null /\ r.when = now))
      BY <1>4 DEF Counts, Prunes, Looks
    <2>2. call' = [call EXCEPT ![c] = r] /\ Running(c) /\ now' = now
      BY <2>1 DEF GoesOn
    <2>3. r.pc # "idle" /\ r.key = call[c].key /\ r.at = call[c].at
      BY <2>1 DEF GoesOn
    <2> QED BY <1>1, <2>1, <2>2, <2>3
  <1>5. ASSUME W!Tick \/ (\E k \in Keys : W!Expire(k)) \/ UNCHANGED vars
        PROVE  call' = call /\ (now' = now \/ now' = now + 1)
    BY <1>5 DEF W!Tick, W!Expire, vars
  <1>6. CASE \E c \in Calls, s \in Servers : Begins(c, s)
    BY <1>2, <1>3, <1>6 DEF Counted
  <1>7. CASE \E c \in Calls : \E r : Counts(c, r) \/ Prunes(c, r) \/ Looks(c, r)
    <2>1. PICK c \in Calls : \E r : Counts(c, r) \/ Prunes(c, r) \/ Looks(c, r)
      BY <1>7
    <2>2. PICK r : Counts(c, r) \/ Prunes(c, r) \/ Looks(c, r)
      BY <2>1
    <2> QED BY <1>4, <2>2 DEF Counted
  <1>8. CASE W!Tick \/ (\E k \in Keys : W!Expire(k)) \/ UNCHANGED vars
    BY <1>5, <1>8 DEF Counted
  <1> QED BY <1>6, <1>7, <1>8, Moves

-----------------------------------------------------------------------------
(* Every step keeps the invariant, part by part.                           *)

\* A running call's clock is ahead of the true time when it read it.
LEMMA RunningRead ==
  ASSUME TypeOK, CallsMade, CallsOnTime, NEW c \in Calls, Running(c)
  PROVE  /\ call[c].key \in Keys /\ call[c].at \in Nat /\ Spread \in Nat
         /\ now <= call[c].at + MaxLag
         /\ call[c].at <= now + Spread - MaxLag
  <1>1. call[c].pc # "idle" /\ call[c].began \in Nat /\ now \in Nat
    BY DEF Running, TypeOK, W!TypeOK, W!Call
  <1>2. PICK s \in Servers : call[c].at = call[c].began + Offset[s]
    BY DEF CallsOnTime
  <1>3. call[c].key \in Keys /\ Spread \in Nat /\ MaxLag + Offset[s] <= Spread
    BY <1>1, CallersAre
  <1>4. Offset[s] \in Nat /\ MaxLag \in Nat
    BY LimitsAre
  <1>5. call[c].began <= now /\ now <= call[c].began + MaxLag
    BY DEF CallsOnTime
  <1> QED BY <1>1, <1>2, <1>3, <1>4, <1>5

LEMMA TypeStep ==
  ASSUME TypeOK, CallsMade, CallsOnTime, Sized, [Next]_vars
  PROVE  TypeOK'
  <1> USE LimitsAre
  <1>1. /\ backend' \in Backends /\ kind' \in Loads
    BY Moves DEF TypeOK, W!TypeOK
  <1>2. /\ now \in Nat /\ entries \in [Keys -> SUBSET W!Entry] /\ expiry \in [Keys -> Nat]
        /\ call \in [Calls -> W!Call] /\ backend \in Backends
    BY DEF TypeOK, W!TypeOK
  <1> DEFINE Good == /\ now' \in Nat /\ entries' \in [Keys -> SUBSET W!Entry]
                     /\ expiry' \in [Keys -> Nat] /\ call' \in [Calls -> W!Call]
  <1>3. ASSUME NEW c \in Calls, NEW s \in Servers, Begins(c, s) PROVE Good
    <2>1. KeyOf(c[2], c[1]) \in Keys
      <3>1. c[1] \in DOMAIN kind /\ c[2] \in Limiters
        BY <1>3 DEF Begins, Calls
      <3> QED BY <3>1, KeysOfRequests
    <2> DEFINE k == KeyOf(c[2], c[1])
               r == [W!NoCall EXCEPT !.pc = "sent", !.key = k, !.began = now, !.at = now + Offset[s]]
    <2>2. call' = [call EXCEPT ![c] = r] /\ now' = now /\ entries' = entries /\ expiry' = expiry
      BY <1>3 DEF Begins
    <2> HIDE DEF k
    <2> DEFINE n == [W!NoCall EXCEPT !.pc = "sent", !.key = k]
    <2>3. 0 \in 0..MaxTries /\ now + Offset[s] \in Int /\ k \in Keys
      BY <1>2, <2>1 DEF k
    <2>4. n \in W!Call
      <3>1. W!NoCall \in W!Call
        BY <2>3 DEF W!NoCall, W!Call
      <3> HIDE DEF W!NoCall
      <3> QED BY <2>3, <3>1 DEF W!Call
    <2>5. r = [n EXCEPT !.began = now, !.at = now + Offset[s]]
      OBVIOUS
    <2>6. r \in W!Call
      <3> HIDE DEF n, r
      <3> QED BY <1>2, <2>3, <2>4, <2>5 DEF W!Call
    <2> HIDE DEF r
    <2> QED BY <1>2, <2>2, <2>6
  <1>4. ASSUME NEW c \in Calls, NEW r, GoesOn(c, r) PROVE call' \in [Calls -> W!Call] /\ now' \in Nat
    BY <1>2, <1>4 DEF GoesOn
  <1>5. ASSUME NEW c \in Calls, NEW r, Counts(c, r) PROVE Good
    <2>1. GoesOn(c, r) /\ Running(c)
      BY <1>5 DEF Counts, GoesOn
    <2>2. call[c].key \in Keys /\ call[c].at \in Nat
      BY <2>1, RunningRead
    <2>3. W!Member(c) \in W!Entry
      BY <2>2 DEF W!Member, W!Entry
    <2>4. \A es \in SUBSET W!Entry : W!Live(es, call[c].at) \subseteq W!Entry
      BY DEF W!Live
    <2>5. entries' \in [Keys -> SUBSET W!Entry]
      BY <1>2, <1>5, <2>2, <2>3, <2>4 DEF Counts
    <2>6. expiry' \in [Keys -> Nat]
      <3>1. PICK until \in {now + Window, call[c].at + 2 * Window} :
              expiry' = [expiry EXCEPT ![call[c].key] = until]
        BY <1>5 DEF Counts
      <3>2. until \in Nat
        BY <1>2, <2>2
      <3> QED BY <1>2, <2>2, <3>1, <3>2
    <2> QED BY <1>4, <2>1, <2>5, <2>6
  <1>6. ASSUME NEW c \in Calls, NEW r, Prunes(c, r) PROVE Good
    <2>1. GoesOn(c, r) /\ expiry' = expiry
      BY <1>6 DEF Prunes
    <2>2. \A es \in SUBSET W!Entry : W!Live(es, call[c].at) \subseteq W!Entry
      BY DEF W!Live
    <2>3. entries' \in [Keys -> SUBSET W!Entry]
      BY <1>2, <1>6, <2>2 DEF Prunes
    <2> QED BY <1>2, <1>4, <2>1, <2>3
  <1>7. ASSUME NEW c \in Calls, NEW r, Looks(c, r) PROVE Good
    BY <1>2, <1>4, <1>7 DEF Looks
  <1>8. ASSUME NEW k \in Keys, W!Expire(k) PROVE Good
    BY <1>2, <1>8 DEF W!Expire
  <1>9. ASSUME W!Tick PROVE Good
    BY <1>2, <1>9 DEF W!Tick
  <1>10. ASSUME UNCHANGED vars PROVE Good
    BY <1>2, <1>10 DEF vars
  <1>11. Good
    BY <1>3, <1>5, <1>6, <1>7, <1>8, <1>9, <1>10, Moves
  <1> QED BY <1>1, <1>11 DEF TypeOK, W!TypeOK

LEMMA CallsMadeStep ==
  ASSUME TypeOK, CallsMade, CallsOnTime, Sized, [Next]_vars
  PROVE  CallsMade'
  <1>1. call \in [Calls -> W!Call] /\ now \in Nat /\ Null \notin Int
    BY LimitsAre DEF TypeOK, W!TypeOK
  <1>2. kind' = kind /\ \A l, q : KeyOf(l, q)' = KeyOf(l, q)
    BY Moves DEF KeyOf
  <1> DEFINE Made(c) ==
               /\ call[c].pc = "idle" => call[c] = W!NoCall
               /\ call[c].pc # "idle" => c[1] \in DOMAIN kind /\ call[c].key = KeyOf(c[2], c[1])
               /\ Running(c) => call[c].answer = "none" /\ call[c].resetAt = Null
               /\ call[c].pc = "sent" => call[c].seen = {}
               /\ call[c].answer = "allowed" => Counted(c)
  <1>3. \A c \in Calls : Made(c)
    BY DEF CallsMade
  <1>4. ASSUME NEW d \in Calls, call'[d] = call[d] PROVE Made(d)'
    BY <1>2, <1>3, <1>4 DEF Running, Counted
  <1>5. ASSUME NEW c \in Calls, NEW s \in Servers, Begins(c, s) PROVE Made(c)'
    <2> DEFINE r == [W!NoCall EXCEPT !.pc = "sent", !.key = KeyOf(c[2], c[1]),
                                     !.began = now, !.at = now + Offset[s]]
    <2>1. call'[c] = r
      BY <1>1, <1>5 DEF Begins
    <2>2. /\ r.pc = "sent" /\ r.key = KeyOf(c[2], c[1]) /\ r.answer = "none" /\ r.resetAt = Null
          /\ r.seen = {}
      BY DEF W!NoCall
    <2>3. c[1] \in DOMAIN kind
      BY <1>5 DEF Begins
    <2> HIDE DEF r
    <2> QED BY <1>2, <2>1, <2>2, <2>3 DEF Running, Counted
  <1>6. ASSUME NEW c \in Calls, NEW r, Counts(c, r) \/ Prunes(c, r) \/ Looks(c, r) PROVE Made(c)'
    <2>1. GoesOn(c, r)
      BY <1>6 DEF Counts, Prunes, Looks
    <2>2. /\ r.pc \in {"sent", "got"} => r.answer = "none" /\ r.resetAt = Null
          /\ r.pc \in {"sent", "got", "done"} /\ r.key = call[c].key /\ Running(c)
      BY <2>1 DEF GoesOn
    <2>3. call'[c] = r
      BY <1>1, <2>1 DEF GoesOn
    <2>4. r.pc = "sent" => r.seen = {}
      BY <1>6 DEF Counts, Prunes, Looks
    <2>5. r.answer = "allowed" => r.when # Null
      BY <1>1, <1>6 DEF Counts, Prunes, Looks
    <2>6. c[1] \in DOMAIN kind /\ call[c].key = KeyOf(c[2], c[1])
      BY <1>3, <2>2 DEF Running
    <2> QED BY <1>2, <2>2, <2>3, <2>4, <2>5, <2>6 DEF Running, Counted
  <1>7. \A d \in Calls : Made(d)'
    <2>1. CASE \E c \in Calls, s \in Servers : Begins(c, s)
      <3>1. PICK c \in Calls, s \in Servers : Begins(c, s)
        BY <2>1
      <3>2. \A d \in Calls : d # c => call'[d] = call[d]
        BY <1>1, <3>1 DEF Begins
      <3> HIDE DEF Made
      <3> QED BY <1>4, <1>5, <3>1, <3>2
    <2>2. CASE \E c \in Calls : \E r : Counts(c, r) \/ Prunes(c, r) \/ Looks(c, r)
      <3>1. PICK c \in Calls : \E r : Counts(c, r) \/ Prunes(c, r) \/ Looks(c, r)
        BY <2>2
      <3>2. PICK r : Counts(c, r) \/ Prunes(c, r) \/ Looks(c, r)
        BY <3>1
      <3>3. GoesOn(c, r)
        BY <3>2 DEF Counts, Prunes, Looks
      <3>4. \A d \in Calls : d # c => call'[d] = call[d]
        BY <1>1, <3>3 DEF GoesOn
      <3> HIDE DEF Made
      <3> QED BY <1>4, <1>6, <3>2, <3>4
    <2>3. CASE W!Tick \/ (\E k \in Keys : W!Expire(k)) \/ UNCHANGED vars
      <3>1. call' = call
        BY <2>3 DEF W!Tick, W!Expire, vars
      <3> HIDE DEF Made
      <3> QED BY <1>4, <3>1
    <2> QED BY <2>1, <2>2, <2>3, Moves
  <1> QED BY <1>7 DEF CallsMade

LEMMA OnTimeStep ==
  ASSUME TypeOK, CallsMade, CallsOnTime, Sized, [Next]_vars
  PROVE  CallsOnTime'
  <1>1. call \in [Calls -> W!Call] /\ now \in Nat /\ MaxLag \in Nat
    BY LimitsAre DEF TypeOK, W!TypeOK
  <1> DEFINE OnTime(c) ==
               /\ Running(c) => /\ call[c].began <= now /\ now <= call[c].began + MaxLag
                                /\ \E s \in Servers : call[c].at = call[c].began + Offset[s]
               /\ Counted(c) => /\ call[c].when <= now
                                /\ call[c].when <= call[c].at + MaxLag
  <1>2. \A c \in Calls : OnTime(c)
    BY DEF CallsOnTime
  <1>3. ASSUME NEW d \in Calls, call'[d] = call[d], now' = now PROVE OnTime(d)'
    BY <1>2, <1>3 DEF Running, Counted
  <1>4. ASSUME NEW c \in Calls, NEW s \in Servers, Begins(c, s) PROVE OnTime(c)'
    <2>1. /\ call'[c].began = now /\ call'[c].at = now + Offset[s] /\ call'[c].when = Null
          /\ now' = now
      BY <1>1, <1>4 DEF Begins, W!NoCall
    <2> QED BY <1>1, <2>1 DEF Running, Counted
  <1>5. ASSUME NEW c \in Calls, NEW r, GoesOn(c, r),
               r.when = call[c].when \/ (call[c].when = Null /\ r.when = now)
        PROVE  OnTime(c)'
    <2>1. /\ Running(c) /\ call'[c] = r /\ now' = now /\ r.at = call[c].at
          /\ r.pc \in {"sent", "got"} => r.began = call[c].began
      BY <1>1, <1>5 DEF GoesOn
    <2>2. now <= call[c].at + MaxLag
      BY <2>1, RunningRead
    <2>3. Running(c)' => OnTime(c)!1!2'
      BY <1>2, <2>1 DEF Running
    <2>4. r.when # Null => r.when <= now /\ r.when <= r.at + MaxLag
      BY <1>1, <1>2, <1>5, <2>1, <2>2 DEF Counted
    <2> QED BY <1>2, <2>1, <2>3, <2>4 DEF Running, Counted
  <1>6. CASE \E c \in Calls, s \in Servers : Begins(c, s)
    <2>1. PICK c \in Calls, s \in Servers : Begins(c, s)
      BY <1>6
    <2>2. now' = now /\ \A d \in Calls : d # c => call'[d] = call[d]
      BY <1>1, <2>1 DEF Begins
    <2>3. \A d \in Calls : OnTime(d)'
      <3> HIDE DEF OnTime
      <3> QED BY <1>3, <1>4, <2>1, <2>2
    <2> QED BY <2>3 DEF CallsOnTime
  <1>7. CASE \E c \in Calls : \E r : Counts(c, r) \/ Prunes(c, r) \/ Looks(c, r)
    <2>1. PICK c \in Calls : \E r : Counts(c, r) \/ Prunes(c, r) \/ Looks(c, r)
      BY <1>7
    <2>2. PICK r : Counts(c, r) \/ Prunes(c, r) \/ Looks(c, r)
      BY <2>1
    <2>3. GoesOn(c, r) /\ (r.when = call[c].when \/ (call[c].when = Null /\ r.when = now))
      BY <2>2 DEF Counts, Prunes, Looks
    <2>4. now' = now /\ \A d \in Calls : d # c => call'[d] = call[d]
      BY <1>1, <2>3 DEF GoesOn
    <2>5. OnTime(c)'
      BY <1>5, <2>3
    <2>6. \A d \in Calls : OnTime(d)'
      <3> HIDE DEF OnTime
      <3> QED BY <1>3, <2>4, <2>5
    <2> QED BY <2>6 DEF CallsOnTime
  <1>8. CASE W!Tick
    <2>1. /\ call' = call /\ now' = now + 1
          /\ \A c \in Calls : call[c].pc \in {"sent", "got"} => now - call[c].began < MaxLag
      BY <1>8 DEF W!Tick
    <2>2. ASSUME NEW c \in Calls PROVE OnTime(c)'
      <3>1. call[c] \in W!Call /\ call[c].began \in Nat /\ call[c].at \in Int
        BY <1>1 DEF W!Call
      <3>2. Counted(c) => call[c].when \in Nat
        BY CountedRan
      <3>3. OnTime(c)
        BY <1>2
      <3>4. Running(c) => now - call[c].began < MaxLag
        BY <2>1 DEF Running
      <3> QED BY <1>1, <2>1, <3>1, <3>2, <3>3, <3>4 DEF Running, Counted
    <2> QED BY <2>2 DEF CallsOnTime
  <1>9. CASE (\E k \in Keys : W!Expire(k)) \/ UNCHANGED vars
    <2>1. call' = call /\ now' = now
      BY <1>9 DEF W!Expire, vars
    <2>2. \A d \in Calls : OnTime(d)'
      <3> HIDE DEF OnTime
      <3> QED BY <1>3, <2>1
    <2> QED BY <2>2 DEF CallsOnTime
  <1> QED BY <1>6, <1>7, <1>8, <1>9, Moves

\* What the steps do to what is stored and what is read.
LEMMA StoreMoves ==
  ASSUME TypeOK, CallsMade, CallsOnTime, Sized, [Next]_vars
  PROVE  /\ \A k \in Keys :
              \/ entries'[k] \subseteq entries[k]
              \/ \E c \in Calls : call[c].key = k /\ \E r : Counts(c, r)
         /\ \A d \in Calls : call'[d].pc # "idle" =>
              \/ call'[d].seen = {}
              \/ call[d].pc # "idle" /\ call'[d].seen = call[d].seen
              \/ call[d].pc # "idle" /\ call'[d].seen = entries[call[d].key]
  <1>1. /\ call \in [Calls -> W!Call] /\ entries \in [Keys -> SUBSET W!Entry]
    BY DEF TypeOK, W!TypeOK
  <1>2. ASSUME NEW c \in Calls, NEW s \in Servers, Begins(c, s)
        PROVE  /\ entries' = entries
               /\ \A d \in Calls : call'[d].seen = {} \/ call'[d] = call[d]
    BY <1>1, <1>2 DEF Begins, W!NoCall
  <1>3. ASSUME NEW c \in Calls, NEW r, GoesOn(c, r)
        PROVE  /\ call'[c] = r /\ \A d \in Calls : d # c => call'[d] = call[d]
               /\ call[c].pc # "idle" /\ call[c].key \in Keys
    <2>1. Running(c) /\ call' = [call EXCEPT ![c] = r]
      BY <1>3 DEF GoesOn
    <2> QED BY <1>1, <2>1, RunningRead DEF Running
  <1>4. ASSUME NEW c \in Calls, NEW r, Counts(c, r)
        PROVE  /\ \A k \in Keys : k # call[c].key => entries'[k] = entries[k]
               /\ r.seen = {}
    BY <1>1, <1>4 DEF Counts
  <1>5. ASSUME NEW c \in Calls, NEW r, Prunes(c, r)
        PROVE  /\ \A k \in Keys : entries'[k] \subseteq entries[k]
               /\ r.seen = {}
    BY <1>1, <1>5 DEF Prunes, W!Live
  <1>6. ASSUME NEW c \in Calls, NEW r, Looks(c, r)
        PROVE  /\ entries' = entries
               /\ r.seen = {} \/ r.seen = call[c].seen \/ r.seen = entries[call[c].key]
    BY <1>6 DEF Looks
  <1>7. ASSUME W!Tick \/ (\E k \in Keys : W!Expire(k)) \/ UNCHANGED vars
        PROVE  call' = call /\ \A k \in Keys : entries'[k] \subseteq entries[k]
    BY <1>1, <1>7 DEF W!Tick, W!Expire, vars
  <1>8. CASE \E c \in Calls, s \in Servers : Begins(c, s)
    <2>1. \A d \in Calls : call'[d] = call[d] \/ call'[d].seen = {}
      BY <1>2, <1>8
    <2> QED BY <1>2, <1>8, <2>1
  <1>9. CASE \E c \in Calls : \E r : Counts(c, r) \/ Prunes(c, r) \/ Looks(c, r)
    <2>1. PICK c \in Calls : \E r : Counts(c, r) \/ Prunes(c, r) \/ Looks(c, r)
      BY <1>9
    <2>2. PICK r : Counts(c, r) \/ Prunes(c, r) \/ Looks(c, r)
      BY <2>1
    <2>3. GoesOn(c, r)
      BY <2>2 DEF Counts, Prunes, Looks
    <2>4. \A k \in Keys : entries'[k] \subseteq entries[k] \/ (Counts(c, r) /\ call[c].key = k)
      BY <1>4, <1>5, <1>6, <2>2
    <2>5. r.seen = {} \/ r.seen = call[c].seen \/ r.seen = entries[call[c].key]
      BY <1>4, <1>5, <1>6, <2>2
    <2>6. \A d \in Calls : d # c => call'[d] = call[d]
      BY <1>3, <2>3
    <2>7. call'[c] = r /\ call[c].pc # "idle"
      BY <1>3, <2>3
    <2> QED BY <2>4, <2>5, <2>6, <2>7
  <1>10. CASE W!Tick \/ (\E k \in Keys : W!Expire(k)) \/ UNCHANGED vars
    BY <1>7, <1>10
  <1> QED BY <1>8, <1>9, <1>10, Moves

LEMMA SizedStep ==
  ASSUME TypeOK, CallsMade, CallsOnTime, Sized, [Next]_vars
  PROVE  Sized'
  <1> USE LimitsAre
  <1>1. ASSUME NEW k \in Keys PROVE IsFiniteSet(entries'[k]) /\ Cardinality(entries'[k]) <= Limit[k]
    <2>1. IsFiniteSet(entries[k]) /\ Cardinality(entries[k]) <= Limit[k]
      BY DEF Sized
    <2>2. CASE entries'[k] \subseteq entries[k]
      <3>1. IsFiniteSet(entries'[k]) /\ Cardinality(entries'[k]) <= Cardinality(entries[k])
        BY <2>1, <2>2, FS_Subset
      <3> QED BY <2>1, <3>1, FS_CardinalityType
    <2>3. CASE \E c \in Calls : call[c].key = k /\ \E r : Counts(c, r)
      <3>0. PICK c \in Calls : call[c].key = k /\ \E r : Counts(c, r)
        BY <2>3
      <3>1. PICK r : Counts(c, r)
        BY <3>0
      <3> DEFINE live == W!Live(entries[k], call[c].at)
      <3>2. entries'[k] = live \cup {W!Member(c)} /\ Cardinality(live) < Limit[k]
        BY <3>0, <3>1 DEF Counts, HasSpace, TypeOK, W!TypeOK
      <3>3. IsFiniteSet(live)
        <4>1. live \subseteq entries[k]
          BY DEF W!Live
        <4> QED BY <2>1, <4>1, FS_Subset
      <3> HIDE DEF live
      <3>4. /\ IsFiniteSet(entries'[k])
            /\ \/ Cardinality(entries'[k]) = Cardinality(live)
               \/ Cardinality(entries'[k]) = Cardinality(live) + 1
        BY <3>2, <3>3, FS_AddElement
      <3>5. Cardinality(live) \in Nat /\ Limit[k] \in Nat
        BY <3>3, FS_CardinalityType
      <3> QED BY <3>2, <3>4, <3>5
    <2> QED BY <2>2, <2>3, StoreMoves
  <1>2. ASSUME NEW d \in Calls, call'[d].pc # "idle"
        PROVE  IsFiniteSet(call'[d].seen) /\ Cardinality(call'[d].seen) <= Limit[call'[d].key]
    <2>1. CASE call'[d].seen = {}
      <3>1. TypeOK' /\ CallsMade'
        BY TypeStep, CallsMadeStep
      <3>2. call'[d].key \in Keys
        <4>1. call'[d].key = KeyOf(d[2], d[1])' /\ d[1] \in DOMAIN kind' /\ d[2] \in Limiters
          BY <1>2, <3>1 DEF CallsMade, Calls
        <4>2. kind' = kind /\ KeyOf(d[2], d[1])' = KeyOf(d[2], d[1])
          BY Moves DEF KeyOf
        <4> QED BY <4>1, <4>2, KeysOfRequests
      <3> QED BY <2>1, <3>2, FS_EmptySet
    <2>2. CASE call[d].pc # "idle" /\ call'[d].seen = call[d].seen
      BY <2>2, CallsStay DEF Sized
    <2>3. CASE call[d].pc # "idle" /\ call'[d].seen = entries[call[d].key]
      <3>1. call'[d].key = call[d].key /\ call[d].key \in Keys
        BY <2>3, CallsStay, CallersAre
      <3> QED BY <2>3, <3>1 DEF Sized
    <2> QED BY <1>2, <2>1, <2>2, <2>3, StoreMoves
  <1>3. Limit' = Limit /\ Keys' = Keys
    OBVIOUS
  <1> QED BY <1>1, <1>2, <1>3 DEF Sized

LEMMA OwnedStays ==
  ASSUME TypeOK, CallsMade, Sized, [Next]_vars, NEW k, NEW e, Owned(k, e)
  PROVE  Owned(k, e)'
  <1>1. PICK d \in Calls : call[d].key = k /\ Counted(d) /\ W!Member(d) = e
    BY DEF Owned
  <1>2. call[d].pc # "idle" /\ call[d].when # Null
    BY <1>1, CountedRan DEF Counted
  <1>3. call'[d].key = k /\ call'[d].at = call[d].at /\ call'[d].when # Null
    BY <1>1, <1>2, CallsStay
  <1>4. backend' = backend
    BY Moves
  <1>5. W!Member(d)' = W!Member(d)
    BY <1>3, <1>4 DEF W!Member
  <1>6. Counted(d)'
    BY <1>3 DEF Counted
  <1> QED BY <1>1, <1>3, <1>5, <1>6 DEF Owned

\* Who counts stores its own entry, in its key's set, with the others in its window.
LEMMA CountsOwn ==
  ASSUME TypeOK, CallsMade, CallsOnTime, Sized, NEW c \in Calls, NEW r, Counts(c, r)
  PROVE  /\ entries'[call[c].key] = W!Live(entries[call[c].key], call[c].at) \cup {W!Member(c)}
         /\ W!Member(c)' = W!Member(c) /\ call'[c].key = call[c].key
         /\ Counted(c)' /\ now' = now
  <1>1. Running(c) /\ GoesOn(c, r)
    BY DEF Counts, GoesOn
  <1>2. /\ call' = [call EXCEPT ![c] = r] /\ r.key = call[c].key /\ r.at = call[c].at
        /\ UNCHANGED <<backend, now>>
    BY <1>1 DEF GoesOn
  <1>3. /\ call \in [Calls -> W!Call] /\ entries \in [Keys -> SUBSET W!Entry] /\ now \in Nat
        /\ Null \notin Int
    BY LimitsAre DEF TypeOK, W!TypeOK
  <1>4. call'[c] = r
    BY <1>2, <1>3
  <1>5. W!Member(c)' = W!Member(c)
    BY <1>2, <1>4 DEF W!Member
  <1>6. call[c].key \in Keys
    BY <1>1, RunningRead
  <1>7. r.when # Null
    BY <1>3 DEF Counts
  <1>8. entries'[call[c].key] = W!Live(entries[call[c].key], call[c].at) \cup {W!Member(c)}
    BY <1>3, <1>6 DEF Counts
  <1> QED BY <1>2, <1>4, <1>5, <1>7, <1>8 DEF Counted

LEMMA SourcedStep ==
  ASSUME TypeOK, CallsMade, CallsOnTime, Sized, Sourced, [Next]_vars
  PROVE  Sourced'
  <1>1. ASSUME NEW k \in Keys, NEW e \in entries'[k] PROVE Owned(k, e)'
    <2>1. CASE e \in entries[k]
      BY <2>1, OwnedStays DEF Sourced
    <2>2. CASE e \notin entries[k]
      <3>1. PICK c \in Calls : call[c].key = k /\ \E r : Counts(c, r)
        BY <1>1, <2>2, StoreMoves
      <3>2. PICK r : Counts(c, r)
        BY <3>1
      <3>3. /\ entries'[k] = W!Live(entries[k], call[c].at) \cup {W!Member(c)}
            /\ W!Member(c)' = W!Member(c) /\ call'[c].key = k /\ Counted(c)'
        BY <3>1, <3>2, CountsOwn
      <3>4. e = W!Member(c)
        <4>1. W!Live(entries[k], call[c].at) \subseteq entries[k]
          BY DEF W!Live
        <4> QED BY <1>1, <2>2, <3>3, <4>1
      <3> QED BY <3>3, <3>4 DEF Owned
    <2> QED BY <2>1, <2>2
  <1>2. ASSUME NEW d \in Calls, NEW e \in call'[d].seen PROVE Owned(call[d].key, e)'
    <2>1. CASE call'[d].pc = "idle"
      <3>1. CallsMade'
        BY CallsMadeStep
      <3>2. call'[d].seen = {}
        BY <2>1, <3>1 DEF CallsMade, W!NoCall
      <3> QED BY <1>2, <3>2
    <2>2. CASE call'[d].pc # "idle"
      <3>1. /\ call[d].pc # "idle"
            /\ call'[d].seen = call[d].seen \/ call'[d].seen = entries[call[d].key]
        BY <1>2, <2>2, StoreMoves
      <3>2. call'[d].key = call[d].key /\ call[d].key \in Keys
        BY <3>1, CallsStay, CallersAre
      <3>3. Owned(call[d].key, e)
        BY <1>2, <3>1, <3>2 DEF Sourced
      <3> QED BY <3>2, <3>3, OwnedStays
    <2> QED BY <2>1, <2>2
  <1> QED BY <1>1, <1>2 DEF Sourced

\* The entry of a call that counted less than a window ago, but for the spread, is
\* in the window of any running call.
LEMMA StaysLive ==
  ASSUME TypeOK, CallsMade, CallsOnTime,
         NEW c \in Calls, Running(c),
         NEW d \in Calls, Counted(d), now < call[d].when + Window - Spread
  PROVE  /\ W!Member(d).at > call[c].at - Window
         /\ call[d].when + Window - Spread <= now + Window
         /\ call[d].when + Window - Spread <= call[c].at + 2 * Window
  <1>1. /\ call[c].at \in Nat /\ Spread \in Nat
        /\ now <= call[c].at + MaxLag /\ call[c].at <= now + Spread - MaxLag
    BY RunningRead
  <1>2. /\ call[d].when \in Nat /\ call[d].when <= now
        /\ call[d].when <= call[d].at + MaxLag
    BY CountedRan DEF CallsOnTime
  <1>3. call[d].at \in Int /\ now \in Nat /\ W!Member(d).at = call[d].at
    BY DEF TypeOK, W!TypeOK, W!Call, W!Member
  <1>4. Window \in Nat \ {0} /\ MaxLag \in Nat
    BY LimitsAre
  <1>5. MaxLag <= Spread
    <2>1. PICK s \in Servers : call[c].at = call[c].began + Offset[s]
      BY DEF CallsOnTime
    <2>2. call[c].pc # "idle"
      BY DEF Running
    <2>3. MaxLag + Offset[s] <= Spread /\ Offset[s] \in Nat
      BY <2>2, CallersAre, LimitsAre
    <2> QED BY <1>1, <1>4, <2>3
  <1> QED BY <1>1, <1>2, <1>3, <1>4, <1>5

LEMMA KeptStep ==
  ASSUME TypeOK, CallsMade, CallsOnTime, Sized, Kept, [Next]_vars
  PROVE  Kept'
  <1> USE LimitsAre
  <1>1. /\ call \in [Calls -> W!Call] /\ now \in Nat
        /\ entries \in [Keys -> SUBSET W!Entry] /\ expiry \in [Keys -> Nat]
    BY DEF TypeOK, W!TypeOK
  <1> DEFINE Stays(d) == Counted(d) /\ now < call[d].when + Window - Spread =>
                           /\ W!Member(d) \in entries[call[d].key]
                           /\ call[d].when + Window - Spread <= expiry[call[d].key]
  <1>2. \A d \in Calls : Stays(d)
    BY DEF Kept
  <1>3. backend' = backend /\ Window' = Window /\ Spread' = Spread
    BY Moves DEF Spread
  <1>4. \A d \in Calls : Counted(d) => call[d].key \in Keys /\ call[d].when \in Nat /\ Spread \in Nat
    BY CountedRan, CallersAre
  \* What was counted before the step.
  <1>5. ASSUME NEW d \in Calls, Counted(d), Counted(d)', now' < call'[d].when + Window - Spread
        PROVE  /\ call'[d].key = call[d].key /\ call[d].key \in Keys
               /\ call'[d].when = call[d].when /\ W!Member(d)' = W!Member(d)
               /\ now < call[d].when + Window - Spread
               /\ W!Member(d) \in entries[call[d].key]
               /\ call[d].when + Window - Spread <= expiry[call[d].key]
    <2>1. /\ call'[d].key = call[d].key /\ call'[d].at = call[d].at /\ call'[d].when = call[d].when
          /\ now' = now \/ now' = now + 1
      BY <1>5, CountedRan, CallsStay
    <2>2. now < call[d].when + Window - Spread
      BY <1>1, <1>4, <1>5, <2>1
    <2>3. W!Member(d)' = W!Member(d)
      BY <1>3, <2>1 DEF W!Member
    <2> QED BY <1>2, <1>4, <1>5, <2>1, <2>2, <2>3
  <1>6. ASSUME NEW c \in Calls, NEW r, Counts(c, r), NEW d \in Calls PROVE Stays(d)'
    <2> DEFINE k == call[c].key
    <2>1. /\ Running(c) /\ k \in Keys /\ call[c].at \in Nat /\ Spread \in Nat
          /\ now <= call[c].at + MaxLag
      BY <1>6, RunningRead DEF Counts, GoesOn
    <2>2. PICK until \in {now + Window, call[c].at + 2 * Window} :
            expiry' = [expiry EXCEPT ![k] = until]
      BY <1>6 DEF Counts
    <2>3. expiry'[k] = until
      BY <1>1, <2>1, <2>2
    <2>4. /\ entries'[k] = W!Live(entries[k], call[c].at) \cup {W!Member(c)}
          /\ W!Member(c)' = W!Member(c) /\ call'[c].key = k /\ Counted(c)' /\ now' = now
      BY <1>6, CountsOwn
    <2>5. /\ \A j \in Keys : j # k => entries'[j] = entries[j] /\ expiry'[j] = expiry[j]
          /\ \A e \in Calls : e # c => call'[e] = call[e]
      BY <1>1, <1>6, <2>2 DEF Counts, GoesOn
    <2>6. CASE d = c /\ ~Counted(c)
      <3>1. call'[c].when = now
        BY <2>4, <2>6, CallsStay
      <3>2. MaxLag <= Spread
        <4>1. PICK s \in Servers : call[c].at = call[c].began + Offset[s]
          BY <2>1 DEF CallsOnTime
        <4>2. call[c].pc # "idle"
          BY <2>1 DEF Running
        <4>3. MaxLag + Offset[s] <= Spread /\ Offset[s] \in Nat
          BY <4>2, CallersAre
        <4> QED BY <2>1, <4>3
      <3>3. now + Window - Spread <= until
        BY <1>1, <2>1, <2>2, <3>2
      <3>4. W!Member(c)' \in entries'[k]
        BY <2>4
      <3> QED BY <1>3, <2>3, <2>4, <2>6, <3>1, <3>3, <3>4
    <2>7. CASE d # c \/ Counted(c)
      <3> SUFFICES ASSUME Counted(d)', now' < call'[d].when + Window - Spread
                   PROVE  /\ W!Member(d)' \in entries'[call'[d].key]
                          /\ call'[d].when + Window - Spread <= expiry'[call'[d].key]
        BY <1>3
      <3>1. Counted(d)
        BY <2>5, <2>7 DEF Counted
      <3>2. /\ call'[d].key = call[d].key /\ call[d].key \in Keys
            /\ call'[d].when = call[d].when /\ W!Member(d)' = W!Member(d)
            /\ now < call[d].when + Window - Spread
            /\ W!Member(d) \in entries[call[d].key]
            /\ call[d].when + Window - Spread <= expiry[call[d].key]
        BY <1>5, <3>1
      <3>3. CASE call[d].key # k
        BY <2>5, <3>2, <3>3
      <3>4. CASE call[d].key = k
        <4>1. /\ W!Member(d).at > call[c].at - Window
              /\ call[d].when + Window - Spread <= now + Window
              /\ call[d].when + Window - Spread <= call[c].at + 2 * Window
          BY <2>1, <3>1, <3>2, StaysLive
        <4>2. W!Member(d) \in W!Live(entries[k], call[c].at)
          BY <3>2, <3>4, <4>1 DEF W!Live
        <4>3. call[d].when + Window - Spread <= until
          BY <2>2, <4>1
        <4> QED BY <2>3, <2>4, <3>2, <3>4, <4>2, <4>3
      <3> QED BY <3>3, <3>4
    <2> QED BY <2>6, <2>7
  <1>7. ASSUME NEW c \in Calls, NEW r, Prunes(c, r), NEW d \in Calls PROVE Stays(d)'
    <2> DEFINE k == call[c].key
    <2>1. Running(c) /\ k \in Keys /\ GoesOn(c, r)
      BY <1>7, RunningRead DEF Prunes, GoesOn
    <2>2. /\ entries'[k] = W!Live(entries[k], call[c].at) /\ expiry' = expiry
          /\ \A j \in Keys : j # k => entries'[j] = entries[j]
      BY <1>1, <1>7, <2>1 DEF Prunes
    <2>3. Counted(d)' => Counted(d)
      <3>1. \A e \in Calls : call'[e].when = call[e].when
        BY <1>1, <1>7, <2>1 DEF GoesOn, Prunes
      <3> QED BY <3>1 DEF Counted
    <2> SUFFICES ASSUME Counted(d)', now' < call'[d].when + Window - Spread
                 PROVE  /\ W!Member(d)' \in entries'[call'[d].key]
                        /\ call'[d].when + Window - Spread <= expiry'[call'[d].key]
      BY <1>3
    <2>4. /\ call'[d].key = call[d].key /\ call[d].key \in Keys
          /\ call'[d].when = call[d].when /\ W!Member(d)' = W!Member(d)
          /\ now < call[d].when + Window - Spread
          /\ W!Member(d) \in entries[call[d].key]
          /\ call[d].when + Window - Spread <= expiry[call[d].key]
      BY <1>5, <2>3
    <2>5. CASE call[d].key # k
      BY <2>2, <2>4, <2>5
    <2>6. CASE call[d].key = k
      <3>1. W!Member(d).at > call[c].at - Window
        BY <2>1, <2>3, <2>4, StaysLive
      <3>2. W!Member(d) \in W!Live(entries[k], call[c].at)
        BY <2>4, <2>6, <3>1 DEF W!Live
      <3> QED BY <2>2, <2>4, <2>6, <3>2
    <2> QED BY <2>5, <2>6
  <1>8. ASSUME NEW d \in Calls, entries' = entries, expiry' = expiry,
               Counted(d)' => Counted(d)
        PROVE  Stays(d)'
    <2> SUFFICES ASSUME Counted(d)', now' < call'[d].when + Window - Spread
                 PROVE  /\ W!Member(d)' \in entries'[call'[d].key]
                        /\ call'[d].when + Window - Spread <= expiry'[call'[d].key]
      BY <1>3
    <2> QED BY <1>5, <1>8
  <1>9. ASSUME NEW k \in Keys, W!Expire(k), NEW d \in Calls PROVE Stays(d)'
    <2>1. /\ now >= expiry[k] /\ call' = call /\ now' = now
          /\ \A j \in Keys : j # k => entries'[j] = entries[j] /\ expiry'[j] = expiry[j]
      BY <1>1, <1>9 DEF W!Expire
    <2> SUFFICES ASSUME Counted(d)', now' < call'[d].when + Window - Spread
                 PROVE  /\ W!Member(d)' \in entries'[call'[d].key]
                        /\ call'[d].when + Window - Spread <= expiry'[call'[d].key]
      BY <1>3
    <2>2. Counted(d)
      BY <2>1 DEF Counted
    <2>3. /\ call'[d].key = call[d].key /\ call[d].key \in Keys
          /\ call'[d].when = call[d].when /\ W!Member(d)' = W!Member(d)
          /\ now < call[d].when + Window - Spread
          /\ W!Member(d) \in entries[call[d].key]
          /\ call[d].when + Window - Spread <= expiry[call[d].key]
      BY <1>5, <2>2
    <2>4. call[d].key # k
      <3>1. call[d].when \in Nat /\ Spread \in Nat /\ expiry[k] \in Nat
        BY <1>1, <1>4, <2>2
      <3> QED BY <1>1, <2>1, <2>3, <3>1
    <2> QED BY <2>1, <2>3, <2>4
  <1>10. ASSUME NEW c \in Calls, NEW s \in Servers, Begins(c, s), NEW d \in Calls PROVE Stays(d)'
    <2>1. entries' = entries /\ expiry' = expiry /\ (Counted(d)' => Counted(d))
      BY <1>1, <1>10 DEF Begins, W!NoCall, Counted
    <2> HIDE DEF Stays
    <2> QED BY <1>8, <2>1
  <1>11. ASSUME NEW c \in Calls, NEW r, Looks(c, r), NEW d \in Calls PROVE Stays(d)'
    <2>1. entries' = entries /\ expiry' = expiry /\ (Counted(d)' => Counted(d))
      BY <1>1, <1>11 DEF Looks, GoesOn, Counted
    <2> HIDE DEF Stays
    <2> QED BY <1>8, <2>1
  <1>12. ASSUME W!Tick \/ UNCHANGED vars, NEW d \in Calls PROVE Stays(d)'
    <2>1. entries' = entries /\ expiry' = expiry /\ (Counted(d)' => Counted(d))
      BY <1>12 DEF W!Tick, vars, Counted
    <2> HIDE DEF Stays
    <2> QED BY <1>8, <2>1
  <1>13. \A d \in Calls : Stays(d)'
    <2> HIDE DEF Stays
    <2> QED BY <1>6, <1>7, <1>9, <1>10, <1>11, <1>12, Moves
  <1> QED BY <1>13 DEF Kept

\* Whose entries cover a set of a call's key has at least as many calls in its window.
LEMMA OwnCover ==
  ASSUME TypeOK, NEW c \in Calls, NEW es, \A e \in es : Owned(call[c].key, e)
  PROVE  Cardinality(W!Live(es, call[c].at)) <= Cardinality(OwnCalls(c))
  <1> DEFINE own == OwnCalls(c)
             f == [d \in own |-> W!Member(d)]
             live == W!Live(es, call[c].at)
  <1>1. own \subseteq Calls
    BY DEF OwnCalls
  <1>2. IsFiniteSet(own)
    BY <1>1, CallsFinite, FS_Subset
  <1>3. ASSUME NEW e \in live PROVE \E d \in own : f[d] = e
    <2>1. e \in es /\ e.at > call[c].at - Window
      BY DEF W!Live
    <2>2. PICK d \in Calls : call[d].key = call[c].key /\ Counted(d) /\ W!Member(d) = e
      BY <2>1 DEF Owned
    <2>3. e.at = call[d].at
      BY <2>2 DEF W!Member
    <2>4. d \in own
      BY <2>1, <2>2, <2>3 DEF OwnCalls
    <2> HIDE DEF own
    <2> QED BY <2>2, <2>4
  <1>4. DOMAIN f = own
    OBVIOUS
  <1> HIDE DEF own, f, live
  <1>5. Cardinality(live) <= Cardinality(own)
    BY <1>2, <1>3, <1>4, CoveredIsSmaller
  <1> QED BY <1>5 DEF own, live

LEMMA CountedFromFinite ==
  ASSUME NEW k, NEW t
  PROVE  IsFiniteSet(CountedFrom(k, t))
  <1> DEFINE C == CountedFrom(k, t)
             f == [c \in Calls |-> W!Member(c)]
  <1>1. DOMAIN f = Calls /\ \A e \in C : \E c \in Calls : f[c] = e
    BY DEF CountedFrom
  <1> HIDE DEF C, f
  <1>2. IsFiniteSet(C)
    BY <1>1, CallsFinite, CoveredIsSmaller
  <1> QED BY <1>2 DEF C

\* A window that has ended is as it was; what a present one has counted is stored.
LEMMA WindowsStep ==
  ASSUME TypeOK, CallsMade, CallsOnTime, Sized, Kept, WindowsKept, [Next]_vars
  PROVE  WindowsKept'
  <1> USE LimitsAre
  <1>1. TypeOK' /\ CallsMade' /\ CallsOnTime' /\ Sized' /\ Kept'
    BY TypeStep, CallsMadeStep, OnTimeStep, SizedStep, KeptStep
  <1>2. Spread' = Spread /\ backend' = backend
    BY Moves DEF Spread
  <1>3. ASSUME NEW k \in Keys, NEW t \in Nat PROVE Cardinality(CountedFrom(k, t)') <= Limit[k]
    <2> DEFINE before == CountedFrom(k, t)
               after == CountedFrom(k, t)'
    <2>1. CASE \A d \in Calls : Counted(d)' /\ call'[d].key = k /\ t <= call'[d].when
                                /\ call'[d].when < t + Window - Spread => Counted(d)
      <3>1. after \subseteq before
        <4> SUFFICES ASSUME NEW e \in after PROVE e \in before
          OBVIOUS
        <4>1. PICK d \in Calls : /\ call'[d].key = k /\ Counted(d)' /\ t <= call'[d].when
                                 /\ call'[d].when < t + Window - Spread /\ e = W!Member(d)'
          BY <1>2 DEF CountedFrom
        <4>2. Counted(d)
          BY <2>1, <4>1
        <4>3. call'[d].key = call[d].key /\ call'[d].at = call[d].at /\ call'[d].when = call[d].when
          BY <4>2, CountedRan, CallsStay
        <4>4. W!Member(d)' = W!Member(d)
          BY <1>2, <4>3 DEF W!Member
        <4> QED BY <4>1, <4>2, <4>3, <4>4 DEF CountedFrom
      <3>2. IsFiniteSet(before)
        BY CountedFromFinite
      <3>3. Cardinality(before) <= Limit[k]
        BY DEF WindowsKept
      <3> HIDE DEF before, after
      <3>4. IsFiniteSet(after) /\ Cardinality(after) <= Cardinality(before)
        BY <3>1, <3>2, FS_Subset
      <3>5. Cardinality(after) <= Limit[k]
        BY <3>2, <3>3, <3>4, FS_CardinalityType
      <3> QED BY <3>5 DEF after
    <2>2. CASE \E d \in Calls : Counted(d)' /\ call'[d].key = k /\ t <= call'[d].when
                                /\ call'[d].when < t + Window - Spread /\ ~Counted(d)
      <3>1. PICK d \in Calls : Counted(d)' /\ t <= call'[d].when
                               /\ call'[d].when < t + Window - Spread /\ ~Counted(d)
        BY <2>2
      <3>2. now' = now /\ call'[d].when = now
        BY <3>1, CallsStay
      <3>3. ASSUME NEW e \in after PROVE e \in entries'[k]
        <4>1. PICK c \in Calls : /\ call'[c].key = k /\ Counted(c)' /\ t <= call'[c].when
                                 /\ call'[c].when < t + Window - Spread /\ e = W!Member(c)'
          BY <1>2 DEF CountedFrom
        <4>2. call'[c].when \in Nat /\ Spread \in Nat /\ now \in Nat
          <5>1. call'[c].when \in Nat
            BY <1>1, <4>1 DEF TypeOK, W!TypeOK, W!Call, Counted
          <5>2. Spread \in Nat
            BY <3>1, CallsStay, RunningRead
          <5> QED BY <5>1, <5>2 DEF TypeOK, W!TypeOK
        <4>3. now' < call'[c].when + Window - Spread
          BY <3>1, <3>2, <4>1, <4>2
        <4> QED BY <1>1, <1>2, <4>1, <4>3 DEF Kept
      <3>4. IsFiniteSet(entries'[k]) /\ Cardinality(entries'[k]) <= Limit[k]
        BY <1>1 DEF Sized
      <3> HIDE DEF after
      <3>5. after \subseteq entries'[k]
        BY <3>3
      <3>6. IsFiniteSet(after) /\ Cardinality(after) <= Cardinality(entries'[k])
        BY <3>4, <3>5, FS_Subset
      <3>7. Cardinality(after) <= Limit[k]
        BY <3>4, <3>6, FS_CardinalityType
      <3> QED BY <3>7 DEF after
    <2> QED BY <2>1, <2>2
  <1> QED BY <1>3 DEF WindowsKept

LEMMA RefusalsStep ==
  ASSUME TypeOK, CallsMade, CallsOnTime, Sized, Sourced, Refusals, [Next]_vars
  PROVE  Refusals'
  <1> USE LimitsAre
  <1>1. call \in [Calls -> W!Call]
    BY DEF TypeOK, W!TypeOK
  <1>2. backend' = backend
    BY Moves
  <1> DEFINE Fair(c) ==
               /\ call[c].answer = "refused" => Cardinality(OwnCalls(c)) >= Limit[call[c].key]
               /\ call[c].answer = "refused" /\ backend = "firestore" =>
                    Cardinality(W!Live(call[c].seen, call[c].at)) >= Limit[call[c].key]
               /\ call[c].resetAt # Null =>
                    /\ backend = "firestore" /\ call[c].pc = "done"
                    /\ \E e \in call[c].seen : call[c].resetAt = e.at + Window
  <1>3. \A c \in Calls : Fair(c)
    BY DEF Refusals
  \* Own calls stay own calls.
  <1>4. ASSUME NEW c \in Calls, call[c].pc # "idle"
        PROVE  /\ Cardinality(OwnCalls(c)) <= Cardinality(OwnCalls(c)')
               /\ Cardinality(OwnCalls(c)) \in Nat /\ Cardinality(OwnCalls(c)') \in Nat
    <2> DEFINE before == OwnCalls(c)
               after == OwnCalls(c)'
    <2>1. call'[c].key = call[c].key /\ call'[c].at = call[c].at
      BY <1>4, CallsStay
    <2>2. before \subseteq after
      <3> SUFFICES ASSUME NEW d \in before PROVE d \in after
        OBVIOUS
      <3>1. d \in Calls /\ call[d].key = call[c].key /\ Counted(d) /\ call[d].at > call[c].at - Window
        BY DEF OwnCalls
      <3>2. call'[d].key = call[d].key /\ call'[d].at = call[d].at /\ call'[d].when = call[d].when
        BY <3>1, CountedRan, CallsStay
      <3>3. Counted(d)'
        BY <3>1, <3>2 DEF Counted
      <3> QED BY <2>1, <3>1, <3>2, <3>3 DEF OwnCalls
    <2>3. before \in SUBSET Calls /\ after \in SUBSET Calls
      BY DEF OwnCalls
    <2>4. IsFiniteSet(before) /\ IsFiniteSet(after)
      BY <2>3, CallsFinite, FS_Subset
    <2> HIDE DEF before, after
    <2>5. Cardinality(before) <= Cardinality(after)
      BY <2>2, <2>4, FS_Subset
    <2>6. Cardinality(before) \in Nat /\ Cardinality(after) \in Nat
      BY <2>4, FS_CardinalityType
    <2> QED BY <2>5, <2>6 DEF before, after
  <1>5. ASSUME NEW d \in Calls, call'[d] = call[d] PROVE Fair(d)'
    <2>1. CASE call[d].pc = "idle"
      <3>1. call[d].answer = "none" /\ call[d].resetAt = Null
        BY <2>1 DEF CallsMade, W!NoCall
      <3> QED BY <1>5, <3>1
    <2>2. CASE call[d].pc # "idle"
      <3>1. call[d].key \in Keys
        BY <2>2, CallersAre
      <3>2. call[d].answer = "refused" => Cardinality(OwnCalls(d)') >= Limit[call[d].key]
        BY <1>3, <1>4, <2>2, <3>1
      <3> QED BY <1>2, <1>3, <1>5, <3>2 DEF W!Live
    <2> QED BY <2>1, <2>2
  <1>6. ASSUME NEW c \in Calls, NEW r, Counts(c, r) \/ Prunes(c, r) \/ Looks(c, r) PROVE Fair(c)'
    <2>1. GoesOn(c, r)
      BY <1>6 DEF Counts, Prunes, Looks
    <2>2. /\ call'[c] = r /\ r.key = call[c].key /\ r.at = call[c].at /\ Running(c)
          /\ r.pc \in {"sent", "got"} => r.answer = "none" /\ r.resetAt = Null
      BY <1>1, <2>1 DEF GoesOn
    <2>3. call[c].pc # "idle" /\ call[c].key \in Keys
      BY <2>2, RunningRead DEF Running
    <2> DEFINE live(es) == W!Live(es, call[c].at)
    \* A refusal by what is stored, or by what was read.
    <2>4. ASSUME NEW es, \A e \in es : Owned(call[c].key, e), IsFiniteSet(es), ~HasSpace(c, es)
          PROVE  /\ Cardinality(OwnCalls(c)') >= Limit[call[c].key]
                 /\ Cardinality(live(es)) >= Limit[call[c].key]
      <3>1. Cardinality(live(es)) <= Cardinality(OwnCalls(c))
        BY <2>4, OwnCover
      <3>2. live(es) \subseteq es
        BY DEF W!Live
      <3>3. IsFiniteSet(live(es))
        <4> HIDE DEF live
        <4> QED BY <2>4, <3>2, FS_Subset
      <3>4. Cardinality(live(es)) \in Nat
        BY <3>3, FS_CardinalityType
      <3>5. ~(Cardinality(live(es)) < Limit[call[c].key])
        BY <2>4 DEF HasSpace
      <3>6. Cardinality(live(es)) >= Limit[call[c].key]
        <4> HIDE DEF live
        <4> QED BY <2>3, <3>4, <3>5
      <3> HIDE DEF live
      <3> QED BY <1>4, <2>3, <3>1, <3>4, <3>6
    <2>5. CASE r.answer # "refused"
      <3>1. r.resetAt = Null
        BY <1>6, <2>2, <2>5 DEF Counts, Prunes, Looks
      <3> QED BY <2>2, <2>5, <3>1
    <2>6. CASE r.answer = "refused" /\ Prunes(c, r)
      <3>1. backend = "redis" /\ ~HasSpace(c, entries[call[c].key]) /\ r.resetAt = Null
        BY <2>6 DEF Prunes
      <3>2. /\ \A e \in entries[call[c].key] : Owned(call[c].key, e)
            /\ IsFiniteSet(entries[call[c].key])
        BY <2>3 DEF Sourced, Sized
      <3>3. Cardinality(OwnCalls(c)') >= Limit[call[c].key]
        BY <2>4, <3>1, <3>2
      <3> QED BY <1>2, <2>2, <3>1, <3>3
    <2>7. CASE r.answer = "refused" /\ Looks(c, r)
      <3>1. r.pc = "done"
        BY <2>2, <2>7 DEF Looks, GoesOn
      <3>2. /\ backend = "firestore" /\ r.seen = call[c].seen /\ ~HasSpace(c, call[c].seen)
            /\ \E e \in r.seen : r.resetAt = e.at + Window
        BY <2>7, <3>1 DEF Looks
      <3>3. (\A e \in call[c].seen : Owned(call[c].key, e)) /\ IsFiniteSet(call[c].seen)
        BY <2>3 DEF Sourced, Sized
      <3>4. /\ Cardinality(OwnCalls(c)') >= Limit[call[c].key]
            /\ Cardinality(live(call[c].seen)) >= Limit[call[c].key]
        <4> HIDE DEF live
        <4> QED BY <2>4, <3>2, <3>3
      <3> QED BY <1>2, <2>2, <3>1, <3>2, <3>4 DEF W!Live
    <2>8. r.answer = "refused" => Prunes(c, r) \/ Looks(c, r)
      BY <1>6 DEF Counts
    <2> QED BY <2>5, <2>6, <2>7, <2>8
  <1>7. ASSUME NEW c \in Calls, NEW s \in Servers, Begins(c, s) PROVE Fair(c)'
    <2>1. call'[c].answer = "none" /\ call'[c].resetAt = Null
      BY <1>1, <1>7 DEF Begins, W!NoCall
    <2> QED BY <2>1
  <1>8. CASE \E c \in Calls, s \in Servers : Begins(c, s)
    <2>1. PICK c \in Calls, s \in Servers : Begins(c, s)
      BY <1>8
    <2>2. \A d \in Calls : d # c => call'[d] = call[d]
      BY <1>1, <2>1 DEF Begins
    <2>3. \A d \in Calls : Fair(d)'
      <3> HIDE DEF Fair
      <3> QED BY <1>5, <1>7, <2>1, <2>2
    <2> QED BY <2>3 DEF Refusals
  <1>9. CASE \E c \in Calls : \E r : Counts(c, r) \/ Prunes(c, r) \/ Looks(c, r)
    <2>1. PICK c \in Calls : \E r : Counts(c, r) \/ Prunes(c, r) \/ Looks(c, r)
      BY <1>9
    <2>2. PICK r : Counts(c, r) \/ Prunes(c, r) \/ Looks(c, r)
      BY <2>1
    <2>3. \A d \in Calls : d # c => call'[d] = call[d]
      BY <1>1, <2>2 DEF Counts, Prunes, Looks, GoesOn
    <2>4. Fair(c)'
      BY <1>6, <2>2
    <2>5. \A d \in Calls : Fair(d)'
      <3> HIDE DEF Fair
      <3> QED BY <1>5, <2>3, <2>4
    <2> QED BY <2>5 DEF Refusals
  <1>10. CASE W!Tick \/ (\E k \in Keys : W!Expire(k)) \/ UNCHANGED vars
    <2>1. call' = call
      BY <1>10 DEF W!Tick, W!Expire, vars
    <2>2. \A d \in Calls : Fair(d)'
      <3> HIDE DEF Fair
      <3> QED BY <1>5, <2>1
    <2> QED BY <2>2 DEF Refusals
  <1> QED BY <1>8, <1>9, <1>10, Moves

LEMMA LimitsStart ==
  ASSUME Init
  PROVE  LimitsInv
  <1> USE LimitsAre
  <1>1. /\ backend \in Backends /\ now = 0 /\ kind \in Loads
        /\ entries = [k \in Keys |-> {}] /\ expiry = [k \in Keys |-> 0]
        /\ call = [c \in Calls |-> W!NoCall]
    BY DEF Init, W!Init
  <1>2. \A c \in Calls : call[c] = W!NoCall
    BY <1>1
  <1>3. /\ W!NoCall.pc = "idle" /\ W!NoCall.answer = "none" /\ W!NoCall.seen = {}
        /\ W!NoCall.when = Null /\ W!NoCall.resetAt = Null
    BY DEF W!NoCall
  <1>4. TypeOK
    <2>1. W!NoCall \in W!Call
      <3>1. 0 \in 0..MaxTries
        OBVIOUS
      <3> QED BY <3>1 DEF W!NoCall, W!Call
    <2> HIDE DEF W!NoCall
    <2> QED BY <1>1, <2>1 DEF TypeOK, W!TypeOK
  <1>5. \A c \in Calls : ~Counted(c) /\ ~Running(c)
    BY <1>2, <1>3 DEF Counted, Running
  <1>6. CallsMade
    BY <1>2, <1>3, <1>5 DEF CallsMade
  <1>7. CallsOnTime /\ Kept
    BY <1>5 DEF CallsOnTime, Kept
  <1>8. Sized
    <2>1. \A k \in Keys : entries[k] = {} /\ Limit[k] \in Nat
      BY <1>1
    <2> QED BY <1>2, <1>3, <2>1, FS_EmptySet DEF Sized
  <1>9. Sourced
    BY <1>1, <1>2, <1>3 DEF Sourced
  <1>10. WindowsKept
    <2>1. \A k, t : CountedFrom(k, t) = {}
      BY <1>5 DEF CountedFrom
    <2>2. \A k \in Keys : Limit[k] \in Nat
      OBVIOUS
    <2> QED BY <2>1, <2>2, FS_EmptySet DEF WindowsKept
  <1>11. Refusals
    BY <1>2, <1>3 DEF Refusals
  <1> QED BY <1>4, <1>6, <1>7, <1>8, <1>9, <1>10, <1>11 DEF LimitsInv

THEOREM LimitsInvariant == Spec => []LimitsInv
  <1>1. Init => LimitsInv
    BY LimitsStart
  <1>2. LimitsInv /\ [Next]_vars => LimitsInv'
    <2> SUFFICES ASSUME LimitsInv, [Next]_vars PROVE LimitsInv'
      OBVIOUS
    <2>1. /\ TypeOK /\ CallsMade /\ CallsOnTime /\ Sized
          /\ Sourced /\ Kept /\ WindowsKept /\ Refusals
      BY DEF LimitsInv
    <2>2. TypeOK' /\ CallsMade' /\ CallsOnTime' /\ Sized'
      BY <2>1, TypeStep, CallsMadeStep, OnTimeStep, SizedStep
    <2>3. Sourced' /\ Kept' /\ WindowsKept' /\ Refusals'
      BY <2>1, SourcedStep, KeptStep, WindowsStep, RefusalsStep
    <2> QED BY <2>2, <2>3 DEF LimitsInv
  <1> QED BY <1>1, <1>2, PTL DEF Spec

-----------------------------------------------------------------------------
(* The theorems.                                                           *)

\* Calls and what is stored stay what they are (RateLimits.TypeOK).
THEOREM TypeCorrect == Spec => []TypeOK
  <1>1. LimitsInv => TypeOK
    BY DEF LimitsInv
  <1> QED BY <1>1, LimitsInvariant, PTL

\* What the outcome of a request says of its calls' answers.
LEMMA OutcomesAre ==
  ASSUME TypeOK, NEW q \in DOMAIN kind
  PROVE  /\ kind[q].limited /\ Outcome(q) = "next" => Result(q, "action") = "allowed"
         /\ Outcome(q) = "429" => Result(q, "action") = "refused" \/ Result(q, "global") = "refused"
  <1>1. "global" \in Limiters /\ "action" \in Limiters
    BY DEF Limiters
  <1>2. <<q, "global">> \in Calls /\ <<q, "action">> \in Calls
    BY <1>1, KeysOfRequests
  <1> DEFINE Answers == {"none", "allowed", "refused", "error"}
  <1>3. Result(q, "global") \in Answers /\ Result(q, "action") \in Answers
    BY <1>2 DEF Result, TypeOK, W!TypeOK, W!Call
  <1>4. \A a \in Answers : /\ RateLimiter(a) = "next" => a = "allowed"
                           /\ RateLimiter(a) = "429" => a = "refused"
                           /\ GlobalRateLimit(a) = "429" => a = "refused"
    BY DEF RateLimiter, GlobalRateLimit
  <1> HIDE DEF Answers
  <1> QED BY <1>3, <1>4 DEF Outcome

\* The key of a request's call names its origin.
LEMMA KeyIsOrigin ==
  ASSUME Attributed, TypeOK, CallsMade, NEW c \in Calls, call[c].pc # "idle"
  PROVE  call[c].key = <<c[2], kind[c[1]].origin>> /\ c[1] \in DOMAIN kind
  <1>1. call[c].key = KeyOf(c[2], c[1]) /\ c[1] \in DOMAIN kind
    BY DEF CallsMade
  <1>2. GetClientIP(kind[c[1]].peer, kind[c[1]].headers) = kind[c[1]].origin
    BY <1>1 DEF Attributed, TypeOK
  <1> QED BY <1>1, <1>2 DEF KeyOf

\* When GetClientIP finds the client: who comes without a trusted proxy is the peer,
\* whatever its headers say, and behind one the first trusted header that names an
\* address names the client.
LEMMA AttributedWhen ==
  ASSUME \A load \in Loads : \A q \in DOMAIN load :
           LET r == load[q]
               names(i) == Named(TrustedHeaders[i], r.headers[TrustedHeaders[i]])
           IN  \/ ~IsTrustedProxy(r.peer) /\ r.peer = r.origin
               \/ /\ IsTrustedProxy(r.peer)
                  /\ \E i \in DOMAIN TrustedHeaders : /\ names(i) = {r.origin}
                                                      /\ \A j \in 1..(i - 1) : names(j) = {}
  PROVE  Attributed
  <1>1. ASSUME NEW load \in Loads, NEW q \in DOMAIN load
        PROVE  GetClientIP(load[q].peer, load[q].headers) = load[q].origin
    <2> DEFINE r == load[q]
               names(i) == Named(TrustedHeaders[i], r.headers[TrustedHeaders[i]])
               naming == {i \in DOMAIN TrustedHeaders : names(i) # {}}
    <2>1. CASE ~IsTrustedProxy(r.peer)
      BY <2>1 DEF GetClientIP
    <2>2. CASE IsTrustedProxy(r.peer)
      <3>1. PICK i \in DOMAIN TrustedHeaders : /\ names(i) = {r.origin}
                                               /\ \A j \in 1..(i - 1) : names(j) = {}
        BY <2>2
      <3>2. DOMAIN TrustedHeaders = 1..Len(TrustedHeaders) /\ Len(TrustedHeaders) \in Nat
        BY HeadersAssumption
      <3>3. i \in naming
        BY <3>1
      <3>4. ASSUME NEW j \in naming PROVE i <= j
        <4>1. j \in 1..Len(TrustedHeaders) /\ i \in 1..Len(TrustedHeaders) /\ names(j) # {}
          BY <3>2
        <4> HIDE DEF names
        <4>2. j \notin 1..(i - 1)
          BY <3>1, <4>1
        <4> QED BY <3>2, <4>1, <4>2
      <3>5. Min(naming) = i
        <4> HIDE DEF naming
        <4>1. \A j \in naming : j \in Int /\ i \in Int
          BY <3>2 DEF naming
        <4> QED BY <3>3, <3>4, <4>1 DEF Min
      <3>6. r.headers[TrustedHeaders[i]][1] = r.origin
        BY <3>1 DEF Named
      <3>7. GetClientIP(r.peer, r.headers) = r.headers[TrustedHeaders[Min(naming)]][1]
        BY <2>2, <3>3 DEF GetClientIP
      <3> HIDE DEF naming
      <3> QED BY <3>5, <3>6, <3>7
    <2> QED BY <2>1, <2>2
  <1> QED BY <1>1 DEF Attributed

\* Whatever the loads, if GetClientIP finds the client of every request of theirs: no
\* window of a client has more requests handled than the limit, on Redis and on
\* Firestore, with any number of requests and servers (CheckRateLimit behind
\* GlobalRateLimit and RateLimiter).
THEOREM WithinTheLimit ==
  ASSUME Attributed
  PROVE  Spec => []WithinWindow
  <1>1. ASSUME LimitsInv, NEW l \in Limiters, NEW o \in Addresses, NEW q \in Passed(l, o)
        PROVE  LET inWindow == {r \in Passed(l, o) :
                                  PassedAt(l, r) \in PassedAt(l, q)..(PassedAt(l, q) + Window - Spread - 1)}
               IN  Cardinality(Slots(l, inWindow)) <= LimitOf(l)
    <2> DEFINE t == PassedAt(l, q)
               inWindow == {r \in Passed(l, o) : PassedAt(l, r) \in t..(t + Window - Spread - 1)}
               k == <<l, o>>
               counted == CountedFrom(k, t)
    <2>1. TypeOK /\ CallsMade /\ WindowsKept
      BY <1>1 DEF LimitsInv
    <2>2. ASSUME NEW r \in Passed(l, o)
          PROVE  /\ <<r, l>> \in Calls /\ Counted(<<r, l>>) /\ call[<<r, l>>].key = k
                 /\ PassedAt(l, r) = call[<<r, l>>].when /\ PassedAt(l, r) \in Nat /\ Spread \in Nat
      <3>1. r \in DOMAIN kind /\ kind[r].origin = o
        BY DEF Passed
      <3>2. <<r, l>> \in Calls
        BY <2>1, <3>1, KeysOfRequests
      <3>3. Result(r, l) = "allowed"
        BY <2>1, <3>1, OutcomesAre DEF Passed, Limiters
      <3>4. Counted(<<r, l>>)
        BY <2>1, <3>2, <3>3 DEF Result, CallsMade
      <3>5. call[<<r, l>>].pc # "idle" /\ call[<<r, l>>].when \in Nat
        BY <2>1, <3>2, <3>4, CountedRan
      <3>6. Spread \in Nat
        BY <2>1, <3>2, <3>5, CallersAre
      <3>7. call[<<r, l>>].key = k
        <4> DEFINE c == <<r, l>>
        <4>1. c \in Calls /\ call[c].pc # "idle" /\ c[1] = r /\ c[2] = l
          BY <3>2, <3>5
        <4> HIDE DEF c
        <4>2. call[c].key = <<c[2], kind[c[1]].origin>>
          BY <2>1, <4>1, KeyIsOrigin
        <4>3. call[c].key = k
          BY <3>1, <4>1, <4>2
        <4> QED BY <4>3 DEF c
      <3> QED BY <3>2, <3>4, <3>5, <3>6, <3>7 DEF PassedAt, Counted
    <2>3. t \in Nat /\ Spread \in Nat
      BY <2>2
    <2>4. ASSUME NEW r \in inWindow PROVE W!Member(<<r, l>>) \in counted
      <3>1. r \in Passed(l, o) /\ PassedAt(l, r) \in t..(t + Window - Spread - 1)
        OBVIOUS
      <3>2. /\ <<r, l>> \in Calls /\ Counted(<<r, l>>) /\ call[<<r, l>>].key = k
            /\ PassedAt(l, r) = call[<<r, l>>].when
        BY <2>2, <3>1
      <3>3. t <= call[<<r, l>>].when /\ call[<<r, l>>].when < t + Window - Spread
        <4> HIDE DEF t
        <4> QED BY <2>2, <2>3, <3>1, <3>2, LimitsAre
      <3> HIDE DEF t
      <3> QED BY <3>2, <3>3 DEF CountedFrom
    <2>5. IsFiniteSet(counted)
      BY CountedFromFinite
    <2>6. Cardinality(counted) <= LimitOf(l)
      <3>1. k \in Keys /\ Limit[k] = LimitOf(l)
        BY DEF Keys, Limit
      <3> HIDE DEF t
      <3> QED BY <2>1, <2>3, <3>1 DEF WindowsKept
    <2> DEFINE f == IF backend = "redis" THEN [e \in counted |-> e.at]
                                         ELSE [e \in counted |-> e.by[1]]
               slots == Slots(l, inWindow)
    <2>7. ASSUME NEW x \in slots PROVE \E e \in counted : f[e] = x
      <3>1. CASE backend = "redis"
        <4>1. PICK r \in inWindow : x = call[<<r, l>>].at
          BY <2>7, <3>1 DEF Slots
        <4>2. W!Member(<<r, l>>).at = x
          BY <4>1 DEF W!Member
        <4>3. W!Member(<<r, l>>) \in counted
          BY <2>4
        <4> HIDE DEF counted, inWindow
        <4> QED BY <3>1, <4>2, <4>3
      <3>2. CASE backend # "redis"
        <4>1. x \in inWindow
          BY <2>7, <3>2 DEF Slots
        <4>2. W!Member(<<x, l>>).by = <<x, l>>
          BY <3>2 DEF W!Member
        <4>3. W!Member(<<x, l>>) \in counted
          BY <2>4, <4>1
        <4> HIDE DEF counted, inWindow
        <4> QED BY <3>2, <4>2, <4>3
      <3> QED BY <3>1, <3>2
    <2>8. DOMAIN f = counted
      OBVIOUS
    <2> HIDE DEF f, counted, slots
    <2>9. IsFiniteSet(slots) /\ Cardinality(slots) <= Cardinality(counted)
      BY <2>5, <2>7, <2>8, CoveredIsSmaller
    <2>10. Cardinality(slots) <= LimitOf(l)
      <3>1. LimitOf(l) \in Nat
        <4>1. <<l, o>> \in Keys /\ Limit[<<l, o>>] = LimitOf(l)
          BY DEF Keys, Limit
        <4> QED BY <4>1, LimitsAre
      <3> QED BY <2>5, <2>6, <2>9, <3>1, FS_CardinalityType
    <2> QED BY <2>10 DEF slots
  <1>2. LimitsInv => WithinWindow
    BY <1>1 DEF WithinWindow
  <1> QED BY <1>2, LimitsInvariant, PTL

\* Under the same condition: who is answered 429 had the limit's number of requests
\* of its own counted in its window (the scripts and transactions of CheckRateLimit
\* count a client's own requests, each once).
THEOREM RefusedForItsOwn ==
  ASSUME Attributed
  PROVE  Spec => []RefusedForOwn
  <1>1. ASSUME LimitsInv, NEW q \in DOMAIN kind, Outcome(q) = "429"
        PROVE  LET l == IF Result(q, "action") = "refused" THEN "action" ELSE "global"
                   own == {r \in DOMAIN kind : /\ kind[r].origin = kind[q].origin
                                               /\ call[<<r, l>>].when # Null
                                               /\ call[<<r, l>>].at > call[<<q, l>>].at - Window}
               IN  Cardinality(own) >= LimitOf(l)
    <2> DEFINE l == IF Result(q, "action") = "refused" THEN "action" ELSE "global"
               own == {r \in DOMAIN kind : /\ kind[r].origin = kind[q].origin
                                           /\ call[<<r, l>>].when # Null
                                           /\ call[<<r, l>>].at > call[<<q, l>>].at - Window}
               c == <<q, l>>
               f == [r \in own |-> <<r, l>>]
    <2>1. TypeOK /\ CallsMade /\ Refusals
      BY <1>1 DEF LimitsInv
    <2>2. l \in Limiters /\ Result(q, l) = "refused"
      BY <1>1, <2>1, OutcomesAre DEF Limiters
    <2> HIDE DEF l
    <2>3. c \in Calls /\ c[1] = q /\ c[2] = l /\ call[c].answer = "refused"
      BY <2>1, <2>2, KeysOfRequests DEF Result
    <2>4. call[c].pc # "idle"
      BY <2>1, <2>3 DEF CallsMade, W!NoCall
    <2>5. call[c].key = <<l, kind[q].origin>>
      <3> HIDE DEF c
      <3> QED BY <2>1, <2>3, <2>4, KeyIsOrigin
    <2>6. Cardinality(OwnCalls(c)) >= Limit[call[c].key]
      <3> HIDE DEF c
      <3> QED BY <2>1, <2>3 DEF Refusals
    <2>7. call[c].key \in Keys /\ Limit[call[c].key] = LimitOf(l) /\ LimitOf(l) \in Nat
      <3>1. call[c].key \in Keys
        <4> HIDE DEF c
        <4> QED BY <2>1, <2>3, <2>4, CallersAre
      <3>2. Limit[call[c].key] = LimitOf(l)
        BY <2>5, <3>1 DEF Limit
      <3> QED BY <3>1, <3>2, LimitsAre
    <2>8. ASSUME NEW d \in OwnCalls(c) PROVE \E r \in own : f[r] = d
      <3>1. /\ d \in Calls /\ call[d].key = call[c].key /\ Counted(d)
            /\ call[d].at > call[c].at - Window
        BY DEF OwnCalls
      <3>2. call[d].pc # "idle"
        BY <2>1, <3>1, CountedRan
      <3>3. call[d].key = <<d[2], kind[d[1]].origin>> /\ d[1] \in DOMAIN kind
        BY <2>1, <3>1, <3>2, KeyIsOrigin
      <3>4. d[2] = l /\ kind[d[1]].origin = kind[q].origin
        BY <2>5, <3>1, <3>3
      <3>5. d = <<d[1], l>>
        BY <3>1, <3>4 DEF Calls
      <3>6. d[1] \in own
        BY <3>1, <3>3, <3>4, <3>5 DEF Counted
      <3> HIDE DEF own
      <3> QED BY <3>5, <3>6
    <2>9. IsFiniteSet(own)
      <3>1. own \in SUBSET Requests
        BY <2>1, <2>2, KeysOfRequests
      <3> HIDE DEF own
      <3> QED BY <3>1, CallsFinite, FS_Subset
    <2>10. DOMAIN f = own
      OBVIOUS
    <2> HIDE DEF own, f, c
    <2>11. IsFiniteSet(OwnCalls(c)) /\ Cardinality(OwnCalls(c)) <= Cardinality(own)
      BY <2>8, <2>9, <2>10, CoveredIsSmaller
    <2>12. Cardinality(own) >= LimitOf(l)
      BY <2>6, <2>7, <2>9, <2>11, FS_CardinalityType
    <2> QED BY <2>12 DEF own, l
  <1>2. LimitsInv => RefusedForOwn
    BY <1>1 DEF RefusedForOwn
  <1> QED BY <1>2, LimitsInvariant, PTL

\* The reset time of a refusal (TxRefuse): who asks at or after it and is refused has
\* seen a request counted that the first refusal had not.
THEOREM ResetIsHonest == Spec => []ResetHonest
  <1>1. ASSUME LimitsInv, NEW c \in Calls, NEW d \in Calls,
               call[c].resetAt # Null, call[d].answer = "refused",
               call[c].key = call[d].key, call[d].at >= call[c].resetAt,
               call[d].seen \subseteq call[c].seen
        PROVE  FALSE
    <2>1. TypeOK /\ CallsMade /\ Sized /\ Refusals
      BY <1>1 DEF LimitsInv
    <2>2. backend = "firestore" /\ call[c].pc = "done"
      BY <1>1, <2>1 DEF Refusals
    <2>3. PICK e \in call[c].seen : call[c].resetAt = e.at + Window
      BY <1>1, <2>1 DEF Refusals
    <2>4. call[c].key \in Keys
      BY <2>1, <2>2, CallersAre
    <2>5. IsFiniteSet(call[c].seen) /\ Cardinality(call[c].seen) <= Limit[call[c].key]
      BY <2>1, <2>2 DEF Sized
    <2> DEFINE live == W!Live(call[d].seen, call[d].at)
               rest == call[c].seen \ {e}
    <2>6. Cardinality(live) >= Limit[call[c].key]
      BY <1>1, <2>1, <2>2 DEF Refusals
    <2>7. live \subseteq rest
      <3>1. e.at \in Int /\ call[d].at \in Int /\ Window \in Nat
        BY <2>1, LimitsAre DEF TypeOK, W!TypeOK, W!Call, W!Entry
      <3>2. e \notin live
        BY <1>1, <2>3, <3>1 DEF W!Live
      <3>3. live \subseteq call[d].seen
        BY DEF W!Live
      <3> HIDE DEF live
      <3> QED BY <1>1, <3>2, <3>3
    <2>8. IsFiniteSet(rest) /\ Cardinality(rest) = Cardinality(call[c].seen) - 1
      BY <2>5, FS_RemoveElement
    <2> HIDE DEF live, rest
    <2>9. IsFiniteSet(live) /\ Cardinality(live) <= Cardinality(rest)
      BY <2>7, <2>8, FS_Subset
    <2>10. Limit[call[c].key] \in Nat
      BY <2>4, LimitsAre
    <2> QED BY <2>5, <2>6, <2>8, <2>9, <2>10, FS_CardinalityType
  <1>2. LimitsInv => ResetHonest
    BY <1>1 DEF ResetHonest
  <1> QED BY <1>2, LimitsInvariant, PTL

=============================================================================
