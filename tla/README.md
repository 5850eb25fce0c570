# bincrypt: models, model checking and proofs

bincrypt is a paste service. A browser encrypts a text and posts the ciphertext;
the server stores it under a random id, deduplicates equal contents, refuses
banned ones, hands a paste out until it expires, and hands a *burn-after-read*
paste out once. This directory holds TLA+ modules of the server
(`src/src/*.go`, `src/src/services/*.go`), the TLC configurations that check
them, and the theorems TLAPS proves about them. `PROJECT.json` maps each
definition to the lines it models and lists runs, mutants, hazards, findings and
theorems.

## 1. The system: an inventory

| component | state | operations | talks to |
|---|---|---|---|
| SQL storage, `storage_sqlite.go`, `storage_postgres.go`, the facade `storage_backend.go`, the schema in `migrations/` | tables `pastes`, `hash_index`, `burned_pastes`, `banned_hashes` | SavePaste, GetPaste, MarkBurned, DeletePaste, BanContentHash, BanPlaintextHash, `cleanup_expired_pastes` | handlers, deletion workers, ban tools |
| GCS storage, `storage_gcs.go` | objects `pastes/`, `burns/`, `hashes/`, `banned-hashes/` | the same interface, without transactions | the same |
| Deletion queue, `deletion_queue.go` | channel of 1000 ids, `closed`, a mutex, a context, 5 workers' state | QueueDeletion, worker, Shutdown | handlers (producers), storage, `Server.Shutdown` |
| Paste API handlers, `handlers_paste.go`, `validation.go` | what a request holds between two calls | CreatePaste, GetPasteAPI (ViewPaste and HealthCheck keep no state) | storage, queue |
| Server lifecycle, `server.go`, `main.go` | `httpServer`, the listener, the order of the shutdown | main (signal, error, exit), Start, Shutdown | net/http, queue, limiter, storage, secrets |
| In-memory rate limiter, `ratelimit.go` | buckets, two channels | CheckRateLimit, cleanup, Stop | middleware, `Server.Shutdown` |
| Redis and Firestore rate limiters, `ratelimit_redis.go`, `ratelimit_firestore.go`, chosen in `ratelimit_factory.go` | a sorted set or an array of timestamps per key, shared by all servers | CheckRateLimit | middleware, the store |
| Middleware, `middleware.go` | none | rate limits (fail closed per action, fail open globally), header checks, CSP, CORS, recovery | limiter, client address, secrets |
| Client address, `utils/ip.go`, `config/trusted_proxies.go` | the trusted proxies and headers | GetClientIP | middleware |
| Secrets, `config/secrets.go` | the provider, under `providerMu` | GetSecret, Close | every request, main |
| Ban tools, `cmd/banhash`, `cmd/banplaintext` | none | one ban per call, from another process | storage |
| Invoices, the values of the configuration, logging, migrations runner, the browser client | caches, counters | | |

What makes it hard:

* **Concurrency.** Every request is a goroutine. A save is several statements,
  only the last of which form a transaction; on GCS every request to the bucket
  stands alone. Deletion workers, the operator's ban tools and the expiry sweep
  work on the same tables.
* **Sharing.** A deduplicated paste refers to another one's content; the two have
  their own lifetimes, burn flags and markers.
* **Failure.** A commit can take effect and lose its answer; DeletePaste on
  PostgreSQL and GCS is two steps; the queue is in memory, refuses ids when it is
  full, and never retries; the process can die between a claim and a deletion.
* **Ordering and timeouts.** Shutdown closes a channel handlers send on, waits for
  a pool with a timer, and closes the storage the pool uses; main closes the
  secrets after it, which requests may still be reading.
* **Clocks.** Rate limits compare the clocks of several servers, read before a
  mutex, a script or a transaction that may be repeated is reached.

The properties that make the components correct: a reader gets the text of its
id or nothing; one reader gets a burn-after-read paste; what is gone stays gone;
the tables stay consistent through deletions; a content banned before a save is
not saved by it; an accepted deletion is tried once; shutdown neither panics nor
hangs and closes things in order; a client passes a limit as often as it says,
and is refused for its own requests only; and nothing is erased that others may
read.

## 2. The modules

| module | models | state and actions |
|---|---|---|
| `PasteStore` | the abstract promise of a store | `text`, `shown`, `reads`; Put, Take, Hide |
| `SqlStorage` | both SQL backends | the four tables; per client the next statement of its call. SaveStart, SaveCheckPlaintext, SaveCheckHash, SaveTx, SaveError are SavePaste; GetPaste (one transaction) writes only as `Claim`; DeletePaste and DeleteMarker are the two statements of PostgreSQL, one on SQLite (`Remote = FALSE`) |
| `GcsStorage` | the bucket backend | the four object families; one action per request of SavePaste, GetPaste and DeletePaste, each of which can fail with or without effect |
| `DeletionTasks` | the abstract promise of a deletion queue | `task` per id: none, rejected, queued, deleted, failed |
| `DeletionQueue` | the channel, the mutex, the pool, Shutdown | QueueDeletion as lock / check / send, a worker as receive / delete / exit, Shutdown as lock / check / close / unlock / done or timeout |
| `PasteService` | the two handlers and the workers in a process that may die | extends `SqlStorage` (its actions are the handlers' calls) and adds `DeletionTasks` (in place of the channel: `DeletionQueue` is checked to implement it) |
| `ServerLifecycle` | Start, requests in flight, `Server.Shutdown`, `RateLimitService.Stop` | extends `DeletionQueue`: handlers are its producers, calls of `Server.Shutdown` its stoppers |
| `TokenBucket` | the in-memory limiter's CheckRateLimit and cleanup | `buckets`; a call is ReadClock, then Admit or Deny under the mutex; a cleanup is CleanupStart, then Cleanup under the mutex |
| `ServerMain` | main around the server: the signal, Start's error, `config.Close`, the exit; requests that read secrets | extends `ServerLifecycle`; `main`, `reading` and `ready` (who holds `providerMu`, who has read). `program` says whether main runs the server, and alone calls Shutdown, or a test does, from anywhere |
| `SlidingWindow` | CheckRateLimit on the two shared stores | `entries` and their `expiry`, per call where it is. On Redis a call is one script, run, run with its answer lost, or failed; on Firestore TxGet, then TxRefuse, TxCommit, TxCommitLost, TxAborted or TxFails |
| `ClientAddress` | GetClientIP under the trusted proxies and headers | operators only |
| `RateLimits` | GlobalRateLimit and RateLimiter in front of the routes | composes `SlidingWindow` (by INSTANCE, a call per middleware) with `ClientAddress` (the keys); what becomes of a request follows from its limiters' answers (`Outcome`) |
| `SqlStorage_proofs`, `PasteService_proofs`, `GcsStorage_proofs`, `DeletionQueue_proofs`, `ServerMain_proofs`, `TokenBucket_proofs`, `RateLimits_proofs` | theorems | each extends the module it is about; those about a composition extend the proofs about its parts |
| `MC*` | constants, symmetry | one per run family |

Abstractions shared by all of them: strings, ids and digests are model values;
SHA-256 is collision free and ids do not repeat (`Fresh`); columns and metadata
no statement reads back are left out. Time is a clock of whole seconds that
`MaxTime` stops (in `TokenBucket`, of parts of the time a token takes; in
`SlidingWindow`, of the finest difference of two scores). History
variables (`text`, `reads`, `knownBans`, `served`, `gone`, `outlived`, `status`,
`early`, `watch`, `denied`, `when`, `began`) are read by no guard that models code,
except that `text` stands for "ids a client was given" and keeps ids fresh.
Malformed requests are refused before any state is touched and are left out.

There are two clocks. The rows' deadlines are computed with the server's
(`storage_postgres.go:69`), and the handler compares them with it again
(`handlers_paste.go:191`); the queries and the sweep use the database's NOW(). `now` is
the database's, `Clock == now + Skew` the server's; on SQLite both are the same host's
(`SkewAssumption`).

Why transactions are single steps in `SqlStorage`: SQLite is opened with one
connection (`SetMaxOpenConns(1)`), and PostgreSQL's transactions are
SERIALIZABLE; one that cannot be ordered fails, which is `SaveError`, or a
GetPaste that changes nothing. The ban checks of SavePaste are made before the
transaction begins and are steps of their own. `GetPasteAnswerLost` is the
commit that took effect and whose answer was lost, `DeletePasteAnswerLost` the same of
DeletePaste's first statement, which then returns its error without the second. A save
whose commit took effect and whose answer was lost is `SaveTx` to the storage, whose
callers' answers are not its state; `CreateFails` takes it with the handler's error.

## 3. What the runs check

| run | properties | states | what it shows |
|---|---|---|---|
| `sql_storage` | TypeOK, ReferentialIntegrity, SingleCopy, ContentIntegrity, BurnOnce, BanChecked, ImplementsStore | 771 410 | the tables are consistent at every statement; equal contents are stored once under concurrent saves; a burn paste has one reader; no save stores what was banned before it began; the tables refine `PasteStore` |
| `deletion_queue` | TypeOK, NoPanic, ExactlyOnce, GracefulDrain, DoomedByTimeout, ImplementsTasks, PoolEnds | 22 083 | no send on, nor second close of, a closed channel; accepted ids are in one place; a nil Shutdown has drained; deletions are doomed by a timeout only; every accepted deletion is tried (liveness), and pool and Shutdowns end |
| `paste_service` | ServiceTypeOK, ServedOnce, GoneStaysGone, DoneIsErased, ErasedForReason | 2 517 031 | burn-after-read across handlers, workers, lost answers, two clocks and a crash; a reader that was told "gone" is never followed by one that is served; only claimed or expired pastes are erased |
| `gcs_storage` | TypeOK, ContentIntegrity, BurnOnceOriginal, BanChecked | 3 002 888 | the bucket never hands out another id's text; an *original* is read once although markers can be removed; bans hold |
| `server_lifecycle` | MainTypeOK, HandlersFirst, StorageLast, SecretsLast, ExitDrained, OneReturns, MainEnds | 370 006 | handlers are waited for before the queue is closed, the pool before the storage, and the requests before the secrets, except after the timeouts the code logs; main returns with nothing accepted left over but after those; one Shutdown returns, and a signal ends the program |
| `token_bucket` | TypeOK, WithinRate, RetryHonest | 301 914 | over any stretch of time a key is admitted for one full bucket and the tokens of the time that passed, although readings of the clock reach the bucket out of order and idle buckets are forgotten; who comes back when told is admitted |
| `rate_limits` | TypeOK, WithinWindow, RefusedForOwn, ResetHonest, AllAnswered | 451 603 | over two servers and a shared store that loses answers, aborts transactions and fails, no more than the limit passes in a window; who is refused has used up the limit itself, not another client behind the same proxy and not an outage; a reset time is honest; everybody is answered |

Every property has a mutant in `PROJECT.json`: a definition `X_Change` beside `X`
is the code with one plausible bug, and the run finds the property violated
when `X` is replaced by it.

Five runs show a disagreement between the code and what the sources say of it:

| run | violated | the code | the text |
|---|---|---|---|
| `lost_duplicate` | DuplicateReadable | deleting an original sets its duplicates' `references_id` to NULL (`storage_sqlite.go:70`); their own content is NULL, so live duplicates answer 404 | `tests/go/storage_sqlite_test.go:115` |
| `burned_status` | BurnedIsGone | the second reader is answered 500 by `ValidateBase64` (`handlers_paste.go:180`), the 410 branch is never reached | `handlers_paste.go:199` |
| `burned_erased` | BurnedErased | a refused or failed deletion of a viewed paste is logged and forgotten; on SQLite nothing else removes the row | `static/viewer.html:361` |
| `gcs_second_reader` | BurnOnce | DeletePaste removes a reference's object, then its marker; a second reader that was past its marker check claims again and reads the original's object | `storage_gcs.go:193` |
| `shutdown_twice` | EveryCallReturns | the second `RateLimitService.Stop` finds its buffered channel free and waits for a goroutine that has gone (`ratelimit.go:62`) | `server.go:148` |

Divergences that have no run of their own:

* `worker`'s comment ("runs until the context is cancelled",
  `deletion_queue.go:69`): it runs until the channel is closed and drained, with a
  cancelled context for what is left after a timeout.
* `static/about.html:264` says that expired pastes are deleted. The queries hide them;
  on SQLite nothing removes their rows, and PostgreSQL's sweep is scheduled in a
  comment only (`migrations/001_initial_schema.sql:64`).
* The Redis limiter answers no reset time and no Retry-After with a refusal: the
  script returns the oldest score, which Redis renders as a string, and
  `ratelimit_redis.go:123` asserts an int64. The repository's own test expects a
  positive wait (`tests/go/ratelimit_redis_test.go`). In the model `resetAt` stays
  Null in a refusal of RunScript, so ResetHonest is about Firestore.
* Redis counts requests whose clock readings round to the same score once, because
  the score is also the member. WithinWindow therefore counts `Slots`, not
  requests, on Redis.

### Bounds, and why they are enough

* `sql_storage`: two clients (the races are between two calls), three ids (an
  original and two duplicates, or a new original after a deletion), two strings
  chosen so that the envelope's plaintext digest *is* the other string's content
  digest (the case in which the two kinds of ban and of hash could be mixed up),
  one ban, a lifetime of 1 and a clock to 2 (live, expired by the query, expired
  for the sweep). `Remote = TRUE` has every behaviour of `Remote = FALSE` but the
  one-step DeletePaste; the violation runs use FALSE and the proofs cover both.
* `deletion_queue`: a buffer of one and three ids fill, refuse and drain; two of
  every kind of goroutine, so two Shutdowns race each other and the producers.
* `paste_service`: two ids with one text, so the second paste is a duplicate of
  the first; two handlers, one worker, one ban, one crash. A skew of 2 and a lifetime
  of 1 are the smallest with which a paste that was just saved can be over for the
  handler while the database shows it; the clock goes to 4, where the database's sweep
  has its turn. A server whose clock is behind is covered by the theorems. ErasedForReason
  names both clocks: an unclaimed row goes when it is over by either.
* `gcs_storage`: two clients, two ids and two strings, one failing request, one ban.
  Every request can fail, those of the expiry sweep included, whose outcome the code
  ignores.
* `server_lifecycle`: two handlers, two ids and a buffer of one, one worker; main's
  Shutdown, or two Shutdowns of a test. Start sets `httpServer` and listens in two
  steps, between which a Shutdown finds a server that never serves; statements in flight
  when the storage is closed may still succeed.
* `rate_limits`: both limits are one, and there are three loads. Four requests of one
  client, directly and through a proxy: one that is counted, one that is refused and
  told a reset time, and one that comes back at it and is refused only if another was
  counted since (ResetHonest); three of two clients behind one proxy; and two of one
  client on a route with a limit of its own, in front of which the global limiter may
  fail and let both pass. Requests are numbered as they arrive, which leaves out only
  renamings. Two servers, one clock a tick ahead; a window of four ticks and a
  clock to four, which with the clock ahead is enough for an entry to go out of the
  window, and on Redis out of the store. A Firestore document expires after two windows,
  beyond the clock's bound: that case is covered by WithinTheLimit alone. One
  repetition of a command or transaction (`MaxTries`, which stands for all that the
  library makes: go-redis makes three of EVALSHA and, if the script is not loaded, as
  many of EVAL). WithinWindow is
  stated for the window less `Spread`, what skew and lag can be: with unbounded lag
  (`MaxLag`) no bound holds, as in `token_bucket`.
* `token_bucket`: two clients and one key (keys share nothing but the mutex), a
  bucket of two that refills in four ticks, forgotten after six, a clock to 11:
  drained, starved, refilled, forgotten, and used again. `IdleAssumption` is the
  code's two hours against windows of a minute (`server.go`); the mutant of `Expired` shows that WithinRate needs it. `MaxLag` is how late a goroutine may be at
  the mutex after it has read the clock: the code sets no bound, and both
  properties are stated with it because without it they are false. The float
  arithmetic of `elapsed * refillRate` is exact here.

Deadlock checking is off in all runs: a service with every request answered, the
clock at its bound and everything shut down is allowed to stop. What must not
stop is stated as liveness (PoolEnds, ImplementsTasks, OneReturns, MainEnds, AllAnswered).

### Fairness

* Handlers inside QueueDeletion, workers, and Shutdowns that have begun are weakly
  fair: goroutines are scheduled, DeletePaste ends with its five-second context
  (`deletion_queue.go:79`), and Shutdown's timer fires (line 158). Nothing makes a
  client send a request or anybody call Shutdown.
* `PasteService` is fair to requests that were begun and to workers, not to new
  requests, the clock, bans, or crashes. `BurnedErased` is violated under it.
* `ServerLifecycle` does not assume that a client ever finishes: `HttpTimeout` is
  what ends `http.Server.Shutdown` then.
* `ServerMain` adds main itself, and that the reading of a secret ends (the
  environment answers at once, the Secret Manager's client has a timeout).
* `RateLimits` is fair to requests that have arrived: their goroutines run, and a
  call of the store answers, fails or is repeated a bounded number of times.
* The storage modules and `TokenBucket` state safety only.

## 4. What is proved

Every safety invariant and action property that a passing run checks is also a
theorem, for every value of the constants that satisfies the named assumptions:

* storage and service: digests of different strings differ (`HashAssumption`), Null is
  no value (`IdsAssumption`, `NullAssumption`), lifetimes are numbers
  (`TTLAssumption`), counts of faults and crashes too (`FaultsAssumption`,
  `CrashesAssumption`), the server's clock is off by any number of ticks
  (`SkewAssumption`), and a client is a handler or a worker (`ClientsAssumption`);
* queue and server: the buffer has a place, the pool is finite and not empty,
  goroutines have one role (`CapacityAssumption`, `WorkersAssumption`,
  `DistinctAssumption`), and main's Shutdown is one of those there are
  (`MainAssumption`);
* rate limits: limits, windows and periods are positive, clocks are ahead by finitely
  much, headers are a list, requests are finitely many (`LimitAssumption`,
  `WindowAssumption`, `HeadersAssumption`, `RequestsAssumption`, `LoadsAssumption`), and
  a bucket is idle for longer than it takes to refill (`IdleAssumption`).

| module | theorems |
|---|---|
| `SqlStorage_proofs` | TypeCorrect, ReferencesResolve, ContentStoredOnce, AtMostOneReader, ReadersGetTheirText, BansEnforced, Implements (the tables implement `PasteStore`) |
| `PasteService_proofs` | ServiceTypeCorrect, OneResponse, NothingComesBack, DeletionsAreReal, ErasedOnlyForReason; TablesSurvive and BansSurvive (what `SqlStorage` guarantees holds under handlers, workers and crashes), ServiceImplementsStore (the service implements `PasteStore`) |
| `GcsStorage_proofs` | TypeCorrect, ReadersGetTheirText, OriginalsReadOnce, BansEnforced |
| `DeletionQueue_proofs` | TypeCorrect, NeverPanics, DrainedGracefully, AcceptedOnce, OnlyTimeoutDooms, ImplementsSafely (every step is a step of `DeletionTasks` or a stutter) |
| `ServerMain_proofs` | MainTypeCorrect, HandlersStopFirst, StorageClosesLast, SecretsCloseLast, ExitsDrained; QueueHoldsUp (what `DeletionQueue` guarantees holds in the program) and ProgramImplementsTasks |
| `TokenBucket_proofs` | TypeCorrect, NeverAboveRate, RetryIsHonest |
| `RateLimits_proofs` | TypeCorrect, ResetIsHonest; and if GetClientIP finds the client of every request (`Attributed`), WithinTheLimit and RefusedForItsOwn |

Hardly any of these properties is inductive alone. What follows is the invariant each
argument needs, and why.

**The tables.** `TypeInv` adds to TypeOK that a call in progress has arguments of its
kind. `StoreInv` adds: a row carries the digest of the text its id was saved with,
and a row with content carries that text (`RowText`, which with collision freedom
makes "same digest" mean "same text" in ReferentialIntegrity); the id of a save in
progress is nobody else's (`SaveOwnsId`); a two-statement delete is at its second
statement only with the row gone (`UnmarkGone`); and what was read was saved
(`ReadsStored`). `BanInv` adds that the bans a save began with are still in the table
(`BansKnown`, because a conflict keeps the type) and that a save past its plaintext
check was not banned (`PlaintextChecked`). Implements then maps every step to Put,
Take, Hide or a stutter.

**The service.** Every step of it but a crash is a step of the storage or leaves the
storage alone (`StorageStep`), and a crash keeps the tables, so `StoreInv` and `BanInv`
carry over without a second proof. The refinement is used, not only stated: that a
hidden paste stays hidden (`HiddenStays`) is read off `PasteStore`'s steps instead of
the tables' statements. `ServiceInv` adds what a handler holds between its calls: a
paste with the deadline of its row (`HeldPastes`), a claim that is its own, unserved
and read once (`HeldClaims`, the heart of ServedOnce). An id somebody was told is gone is
hidden or over by the server's clock (`GoneHidden`): under skew the database may show
it still, but who loads it then holds a paste that is over (`HeldInTime`), and the
handler's own look at the clock refuses it.

**The bucket.** Without transactions, a call may only rely on what no other request
can undo. That is `Settled`: an id that was written with its content keeps its text,
and can lose its object but never become a reference, because ids are not used
again. `CallKnows` says at which request of a call which id is settled, and
ContentIntegrity follows. For OriginalsReadOnce, `ClaimedOnce`: while the object of an
original is there, its first claim is marked and its claimant is the only one; a
marker goes after its object (`CallBurns`), unless a removal failed (`outlived`).
`SaveChecked` carries BanChecked from one check of a save to the next.

**The queue.** `MutexInv`: a goroutine between Lock and Unlock is the holder; `closed`
and `chanClosed` differ only while a Shutdown is about to close; so a producer that
saw `closed` false sends on an open channel. `DrainInv`: workers exit only with the
channel closed and empty, and a closed channel gets no more ids; so when all have
exited nothing is pending. `OnceInv`: an id a handler holds is not settled, what is in
the buffer is accepted and there once, what a worker holds is accepted and nowhere
else. `DoomInv`: only a Shutdown that has returned cancels the context, and after one
that returned nil no worker is left to be doomed.

**The server.** Every step of the program is a step of the queue or leaves it alone
(`QueueMoves`), so the queue's invariants hold in it. `OrderInv`: a Shutdown that found
an HTTP server has closed its listener, which nothing opens again; beyond the HTTP
server no handler is left, and none can come; the queue's flag and the storage's are
set only by a Shutdown that is there. `CloseInv`: a Shutdown of the server that is
beyond the queue has had the queue's answer, which stays, and hands that were empty
with the channel drained stay empty. `MainInv`: main reaches `config.Close` when its
Shutdown has returned.

**The token bucket.** `Paid` balances the account: what a key was admitted for since any
moment, and the tokens that are left, are covered by a full bucket and the time up to
the last refill; with no bucket, by the time alone, since the next one is full again.
That deleting a bucket keeps the balance needs `BucketsUsed` (a bucket is never full
between two calls, and was refilled hardly later than it was used) and
`IdleAssumption`, at exactly its bound. RetryHonest follows from `RefusedEmpty`.

**The shared limiters.** Three kinds of step of a call are left when the two stores are
abstracted from (`CheckMoves`): it counts itself, it prunes what is out of its window,
or it leaves the store alone. `Kept`: the entry of a counted call is in the store, and
does not expire, until a window less `Spread` has gone by, because no other server's
clock is far enough ahead to prune it before (`StaysLive`). So all entries of a
present window are in the store, which holds no more than the limit (`Sized`), and
those of a window that has ended stay as many as they are: `WindowsKept`. `Sourced`:
what the store holds, and what a transaction has read, are calls of that key that
were counted, so a refusal is for own calls (`Refusals`), each of which counts once.
The last step, from keys to clients, is where `Attributed` is needed; `AttributedWhen`
shows when it holds: without a trusted proxy the peer is the client whatever its headers
say, behind one the first trusted header that names an address names the client. It
does not hold of a proxy that passes on an X-Forwarded-For a client has written:
GetClientIP takes its first address. The loads of `rate_limits` satisfy it.

TLC checked each of these invariants on the runs' instances before it was proved.

Only model-checked, because the prover does not reach liveness: PoolEnds, OneReturns,
MainEnds, AllAnswered, and the fairness part of ImplementsTasks.

## 5. What is not modelled

* Size and header checks, nonces, CSP and CORS headers, recovery and logging of the
  middleware: each decides on one request alone and keeps no state.
* Which values the configuration holds, the `.env` file, the cache of the Secret
  Manager's provider (written once per key, never invalidated); the fallback to the
  in-memory limiter in `New` when the shared store cannot be reached at the start
  (`server.go:45`): from then on it is `TokenBucket`, per server.
* `checkRateLimitFallback` (`ratelimit_redis.go:138`): it runs when the script
  answers nil, and the script always answers a table.
* Invoices: requests forwarded to BTCPay Server, no state. Audit and metrics:
  output, and counters that no decision reads. The migrations runner runs one
  idempotent script by hand. The browser client encrypts, and is given what the
  server stores.
* That a ban of the tools is in force when it was reported: `BanChecked` follows
  bans as the table has them, and a digest banned as one kind keeps that kind.
* That a paste which was saved stays readable. On SQL `lost_duplicate` shows that it
  does not. On the bucket a save can be deduplicated to an original that is gone
  (`storage_gcs.go:349`), and the sweep of a reference deletes its live original
  (line 188); `gcs_storage` checks only that no wrong text and no second reading follows.
* `burned_erased` runs without crashes: a full queue or a failed deletion is enough. What
  a crash does to a claimed paste is in `paste_service`.
* Real strings, hashes, JSON and base64, HTTP headers.

## 6. Plan

Done: the storage with its refinement and proofs (`PasteStore`, `SqlStorage`), the
queue with its refinement and proofs (`DeletionTasks`, `DeletionQueue`), their
composition with crash and restart (`PasteService`), `GcsStorage`, the lifecycle
and main (`ServerLifecycle`, `ServerMain`), the three limiters, the middleware that
uses them and the client's address (`TokenBucket`, `SlidingWindow`, `RateLimits`,
`ClientAddress`).

Also done: the invariants and action properties of all passing runs are proved.

Left: `RateLimits` composes the middlewares with the shared limiters only; the
in-memory limiter could stand in for `SlidingWindow`, one per server. And a weaker
abstract store, in which a reference may be taken again, would state what the bucket
backend promises where it does not keep `PasteStore`'s promise.
