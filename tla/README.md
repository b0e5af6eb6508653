# RustaSea: TLA+ models of the framework's shared state

RustaSea is a Laravel-like web framework in Rust, a workspace of 42 crates. This
directory holds TLA+ models of the parts of it that several processes or tasks
share, the TLC configurations that check them on small instances, and proofs,
checked by TLAPS, of all their safety properties. Every action is translated from
the source; `PROJECT.json` maps each definition to the lines it models.

    tlc -config DbSerial.cfg MCDatabaseQueue     # one run
    tlapm DatabaseQueueProofs.tla                # one proof module

## 1. The system

### What runs concurrently

The framework is mostly request-scoped and sequential: a handler builds a query,
validates a form, renders a view. State that outlives a request, and is used by
more than one process or task, is in a few places, and they are what this project
is about.

| part | state | operations | who interacts |
|---|---|---|---|
| database queue (`rustasea-queue/driver/database.rs`) | tables `jobs`, `failed_jobs` | `push`, `pop`/`claim`, `ack`, `release`, `dead_letter`, `retry_failed`, `forget_failed` | dispatchers, worker processes, operators (`queue:retry`, `queue:forget`, dashboard) |
| redis queue (`driver/redis.rs`) | list, delayed set, reserved set, `pending_times` index, dead letters | `push`, `promote_due`, `pop`, `ack`, `release`, `dead_letter` | the same |
| worker (`driver/worker.rs`) | cursor, misses, processed, the payload in hand | `run_worker_with`, `process_one` | calls the driver, the handler, `release_unique`, `record_batch_outcome` |
| unique leases (`unique.rs`, `dispatch.rs`) | cache keys with a TTL | `acquire_lease`, `release_unique` | dispatchers take, workers release |
| batches (`batch_db.rs`, `batch_db/callbacks.rs`) | a row of `job_batches`, a per-process callback map | `create`, `decrement_pending`, `record_failure`, `finish`, `cancel`, callbacks | every worker that ends a member |
| cache lock (`rustasea-cache/lock.rs`) | one key of a store with a TTL | `get`, `block`, `release`, `drop` | any number of tasks and processes |
| cache repository and stores (`repository.rs`, `memory.rs`, `redis.rs`) | entries with TTL | `put`, `add`, `increment`, `touch`, `remember`, `pull`, `flush` | any number of tasks |
| scheduler (`rustasea-schedule`) | commands, running marks, pause flag | `register`, `tick`, `pause`, `resume`, `next_run` | ticking tasks, CLI |
| rate limiter (`rustasea-auth/throttle`) | buckets per key, sequence counter, cap | `check`, `hit`, `reset` | request tasks |
| sessions and two-factor (`session*.rs`, `two_factor/`, `routes/auth`) | session records, passwords, two-factor records | login, challenge, confirmation, refresh, logout, settings | request tasks |
| accounts (`routes/auth.rs`, `routes/settings.rs`, `password_reset`, `verification`) | users, reset rows, verified flags | registration, profile, verification, forgot and reset | request tasks, mailed links |
| passkeys (`passkeys/`) | pending challenges, credentials with counters | begin and finish of registration and login, delete | request tasks, authenticators |
| roles (`rbac/registry.rs`) | roles, grants, a generation, entries in a shared store | the mutations, cached lookups | request tasks, restarts |
| migrator (`rustasea-orm/migration.rs`) | tables, the ledger | `run`, `rollback`, `fresh` | deployers |
| models and query cache (`model_ops.rs`, `cache.rs`) | rows, table generations, cached rows | the model operations with their cascade, cached queries | request tasks |
| boot (`rustasea-foundation/lib.rs`) | providers and their order | `boot` | one process, any graph |
| broadcast (`hub.rs`, `ws.rs`, `redis_driver/`) | channels, sessions, the Redis subscription | `publish`, `subscribe`, fan-out | publishers, websocket sessions, the fan-out task |

The remaining crates (ORM query building, validation, views, mail, image, excel,
i18n, CLI generators, ...) convert data or talk to one external service; they are
listed in `PROJECT.json` with the reason they are left out.

### What is hard

* A driver operation is several statements, or several redis commands, and
  another process runs between any two of them; nothing but a guard in a WHERE
  clause, an NX or the count a ZREM returns keeps two workers apart.
* A process may die, or a store call may fail (`?` ends the worker), after any
  statement; what was written stays.
* The attempt counter, the unique lease and the batch counter are three
  bookkeepers of one job, updated by different statements in a fixed order.
* A lease or a lock may expire under its holder; a dropped guard is released by a
  spawned task that runs later or never.
* Callbacks of a batch live in one process while its jobs end in several.
* A web handler awaits several stores one after the other; other requests run at
  every await, and its client may go away there, which drops the rest of it.
* A value computed now is cached later: roles and rows may have changed meanwhile.
* A clock is read before the lock it is used under, and wall clocks go back.

`PROJECT.json` lists the hazards at their lines, with the properties that would
catch each one.

### What makes each part correct

* Queue: a row is worked on by one worker; a job gets one verdict; no job
  disappears; the handler is started at most `max_tries` times; no attempt starts
  before it is due; a unique job is in flight once and its lease is given back; a
  worker leaves only when every queue is drained; every job settles.
* Batch: each outcome is counted once; failure ids are never overwritten; the
  batch is finished once, after all outcomes; each callback fires at most once.
* Lock: leases exclude each other; only the owner deletes; `block` returns; a
  dead holder does not block the section.
* Web tier: limits are kept per account, memory per limiter; who has a session
  earned it; an address has one owner; a spent token is found by no later lookup,
  and an assertion counts once; a cached permission is one the registry grants.
* Framework: a running mark is cleared, the next run is ahead; a flush removes
  all; the ledger records what is there; boot respects dependencies or names a
  real cycle; a cached query answers with current rows; a subscriber misses
  nothing.

## 2. The modules

| module | models | proofs |
|---|---|---|
| `JobPolicy` | `policy.rs`, the outcome of `ConcreteJob::run`, the match of `process_one` | used by the others |
| `QueueContract` | what a queue driver promises a job, abstractly | |
| `DatabaseQueue` (`MCDatabaseQueue`) | database driver, worker loop, dispatch gate, unique leases, operators; INSTANCEs `QueueContract` | `DatabaseQueueProofs`, `DatabaseQueuePolicyProofs` |
| `BatchContract` | what a batch promises, abstractly | |
| `JobBatch` (`MCJobBatch`) | batch row, recorders, callback map; INSTANCEs `BatchContract` | `JobBatchProofs` |
| `RedisQueue` (`MCRedisQueue`) | redis driver under the same worker; INSTANCEs `QueueContract` | `RedisQueueProofs` |
| `CacheLock` (`MCRedisLock`) | lock, guard, and the store operations they use | `CacheLockProofs` |
| `RateLimiter` | registry, limiter definitions and the in-memory fixed-window limiter | `RateLimiterProofs` |
| `SessionFlows` | session guard, login with its interception, challenge, confirmation, two-factor settings | `AuthProofs` |
| `Accounts` | registration, profile, e-mail verification, password resets | `AuthProofs` |
| `Passkeys` | challenge store, credential store, both ceremonies | `AuthProofs` |
| `Rbac` | role registry and its cached lookups | `AuthProofs` |
| `Scheduler` | cron evaluation, tick, registry, pause | `FrameworkProofs` |
| `CacheRepository` | repository over the memory and the Redis store | `FrameworkProofs` |
| `Migrator` | run, rollback, fresh | `FrameworkProofs` |
| `Foundation` | provider order, cycle search, the two boot passes | `FrameworkProofs` |
| `ModelOps` | model operations, cascade, query cache | `FrameworkProofs` |
| `Broadcast` | hub, websocket sessions, Redis fan-out | `FrameworkProofs` |
| `MCWeb`, `MCFramework` | the web-tier and the framework modules, one part per behaviour | |

Names follow the source where TLA+ allows it (`allows_retry`, `push`,
`release_unique`, `put_if_absent`, ...). A definition whose comment begins with
"Mutant:" is a plausible bug, kept beside the definition it replaces to show that
a property would notice it; no specification uses it.

### DatabaseQueue

`jobs` and `failed` are the tables, as functions from the ids present to rows;
`lease` is the set of unique keys that exist. One step is one SQL statement or
one cache call, so a claim is `ClaimSelect` then `ClaimUpdate`, and the end of a
job is `DeadLetter`, `Ack`, `ReleaseLease` in the order of `process_one`. The
worker's program counter says which statement comes next; `held` is the payload
in its hand, with the attempts its SELECT read; `loop` is the state of
`run_worker_with`. A dispatch is `AcquireLease` then `Enqueue`, `PushFails` and
`UndoLease`, or `UnknownConnection`; an operator's `queue:retry` is
`RetrySelect`, `RetryPush`, `RetryDelete`. Deaths (`WorkerCrash`,
`DispatchCrash`, `RetryCrash`) are possible between any two steps and stand for
failing store calls as well, which end the caller at the same places.

The transaction of `claim` is begun without an isolation level, so it runs under
the database's own: `Isolation = "serializable"` (SQLite, where the transaction
that read an outdated row fails) and `"read_committed"` (PostgreSQL's default,
and MySQL in what concerns the UPDATE) are the two outcomes. History variables
(`issued`, `done`, `buried`, `ran`, `dead`, `cleared`) are never read by actions.

Abstracted: payload bodies (a job is a name), ids (members of `RowId`, used
once), time (ticks), the pop deadline (an empty poll may be the last).

### RedisQueue

One action per redis command; commands are atomic and the driver uses neither
MULTI nor scripts. `TicksPerSecond` makes the difference between instants, which
`push` compares, and scores, which are whole seconds, visible. `<<job,
attempts>>` stands for the uuid of a payload, which `release` replaces.

### QueueContract

A job is absent, waiting, claimed, running, failing, done, buried or abandoned,
and `runs` counts the starts of its handler. `Start` is possible only on a claim
and uses it up, `done` and `buried` are final, and so is `abandoned`: no driver of
the repository takes a reservation back from a worker that died. `Losable` is
the set of phases in which a fault may lose a job. Both drivers implement it, with
their own `Phase`:

* `DatabaseQueue`: a row waits while it is not reserved, is abandoned when it is
  reserved without a holder and without a verdict, and has its verdict from the
  step that reaches it, before `ack` deletes the row. With faults a claimed,
  running or failing row may be lost, a waiting one never.
* `RedisQueue`: a job is claimed by BRPOP, before it is reserved, and waits again
  with the push of `release`, after its reservation is gone. A job carried by
  `promote_due` from the delayed set to the list still waits, so with faults the
  waiting phase is losable too. Without faults nothing is.

### JobBatch and BatchContract

A member of the batch goes from `absent` over `queued` into a call of
`record_batch_outcome`, whose statements are steps: `Decrement` and `Find` for a
success, `SelectRow`, `AppendFailure` or `Conflict`, and `FireCatch` for a
failure, then `FinishBatch`, `FinishFind`, `FireCompletion` for the call that
sees the counter at zero. `Remote` members end in a process without the
callbacks. A dispatch may stop half way, a unique member may be deduplicated, a
call may die anywhere, the compare-and-swap may run out of retries (`"lost"`).
`RetryJob` is `queue:retry` of a dead-lettered member.

`BatchContract` knows only the set of jobs without an outcome, the failures,
whether the batch is finished and what was announced: an outcome is recorded once
while the batch is open, it is finished when none is missing, and completion is
announced after that, once, `then` only without failures. `ImplementsContract` is
the refinement `open <- Member \ recorded`, `finished <- row.finished`.

### CacheLock

`entry` and `left` are the value and remaining life of the key, `guard` the token
a client holds, `tasks` the tokens whose delete a dropped guard has spawned.
`block` is a loop of `Acquire` or `GetFails`, and `AfterMiss`, which looks at the
window. `GuardLost` is a client that dies or whose `release` fails after marking
itself released. The history `lease` is the time a client may believe its lease
lasts, and `flushed` who lost it to a flush. `put_if_absent` and
`compare_and_delete` are atomic in both stores (the map's mutex; `SET NX PX` and
a Lua script).

### The web tier

`RateLimiter`: `Check` derives the key and reads the clock, `Hit` is everything
under the mutex - sweep on every `PRUNE_EVERY`th hit, the window, the decision,
the cap. Bucket keys hold the window length and not the limiter's name, as in the
code. `granted` is history: per account the seconds of the latest grants, one more
than two windows' worth.

`SessionFlows`: a handler is a program counter per request with what it read; a
step is the code between two awaits. A session record is loaded once and written
back whole. A login begins with `LoginFind`, the lookup of `intercept_login`, or
with `LoginMiss`, when that lookup fails or does not know the address yet and
`intercept_login` leaves the login to the provider. Three flags of a record are
history of the login that opened it: at some moment while it was answered the given
password was the current one (`valid`), and the account was not enrolled, or its
challenge is demanded (`cleared`); its first lookup missed (`missed`).

`Accounts`: the probe and the write of an address are different steps; the store's
own check (`free_for`) is what decides. A reset is `ResetMatch`, `ResetFind`,
`ResetBurn`, `ResetWrite`. A session is the copy of the e-mail it made at login,
which `email_changed` compares with.

`Passkeys`: authenticators (external) sign challenges they were shown and count;
what was signed can be delivered any number of times. The byte-level checks of
`webauthn.rs` come to whether it is over the expected challenge.

`Rbac`: mutations take `&mut self`, so they exclude lookups; a lookup is its get
and its put. `Restart` empties the registry and keeps the store.

### The framework parts

`Scheduler`: a calendar scaled to two of everything, so that a year is scanned in
full; fields are sets computed from parsed parts; a zone changes its offset once,
with a gap or an overlap. `tick` is `TickStart`, `TickCheck` (its own lock),
`TickDue`, `TickDispatch`; `dispatch_command` always fails, as in the code.

`CacheRepository`: one action per store call; `driver` picks the store, whose
`increment` and zero TTLs differ. `flush` on Redis is `FlushScan`, any number of
`FlushPage` with any subset of the keys, `FlushUnlink`. `pull` is `PullGet`, hit or
miss, and `PullForget`: two steps, although `repository.rs:382` says "in one step".

`Migrator`: `run` reads the pending names, then the batch, then applies one
migration and its ledger row per transaction; what `run` has still to apply and
`rollback` to undo are sets, taken in registration order; `fresh` on SQLite drops
the tables in the order they are listed, on PostgreSQL the schema in one script.
A migration creates one table. To create it a second time is an error, unless the
migration is `Tolerant` (`CREATE TABLE IF NOT EXISTS`, as the queue's own
migrations are); the downs drop their table if it exists. `survived` is history:
the tables an interrupted `fresh` left behind.

`Foundation`: Kahn's algorithm with the lowest index first, and on a residue the
depth-first search of `cycle_names`, edge by edge.
No behaviour takes the last resort of `cycle_names` (all residual nodes): the
search always finds a cycle first (`LastResortUnused` in section 4). It is the one
branch of the two suites that TLC never reaches.

`ModelOps`: `Begin` (reads), `Statement`, `Recorded` (re-read and activity),
`ChildRows`, `ChildStatement`, `ChildBump`, `ChildRecorded`, `Bump`; a failure
after the statement ends the operation without its bump. A cached query is
`ReadMiss` (the key is made here), `ReadQuery`, `ReadPut`, on a pool; cached queries
inside an open transaction are not modelled (section 3).

`Broadcast`: `published` is what Redis accepted, `stream` the subscription's
channel, `fan` the task; a sender is an object of its own, so a channel entry
replaced by another one would be seen. Each session reads from a bounded buffer
and may lag.

## 3. The runs

| run | instance | shows |
|---|---|---|
| `db_serial` | 2 workers, 1 dispatcher, 2 queues, 2 rows, serializable, no faults, fair | attempts in budget, no lease left behind, a worker leaves only after a full empty cycle, every job settles |
| `db_faults` | 2 workers, dispatcher, operator, 2 rows; read committed, deaths, expiring lease, a job without handler, an unknown connection | exclusive claims, one verdict, nothing lost, refinement of `QueueContract` |
| `db_unique` | 2 workers, serializable, deaths, three attempts with backoff, an unknown connection | the attempts column counts handler starts, backoff is honoured, a unique job is in flight once |
| `batch_faults` | 3 members, one remote and unique, deaths, partial dispatch, 2 CAS retries | exact counter, finished means complete, refinement of `BatchContract` |
| `batch_retry` | 2 members, each retried once, fair | ids match failures, callbacks once, the batch completes |
| `redis_and_lock` | 2 workers, 2 jobs, a retry with and one without backoff; by itself, a lock: 2 clients, 4 tokens, TTL 2, a `block` window of 1, a drop task, deaths and flushes; fair | refinement of `QueueContract` without losses, listed jobs indexed, every job settles; mutual exclusion, owner-only delete, `block` returns, leases end |
| `redis_faults` | the same with deaths and delayed dispatch | one copy and one worker, attempts in budget, delay honoured to the second |
| `web` | 2 requests per part; 2 limiters and 3 spellings of 2 names, a cap of 1, 7 hits in 4 s; 1 account, 3 session ids, 2 passwords; 2 users, 2 addresses, 1 reset token; 3 challenges, 1 authenticator; 2 roles, 2 starts | `BurstBounded`, `BucketsBounded`, `SessionsEarned`, `OneOwnerPerEmail`, `SpentTokenDead`, `AssertionCountsOnce`, `CachedGrantsCurrent` |
| `framework` | 2 tasks per part; 2 commands, one across a clock change; 2 keys, 3 writes, 2 drivers; 3 migrations, one irreversible and one `IF NOT EXISTS`, 2 dialects; all graphs of 4 providers and of 3 with aliases, self-loops and unknown names; a parent and a child, 2 operations; 2 sessions, 3 messages, a buffer of 2 | `NoLeakedMark`, `NextRunAhead`, `FlushRemovesAll`, `RecordedIsApplied`, `BootAnswersRight`, `CachedRowsCurrent`, `SubscribedMissNothing` |

What the properties of the two suites say:

* `BurstBounded`: an account is granted at most twice `max_attempts` in any
  stretch of a window's length less `MaxStale`, the time a request may wait for the
  mutex (a fixed window allows one full window on each side of its end).
  `MaxStale` cannot be spared: with a limit of two in two seconds TLC finds five
  grants in two seconds, when a sweep by a timely request takes a window away and
  a request that is one second late opens it again in the past (`limiter.rs:147`,
  `:169`). `BucketsBounded`: the map keeps its cap.
* `SessionsEarned`: no interleaving of enrolment, password change, recovery codes
  and refresh gives a session to a login that never, while it was answered, held
  the right password; nor one without a challenge to a login that never met the
  account without second factor, unless its first lookup missed. That exception is
  real: run `login_unchecked`.
* `OneOwnerPerEmail`, `SpentTokenDead`, `AssertionCountsOnce`,
  `CachedGrantsCurrent`: see above; each names in its comment the line it rests on.
* `NoLeakedMark`: a command is marked running only while a tick dispatches it.
  `NextRunAhead`: `next_run` answers with a later instant that matches the fields
  on the command's own clock, through a gap and an overlap.
* `FlushRemovesAll`, `RecordedIsApplied`, `BootAnswersRight`,
  `CachedRowsCurrent`, `SubscribedMissNothing`: see their comments; the cases they
  except are in the list below.

Runs that are expected to find a violation, each against a sentence of the
repository (`findings` in `PROJECT.json`):

| run | what TLC shows |
|---|---|
| `db_stale_claim` | under read committed, worker A selects a row; worker B claims, fails and releases it; A's UPDATE succeeds with A's old attempt count, so the handler runs more often than `max_tries` |
| `batch_catch_skipped` | the completion of a batch throws the `catch` callback away before the call that recorded the first failure gets to it |
| `login_unchecked` | the first lookup of a login for an enrolled account fails, `intercept_login` answers `None` (`two_factor/mod.rs:142`), the lookup of `login_with_provider` succeeds, and the session is opened without the second factor |

Other disagreements met while modelling, which changing one constant or adding
one property to a run reproduces:

* with a job without handler and `NoWedgedLease` checked, the no-handler arm of
  `process_one` keeps the unique lease of the job it dead-letters
  (`worker.rs:197`; `unique.rs:31-33` says a terminal outcome releases it);
* with `Faults = TRUE` and a single worker restarted, `EveryJobSettles` fails: a
  row reserved by a dead worker is never selected again (`database.rs:151`;
  `config/queue.toml:34` calls `retry_after` "the reservation timeout");
* with `"unregistered"` in `Connections` and `NoWedgedLease` checked, a dispatch
  to an unknown connection keeps its lease (`dispatch.rs:130`);
* with an operator and `UniqueInFlight` checked, `queue:retry` puts a unique job
  beside a new dispatch of it (`database.rs:123`);
* with `MaxRetries = 1`, `FinishedMeansComplete` fails: a retried member is
  subtracted twice (`batch_db.rs:175`);
* with `Faults = TRUE`, `RedisQueue!EveryJobSettles` and `NothingLost` fail: the
  expiry of a redis reservation is never read (`redis.rs:207`), and a payload
  between BRPOP and ZADD is in no key;
* a pop and ack between the LPUSH and the ZADD of `push` leave a time in
  `pending_times` for a job that is gone (`redis.rs:169`), though
  `redis.rs:303` says an ack must never leave one; both size queries count the
  current second (`redis.rs:233`);
* with `Ttl = 0`, `LeaseEnds` fails: a zero TTL is no lease (`memory.rs:77`).

Seen in the web tier and the framework parts, in the model as in the code, and
excepted by name where a property would meet them:

* a cron weekday is ignored when the day of month is `*`: `days.contains` is then
  always true (`command.rs:299`), though `:306` says an unrestricted day of month
  lets the weekday decide;
* `next_cron_match_in` with a zone compares with `from + 60 s` and not with the
  first whole minute its comment names (`command.rs:182-187`), and `tick` asks for
  a run at most one second away (`scheduler.rs:115`): a command with a timezone is
  never due, one without only in the last second of a minute;
* `dispatch_command` fails always, and the first failure ends the tick, so the
  commands after it are not looked at (`scheduler.rs:119`);
* the limiter with `max_attempts = 0` opens buckets past the cap, and two limiters
  with equal windows and keys would share a bucket (`limiter.rs:77`);
* a recovery code can be used twice at the same time, and a put of an older
  two-factor record undoes a newer one (`two_factor/mod.rs:201-212`);
* a confirmation that loaded its session before a logout writes it back after it
  (`session/password.rs:85`);
* the profile form compares with the e-mail the session copied at login, so with a
  stale copy a changed address may keep its verified flag (`settings.rs:208`);
* two resets with one link may both write when both matched before either deleted
  the row;
* after a restart the role generation begins at zero while the store keeps entries,
  so an entry of the earlier process can be accepted (`registry.rs:384`);
* a `fresh` next to another command drops from a stale list;
* an interrupted `fresh` leaves tables without a ledger, and `run` creates a ledger
  that is newer than they are. An `IF NOT EXISTS` migration then succeeds on its
  old table and is recorded (`queue/migrations.rs:42`), and a second `fresh` drops
  that table before the ledger; when it is interrupted there, the ledger records a
  table that is gone, and every later `run` skips it. `RecordedIsApplied` excepts
  exactly these tables (`survived \cap Tolerant`); with the exception taken out, TLC
  finds the behaviour;
* a cached query inside an open transaction stores what that transaction sees, an
  older snapshot or its own uncommitted rows, under the current generation
  (`builder/exec.rs:358`): `CachedRowsCurrent` is about queries on a pool;
* a model operation that
  fails after its statement leaves cached rows stale (`model_ops.rs:275`); table
  generations are per process, so with two processes a write in one invalidates
  nothing in the other (`cache.rs:91`), which is why `ModelOps` is one process;
* a second soft delete stamps the parent again, so `restore` no longer finds the
  children deleted with it;
* `pull` is a get and a forget (`repository.rs:383`), and forget does not tell
  whether it removed anything: two pulls may answer with the same value, and a value
  put between the two calls is deleted unread;
* when the Redis subscription ends, the fan-out task ends and nothing restarts it
  (`subscriber.rs:44`);
* `dispatch_after_response` buffers events that no HTTP code drains
  (`rustasea-events/dispatcher.rs:254`; `:261` says the HTTP layer does).

### Bounds

* Two workers are enough for every race between workers here: each guard is
  between the process that acts and one that acted since it looked. A third
  matters only to the counting of the batch, which has three members. The proofs
  remove the bound for the safety properties.
* Two rows let a unique job be dispatched again while its first row is live, and
  the order of claims matter; row ids are used once (`issued`), which bounds a
  behaviour. `MaxJobs` 1 in `db_faults` restarts workers often, 2 elsewhere lets
  a worker carry state from one job to the next.
* Policies: one attempt, two with backoff, three with growing backoff, and
  `max_tries = 0`, which still runs once.
* The clock stops at the last instant anything waits for (`Tick`'s guard in each
  queue module), so the state space is finite. `CacheLock` keeps remaining times
  instead, so its behaviours are infinite.
* `MaxAppendRetries` is 8 in the code; 2 in `batch_faults` so that the budget can
  run out with three members.
* `Token` has as many members as can be alive at once, two guards, the entry and
  a task; `MaxTasks` bounds the tasks.
* `web`, `framework` and `redis_and_lock` check independent parts in one run: `part`
  picks one and freezes the others, so the state space is the sum and not the
  product. In the two suites, `web` and `framework`, tasks, ids and names of all
  parts come from the same sets, so that one permutation of each set is a symmetry
  of every part. Counters and clocks have bounds declared in the
  modules (`MaxClock`, `MaxHits`, `MaxGeneration`, `MaxStart`, `LastSecond`,
  `MaxWrites`, `MaxTick`, `MaxBatch`, `MaxBegun`, `MaxMessages`, and the sets of
  fresh ids). `MAX_BUCKETS` is 1 and `PRUNE_EVERY` 2 so that evictions and
  sweeps happen, and `MaxHits` 7 because `BurstBounded` is tight only after seven
  hits; `MaxStale` (one second) is how late a hit may be applied
  after its clock was read, a short lock wait; one reset token is enough for the lookups of a spent
  one, two exceed the time a run may take.
* `batch_*`, `web` and `framework` may stop (`CHECK_DEADLOCK FALSE`): a batch that
  is over, a boot that has answered and the end of a bound have no step left. All
  other runs check deadlock.

### Fairness

`FairSpec` is used for the liveness properties only. Time passes (WF of `Tick`);
a worker that is not dead takes its next step and is started again when it
stopped (the process manager runs `queue:work` again); the dispatch of a batch
and a recording call go on; a client in `block` polls on, and the runtime runs
spawned tasks. `BothFairness` asks this of each part of `redis_and_lock` while it is
the one that moves. Nothing is assumed about dispatchers, operators, handler results,
or who wins a race: no strong fairness. Deaths and flushes are never fair.

## 4. The proofs

Theorems hold for every value of the constants that satisfies the modules' named
assumptions (policies are typed, queues of jobs exist, `None` is no value; sets
of members are finite where the code counts them).

**DatabaseQueueProofs.** `SafetyInv` is inductive: the types, `ClaimExclusive`,
`OneVerdict`, `NothingLost`, and two strengthenings. `VerdictAtHolder` says that
a live row with a verdict is reserved and that a worker holding it is exactly at
the `ack` that follows the verdict: without it nothing keeps a second worker from
reaching the other verdict. `PushBeforeDelete` says an operator at the DELETE has
pushed. From it: `TypeCorrect`, `ClaimIsExclusive`, `VerdictIsUnique`,
`NoJobIsLost`, `RowsBelongToHolder` (the action property `RowsChangeByHolder`) -
under both isolation levels, with deaths, expiry and operators.
`DriverKeepsContract` is the refinement of `QueueContract`: `PhaseAtHolder` reads
the phase of a held row off its worker's program counter, exclusive claims let
every other row keep its phase, and each action then moves one row along one edge
of the contract or none. No further invariant is needed, and neither serializable
claims: a stale claim miscounts attempts, but it is still a claim of a waiting row.

**JobBatchProofs.** `BatchInv` adds `CallKnows`, what a call between two of its
statements still knows of the row (once the counter is zero no failure can be
appended, so the record `finally` gets is the last one), and `CallbackMap`. From
it, for all faults and retries: `BatchTypeCorrect`, `NoFailureOverwritten`,
`CallbacksFireOnce`. When no member is retried (`MaxRetries = 0`) each call
reports once (`ReportsOnce`), which gives `CounterIsExact`,
`FinishedIsComplete` and the refinement `RecordersImplementContract`. The
assumption is needed: with retries these three are false.

**CacheLockProofs.** `LockInv` adds `LeaseBacked`: a guard within its lease owns
the entry, the entry lives as long as the lease, and no drop task carries a
token that a guard holds. From it `LeasesExclude`, for any TTL (zero included),
lost guards, late tasks and flushes. `StaleGuardsDeleteNothing` is the action
property that only an owner (or a flush) removes a live lock.

**DatabaseQueuePolicyProofs.** Three invariants on top of `SafetyInv`, each for
the part of the environment under which its property is true.
`AccountInv` (serializable claims): a row never promises more than its budget,
a free row owes one start more than it had, what a claim's SELECT returned was free
and due, and a holder's copy agrees with its row. The last is what a stale claim
under read committed breaks (run `db_stale_claim`). It gives
`AttemptsAreAuthoritative`, `BudgetIsKept` and `BackoffIsHonoured`, with deaths
and operators. `LeaseInv` (no expiry, no operators): each undecided row of a
unique job, and each dispatch and settlement under way, stands for the one lease
of its job; it gives `UniqueJobsAreUnique` under either isolation level and every
fault. `NoLeaseIsWedged` assumes no faults, registered connections and a handler
for every unique job; without any one of these the property is false (section 3).
`CycleInv` counts the queues behind the cursor that were found empty and gives
`DrainsAFullCycle` under no assumption.

**RedisQueueProofs.** `CopyInv` splits `OneCopy` into what each command can
disturb (the list, the keys, payloads moving between keys, payloads in a worker's
hand) and adds that a job not dispatched yet, and one whose reservation was
removed, has no payload anywhere: without that a second push could be first seen
as a copy. With it `TypeCorrect` and `OneCopyOfAJob`. `AttemptAccount` and
`DueAccount` (a payload's number covers the runs so far; whatever left the delayed
set was due to the second) give `PolicyIsHonoured`; both with deaths between any
two commands. `NoJobIsLost` and `ListedIsIndexed` assume that nobody dies, which
they need: the window between BRPOP and ZADD loses a payload.
`DriverKeepsContract`, the refinement of `QueueContract`, is proved with deaths.
`VerdictInv` is what it adds to `CopyInv`: a job that waits or is in an unfinished
stage of a worker has no verdict, so none is reached twice. `Alone`, a consequence
of `CopyInv`, says that such a job is with one worker or in one key; a step of that
worker therefore changes the phase of this job only, and its death abandons this
job only.

**AuthProofs.** One invariant per module. `RbacInv`: mutations exclude lookups, so
what a lookup is about to put is what the registry holds. `PassInv`: a challenge is
with the store or with one ceremony and never with both, and a login that counted
has spent its challenge. `AccInv`: users a request refers to exist, a token in a
mail or a request belongs to one row, and one that was burned is in no row.
`SessInv`: the witness flags of a login under way are implied by what it has read
(or missed) and by what changed since it began. They give `CachedGrantsAreCurrent`,
`AssertionsCountOnce`, `EmailsHaveOneOwner`, `SpentTokensAreDead` and
`SessionsAreEarned` for any number of requests dropped anywhere.

**FrameworkProofs.** `MarksAreCleared`. `NextRunIsAhead`, an action property, from
facts about `\div` and the least element of a bounded set: the minute the search
starts from is ahead, in a zone too, whatever the change of its offset;
`NextUtcIsEarliest` adds that without a zone no run is passed over.
`FlushRemovesEverything`: what is left of what `flush` found is still unscanned or
on the page in hand. `CachedRowsAreCurrent`: a query that missed under the current
generation read the current rows, or a bump is owed. `SubscribersMissNothing`:
the frames a session was sent are the log of its sender in order, and every message
published since its acknowledgement is in the stream, in the fan-out task's hand or
in that log (`Covered`). `RecordedHasItsTable`: the ledger is older than every
table it records, save for tables that survived a `fresh` and were tolerated, and a
`fresh` that is alone has exactly the existing tables left to drop, in that order,
so it drops the ledger before any other table with a row. `Accounted` is what makes
the exception no wider than that: outside of a `fresh`, a table without a row is one
that survived, so no other can be tolerated.
`BootIsRight` and `LastResortUnused`, for every application that is a finite
sequence of providers with finitely many dependencies (`BootAssumption`; aliases,
unknown names and self-loops included). `BootInv` has a part per stage of boot: the
degrees count the unmet dependencies (`DegreesCount`), what was emitted comes after
what it needs and ties were broken by index (`NeedsFirst`, `TiesBroken`), a residual
provider needs a residual one (`Stuck`), the path of the search is a path of the
graph (`Trail`), and the search's finished nodes are closed under needs and
well founded (`Finished`: each non-empty set of them has a member that needs no
other of the set). The last is how the proof avoids an induction over the graph: a
search that had finished the whole residue without meeting its own path would make
the residue well founded, against `Stuck`. So `cycle_names` always finds a ring and
its last resort, to report everything left, is never taken.

**RateLimiterProofs.** `CapIsKept`, for limits of at least one attempt (a limit of
zero opens buckets past the cap). `BurstsAreBounded`, without assumptions:
`BurstInv` splits the latest grants of an account into those too old to matter, at
most one window's worth before the bucket opened, and at most as many as the bucket
counts; when a window ends its predecessor has become too old, even if the request
that granted it was late. Trying to prove the bound for the full `decay_secs` is
what showed it to be false.

Only model-checked: the liveness properties (`EveryJobSettles` of both queues,
`BatchCompletes`, `BlockReturns`, `LeaseEnds`), since fairness and ENABLED are out
of the prover's reach. Every other property of a passing run is a theorem.

## 5. Not modelled, and what is left

Not modelled of the modelled parts: read-only queries (sizes, listings),
metrics, history and heartbeats (best effort, never read back), serialization
failures of payloads, the inline `sync` connection, chains; JWT, signed URLs,
CSRF, TOTP and the ciphers, which are cryptography; MySQL's implicit DDL commits;
the Pusher and SSE transports.

The map covers a few percent of the implementation's lines. The models take in
the crates' shared and persistent state; what remains is mostly code without any:
the CLI and the scaffold (argument parsing, templates), the ORM's builder, schema
and casts (descriptions to SQL text, rows to values), validation, view, inertia,
livewire, excel, image, mail, i18n, openapi, json:api and the AI, search, storage,
mongo and google clients (conversions, or requests to a service that keeps the
state), and the macros. A state machine of a conversion would repeat its code line
for line and show nothing that its unit tests do not.

Left to do, most important first:

1. Compositions: `QueueSystem`, where the `ack` of `DatabaseQueue` and the
   recorder of `JobBatch` are one worker, so that a death between them is seen
   from the batch; unique leases as keys of the `CacheLock` store, with expiry.
   Both could be stated over `QueueContract` instead of a driver.
2. The budget of a policy as part of `QueueContract`: `RedisQueue` keeps it, and
   `DatabaseQueue` does under serializable claims.
3. `SyncDispatch` (`registry.rs`, `dispatch.rs`): the inline connection and chains.

There are nine passing runs: a new module takes the place of the run that says
least, or joins a run that is the sum of independent parts.
