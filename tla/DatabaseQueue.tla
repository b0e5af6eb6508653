--------------------------- MODULE DatabaseQueue ---------------------------
(***************************************************************************)
(* The database queue of rustasea-queue: the dispatch gate with its unique *)
(* lease (dispatch.rs, unique.rs), the `jobs` and `failed_jobs` tables of  *)
(* DatabaseDriver (driver/database.rs), the worker loop (driver/worker.rs) *)
(* and the operator's retry and forget commands.                           *)
(*                                                                         *)
(* Every SQL statement and every cache call is one step; what a process    *)
(* keeps between two of them is in its local record.  A table is a         *)
(* function from row id to row; its domain is the set of live rows.  Jobs  *)
(* here are standalone: their batch_id is None, so record_batch does       *)
(* nothing (module JobBatch models it).                                    *)
(***************************************************************************)
EXTENDS JobPolicy, Sequences, FiniteSets

CONSTANTS
  Job,           \* dispatchable jobs; a unique job is its own lease key
  UniqueJob,     \* the jobs whose type is registered with register_unique
  Handled,       \* the jobs whose type is registered with register_job
  PolicyOf,      \* Job -> Policy
  QueueOf,       \* Job -> queue name
  Delays,        \* the delays a dispatch may ask for
  Connections,   \* connections a dispatch may name
  Worker, Dispatcher, Admin,   \* processes
  RowId, FailedId,             \* primary keys (uuids) of the two tables
  QueueList,     \* the queues a worker drains, in order
  MaxJobs,       \* the max_jobs of a worker run
  Isolation,     \* what the database gives `BEGIN`
  Faults,        \* whether processes crash and the store fails
  LeaseExpiry,   \* whether a lease TTL can run out
  None           \* no value

ASSUME JobAssumption ==
  /\ UniqueJob \subseteq Job
  /\ Handled \subseteq Job
  /\ PolicyOf \in [Job -> Policy]
  /\ Delays \subseteq Nat
  /\ Connections \subseteq {"database", "unregistered"}

ASSUME WorkerAssumption ==
  /\ QueueList \in Seq(STRING)
  /\ Len(QueueList) > 0
  /\ MaxJobs \in Nat \ {0}

ASSUME EnvironmentAssumption ==
  /\ Isolation \in {"read_committed", "serializable"}
  /\ Faults \in BOOLEAN
  /\ LeaseExpiry \in BOOLEAN

\* A row of the jobs table.
Row == [job : Job, attempts : Nat, reserved : BOOLEAN,
        available_at : Nat, created_at : Nat]

\* A claim: a row id and the row as the SELECT of `claim` returned it.
Claim == [id : RowId, row : Row]

ASSUME NoneAssumption == None \notin Claim

VARIABLES
  now,      \* the clock, in units of Delays and backoff
  jobs,     \* the jobs table
  failed,   \* the failed_jobs table: the job each dead letter carries
  lease,    \* the unique jobs whose lease key is in the cache
  pc,       \* per worker: where it is in run_worker_with / process_one
  held,     \* per worker: the row its SELECT returned, kept once claimed
  loop,     \* per worker: the locals of run_worker_with
  dispatch, \* per dispatcher: where it is in dispatch_outcome
  admin,    \* per operator: where it is in retry_failed
  \* History, read by no guard except the freshness of uuids:
  issued,   \* row ids ever inserted into jobs
  buried,   \* row ids whose payload was inserted into failed_jobs
  done,     \* row ids whose handler ended in Succeeded or Skipped
  ran,      \* handler starts per row id
  dead,     \* ids ever inserted into failed_jobs
  cleared   \* dead letters that were pushed again or forgotten

queueVars   == <<now, jobs, failed, lease>>
workerVars  == <<pc, held, loop>>
historyVars == <<issued, buried, done, ran, dead, cleared>>
vars == <<now, jobs, failed, lease, pc, held, loop, dispatch, admin,
          issued, buried, done, ran, dead, cleared>>

-----------------------------------------------------------------------------
(* Tables. *)

EmptyTable == [id \in {} |-> None]
Insert(table, id, row) ==
  [i \in DOMAIN table \cup {id} |-> IF i = id THEN row ELSE table[i]]
Delete(table, id) == [i \in DOMAIN table \ {id} |-> table[i]]

-----------------------------------------------------------------------------
(* Local state of the processes. *)

\* Program counters of a worker.  drained: the loop broke after a full cycle
\* of misses; stopped: it returned after max_jobs or with an error.
Idle     == {"stopped", "drained", "polling"}
Holding  == {"claimed", "running", "ack", "release", "dead_letter", "ack_dead"}
WorkerPc == Idle \cup Holding \cup {"selected", "unlease"}

\* cursor (modulo the number of queues), misses and processed are the locals
\* of run_worker_with; missed (history) is the queues missed since a job.
Loop == [cursor : Nat, misses : Nat, processed : Nat, missed : SUBSET STRING]
FreshLoop == [cursor |-> 0, misses |-> 0, processed |-> 0, missed |-> {}]

DispatchState == [pc : {"idle", "push", "undo"}, job : Job \cup {None}]
AdminState == [pc : {"idle", "push", "delete"},
               id : FailedId \cup {None}, job : Job \cup {None}]
IdleDispatch == [pc |-> "idle", job |-> None]
IdleAdmin == [pc |-> "idle", id |-> None, job |-> None]

Init ==
  /\ now = 0
  /\ jobs = EmptyTable
  /\ failed = EmptyTable
  /\ lease = {}
  /\ pc = [w \in Worker |-> "stopped"]
  /\ held = [w \in Worker |-> None]
  /\ loop = [w \in Worker |-> FreshLoop]
  /\ dispatch = [d \in Dispatcher |-> IdleDispatch]
  /\ admin = [a \in Admin |-> IdleAdmin]
  /\ issued = {} /\ buried = {} /\ done = {}
  /\ ran = [r \in RowId |-> 0]
  /\ dead = {} /\ cleared = {}

-----------------------------------------------------------------------------
(* Dispatch. *)

\* DatabaseDriver::push: INSERT a row under a fresh uuid.  A payload without
\* available_at is available at once (delay 0).
push(j, delay) ==
  \E r \in RowId \ issued :
    /\ jobs' = Insert(jobs, r, [job |-> j, attempts |-> 1, reserved |-> FALSE,
                 available_at |-> now + delay, created_at |-> now])
    /\ issued' = issued \cup {r}

\* BOUND: a push is begun only if a row id is left for it.
Pushing == {d \in Dispatcher : dispatch[d].pc = "push"}
             \cup {a \in Admin : admin[a].pc = "push"}
Room == Cardinality(RowId \ issued) > Cardinality(Pushing)

\* acquire_lease of dispatch_outcome: put_if_absent on the lease key of a
\* unique job.  When the key is present the dispatch returns Deduplicated and
\* nothing changes; there is no step for it.
AcquireLease(d, j) ==
  /\ dispatch[d].pc = "idle"
  /\ Room
  /\ j \notin lease
  /\ lease' = lease \cup ({j} \cap UniqueJob)
  /\ dispatch' = [dispatch EXCEPT ![d] = [pc |-> "push", job |-> j]]
  /\ UNCHANGED <<now, jobs, failed, workerVars, admin, historyVars>>

\* The rest of dispatch_outcome for a registered connection: push succeeds.
Enqueue(d) ==
  /\ dispatch[d].pc = "push"
  /\ "database" \in Connections
  /\ \E delay \in Delays : push(dispatch[d].job, delay)
  /\ dispatch' = [dispatch EXCEPT ![d] = IdleDispatch]
  /\ UNCHANGED <<now, failed, lease, workerVars, admin,
                 buried, done, ran, dead, cleared>>

\* `driver(&connection)?` on a connection nobody registered: the error leaves
\* dispatch_outcome before the arm that gives the lease back.
UnknownConnection(d) ==
  /\ dispatch[d].pc = "push"
  /\ "unregistered" \in Connections
  /\ dispatch' = [dispatch EXCEPT ![d] = IdleDispatch]
  /\ UNCHANGED <<queueVars, workerVars, admin, historyVars>>

\* push returned Err: the lease is released in a step of its own.
PushFails(d) ==
  /\ Faults
  /\ dispatch[d].pc = "push"
  /\ dispatch' = [dispatch EXCEPT ![d].pc = "undo"]
  /\ UNCHANGED <<queueVars, workerVars, admin, historyVars>>

\* release_unique: an unconditional forget of the lease key.
release_unique(j) == lease' = lease \ {j}

UndoLease(d) ==
  /\ dispatch[d].pc = "undo"
  /\ release_unique(dispatch[d].job)
  /\ dispatch' = [dispatch EXCEPT ![d] = IdleDispatch]
  /\ UNCHANGED <<now, jobs, failed, workerVars, admin, historyVars>>

\* The dispatching process dies between two of its steps.
DispatchCrash(d) ==
  /\ Faults
  /\ dispatch[d].pc # "idle"
  /\ dispatch' = [dispatch EXCEPT ![d] = IdleDispatch]
  /\ UNCHANGED <<queueVars, workerVars, admin, historyVars>>

-----------------------------------------------------------------------------
(* Claiming a row: DatabaseDriver::pop and claim. *)

CurrentQueue(w) == QueueList[loop[w].cursor + 1]

\* Mutant: the SELECT forgets `available_at <= $2`.
AvailableEarly(r, queue) ==
  QueueOf[jobs[r].job] = queue /\ ~ jobs[r].reserved

\* The WHERE clause of claim's SELECT.
Available(r, queue) ==
  /\ QueueOf[jobs[r].job] = queue
  /\ ~ jobs[r].reserved
  /\ jobs[r].available_at <= now

\* ORDER BY available_at, created_at, id; uuids are in no particular order.
Before(a, b) ==
  \/ a.available_at < b.available_at
  \/ a.available_at = b.available_at /\ a.created_at < b.created_at

\* The SELECT of claim, run at the head of run_worker_with's loop.
ClaimSelect(w) ==
  /\ pc[w] = "polling"
  /\ \E r \in DOMAIN jobs :
       /\ Available(r, CurrentQueue(w))
       /\ \A s \in DOMAIN jobs : Available(s, CurrentQueue(w))
                                   => ~ Before(jobs[s], jobs[r])
       /\ held' = [held EXCEPT ![w] = [id |-> r, row |-> jobs[r]]]
  /\ pc' = [pc EXCEPT ![w] = "selected"]
  /\ UNCHANGED <<queueVars, loop, dispatch, admin, historyVars>>

\* run_worker_with after pop returned None: go on to the next queue, or break
\* once a full cycle of queues missed.
Miss(w) ==
  LET misses == loop[w].misses + 1
  IN  /\ loop' = [loop EXCEPT
           ![w].cursor = (@ + 1) % Len(QueueList),
           ![w].misses = misses,
           ![w].missed = @ \cup {CurrentQueue(w)}]
      /\ pc' = [pc EXCEPT ![w] =
           IF misses >= Len(QueueList) THEN "drained" ELSE "polling"]
      /\ held' = [held EXCEPT ![w] = None]

\* The SELECT finds no row and the pop deadline has passed.
PopEmpty(w) ==
  /\ pc[w] = "polling"
  /\ \A r \in DOMAIN jobs : ~ Available(r, CurrentQueue(w))
  /\ Miss(w)
  /\ UNCHANGED <<queueVars, dispatch, admin, historyVars>>

\* Mutant: the UPDATE forgets `AND reserved_at IS NULL`.
ClaimUnguarded(r) == r \in DOMAIN jobs

\* The guard of claim's UPDATE: `WHERE id = $2 AND reserved_at IS NULL`,
\* evaluated on the row as it is now.
ClaimGuard(r) == r \in DOMAIN jobs /\ ~ jobs[r].reserved

\* Under serializable isolation a row that changed since the SELECT fails the
\* transaction; under read committed only the guard decides.
Serializable(w) ==
  Isolation = "serializable" =>
    /\ held[w].id \in DOMAIN jobs
    /\ jobs[held[w].id] = held[w].row

\* Mutant: a job found does not reset `misses`.
ClaimKeepsMisses(w) ==
  /\ pc[w] = "selected"
  /\ Serializable(w)
  /\ ClaimGuard(held[w].id)
  /\ jobs' = [jobs EXCEPT ![held[w].id].reserved = TRUE]
  /\ pc' = [pc EXCEPT ![w] = "claimed"]
  /\ loop' = [loop EXCEPT ![w].cursor = (@ + 1) % Len(QueueList), ![w].missed = {}]
  /\ UNCHANGED <<now, failed, lease, held, dispatch, admin, historyVars>>

\* The UPDATE affects the row and the transaction commits.  The payload keeps
\* the attempts of the SELECT.
ClaimUpdate(w) ==
  /\ pc[w] = "selected"
  /\ Serializable(w)
  /\ ClaimGuard(held[w].id)
  /\ jobs' = [jobs EXCEPT ![held[w].id].reserved = TRUE]
  /\ pc' = [pc EXCEPT ![w] = "claimed"]
  /\ loop' = [loop EXCEPT ![w].cursor = (@ + 1) % Len(QueueList),
                          ![w].misses = 0, ![w].missed = {}]
  /\ UNCHANGED <<now, failed, lease, held, dispatch, admin, historyVars>>

\* The UPDATE affects no row: claim returns None and pop polls again ...
ClaimLost(w) ==
  /\ pc[w] = "selected"
  /\ Serializable(w)
  /\ ~ ClaimGuard(held[w].id)
  /\ pc' = [pc EXCEPT ![w] = "polling"]
  /\ held' = [held EXCEPT ![w] = None]
  /\ UNCHANGED <<queueVars, loop, dispatch, admin, historyVars>>

\* ... or, its deadline past, returns None to run_worker_with.
ClaimLostAtDeadline(w) ==
  /\ pc[w] = "selected"
  /\ Serializable(w)
  /\ ~ ClaimGuard(held[w].id)
  /\ Miss(w)
  /\ UNCHANGED <<queueVars, dispatch, admin, historyVars>>

\* The worker ends with an error, leaving the tables as they are.
Stop(w) ==
  /\ pc' = [pc EXCEPT ![w] = "stopped"]
  /\ held' = [held EXCEPT ![w] = None]

\* The database refuses the transaction: `?` ends the worker with an error.
ClaimConflict(w) ==
  /\ pc[w] = "selected"
  /\ ~ Serializable(w)
  /\ Stop(w)
  /\ UNCHANGED <<queueVars, loop, dispatch, admin, historyVars>>

-----------------------------------------------------------------------------
(* process_one: run the claimed job and finalize it. *)

JobOf(w) == held[w].row.job
AttemptsOf(w) == held[w].row.attempts

\* The end of process_one: count the job; the loop ends at max_jobs.
Processed(w) ==
  LET processed == loop[w].processed + 1
  IN  /\ loop' = [loop EXCEPT ![w].processed = processed]
      /\ pc' = [pc EXCEPT ![w] =
           IF processed < MaxJobs THEN "polling" ELSE "stopped"]
      /\ held' = [held EXCEPT ![w] = None]

\* The resolver finds no handler: the job goes to the dead letters.
NoHandler(w) ==
  /\ pc[w] = "claimed"
  /\ JobOf(w) \notin Handled
  /\ pc' = [pc EXCEPT ![w] = "dead_letter"]
  /\ UNCHANGED <<queueVars, held, loop, dispatch, admin, historyVars>>

\* run_erased starts the handler.
StartRun(w) ==
  /\ pc[w] = "claimed"
  /\ JobOf(w) \in Handled
  /\ ran' = [ran EXCEPT ![held[w].id] = @ + 1]
  /\ pc' = [pc EXCEPT ![w] = "running"]
  /\ UNCHANGED <<queueVars, held, loop, dispatch, admin,
                 issued, buried, done, dead, cleared>>

\* The handler ends with some result and the match picks an arm.
FinishRun(w) ==
  /\ pc[w] = "running"
  /\ \E result \in HandlerResult :
       LET arm == disposition(PolicyOf[JobOf(w)], AttemptsOf(w),
                              run(PolicyOf[JobOf(w)], result))
       IN  /\ pc' = [pc EXCEPT ![w] = arm]
           /\ done' = IF arm = "ack" THEN done \cup {held[w].id} ELSE done
  /\ UNCHANGED <<queueVars, held, loop, dispatch, admin,
                 issued, buried, ran, dead, cleared>>

\* Mutants: release leaves reserved_at set, or the attempts column as it was.
ReleasedReserved(row, attempts, delay) ==
  [row EXCEPT !.available_at = now + delay, !.attempts = attempts + 1]
ReleasedSameAttempt(row, attempts, delay) ==
  [row EXCEPT !.reserved = FALSE, !.available_at = now + delay]

\* The UPDATE of DatabaseDriver::release: later, one attempt on.
Released(row, attempts, delay) ==
  [row EXCEPT !.reserved = FALSE, !.available_at = now + delay,
              !.attempts = attempts + 1]

\* Mutant: the retry arm gives the unique lease back too.
ReleaseWithLease(w) ==
  /\ pc[w] = "release"
  /\ jobs' = [jobs EXCEPT ![held[w].id] = Released(@, AttemptsOf(w), 0)]
  /\ release_unique(JobOf(w))
  /\ Processed(w)
  /\ UNCHANGED <<now, failed, dispatch, admin, historyVars>>

\* The retry arm: release in place after the backoff of the policy.
Release(w) ==
  /\ pc[w] = "release"
  /\ LET i == held[w].id
         delay == delay_for_attempt(PolicyOf[JobOf(w)], AttemptsOf(w))
     IN  jobs' = IF i \in DOMAIN jobs
                 THEN [jobs EXCEPT ![i] = Released(jobs[i], AttemptsOf(w), delay)]
                 ELSE jobs
  /\ Processed(w)
  /\ UNCHANGED <<now, failed, lease, dispatch, admin, historyVars>>

\* DatabaseDriver::dead_letter: INSERT the payload under a fresh id.
DeadLetter(w) ==
  /\ pc[w] = "dead_letter"
  /\ \E f \in FailedId \ dead :
       /\ failed' = Insert(failed, f, JobOf(w))
       /\ dead' = dead \cup {f}
  /\ buried' = buried \cup {held[w].id}
  /\ pc' = [pc EXCEPT ![w] = "ack_dead"]
  /\ UNCHANGED <<now, jobs, lease, held, loop, dispatch, admin,
                 issued, done, ran, cleared>>

\* Mutants: the row is deleted before its dead letter is written, or the
\* failure arm forgets release_lease.
AckFirst(w) ==
  /\ pc[w] \in {"ack", "ack_dead", "dead_letter"}
  /\ jobs' = Delete(jobs, held[w].id)
  /\ Processed(w)
  /\ UNCHANGED <<now, failed, lease, dispatch, admin, historyVars>>
AckKeepsLease(w) ==
  /\ pc[w] \in {"ack", "ack_dead"}
  /\ jobs' = Delete(jobs, held[w].id)
  /\ IF pc[w] = "ack"
     THEN pc' = [pc EXCEPT ![w] = "unlease"] /\ UNCHANGED <<held, loop>>
     ELSE Processed(w)
  /\ UNCHANGED <<now, failed, lease, dispatch, admin, historyVars>>

\* DatabaseDriver::ack: DELETE the row by id.  The no-handler arm returns
\* without releasing the lease; the others go on to release_lease.
Ack(w) ==
  /\ pc[w] \in {"ack", "ack_dead"}
  /\ jobs' = Delete(jobs, held[w].id)
  /\ IF JobOf(w) \in Handled
     THEN pc' = [pc EXCEPT ![w] = "unlease"] /\ UNCHANGED <<held, loop>>
     ELSE Processed(w)
  /\ UNCHANGED <<now, failed, lease, dispatch, admin, historyVars>>

\* release_lease, and record_batch of a payload without a batch.
ReleaseLease(w) ==
  /\ pc[w] = "unlease"
  /\ release_unique(JobOf(w))
  /\ Processed(w)
  /\ UNCHANGED <<now, jobs, failed, dispatch, admin, historyVars>>

\* The worker process dies, or a store error leaves process_one through `?`.
WorkerCrash(w) ==
  /\ Faults
  /\ pc[w] \notin Idle
  /\ Stop(w)
  /\ UNCHANGED <<queueVars, loop, dispatch, admin, historyVars>>

\* Mutant: a starting worker frees every reservation it finds.
StartReclaims(w) ==
  /\ pc[w] \in {"stopped", "drained"}
  /\ pc' = [pc EXCEPT ![w] = "polling"]
  /\ loop' = [loop EXCEPT ![w] = FreshLoop]
  /\ jobs' = [r \in DOMAIN jobs |-> [jobs[r] EXCEPT !.reserved = FALSE]]
  /\ UNCHANGED <<now, failed, lease, held, dispatch, admin, historyVars>>

\* A supervisor invokes queue:work again.
StartWorker(w) ==
  /\ pc[w] \in {"stopped", "drained"}
  /\ pc' = [pc EXCEPT ![w] = "polling"]
  /\ loop' = [loop EXCEPT ![w] = FreshLoop]
  /\ UNCHANGED <<queueVars, held, dispatch, admin, historyVars>>

-----------------------------------------------------------------------------
(* queue:retry and queue:forget. *)

\* retry_failed: SELECT the dead letter ...
RetrySelect(a) ==
  /\ admin[a].pc = "idle"
  /\ Room
  /\ \E f \in DOMAIN failed :
       admin' = [admin EXCEPT ![a] = [pc |-> "push", id |-> f, job |-> failed[f]]]
  /\ UNCHANGED <<queueVars, workerVars, dispatch, historyVars>>

\* ... push its payload as a fresh immediate first attempt, no lease taken ...
RetryPush(a) ==
  /\ admin[a].pc = "push"
  /\ push(admin[a].job, 0)
  /\ cleared' = cleared \cup {admin[a].id}
  /\ admin' = [admin EXCEPT ![a].pc = "delete"]
  /\ UNCHANGED <<now, failed, lease, workerVars, dispatch,
                 buried, done, ran, dead>>

\* ... and only then DELETE it.
RetryDelete(a) ==
  /\ admin[a].pc = "delete"
  /\ failed' = Delete(failed, admin[a].id)
  /\ admin' = [admin EXCEPT ![a] = IdleAdmin]
  /\ UNCHANGED <<now, jobs, lease, workerVars, dispatch, historyVars>>

\* retry_failed returns an error, or its process dies, between two statements.
RetryCrash(a) ==
  /\ Faults
  /\ admin[a].pc # "idle"
  /\ admin' = [admin EXCEPT ![a] = IdleAdmin]
  /\ UNCHANGED <<queueVars, workerVars, dispatch, historyVars>>

\* forget_failed: a single DELETE.
ForgetFailed(a) ==
  /\ admin[a].pc = "idle"
  /\ \E f \in DOMAIN failed : /\ failed' = Delete(failed, f)
                              /\ cleared' = cleared \cup {f}
  /\ UNCHANGED <<now, jobs, lease, workerVars, dispatch, admin,
                 issued, buried, done, ran, dead>>

-----------------------------------------------------------------------------
(* The environment. *)

\* BOUND: the clock moves only while a row waits for it.
Tick ==
  /\ \E r \in DOMAIN jobs : jobs[r].available_at > now
  /\ now' = now + 1
  /\ UNCHANGED <<jobs, failed, lease, workerVars, dispatch, admin, historyVars>>

\* The TTL of a lease runs out.
LeaseExpires(j) ==
  /\ LeaseExpiry
  /\ j \in lease
  /\ lease' = lease \ {j}
  /\ UNCHANGED <<now, jobs, failed, workerVars, dispatch, admin, historyVars>>

DispatchNext(d) ==
  \/ \E j \in Job : AcquireLease(d, j)
  \/ Enqueue(d) \/ UnknownConnection(d)
  \/ PushFails(d) \/ UndoLease(d) \/ DispatchCrash(d)

\* What a worker does by itself: every step but dying.
WorkerStep(w) ==
  \/ StartWorker(w)
  \/ ClaimSelect(w) \/ PopEmpty(w) \/ ClaimUpdate(w)
  \/ ClaimLost(w) \/ ClaimLostAtDeadline(w) \/ ClaimConflict(w)
  \/ NoHandler(w) \/ StartRun(w) \/ FinishRun(w)
  \/ Release(w) \/ DeadLetter(w) \/ Ack(w) \/ ReleaseLease(w)

AdminNext(a) ==
  RetrySelect(a) \/ RetryPush(a) \/ RetryDelete(a) \/ RetryCrash(a) \/ ForgetFailed(a)

Next ==
  \/ \E d \in Dispatcher : DispatchNext(d)
  \/ \E w \in Worker : WorkerStep(w) \/ WorkerCrash(w)
  \/ \E a \in Admin : AdminNext(a)
  \/ Tick
  \/ \E j \in UniqueJob : LeaseExpires(j)

Spec == Init /\ [][Next]_vars

\* Workers are scheduled, handlers end (a timeout or their own return), a
\* supervisor restarts a worker that ended, and time passes.
Fairness == WF_vars(Tick) /\ \A w \in Worker : WF_vars(WorkerStep(w))
FairSpec == Spec /\ Fairness

-----------------------------------------------------------------------------
(* Properties. *)

TablesOK ==
  /\ now \in Nat
  /\ issued \subseteq RowId
  /\ DOMAIN jobs \subseteq issued
  /\ \A r \in DOMAIN jobs : jobs[r] \in Row
  /\ dead \subseteq FailedId
  /\ DOMAIN failed \subseteq dead
  /\ \A f \in DOMAIN failed : failed[f] \in Job
  /\ lease \subseteq UniqueJob

WorkersOK ==
  /\ pc \in [Worker -> WorkerPc]
  /\ held \in [Worker -> Claim \cup {None}]
  /\ \A w \in Worker : held[w] = None <=> pc[w] \in Idle
  /\ loop \in [Worker -> Loop]
  /\ \A w \in Worker : loop[w].cursor < Len(QueueList)

ClientsOK ==
  /\ dispatch \in [Dispatcher -> DispatchState]
  /\ \A d \in Dispatcher : dispatch[d].pc # "idle" => dispatch[d].job \in Job
  /\ admin \in [Admin -> AdminState]
  /\ \A a \in Admin : admin[a].pc # "idle" =>
       admin[a].job \in Job /\ admin[a].id \in FailedId

HistoryOK ==
  /\ buried \subseteq RowId
  /\ done \subseteq RowId
  /\ ran \in [RowId -> Nat]
  /\ cleared \subseteq FailedId

\* Every variable stays in its set: live rows carry issued ids, and a worker
\* of the loop in worker.rs has a payload exactly between claim and finalize.
TypeOK == TablesOK /\ WorkersOK /\ ClientsOK /\ HistoryOK

Holds(w, r) == pc[w] \in Holding /\ held[w].id = r

\* "Safe against two workers claiming the same row because the claim UPDATE
\* is guarded by reserved_at IS NULL" (driver/database.rs): no two workers
\* are between claim and ack or release of the same row, and a row a worker
\* holds is live and reserved.
ClaimExclusive ==
  \A w \in Worker : pc[w] \in Holding =>
    /\ held[w].id \in DOMAIN jobs
    /\ jobs[held[w].id].reserved
    /\ \A v \in Worker \ {w} : ~ Holds(v, held[w].id)

\* A row gets one verdict: a job whose handler reported success is never also
\* written to failed_jobs, whoever crashed and whoever polled in between.
OneVerdict == done \cap buried = {}

\* No job disappears: a row leaves `jobs` only after its handler succeeded (or
\* was skipped) or its dead letter was written, and a dead letter leaves
\* failed_jobs only after it was pushed again or was forgotten.  This is what
\* the order dead_letter, ack in process_one and the order push, DELETE in
\* retry_failed are for.
NothingLost ==
  /\ issued \ DOMAIN jobs \subseteq done \cup buried
  /\ dead \ DOMAIN failed \subseteq cleared

\* What ties a verdict to the worker that reached it, and a deleted dead letter
\* to its push: the strengthening that makes the three properties inductive.
VerdictAtHolder ==
  /\ done \cup buried \subseteq issued
  /\ \A r \in DOMAIN jobs \cap (done \cup buried) : jobs[r].reserved
  /\ \A w \in Worker : pc[w] \in Holding =>
       /\ held[w].id \in done <=> pc[w] = "ack"
       /\ held[w].id \in buried <=> pc[w] = "ack_dead"
PushBeforeDelete ==
  \A a \in Admin : admin[a].pc = "delete" => admin[a].id \in cleared

SafetyInv ==
  TypeOK /\ ClaimExclusive /\ OneVerdict /\ NothingLost /\ VerdictAtHolder /\ PushBeforeDelete

\* "Maximum number of attempts (the initial run counts as one)" (policy.rs):
\* the handler of a row is started at most max_tries times (once when
\* max_tries is 0: the first run is never asked for).
AttemptBudget ==
  \A r \in DOMAIN jobs :
    ran[r] <= LET m == PolicyOf[jobs[r].job].max_tries IN IF m = 0 THEN 1 ELSE m

\* The attempts column is the number of the current attempt: one more than the
\* handler starts while the row waits, equal to them while the handler runs
\* and until the outcome is written back.
AttemptsAuthoritative ==
  \A r \in DOMAIN jobs :
    /\ ~ jobs[r].reserved => jobs[r].attempts = ran[r] + 1
    /\ \A w \in Worker : Holds(w, r) /\ pc[w] \in {"running", "release"} =>
         jobs[r].attempts = ran[r] /\ AttemptsOf(w) = ran[r]

\* Backoff and dispatch delays are honoured: a row is reserved only once it is
\* due, so no retry starts before its policy's delay has passed.
BackoffHonoured ==
  \A r \in DOMAIN jobs : jobs[r].reserved => jobs[r].available_at <= now

\* "enqueued at most once while its lease is held" (unique.rs): a unique job
\* never has two rows in the jobs table that still wait for a verdict.
UniqueInFlight ==
  \A r, s \in DOMAIN jobs \ (done \cup buried) :
    jobs[r].job = jobs[s].job /\ jobs[r].job \in UniqueJob => r = s

\* Who accounts for the lease of j: a live row, a dispatcher between acquire
\* and push (or undo), or a worker between ack and release_lease.
LeaseAccounted(j) ==
  \/ \E r \in DOMAIN jobs : jobs[r].job = j
  \/ \E d \in Dispatcher : dispatch[d].pc # "idle" /\ dispatch[d].job = j
  \/ \E w \in Worker : pc[w] = "unlease" /\ JobOf(w) = j

\* A lease is never left behind: while its key is set the job is in flight or
\* somebody is about to delete the key.  "A worker that reaches a terminal
\* outcome (Succeeded/Skipped/Failed) calls release_unique" (unique.rs).
NoWedgedLease == \A j \in lease : LeaseAccounted(j)

\* run_worker_with breaks only after every queue of its list was polled and
\* missed since the last job it found ("Stop only after a full cycle with no
\* job", worker.rs).
DrainedAfterFullCycle ==
  \A w \in Worker : pc[w] = "drained" =>
    \A i \in 1 .. Len(QueueList) : QueueList[i] \in loop[w].missed

\* A row that exists changes only by being claimed while nobody has it, or by
\* the worker that holds it releasing or acknowledging it: no statement of
\* another worker, a dispatcher or an operator touches it.
RowStep ==
  \A r \in DOMAIN jobs :
    \/ r \in DOMAIN jobs' /\ jobs'[r] = jobs[r]
    \/ \E w \in Worker : /\ pc[w] = "selected" /\ held[w].id = r
                         /\ ~ jobs[r].reserved /\ pc'[w] = "claimed"
    \/ \E w \in Worker : Holds(w, r) /\ pc[w] \in {"release", "ack", "ack_dead"}
RowsChangeByHolder == [][RowStep]_vars

\* Every job that was enqueued leaves the queue: it succeeds or it is
\* dead-lettered after its last attempt.
EveryJobSettles ==
  \A r \in RowId : r \in issued ~> r \notin DOMAIN jobs

-----------------------------------------------------------------------------
(* What the driver promises: module QueueContract. *)

HeldAt(r, pcs) == \E w \in Worker : pc[w] \in pcs /\ held[w].id = r

\* The phase of a row.  A verdict counts from the step that reaches it; a
\* reserved row without a verdict that no worker holds is abandoned.
Phase(r) ==
  IF r \in done THEN "done"
  ELSE IF r \in buried THEN "buried"
  ELSE IF r \notin DOMAIN jobs THEN "absent"
  ELSE IF ~ jobs[r].reserved THEN "waiting"
  ELSE IF HeldAt(r, {"claimed"}) THEN "claimed"
  ELSE IF HeldAt(r, {"running", "release"}) THEN "running"
  ELSE IF HeldAt(r, {"dead_letter"}) THEN "failing"
  ELSE "abandoned"

\* A row that waits is never lost; one that a worker holds is, if it dies.
Losable == IF Faults THEN {"claimed", "running", "failing"} ELSE {}

ContractOf == INSTANCE QueueContract WITH
  Item <- RowId, Losable <- Losable, phase <- [r \in RowId |-> Phase(r)], runs <- ran

\* The statements of push, claim, release, dead_letter and ack, interleaved
\* with those of other workers, dispatchers and operators and cut off by
\* crashes anywhere, do to each row what QueueContract lets a driver do.
ImplementsContract == ContractOf!Contract

============================================================================
