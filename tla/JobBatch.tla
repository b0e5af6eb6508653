------------------------------ MODULE JobBatch ------------------------------
(***************************************************************************)
(* A persistent job batch: one row of job_batches and the calls of         *)
(* record_batch_outcome that workers make for its jobs                     *)
(* (rustasea-queue/src/batch_db.rs), with the in-process then / catch /    *)
(* finally callbacks (batch_db/callbacks.rs) and the dispatch of the batch *)
(* (batch.rs).  Batches share no state, so the module has one.             *)
(*                                                                         *)
(* A call is made for each terminal outcome of a job and is identified     *)
(* with the job.  Every SQL statement and every critical section of the    *)
(* callback map is a step.                                                 *)
(***************************************************************************)
EXTENDS Integers, Sequences, FiniteSets

CONSTANTS
  Member,            \* the jobs of the batch
  Remote,            \* the jobs whose worker is in another process than the
                     \* one that registered the callbacks
  UniqueMember,      \* the jobs whose type is unique (unique.rs)
  MaxAppendRetries,  \* MAX_APPEND_RETRIES
  MaxRetries,        \* BOUND: how often queue:retry is used on a job
  PartialDispatch,   \* whether the dispatch of a job may fail
  Faults,            \* whether a worker may die in a call
  None               \* no value

ASSUME BatchAssumption ==
  /\ IsFiniteSet(Member)
  /\ Remote \subseteq Member
  /\ UniqueMember \subseteq Member
  /\ MaxAppendRetries \in Nat \ {0}
  /\ MaxRetries \in Nat
  /\ PartialDispatch \in BOOLEAN
  /\ Faults \in BOOLEAN

\* BatchRecord, without the columns that nothing reads.
Record == [pending_jobs : Nat, failed_jobs : Nat, failed_job_ids : Seq(Member),
           finished : BOOLEAN, cancelled : BOOLEAN]

Callback == {"then", "catch", "finally"}

\* Where the call of a job is.  absent and queued come before it, settled and
\* lost after it: lost is a call that died or gave up without an outcome.
CallPc == {"absent", "queued", "decrement", "find", "select", "append", "catch",
           "finish", "finish_find", "complete", "settled", "lost"}

VARIABLES
  row,         \* the job_batches row
  callbacks,   \* the CallbackSet registered for the batch
  pc, seen,    \* per call: program counter and the record it read last
  first,       \* per call: first_failure
  tries,       \* per call: failed appends
  retries,     \* per job: how often it was retried
  \* History:
  fired,       \* how often each callback ran
  recorded,    \* the jobs whose outcome the row counts
  failures     \* the jobs whose failure the row counts

vars == <<row, callbacks, pc, seen, first, tries, retries, fired, recorded, failures>>
local == <<seen, first, tries, retries>>

\* DatabaseBatchRepository::create, and on_then, on_catch and on_finally by
\* the application before it dispatches the batch.
Init ==
  /\ row = [pending_jobs |-> Cardinality(Member), failed_jobs |-> 0,
            failed_job_ids |-> <<>>, finished |-> FALSE, cancelled |-> FALSE]
  /\ callbacks = Callback
  /\ pc = [j \in Member |-> "absent"]
  /\ seen = [j \in Member |-> None]
  /\ first = [j \in Member |-> FALSE]
  /\ tries = [j \in Member |-> 0]
  /\ retries = [j \in Member |-> 0]
  /\ fired = [c \in Callback |-> 0]
  /\ recorded = {} /\ failures = {}

-----------------------------------------------------------------------------
(* The jobs. *)

\* dispatch_erased_in pushes a job with the tag of the batch.  A unique job
\* whose lease somebody holds is deduplicated: nothing is pushed, dispatch
\* returns Ok and the row still counts the job.
DispatchJob(j) ==
  /\ pc[j] = "absent"
  /\ \E step \in {"queued"} \cup (IF j \in UniqueMember THEN {"lost"} ELSE {}) :
       pc' = [pc EXCEPT ![j] = step]
  /\ UNCHANGED <<row, callbacks, local, fired, recorded, failures>>

\* dispatch_erased_in stops at the first error: the jobs not yet pushed never
\* are, and the row still counts them.
DispatchFails ==
  /\ PartialDispatch
  /\ \E j \in Member : pc[j] = "absent"
  /\ pc' = [j \in Member |-> IF pc[j] = "absent" THEN "lost" ELSE pc[j]]
  /\ UNCHANGED <<row, callbacks, local, fired, recorded, failures>>

\* The job reaches a terminal outcome and its worker calls record_batch.
JobEnds(j) ==
  /\ pc[j] = "queued"
  /\ \E step \in {"decrement", "select"} : pc' = [pc EXCEPT ![j] = step]
  /\ first' = [first EXCEPT ![j] = FALSE]
  /\ tries' = [tries EXCEPT ![j] = 0]
  /\ UNCHANGED <<row, callbacks, seen, retries, fired, recorded, failures>>

\* queue:retry pushes the payload of a failed job, batch_id included.
RetryJob(j) ==
  /\ pc[j] = "settled"
  /\ j \in failures
  /\ retries[j] < MaxRetries
  /\ retries' = [retries EXCEPT ![j] = @ + 1]
  /\ pc' = [pc EXCEPT ![j] = "queued"]
  /\ UNCHANGED <<row, callbacks, seen, first, tries, fired, recorded, failures>>

-----------------------------------------------------------------------------
(* record_batch_outcome. *)

\* Mutants: the last job never sees the batch complete, or the one before it
\* already does.
AfterRecordNever(record) == "settled"
AfterRecordEarly(record) ==
  IF record.pending_jobs <= 1 /\ ~ record.finished THEN "finish" ELSE "settled"

\* Its tail, given the record the call has: finish the batch or return.
AfterRecord(record) ==
  IF record.pending_jobs <= 0 /\ ~ record.finished THEN "finish" ELSE "settled"

\* decrement_pending: UPDATE ... WHERE pending_jobs > 0 ...
Decrement(j) ==
  /\ pc[j] = "decrement"
  /\ row' = IF row.pending_jobs > 0
            THEN [row EXCEPT !.pending_jobs = @ - 1] ELSE row
  /\ recorded' = recorded \cup {j}
  /\ pc' = [pc EXCEPT ![j] = "find"]
  /\ UNCHANGED <<callbacks, local, fired, failures>>

\* ... then find, in a statement of its own.
Find(j) ==
  /\ pc[j] = "find"
  /\ seen' = [seen EXCEPT ![j] = row]
  /\ pc' = [pc EXCEPT ![j] = AfterRecord(row)]
  /\ UNCHANGED <<row, callbacks, first, tries, retries, fired, recorded, failures>>

\* record_failure: the SELECT of its transaction.  A drained batch records
\* nothing and is not a first failure.
SelectRow(j) ==
  /\ pc[j] = "select"
  /\ seen' = [seen EXCEPT ![j] = row]
  /\ first' = [first EXCEPT ![j] =
       row.pending_jobs > 0 /\ row.failed_job_ids = <<>>]
  /\ pc' = [pc EXCEPT ![j] = IF row.pending_jobs <= 0 THEN AfterRecord(row) ELSE "append"]
  /\ UNCHANGED <<row, callbacks, tries, retries, fired, recorded, failures>>

\* Mutant: the UPDATE forgets `AND failed_job_ids = $3`.
NoCas(j) == row.pending_jobs > 0

\* The compare-and-swap of the UPDATE.
CasGuard(j) == row.pending_jobs > 0 /\ row.failed_job_ids = seen[j].failed_job_ids

\* Mutant: a failure is appended without being taken off the pending jobs.
AppendKeepsPending(j) ==
  /\ pc[j] = "append"
  /\ CasGuard(j)
  /\ row' = [row EXCEPT !.failed_jobs = @ + 1,
                        !.failed_job_ids = Append(seen[j].failed_job_ids, j)]
  /\ seen' = [seen EXCEPT ![j] = row']
  /\ recorded' = recorded \cup {j}
  /\ failures' = failures \cup {j}
  /\ pc' = [pc EXCEPT ![j] = IF first[j] THEN "catch" ELSE AfterRecord(row')]
  /\ UNCHANGED <<callbacks, first, tries, retries, fired>>

\* The UPDATE succeeds; the SELECT after it runs under its row lock.
AppendFailure(j) ==
  /\ pc[j] = "append"
  /\ CasGuard(j)
  /\ row' = [row EXCEPT !.pending_jobs = @ - 1, !.failed_jobs = @ + 1,
                        !.failed_job_ids = Append(seen[j].failed_job_ids, j)]
  /\ seen' = [seen EXCEPT ![j] = row']
  /\ recorded' = recorded \cup {j}
  /\ failures' = failures \cup {j}
  /\ pc' = [pc EXCEPT ![j] = IF first[j] THEN "catch" ELSE AfterRecord(row')]
  /\ UNCHANGED <<callbacks, first, tries, retries, fired>>

\* The UPDATE affects no row: FailureTx::Conflict.  Once the retry budget is
\* spent record_failure returns an error, which record_batch drops.
Conflict(j) ==
  /\ pc[j] = "append"
  /\ ~ CasGuard(j)
  /\ tries' = [tries EXCEPT ![j] = @ + 1]
  /\ pc' = [pc EXCEPT ![j] =
       IF tries[j] + 1 < MaxAppendRetries THEN "select" ELSE "lost"]
  /\ UNCHANGED <<row, callbacks, seen, first, retries, fired, recorded, failures>>

\* fire_catch: take `catch` out of the map and run it.
FireCatch(j) ==
  /\ pc[j] = "catch"
  /\ IF j \notin Remote /\ "catch" \in callbacks
     THEN /\ callbacks' = callbacks \ {"catch"}
          /\ fired' = [fired EXCEPT !["catch"] = @ + 1]
     ELSE UNCHANGED <<callbacks, fired>>
  /\ pc' = [pc EXCEPT ![j] = AfterRecord(seen[j])]
  /\ UNCHANGED <<row, local, recorded, failures>>

\* finish: UPDATE ... WHERE finished_at IS NULL.  Only the call whose UPDATE
\* affects the row goes on to the callbacks.
FinishBatch(j) ==
  /\ pc[j] = "finish"
  /\ row' = [row EXCEPT !.finished = TRUE]
  /\ pc' = [pc EXCEPT ![j] = IF row.finished THEN "settled" ELSE "finish_find"]
  /\ UNCHANGED <<callbacks, local, fired, recorded, failures>>

\* The find of finish.
FinishFind(j) ==
  /\ pc[j] = "finish_find"
  /\ seen' = [seen EXCEPT ![j] = row]
  /\ pc' = [pc EXCEPT ![j] = "complete"]
  /\ UNCHANGED <<row, callbacks, first, tries, retries, fired, recorded, failures>>

\* Mutant: `then` runs whether jobs failed or not.
FireCompletionAlways(j) ==
  /\ pc[j] = "complete"
  /\ callbacks' = {}
  /\ fired' = [c \in Callback |-> fired[c] + (IF c \in callbacks \ {"catch"} THEN 1 ELSE 0)]
  /\ pc' = [pc EXCEPT ![j] = "settled"]
  /\ UNCHANGED <<row, local, recorded, failures>>

\* fire_completion: take the whole set, run `then` if nothing failed, then
\* `finally`.
FireCompletion(j) ==
  LET taken == IF j \in Remote THEN {} ELSE callbacks
      run == (taken \cap {"finally"})
               \cup (IF seen[j].failed_jobs = 0 THEN taken \cap {"then"} ELSE {})
  IN  /\ pc[j] = "complete"
      /\ callbacks' = callbacks \ taken
      /\ fired' = [c \in Callback |-> fired[c] + (IF c \in run THEN 1 ELSE 0)]
      /\ pc' = [pc EXCEPT ![j] = "settled"]
      /\ UNCHANGED <<row, local, recorded, failures>>

\* cancel stamps the row; nothing else reads the stamp.
Cancel ==
  /\ ~ row.cancelled
  /\ row' = [row EXCEPT !.cancelled = TRUE]
  /\ UNCHANGED <<callbacks, pc, local, fired, recorded, failures>>

\* The worker dies between two steps of the call (or before the first: the job
\* was acknowledged before record_batch is called).
CallDies(j) ==
  /\ Faults
  /\ pc[j] \notin {"absent", "queued", "settled", "lost"}
  /\ pc' = [pc EXCEPT ![j] = "lost"]
  /\ UNCHANGED <<row, callbacks, local, fired, recorded, failures>>

CallStep(j) ==
  \/ Decrement(j) \/ Find(j) \/ SelectRow(j) \/ AppendFailure(j) \/ Conflict(j)
  \/ FireCatch(j) \/ FinishBatch(j) \/ FinishFind(j) \/ FireCompletion(j)

Next ==
  \/ \E j \in Member : \/ DispatchJob(j) \/ JobEnds(j) \/ RetryJob(j)
                       \/ CallStep(j) \/ CallDies(j)
  \/ DispatchFails
  \/ Cancel

Spec == Init /\ [][Next]_vars

\* The dispatcher pushes, jobs end and calls run on.
Fairness ==
  \A j \in Member : WF_vars(DispatchJob(j)) /\ WF_vars(JobEnds(j)) /\ WF_vars(CallStep(j))
FairSpec == Spec /\ Fairness

-----------------------------------------------------------------------------
(* Properties. *)

\* Every variable stays in its set.  pending_jobs is a natural: "two workers
\* finishing concurrently can never drive the counter below zero"
\* (batch_db.rs), not even when retried jobs report a second outcome.
TypeOK ==
  /\ row \in Record
  /\ callbacks \subseteq Callback
  /\ pc \in [Member -> CallPc]
  /\ seen \in [Member -> Record \cup {None}]
  /\ first \in [Member -> BOOLEAN]
  /\ tries \in [Member -> Nat]
  /\ retries \in [Member -> Nat]
  /\ fired \in [Callback -> Nat]
  /\ recorded \subseteq Member
  /\ failures \subseteq recorded

\* No update is lost: the counter is the number of jobs without an outcome,
\* whatever the interleaving of decrements and failure transactions.
PendingExact == row.pending_jobs = Cardinality(Member \ recorded)

\* "The invariant failed_jobs == failed_job_ids.len() is maintained"
\* (record_failure), and a concurrent append never overwrites another's id:
\* the ids are exactly the jobs whose failure was recorded.
FailedIdsExact ==
  /\ row.failed_jobs = Len(row.failed_job_ids)
  /\ {row.failed_job_ids[i] : i \in DOMAIN row.failed_job_ids} = failures

\* A callback runs at most once; `then` only with `finally` and without any
\* failure, `catch` only after one (batch_db/callbacks.rs).
CallbacksOnce ==
  /\ \A c \in Callback : fired[c] <= 1
  /\ fired["then"] = 1 => failures = {} /\ fired["finally"] = 1
  /\ fired["catch"] = 1 => failures # {}

\* What a call knows of the row while it runs on.  A call past its UPDATE that
\* is about to finish the batch, or has, sees a drained row; no failure can be
\* appended to a drained row, so the record `finally` gets is the last one.
CallKnows ==
  /\ row.finished => row.pending_jobs = 0
  /\ \A j \in Member :
       /\ pc[j] \in {"append", "catch", "complete"} => seen[j] \in Record
       /\ pc[j] = "catch" => failures # {} /\ row.pending_jobs <= seen[j].pending_jobs
       /\ pc[j] = "finish" => row.pending_jobs = 0
       /\ pc[j] \in {"finish_find", "complete"} => row.finished
       /\ pc[j] = "complete" => seen[j].failed_jobs = row.failed_jobs

\* A callback still in the map has not run, and the completion pair leaves the
\* map together, after the batch is finished.
CallbackMap ==
  /\ \A c \in callbacks : fired[c] = 0
  /\ "then" \in callbacks <=> "finally" \in callbacks
  /\ fired["then"] + fired["finally"] > 0 => row.finished

BatchInv == TypeOK /\ FailedIdsExact /\ CallbacksOnce /\ CallKnows /\ CallbackMap

\* Without queue:retry a job has reported only once its call is past its UPDATE.
ReportsOnce ==
  \A j \in Member : pc[j] \in {"absent", "queued", "decrement", "select", "append"} =>
    j \notin recorded

Quiet == \A j \in Member : pc[j] \in {"settled", "lost"}

\* "a callback can never be skipped" (batch_db/callbacks.rs): once every call
\* is over, a batch with a failure has run its `catch`.
CatchNotSkipped == Quiet /\ failures # {} => fired["catch"] = 1

\* "Whether every job has reached a terminal outcome" (BatchRecord::is_complete
\* is pending_jobs <= 0): a finished batch has an outcome of each of its jobs.
FinishedMeansComplete == row.finished => recorded = Member

\* The batch finishes and its completion is announced, when jobs end and no
\* worker dies.
BatchCompletes == <>(row.finished /\ fired["finally"] = 1)

\* The recorders implement the contract of a batch.
ContractOf == INSTANCE BatchContract WITH
  open <- Member \ recorded,
  finished <- row.finished,
  announced <- {c \in {"then", "finally"} : fired[c] > 0}

\* Concurrent record_batch_outcome calls, their races and their deaths look
\* from outside like one report per job, one finish and one announcement.
ImplementsContract == ContractOf!Contract

=============================================================================
