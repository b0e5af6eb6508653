------------------------ MODULE DatabaseQueueProofs ------------------------
(***************************************************************************)
(* Machine-checked facts about DatabaseQueue for every set of jobs, rows,  *)
(* workers, dispatchers and operators, under either isolation level, with  *)
(* or without faults and lease expiry.                                     *)
(***************************************************************************)
EXTENDS DatabaseQueue, TLAPS

\* The backoff of a failed attempt (policy.rs delay_for_attempt) is a natural.
LEMMA DelayIsNat ==
  ASSUME NEW p \in Policy, NEW a \in Nat
  PROVE  delay_for_attempt(p, a) \in Nat
<1>1. CASE p.backoff = 0 \/ a <= 1
  BY <1>1 DEF delay_for_attempt, Policy
<1>2. CASE ~(p.backoff = 0 \/ a <= 1)
  <2> DEFINE shift == IF a - 1 < MaxBackoffShift THEN a - 1 ELSE MaxBackoffShift
  <2>1. shift \in 0 .. MaxBackoffShift
    BY <1>2 DEF MaxBackoffShift
  <2>2. 2^shift \in Nat
    BY <2>1, FactorAssumption
  <2>3. p.backoff \in Nat
    BY DEF Policy
  <2>4. delay_for_attempt(p, a) = p.backoff * 2^shift
    BY <1>2 DEF delay_for_attempt
  <2> HIDE DEF shift
  <2>5. \A m, n \in Nat : m * n \in Nat
    OBVIOUS
  <2> QED
    BY <2>2, <2>3, <2>4, <2>5
<1> QED
  BY <1>1, <1>2

\* process_one's match sends a finished run to one of three driver calls.
LEMMA DispositionIsArm ==
  ASSUME NEW p, NEW a, NEW o
  PROVE  disposition(p, a, o) \in {"ack", "release", "dead_letter"}
BY DEF disposition

\* The round-robin cursor of run_worker_with always names a queue.
LEMMA CursorStep ==
  ASSUME NEW c \in Nat
  PROVE  (c + 1) % Len(QueueList) \in 0 .. Len(QueueList) - 1
BY WorkerAssumption

LEMMA CurrentQueueIsString ==
  ASSUME TypeOK, NEW w \in Worker
  PROVE  CurrentQueue(w) \in STRING
BY WorkerAssumption DEF TypeOK, WorkersOK, CurrentQueue, Loop

\* Writing columns of a row or locals of the loop keeps their types.
LEMMA ReleasedIsRow ==
  ASSUME NEW row \in Row, NEW a \in Nat, NEW delay \in Nat, now \in Nat
  PROVE  Released(row, a, delay) \in Row
<1>1. ASSUME NEW t \in Nat, NEW n \in Nat
      PROVE  [row EXCEPT !.reserved = FALSE, !.available_at = t,
                         !.attempts = n] \in Row
  BY DEF Row
<1>2. now + delay \in Nat /\ a + 1 \in Nat
  OBVIOUS
<1> QED
  BY <1>1, <1>2 DEF Released

LEMMA ClaimedLoop ==
  ASSUME NEW l \in Loop, NEW c \in Nat
  PROVE  [l EXCEPT !.cursor = c, !.misses = 0, !.missed = {}] \in Loop
BY DEF Loop

LEMMA ProcessedLoop ==
  ASSUME NEW l \in Loop
  PROVE  [l EXCEPT !.processed = l.processed + 1] \in Loop
BY DEF Loop

\* DatabaseDriver::push keeps the tables well typed.
LEMMA PushTyped ==
  ASSUME TypeOK, NEW j \in Job, NEW delay \in Nat, push(j, delay),
         UNCHANGED <<now, failed, lease, dead>>
  PROVE  TablesOK'
<1>1. PICK r \in RowId \ issued :
        /\ jobs' = Insert(jobs, r,
             [job |-> j, attempts |-> 1, reserved |-> FALSE,
              available_at |-> now + delay, created_at |-> now])
        /\ issued' = issued \cup {r}
  BY DEF push
<1>2. DOMAIN jobs' = DOMAIN jobs \cup {r}
  BY <1>1 DEF Insert
<1>3. \A s \in DOMAIN jobs' : jobs'[s] \in Row
  BY <1>1, <1>2 DEF Insert, Row, TypeOK, TablesOK
<1> QED
  BY <1>1, <1>2, <1>3 DEF TypeOK, TablesOK

\* Whatever pop returned None for, run_worker_with stays well typed.
LEMMA MissTyped ==
  ASSUME TypeOK, NEW w \in Worker, Miss(w)
  PROVE  WorkersOK'
<1>1. CurrentQueue(w) \in STRING
  BY CurrentQueueIsString
<1>2. (loop[w].cursor + 1) % Len(QueueList) \in 0 .. Len(QueueList) - 1
  BY CursorStep DEF TypeOK, WorkersOK, Loop
<1>3. loop' \in [Worker -> Loop]
  BY <1>1, <1>2 DEF TypeOK, WorkersOK, Miss, Loop
<1>4. \A v \in Worker : loop'[v].cursor < Len(QueueList)
  BY <1>2, WorkerAssumption DEF TypeOK, WorkersOK, Miss, Loop
<1>5. pc' \in [Worker -> WorkerPc] /\ held' \in [Worker -> Claim \cup {None}]
  BY DEF TypeOK, WorkersOK, Miss, WorkerPc, Idle
<1>6. \A v \in Worker : held'[v] = None <=> pc'[v] \in Idle
  BY DEF TypeOK, WorkersOK, Miss, Idle
<1> QED
  BY <1>3, <1>4, <1>5, <1>6 DEF WorkersOK

\* The end of process_one keeps the worker well typed.
LEMMA ProcessedTyped ==
  ASSUME TypeOK, NEW w \in Worker, Processed(w)
  PROVE  WorkersOK'
<1>1. loop' \in [Worker -> Loop]
  <2> DEFINE l == [loop[w] EXCEPT !.processed = loop[w].processed + 1]
  <2>1. l \in Loop
    BY ProcessedLoop DEF TypeOK, WorkersOK
  <2>2. loop' = [loop EXCEPT ![w] = l]
    BY DEF Processed
  <2> QED
    BY <2>1, <2>2 DEF TypeOK, WorkersOK
<1>2. \A v \in Worker : loop'[v].cursor < Len(QueueList)
  BY DEF TypeOK, WorkersOK, Processed, Loop
<1>3. pc' \in [Worker -> WorkerPc] /\ held' \in [Worker -> Claim \cup {None}]
  BY DEF TypeOK, WorkersOK, Processed, WorkerPc, Idle
<1>4. \A v \in Worker : held'[v] = None <=> pc'[v] \in Idle
  BY DEF TypeOK, WorkersOK, Processed, Idle
<1> QED
  BY <1>1, <1>2, <1>3, <1>4 DEF WorkersOK

\* A worker that holds a payload holds a claim.
LEMMA HeldIsClaim ==
  ASSUME TypeOK, NEW w \in Worker, pc[w] \notin Idle
  PROVE  held[w] \in Claim /\ held[w].id \in RowId /\ held[w].row \in Row
         /\ JobOf(w) \in Job /\ AttemptsOf(w) \in Nat
<1>1. held[w] \in Claim
  BY DEF TypeOK, WorkersOK
<1> QED
  BY <1>1 DEF Claim, Row, JobOf, AttemptsOf

\* Every step of the specification keeps the type invariant.
LEMMA TypeStep ==
  ASSUME TypeOK, [Next]_vars
  PROVE  TypeOK'
<1>1. ASSUME NEW d \in Dispatcher, NEW j \in Job, AcquireLease(d, j) PROVE TypeOK'
  BY <1>1, JobAssumption DEF TypeOK, TablesOK, WorkersOK, ClientsOK, HistoryOK, queueVars, workerVars, historyVars, AcquireLease, DispatchState
<1>2. ASSUME NEW d \in Dispatcher, Enqueue(d) PROVE TypeOK'
  BY <1>2, JobAssumption DEF TypeOK, TablesOK, WorkersOK, ClientsOK, HistoryOK, queueVars, workerVars, historyVars, Enqueue, push, Insert, Row, DispatchState, IdleDispatch
<1>3. ASSUME NEW d \in Dispatcher, UnknownConnection(d) PROVE TypeOK'
  BY <1>3 DEF TypeOK, TablesOK, WorkersOK, ClientsOK, HistoryOK, queueVars, workerVars, historyVars, UnknownConnection, DispatchState, IdleDispatch
<1>4. ASSUME NEW d \in Dispatcher, PushFails(d) PROVE TypeOK'
  BY <1>4 DEF TypeOK, TablesOK, WorkersOK, ClientsOK, HistoryOK, queueVars, workerVars, historyVars, PushFails, DispatchState
<1>5. ASSUME NEW d \in Dispatcher, UndoLease(d) PROVE TypeOK'
  BY <1>5 DEF TypeOK, TablesOK, WorkersOK, ClientsOK, HistoryOK, queueVars, workerVars, historyVars, UndoLease, release_unique, DispatchState, IdleDispatch
<1>6. ASSUME NEW d \in Dispatcher, DispatchCrash(d) PROVE TypeOK'
  BY <1>6 DEF TypeOK, TablesOK, WorkersOK, ClientsOK, HistoryOK, queueVars, workerVars, historyVars, DispatchCrash, DispatchState, IdleDispatch
<1>7. ASSUME NEW w \in Worker, StartWorker(w) PROVE TypeOK'
  BY <1>7, WorkerAssumption DEF TypeOK, TablesOK, WorkersOK, ClientsOK, HistoryOK, queueVars, workerVars, historyVars, StartWorker, WorkerPc, Idle, Holding, Loop, FreshLoop
<1>8. ASSUME NEW w \in Worker, ClaimSelect(w) PROVE TypeOK'
  BY <1>8, NoneAssumption DEF TypeOK, TablesOK, WorkersOK, ClientsOK, HistoryOK, queueVars, workerVars, historyVars, ClaimSelect, Claim, WorkerPc, Idle, Holding
<1>9. ASSUME NEW w \in Worker, PopEmpty(w) PROVE TypeOK'
  <2>1. WorkersOK'
    BY <1>9, MissTyped DEF PopEmpty
  <2> QED
    BY <1>9, <2>1
    DEF PopEmpty, TypeOK, TablesOK, ClientsOK, HistoryOK, queueVars, historyVars
<1>10. ASSUME NEW w \in Worker, ClaimUpdate(w) PROVE TypeOK'
  <2>1. TablesOK'
    BY <1>10 DEF ClaimUpdate, ClaimGuard, TypeOK, TablesOK, Row, historyVars
  <2>2. (loop[w].cursor + 1) % Len(QueueList) \in 0 .. Len(QueueList) - 1
    BY CursorStep DEF TypeOK, WorkersOK, Loop
  <2>3. loop' \in [Worker -> Loop]
    <3> DEFINE l == [loop[w] EXCEPT !.cursor = (loop[w].cursor + 1) % Len(QueueList),
                                    !.misses = 0, !.missed = {}]
    <3>1. l \in Loop
      <4>1. (loop[w].cursor + 1) % Len(QueueList) \in Nat
        BY <2>2, WorkerAssumption
      <4> QED
        BY <4>1, ClaimedLoop DEF TypeOK, WorkersOK
    <3>2. loop' = [loop EXCEPT ![w] = l]
      BY <1>10 DEF ClaimUpdate
    <3> QED
      BY <3>1, <3>2 DEF TypeOK, WorkersOK
  <2>4. \A v \in Worker : loop'[v].cursor < Len(QueueList)
    BY <1>10, <2>2, WorkerAssumption DEF ClaimUpdate, TypeOK, WorkersOK, Loop
  <2>5. /\ pc' \in [Worker -> WorkerPc]
        /\ \A v \in Worker : held'[v] = None <=> pc'[v] \in Idle
    BY <1>10 DEF ClaimUpdate, TypeOK, WorkersOK, WorkerPc, Holding, Idle
  <2> QED
    BY <1>10, <2>1, <2>3, <2>4, <2>5
    DEF ClaimUpdate, TypeOK, WorkersOK, ClientsOK, HistoryOK, historyVars
<1>11. ASSUME NEW w \in Worker, ClaimLost(w) PROVE TypeOK'
  BY <1>11 DEF TypeOK, TablesOK, WorkersOK, ClientsOK, HistoryOK, queueVars, workerVars, historyVars, ClaimLost, WorkerPc, Idle, Holding
<1>12. ASSUME NEW w \in Worker, ClaimLostAtDeadline(w) PROVE TypeOK'
  <2>1. WorkersOK'
    BY <1>12, MissTyped DEF ClaimLostAtDeadline
  <2> QED
    BY <1>12, <2>1
    DEF ClaimLostAtDeadline, TypeOK, TablesOK, ClientsOK, HistoryOK, queueVars, historyVars
<1>13. ASSUME NEW w \in Worker, ClaimConflict(w) PROVE TypeOK'
  BY <1>13 DEF TypeOK, TablesOK, WorkersOK, ClientsOK, HistoryOK, queueVars, workerVars, historyVars, ClaimConflict, Stop, WorkerPc, Idle, Holding
<1>14. ASSUME NEW w \in Worker, NoHandler(w) PROVE TypeOK'
  BY <1>14 DEF TypeOK, TablesOK, WorkersOK, ClientsOK, HistoryOK, queueVars, workerVars, historyVars, NoHandler, WorkerPc, Idle, Holding
<1>15. ASSUME NEW w \in Worker, StartRun(w) PROVE TypeOK'
  <2>1. held[w].id \in RowId
    BY <1>15, HeldIsClaim DEF StartRun, Idle
  <2>2. ran' \in [RowId -> Nat]
    BY <1>15, <2>1 DEF StartRun, TypeOK, HistoryOK
  <2>3. WorkersOK'
    BY <1>15 DEF StartRun, TypeOK, WorkersOK, WorkerPc, Holding, Idle
  <2> QED
    BY <1>15, <2>2, <2>3 DEF StartRun, TypeOK, TablesOK, ClientsOK, HistoryOK, queueVars
<1>16. ASSUME NEW w \in Worker, FinishRun(w) PROVE TypeOK'
  BY <1>16, DispositionIsArm DEF TypeOK, TablesOK, WorkersOK, ClientsOK, HistoryOK, queueVars, workerVars, historyVars, FinishRun, WorkerPc, Idle, Holding, Claim
<1>17. ASSUME NEW w \in Worker, Release(w) PROVE TypeOK'
  <2>1. WorkersOK'
    BY <1>17, ProcessedTyped DEF Release
  <2>2. JobOf(w) \in Job /\ AttemptsOf(w) \in Nat
    BY <1>17, HeldIsClaim DEF Release, Idle
  <2>3. delay_for_attempt(PolicyOf[JobOf(w)], AttemptsOf(w)) \in Nat
    BY <2>2, DelayIsNat, JobAssumption
  <2>4. TablesOK'
    <3> DEFINE i == held[w].id
               row == Released(jobs[i], AttemptsOf(w),
                        delay_for_attempt(PolicyOf[JobOf(w)], AttemptsOf(w)))
    <3>1. jobs' = IF i \in DOMAIN jobs THEN [jobs EXCEPT ![i] = row] ELSE jobs
      BY <1>17 DEF Release
    <3>2. i \in DOMAIN jobs => row \in Row
      BY <2>2, <2>3, ReleasedIsRow DEF TypeOK, TablesOK
    <3>3. UNCHANGED <<now, failed, lease, issued, dead>>
      BY <1>17 DEF Release, historyVars
    <3> HIDE DEF row, i
    <3> QED
      BY <3>1, <3>2, <3>3 DEF TypeOK, TablesOK
  <2> QED
    BY <1>17, <2>1, <2>4 DEF Release, TypeOK, ClientsOK, HistoryOK, historyVars
<1>18. ASSUME NEW w \in Worker, DeadLetter(w) PROVE TypeOK'
  BY <1>18 DEF TypeOK, TablesOK, WorkersOK, ClientsOK, HistoryOK, queueVars, workerVars, historyVars, DeadLetter, Insert, JobOf, Row, Claim, WorkerPc, Idle, Holding
<1>19. ASSUME NEW w \in Worker, Ack(w) PROVE TypeOK'
  <2>1. WorkersOK'
    <3>1. CASE JobOf(w) \in Handled
      BY <1>19, <3>1 DEF Ack, TypeOK, WorkersOK, WorkerPc, Holding, Idle
    <3>2. CASE JobOf(w) \notin Handled
      BY <1>19, <3>2, ProcessedTyped DEF Ack
    <3> QED
      BY <3>1, <3>2
  <2>2. TablesOK'
    BY <1>19 DEF Ack, Delete, TypeOK, TablesOK, historyVars
  <2> QED
    BY <1>19, <2>1, <2>2 DEF Ack, TypeOK, ClientsOK, HistoryOK, historyVars
<1>20. ASSUME NEW w \in Worker, ReleaseLease(w) PROVE TypeOK'
  <2>1. WorkersOK'
    BY <1>20, ProcessedTyped DEF ReleaseLease
  <2> QED
    BY <1>20, <2>1
    DEF ReleaseLease, release_unique, TypeOK, TablesOK, ClientsOK, HistoryOK, historyVars
<1>21. ASSUME NEW w \in Worker, WorkerCrash(w) PROVE TypeOK'
  BY <1>21 DEF TypeOK, TablesOK, WorkersOK, ClientsOK, HistoryOK, queueVars, workerVars, historyVars, WorkerCrash, Stop, WorkerPc, Idle, Holding
<1>22. ASSUME NEW a \in Admin, RetrySelect(a) PROVE TypeOK'
  BY <1>22 DEF TypeOK, TablesOK, WorkersOK, ClientsOK, HistoryOK, queueVars, workerVars, historyVars, RetrySelect, AdminState
<1>23. ASSUME NEW a \in Admin, RetryPush(a) PROVE TypeOK'
  <2>1. admin[a].job \in Job /\ admin[a].id \in FailedId
    BY <1>23 DEF RetryPush, TypeOK, ClientsOK
  <2>2. TablesOK'
    BY <1>23, <2>1, PushTyped DEF RetryPush
  <2>3. ClientsOK'
    BY <1>23 DEF RetryPush, TypeOK, ClientsOK, AdminState
  <2> QED
    BY <1>23, <2>1, <2>2, <2>3 DEF RetryPush, TypeOK, WorkersOK, HistoryOK, workerVars
<1>24. ASSUME NEW a \in Admin, RetryDelete(a) PROVE TypeOK'
  BY <1>24 DEF TypeOK, TablesOK, WorkersOK, ClientsOK, HistoryOK, queueVars, workerVars, historyVars, RetryDelete, Delete, AdminState, IdleAdmin
<1>25. ASSUME NEW a \in Admin, RetryCrash(a) PROVE TypeOK'
  BY <1>25 DEF TypeOK, TablesOK, WorkersOK, ClientsOK, HistoryOK, queueVars, workerVars, historyVars, RetryCrash, AdminState, IdleAdmin
<1>26. ASSUME NEW a \in Admin, ForgetFailed(a) PROVE TypeOK'
  BY <1>26 DEF TypeOK, TablesOK, WorkersOK, ClientsOK, HistoryOK, queueVars, workerVars, historyVars, ForgetFailed, Delete
<1>27. ASSUME Tick PROVE TypeOK'
  BY <1>27 DEF TypeOK, TablesOK, WorkersOK, ClientsOK, HistoryOK, queueVars, workerVars, historyVars, Tick
<1>28. ASSUME NEW j \in UniqueJob, LeaseExpires(j) PROVE TypeOK'
  BY <1>28 DEF TypeOK, TablesOK, WorkersOK, ClientsOK, HistoryOK, queueVars, workerVars, historyVars, LeaseExpires
<1>29. ASSUME UNCHANGED vars PROVE TypeOK'
  BY <1>29 DEF TypeOK, TablesOK, WorkersOK, ClientsOK, HistoryOK, vars
<1> QED
  BY <1>1, <1>2, <1>3, <1>4, <1>5, <1>6, <1>7, <1>8, <1>9, <1>10, <1>11, <1>12, <1>13, <1>14, <1>15, <1>16, <1>17, <1>18, <1>19, <1>20, <1>21, <1>22, <1>23, <1>24, <1>25, <1>26, <1>27, <1>28, <1>29
  DEF Next, DispatchNext, WorkerStep, AdminNext

\* Every step keeps the inductive invariant.
LEMMA SafetyStep ==
  ASSUME SafetyInv, [Next]_vars
  PROVE  SafetyInv'
<1> DEFINE Core == ClaimExclusive /\ OneVerdict /\ NothingLost /\ VerdictAtHolder /\ PushBeforeDelete
<1> USE DEF SafetyInv
<1>1. ASSUME NEW d \in Dispatcher, NEW j \in Job, AcquireLease(d, j) PROVE Core'
  BY <1>1 DEF Core, ClaimExclusive, OneVerdict, NothingLost, VerdictAtHolder, PushBeforeDelete, Holds, TypeOK, TablesOK, WorkersOK, AcquireLease, workerVars, historyVars
<1>2. ASSUME NEW d \in Dispatcher, Enqueue(d) PROVE Core'
  BY <1>2 DEF Core, ClaimExclusive, OneVerdict, NothingLost, VerdictAtHolder, PushBeforeDelete, Holds, TypeOK, TablesOK, WorkersOK, Enqueue, push, Insert, workerVars
<1>3. ASSUME NEW d \in Dispatcher, UnknownConnection(d) PROVE Core'
  BY <1>3 DEF Core, ClaimExclusive, OneVerdict, NothingLost, VerdictAtHolder, PushBeforeDelete, Holds, TypeOK, TablesOK, WorkersOK, UnknownConnection, queueVars, workerVars, historyVars
<1>4. ASSUME NEW d \in Dispatcher, PushFails(d) PROVE Core'
  BY <1>4 DEF Core, ClaimExclusive, OneVerdict, NothingLost, VerdictAtHolder, PushBeforeDelete, Holds, TypeOK, TablesOK, WorkersOK, PushFails, queueVars, workerVars, historyVars
<1>5. ASSUME NEW d \in Dispatcher, UndoLease(d) PROVE Core'
  BY <1>5 DEF Core, ClaimExclusive, OneVerdict, NothingLost, VerdictAtHolder, PushBeforeDelete, Holds, TypeOK, TablesOK, WorkersOK, UndoLease, workerVars, historyVars
<1>6. ASSUME NEW d \in Dispatcher, DispatchCrash(d) PROVE Core'
  BY <1>6 DEF Core, ClaimExclusive, OneVerdict, NothingLost, VerdictAtHolder, PushBeforeDelete, Holds, TypeOK, TablesOK, WorkersOK, DispatchCrash, queueVars, workerVars, historyVars
<1>7. ASSUME NEW w \in Worker, StartWorker(w) PROVE Core'
  BY <1>7 DEF Core, ClaimExclusive, OneVerdict, NothingLost, VerdictAtHolder, PushBeforeDelete, Holds, TypeOK, TablesOK, WorkersOK, StartWorker, Holding, queueVars, historyVars
<1>8. ASSUME NEW w \in Worker, ClaimSelect(w) PROVE Core'
  BY <1>8 DEF Core, ClaimExclusive, OneVerdict, NothingLost, VerdictAtHolder, PushBeforeDelete, Holds, TypeOK, TablesOK, WorkersOK, ClaimSelect, Holding, queueVars, historyVars
<1>9. ASSUME NEW w \in Worker, PopEmpty(w) PROVE Core'
  BY <1>9 DEF Core, ClaimExclusive, OneVerdict, NothingLost, VerdictAtHolder, PushBeforeDelete, Holds, TypeOK, TablesOK, WorkersOK, PopEmpty, Miss, Holding, queueVars, historyVars
<1>10. ASSUME NEW w \in Worker, ClaimUpdate(w) PROVE Core'
  BY <1>10 DEF Core, ClaimExclusive, OneVerdict, NothingLost, VerdictAtHolder, PushBeforeDelete, Holds, TypeOK, TablesOK, WorkersOK, ClaimUpdate, ClaimGuard, Holding, historyVars
<1>11. ASSUME NEW w \in Worker, ClaimLost(w) PROVE Core'
  BY <1>11 DEF Core, ClaimExclusive, OneVerdict, NothingLost, VerdictAtHolder, PushBeforeDelete, Holds, TypeOK, TablesOK, WorkersOK, ClaimLost, Holding, queueVars, historyVars
<1>12. ASSUME NEW w \in Worker, ClaimLostAtDeadline(w) PROVE Core'
  BY <1>12 DEF Core, ClaimExclusive, OneVerdict, NothingLost, VerdictAtHolder, PushBeforeDelete, Holds, TypeOK, TablesOK, WorkersOK, ClaimLostAtDeadline, Miss, Holding, queueVars, historyVars
<1>13. ASSUME NEW w \in Worker, ClaimConflict(w) PROVE Core'
  BY <1>13 DEF Core, ClaimExclusive, OneVerdict, NothingLost, VerdictAtHolder, PushBeforeDelete, Holds, TypeOK, TablesOK, WorkersOK, ClaimConflict, Stop, Holding, queueVars, historyVars
<1>14. ASSUME NEW w \in Worker, NoHandler(w) PROVE Core'
  BY <1>14 DEF Core, ClaimExclusive, OneVerdict, NothingLost, VerdictAtHolder, PushBeforeDelete, Holds, TypeOK, TablesOK, WorkersOK, NoHandler, Holding, queueVars, historyVars
<1>15. ASSUME NEW w \in Worker, StartRun(w) PROVE Core'
  BY <1>15 DEF Core, ClaimExclusive, OneVerdict, NothingLost, VerdictAtHolder, PushBeforeDelete, Holds, TypeOK, TablesOK, WorkersOK, StartRun, Holding, queueVars
<1>16. ASSUME NEW w \in Worker, FinishRun(w) PROVE Core'
  BY <1>16, DispositionIsArm DEF Core, ClaimExclusive, OneVerdict, NothingLost, VerdictAtHolder, PushBeforeDelete, Holds, TypeOK, TablesOK, WorkersOK, FinishRun, Holding, queueVars
<1>17. ASSUME NEW w \in Worker, Release(w) PROVE Core'
  BY <1>17 DEF Core, ClaimExclusive, OneVerdict, NothingLost, VerdictAtHolder, PushBeforeDelete, Holds, TypeOK, TablesOK, WorkersOK, Release, Released, Processed, Holding, historyVars
<1>18. ASSUME NEW w \in Worker, DeadLetter(w) PROVE Core'
  BY <1>18 DEF Core, ClaimExclusive, OneVerdict, NothingLost, VerdictAtHolder, PushBeforeDelete, Holds, TypeOK, TablesOK, WorkersOK, DeadLetter, Insert, Holding
<1>19. ASSUME NEW w \in Worker, Ack(w) PROVE Core'
  BY <1>19 DEF Core, ClaimExclusive, OneVerdict, NothingLost, VerdictAtHolder, PushBeforeDelete, Holds, TypeOK, TablesOK, WorkersOK, Ack, Delete, Processed, Holding, historyVars
<1>20. ASSUME NEW w \in Worker, ReleaseLease(w) PROVE Core'
  BY <1>20 DEF Core, ClaimExclusive, OneVerdict, NothingLost, VerdictAtHolder, PushBeforeDelete, Holds, TypeOK, TablesOK, WorkersOK, ReleaseLease, Processed, Holding, historyVars
<1>21. ASSUME NEW w \in Worker, WorkerCrash(w) PROVE Core'
  BY <1>21 DEF Core, ClaimExclusive, OneVerdict, NothingLost, VerdictAtHolder, PushBeforeDelete, Holds, TypeOK, TablesOK, WorkersOK, WorkerCrash, Stop, Holding, queueVars, historyVars
<1>22. ASSUME NEW a \in Admin, RetrySelect(a) PROVE Core'
  BY <1>22 DEF Core, ClaimExclusive, OneVerdict, NothingLost, VerdictAtHolder, PushBeforeDelete, Holds, TypeOK, TablesOK, WorkersOK, ClientsOK, RetrySelect, AdminState, queueVars, workerVars, historyVars
<1>23. ASSUME NEW a \in Admin, RetryPush(a) PROVE Core'
  BY <1>23 DEF Core, ClaimExclusive, OneVerdict, NothingLost, VerdictAtHolder, PushBeforeDelete, Holds, TypeOK, TablesOK, WorkersOK, ClientsOK, RetryPush, push, Insert, workerVars
<1>24. ASSUME NEW a \in Admin, RetryDelete(a) PROVE Core'
  BY <1>24 DEF Core, ClaimExclusive, OneVerdict, NothingLost, VerdictAtHolder, PushBeforeDelete, Holds, TypeOK, TablesOK, WorkersOK, ClientsOK, RetryDelete, Delete, IdleAdmin, workerVars, historyVars
<1>25. ASSUME NEW a \in Admin, RetryCrash(a) PROVE Core'
  BY <1>25 DEF Core, ClaimExclusive, OneVerdict, NothingLost, VerdictAtHolder, PushBeforeDelete, Holds, TypeOK, TablesOK, WorkersOK, ClientsOK, RetryCrash, IdleAdmin, queueVars, workerVars, historyVars
<1>26. ASSUME NEW a \in Admin, ForgetFailed(a) PROVE Core'
  BY <1>26 DEF Core, ClaimExclusive, OneVerdict, NothingLost, VerdictAtHolder, PushBeforeDelete, Holds, TypeOK, TablesOK, WorkersOK, ClientsOK, ForgetFailed, Delete, workerVars
<1>27. ASSUME Tick PROVE Core'
  BY <1>27 DEF Core, ClaimExclusive, OneVerdict, NothingLost, VerdictAtHolder, PushBeforeDelete, Holds, TypeOK, TablesOK, WorkersOK, Tick, workerVars, historyVars
<1>28. ASSUME NEW j \in UniqueJob, LeaseExpires(j) PROVE Core'
  BY <1>28 DEF Core, ClaimExclusive, OneVerdict, NothingLost, VerdictAtHolder, PushBeforeDelete, Holds, TypeOK, TablesOK, WorkersOK, LeaseExpires, workerVars, historyVars
<1>29. ASSUME UNCHANGED vars PROVE Core'
  BY <1>29 DEF Core, ClaimExclusive, OneVerdict, NothingLost, VerdictAtHolder, PushBeforeDelete, Holds, vars
<1> QED
  BY TypeStep, <1>1, <1>2, <1>3, <1>4, <1>5, <1>6, <1>7, <1>8, <1>9, <1>10, <1>11, <1>12, <1>13, <1>14, <1>15, <1>16, <1>17, <1>18, <1>19, <1>20, <1>21, <1>22, <1>23, <1>24, <1>25, <1>26, <1>27, <1>28, <1>29
  DEF Next, DispatchNext, WorkerStep, AdminNext

LEMMA SafetyInit ==
  ASSUME Init
  PROVE  SafetyInv
<1>1. TablesOK
  BY DEF Init, TablesOK, EmptyTable
<1>2. WorkersOK
  BY WorkerAssumption DEF Init, WorkersOK, WorkerPc, Idle, Loop, FreshLoop
<1>3. ClientsOK
  BY DEF Init, ClientsOK, DispatchState, AdminState, IdleDispatch, IdleAdmin
<1>4. HistoryOK
  BY DEF Init, HistoryOK
<1>5. ClaimExclusive /\ OneVerdict /\ NothingLost
  BY DEF Init, ClaimExclusive, OneVerdict, NothingLost, Holding, EmptyTable
<1>6. VerdictAtHolder /\ PushBeforeDelete
  BY DEF Init, VerdictAtHolder, PushBeforeDelete, Holding, EmptyTable, IdleAdmin
<1> QED
  BY <1>1, <1>2, <1>3, <1>4, <1>5, <1>6 DEF SafetyInv, TypeOK

\* Every reachable state satisfies the inductive invariant.
THEOREM Safety == Spec => []SafetyInv
<1>1. Init => SafetyInv
  BY SafetyInit
<1>2. SafetyInv /\ [Next]_vars => SafetyInv'
  BY SafetyStep
<1> QED
  BY <1>1, <1>2, PTL DEF Spec

\* The tables, the locals of every process and the histories stay in their sets.
THEOREM TypeCorrect == Spec => []TypeOK
<1>1. SafetyInv => TypeOK
  BY DEF SafetyInv
<1> QED
  BY <1>1, Safety, PTL

\* The guarded UPDATE of claim (driver/database.rs) is enough: whatever the
\* isolation level and whoever crashes, a row has one holder at a time.
THEOREM ClaimIsExclusive == Spec => []ClaimExclusive
<1>1. SafetyInv => ClaimExclusive
  BY DEF SafetyInv
<1> QED
  BY <1>1, Safety, PTL

\* No row of the jobs table ends both as a success and as a dead letter.
THEOREM VerdictIsUnique == Spec => []OneVerdict
<1>1. SafetyInv => OneVerdict
  BY DEF SafetyInv
<1> QED
  BY <1>1, Safety, PTL

\* process_one and retry_failed lose no job at any point they can crash at.
THEOREM NoJobIsLost == Spec => []NothingLost
<1>1. SafetyInv => NothingLost
  BY DEF SafetyInv
<1> QED
  BY <1>1, Safety, PTL

\* Every step leaves the rows that its worker does not hold alone.
LEMMA RowStepHolds ==
  ASSUME SafetyInv, [Next]_vars
  PROVE  RowStep
<1>1. ASSUME NEW w \in Worker, ClaimUpdate(w) PROVE RowStep
  <2>1. pc'[w] = "claimed"
    BY <1>1 DEF ClaimUpdate, SafetyInv, TypeOK, WorkersOK
  <2> QED
    BY <1>1, <2>1 DEF ClaimUpdate, ClaimGuard, RowStep
<1>2. ASSUME NEW w \in Worker, Release(w) PROVE RowStep
  BY <1>2 DEF Release, RowStep, Holds, Holding
<1>3. ASSUME NEW w \in Worker, Ack(w) PROVE RowStep
  BY <1>3 DEF Ack, Delete, RowStep, Holds, Holding
<1>4. ASSUME NEW j, NEW delay, push(j, delay) PROVE RowStep
  BY <1>4 DEF push, Insert, RowStep, SafetyInv, TypeOK, TablesOK
<1>5. ASSUME jobs' = jobs PROVE RowStep
  BY <1>5 DEF RowStep
<1>6. ASSUME NEW d \in Dispatcher, DispatchNext(d) PROVE RowStep
  BY <1>4, <1>5, <1>6
  DEF DispatchNext, AcquireLease, Enqueue, UnknownConnection, PushFails,
      UndoLease, DispatchCrash, queueVars
<1>7. ASSUME NEW w \in Worker, WorkerStep(w) \/ WorkerCrash(w) PROVE RowStep
  BY <1>1, <1>2, <1>3, <1>5, <1>7
  DEF WorkerStep, StartWorker, ClaimSelect, PopEmpty, ClaimLost, ClaimLostAtDeadline,
      ClaimConflict, NoHandler, StartRun, FinishRun, DeadLetter, ReleaseLease,
      WorkerCrash, queueVars
<1>8. ASSUME NEW a \in Admin, AdminNext(a) PROVE RowStep
  BY <1>4, <1>5, <1>8
  DEF AdminNext, RetrySelect, RetryPush, RetryDelete, RetryCrash, ForgetFailed, queueVars
<1> QED
  BY <1>5, <1>6, <1>7, <1>8 DEF Next, Tick, LeaseExpires, vars

\* No statement of one process changes a row that another worker holds.
THEOREM RowsBelongToHolder == Spec => RowsChangeByHolder
<1>1. SafetyInv /\ [Next]_vars => RowStep
  BY RowStepHolds
<1> QED
  BY <1>1, Safety, PTL DEF Spec, RowsChangeByHolder

-----------------------------------------------------------------------------
(* The contract of a queue driver. *)

\* What a step does to the phases, row by row.
RowMoves(r, from, to) ==
  /\ r \in RowId /\ Phase(r) = from /\ Phase(r)' = to
  /\ \A s \in RowId \ {r} : Phase(s)' = Phase(s)
RowsStay == \A s \in RowId : Phase(s)' = Phase(s)

\* ... is what it does to the phase function of the contract.
LEMMA MoveOfContract ==
  ASSUME NEW r, NEW from, NEW to, RowMoves(r, from, to)
  PROVE  ContractOf!Move(r, from, to)
BY DEF RowMoves, ContractOf!Move

LEMMA StayOfContract ==
  ASSUME RowsStay, ran' = ran
  PROVE  UNCHANGED ContractOf!contractVars
BY DEF RowsStay, ContractOf!contractVars

\* A row keeps its phase when its columns, its verdict and the workers that
\* hold it stay as they are.
SameHolders(r) ==
  \A w \in Worker :
    Holds(w, r) \/ Holds(w, r)' => pc'[w] = pc[w] /\ held'[w] = held[w]

LEMMA PhaseKept ==
  ASSUME NEW r, SameHolders(r),
         r \in done' <=> r \in done, r \in buried' <=> r \in buried,
         r \in DOMAIN jobs' <=> r \in DOMAIN jobs,
         r \in DOMAIN jobs => jobs'[r].reserved = jobs[r].reserved
  PROVE  Phase(r)' = Phase(r)
<1>1. ASSUME NEW pcs, pcs \subseteq Holding PROVE HeldAt(r, pcs)' <=> HeldAt(r, pcs)
  BY <1>1 DEF HeldAt, SameHolders, Holds
<1>2. /\ HeldAt(r, {"claimed"})' <=> HeldAt(r, {"claimed"})
      /\ HeldAt(r, {"running", "release"})' <=> HeldAt(r, {"running", "release"})
      /\ HeldAt(r, {"dead_letter"})' <=> HeldAt(r, {"dead_letter"})
  BY <1>1 DEF Holding
<1>3. CASE r \in DOMAIN jobs
  BY <1>2, <1>3 DEF Phase
<1>4. CASE r \notin DOMAIN jobs
  BY <1>4 DEF Phase
<1> QED
  BY <1>3, <1>4

\* The phase of a row that a worker holds follows from where the worker is.
HolderPhase(p) ==
  IF p = "ack" THEN "done" ELSE IF p = "ack_dead" THEN "buried"
  ELSE IF p = "claimed" THEN "claimed"
  ELSE IF p = "dead_letter" THEN "failing" ELSE "running"
PhaseAtHolder ==
  \A w \in Worker : pc[w] \in Holding =>
    held[w].id \in RowId /\ Phase(held[w].id) = HolderPhase(pc[w])

LEMMA PhaseHeld == SafetyInv => PhaseAtHolder
<1> SUFFICES ASSUME SafetyInv, NEW w \in Worker, pc[w] \in Holding
             PROVE  held[w].id \in RowId /\ Phase(held[w].id) = HolderPhase(pc[w])
  BY DEF PhaseAtHolder
<1> DEFINE r == held[w].id
<1>1. r \in RowId
  BY HeldIsClaim DEF SafetyInv, Holding, Idle
<1>2. r \in DOMAIN jobs /\ jobs[r].reserved
  BY DEF SafetyInv, ClaimExclusive
<1>3. ASSUME NEW v \in Worker, Holds(v, r) PROVE v = w
  BY <1>3 DEF SafetyInv, ClaimExclusive, Holds
<1>4. ASSUME NEW pcs, pcs \subseteq Holding PROVE HeldAt(r, pcs) <=> pc[w] \in pcs
  BY <1>3, <1>4 DEF HeldAt, Holds
<1>5. (r \in done <=> pc[w] = "ack") /\ (r \in buried <=> pc[w] = "ack_dead")
  BY DEF SafetyInv, VerdictAtHolder
<1>6. /\ HeldAt(r, {"claimed"}) <=> pc[w] = "claimed"
      /\ HeldAt(r, {"running", "release"}) <=> pc[w] \in {"running", "release"}
      /\ HeldAt(r, {"dead_letter"}) <=> pc[w] = "dead_letter"
  BY <1>4 DEF Holding
<1> QED
  BY <1>1, <1>2, <1>5, <1>6 DEF Phase, HolderPhase, Holding

\* A step of one worker leaves the holders of every other row alone.
LEMMA OthersHold ==
  ASSUME SafetyInv, NEW w \in Worker, NEW r,
         \A v \in Worker \ {w} : pc'[v] = pc[v] /\ held'[v] = held[v],
         pc[w] \in Holding => held[w].id # r, pc'[w] \in Holding => held'[w].id # r
  PROVE  SameHolders(r)
BY DEF SameHolders, Holds

\* push: one row that was nowhere waits.
LEMMA PushMoves ==
  ASSUME SafetyInv, NEW j, NEW delay, push(j, delay),
         UNCHANGED <<workerVars, buried, done>>
  PROVE  \E r \in RowId : RowMoves(r, "absent", "waiting")
<1>1. PICK r \in RowId \ issued :
        jobs' = Insert(jobs, r, [job |-> j, attempts |-> 1, reserved |-> FALSE,
                                 available_at |-> now + delay, created_at |-> now])
  BY DEF push
<1>2. r \notin done \cup buried /\ r \notin DOMAIN jobs
  BY DEF SafetyInv, TypeOK, TablesOK, VerdictAtHolder
<1>3. Phase(r) = "absent"
  BY <1>2 DEF Phase
<1>4. r \in DOMAIN jobs' /\ jobs'[r].reserved = FALSE
  BY <1>1 DEF Insert
<1>5. Phase(r)' = "waiting"
  BY <1>2, <1>4 DEF Phase
<1>6. ASSUME NEW s \in RowId \ {r} PROVE Phase(s)' = Phase(s)
  <2>1. SameHolders(s)
    BY DEF SameHolders, workerVars
  <2>2. /\ s \in DOMAIN jobs' <=> s \in DOMAIN jobs
        /\ s \in DOMAIN jobs => jobs'[s] = jobs[s]
    BY <1>1, <1>6 DEF Insert
  <2> QED
    BY <2>1, <2>2, PhaseKept
<1> QED
  BY <1>3, <1>5, <1>6 DEF RowMoves

\* A step in which no worker takes or leaves a row changes no phase.
LEMMA IdleStays ==
  ASSUME SafetyInv, UNCHANGED <<jobs, buried, done>>, NEW w \in Worker,
         \A v \in Worker \ {w} : pc'[v] = pc[v] /\ held'[v] = held[v],
         pc[w] \notin Holding, pc'[w] \notin Holding
  PROVE  RowsStay
<1> SUFFICES ASSUME NEW s \in RowId PROVE Phase(s)' = Phase(s)
  BY DEF RowsStay
<1>1. SameHolders(s)
  BY OthersHold
<1> QED
  BY <1>1, PhaseKept

\* A worker that goes on with the row it holds changes at most its phase.
LEMMA HolderMoves ==
  ASSUME SafetyInv, SafetyInv', NEW w \in Worker, NEW r, r = held[w].id,
         UNCHANGED jobs, held'[w] = held[w],
         \A v \in Worker \ {w} : pc'[v] = pc[v] /\ held'[v] = held[v],
         NEW p \in Holding, pc[w] = p, NEW q \in Holding, pc'[w] = q,
         \A s \in RowId \ {r} :
           (s \in done' <=> s \in done) /\ (s \in buried' <=> s \in buried)
  PROVE  RowMoves(r, HolderPhase(p), HolderPhase(q))
<1>1. PhaseAtHolder /\ PhaseAtHolder'
  <2>1. SafetyInv' => PhaseAtHolder'
    BY PhaseHeld, PTL
  <2> QED
    BY <2>1, PhaseHeld
<1>2. r \in RowId /\ Phase(r) = HolderPhase(p)
  BY <1>1 DEF PhaseAtHolder
<1>3. Phase(r)' = HolderPhase(q)
  <2>1. held'[w].id = r
    OBVIOUS
  <2> QED
    BY <1>1, <2>1 DEF PhaseAtHolder, Phase, HeldAt
<1>4. ASSUME NEW s \in RowId \ {r} PROVE Phase(s)' = Phase(s)
  <2>1. SameHolders(s)
    BY <1>4, OthersHold
  <2> QED
    BY <2>1, <1>4, PhaseKept
<1> QED
  BY <1>2, <1>3, <1>4 DEF RowMoves

\* claim: the row that waited is held by the worker whose UPDATE reserved it.
LEMMA ClaimMoves ==
  ASSUME SafetyInv, NEW w \in Worker, ClaimUpdate(w), NEW r, r = held[w].id
  PROVE  RowMoves(r, "waiting", "claimed")
<1>1. r \in DOMAIN jobs /\ ~ jobs[r].reserved /\ r \in RowId
  BY DEF ClaimUpdate, ClaimGuard, SafetyInv, TypeOK, TablesOK
<1>2. r \notin done \cup buried
  BY <1>1 DEF SafetyInv, VerdictAtHolder
<1>3. Phase(r) = "waiting"
  BY <1>1, <1>2 DEF Phase
<1>4. /\ jobs' = [jobs EXCEPT ![r].reserved = TRUE]
      /\ pc' = [pc EXCEPT ![w] = "claimed"] /\ UNCHANGED <<held, done, buried>>
  BY DEF ClaimUpdate, historyVars
<1>5. r \in DOMAIN jobs' /\ jobs'[r].reserved = TRUE
  <2>1. jobs[r] \in Row
    BY <1>1 DEF SafetyInv, TypeOK, TablesOK
  <2> QED
    BY <1>1, <1>4, <2>1 DEF Row
<1>6. pc'[w] = "claimed" /\ held'[w].id = r
  BY <1>4 DEF SafetyInv, TypeOK, WorkersOK
<1>7. Phase(r)' = "claimed"
  BY <1>2, <1>4, <1>5, <1>6 DEF Phase, HeldAt
<1>8. ASSUME NEW s \in RowId \ {r} PROVE Phase(s)' = Phase(s)
  <2>1. SameHolders(s)
    BY <1>4, <1>8, OthersHold DEF ClaimUpdate, Holding, SafetyInv, TypeOK, WorkersOK
  <2>2. /\ s \in DOMAIN jobs' <=> s \in DOMAIN jobs
        /\ s \in DOMAIN jobs => jobs'[s] = jobs[s]
    BY <1>4, <1>8
  <2> QED
    BY <1>4, <2>1, <2>2, PhaseKept
<1> QED
  BY <1>1, <1>3, <1>7, <1>8 DEF RowMoves

\* The retry arm: the row waits again.
LEMMA ReleaseMoves ==
  ASSUME SafetyInv, NEW w \in Worker, Release(w), NEW r, r = held[w].id
  PROVE  RowMoves(r, "running", "waiting")
<1>1. pc[w] = "release" /\ pc[w] \in Holding
  BY DEF Release, Holding
<1>2. r \in RowId /\ Phase(r) = "running"
  BY <1>1, PhaseHeld DEF PhaseAtHolder, HolderPhase
<1>3. r \in DOMAIN jobs /\ jobs[r] \in Row
  BY <1>1 DEF SafetyInv, ClaimExclusive, TypeOK, TablesOK
<1>4. PICK d : jobs' = [jobs EXCEPT ![r] = Released(jobs[r], AttemptsOf(w), d)]
  BY <1>3 DEF Release
<1>5. r \in DOMAIN jobs' /\ jobs'[r].reserved = FALSE
  BY <1>3, <1>4 DEF Released, Row
<1>6. r \notin done \cup buried /\ UNCHANGED <<done, buried>>
  BY <1>1 DEF SafetyInv, VerdictAtHolder, Release, historyVars
<1>7. Phase(r)' = "waiting"
  BY <1>5, <1>6 DEF Phase
<1>8. /\ \A v \in Worker \ {w} : pc'[v] = pc[v] /\ held'[v] = held[v]
      /\ pc'[w] \notin Holding
  BY DEF Release, Processed, Holding, SafetyInv, TypeOK, WorkersOK
<1>9. ASSUME NEW s \in RowId \ {r} PROVE Phase(s)' = Phase(s)
  <2>1. SameHolders(s)
    BY <1>8, <1>9, OthersHold
  <2>2. /\ s \in DOMAIN jobs' <=> s \in DOMAIN jobs
        /\ s \in DOMAIN jobs => jobs'[s] = jobs[s]
    BY <1>4, <1>9
  <2> QED
    BY <1>6, <2>1, <2>2, PhaseKept
<1> QED
  BY <1>2, <1>7, <1>9 DEF RowMoves

\* ack deletes a row that has its verdict.
LEMMA AckStays ==
  ASSUME SafetyInv, NEW w \in Worker, Ack(w)
  PROVE  RowsStay
<1>1. PICK r : r = held[w].id
  OBVIOUS
<1>2. pc[w] \in Holding /\ r \in done \cup buried /\ UNCHANGED <<done, buried>>
  BY <1>1 DEF Ack, Holding, SafetyInv, VerdictAtHolder, historyVars
<1>3. Phase(r)' = Phase(r)
  BY <1>2 DEF Phase
<1>4. /\ \A v \in Worker \ {w} : pc'[v] = pc[v] /\ held'[v] = held[v]
      /\ pc'[w] \notin Holding
  BY DEF Ack, Processed, Holding, SafetyInv, TypeOK, WorkersOK
<1>5. ASSUME NEW s \in RowId \ {r} PROVE Phase(s)' = Phase(s)
  <2>1. SameHolders(s)
    BY <1>1, <1>4, <1>5, OthersHold
  <2>2. /\ s \in DOMAIN jobs' <=> s \in DOMAIN jobs
        /\ s \in DOMAIN jobs => jobs'[s] = jobs[s]
    BY <1>1, <1>5 DEF Ack, Delete
  <2> QED
    BY <1>2, <2>1, <2>2, PhaseKept
<1> QED
  BY <1>3, <1>5 DEF RowsStay

\* A worker that dies leaves the row it held without a holder: abandoned, unless
\* its verdict was reached.
LEMMA CrashMoves ==
  ASSUME SafetyInv, NEW w \in Worker, WorkerCrash(w)
  PROVE  RowsStay \/ \E r \in RowId, p \in {"claimed", "running", "failing"} :
                       RowMoves(r, p, "abandoned")
<1>1. /\ \A v \in Worker \ {w} : pc'[v] = pc[v] /\ held'[v] = held[v]
      /\ pc'[w] \notin Holding /\ UNCHANGED <<jobs, done, buried>>
  BY DEF WorkerCrash, Stop, Holding, SafetyInv, TypeOK, WorkersOK, queueVars, historyVars
<1>2. CASE pc[w] \notin Holding
  BY <1>1, <1>2, IdleStays
<1>3. CASE pc[w] \in Holding
  <2>1. PICK r : r = held[w].id
    OBVIOUS
  <2>2. r \in RowId /\ Phase(r) = HolderPhase(pc[w])
    BY <1>3, <2>1, PhaseHeld DEF PhaseAtHolder
  <2>3. ASSUME NEW s \in RowId \ {r} PROVE Phase(s)' = Phase(s)
    <3>1. SameHolders(s)
      BY <1>1, <2>1, <2>3, OthersHold
    <3> QED
      BY <1>1, <3>1, PhaseKept
  <2>4. CASE pc[w] \in {"ack", "ack_dead"}
    <3>1. r \in done \cup buried
      BY <1>3, <2>1, <2>4 DEF SafetyInv, VerdictAtHolder
    <3>2. Phase(r)' = Phase(r)
      BY <1>1, <3>1 DEF Phase
    <3> QED
      BY <2>3, <3>2 DEF RowsStay
  <2>5. CASE pc[w] \notin {"ack", "ack_dead"}
    <3>1. /\ r \notin done \cup buried /\ r \in DOMAIN jobs /\ jobs[r].reserved
          /\ \A v \in Worker \ {w} : ~ Holds(v, r)
      BY <1>3, <2>1, <2>5 DEF SafetyInv, VerdictAtHolder, ClaimExclusive
    <3>2. \A v \in Worker : ~ (pc'[v] \in Holding /\ held'[v].id = r)
      BY <1>1, <3>1 DEF Holds
    <3>3. Phase(r)' = "abandoned"
      BY <1>1, <3>1, <3>2 DEF Phase, HeldAt, Holding
    <3>4. Phase(r) \in {"claimed", "running", "failing"}
      BY <2>2, <2>5 DEF HolderPhase
    <3> QED
      BY <2>2, <2>3, <3>3, <3>4 DEF RowMoves
  <2> QED
    BY <2>4, <2>5
<1> QED
  BY <1>2, <1>3

\* Every step of the driver is a step of the contract, or none.
LEMMA ContractStep ==
  ASSUME SafetyInv, [Next]_vars
  PROVE  [ContractOf!ContractNext]_(ContractOf!contractVars)
<1> DEFINE Promise == [ContractOf!ContractNext]_(ContractOf!contractVars)
<1>0. SafetyInv'
  BY SafetyStep
<1>1. ASSUME RowsStay, ran' = ran PROVE Promise
  BY <1>1, StayOfContract
<1>2. ASSUME UNCHANGED <<jobs, pc, held, done, buried, ran>> PROVE Promise
  <2>1. ASSUME NEW s \in RowId PROVE Phase(s)' = Phase(s)
    BY <1>2, PhaseKept DEF SameHolders
  <2> QED
    BY <1>1, <1>2, <2>1 DEF RowsStay
<1>3. ASSUME NEW j, NEW delay, push(j, delay),
             UNCHANGED <<workerVars, buried, done, ran>>
      PROVE  Promise
  <2>1. PICK r \in RowId : RowMoves(r, "absent", "waiting")
    BY <1>3, PushMoves
  <2>2. ContractOf!Push(r)
    BY <1>3, <2>1, MoveOfContract DEF ContractOf!Push
  <2> QED
    BY <2>2 DEF ContractOf!ContractNext
<1>4. ASSUME NEW w \in Worker,
             \/ StartWorker(w) \/ ClaimSelect(w) \/ PopEmpty(w) \/ ClaimLost(w)
             \/ ClaimLostAtDeadline(w) \/ ClaimConflict(w) \/ ReleaseLease(w)
      PROVE  Promise
  <2>1. /\ UNCHANGED <<jobs, buried, done, ran>>
        /\ pc[w] \notin Holding /\ pc'[w] \notin Holding
        /\ \A v \in Worker \ {w} : pc'[v] = pc[v] /\ held'[v] = held[v]
    BY <1>4
    DEF StartWorker, ClaimSelect, PopEmpty, ClaimLost, ClaimLostAtDeadline, ClaimConflict,
        ReleaseLease, Miss, Stop, Processed, Holding, queueVars, historyVars,
        SafetyInv, TypeOK, WorkersOK
  <2> QED
    BY <1>1, <2>1, IdleStays
<1>5. ASSUME NEW w \in Worker, ClaimUpdate(w) PROVE Promise
  <2>1. PICK r : r = held[w].id
    OBVIOUS
  <2>2. RowMoves(r, "waiting", "claimed")
    BY <1>5, <2>1, ClaimMoves
  <2>3. ContractOf!Claim(r) /\ r \in RowId
    BY <1>5, <2>2, MoveOfContract DEF ContractOf!Claim, RowMoves, ClaimUpdate, historyVars
  <2> QED
    BY <2>3 DEF ContractOf!ContractNext
<1>6. ASSUME NEW w \in Worker, NoHandler(w) PROVE Promise
  <2>1. PICK r : r = held[w].id
    OBVIOUS
  <2>2. /\ UNCHANGED <<jobs, held, done, buried, ran>>
        /\ pc[w] = "claimed" /\ pc'[w] = "dead_letter"
        /\ \A v \in Worker \ {w} : pc'[v] = pc[v] /\ held'[v] = held[v]
    BY <1>6 DEF NoHandler, queueVars, historyVars, SafetyInv, TypeOK, WorkersOK
  <2>3. RowMoves(r, HolderPhase("claimed"), HolderPhase("dead_letter"))
    BY <1>0, <2>1, <2>2, HolderMoves DEF Holding
  <2>4. RowMoves(r, "claimed", "failing")
    BY <2>3 DEF HolderPhase
  <2>5. ContractOf!Refuse(r) /\ r \in RowId
    BY <2>2, <2>4, MoveOfContract DEF ContractOf!Refuse, RowMoves
  <2> QED
    BY <2>5 DEF ContractOf!ContractNext
<1>7. ASSUME NEW w \in Worker, StartRun(w) PROVE Promise
  <2>1. PICK r : r = held[w].id
    OBVIOUS
  <2>2. /\ UNCHANGED <<jobs, held, done, buried>> /\ ran' = [ran EXCEPT ![r] = @ + 1]
        /\ pc[w] = "claimed" /\ pc'[w] = "running"
        /\ \A v \in Worker \ {w} : pc'[v] = pc[v] /\ held'[v] = held[v]
    BY <1>7, <2>1 DEF StartRun, queueVars, SafetyInv, TypeOK, WorkersOK
  <2>3. RowMoves(r, HolderPhase("claimed"), HolderPhase("running"))
    BY <1>0, <2>1, <2>2, HolderMoves DEF Holding
  <2>4. RowMoves(r, "claimed", "running")
    BY <2>3 DEF HolderPhase
  <2>5. ContractOf!Start(r) /\ r \in RowId
    BY <2>2, <2>4, MoveOfContract DEF ContractOf!Start, RowMoves
  <2> QED
    BY <2>5 DEF ContractOf!ContractNext
<1>8. ASSUME NEW w \in Worker, FinishRun(w) PROVE Promise
  <2>1. PICK r : r = held[w].id
    OBVIOUS
  <2>2. PICK arm \in {"ack", "release", "dead_letter"} :
          /\ pc' = [pc EXCEPT ![w] = arm]
          /\ done' = IF arm = "ack" THEN done \cup {r} ELSE done
    <3>1. PICK result \in HandlerResult :
            LET a == disposition(PolicyOf[JobOf(w)], AttemptsOf(w),
                                 run(PolicyOf[JobOf(w)], result))
            IN  /\ pc' = [pc EXCEPT ![w] = a]
                /\ done' = IF a = "ack" THEN done \cup {held[w].id} ELSE done
      BY <1>8 DEF FinishRun
    <3>2. PICK a : a = disposition(PolicyOf[JobOf(w)], AttemptsOf(w),
                                   run(PolicyOf[JobOf(w)], result))
      OBVIOUS
    <3>3. a \in {"ack", "release", "dead_letter"}
      BY <3>2, DispositionIsArm
    <3> QED
      BY <2>1, <3>1, <3>2, <3>3
  <2>3. /\ UNCHANGED <<jobs, held, buried, ran>>
        /\ pc[w] = "running" /\ pc'[w] = arm
        /\ \A v \in Worker \ {w} : pc'[v] = pc[v] /\ held'[v] = held[v]
        /\ \A s \in RowId \ {r} : s \in done' <=> s \in done
    BY <1>8, <2>2 DEF FinishRun, queueVars, SafetyInv, TypeOK, WorkersOK
  <2>4. RowMoves(r, HolderPhase("running"), HolderPhase(arm))
    BY <1>0, <2>1, <2>3, HolderMoves DEF Holding
  <2>5. RowMoves(r, "running", HolderPhase(arm)) /\ r \in RowId
    BY <2>4 DEF HolderPhase, RowMoves
  <2>6. CASE arm = "ack"
    <3>1. RowMoves(r, "running", "done")
      BY <2>5, <2>6 DEF HolderPhase
    <3>2. ContractOf!Succeed(r)
      BY <2>3, <3>1, MoveOfContract DEF ContractOf!Succeed
    <3> QED
      BY <2>5, <3>2 DEF ContractOf!ContractNext
  <2>7. CASE arm = "release"
    <3>1. RowsStay
      BY <2>5, <2>7 DEF HolderPhase, RowMoves, RowsStay
    <3> QED
      BY <1>1, <2>3, <3>1
  <2>8. CASE arm = "dead_letter"
    <3>1. RowMoves(r, "running", "failing")
      BY <2>5, <2>8 DEF HolderPhase
    <3>2. ContractOf!Fail(r)
      BY <2>3, <3>1, MoveOfContract DEF ContractOf!Fail
    <3> QED
      BY <2>5, <3>2 DEF ContractOf!ContractNext
  <2> QED
    BY <2>6, <2>7, <2>8
<1>9. ASSUME NEW w \in Worker, Release(w) PROVE Promise
  <2>1. PICK r : r = held[w].id
    OBVIOUS
  <2>2. RowMoves(r, "running", "waiting")
    BY <1>9, <2>1, ReleaseMoves
  <2>3. ContractOf!Retry(r) /\ r \in RowId
    BY <1>9, <2>2, MoveOfContract DEF ContractOf!Retry, RowMoves, Release, historyVars
  <2> QED
    BY <2>3 DEF ContractOf!ContractNext
<1>10. ASSUME NEW w \in Worker, DeadLetter(w) PROVE Promise
  <2>1. PICK r : r = held[w].id
    OBVIOUS
  <2>2. /\ UNCHANGED <<jobs, held, done, ran>> /\ buried' = buried \cup {r}
        /\ pc[w] = "dead_letter" /\ pc'[w] = "ack_dead"
        /\ \A v \in Worker \ {w} : pc'[v] = pc[v] /\ held'[v] = held[v]
    BY <1>10, <2>1 DEF DeadLetter, SafetyInv, TypeOK, WorkersOK
  <2>3. \A s \in RowId \ {r} : s \in buried' <=> s \in buried
    BY <2>2
  <2>4. RowMoves(r, HolderPhase("dead_letter"), HolderPhase("ack_dead"))
    BY <1>0, <2>1, <2>2, <2>3, HolderMoves DEF Holding
  <2>5. RowMoves(r, "failing", "buried")
    BY <2>4 DEF HolderPhase
  <2>6. ContractOf!Bury(r) /\ r \in RowId
    BY <2>2, <2>5, MoveOfContract DEF ContractOf!Bury, RowMoves
  <2> QED
    BY <2>6 DEF ContractOf!ContractNext
<1>11. ASSUME NEW w \in Worker, Ack(w) PROVE Promise
  BY <1>1, <1>11, AckStays DEF Ack, historyVars
<1>12. ASSUME NEW w \in Worker, WorkerCrash(w) PROVE Promise
  <2>1. ran' = ran /\ Losable = {"claimed", "running", "failing"}
    BY <1>12 DEF WorkerCrash, historyVars, Losable
  <2>2. ASSUME NEW r \in RowId, NEW p \in Losable, RowMoves(r, p, "abandoned")
        PROVE  Promise
    <3>1. ContractOf!Abandon(r)
      BY <2>1, <2>2, MoveOfContract DEF ContractOf!Abandon
    <3> QED
      BY <3>1 DEF ContractOf!ContractNext
  <2> QED
    BY <1>1, <1>12, <2>1, <2>2, CrashMoves
<1> HIDE DEF Promise
<1>13. ASSUME NEW d \in Dispatcher, DispatchNext(d) PROVE Promise
  BY <1>2, <1>3, <1>13
  DEF DispatchNext, AcquireLease, Enqueue, UnknownConnection, PushFails, UndoLease,
      DispatchCrash, queueVars, workerVars, historyVars
<1>14. ASSUME NEW a \in Admin, AdminNext(a) PROVE Promise
  BY <1>2, <1>3, <1>14
  DEF AdminNext, RetrySelect, RetryPush, RetryDelete, RetryCrash, ForgetFailed,
      queueVars, workerVars, historyVars
<1>15. ASSUME Tick \/ (\E j \in UniqueJob : LeaseExpires(j)) \/ UNCHANGED vars PROVE Promise
  BY <1>2, <1>15 DEF Tick, LeaseExpires, workerVars, historyVars, vars
<1>16. Promise
  BY <1>4, <1>5, <1>6, <1>7, <1>8, <1>9, <1>10, <1>11, <1>12, <1>13, <1>14, <1>15
  DEF Next, WorkerStep
<1> QED
  BY <1>16 DEF Promise

\* The database driver (driver/database.rs under driver/worker.rs) keeps the
\* promise of a queue driver for any number of rows and processes, under either
\* isolation level: a row that waits is never lost, and no run starts twice on
\* one claim, whoever crashes where.
THEOREM DriverKeepsContract == Spec => ImplementsContract
<1>1. Init => ContractOf!ContractInit
  BY DEF Init, ContractOf!ContractInit, Phase, EmptyTable
<1>2. SafetyInv /\ [Next]_vars => [ContractOf!ContractNext]_(ContractOf!contractVars)
  BY ContractStep
<1> QED
  BY <1>1, <1>2, Safety, PTL DEF Spec, ImplementsContract, ContractOf!Contract

============================================================================
