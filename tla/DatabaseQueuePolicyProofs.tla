--------------------- MODULE DatabaseQueuePolicyProofs ---------------------
(***************************************************************************)
(* Machine-checked facts about DatabaseQueue that hold under conditions on *)
(* its environment: attempt accounting, the retry budget and the backoff   *)
(* when the claim is serializable; at most one undecided row of a unique   *)
(* job while no lease expires and no operator retries; no lease left       *)
(* behind when nothing fails; and the full cycle of misses before a worker *)
(* stops, under no condition at all.  Each rests on SafetyInv and on an    *)
(* inductive invariant of its own.                                         *)
(***************************************************************************)
EXTENDS DatabaseQueueProofs

-----------------------------------------------------------------------------
(* Attempt accounting under serializable claims. *)

\* The handler starts the policy of a job pays for.
Budget(j) == LET m == PolicyOf[j].max_tries IN IF m = 0 THEN 1 ELSE m

\* A row never promises more than its budget, owes its history, and is
\* reserved only when due.
RowAccount ==
  \A r \in DOMAIN jobs :
    /\ jobs[r].attempts <= Budget(jobs[r].job)
    /\ ran[r] <= jobs[r].attempts
    /\ ~ jobs[r].reserved => jobs[r].attempts = ran[r] + 1
    /\ jobs[r].reserved => jobs[r].available_at <= now

\* A uuid that was not handed out has no history.
FreshAccount == \A r \in RowId \ issued : ran[r] = 0

\* What the SELECT of claim returned was free and due.
SelectAccount ==
  \A w \in Worker : pc[w] = "selected" =>
    ~ held[w].row.reserved /\ held[w].row.available_at <= now

\* The payload of process_one agrees with its row and with the handler starts.
HolderAccount ==
  \A w \in Worker : pc[w] \in Holding =>
    LET r == held[w].id
    IN  /\ jobs[r].job = JobOf(w)
        /\ jobs[r].attempts = AttemptsOf(w)
        /\ pc[w] = "claimed" => AttemptsOf(w) = ran[r] + 1
        /\ pc[w] \in {"running", "release"} => AttemptsOf(w) = ran[r]
        /\ pc[w] = "release" => AttemptsOf(w) < PolicyOf[JobOf(w)].max_tries

AccountInv == RowAccount /\ FreshAccount /\ SelectAccount /\ HolderAccount

-----------------------------------------------------------------------------
(* Unique jobs. *)

\* A held payload is of the job of its row.
SameJob ==
  \A w \in Worker : pc[w] \notin Idle =>
    /\ held[w].id \in issued
    /\ held[w].id \in DOMAIN jobs => jobs[held[w].id].job = JobOf(w)

\* The three places a lease can be accounted for: a row without a verdict, a
\* dispatch under way, a worker between the verdict and release_lease.
Undecided(r) == r \in DOMAIN jobs /\ r \notin done \cup buried
Dispatching(d, j) == dispatch[d].pc # "idle" /\ dispatch[d].job = j
Settling(w, j) == pc[w] \in {"ack", "ack_dead", "unlease"} /\ JobOf(w) = j

\* Each of them has the lease ...
LeaseBacked ==
  /\ \A r \in DOMAIN jobs : Undecided(r) /\ jobs[r].job \in UniqueJob
                              => jobs[r].job \in lease
  /\ \A d \in Dispatcher, j \in UniqueJob : Dispatching(d, j) => j \in lease
  /\ \A w \in Worker, j \in UniqueJob : Settling(w, j) => j \in lease

\* ... and no two of them share one.
OneToken ==
  \A j \in UniqueJob :
    /\ \A r, s \in DOMAIN jobs :
         Undecided(r) /\ Undecided(s) /\ jobs[r].job = j /\ jobs[s].job = j => r = s
    /\ \A d, e \in Dispatcher : Dispatching(d, j) /\ Dispatching(e, j) => d = e
    /\ \A w, v \in Worker : Settling(w, j) /\ Settling(v, j) => w = v
    /\ \A r \in DOMAIN jobs, d \in Dispatcher :
         ~ (Undecided(r) /\ jobs[r].job = j /\ Dispatching(d, j))
    /\ \A r \in DOMAIN jobs, w \in Worker :
         ~ (Undecided(r) /\ jobs[r].job = j /\ Settling(w, j))
    /\ \A d \in Dispatcher, w \in Worker :
         ~ (Dispatching(d, j) /\ Settling(w, j))

LeaseInv == SameJob /\ LeaseBacked /\ OneToken

-----------------------------------------------------------------------------
(* The round-robin of run_worker_with. *)

\* Position i (from 0) is among the last m before cursor c on the ring.
Behind(c, m, i) ==
  \/ i < c /\ c - m <= i
  \/ i >= c /\ c + Len(QueueList) - m <= i

\* The queues polled since the last job are the `misses` ones behind the cursor.
CycleInv ==
  \A w \in Worker :
    /\ \A i \in 0 .. Len(QueueList) - 1 :
         Behind(loop[w].cursor, loop[w].misses, i) => QueueList[i + 1] \in loop[w].missed
    /\ pc[w] = "drained" => loop[w].misses >= Len(QueueList)

-----------------------------------------------------------------------------

\* process_one releases only a payload whose attempts the policy still allows.
LEMMA ReleaseIsAllowed ==
  ASSUME NEW p, NEW a, NEW o, disposition(p, a, o) = "release"
  PROVE  a < p.max_tries
BY DEF disposition, allows_retry

\* The budget of a job admits its first attempt and every allowed retry.
LEMMA BudgetBounds ==
  ASSUME NEW j \in Job
  PROVE  /\ Budget(j) \in Nat /\ 1 <= Budget(j)
         /\ \A a \in Nat : a < PolicyOf[j].max_tries => a + 1 <= Budget(j)
<1>1. PolicyOf[j].max_tries \in Nat
  BY JobAssumption DEF Policy
<1> QED
  BY <1>1 DEF Budget

\* A step that only sends a worker back to its loop keeps the accounts.
LEMMA AccountIdle ==
  ASSUME SafetyInv, AccountInv, NEW w \in Worker, NEW x \in Idle, NEW y,
         pc' = [pc EXCEPT ![w] = x], held' = [held EXCEPT ![w] = y],
         UNCHANGED <<now, jobs, ran, issued>>
  PROVE  AccountInv'
<1>1. x # "selected" /\ x \notin Holding
  BY DEF Idle, Holding
<1>2. \A v \in Worker \ {w} : pc'[v] = pc[v] /\ held'[v] = held[v]
  BY DEF SafetyInv, TypeOK, WorkersOK
<1>3. pc'[w] = x
  BY DEF SafetyInv, TypeOK, WorkersOK
<1>4. SelectAccount' /\ HolderAccount'
  BY <1>1, <1>2, <1>3 DEF AccountInv, SelectAccount, HolderAccount, JobOf, AttemptsOf
<1> QED
  BY <1>4 DEF AccountInv, RowAccount, FreshAccount

\* DatabaseDriver::push opens an account of one attempt and no run.
LEMMA AccountPush ==
  ASSUME SafetyInv, AccountInv, NEW j \in Job, NEW delay \in Nat, push(j, delay),
         UNCHANGED <<now, pc, held, ran>>
  PROVE  AccountInv'
<1>1. PICK r \in RowId \ issued :
        /\ jobs' = Insert(jobs, r,
             [job |-> j, attempts |-> 1, reserved |-> FALSE,
              available_at |-> now + delay, created_at |-> now])
        /\ issued' = issued \cup {r}
  BY DEF push
<1>2. /\ DOMAIN jobs' = DOMAIN jobs \cup {r}
      /\ \A s \in DOMAIN jobs : s # r /\ jobs'[s] = jobs[s]
      /\ jobs'[r].job = j /\ jobs'[r].attempts = 1 /\ ~ jobs'[r].reserved
  BY <1>1 DEF Insert, SafetyInv, TypeOK, TablesOK
<1>3. ran[r] = 0
  BY <1>1 DEF AccountInv, FreshAccount
<1>4. RowAccount'
  BY <1>2, <1>3, BudgetBounds DEF AccountInv, RowAccount, Budget
<1>5. HolderAccount'
  BY <1>2 DEF AccountInv, HolderAccount, JobOf, AttemptsOf, SafetyInv, ClaimExclusive
<1> QED
  BY <1>1, <1>4, <1>5 DEF AccountInv, FreshAccount, SelectAccount

\* Every step of a serializable queue keeps the accounts.
LEMMA AccountStep ==
  ASSUME Isolation = "serializable", SafetyInv, AccountInv, [Next]_vars
  PROVE  AccountInv'
<1> USE DEF AccountInv
<1>0. ASSUME UNCHANGED <<now, jobs, pc, held, ran, issued>> PROVE AccountInv'
  BY <1>0 DEF RowAccount, FreshAccount, SelectAccount, HolderAccount, JobOf, AttemptsOf
<1>1. ASSUME NEW w \in Worker, ClaimSelect(w) PROVE AccountInv'
  <2>1. PICK r \in DOMAIN jobs : Available(r, CurrentQueue(w))
                               /\ held' = [held EXCEPT ![w] = [id |-> r, row |-> jobs[r]]]
    BY <1>1 DEF ClaimSelect
  <2>2. SelectAccount'
    BY <1>1, <2>1 DEF ClaimSelect, SelectAccount, Available, SafetyInv, TypeOK, WorkersOK, queueVars
  <2>3. HolderAccount'
    BY <1>1, <2>1 DEF ClaimSelect, HolderAccount, JobOf, AttemptsOf, Holding, SafetyInv, TypeOK, WorkersOK, queueVars, historyVars
  <2> QED
    BY <1>1, <2>2, <2>3 DEF ClaimSelect, RowAccount, FreshAccount, queueVars, historyVars
<1>2. ASSUME NEW w \in Worker, ClaimUpdate(w) PROVE AccountInv'
  <2> DEFINE r == held[w].id
  <2>1. /\ r \in DOMAIN jobs /\ ~ jobs[r].reserved /\ jobs[r] = held[w].row
        /\ jobs[r].available_at <= now
    BY <1>2 DEF ClaimUpdate, ClaimGuard, Serializable, SelectAccount
  <2>2. jobs' = [jobs EXCEPT ![r].reserved = TRUE]
    BY <1>2 DEF ClaimUpdate
  <2>3. jobs[r] \in Row
    BY <2>1 DEF SafetyInv, TypeOK, TablesOK
  <2>4. /\ DOMAIN jobs' = DOMAIN jobs
        /\ \A s \in DOMAIN jobs \ {r} : jobs'[s] = jobs[s]
        /\ jobs'[r].job = jobs[r].job /\ jobs'[r].attempts = jobs[r].attempts
        /\ jobs'[r].available_at = jobs[r].available_at /\ jobs'[r].reserved
    BY <2>1, <2>2, <2>3 DEF Row
  <2>5. UNCHANGED <<now, held, ran, issued>> /\ pc' = [pc EXCEPT ![w] = "claimed"]
    BY <1>2 DEF ClaimUpdate, historyVars
  <2>6. RowAccount'
    BY <2>1, <2>4, <2>5 DEF RowAccount
  <2>7. HolderAccount'
    <3>1. ASSUME NEW v \in Worker \ {w}, pc'[v] \in Holding
          PROVE  pc[v] \in Holding /\ held[v].id # r /\ held[v].id \in DOMAIN jobs
      BY <2>1, <2>5, <3>1 DEF SafetyInv, ClaimExclusive, TypeOK, WorkersOK
    <3>2. jobs[r].attempts = ran[r] + 1
      BY <2>1 DEF RowAccount
    <3>3. pc'[w] = "claimed" /\ \A v \in Worker \ {w} : pc'[v] = pc[v]
      BY <2>5 DEF SafetyInv, TypeOK, WorkersOK
    <3> QED
      BY <2>1, <2>4, <2>5, <3>1, <3>2, <3>3 DEF HolderAccount, JobOf, AttemptsOf
  <2>8. SelectAccount'
    BY <2>5 DEF SelectAccount, SafetyInv, TypeOK, WorkersOK
  <2> QED
    BY <2>5, <2>6, <2>7, <2>8 DEF FreshAccount
<1>3. ASSUME NEW w \in Worker, NoHandler(w) PROVE AccountInv'
  BY <1>3 DEF NoHandler, RowAccount, FreshAccount, SelectAccount, HolderAccount, JobOf, AttemptsOf, Holding, SafetyInv, TypeOK, WorkersOK, queueVars, historyVars
<1>4. ASSUME NEW w \in Worker, StartRun(w) PROVE AccountInv'
  <2> DEFINE r == held[w].id
  <2>1. /\ r \in DOMAIN jobs /\ jobs[r].reserved /\ r \in RowId
        /\ jobs[r].attempts = ran[r] + 1 /\ AttemptsOf(w) = ran[r] + 1
    BY <1>4 DEF StartRun, Holding, SafetyInv, ClaimExclusive, TypeOK, TablesOK, HolderAccount
  <2>2. UNCHANGED <<now, jobs, held, issued>> /\ pc' = [pc EXCEPT ![w] = "running"]
    BY <1>4 DEF StartRun, queueVars
  <2>3. /\ ran'[r] = ran[r] + 1
        /\ \A s \in RowId \ {r} : ran'[s] = ran[s]
    BY <1>4, <2>1 DEF StartRun, SafetyInv, TypeOK, HistoryOK
  <2>4. DOMAIN jobs \subseteq issued /\ issued \subseteq RowId
    BY DEF SafetyInv, TypeOK, TablesOK
  <2>5. RowAccount'
    <3>1. ran[r] + 1 <= jobs[r].attempts
      BY <2>1 DEF SafetyInv, TypeOK, HistoryOK
    <3> QED
      BY <2>1, <2>2, <2>3, <2>4, <3>1 DEF RowAccount, Budget
  <2>6. FreshAccount'
    BY <2>1, <2>2, <2>3, <2>4 DEF FreshAccount
  <2>7. HolderAccount'
    <3>1. ASSUME NEW v \in Worker \ {w}, pc'[v] \in Holding
          PROVE  pc[v] \in Holding /\ held[v].id # r /\ held[v].id \in RowId
      BY <1>4, <2>2, <2>4, <3>1 DEF StartRun, SafetyInv, ClaimExclusive, Holds, Holding, TypeOK, WorkersOK
    <3>2. pc'[w] = "running" /\ \A v \in Worker \ {w} : pc'[v] = pc[v]
      BY <2>2 DEF SafetyInv, TypeOK, WorkersOK
    <3>3. jobs[r].job = JobOf(w)
      BY <1>4 DEF StartRun, Holding, HolderAccount
    <3> QED
      BY <2>1, <2>2, <2>3, <3>1, <3>2, <3>3 DEF HolderAccount, JobOf, AttemptsOf
  <2> QED
    BY <2>2, <2>5, <2>6, <2>7 DEF SelectAccount, SafetyInv, TypeOK, WorkersOK
<1>5. ASSUME NEW w \in Worker, FinishRun(w) PROVE AccountInv'
  <2>1. PICK result \in HandlerResult :
          pc' = [pc EXCEPT ![w] = disposition(PolicyOf[JobOf(w)], AttemptsOf(w),
                                    run(PolicyOf[JobOf(w)], result))]
    BY <1>5 DEF FinishRun
  <2> DEFINE arm == disposition(PolicyOf[JobOf(w)], AttemptsOf(w),
                                run(PolicyOf[JobOf(w)], result))
  <2>2. arm \in {"ack", "release", "dead_letter"}
    BY DispositionIsArm
  <2>3. arm = "release" => AttemptsOf(w) < PolicyOf[JobOf(w)].max_tries
    BY ReleaseIsAllowed
  <2>4. UNCHANGED <<now, jobs, held, ran, issued>> /\ pc[w] = "running"
    BY <1>5 DEF FinishRun, queueVars
  <2>5. pc'[w] = arm /\ \A v \in Worker \ {w} : pc'[v] = pc[v]
    BY <2>1 DEF SafetyInv, TypeOK, WorkersOK
  <2> HIDE DEF arm
  <2>6. HolderAccount' /\ SelectAccount'
    BY <2>2, <2>3, <2>4, <2>5 DEF HolderAccount, SelectAccount, JobOf, AttemptsOf, Holding
  <2> QED
    BY <2>4, <2>6 DEF RowAccount, FreshAccount
<1>6. ASSUME NEW w \in Worker, Release(w) PROVE AccountInv'
  <2> DEFINE r == held[w].id
             delay == delay_for_attempt(PolicyOf[JobOf(w)], AttemptsOf(w))
  <2>1. /\ r \in DOMAIN jobs /\ jobs[r] \in Row
        /\ jobs[r].job = JobOf(w) /\ JobOf(w) \in Job
        /\ AttemptsOf(w) \in Nat /\ AttemptsOf(w) = ran[r]
        /\ AttemptsOf(w) < PolicyOf[JobOf(w)].max_tries
    BY <1>6, HeldIsClaim DEF Release, Holding, Idle, SafetyInv, ClaimExclusive, TypeOK, TablesOK, HolderAccount
  <2>2. jobs' = [jobs EXCEPT ![r] = Released(jobs[r], AttemptsOf(w), delay)]
    BY <1>6, <2>1 DEF Release
  <2>3. /\ DOMAIN jobs' = DOMAIN jobs
        /\ \A s \in DOMAIN jobs \ {r} : jobs'[s] = jobs[s]
        /\ jobs'[r].job = jobs[r].job /\ jobs'[r].attempts = AttemptsOf(w) + 1
        /\ ~ jobs'[r].reserved
    BY <2>1, <2>2 DEF Released, Row
  <2>4. UNCHANGED <<now, ran, issued>>
    BY <1>6 DEF Release, historyVars
  <2>5. RowAccount'
    <3>1. AttemptsOf(w) + 1 <= Budget(jobs[r].job)
      BY <2>1, BudgetBounds
    <3> QED
      BY <2>1, <2>3, <2>4, <3>1 DEF RowAccount, Budget
  <2>6. PICK x \in Idle : pc' = [pc EXCEPT ![w] = x] /\ held' = [held EXCEPT ![w] = None]
    BY <1>6 DEF Release, Processed, Idle
  <2>7. /\ \A v \in Worker \ {w} : pc'[v] = pc[v] /\ held'[v] = held[v]
        /\ pc'[w] \notin Holding /\ pc'[w] # "selected"
    BY <2>6 DEF Idle, Holding, SafetyInv, TypeOK, WorkersOK
  <2>8. ASSUME NEW v \in Worker \ {w}, pc[v] \in Holding
        PROVE  held[v].id \in DOMAIN jobs /\ held[v].id # r
    BY <1>6, <2>8 DEF Release, SafetyInv, ClaimExclusive, Holds, Holding
  <2>9. HolderAccount' /\ SelectAccount'
    BY <2>3, <2>4, <2>7, <2>8 DEF HolderAccount, SelectAccount, JobOf, AttemptsOf
  <2> QED
    BY <2>4, <2>5, <2>9 DEF FreshAccount
<1>7. ASSUME NEW w \in Worker, DeadLetter(w) PROVE AccountInv'
  BY <1>7 DEF DeadLetter, RowAccount, FreshAccount, SelectAccount, HolderAccount, JobOf, AttemptsOf, Holding, SafetyInv, TypeOK, WorkersOK
<1>8. ASSUME NEW w \in Worker, Ack(w) PROVE AccountInv'
  <2> DEFINE r == held[w].id
  <2>1. /\ DOMAIN jobs' = DOMAIN jobs \ {r}
        /\ \A s \in DOMAIN jobs' : jobs'[s] = jobs[s]
        /\ UNCHANGED <<now, ran, issued>>
    BY <1>8 DEF Ack, Delete, historyVars
  <2>2. /\ \A v \in Worker \ {w} : pc'[v] = pc[v] /\ held'[v] = held[v]
        /\ pc'[w] \notin Holding /\ pc'[w] # "selected"
    BY <1>8 DEF Ack, Processed, Idle, Holding, SafetyInv, TypeOK, WorkersOK
  <2>3. ASSUME NEW v \in Worker \ {w}, pc[v] \in Holding
        PROVE  held[v].id \in DOMAIN jobs'
    BY <1>8, <2>1, <2>3 DEF Ack, SafetyInv, ClaimExclusive, Holds, Holding
  <2>4. HolderAccount' /\ SelectAccount'
    BY <2>1, <2>2, <2>3 DEF HolderAccount, SelectAccount, JobOf, AttemptsOf
  <2> QED
    BY <2>1, <2>4 DEF RowAccount, FreshAccount
<1>9. ASSUME Tick PROVE AccountInv'
  <2>1. now' = now + 1 /\ now \in Nat /\ UNCHANGED <<jobs, pc, held, ran, issued>>
    BY <1>9 DEF Tick, workerVars, historyVars, SafetyInv, TypeOK, TablesOK
  <2>2. RowAccount'
    BY <2>1 DEF RowAccount, SafetyInv, TypeOK, TablesOK, Row
  <2>3. SelectAccount'
    <3>1. ASSUME NEW w \in Worker, pc[w] = "selected" PROVE held[w].row.available_at \in Nat
      BY <3>1, HeldIsClaim DEF Idle, SafetyInv, Row
    <3> QED
      BY <2>1, <3>1 DEF SelectAccount
  <2> QED
    BY <2>1, <2>2, <2>3 DEF FreshAccount, HolderAccount, JobOf, AttemptsOf
<1>10. ASSUME NEW d \in Dispatcher, DispatchNext(d) PROVE AccountInv'
  <2>1. ASSUME Enqueue(d) PROVE AccountInv'
    BY <2>1, AccountPush, JobAssumption DEF Enqueue, workerVars, SafetyInv, TypeOK, ClientsOK
  <2> QED
    BY <1>0, <1>10, <2>1 DEF DispatchNext, AcquireLease, UnknownConnection, PushFails, UndoLease, DispatchCrash, queueVars, workerVars, historyVars
<1>11. ASSUME NEW a \in Admin, AdminNext(a) PROVE AccountInv'
  <2>1. ASSUME RetryPush(a) PROVE AccountInv'
    BY <2>1, AccountPush DEF RetryPush, workerVars, SafetyInv, TypeOK, ClientsOK
  <2> QED
    BY <1>0, <1>11, <2>1 DEF AdminNext, RetrySelect, RetryDelete, RetryCrash, ForgetFailed, queueVars, workerVars, historyVars
<1>12. ASSUME NEW w \in Worker,
              \/ StartWorker(w) \/ PopEmpty(w) \/ ClaimLost(w) \/ ClaimLostAtDeadline(w)
              \/ ClaimConflict(w) \/ ReleaseLease(w) \/ WorkerCrash(w)
       PROVE  AccountInv'
  <2>1. \E x \in Idle : \E y : pc' = [pc EXCEPT ![w] = x] /\ held' = [held EXCEPT ![w] = y]
    <3>1. CASE StartWorker(w)
      <4>1. held' = [held EXCEPT ![w] = held[w]]
        BY <3>1 DEF StartWorker, SafetyInv, TypeOK, WorkersOK
      <4> QED
        BY <3>1, <4>1 DEF StartWorker, Idle
    <3>2. CASE ~ StartWorker(w)
      BY <1>12, <3>2 DEF PopEmpty, ClaimLost, ClaimLostAtDeadline, ClaimConflict, ReleaseLease, WorkerCrash, Miss, Stop, Processed, Idle
    <3> QED
      BY <3>1, <3>2
  <2>2. UNCHANGED <<now, jobs, ran, issued>>
    BY <1>12 DEF StartWorker, PopEmpty, ClaimLost, ClaimLostAtDeadline, ClaimConflict, ReleaseLease, WorkerCrash, queueVars, historyVars
  <2> QED
    BY <2>1, <2>2, AccountIdle
<1> QED
  BY <1>0, <1>1, <1>2, <1>3, <1>4, <1>5, <1>6, <1>7, <1>8, <1>9, <1>10, <1>11, <1>12
  DEF Next, WorkerStep, LeaseExpires, vars, workerVars, historyVars

LEMMA AccountInit ==
  ASSUME Init
  PROVE  AccountInv
BY DEF Init, AccountInv, RowAccount, FreshAccount, SelectAccount, HolderAccount, Holding, EmptyTable

\* With serializable claims the accounts hold in every reachable state.
LEMMA AccountsHold ==
  ASSUME Isolation = "serializable"
  PROVE  Spec => [](SafetyInv /\ AccountInv)
<1>1. Init => SafetyInv /\ AccountInv
  BY SafetyInit, AccountInit
<1>2. SafetyInv /\ AccountInv /\ [Next]_vars => (SafetyInv /\ AccountInv)'
  BY SafetyStep, AccountStep
<1> QED
  BY <1>1, <1>2, PTL DEF Spec

\* When the claim transaction is serializable, the attempts column that a
\* worker bases its verdict on counts the handler starts of the row exactly,
\* whoever crashes and whichever dead letters are pushed again.
THEOREM AttemptsAreAuthoritative ==
  ASSUME Isolation = "serializable"
  PROVE  Spec => []AttemptsAuthoritative
<1>1. SafetyInv /\ AccountInv => AttemptsAuthoritative
  BY DEF SafetyInv, AccountInv, RowAccount, HolderAccount, AttemptsAuthoritative, Holds
<1> QED
  BY <1>1, AccountsHold, PTL

\* Under the same condition no row starts its handler more often than the
\* max_tries of its policy (policy.rs) allows.
THEOREM BudgetIsKept ==
  ASSUME Isolation = "serializable"
  PROVE  Spec => []AttemptBudget
<1>1. SafetyInv /\ AccountInv => AttemptBudget
  <2> SUFFICES ASSUME SafetyInv, AccountInv, NEW r \in DOMAIN jobs
               PROVE  ran[r] <= Budget(jobs[r].job)
    BY DEF AttemptBudget, Budget
  <2>1. jobs[r] \in Row /\ r \in RowId
    BY DEF SafetyInv, TypeOK, TablesOK
  <2>2. jobs[r].attempts \in Nat /\ ran[r] \in Nat /\ Budget(jobs[r].job) \in Nat
    BY <2>1, BudgetBounds DEF Row, SafetyInv, TypeOK, HistoryOK
  <2> QED
    BY <2>2 DEF AccountInv, RowAccount
<1> QED
  BY <1>1, AccountsHold, PTL

\* Under the same condition no row is reserved before its delay or backoff ran out.
THEOREM BackoffIsHonoured ==
  ASSUME Isolation = "serializable"
  PROVE  Spec => []BackoffHonoured
<1>1. SafetyInv /\ AccountInv => BackoffHonoured
  BY DEF AccountInv, RowAccount, BackoffHonoured
<1> QED
  BY <1>1, AccountsHold, PTL

-----------------------------------------------------------------------------

\* push, seen from the rows that were there before: one new undecided row.
LEMMA PushAddsRow ==
  ASSUME SafetyInv, NEW j \in Job, NEW delay \in Nat, push(j, delay)
  PROVE  \E r \in RowId \ issued :
           /\ r \notin DOMAIN jobs /\ r \notin done \cup buried
           /\ DOMAIN jobs' = DOMAIN jobs \cup {r} /\ issued' = issued \cup {r}
           /\ \A s \in DOMAIN jobs : jobs'[s] = jobs[s]
           /\ jobs'[r].job = j
<1>1. PICK r \in RowId \ issued :
        /\ jobs' = Insert(jobs, r,
             [job |-> j, attempts |-> 1, reserved |-> FALSE,
              available_at |-> now + delay, created_at |-> now])
        /\ issued' = issued \cup {r}
  BY DEF push
<1>2. r \notin DOMAIN jobs /\ r \notin done \cup buried
  BY <1>1 DEF SafetyInv, TypeOK, TablesOK, VerdictAtHolder
<1> QED
  BY <1>1, <1>2 DEF Insert

\* The UPDATEs of claim and release write no job column.
LEMMA RowsKeepJob ==
  ASSUME SafetyInv, NEW w \in Worker, ClaimUpdate(w) \/ Release(w)
  PROVE  /\ DOMAIN jobs' = DOMAIN jobs
         /\ \A r \in DOMAIN jobs : jobs'[r].job = jobs[r].job
<1>1. CASE ClaimUpdate(w)
  BY <1>1 DEF ClaimUpdate, ClaimGuard, SafetyInv, TypeOK, TablesOK, Row
<1>2. CASE Release(w)
  BY <1>2 DEF Release, Released, SafetyInv, TypeOK, TablesOK, Row
<1> QED
  BY <1>1, <1>2

\* A statement that changes neither the rows nor the job of any of them, and
\* gives no worker a new payload, keeps payloads and rows in agreement.
LEMMA SameJobStill ==
  ASSUME SafetyInv, SameJob, NEW w \in Worker, NEW x,
         issued \subseteq issued',
         \A r \in DOMAIN jobs' : r \in DOMAIN jobs /\ jobs'[r].job = jobs[r].job,
         pc' = [pc EXCEPT ![w] = x],
         \/ held' = held /\ pc[w] \notin Idle
         \/ held' = [held EXCEPT ![w] = None] /\ x \in Idle
         \/ held' = held /\ x \in Idle
  PROVE  SameJob'
<1>1. pc'[w] = x /\ \A v \in Worker \ {w} : pc'[v] = pc[v] /\ held'[v] = held[v]
  BY DEF SafetyInv, TypeOK, WorkersOK
<1>2. ASSUME NEW v \in Worker, pc'[v] \notin Idle
      PROVE  pc[v] \notin Idle /\ held'[v] = held[v]
  BY <1>1, <1>2
<1> QED
  BY <1>2 DEF SameJob, JobOf

\* Every step keeps the payload a worker holds and its row on the same job.
LEMMA SameJobStep ==
  ASSUME SafetyInv, SameJob, [Next]_vars
  PROVE  SameJob'
<1>0. ASSUME UNCHANGED <<jobs, pc, held, issued>> PROVE SameJob'
  BY <1>0 DEF SameJob, JobOf
<1>1. ASSUME NEW j \in Job, NEW delay \in Nat, push(j, delay), UNCHANGED <<pc, held>>
      PROVE  SameJob'
  BY <1>1, PushAddsRow DEF SameJob, JobOf
<1>2. ASSUME NEW w \in Worker, ClaimSelect(w) PROVE SameJob'
  BY <1>2 DEF ClaimSelect, SameJob, JobOf, SafetyInv, TypeOK, WorkersOK, TablesOK, queueVars, historyVars
<1>3. ASSUME NEW w \in Worker, ClaimUpdate(w) PROVE SameJob'
  <2>1. \A r \in DOMAIN jobs' : r \in DOMAIN jobs /\ jobs'[r].job = jobs[r].job
    BY <1>3, RowsKeepJob
  <2> QED
    BY <1>3, <2>1, SameJobStill DEF ClaimUpdate, Idle, historyVars
<1>4. ASSUME NEW w \in Worker, Release(w) PROVE SameJob'
  <2>1. \A r \in DOMAIN jobs' : r \in DOMAIN jobs /\ jobs'[r].job = jobs[r].job
    BY <1>4, RowsKeepJob
  <2> QED
    BY <1>4, <2>1, SameJobStill DEF Release, Processed, Idle, historyVars
<1>5. ASSUME NEW w \in Worker, Ack(w) PROVE SameJob'
  <2>1. \A r \in DOMAIN jobs' : r \in DOMAIN jobs /\ jobs'[r].job = jobs[r].job
    BY <1>5 DEF Ack, Delete
  <2> QED
    BY <1>5, <2>1, SameJobStill DEF Ack, Processed, Idle, historyVars
<1>6. ASSUME NEW w \in Worker,
             \/ StartWorker(w) \/ PopEmpty(w) \/ ClaimLost(w) \/ ClaimLostAtDeadline(w)
             \/ ClaimConflict(w) \/ ReleaseLease(w) \/ WorkerCrash(w)
             \/ NoHandler(w) \/ StartRun(w) \/ FinishRun(w) \/ DeadLetter(w)
      PROVE  SameJob'
  <2>1. UNCHANGED <<jobs, issued>>
    BY <1>6 DEF StartWorker, PopEmpty, ClaimLost, ClaimLostAtDeadline, ClaimConflict, ReleaseLease, WorkerCrash, NoHandler, StartRun, FinishRun, DeadLetter, queueVars, historyVars
  <2>2. \E x : /\ pc' = [pc EXCEPT ![w] = x]
               /\ \/ held' = held /\ pc[w] \notin Idle
                  \/ held' = [held EXCEPT ![w] = None] /\ x \in Idle
                  \/ held' = held /\ x \in Idle
    BY <1>6 DEF StartWorker, PopEmpty, ClaimLost, ClaimLostAtDeadline, ClaimConflict, ReleaseLease, WorkerCrash, NoHandler, StartRun, FinishRun, DeadLetter, Miss, Stop, Processed, Idle
  <2> QED
    BY <2>1, <2>2, SameJobStill
<1>7. ASSUME NEW d \in Dispatcher, DispatchNext(d) PROVE SameJob'
  <2>1. ASSUME Enqueue(d) PROVE SameJob'
    BY <1>1, <2>1, JobAssumption DEF Enqueue, workerVars, SafetyInv, TypeOK, ClientsOK
  <2> QED
    BY <1>0, <1>7, <2>1 DEF DispatchNext, AcquireLease, UnknownConnection, PushFails, UndoLease, DispatchCrash, queueVars, workerVars, historyVars
<1>8. ASSUME NEW a \in Admin, AdminNext(a) PROVE SameJob'
  <2>1. ASSUME RetryPush(a) PROVE SameJob'
    BY <1>1, <2>1 DEF RetryPush, workerVars, SafetyInv, TypeOK, ClientsOK
  <2> QED
    BY <1>0, <1>8, <2>1 DEF AdminNext, RetrySelect, RetryDelete, RetryCrash, ForgetFailed, queueVars, workerVars, historyVars
<1> QED
  BY <1>0, <1>2, <1>3, <1>4, <1>5, <1>6, <1>7, <1>8
  DEF Next, WorkerStep, Tick, LeaseExpires, vars, workerVars, historyVars

LEMMA SameJobInit ==
  ASSUME Init
  PROVE  SameJob
BY DEF Init, SameJob, Idle

\* A step that creates no new claim on a lease and deletes no lease keeps the
\* tokens apart.
LEMMA FewerTokens ==
  ASSUME LeaseBacked, OneToken, lease' = lease,
         \A r \in DOMAIN jobs' : r \in DOMAIN jobs /\ jobs'[r].job = jobs[r].job,
         done \subseteq done', buried \subseteq buried',
         \A d \in Dispatcher, j \in UniqueJob : Dispatching(d, j)' => Dispatching(d, j),
         \A w \in Worker, j \in UniqueJob : Settling(w, j)' => Settling(w, j)
  PROVE  LeaseBacked' /\ OneToken'
<1>1. \A r \in DOMAIN jobs' : Undecided(r)' => Undecided(r)
  BY DEF Undecided
<1>2. LeaseBacked'
  BY <1>1 DEF LeaseBacked
<1>3. OneToken'
  BY <1>1 DEF OneToken
<1> QED
  BY <1>2, <1>3

\* A verdict moves the token of a row to the worker that reached it.
LEMMA VerdictMovesToken ==
  ASSUME SafetyInv, SameJob, LeaseBacked, OneToken, NEW w \in Worker,
         NEW x \in {"ack", "ack_dead"},
         Undecided(held[w].id), pc[w] \in Holding,
         pc' = [pc EXCEPT ![w] = x], UNCHANGED <<jobs, held, dispatch, lease>>,
         done \subseteq done', buried \subseteq buried', held[w].id \in done' \cup buried'
  PROVE  LeaseBacked' /\ OneToken'
<1> DEFINE r == held[w].id
<1>1. r \in DOMAIN jobs /\ jobs[r].job = JobOf(w)
  BY DEF Undecided, SameJob, Holding, Idle
<1>2. \A s \in DOMAIN jobs' : Undecided(s)' => Undecided(s) /\ s # r /\ jobs'[s] = jobs[s]
  BY DEF Undecided
<1>3. \A d \in Dispatcher, j \in UniqueJob : Dispatching(d, j)' <=> Dispatching(d, j)
  BY DEF Dispatching
<1>4. /\ \A v \in Worker \ {w}, j \in UniqueJob : Settling(v, j)' <=> Settling(v, j)
      /\ \A j \in UniqueJob : Settling(w, j)' => jobs[r].job = j
  BY <1>1 DEF Settling, JobOf, SafetyInv, TypeOK, WorkersOK
<1>5. LeaseBacked'
  BY <1>1, <1>2, <1>3, <1>4 DEF LeaseBacked
<1>6. OneToken'
  BY <1>1, <1>2, <1>3, <1>4 DEF OneToken
<1> QED
  BY <1>5, <1>6

\* Every step keeps the tokens of unique jobs apart while no lease expires by
\* its TTL and no operator pushes a dead letter (which takes no lease).
LEMMA LeaseStep ==
  ASSUME Admin = {}, ~ LeaseExpiry, SafetyInv, LeaseInv, [Next]_vars
  PROVE  LeaseInv'
<1> USE DEF LeaseInv
<1>0. SameJob'
  BY SameJobStep
<1> SUFFICES LeaseBacked' /\ OneToken'
  BY <1>0
<1>1. ASSUME NEW d \in Dispatcher, NEW j \in Job, AcquireLease(d, j)
      PROVE  LeaseBacked' /\ OneToken'
  <2>1. /\ UNCHANGED <<jobs, done, buried, pc, held>>
        /\ j \notin lease /\ lease' = lease \cup ({j} \cap UniqueJob)
        /\ dispatch[d].pc = "idle"
    BY <1>1 DEF AcquireLease, workerVars, historyVars
  <2>2. /\ dispatch'[d] = [pc |-> "push", job |-> j]
        /\ \A e \in Dispatcher \ {d} : dispatch'[e] = dispatch[e]
    BY <1>1 DEF AcquireLease, SafetyInv, TypeOK, ClientsOK
  <2>3. \A k \in UniqueJob :
          /\ Dispatching(d, k)' <=> k = j
          /\ \A e \in Dispatcher \ {d} : Dispatching(e, k)' <=> Dispatching(e, k)
          /\ \A w \in Worker : Settling(w, k)' <=> Settling(w, k)
    BY <2>1, <2>2 DEF Dispatching, Settling, JobOf
  <2>4. \A r \in DOMAIN jobs : Undecided(r)' <=> Undecided(r)
    BY <2>1 DEF Undecided
  <2>5. LeaseBacked'
    BY <2>1, <2>3, <2>4 DEF LeaseBacked
  <2>6. OneToken'
    BY <2>1, <2>3, <2>4 DEF LeaseBacked, OneToken
  <2> QED
    BY <2>5, <2>6
<1>2. ASSUME NEW d \in Dispatcher, Enqueue(d) PROVE LeaseBacked' /\ OneToken'
  <2> DEFINE j == dispatch[d].job
  <2>1. /\ UNCHANGED <<lease, done, buried, pc, held>> /\ Dispatching(d, j) /\ j \in Job
        /\ \E delay \in Nat : push(j, delay)
    BY <1>2, JobAssumption DEF Enqueue, Dispatching, workerVars, SafetyInv, TypeOK, ClientsOK
  <2>2. PICK r \in RowId \ issued :
           /\ r \notin DOMAIN jobs /\ r \notin done \cup buried
           /\ DOMAIN jobs' = DOMAIN jobs \cup {r} /\ issued' = issued \cup {r}
           /\ \A s \in DOMAIN jobs : jobs'[s] = jobs[s]
           /\ jobs'[r].job = j
    BY <2>1, PushAddsRow
  <2>3. /\ dispatch'[d].pc = "idle"
        /\ \A e \in Dispatcher \ {d} : dispatch'[e] = dispatch[e]
    BY <1>2 DEF Enqueue, IdleDispatch, SafetyInv, TypeOK, ClientsOK
  <2>4. \A k \in UniqueJob :
          /\ ~ Dispatching(d, k)'
          /\ \A e \in Dispatcher \ {d} : Dispatching(e, k)' <=> Dispatching(e, k)
          /\ \A w \in Worker : Settling(w, k)' <=> Settling(w, k)
    BY <2>1, <2>3 DEF Dispatching, Settling, JobOf
  <2>5. \A s \in DOMAIN jobs : Undecided(s)' <=> Undecided(s)
    BY <2>1, <2>2 DEF Undecided
  <2>6. LeaseBacked'
    BY <2>1, <2>2, <2>4, <2>5 DEF LeaseBacked
  <2>7. OneToken'
    BY <2>1, <2>2, <2>4, <2>5 DEF OneToken
  <2> QED
    BY <2>6, <2>7
<1>3. ASSUME NEW d \in Dispatcher, UnknownConnection(d) \/ PushFails(d) \/ DispatchCrash(d)
      PROVE  LeaseBacked' /\ OneToken'
  <2>1. UNCHANGED <<lease, jobs, done, buried, pc, held>>
    BY <1>3 DEF UnknownConnection, PushFails, DispatchCrash, queueVars, workerVars, historyVars
  <2>2. \A e \in Dispatcher, j \in UniqueJob : Dispatching(e, j)' => Dispatching(e, j)
    BY <1>3 DEF UnknownConnection, PushFails, DispatchCrash, IdleDispatch, Dispatching, SafetyInv, TypeOK, ClientsOK, DispatchState
  <2>3. \A w \in Worker, j \in UniqueJob : Settling(w, j)' => Settling(w, j)
    BY <2>1 DEF Settling, JobOf
  <2> QED
    BY <2>1, <2>2, <2>3, FewerTokens
<1>4. ASSUME NEW d \in Dispatcher, UndoLease(d) PROVE LeaseBacked' /\ OneToken'
  <2> DEFINE j == dispatch[d].job
  <2>1. /\ UNCHANGED <<jobs, done, buried, pc, held>> /\ Dispatching(d, j)
        /\ lease' = lease \ {j}
    BY <1>4 DEF UndoLease, release_unique, Dispatching, workerVars, historyVars
  <2>2. /\ dispatch'[d].pc = "idle"
        /\ \A e \in Dispatcher \ {d} : dispatch'[e] = dispatch[e]
    BY <1>4 DEF UndoLease, IdleDispatch, SafetyInv, TypeOK, ClientsOK
  <2>3. \A k \in UniqueJob :
          /\ ~ Dispatching(d, k)'
          /\ \A e \in Dispatcher \ {d} : Dispatching(e, k)' <=> Dispatching(e, k)
          /\ \A w \in Worker : Settling(w, k)' <=> Settling(w, k)
    BY <2>1, <2>2 DEF Dispatching, Settling, JobOf
  <2>4. \A s \in DOMAIN jobs : Undecided(s)' <=> Undecided(s)
    BY <2>1 DEF Undecided
  <2>5. LeaseBacked'
    BY <2>1, <2>3, <2>4 DEF LeaseBacked, OneToken
  <2>6. OneToken'
    BY <2>1, <2>3, <2>4 DEF OneToken
  <2> QED
    BY <2>5, <2>6
<1>5. ASSUME NEW w \in Worker,
             \/ StartWorker(w) \/ ClaimSelect(w) \/ PopEmpty(w) \/ ClaimUpdate(w)
             \/ ClaimLost(w) \/ ClaimLostAtDeadline(w) \/ ClaimConflict(w)
             \/ NoHandler(w) \/ StartRun(w) \/ Release(w) \/ Ack(w) \/ WorkerCrash(w)
      PROVE  LeaseBacked' /\ OneToken'
  <2>1. UNCHANGED <<lease, dispatch, done, buried>>
    BY <1>5 DEF StartWorker, ClaimSelect, PopEmpty, ClaimUpdate, ClaimLost, ClaimLostAtDeadline, ClaimConflict, NoHandler, StartRun, Release, Ack, WorkerCrash, queueVars, historyVars
  <2>2. \A r \in DOMAIN jobs' : r \in DOMAIN jobs /\ jobs'[r].job = jobs[r].job
    <3>1. CASE ClaimUpdate(w) \/ Release(w)
      BY <3>1, RowsKeepJob
    <3>2. CASE Ack(w)
      BY <3>2 DEF Ack, Delete
    <3> QED
      BY <1>5, <3>1, <3>2 DEF StartWorker, ClaimSelect, PopEmpty, ClaimLost, ClaimLostAtDeadline, ClaimConflict, NoHandler, StartRun, WorkerCrash, queueVars
  <2>3. \A v \in Worker : \A j \in UniqueJob : Settling(v, j)' => Settling(v, j)
    <3>1. /\ \A v \in Worker \ {w} : pc'[v] = pc[v] /\ held'[v] = held[v]
          /\ \/ pc'[w] \notin {"ack", "ack_dead", "unlease"}
             \/ pc[w] \in {"ack", "ack_dead"} /\ held'[w] = held[w]
      BY <1>5 DEF StartWorker, ClaimSelect, PopEmpty, ClaimUpdate, ClaimLost, ClaimLostAtDeadline, ClaimConflict, NoHandler, StartRun, Release, Ack, WorkerCrash, Miss, Stop, Processed, SafetyInv, TypeOK, WorkersOK
    <3> QED
      BY <3>1 DEF Settling, JobOf
  <2>4. \A d \in Dispatcher, j \in UniqueJob : Dispatching(d, j)' => Dispatching(d, j)
    BY <2>1 DEF Dispatching
  <2> QED
    BY <2>1, <2>2, <2>3, <2>4, FewerTokens
<1>6. ASSUME NEW w \in Worker, FinishRun(w) PROVE LeaseBacked' /\ OneToken'
  <2>1. PICK arm \in {"ack", "release", "dead_letter"} :
          /\ pc' = [pc EXCEPT ![w] = arm]
          /\ done' = IF arm = "ack" THEN done \cup {held[w].id} ELSE done
    <3>1. PICK result \in HandlerResult :
            LET arm == disposition(PolicyOf[JobOf(w)], AttemptsOf(w),
                                   run(PolicyOf[JobOf(w)], result))
            IN  /\ pc' = [pc EXCEPT ![w] = arm]
                /\ done' = IF arm = "ack" THEN done \cup {held[w].id} ELSE done
      BY <1>6 DEF FinishRun
    <3> DEFINE arm == disposition(PolicyOf[JobOf(w)], AttemptsOf(w),
                                  run(PolicyOf[JobOf(w)], result))
    <3>2. arm \in {"ack", "release", "dead_letter"}
      BY DispositionIsArm
    <3> QED
      BY <3>1, <3>2
  <2>2. UNCHANGED <<lease, dispatch, jobs, buried, held>> /\ pc[w] = "running"
    BY <1>6 DEF FinishRun, queueVars
  <2>3. CASE arm = "ack"
    <3>1. Undecided(held[w].id)
      BY <2>2 DEF Undecided, SafetyInv, ClaimExclusive, VerdictAtHolder, Holding
    <3> QED
      BY <2>1, <2>2, <2>3, <3>1, VerdictMovesToken DEF Holding
  <2>4. CASE arm # "ack"
    <3>1. \A v \in Worker, j \in UniqueJob : Settling(v, j)' => Settling(v, j)
      BY <2>1, <2>2, <2>4 DEF Settling, JobOf, SafetyInv, TypeOK, WorkersOK
    <3>2. \A d \in Dispatcher, j \in UniqueJob : Dispatching(d, j)' => Dispatching(d, j)
      BY <2>2 DEF Dispatching
    <3> QED
      BY <2>1, <2>2, <2>4, <3>1, <3>2, FewerTokens
  <2> QED
    BY <2>3, <2>4
<1>7. ASSUME NEW w \in Worker, DeadLetter(w) PROVE LeaseBacked' /\ OneToken'
  <2>1. /\ UNCHANGED <<lease, dispatch, jobs, done, held>> /\ pc[w] = "dead_letter"
        /\ pc' = [pc EXCEPT ![w] = "ack_dead"] /\ buried' = buried \cup {held[w].id}
    BY <1>7 DEF DeadLetter
  <2>2. Undecided(held[w].id)
    BY <2>1 DEF Undecided, SafetyInv, ClaimExclusive, VerdictAtHolder, Holding
  <2> QED
    BY <2>1, <2>2, VerdictMovesToken DEF Holding
<1>8. ASSUME NEW w \in Worker, ReleaseLease(w) PROVE LeaseBacked' /\ OneToken'
  <2> DEFINE j == JobOf(w)
  <2>1. /\ UNCHANGED <<jobs, done, buried, dispatch>> /\ Settling(w, j)
        /\ lease' = lease \ {j}
    BY <1>8 DEF ReleaseLease, release_unique, Settling, historyVars
  <2>2. /\ pc'[w] \notin {"ack", "ack_dead", "unlease"}
        /\ \A v \in Worker \ {w} : pc'[v] = pc[v] /\ held'[v] = held[v]
    BY <1>8 DEF ReleaseLease, Processed, SafetyInv, TypeOK, WorkersOK
  <2>3. \A k \in UniqueJob :
          /\ ~ Settling(w, k)'
          /\ \A v \in Worker \ {w} : Settling(v, k)' <=> Settling(v, k)
          /\ \A d \in Dispatcher : Dispatching(d, k)' <=> Dispatching(d, k)
    BY <2>1, <2>2 DEF Dispatching, Settling, JobOf
  <2>4. \A s \in DOMAIN jobs : Undecided(s)' <=> Undecided(s)
    BY <2>1 DEF Undecided
  <2> HIDE DEF j
  <2>5. LeaseBacked'
    BY <2>1, <2>3, <2>4 DEF LeaseBacked, OneToken
  <2>6. OneToken'
    BY <2>1, <2>3, <2>4 DEF OneToken
  <2> QED
    BY <2>5, <2>6
<1>9. ASSUME UNCHANGED <<jobs, done, buried, dispatch, pc, held, lease>>
      PROVE  LeaseBacked' /\ OneToken'
  BY <1>9, FewerTokens DEF Dispatching, Settling, JobOf
<1> QED
  BY <1>1, <1>2, <1>3, <1>4, <1>5, <1>6, <1>7, <1>8, <1>9
  DEF Next, DispatchNext, WorkerStep, Tick, LeaseExpires, vars, workerVars, historyVars

\* "enqueued at most once while its lease is held" (unique.rs), for every
\* isolation level and with crashes, store errors and unknown connections: a
\* unique job has at most one undecided row as long as leases outlive their
\* jobs and dead letters are not pushed again.
THEOREM UniqueJobsAreUnique ==
  ASSUME Admin = {}, ~ LeaseExpiry
  PROVE  Spec => []UniqueInFlight
<1>1. Init => SafetyInv /\ LeaseInv
  <2> SUFFICES ASSUME Init PROVE LeaseBacked /\ OneToken
    BY SafetyInit, SameJobInit DEF LeaseInv
  <2> QED
    BY DEF Init, LeaseBacked, OneToken, Undecided, Dispatching, Settling, EmptyTable, IdleDispatch
<1>2. SafetyInv /\ LeaseInv /\ [Next]_vars => (SafetyInv /\ LeaseInv)'
  BY SafetyStep, LeaseStep
<1>3. LeaseInv => UniqueInFlight
  BY DEF LeaseInv, OneToken, Undecided, UniqueInFlight
<1> QED
  BY <1>1, <1>2, <1>3, PTL DEF Spec

-----------------------------------------------------------------------------

\* Every step keeps each lease accounted for when nothing fails.
LEMMA WedgeStep ==
  ASSUME ~ Faults, "unregistered" \notin Connections, UniqueJob \subseteq Handled,
         SafetyInv, SameJob, NoWedgedLease, [Next]_vars
  PROVE  NoWedgedLease'
<1>1. ASSUME NEW d \in Dispatcher, NEW j \in Job, AcquireLease(d, j) PROVE NoWedgedLease'
  <2>1. /\ UNCHANGED <<jobs, pc, held>> /\ lease' \subseteq lease \cup {j}
        /\ dispatch[d].pc = "idle"
    BY <1>1 DEF AcquireLease, workerVars
  <2>2. /\ dispatch'[d] = [pc |-> "push", job |-> j]
        /\ \A e \in Dispatcher \ {d} : dispatch'[e] = dispatch[e]
    BY <1>1 DEF AcquireLease, SafetyInv, TypeOK, ClientsOK
  <2> QED
    BY <2>1, <2>2 DEF NoWedgedLease, LeaseAccounted, JobOf
<1>2. ASSUME NEW d \in Dispatcher, Enqueue(d) PROVE NoWedgedLease'
  <2>1. /\ UNCHANGED <<lease, pc, held>> /\ dispatch[d].job \in Job
        /\ \E delay \in Nat : push(dispatch[d].job, delay)
        /\ \A e \in Dispatcher \ {d} : dispatch'[e] = dispatch[e]
    BY <1>2, JobAssumption DEF Enqueue, workerVars, SafetyInv, TypeOK, ClientsOK
  <2>2. PICK r \in RowId : /\ DOMAIN jobs' = DOMAIN jobs \cup {r}
                           /\ \A s \in DOMAIN jobs : jobs'[s] = jobs[s]
                           /\ jobs'[r].job = dispatch[d].job
    BY <2>1, PushAddsRow
  <2> QED
    BY <2>1, <2>2 DEF NoWedgedLease, LeaseAccounted, JobOf
<1>3. ASSUME NEW d \in Dispatcher, UndoLease(d) PROVE NoWedgedLease'
  <2>1. /\ UNCHANGED <<jobs, pc, held>> /\ lease' = lease \ {dispatch[d].job}
        /\ \A e \in Dispatcher \ {d} : dispatch'[e] = dispatch[e]
    BY <1>3 DEF UndoLease, release_unique, workerVars, SafetyInv, TypeOK, ClientsOK
  <2> QED
    BY <2>1 DEF NoWedgedLease, LeaseAccounted, JobOf
<1>4. ASSUME lease' \subseteq lease, dispatch' = dispatch,
             \A r \in DOMAIN jobs : r \in DOMAIN jobs' /\ jobs'[r].job = jobs[r].job,
             \A w \in Worker : pc[w] = "unlease" => pc'[w] = "unlease" /\ held'[w] = held[w]
      PROVE  NoWedgedLease'
  BY <1>4 DEF NoWedgedLease, LeaseAccounted, JobOf
<1>5. ASSUME NEW w \in Worker,
             \/ StartWorker(w) \/ ClaimSelect(w) \/ PopEmpty(w) \/ ClaimUpdate(w)
             \/ ClaimLost(w) \/ ClaimLostAtDeadline(w) \/ ClaimConflict(w)
             \/ NoHandler(w) \/ StartRun(w) \/ FinishRun(w) \/ Release(w) \/ DeadLetter(w)
      PROVE  NoWedgedLease'
  <2>1. UNCHANGED <<lease, dispatch>>
    BY <1>5 DEF StartWorker, ClaimSelect, PopEmpty, ClaimUpdate, ClaimLost, ClaimLostAtDeadline, ClaimConflict, NoHandler, StartRun, FinishRun, Release, DeadLetter, queueVars
  <2>2. \A r \in DOMAIN jobs : r \in DOMAIN jobs' /\ jobs'[r].job = jobs[r].job
    <3>1. CASE ClaimUpdate(w) \/ Release(w)
      BY <3>1, RowsKeepJob
    <3> QED
      BY <1>5, <3>1 DEF StartWorker, ClaimSelect, PopEmpty, ClaimLost, ClaimLostAtDeadline, ClaimConflict, NoHandler, StartRun, FinishRun, DeadLetter, queueVars
  <2>3. pc[w] # "unlease" /\ \A v \in Worker \ {w} : pc'[v] = pc[v] /\ held'[v] = held[v]
    BY <1>5 DEF StartWorker, ClaimSelect, PopEmpty, ClaimUpdate, ClaimLost, ClaimLostAtDeadline, ClaimConflict, NoHandler, StartRun, FinishRun, Release, DeadLetter, Miss, Stop, Processed, SafetyInv, TypeOK, WorkersOK
  <2> QED
    BY <1>4, <2>1, <2>2, <2>3
<1>6. ASSUME NEW w \in Worker, Ack(w) PROVE NoWedgedLease'
  <2> DEFINE r == held[w].id
  <2>1. /\ UNCHANGED <<lease, dispatch>> /\ pc[w] \in {"ack", "ack_dead"}
        /\ DOMAIN jobs' = DOMAIN jobs \ {r}
        /\ \A s \in DOMAIN jobs' : jobs'[s] = jobs[s]
    BY <1>6 DEF Ack, Delete
  <2>2. \A v \in Worker \ {w} : pc'[v] = pc[v] /\ held'[v] = held[v]
    BY <1>6 DEF Ack, Processed, SafetyInv, TypeOK, WorkersOK
  <2>3. JobOf(w) \in Handled => pc'[w] = "unlease" /\ held'[w] = held[w]
    BY <1>6 DEF Ack, SafetyInv, TypeOK, WorkersOK
  <2>4. r \in DOMAIN jobs => jobs[r].job = JobOf(w)
    BY <2>1 DEF SameJob, Idle
  <2>5. \A j \in lease : j \in Handled
    BY DEF SafetyInv, TypeOK, TablesOK
  <2>6. ASSUME NEW j \in lease PROVE LeaseAccounted(j)'
    <3>1. CASE j = JobOf(w)
      <4>1. pc'[w] = "unlease" /\ JobOf(w)' = j
        BY <2>3, <2>5, <3>1 DEF JobOf
      <4> QED
        BY <4>1 DEF LeaseAccounted
    <3>2. CASE j # JobOf(w)
      BY <2>1, <2>2, <2>4, <3>2 DEF NoWedgedLease, LeaseAccounted, JobOf
    <3> QED
      BY <3>1, <3>2
  <2> QED
    BY <2>1, <2>6 DEF NoWedgedLease
<1>7. ASSUME NEW w \in Worker, ReleaseLease(w) PROVE NoWedgedLease'
  <2>1. /\ UNCHANGED <<jobs, dispatch>> /\ lease' = lease \ {JobOf(w)}
        /\ \A v \in Worker \ {w} : pc'[v] = pc[v] /\ held'[v] = held[v]
    BY <1>7 DEF ReleaseLease, release_unique, Processed, SafetyInv, TypeOK, WorkersOK
  <2> QED
    BY <2>1 DEF NoWedgedLease, LeaseAccounted, JobOf
<1>8. ASSUME NEW a \in Admin, AdminNext(a) PROVE NoWedgedLease'
  <2>1. UNCHANGED <<lease, dispatch, pc, held>>
    BY <1>8 DEF AdminNext, RetrySelect, RetryPush, RetryDelete, RetryCrash, ForgetFailed, queueVars, workerVars
  <2>2. \A r \in DOMAIN jobs : r \in DOMAIN jobs' /\ jobs'[r].job = jobs[r].job
    <3>1. CASE RetryPush(a)
      BY <3>1, PushAddsRow DEF RetryPush, SafetyInv, TypeOK, ClientsOK
    <3> QED
      BY <1>8, <3>1 DEF AdminNext, RetrySelect, RetryDelete, RetryCrash, ForgetFailed, queueVars
  <2> QED
    BY <1>4, <2>1, <2>2
<1> QED
  BY <1>1, <1>2, <1>3, <1>4, <1>5, <1>6, <1>7, <1>8
  DEF Next, DispatchNext, WorkerStep, UnknownConnection, PushFails, DispatchCrash, WorkerCrash, Tick, LeaseExpires, vars, workerVars, historyVars

\* When nothing fails, every connection is registered and every unique job has
\* a handler, a lease key is never left behind by the code path that took it.
\* Each condition is needed: a crash, an unknown connection or a job without a
\* handler leaves the key in the cache until its TTL.
THEOREM NoLeaseIsWedged ==
  ASSUME ~ Faults, "unregistered" \notin Connections, UniqueJob \subseteq Handled
  PROVE  Spec => []NoWedgedLease
<1>1. Init => SafetyInv /\ SameJob /\ NoWedgedLease
  BY SafetyInit, SameJobInit DEF Init, NoWedgedLease
<1>2. SafetyInv /\ SameJob /\ NoWedgedLease /\ [Next]_vars
        => (SafetyInv /\ SameJob /\ NoWedgedLease)'
  BY SafetyStep, SameJobStep, WedgeStep
<1> QED
  BY <1>1, <1>2, PTL DEF Spec

-----------------------------------------------------------------------------

\* The cursor of run_worker_with moves one position around the ring.
LEMMA CursorAdvance ==
  ASSUME NEW n \in Nat, NEW c \in 0 .. n - 1
  PROVE  (c + 1) % n = IF c + 1 = n THEN 0 ELSE c + 1
OBVIOUS

\* One more miss at cursor c covers what was covered before and c itself.
LEMMA BehindStep ==
  ASSUME NEW c \in 0 .. Len(QueueList) - 1, NEW m \in Nat,
         NEW i \in 0 .. Len(QueueList) - 1,
         Behind((c + 1) % Len(QueueList), m + 1, i)
  PROVE  i = c \/ Behind(c, m, i)
<1>1. Len(QueueList) \in Nat
  BY WorkerAssumption
<1>2. (c + 1) % Len(QueueList) = IF c + 1 = Len(QueueList) THEN 0 ELSE c + 1
  BY <1>1, CursorAdvance
<1> QED
  BY <1>1, <1>2 DEF Behind

LEMMA NoneBehind ==
  ASSUME NEW c \in 0 .. Len(QueueList) - 1, NEW i \in 0 .. Len(QueueList) - 1
  PROVE  ~ Behind(c, 0, i)
BY WorkerAssumption DEF Behind

LEMMA AllBehind ==
  ASSUME NEW c \in 0 .. Len(QueueList) - 1, NEW i \in 0 .. Len(QueueList) - 1,
         NEW m \in Nat, m >= Len(QueueList)
  PROVE  Behind(c, m, i)
BY WorkerAssumption DEF Behind

\* A miss keeps the polled queues behind the cursor.
LEMMA CycleMiss ==
  ASSUME TypeOK, CycleInv, NEW w \in Worker, Miss(w)
  PROVE  CycleInv'
<1>1. /\ loop[w] \in Loop /\ loop[w].cursor \in 0 .. Len(QueueList) - 1
      /\ Len(QueueList) \in Nat
  BY WorkerAssumption DEF TypeOK, WorkersOK, Loop
<1>2. /\ loop'[w].cursor = (loop[w].cursor + 1) % Len(QueueList)
      /\ loop'[w].misses = loop[w].misses + 1
      /\ loop'[w].missed = loop[w].missed \cup {QueueList[loop[w].cursor + 1]}
      /\ pc'[w] = "drained" => loop[w].misses + 1 >= Len(QueueList)
  BY DEF Miss, CurrentQueue, TypeOK, WorkersOK, Loop
<1>3. \A v \in Worker \ {w} : loop'[v] = loop[v] /\ pc'[v] = pc[v]
  BY DEF Miss, TypeOK, WorkersOK
<1>4. ASSUME NEW i \in 0 .. Len(QueueList) - 1,
             Behind(loop'[w].cursor, loop'[w].misses, i)
      PROVE  QueueList[i + 1] \in loop'[w].missed
  <2>1. loop[w].misses \in Nat
    BY <1>1 DEF Loop
  <2>2. i = loop[w].cursor \/ Behind(loop[w].cursor, loop[w].misses, i)
    BY <1>1, <1>2, <1>4, <2>1, BehindStep
  <2> QED
    BY <1>2, <2>2 DEF CycleInv
<1> QED
  BY <1>2, <1>3, <1>4 DEF CycleInv, Behind

\* Every step keeps the queues polled since the last job behind the cursor.
LEMMA CycleStep ==
  ASSUME TypeOK, CycleInv, [Next]_vars
  PROVE  CycleInv'
<1>1. ASSUME NEW w \in Worker, StartWorker(w) PROVE CycleInv'
  <2>1. /\ loop'[w].cursor = 0 /\ loop'[w].misses = 0 /\ pc'[w] # "drained"
        /\ \A v \in Worker \ {w} : loop'[v] = loop[v] /\ pc'[v] = pc[v]
    BY <1>1 DEF StartWorker, FreshLoop, TypeOK, WorkersOK
  <2>2. \A i \in 0 .. Len(QueueList) - 1 : ~ Behind(0, 0, i)
    BY WorkerAssumption, NoneBehind
  <2> QED
    BY <2>1, <2>2 DEF CycleInv, Behind
<1>2. ASSUME NEW w \in Worker, ClaimUpdate(w) PROVE CycleInv'
  <2>1. /\ loop'[w].cursor = (loop[w].cursor + 1) % Len(QueueList)
        /\ loop'[w].misses = 0 /\ pc'[w] # "drained"
        /\ \A v \in Worker \ {w} : loop'[v] = loop[v] /\ pc'[v] = pc[v]
    BY <1>2 DEF ClaimUpdate, TypeOK, WorkersOK, Loop
  <2>2. loop'[w].cursor \in 0 .. Len(QueueList) - 1
    BY <2>1, CursorStep DEF TypeOK, WorkersOK, Loop
  <2>3. \A i \in 0 .. Len(QueueList) - 1 : ~ Behind(loop'[w].cursor, 0, i)
    BY <2>2, NoneBehind
  <2> QED
    BY <2>1, <2>3 DEF CycleInv, Behind
<1>3. ASSUME NEW w \in Worker, PopEmpty(w) \/ ClaimLostAtDeadline(w) PROVE CycleInv'
  BY <1>3, CycleMiss DEF PopEmpty, ClaimLostAtDeadline
<1>4. ASSUME \A w \in Worker :
               /\ loop'[w].cursor = loop[w].cursor /\ loop'[w].misses = loop[w].misses
               /\ loop'[w].missed = loop[w].missed
               /\ pc'[w] = "drained" => pc[w] = "drained"
      PROVE  CycleInv'
  BY <1>4 DEF CycleInv, Behind
<1>5. ASSUME NEW w \in Worker,
             \/ ClaimSelect(w) \/ ClaimLost(w) \/ ClaimConflict(w) \/ NoHandler(w)
             \/ StartRun(w) \/ FinishRun(w) \/ DeadLetter(w) \/ WorkerCrash(w)
      PROVE  CycleInv'
  <2>1. loop' = loop
    BY <1>5 DEF ClaimSelect, ClaimLost, ClaimConflict, NoHandler, StartRun, FinishRun, DeadLetter, WorkerCrash
  <2>2. \A v \in Worker : pc'[v] = "drained" => pc[v] = "drained"
    BY <1>5, DispositionIsArm DEF ClaimSelect, ClaimLost, ClaimConflict, NoHandler, StartRun, FinishRun, DeadLetter, WorkerCrash, Stop, TypeOK, WorkersOK
  <2> QED
    BY <1>4, <2>1, <2>2
<1>6. ASSUME NEW w \in Worker, Release(w) \/ Ack(w) \/ ReleaseLease(w) PROVE CycleInv'
  <2>1. \A v \in Worker :
          /\ loop'[v].cursor = loop[v].cursor /\ loop'[v].misses = loop[v].misses
          /\ loop'[v].missed = loop[v].missed
    BY <1>6 DEF Release, Ack, ReleaseLease, Processed, TypeOK, WorkersOK, Loop
  <2>2. \A v \in Worker : pc'[v] = "drained" => pc[v] = "drained"
    BY <1>6 DEF Release, Ack, ReleaseLease, Processed, TypeOK, WorkersOK
  <2> QED
    BY <1>4, <2>1, <2>2
<1>7. ASSUME UNCHANGED <<pc, loop>> PROVE CycleInv'
  BY <1>4, <1>7
<1> QED
  BY <1>1, <1>2, <1>3, <1>5, <1>6, <1>7
  DEF Next, DispatchNext, AcquireLease, Enqueue, UnknownConnection, PushFails, UndoLease, DispatchCrash, WorkerStep, AdminNext, RetrySelect, RetryPush, RetryDelete, RetryCrash, ForgetFailed, Tick, LeaseExpires, vars, workerVars

\* "Stop only after a full cycle with no job" (worker.rs), for every list of
\* queues, repeated names included, and with nothing assumed of the rest.
THEOREM DrainsAFullCycle == Spec => []DrainedAfterFullCycle
<1>1. Init => CycleInv
  <2> SUFFICES ASSUME Init PROVE CycleInv
    OBVIOUS
  <2>1. \A i \in 0 .. Len(QueueList) - 1 : ~ Behind(0, 0, i)
    BY WorkerAssumption, NoneBehind
  <2> QED
    BY <2>1 DEF Init, CycleInv, FreshLoop
<1>2. TypeOK /\ CycleInv /\ [Next]_vars => CycleInv'
  BY CycleStep
<1>3. TypeOK /\ CycleInv => DrainedAfterFullCycle
  <2> SUFFICES ASSUME TypeOK, CycleInv, NEW w \in Worker, pc[w] = "drained",
                      NEW i \in 1 .. Len(QueueList)
               PROVE  QueueList[i] \in loop[w].missed
    BY DEF DrainedAfterFullCycle
  <2>1. /\ Len(QueueList) \in Nat /\ i - 1 \in 0 .. Len(QueueList) - 1
        /\ loop[w].cursor \in 0 .. Len(QueueList) - 1 /\ loop[w].misses \in Nat
    BY WorkerAssumption DEF TypeOK, WorkersOK, Loop
  <2>2. loop[w].misses >= Len(QueueList)
    BY DEF CycleInv
  <2>3. Behind(loop[w].cursor, loop[w].misses, i - 1)
    BY <2>1, <2>2, AllBehind
  <2>4. QueueList[(i - 1) + 1] \in loop[w].missed
    BY <2>1, <2>3 DEF CycleInv
  <2> QED
    BY <2>4
<1> QED
  BY <1>1, <1>2, <1>3, TypeCorrect, PTL DEF Spec

============================================================================
