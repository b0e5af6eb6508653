---------------------------- MODULE MCRedisLock ----------------------------
(***************************************************************************)
(* The redis queue and the lock of the cache, each by itself: `part` says  *)
(* which one a behaviour is about, and the other stays as it began.        *)
(***************************************************************************)
EXTENDS MCRedisQueue, CacheLock

VARIABLE part

bothVars == <<part, vars, lockVars>>

BothInit == part \in {"queue", "lock"} /\ Init /\ LockInit

BothNext ==
  /\ UNCHANGED part
  /\ \/ part = "queue" /\ Next /\ UNCHANGED lockVars
     \/ part = "lock" /\ LockNext /\ UNCHANGED vars

\* Fairness and LockFairness, each of its own part: nobody waits for the
\* steps of the other.
QueuePart(A) == part = "queue" /\ A /\ UNCHANGED <<part, lockVars>>
LockPart(A) == part = "lock" /\ A /\ UNCHANGED <<part, vars>>

BothFairness ==
  /\ WF_bothVars(QueuePart(Tick))
  /\ \A j \in Job : WF_bothVars(QueuePart(DispatchTime(j)))
  /\ \A w \in Worker : WF_bothVars(QueuePart(WorkerStep(w)))
  /\ WF_bothVars(LockPart(LockTick))
  /\ \A c \in Client : WF_bothVars(LockPart(Acquire(c) \/ GetFails(c) \/ AfterMiss(c)))
  /\ \A t \in Token : WF_bothVars(LockPart(DropTask(t)))

BothSpec == BothInit /\ [][BothNext]_bothVars /\ BothFairness
=============================================================================
