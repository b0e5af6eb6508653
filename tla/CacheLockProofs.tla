--------------------------- MODULE CacheLockProofs ---------------------------
(***************************************************************************)
(* Machine-checked facts about CacheLock for every set of clients, lease   *)
(* and wait window.                                                        *)
(***************************************************************************)
EXTENDS CacheLock, TLAPS

LEMMA LockInvInit ==
  ASSUME LockInit
  PROVE  LockInv
BY LockAssumption DEF LockInit, LockInv, LockType, LeaseBacked, Leased

\* Every step, a flush included, keeps the types.
LEMMA TypeStep ==
  ASSUME LockType, [LockNext]_lockVars
  PROVE  LockType'
<1> USE LockAssumption
<1>1. ASSUME NEW c \in Client, Block(c) PROVE LockType'
  BY <1>1 DEF Block, LockType
<1>2. ASSUME NEW c \in Client, Acquire(c) PROVE LockType'
  BY <1>2 DEF Acquire, Fresh, put_if_absent, LockType
<1>3. ASSUME NEW c \in Client, GetFails(c) \/ AfterMiss(c) \/ AcquireFails(c)
      PROVE  LockType'
  BY <1>3 DEF GetFails, AfterMiss, AcquireFails, LockType
<1>4. ASSUME NEW c \in Client, Release(c) PROVE LockType'
  BY <1>4 DEF Release, compare_and_delete, Unguard, LockType
<1>5. ASSUME NEW c \in Client, GuardLost(c) PROVE LockType'
  BY <1>5 DEF GuardLost, Unguard, LockType
<1>6. ASSUME NEW c \in Client, DropGuard(c) PROVE LockType'
  BY <1>6 DEF DropGuard, Unguard, LockType
<1>7. ASSUME NEW t \in Token, DropTask(t) PROVE LockType'
  BY <1>7 DEF DropTask, compare_and_delete, LockType
<1>8. ASSUME NEW t \in Token, DropTaskLost(t) PROVE LockType'
  BY <1>8 DEF DropTaskLost, LockType
<1>9. ASSUME Flush PROVE LockType'
  BY <1>9 DEF Flush, LockType
<1>10. ASSUME LockTick PROVE LockType'
  BY <1>10 DEF LockTick, Minus1, LockType
<1>11. ASSUME UNCHANGED lockVars PROVE LockType'
  BY <1>11 DEF lockVars, LockType
<1> QED
  BY <1>1, <1>2, <1>3, <1>4, <1>5, <1>6, <1>7, <1>8, <1>9, <1>10, <1>11 DEF LockNext

\* Every step keeps the lease of a guard backed by its entry.
LEMMA BackedStep ==
  ASSUME LockInv, [LockNext]_lockVars
  PROVE  LeaseBacked'
<1> USE LockAssumption DEF LockInv
<1>1. ASSUME NEW c \in Client, Block(c) PROVE LeaseBacked'
  BY <1>1 DEF Block, LockType, LeaseBacked, Leased
<1>2. ASSUME NEW c \in Client, Acquire(c) PROVE LeaseBacked'
  <2>1. PICK t \in Fresh : put_if_absent(t) /\ guard' = [guard EXCEPT ![c] = t]
    BY <1>2 DEF Acquire
  <2>2. /\ t \in Token /\ t \notin tasks /\ \A d \in Client : guard[d] # t
        /\ \A d \in Client : ~ Leased(d)
    BY <2>1 DEF Fresh, put_if_absent, Alive, LockType, LeaseBacked, Leased
  <2> QED
    BY <1>2, <2>1, <2>2 DEF Acquire, put_if_absent, LockType, LeaseBacked, Leased
<1>3. ASSUME NEW c \in Client, GetFails(c) \/ AfterMiss(c) \/ AcquireFails(c)
      PROVE  LeaseBacked'
  BY <1>3 DEF GetFails, AfterMiss, AcquireFails, LockType, LeaseBacked, Leased
<1>4. ASSUME NEW c \in Client, Release(c) PROVE LeaseBacked'
  BY <1>4 DEF Release, compare_and_delete, Unguard, LockType, LeaseBacked, Leased
<1>5. ASSUME NEW c \in Client, GuardLost(c) PROVE LeaseBacked'
  BY <1>5 DEF GuardLost, Unguard, LockType, LeaseBacked, Leased
<1>6. ASSUME NEW c \in Client, DropGuard(c) PROVE LeaseBacked'
  BY <1>6 DEF DropGuard, Unguard, LockType, LeaseBacked, Leased
<1>7. ASSUME NEW t \in Token, DropTask(t) PROVE LeaseBacked'
  BY <1>7 DEF DropTask, compare_and_delete, LockType, LeaseBacked, Leased
<1>8. ASSUME NEW t \in Token, DropTaskLost(t) PROVE LeaseBacked'
  BY <1>8 DEF DropTaskLost, LockType, LeaseBacked, Leased
<1>9. ASSUME LockTick PROVE LeaseBacked'
  <2>1. ASSUME NEW c \in Client, Leased(c)'
        PROVE  Leased(c) /\ lease'[c] = Minus1(lease[c])
    BY <1>9, <2>1 DEF LockTick, Minus1, Leased, LockType
  <2> QED
    BY <1>9, <2>1 DEF LockTick, LeaseBacked
<1>10. ASSUME UNCHANGED lockVars PROVE LeaseBacked'
  BY <1>10 DEF lockVars, LeaseBacked, Leased
<1>11. ASSUME Flush PROVE LeaseBacked'
  BY <1>11 DEF Flush, LockType, LeaseBacked, Leased
<1> QED
  BY <1>1, <1>2, <1>3, <1>4, <1>5, <1>6, <1>7, <1>8, <1>9, <1>10, <1>11 DEF LockNext

\* The inductive invariant of the lock.
THEOREM LockInvariant == LockSpec => []LockInv
<1>1. LockInit => LockInv
  BY LockInvInit
<1>2. LockInv /\ [LockNext]_lockVars => LockInv'
  BY TypeStep, BackedStep DEF LockInv
<1> QED
  BY <1>1, <1>2, PTL DEF LockSpec

\* Lock::get, LockGuard::release and drop exclude each other's leases for any
\* number of clients, any TTL, dying clients, late drop tasks and flushes.
THEOREM LeasesExclude == LockSpec => []MutualExclusion
<1>1. LockInv => MutualExclusion
  BY DEF LockInv, LockType, LeaseBacked, MutualExclusion, Leased
<1> QED
  BY <1>1, LockInvariant, PTL

\* No step takes a live entry from the client that owns it.
LEMMA OwnerStepHolds ==
  ASSUME LockType, [LockNext]_lockVars
  PROVE  OwnerStep
<1> SUFFICES ASSUME Alive, entry' # entry
             PROVE  /\ entry' = NoToken
                    /\ \/ \E c \in Client : guard[c] = entry /\ guard'[c] = NoToken
                       \/ entry \in tasks /\ entry \notin tasks'
                       \/ Flush
  BY DEF OwnerStep
<1>1. ASSUME NEW c \in Client, Acquire(c) PROVE FALSE
  BY <1>1 DEF Acquire, put_if_absent
<1>2. CASE \E c \in Client : Release(c)
  BY <1>2 DEF Release, compare_and_delete, Unguard, LockType
<1>3. CASE \E t \in Token : DropTask(t)
  BY <1>3 DEF DropTask, compare_and_delete
<1>4. CASE Flush
  BY <1>4 DEF Flush
<1> QED
  BY <1>1, <1>2, <1>3, <1>4
  DEF LockNext, Block, GetFails, AfterMiss, AcquireFails, GuardLost, DropGuard,
      DropTaskLost, LockTick, lockVars

\* compare_and_delete on the owner's token: a guard whose lease has expired, or
\* its late drop task, never removes the lock of the client that came after it,
\* flushed stores included.
THEOREM StaleGuardsDeleteNothing == LockSpec => OnlyOwnerDeletes
<1>1. LockInit => LockType
  BY LockInvInit DEF LockInv
<1>2. LockType /\ [LockNext]_lockVars => LockType'
  BY TypeStep
<1>3. LockType /\ [LockNext]_lockVars => [OwnerStep]_lockVars
  BY OwnerStepHolds
<1> QED
  BY <1>1, <1>2, <1>3, PTL DEF LockSpec, OnlyOwnerDeletes

============================================================================
