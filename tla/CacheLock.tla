----------------------------- MODULE CacheLock -----------------------------
(***************************************************************************)
(* The atomic lock of rustasea-cache: Lock and LockGuard (lock.rs) over    *)
(* one key of a store, whose put_if_absent and compare_and_delete are      *)
(* atomic (memory.rs under the map's mutex, redis.rs with SET NX PX and a  *)
(* Lua script).  Locks of different keys share nothing but flush.          *)
(*                                                                         *)
(* Instants are kept as the time left until them, so that behaviours may   *)
(* be infinite: an entry with left = 0 has expired.                        *)
(***************************************************************************)
EXTENDS Integers, FiniteSets

CONSTANTS
  Client,    \* tasks that use the lock
  Token,     \* owner tokens (uuids)
  Ttl,       \* the lease of the lock; 0 is no expiry
  MaxTasks,  \* BOUND: dropped guards whose task has not run
  Wait,      \* the window of block; 0 is a plain get
  LockFaults, \* whether clients die and store calls fail
  NoToken    \* no value

ASSUME LockAssumption ==
  /\ Ttl \in Nat
  /\ Wait \in Nat
  /\ LockFaults \in BOOLEAN
  /\ NoToken \notin Token

VARIABLES
  entry,   \* the entry of the key: its value, NoToken if there is none
  left,    \* time left of the entry
  client,  \* per client: idle, in block (before a get or after a miss), or
           \* holding a guard
  guard,   \* per client: the token of its guard
  wait,    \* per client: time left of the window of its block
  tasks,   \* tokens whose compare_and_delete a dropped guard has spawned
  \* History:
  lease,   \* per client: time left of the lease its guard acquired
  flushed  \* the clients whose lock was flushed under their guard

lockVars == <<entry, left, client, guard, wait, tasks, lease, flushed>>

LockInit ==
  /\ entry = NoToken /\ left = 0
  /\ client = [c \in Client |-> "idle"]
  /\ guard = [c \in Client |-> NoToken]
  /\ wait = [c \in Client |-> 0]
  /\ tasks = {}
  /\ lease = [c \in Client |-> 0]
  /\ flushed = {}

-----------------------------------------------------------------------------
(* The store. *)

\* Mutant: an expired entry counts as long as nobody sweeps it.
Present == entry # NoToken

\* Entry::alive.
Alive == entry # NoToken /\ (left > 0 \/ Ttl = 0)

\* Mutant: the key is overwritten whether it is there or not.
put_always(t) ==
  /\ entry' = t
  /\ left' = Ttl

\* put_if_absent of a key that is absent or expired.
put_if_absent(t) ==
  /\ ~ Alive
  /\ entry' = t
  /\ left' = Ttl

\* Mutant: the key is deleted whatever its value.
delete_any(t) ==
  /\ entry' = NoToken
  /\ UNCHANGED left

\* compare_and_delete.
compare_and_delete(t) ==
  /\ entry' = IF Alive /\ entry = t THEN NoToken ELSE entry
  /\ UNCHANGED left

-----------------------------------------------------------------------------
(* Lock. *)

\* A client calls block (or get, for which Wait is 0).
Block(c) ==
  /\ client[c] = "idle"
  /\ client' = [client EXCEPT ![c] = "waiting"]
  /\ wait' = [wait EXCEPT ![c] = Wait]
  /\ UNCHANGED <<entry, left, guard, tasks, lease, flushed>>

\* BOUND: a uuid may be used again once nothing carries it.
Fresh == {t \in Token : /\ entry # t
                        /\ t \notin tasks
                        /\ \A c \in Client : guard[c] # t}

\* get succeeds.
Acquire(c) ==
  /\ client[c] = "waiting"
  /\ \E t \in Fresh : /\ put_if_absent(t)
                      /\ guard' = [guard EXCEPT ![c] = t]
  /\ client' = [client EXCEPT ![c] = "holding"]
  /\ lease' = [lease EXCEPT ![c] = Ttl]
  /\ flushed' = flushed \ {c}
  /\ UNCHANGED <<wait, tasks>>

\* get finds the key.
GetFails(c) ==
  /\ client[c] = "waiting"
  /\ Alive
  /\ client' = [client EXCEPT ![c] = "missed"]
  /\ UNCHANGED <<entry, left, guard, wait, tasks, lease, flushed>>

\* Mutant: block never looks at the clock.
RetryAlways(c) ==
  /\ client[c] = "missed"
  /\ client' = [client EXCEPT ![c] = "waiting"]
  /\ UNCHANGED <<entry, left, guard, wait, tasks, lease, flushed>>

\* A miss ends in AlreadyHeld once the window has passed, be the key free by
\* then or not; before that the client sleeps and tries again.
AfterMiss(c) ==
  /\ client[c] = "missed"
  /\ client' = [client EXCEPT ![c] = IF wait[c] = 0 THEN "idle" ELSE "waiting"]
  /\ UNCHANGED <<entry, left, guard, wait, tasks, lease, flushed>>

\* The store fails: block returns the error at once.
AcquireFails(c) ==
  /\ LockFaults
  /\ client[c] = "waiting"
  /\ client' = [client EXCEPT ![c] = "idle"]
  /\ UNCHANGED <<entry, left, guard, wait, tasks, lease, flushed>>

\* The guard is marked released; nothing uses its token any more.
Unguard(c) ==
  /\ client' = [client EXCEPT ![c] = "idle"]
  /\ guard' = [guard EXCEPT ![c] = NoToken]

\* LockGuard::release.
Release(c) ==
  /\ client[c] = "holding"
  /\ compare_and_delete(guard[c])
  /\ Unguard(c)
  /\ UNCHANGED <<wait, tasks, lease, flushed>>

\* release marks the guard before the store call: when that fails nobody tries
\* again, not even drop.  A client that dies leaves the key behind too.
GuardLost(c) ==
  /\ LockFaults
  /\ client[c] = "holding"
  /\ Unguard(c)
  /\ UNCHANGED <<entry, left, wait, tasks, lease, flushed>>

\* drop spawns the compare_and_delete ...
DropGuard(c) ==
  /\ client[c] = "holding"
  /\ Cardinality(tasks) < MaxTasks
  /\ tasks' = tasks \cup {guard[c]}
  /\ Unguard(c)
  /\ UNCHANGED <<entry, left, wait, lease, flushed>>

\* ... which runs some time later ...
DropTask(t) ==
  /\ t \in tasks
  /\ compare_and_delete(t)
  /\ tasks' = tasks \ {t}
  /\ UNCHANGED <<client, guard, wait, lease, flushed>>

\* ... or is lost with its runtime, or fails.
DropTaskLost(t) ==
  /\ LockFaults
  /\ t \in tasks
  /\ tasks' = tasks \ {t}
  /\ UNCHANGED <<entry, left, client, guard, wait, lease, flushed>>

\* Repository::flush removes the locks of the store too.
Flush ==
  /\ entry # NoToken
  /\ entry' = NoToken
  /\ flushed' = {c \in Client : client[c] = "holding"}
  /\ UNCHANGED <<left, client, guard, wait, tasks, lease>>

Minus1(n) == IF n > 0 THEN n - 1 ELSE 0

\* Time passes for somebody.
LockTick ==
  /\ \/ left > 0
     \/ \E c \in Client : wait[c] > 0 \/ lease[c] > 0
  /\ left' = Minus1(left)
  /\ wait' = [c \in Client |-> Minus1(wait[c])]
  /\ lease' = [c \in Client |-> Minus1(lease[c])]
  /\ UNCHANGED <<entry, client, guard, tasks, flushed>>

LockNext ==
  \/ \E c \in Client :
       \/ Block(c) \/ Acquire(c) \/ GetFails(c) \/ AfterMiss(c)
       \/ AcquireFails(c)
       \/ Release(c) \/ GuardLost(c) \/ DropGuard(c)
  \/ \E t \in Token : DropTask(t) \/ DropTaskLost(t)
  \/ Flush
  \/ LockTick

LockSpec == LockInit /\ [][LockNext]_lockVars

\* Time passes, block polls on, spawned tasks are run.
LockFairness ==
  /\ WF_lockVars(LockTick)
  /\ \A c \in Client : WF_lockVars(Acquire(c) \/ GetFails(c) \/ AfterMiss(c))
  /\ \A t \in Token : WF_lockVars(DropTask(t))
LockFairSpec == LockSpec /\ LockFairness

-----------------------------------------------------------------------------
(* Properties. *)

\* Every variable stays in its set, and a client has a token exactly while it
\* holds a guard.
LockType ==
  /\ entry \in Token \cup {NoToken}
  /\ left \in 0 .. Ttl
  /\ client \in [Client -> {"idle", "waiting", "missed", "holding"}]
  /\ guard \in [Client -> Token \cup {NoToken}]
  /\ \A c \in Client : guard[c] # NoToken <=> client[c] = "holding"
  /\ wait \in [Client -> 0 .. Wait]
  /\ tasks \subseteq Token
  /\ lease \in [Client -> 0 .. Ttl]
  /\ flushed \subseteq Client

\* A guard whose lease has not run out, and whose lock was not flushed.
Leased(c) ==
  /\ client[c] = "holding"
  /\ lease[c] > 0 \/ Ttl = 0
  /\ c \notin flushed

\* "A named mutual-exclusion lease" (lock.rs): two guards within their lease
\* never coexist, whatever stale guards, late drop tasks and dead clients do;
\* only a flush of the store takes a lease away.
MutualExclusion ==
  \A c, d \in Client : Leased(c) /\ Leased(d) => c = d

\* Why: a guard within its lease owns the entry, which expires no earlier than
\* the lease, and tokens are not shared.
LeaseBacked ==
  /\ \A c \in Client : Leased(c) => entry = guard[c] /\ left = lease[c]
  /\ \A c, d \in Client : client[c] = "holding" /\ guard[c] = guard[d] => c = d
  /\ \A c \in Client : guard[c] \notin tasks

LockInv == LockType /\ LeaseBacked

\* "a holder whose lease expired and was re-acquired elsewhere can never delete
\* the new owner's lock" (lock.rs): a live entry disappears only by its owner's
\* release, the task of its owner's guard, or a flush.
OwnerStep ==
  Alive /\ entry' # entry =>
    /\ entry' = NoToken
    /\ \/ \E c \in Client : guard[c] = entry /\ guard'[c] = NoToken
       \/ entry \in tasks /\ entry \notin tasks'
       \/ Flush
OnlyOwnerDeletes == [][OwnerStep]_lockVars

\* "a crashed holder cannot deadlock the section" (lock.rs): an entry does not
\* live for ever.
LeaseEnds == []<>(~ Alive)

\* block returns, with a guard or with AlreadyHeld.
BlockReturns ==
  \A c \in Client : client[c] = "waiting" ~> client[c] \in {"idle", "holding"}

============================================================================
