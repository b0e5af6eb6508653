----------------------------- MODULE RedisQueue -----------------------------
(***************************************************************************)
(* The Redis queue of rustasea-queue: the pending list, the delayed and    *)
(* the reserved sorted set, the pending_times index and the dead letters   *)
(* of RedisDriver (driver/redis.rs) under the workers of driver/worker.rs. *)
(*                                                                         *)
(* Every Redis command is one step: Redis runs a command atomically and    *)
(* the driver uses neither MULTI nor scripts.  One queue is modelled, the  *)
(* queues sharing no key but the dead letters.  Every job has a handler    *)
(* and is dispatched once, and release raises attempts, so <<job,          *)
(* attempts>> stands for the uuid that push gives a payload.               *)
(***************************************************************************)
EXTENDS JobPolicy, Sequences, FiniteSets

CONSTANTS
  Job,             \* the jobs dispatched to the queue
  PolicyOf,        \* Job -> Policy
  Delays,          \* the delays a dispatch may ask for
  Worker,          \* worker processes
  TicksPerSecond,  \* the resolution of the clock; scores are whole seconds
  Faults,          \* whether processes die between two commands
  None             \* no value

\* A serialized JobPayload.  One without available_at is available when pushed.
Payload == [job : Job, attempts : Nat, available_at : Nat]

ASSUME RedisAssumption ==
  /\ PolicyOf \in [Job -> Policy]
  /\ Delays \subseteq Nat
  /\ TicksPerSecond \in Nat \ {0}
  /\ Faults \in BOOLEAN
  /\ None \notin Payload

VARIABLES
  now,        \* the clock, in ticks
  list,       \* <queue>: pending payloads, newest first
  delayed,    \* <queue>:delayed, its members; the score is their second
  reserved,   \* <queue>:reserved, its members; nothing reads the score
  times,      \* <queue>:pending_times, its members (ids)
  failed,     \* failed: the ids dead-lettered
  push_pc,    \* per job: where its dispatch is in push
  pc,         \* per worker: where it is in pop, process_one or release
  due,        \* per worker: the members promote_due still has to move
  held,       \* per worker: the payload it moves or runs
  \* History:
  ran,        \* handler starts per job
  done        \* the jobs whose handler ended in Succeeded or Skipped

store   == <<list, delayed, reserved, times, failed>>
workers == <<pc, due, held>>
vars == <<now, list, delayed, reserved, times, failed, push_pc, pc, due, held, ran, done>>

\* timestamp(): the whole second an instant lies in.
Second(t) == t \div TicksPerSecond
Id(p) == <<p.job, p.attempts>>

PushPc == {"new", "time", "sent"}

\* idle: between two pops.
WorkerPc == {"idle", "promote", "promote_push", "promote_time",
             "popped", "reserve", "claimed", "running",
             "ack", "ack_time", "dead_letter", "dead_time",
             "release", "release_time", "push", "push_time"}

Init ==
  /\ now = 0
  /\ list = <<>> /\ delayed = {} /\ reserved = {} /\ times = {} /\ failed = {}
  /\ push_pc = [j \in Job |-> "new"]
  /\ pc = [w \in Worker |-> "idle"]
  /\ due = [w \in Worker |-> {}]
  /\ held = [w \in Worker |-> None]
  /\ ran = [j \in Job |-> 0]
  /\ done = {}

-----------------------------------------------------------------------------
(* push. *)

\* A payload in the future goes to the delayed set and that is all; any other
\* is LPUSHed, and indexed in a command of its own.
PushDelayed(p) ==
  /\ p.available_at > now
  /\ delayed' = delayed \cup {p}
  /\ UNCHANGED list
PushNow(p) ==
  /\ p.available_at <= now
  /\ list' = <<p>> \o list
  /\ UNCHANGED delayed

\* The dispatch of a job: the ZADD or the LPUSH of push ...
Dispatch(j) ==
  /\ push_pc[j] = "new"
  /\ \E delay \in Delays :
       LET p == [job |-> j, attempts |-> 1, available_at |-> now + delay]
       IN  \/ PushDelayed(p) /\ push_pc' = [push_pc EXCEPT ![j] = "sent"]
           \/ PushNow(p) /\ push_pc' = [push_pc EXCEPT ![j] = "time"]
  /\ UNCHANGED <<now, reserved, times, failed, workers, ran, done>>

\* ... and the ZADD of the pending time.
DispatchTime(j) ==
  /\ push_pc[j] = "time"
  /\ times' = times \cup {<<j, 1>>}
  /\ push_pc' = [push_pc EXCEPT ![j] = "sent"]
  /\ UNCHANGED <<now, list, delayed, reserved, failed, workers, ran, done>>

\* The dispatcher dies before the index is written.
DispatchDies(j) ==
  /\ Faults
  /\ push_pc[j] = "time"
  /\ push_pc' = [push_pc EXCEPT ![j] = "sent"]
  /\ UNCHANGED <<now, store, workers, ran, done>>

-----------------------------------------------------------------------------
(* pop. *)

\* Mutant: the range reads one second too far.
DueEarly(p) == Second(p.available_at) <= Second(now) + 1

\* Whether ZRANGEBYSCORE -inf now returns a member.
Due(p) == Second(p.available_at) <= Second(now)

\* Mutant: delayed members are looked at only while the list has a payload.
PromoteIfListed(w) ==
  /\ pc[w] = "idle"
  /\ due' = [due EXCEPT ![w] = IF list = <<>> THEN {} ELSE {p \in delayed : Due(p)}]
  /\ pc' = [pc EXCEPT ![w] = "promote"]
  /\ UNCHANGED <<now, store, push_pc, held, ran, done>>

\* promote_due: ZRANGEBYSCORE.
PromoteRange(w) ==
  /\ pc[w] = "idle"
  /\ due' = [due EXCEPT ![w] = {p \in delayed : Due(p)}]
  /\ pc' = [pc EXCEPT ![w] = "promote"]
  /\ UNCHANGED <<now, store, push_pc, held, ran, done>>

\* Mutant: the member is pushed whoever removed it.
PromoteUnchecked(w) ==
  /\ pc[w] = "promote"
  /\ \E p \in due[w] :
       /\ due' = [due EXCEPT ![w] = @ \ {p}]
       /\ delayed' = delayed \ {p}
       /\ held' = [held EXCEPT ![w] = p]
       /\ pc' = [pc EXCEPT ![w] = "promote_push"]
  /\ UNCHANGED <<now, list, reserved, times, failed, push_pc, ran, done>>

\* ZREM of the next member, in the order of the scores: only the worker whose
\* ZREM removed it goes on to push it.
PromoteRemove(w) ==
  /\ pc[w] = "promote"
  /\ \E p \in due[w] :
       /\ \A q \in due[w] : Second(p.available_at) <= Second(q.available_at)
       /\ due' = [due EXCEPT ![w] = @ \ {p}]
       /\ delayed' = delayed \ {p}
       /\ IF p \in delayed
          THEN /\ held' = [held EXCEPT ![w] = p]
               /\ pc' = [pc EXCEPT ![w] = "promote_push"]
          ELSE UNCHANGED <<held, pc>>
  /\ UNCHANGED <<now, list, reserved, times, failed, push_pc, ran, done>>

\* The LPUSH of the member that was removed ...
PromotePush(w) ==
  /\ pc[w] = "promote_push"
  /\ list' = <<held[w]>> \o list
  /\ pc' = [pc EXCEPT ![w] = "promote_time"]
  /\ UNCHANGED <<now, delayed, reserved, times, failed, push_pc, due, held, ran, done>>

\* Mutant: a promoted payload is not indexed.
PromoteSkipsTime(w) ==
  /\ pc[w] = "promote_time"
  /\ pc' = [pc EXCEPT ![w] = "promote"]
  /\ held' = [held EXCEPT ![w] = None]
  /\ UNCHANGED <<now, store, push_pc, due, ran, done>>

\* ... and the ZADD of its pending time.
PromoteTime(w) ==
  /\ pc[w] = "promote_time"
  /\ times' = times \cup {Id(held[w])}
  /\ held' = [held EXCEPT ![w] = None]
  /\ pc' = [pc EXCEPT ![w] = "promote"]
  /\ UNCHANGED <<now, list, delayed, reserved, failed, push_pc, due, ran, done>>

\* BRPOP takes the oldest payload ...
BrPop(w) ==
  /\ pc[w] = "promote" /\ due[w] = {}
  /\ list # <<>>
  /\ held' = [held EXCEPT ![w] = list[Len(list)]]
  /\ list' = SubSeq(list, 1, Len(list) - 1)
  /\ pc' = [pc EXCEPT ![w] = "popped"]
  /\ UNCHANGED <<now, delayed, reserved, times, failed, push_pc, due, ran, done>>

\* ... or times out: pop returns None.
PopTimeout(w) ==
  /\ pc[w] = "promote" /\ due[w] = {}
  /\ list = <<>>
  /\ pc' = [pc EXCEPT ![w] = "idle"]
  /\ UNCHANGED <<now, store, push_pc, due, held, ran, done>>

\* A ZREM of the pending time of the held payload.
ZremTime(w) == times' = times \ {Id(held[w])}

PopTime(w) ==
  /\ pc[w] = "popped"
  /\ ZremTime(w)
  /\ pc' = [pc EXCEPT ![w] = "reserve"]
  /\ UNCHANGED <<now, list, delayed, reserved, failed, push_pc, due, held, ran, done>>

Reserve(w) ==
  /\ pc[w] = "reserve"
  /\ reserved' = reserved \cup {held[w]}
  /\ pc' = [pc EXCEPT ![w] = "claimed"]
  /\ UNCHANGED <<now, list, delayed, times, failed, push_pc, due, held, ran, done>>

-----------------------------------------------------------------------------
(* process_one. *)

StartRun(w) ==
  /\ pc[w] = "claimed"
  /\ ran' = [ran EXCEPT ![held[w].job] = @ + 1]
  /\ pc' = [pc EXCEPT ![w] = "running"]
  /\ UNCHANGED <<now, store, push_pc, due, held, done>>

\* The handler ends with some result and the match picks an arm.
FinishRun(w) ==
  /\ pc[w] = "running"
  /\ \E result \in HandlerResult :
       LET p == held[w]
           arm == disposition(PolicyOf[p.job], p.attempts, run(PolicyOf[p.job], result))
       IN  /\ pc' = [pc EXCEPT ![w] = arm]
           /\ done' = IF arm = "ack" THEN done \cup {p.job} ELSE done
  /\ UNCHANGED <<now, store, push_pc, due, held, ran>>

\* dead_letter: LPUSH the dead letter, ZREM its pending time; process_one goes
\* on to ack.
DeadLetter(w) ==
  /\ pc[w] = "dead_letter"
  /\ failed' = failed \cup {Id(held[w])}
  /\ pc' = [pc EXCEPT ![w] = "dead_time"]
  /\ UNCHANGED <<now, list, delayed, reserved, times, push_pc, due, held, ran, done>>

DeadTime(w) ==
  /\ pc[w] = "dead_time"
  /\ ZremTime(w)
  /\ pc' = [pc EXCEPT ![w] = "ack"]
  /\ UNCHANGED <<now, list, delayed, reserved, failed, push_pc, due, held, ran, done>>

\* ack, by itself or as the head of release: ZREM the reservation ...
AckReserved(w) ==
  /\ pc[w] \in {"ack", "release"}
  /\ reserved' = reserved \ {held[w]}
  /\ pc' = [pc EXCEPT ![w] = IF @ = "ack" THEN "ack_time" ELSE "release_time"]
  /\ UNCHANGED <<now, list, delayed, times, failed, push_pc, due, held, ran, done>>

\* Mutant: release ends with the ack.
AckOnly(w) ==
  /\ pc[w] \in {"ack_time", "release_time"}
  /\ ZremTime(w)
  /\ pc' = [pc EXCEPT ![w] = "idle"]
  /\ held' = [held EXCEPT ![w] = None]
  /\ UNCHANGED <<now, list, delayed, reserved, failed, push_pc, due, ran, done>>

\* ... and ZREM the pending time.
AckTime(w) ==
  /\ pc[w] \in {"ack_time", "release_time"}
  /\ ZremTime(w)
  /\ IF pc[w] = "ack_time"
     THEN /\ pc' = [pc EXCEPT ![w] = "idle"]
          /\ held' = [held EXCEPT ![w] = None]
     ELSE /\ pc' = [pc EXCEPT ![w] = "push"]
          /\ UNCHANGED held
  /\ UNCHANGED <<now, list, delayed, reserved, failed, push_pc, due, ran, done>>

\* The payload release pushes: one attempt on, after the backoff.
RetryOf(p) ==
  [p EXCEPT !.attempts = @ + 1,
            !.available_at = now + delay_for_attempt(PolicyOf[p.job], p.attempts)]

\* The push of release.
ReleasePush(w) ==
  /\ pc[w] = "push"
  /\ LET p == RetryOf(held[w])
     IN  \/ /\ PushDelayed(p)
            /\ pc' = [pc EXCEPT ![w] = "idle"]
            /\ held' = [held EXCEPT ![w] = None]
         \/ /\ PushNow(p)
            /\ pc' = [pc EXCEPT ![w] = "push_time"]
            /\ held' = [held EXCEPT ![w] = p]
  /\ UNCHANGED <<now, reserved, times, failed, push_pc, due, ran, done>>

ReleaseTime(w) ==
  /\ pc[w] = "push_time"
  /\ times' = times \cup {Id(held[w])}
  /\ pc' = [pc EXCEPT ![w] = "idle"]
  /\ held' = [held EXCEPT ![w] = None]
  /\ UNCHANGED <<now, list, delayed, reserved, failed, push_pc, due, ran, done>>

\* The worker dies, or a command fails and `?` ends it, and it starts again.
WorkerDies(w) ==
  /\ Faults
  /\ pc[w] # "idle"
  /\ pc' = [pc EXCEPT ![w] = "idle"]
  /\ due' = [due EXCEPT ![w] = {}]
  /\ held' = [held EXCEPT ![w] = None]
  /\ UNCHANGED <<now, store, push_pc, ran, done>>

-----------------------------------------------------------------------------

\* BOUND: the clock moves only while a delayed payload waits for it.
Tick ==
  /\ \E p \in delayed : p.available_at > now
  /\ now' = now + 1
  /\ UNCHANGED <<store, push_pc, workers, ran, done>>

\* What a worker does by itself: every step but dying.
WorkerStep(w) ==
  \/ PromoteRange(w) \/ PromoteRemove(w) \/ PromotePush(w) \/ PromoteTime(w)
  \/ BrPop(w) \/ PopTimeout(w) \/ PopTime(w) \/ Reserve(w)
  \/ StartRun(w) \/ FinishRun(w)
  \/ DeadLetter(w) \/ DeadTime(w) \/ AckReserved(w) \/ AckTime(w)
  \/ ReleasePush(w) \/ ReleaseTime(w)

Next ==
  \/ \E j \in Job : Dispatch(j) \/ DispatchTime(j) \/ DispatchDies(j)
  \/ \E w \in Worker : WorkerStep(w) \/ WorkerDies(w)
  \/ Tick

Spec == Init /\ [][Next]_vars

\* Dispatches that began go on, workers poll and time passes.
Fairness ==
  /\ WF_vars(Tick)
  /\ \A j \in Job : WF_vars(DispatchTime(j))
  /\ \A w \in Worker : WF_vars(WorkerStep(w))
FairSpec == Spec /\ Fairness

-----------------------------------------------------------------------------
(* Properties. *)

Listed == {list[i] : i \in 1 .. Len(list)}

\* A worker between taking a payload out of one key and putting it into the
\* next: while it lasts the payload is in no key.
Moving(w) == pc[w] \in {"promote_push", "popped", "reserve", "release_time", "push"}
Moved == {held[w] : w \in {v \in Worker : Moving(v)}}

\* A worker that runs or finalizes a payload.
Processing(w) == pc[w] \in {"claimed", "running", "ack", "release", "dead_letter", "dead_time"}

\* Every variable stays in its set, and a worker has a payload exactly while it
\* moves or runs one.
TypeOK ==
  /\ now \in Nat
  /\ list \in Seq(Payload)
  /\ delayed \subseteq Payload
  /\ reserved \subseteq Payload
  /\ times \subseteq Job \X Nat
  /\ failed \subseteq Job \X Nat
  /\ push_pc \in [Job -> PushPc]
  /\ pc \in [Worker -> WorkerPc]
  /\ due \in [Worker -> SUBSET Payload]
  /\ held \in [Worker -> Payload \cup {None}]
  /\ \A w \in Worker : held[w] = None <=> pc[w] \in {"idle", "promote"}
  /\ ran \in [Job -> Nat]
  /\ done \subseteq Job

\* A job is in the queue once: promoting, popping and releasing never leave
\* two payloads of it, whatever workers race in promote_due and wherever they
\* die.  What a worker runs and finalizes is what it alone reserved.
OneCopy ==
  /\ \A i, k \in 1 .. Len(list) : list[i].job = list[k].job => i = k
  /\ \A p, q \in delayed \cup reserved \cup Moved \cup Listed : p.job = q.job => p = q
  /\ \A p \in Listed : p \notin delayed \cup reserved \cup Moved
  /\ \A p \in delayed : p \notin reserved \cup Moved
  /\ \A p \in reserved : p \notin Moved
  /\ \A v, w \in Worker : Moving(v) /\ Moving(w) /\ held[v] = held[w] => v = w
  /\ \A v, w \in Worker : Processing(v) =>
       /\ held[v] \in reserved
       /\ Processing(w) /\ held[v] = held[w] => v = w

\* A dispatched job is in a key, moving between two of them, or settled.
\* Without deaths no job is lost.
NothingLost ==
  \A j \in Job : push_pc[j] # "new" =>
    \/ \E p \in Listed \cup delayed \cup reserved \cup Moved : p.job = j
    \/ j \in done
    \/ \E id \in failed : id[1] = j

\* Handlers start neither more often nor earlier than the job's policy says:
\* at most max_tries times (policy.rs), deaths of its workers included, and a
\* payload leaves the delayed set less than a second before its available_at
\* (scores are whole seconds, which push and promote_due both round down).
PolicyHonoured ==
  /\ \A j \in Job :
        ran[j] <= LET m == PolicyOf[j].max_tries IN IF m = 0 THEN 1 ELSE m
  /\ \A p \in Listed \cup reserved : p.available_at < now + TicksPerSecond

\* Every job settles, if no worker dies.
EveryJobSettles ==
  \A j \in Job : push_pc[j] # "new" ~> j \in done \/ \E id \in failed : id[1] = j

\* pending_times mirrors the list for creation_time_of_oldest_pending_job: a
\* listed payload is indexed, or whoever pushed it is about to index it, however
\* pops and acknowledgements of other payloads interleave.
PendingIndexed ==
  \A p \in Listed :
    \/ Id(p) \in times
    \/ p.attempts = 1 /\ push_pc[p.job] = "time"
    \/ \E w \in Worker : pc[w] \in {"promote_time", "push_time"} /\ held[w] = p

-----------------------------------------------------------------------------
(* What the driver promises: module QueueContract. *)

\* The phase of the payload a worker has, by where the worker is: BRPOP claims
\* it and the push of release lets it wait again.
Stage(p) ==
  IF p = "promote_push" THEN "waiting"
  ELSE IF p \in {"popped", "reserve", "claimed"} THEN "claimed"
  ELSE IF p \in {"running", "release", "release_time", "push"} THEN "running"
  ELSE IF p = "dead_letter" THEN "failing"
  ELSE "none"
At(j, stage) == \E w \in Worker : Stage(pc[w]) = stage /\ held[w].job = j

\* The phase of a job.  A verdict counts from the step that reaches it.  What is
\* in no key, or reserved while no worker has it, is abandoned.
Queued(j) == \E p \in Listed \cup delayed : p.job = j
Buried(j) == \E id \in failed : id[1] = j
Phase(j) ==
  IF push_pc[j] = "new" THEN "absent"
  ELSE IF j \in done THEN "done"
  ELSE IF Buried(j) THEN "buried"
  ELSE IF Queued(j) \/ At(j, "waiting") THEN "waiting"
  ELSE IF At(j, "claimed") THEN "claimed"
  ELSE IF At(j, "running") THEN "running"
  ELSE IF At(j, "failing") THEN "failing"
  ELSE "abandoned"

\* A worker that dies in promote_due loses a job that still waits.
Losable == IF Faults THEN {"waiting", "claimed", "running", "failing"} ELSE {}

ContractOf == INSTANCE QueueContract WITH
  Item <- Job, Losable <- Losable, phase <- [j \in Job |-> Phase(j)], runs <- ran

\* The commands of push, promote_due, pop, release, dead_letter and ack,
\* interleaved with those of other workers and cut off by deaths anywhere, do
\* to each job what QueueContract lets a driver do.
ImplementsContract == ContractOf!Contract

=============================================================================
