--------------------------- MODULE QueueContract ---------------------------
(***************************************************************************)
(* What a queue driver promises a dispatched job, whatever store is behind *)
(* it (the QueueDriver trait of rustasea-queue/src/driver.rs and the loop  *)
(* of driver/worker.rs): a claim gives the job to one worker, its handler  *)
(* starts at most once per claim and only by way of a claim, a verdict is  *)
(* reached once and is final, and a job is lost only by a fault, in one of *)
(* the phases the driver exposes to it.  Nothing takes an abandoned job up *)
(* again: no driver reclaims a reservation.  DatabaseQueue implements this *)
(* with SQL statements and RedisQueue with Redis commands.                 *)
(***************************************************************************)
EXTENDS Naturals

CONSTANTS
  Item,      \* the jobs as the driver tells them apart
  Losable    \* the phases a fault may lose a job in

VARIABLES
  phase,     \* per job: where it is
  runs       \* per job: how often its handler was started

contractVars == <<phase, runs>>

ContractInit ==
  /\ phase = [i \in Item |-> "absent"]
  /\ runs = [i \in Item |-> 0]

Move(i, from, to) ==
  /\ phase[i] = from
  /\ phase' = [phase EXCEPT ![i] = to]

Push(i)    == Move(i, "absent", "waiting") /\ UNCHANGED runs
Claim(i)   == Move(i, "waiting", "claimed") /\ UNCHANGED runs
Start(i)   == Move(i, "claimed", "running") /\ runs' = [runs EXCEPT ![i] = @ + 1]
Refuse(i)  == Move(i, "claimed", "failing") /\ UNCHANGED runs
Retry(i)   == Move(i, "running", "waiting") /\ UNCHANGED runs
Succeed(i) == Move(i, "running", "done") /\ UNCHANGED runs
Fail(i)    == Move(i, "running", "failing") /\ UNCHANGED runs
Bury(i)    == Move(i, "failing", "buried") /\ UNCHANGED runs
Abandon(i) == (\E p \in Losable : Move(i, p, "abandoned")) /\ UNCHANGED runs

ContractNext ==
  \E i \in Item :
    \/ Push(i) \/ Claim(i) \/ Start(i) \/ Refuse(i) \/ Retry(i)
    \/ Succeed(i) \/ Fail(i) \/ Bury(i) \/ Abandon(i)

Contract == ContractInit /\ [][ContractNext]_contractVars

============================================================================
