--------------------------- MODULE BatchContract ---------------------------
(***************************************************************************)
(* What a job batch promises (rustasea-queue/src/batch_db.rs, its module   *)
(* and function comments): each job reports one outcome, the batch         *)
(* finishes once, after the last of them, and its completion is announced  *)
(* at most once: `then` only when no job failed, `finally` always.         *)
(* JobBatch implements this with concurrent recorders over one table row.  *)
(***************************************************************************)
EXTENDS FiniteSets

CONSTANT Member      \* the jobs of the batch

VARIABLES
  open,       \* jobs that have not reported an outcome
  failures,   \* jobs that reported a failure
  finished,   \* whether the batch is finished
  announced   \* the completion callbacks that have fired

contractVars == <<open, failures, finished, announced>>

ContractInit ==
  /\ open = Member
  /\ failures = {}
  /\ finished = FALSE
  /\ announced = {}

Succeed(j) ==
  /\ j \in open
  /\ open' = open \ {j}
  /\ UNCHANGED <<failures, finished, announced>>

Fail(j) ==
  /\ j \in open
  /\ open' = open \ {j}
  /\ failures' = failures \cup {j}
  /\ UNCHANGED <<finished, announced>>

Finish ==
  /\ open = {}
  /\ ~ finished
  /\ finished' = TRUE
  /\ UNCHANGED <<open, failures, announced>>

Announce ==
  /\ finished
  /\ announced = {}
  /\ announced' = {"finally"} \cup (IF failures = {} THEN {"then"} ELSE {})
  /\ UNCHANGED <<open, failures, finished>>

ContractNext ==
  \/ \E j \in Member : Succeed(j) \/ Fail(j)
  \/ Finish
  \/ Announce

Contract == ContractInit /\ [][ContractNext]_contractVars

============================================================================
