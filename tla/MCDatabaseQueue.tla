-------------------------- MODULE MCDatabaseQueue --------------------------
(***************************************************************************)
(* Constant values for the runs of DatabaseQueue that a .cfg cannot write. *)
(***************************************************************************)
EXTENDS DatabaseQueue, TLC

CONSTANTS ju, jn   \* a unique job and one that is not

\* ju is retried once, after a backoff of 1; jn has a single attempt.
Policies == (ju :> [max_tries |-> 2, backoff |-> 1]) @@
            (jn :> [max_tries |-> 1, backoff |-> 0])

\* Three attempts, backoff 1 then 2.
PatientPolicies == (ju :> [max_tries |-> 3, backoff |-> 1]) @@
                   (jn :> [max_tries |-> 0, backoff |-> 1])

\* One queue per job, and a worker that drains both.
Queues == (ju :> "high") @@ (jn :> "low")
BothQueues == <<"high", "low">>

OneQueue == (ju :> "default") @@ (jn :> "default")
DefaultQueue == <<"default">>

\* The processes of a kind and the row ids are interchangeable.
Symmetric == Permutations(Worker) \cup Permutations(RowId) \cup Permutations(FailedId)
============================================================================
