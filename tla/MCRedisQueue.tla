---------------------------- MODULE MCRedisQueue ----------------------------
(***************************************************************************)
(* Constant values for the runs of RedisQueue that a .cfg cannot write.    *)
(***************************************************************************)
EXTENDS RedisQueue, TLC

CONSTANTS ja, jb

\* ja is retried once, after a backoff of 3 ticks; jb retries at once.
Policies == (ja :> [max_tries |-> 2, backoff |-> 3]) @@
            (jb :> [max_tries |-> 2, backoff |-> 0])

\* The workers are interchangeable.
Symmetric == Permutations(Worker)
=============================================================================
