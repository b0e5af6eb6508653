----------------------------- MODULE JobPolicy -----------------------------
(***************************************************************************)
(* The retry policy of a job (rustasea-queue/src/policy.rs) and the single *)
(* attempt that ConcreteJob::run (rustasea-queue/src/job.rs) makes under   *)
(* it.  A policy is a record [max_tries, backoff] of naturals; the         *)
(* per-attempt timeout only decides whether a handler ends in an error, so *)
(* it is one of the results a handler can have.                            *)
(***************************************************************************)
EXTENDS Integers

Policy == [max_tries : Nat, backoff : Nat]

\* Exponent guard of the doubling (policy.rs MAX_BACKOFF_SHIFT).
MaxBackoffShift == 30

\* The provers do not evaluate powers; the doubling factors are naturals.
ASSUME FactorAssumption == \A s \in 0 .. MaxBackoffShift : 2^s \in Nat

\* Mutant: the bound compared inclusively.
allows_retry_inclusive(p, attempts) == attempts <= p.max_tries

\* JobPolicy::allows_retry: attempts is the number of attempts started.
allows_retry(p, attempts) == attempts < p.max_tries

\* JobPolicy::delay_for_attempt: the base delay, doubled for every failed
\* attempt after the first, the exponent capped.
delay_for_attempt(p, failedAttempt) ==
  IF p.backoff = 0 \/ failedAttempt <= 1
  THEN p.backoff
  ELSE LET shift == IF failedAttempt - 1 < MaxBackoffShift
                    THEN failedAttempt - 1 ELSE MaxBackoffShift
       IN  p.backoff * 2^shift

\* What a handler can do in one attempt: return Ok, be suppressed before it
\* starts (a missing model), return Err, or run past its timeout.
HandlerResult == {"ok", "suppressed", "err", "timeout"}

\* ConcreteJob::run: the outcome of one attempt.  The erased job is rebuilt
\* from its payload for every attempt and does not know how many attempts
\* came before, so it always asks whether a retry after attempt 1 is allowed.
run(p, result) ==
  CASE result = "ok"         -> "Succeeded"
    [] result = "suppressed" -> "Skipped"
    [] OTHER -> IF allows_retry(p, 1) THEN "Retrying" ELSE "Failed"

\* The arms of worker::process_one: what the worker does with the outcome,
\* given the attempt count the driver reported for the payload.
disposition(p, attempts, outcome) ==
  CASE outcome \in {"Succeeded", "Skipped"} -> "ack"
    [] outcome = "Retrying" /\ allows_retry(p, attempts) -> "release"
    [] OTHER -> "dead_letter"

============================================================================
