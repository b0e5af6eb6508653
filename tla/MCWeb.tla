------------------------------- MODULE MCWeb -------------------------------
(***************************************************************************)
(* The parts of the web tier, each on a small instance of its own.  They   *)
(* share no state in this model: `part` says which one a behaviour is      *)
(* about, and the others stay as they began.                               *)
(***************************************************************************)
EXTENDS RateLimiter, SessionFlows, Accounts, Passkeys, Rbac, TLC

CONSTANTS ann, Ann, bob, session1, ip1

VARIABLE part

\* Two spellings of one name, and another name.
MCInputs ==
  {[username |-> n, ip |-> ip1, session_id |-> session1, credential_id |-> Absent] :
      n \in {ann, Ann, bob}}

MCFold == ann :> ann @@ Ann :> ann @@ bob :> bob

MCLimitOf ==
  "login" :> [max_attempts |-> 2, decay_secs |-> 2]
  @@ "two-factor" :> [max_attempts |-> 1, decay_secs |-> 3]

\* Parts take their tasks, ids and names from the same sets, so that one
\* permutation of each permutes them everywhere.
WebSymmetry == Permutations(SRequest) \cup Permutations(Sid) \cup Permutations(Secret)

WebInit ==
  /\ part \in {"rate", "session", "account", "passkey", "rbac"}
  /\ RateInit /\ SessInit /\ AccInit /\ PassInit /\ RbacInit

WebNext ==
  /\ UNCHANGED part
  /\ \/ part = "rate" /\ RateNext /\ UNCHANGED <<sessVars, accVars, passVars, rbacVars>>
     \/ part = "session" /\ SessNext /\ UNCHANGED <<rateVars, accVars, passVars, rbacVars>>
     \/ part = "account" /\ AccNext /\ UNCHANGED <<rateVars, sessVars, passVars, rbacVars>>
     \/ part = "passkey" /\ PassNext /\ UNCHANGED <<rateVars, sessVars, accVars, rbacVars>>
     \/ part = "rbac" /\ RbacNext /\ UNCHANGED <<rateVars, sessVars, accVars, passVars>>

WebSpec == WebInit /\ [][WebNext]_<<part, rateVars, sessVars, accVars, passVars, rbacVars>>

\* The sessions alone.
SessionSpec == part = "session" /\ WebSpec
=============================================================================
