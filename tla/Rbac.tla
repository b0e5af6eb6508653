-------------------------------- MODULE Rbac --------------------------------
(***************************************************************************)
(* The role registry of rustasea-auth (rbac/registry.rs) and the cache     *)
(* store it may front its permission lookups with.                         *)
(*                                                                         *)
(* A mutation takes the registry by &mut, so it never runs while a lookup, *)
(* which borrows the registry across its two store calls, is under way.    *)
(* The registry is memory: a restart empties it and its generation begins  *)
(* at zero again, while the store (Redis) keeps its entries.               *)
(***************************************************************************)
EXTENDS Naturals, FiniteSets

CONSTANTS
  Member,          \* users that hold roles
  Role,            \* role names
  Permission,      \* permission names
  Lookup,          \* tasks that look permissions up
  MaxGeneration,   \* BOUND: mutations between two starts
  MaxStart,        \* BOUND: starts
  Undefined        \* no role, no entry

VARIABLES
  roles,         \* role -> its permissions, or Undefined
  catalog,       \* the defined permission names
  user_roles,    \* user -> assigned role names
  generation,    \* counts the mutations
  store,         \* user -> [generation, permissions, start], or Undefined
  lookup,        \* per task: the lookup it is in
  start          \* how often the process has started; no code reads it

rbacVars == <<roles, catalog, user_roles, generation, store, lookup, start>>

LIdle == [pc |-> "idle"]

RbacInit ==
  /\ roles = [r \in Role |-> Undefined]
  /\ catalog = {}
  /\ user_roles = [u \in Member |-> {}]
  /\ generation = 0
  /\ store = [u \in Member |-> Undefined]
  /\ lookup = [l \in Lookup |-> LIdle]
  /\ start = 1

-----------------------------------------------------------------------------
(* Mutations. *)

Exclusive == \A l \in Lookup : lookup[l] = LIdle

\* Mutant: a mutation that keeps the generation.
bump_lost == UNCHANGED generation

bump ==
  /\ generation < MaxGeneration
  /\ generation' = generation + 1

\* A new or a replaced role has the permissions it was built with.
define_role(r, granted) ==
  /\ roles' = [roles EXCEPT ![r] = granted]
  /\ bump
  /\ UNCHANGED <<catalog, user_roles>>

define_permission(p) ==
  /\ catalog' = catalog \cup {p}
  /\ bump
  /\ UNCHANGED <<roles, user_roles>>

grant_permission_to_role(r, p) ==
  /\ p \in catalog /\ roles[r] # Undefined
  /\ roles' = [roles EXCEPT ![r] = @ \cup {p}]
  /\ bump
  /\ UNCHANGED <<catalog, user_roles>>

revoke_permission_from_role(r, p) ==
  /\ roles[r] # Undefined
  /\ roles' = [roles EXCEPT ![r] = @ \ {p}]
  /\ bump
  /\ UNCHANGED <<catalog, user_roles>>

assign_role(u, r) ==
  /\ roles[r] # Undefined
  /\ user_roles' = [user_roles EXCEPT ![u] = @ \cup {r}]
  /\ bump
  /\ UNCHANGED <<roles, catalog>>

\* A role the user does not have changes nothing, the generation included.
remove_role(u, r) ==
  /\ r \in user_roles[u]
  /\ user_roles' = [user_roles EXCEPT ![u] = @ \ {r}]
  /\ bump
  /\ UNCHANGED <<roles, catalog>>

sync_roles(u, rs) ==
  /\ \A r \in rs : roles[r] # Undefined
  /\ user_roles' = [user_roles EXCEPT ![u] = rs]
  /\ bump
  /\ UNCHANGED <<roles, catalog>>

Mutate ==
  /\ Exclusive
  /\ \/ \E r \in Role, granted \in SUBSET Permission : define_role(r, granted)
     \/ \E p \in Permission : define_permission(p)
     \/ \E r \in Role, p \in Permission :
           grant_permission_to_role(r, p) \/ revoke_permission_from_role(r, p)
     \/ \E u \in Member, r \in Role : assign_role(u, r) \/ remove_role(u, r)
     \/ \E u \in Member, rs \in SUBSET Role : sync_roles(u, rs)
  /\ UNCHANGED <<store, lookup, start>>

-----------------------------------------------------------------------------
(* Lookups. *)

permissions_for(u) == UNION {roles[r] : r \in {r \in user_roles[u] : roles[r] # Undefined}}

\* An entry of the generation the lookup loaded is the answer.
accepted(u) == store[u] # Undefined /\ store[u].generation = generation

\* permissions_for_cached up to its get.  A hit ends it; a miss, a store error
\* and an entry of another generation go on to the put.
LookupGet(l, u) ==
  /\ lookup[l] = LIdle
  /\ lookup' = [lookup EXCEPT ![l] = [pc |-> "put", user |-> u,
                    entry |-> [generation |-> generation, permissions |-> permissions_for(u),
                               start |-> start]]]
  /\ UNCHANGED <<roles, catalog, user_roles, generation, store, start>>

\* The put, whose failure is ignored.
LookupPut(l) ==
  /\ lookup[l] # LIdle
  /\ lookup' = [lookup EXCEPT ![l] = LIdle]
  /\ \/ store' = [store EXCEPT ![lookup[l].user] = lookup[l].entry]
     \/ UNCHANGED store
  /\ UNCHANGED <<roles, catalog, user_roles, generation, start>>

\* forget_cached_permissions, or the end of the entry's TTL.
forget_cached_permissions(u) ==
  /\ store[u] # Undefined
  /\ store' = [store EXCEPT ![u] = Undefined]
  /\ UNCHANGED <<roles, catalog, user_roles, generation, lookup, start>>

Restart ==
  /\ start < MaxStart
  /\ roles' = [r \in Role |-> Undefined]
  /\ catalog' = {}
  /\ user_roles' = [u \in Member |-> {}]
  /\ generation' = 0
  /\ lookup' = [l \in Lookup |-> LIdle]
  /\ start' = start + 1
  /\ UNCHANGED store

RbacNext ==
  \/ Mutate
  \/ \E l \in Lookup, u \in Member : LookupGet(l, u)
  \/ \E l \in Lookup : LookupPut(l)
  \/ \E u \in Member : forget_cached_permissions(u)
  \/ Restart

RbacSpec == RbacInit /\ [][RbacNext]_rbacVars

-----------------------------------------------------------------------------
\* What a lookup would take from the store is what the registry would
\* compute, whatever lookups were under way when roles changed
\* (permissions_for_cached).  An entry of an earlier start is excepted: its
\* generation may coincide with one of this start.
CachedGrantsCurrent ==
  \A u \in Member :
     accepted(u) /\ store[u].start = start => store[u].permissions = permissions_for(u)
=============================================================================
