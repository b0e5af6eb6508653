---------------------------- MODULE MCFramework ----------------------------
(***************************************************************************)
(* The parts of the framework, each on a small instance of its own.  They  *)
(* share no state in this model: `part` says which one a behaviour is      *)
(* about, and the others stay as they began.                               *)
(***************************************************************************)
EXTENDS Scheduler, CacheRepository, Migrator, Foundation, ModelOps, Broadcast

CONSTANTS m1, m2, m3, s1, s2, news, room

VARIABLE part

\* One command crosses a change of its zone's offset, the other runs on days
\* of the week and may not overlap itself.
PartOf(k, a, b, n) == <<[kind |-> k, lo |-> a, hi |-> b, step |-> n]>>
Every == PartOf("star", 0, 0, 0)
Only(n) == PartOf("one", n, n, 0)

MCCommands ==
  "zoned" :> [fields |-> <<PartOf("from", 0, 0, 2), PartOf("range", 0, 1, 0), Every, Every, Every>>,
              zone |-> [at |-> 4, before |-> 2, after |-> 0], skip_if_running |-> FALSE]
  @@ "weekly" :> [fields |-> <<Only(1), PartOf("star", 0, 0, 2), Only(1) \o Only(2), Every, Only(1)>>,
                  zone |-> NoZone, skip_if_running |-> TRUE]

MCMigrations == <<m1, m2, m3>>

\* Every graph of four providers that do not depend on themselves, and every
\* graph of three, self-dependencies and an unknown name included, in which
\* the first provider also answers to the third one's name.
Others(i, s) == {IF j >= i THEN j + 1 ELSE j : j \in s}
MCApplications ==
  {[i \in 1 .. 4 |-> [names |-> {i}, dependencies |-> Others(i, d[i])]] :
      d \in [1 .. 4 -> SUBSET (1 .. 3)]}
  \cup {[i \in 1 .. 3 |-> [names |-> IF i = 1 THEN {1, 3} ELSE {i}, dependencies |-> d[i]]] :
      d \in [1 .. 3 -> SUBSET (1 .. 4)]}
  \cup {<<>>}

MCAllowed == {<<s1, room>>}

\* The tasks of all parts are the same two values, so one permutation swaps
\* them everywhere.
FrameworkSymmetry == Permutations(Writer) \cup Permutations(CKey)

FrameworkInit ==
  /\ part \in {"schedule", "cache", "migrate", "boot", "model", "broadcast"}
  /\ SchedInit
  /\ CacheInit /\ (part # "cache" => driver = "memory")
  /\ MigInit /\ (part # "migrate" => dialect = "sqlite")
  /\ ModelInit /\ (part # "model" => \A k \in Key : records[k] = Gone)
  /\ BroadcastInit
  /\ BootInit /\ (part # "boot" => providers = <<>> /\ ~ config)

FrameworkNext ==
  /\ UNCHANGED part
  /\ \/ /\ part = "schedule" /\ SchedNext
        /\ UNCHANGED <<cacheVars, migVars, bootVars, modelVars, broadcastVars>>
     \/ /\ part = "cache" /\ CacheNext
        /\ UNCHANGED <<schedVars, migVars, bootVars, modelVars, broadcastVars>>
     \/ /\ part = "migrate" /\ MigNext
        /\ UNCHANGED <<schedVars, cacheVars, bootVars, modelVars, broadcastVars>>
     \/ /\ part = "boot" /\ BootNext
        /\ UNCHANGED <<schedVars, cacheVars, migVars, modelVars, broadcastVars>>
     \/ /\ part = "model" /\ ModelNext
        /\ UNCHANGED <<schedVars, cacheVars, migVars, bootVars, broadcastVars>>
     \/ /\ part = "broadcast" /\ BroadcastNext
        /\ UNCHANGED <<schedVars, cacheVars, migVars, bootVars, modelVars>>

FrameworkSpec ==
  FrameworkInit
  /\ [][FrameworkNext]_<<part, schedVars, cacheVars, migVars, bootVars, modelVars, broadcastVars>>
=============================================================================
