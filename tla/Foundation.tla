----------------------------- MODULE Foundation -----------------------------
(***************************************************************************)
(* Application::boot of rustasea-foundation (lib.rs): the configuration is *)
(* mounted, the providers are put in dependency order, all of them are     *)
(* registered and then all are booted.                                     *)
(*                                                                         *)
(* A provider is its name and the names it depends on; `name` gives the    *)
(* set of names it answers to (the full path and its last segment).  The   *)
(* order in which a provider lists its dependencies only decides which of  *)
(* two errors is reported, so it is a choice.                              *)
(***************************************************************************)
EXTENDS Integers, Sequences, FiniteSets, FiniteSetsExt, SequencesExt

CONSTANTS
  Applications,    \* the provider sequences to boot: [names, dependencies]
  NoProvider       \* no such name

\* Providers are kept in a vector, and each lists finitely many dependencies.
ASSUME BootAssumption ==
  \A app \in Applications :
    /\ Len(app) \in Nat /\ DOMAIN app = 1 .. Len(app)
    /\ NoProvider \notin DOMAIN app
    /\ \A n \in DOMAIN app : IsFiniteSet(app[n].dependencies)

VARIABLES
  providers,    \* the providers, in registration order
  bphase,       \* what boot is doing, and how it ended
  config,       \* the configuration loader is bound
  indegree,     \* Kahn: dependencies not yet emitted
  order,        \* Kahn: the providers emitted
  path,         \* find_cycle: the nodes of the search
  tried,        \* find_cycle: edges looked at, per node
  done,         \* find_cycle: nodes left for good
  root,         \* cycle_names: the candidate
  called,       \* the register and boot calls made, in order
  cycle         \* the providers of a reported cycle

bootVars == <<providers, bphase, config, indegree, order, path, tried, done, root, called, cycle>>
search == <<path, tried, done, root, cycle>>

Nodes == DOMAIN providers

BootInit ==
  /\ providers \in Applications
  /\ bphase = "new"
  /\ config \in BOOLEAN
  /\ indegree = [n \in Nodes |-> 0]
  /\ order = <<>>
  /\ path = <<>> /\ tried = [n \in Nodes |-> {}] /\ done = {} /\ root = 0 /\ cycle = <<>>
  /\ called = <<>>

-----------------------------------------------------------------------------
\* The first provider that answers to a name.
provider_index(d) ==
  LET named == {n \in Nodes : d \in providers[n].names} IN
  IF named = {} THEN NoProvider ELSE Min(named)

Needs(n) == {provider_index(d) : d \in providers[n].dependencies}

\* edges[n]: one edge for each dependency that resolves to n.
Consumers(n) == {m \in Nodes : n \in Needs(m)}
EdgeCount(n, m) == Cardinality({d \in providers[m].dependencies : provider_index(d) = n})

\* mount_config: a loader that was bound before is kept; malformed TOML ends
\* boot.
mount_config ==
  /\ bphase = "new"
  /\ \/ config' = TRUE /\ bphase' = "edges"
     \/ ~ config /\ bphase' = "config_error" /\ UNCHANGED config
  /\ UNCHANGED <<providers, indegree, order, called>> /\ UNCHANGED search

Faulty(n) == \E m \in Needs(n) : m \in {NoProvider, n}

\* The graph.  The first provider with an unknown name or with its own among
\* its dependencies ends boot.
Edges ==
  /\ bphase = "edges"
  /\ IF \E n \in Nodes : Faulty(n)
     THEN LET n == Min({x \in Nodes : Faulty(x)}) IN
          \/ NoProvider \in Needs(n) /\ bphase' = "unknown" /\ UNCHANGED <<indegree, cycle>>
          \/ n \in Needs(n) /\ bphase' = "cycle" /\ cycle' = <<n>> /\ UNCHANGED indegree
     ELSE /\ bphase' = "kahn"
          /\ indegree' = [n \in Nodes |-> Cardinality(providers[n].dependencies)]
          /\ UNCHANGED cycle
  /\ UNCHANGED <<providers, config, order, called, path, tried, done, root>>

Ready == {n \in Nodes : indegree[n] = 0 /\ ~ Contains(order, n)}

\* One round: the ready provider registered first is emitted.
Kahn ==
  /\ bphase = "kahn" /\ Ready # {}
  /\ LET node == Min(Ready) IN
     /\ order' = Append(order, node)
     /\ indegree' = [m \in Nodes |-> indegree[m] - EdgeCount(node, m)]
  /\ UNCHANGED <<providers, bphase, config, called>> /\ UNCHANGED search

\* Nothing is ready: the order is complete, or what is left holds a cycle.
KahnEnd ==
  /\ bphase = "kahn" /\ Ready = {}
  /\ bphase' = IF Len(order) = Len(providers) THEN "register" ELSE "search"
  /\ UNCHANGED <<providers, config, indegree, order, called>> /\ UNCHANGED search

-----------------------------------------------------------------------------
(* cycle_names and find_cycle. *)

Residual == {n \in Nodes : indegree[n] > 0}

\* The next candidate; without one, everything left is reported.
Candidate ==
  /\ bphase = "search" /\ path = <<>>
  /\ LET left == {n \in Residual : n > root} IN
     IF left = {}
     THEN bphase' = "cycle" /\ cycle' = SetToSortSeq(Residual, <) /\ UNCHANGED <<path, tried, root>>
     ELSE /\ root' = Min(left)
          /\ path' = <<Min(left)>>
          /\ tried' = [tried EXCEPT ![Min(left)] = {}]
          /\ UNCHANGED <<bphase, cycle>>
  /\ UNCHANGED <<providers, config, indegree, order, called, done>>

\* Mutant: the whole path is reported, not only from the repeated node on.
whole_path(next) == path

\* path[begin..]
from_repeated(next) == SubSeq(path, SelectInSeq(path, LAMBDA n : n = next), Len(path))

\* The next edge of the innermost call.
Visit ==
  /\ bphase = "search" /\ path # <<>>
  /\ LET node == Last(path)
         next == Min(Consumers(node) \ tried[node])
     IN  /\ Consumers(node) \ tried[node] # {}
         /\ \/ /\ next \notin Residual \/ next \in done
               /\ tried' = [tried EXCEPT ![node] = @ \cup {next}]
               /\ UNCHANGED <<bphase, path, cycle>>
            \/ /\ next \in Residual \ done /\ Contains(path, next)
               /\ cycle' = from_repeated(next)
               /\ bphase' = "cycle"
               /\ UNCHANGED <<path, tried>>
            \/ /\ next \in Residual \ done /\ ~ Contains(path, next)
               /\ path' = Append(path, next)
               /\ tried' = [tried EXCEPT ![node] = @ \cup {next}, ![next] = {}]
               /\ UNCHANGED <<bphase, cycle>>
  /\ UNCHANGED <<providers, config, indegree, order, called, done, root>>

\* No edge is left: the call answers None.
Leave ==
  /\ bphase = "search" /\ path # <<>>
  /\ Consumers(Last(path)) \subseteq tried[Last(path)]
  /\ path' = Front(path)
  /\ done' = done \cup {Last(path)}
  /\ UNCHANGED <<providers, bphase, config, indegree, order, called, tried, root, cycle>>

-----------------------------------------------------------------------------
\* The two passes, one call a step.  The calls see an application without
\* providers, and what they register is overwritten when boot puts the list
\* back, so `providers` does not change; boot of a booted application returns
\* at once and has no step.
Pass ==
  /\ bphase \in {"register", "boot"}
  /\ LET calls == IF bphase = "register" THEN Len(called) ELSE Len(called) - Len(order) IN
     IF calls < Len(order)
     THEN called' = Append(called, <<bphase, order[calls + 1]>>) /\ UNCHANGED bphase
     ELSE bphase' = (IF bphase = "register" THEN "boot" ELSE "booted") /\ UNCHANGED called
  /\ UNCHANGED <<providers, config, indegree, order>> /\ UNCHANGED search

BootNext ==
  mount_config \/ Edges \/ Kahn \/ KahnEnd \/ Candidate \/ Visit \/ Leave \/ Pass

BootSpec == BootInit /\ [][BootNext]_bootVars

-----------------------------------------------------------------------------
Position(n) == SelectInSeq(order, LAMBDA m : m = n)

\* boot's answer is right.  When it succeeds every provider was registered
\* once and then booted once, after all it depends on, and a provider waited
\* only for a provider registered before it or for a dependency of its own
\* (topological_order's tie-breaker).  When it reports a cycle, the names it
\* reports do depend on one another in a ring, and nothing that merely
\* depends on the ring is among them (cycle_names); nothing was registered.
BootAnswersRight ==
  /\ bphase = "booted" =>
       /\ called = [i \in 1 .. 2 * Len(order) |->
                      IF i <= Len(order) THEN <<"register", order[i]>>
                      ELSE <<"boot", order[i - Len(order)]>>]
       /\ ToSet(order) = Nodes /\ Len(order) = Len(providers)
       /\ \A n \in Nodes : \A m \in Needs(n) : Position(m) < Position(n)
       /\ \A i \in 1 .. Len(order) - 1 :
             order[i + 1] < order[i] => order[i] \in Needs(order[i + 1])
  /\ bphase = "cycle" =>
       /\ called = <<>>
       /\ cycle # <<>> /\ IsInjective(cycle)
       /\ \A i \in DOMAIN cycle :
             cycle[i] \in Needs(cycle[(i % Len(cycle)) + 1])
=============================================================================
