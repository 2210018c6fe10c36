------------------------------ MODULE Startup ------------------------------
(***************************************************************************)
(* NewEngine (internal/engine): the enabled modules are checked, sorted by *)
(* their dependencies (depgraph.go, Kahn's algorithm over Go maps, whose   *)
(* iteration order is arbitrary) and initialised in that order, each       *)
(* taking the services of those it requires from the container.  The       *)
(* modules' factories and the dependencies are any: the registry is open   *)
(* to new modules.  Shutdown takes them down in the reverse order.         *)
(***************************************************************************)
EXTENDS Integers, SequencesExt

CONSTANTS Modules      \* the names in the registry

ASSUME StartupAssumption == IsFiniteSet(Modules)

VARIABLES
    requires,          \* requires[m]: what m.Requires() lists
    enabled,           \* the modules enabled by the configuration
    phase,             \* where NewEngine is
    inDegree,          \* inDegree[m]: requirements of m not yet sorted
    queue,             \* names ready to be sorted
    sorted,            \* the order found so far
    inits,             \* modules up: the first ones of `sorted`
    provided           \* modules whose services the container holds

startupVars == <<requires, enabled, phase, inDegree, queue, sorted, inits, provided>>

StartupInit ==
    /\ requires \in [Modules -> SUBSET Modules]
    /\ enabled \in SUBSET Modules
    /\ phase = "validate"
    /\ inDegree = [m \in Modules |-> 0]
    /\ queue = <<>> /\ sorted = <<>> /\ inits = 0 /\ provided = {}

Wiring == <<requires, enabled>>

\* Faulty variant: a module with requirements is counted once, not once for each.
DegreeOnce(m) == IF requires[m] = {} THEN 0 ELSE 1

Degree(m) == Cardinality(requires[m])

\* Every dependency is enabled; the names without one are queued in any order.
validate ==
    /\ phase = "validate"
    /\ IF \A m \in enabled : requires[m] \subseteq enabled
       THEN /\ phase' = "sort"
            /\ inDegree' = [m \in Modules |-> IF m \in enabled THEN Degree(m) ELSE 0]
            /\ queue' \in SetToSeqs({m \in enabled : Degree(m) = 0})
       ELSE phase' = "missing" /\ UNCHANGED <<inDegree, queue>>
    /\ UNCHANGED <<Wiring, sorted, inits, provided>>

dependents(m) == {d \in enabled : m \in requires[d]}

\* Faulty variant: a dependent is queued with its first requirement.
ReadyAtFirst(m) == {d \in dependents(m) : inDegree[d] = Cardinality(requires[d])}

\* Those for which m was the last.
Ready(m) == {d \in dependents(m) : inDegree[d] = 1}

\* `dependents` lists follow the order of the modules, which is that of a map.
sort ==
    /\ phase = "sort" /\ queue # <<>>
    /\ LET current == Head(queue) IN
         /\ sorted' = Append(sorted, current)
         /\ inDegree' = [d \in Modules |-> IF d \in dependents(current) THEN inDegree[d] - 1 ELSE inDegree[d]]
         /\ \E next \in SetToSeqs(Ready(current)) : queue' = Tail(queue) \o next
    /\ UNCHANGED <<Wiring, phase, inits, provided>>

findCycle ==
    /\ phase = "sort" /\ queue = <<>>
    /\ phase' = IF Len(sorted) # Cardinality(enabled) THEN "cycle" ELSE "connect"
    /\ UNCHANGED <<Wiring, inDegree, queue, sorted, inits, provided>>

\* Connecting the bus, the cache and the database and checking its schema succeeds or not.
Infrastructure == {"init", "unready"}

\* The database is tried again until it answers.
connectWithRetry ==
    /\ phase = "connect"
    /\ phase' \in Infrastructure
    /\ UNCHANGED <<Wiring, inDegree, queue, sorted, inits, provided>>

\* MustResolve panics when a service is not there; an Init may return an error.
MustResolve(m) == requires[m] \subseteq provided

initModule(m) ==
    \/ MustResolve(m) /\ inits' = inits + 1 /\ provided' = provided \cup {m} /\ UNCHANGED phase
    \/ MustResolve(m) /\ phase' = "failed" /\ UNCHANGED <<inits, provided>>
    \/ ~MustResolve(m) /\ phase' = "panic" /\ UNCHANGED <<inits, provided>>

InitModules ==
    /\ phase = "init"
    /\ IF inits < Len(sorted) THEN initModule(sorted[inits + 1])
       ELSE phase' = "running" /\ UNCHANGED <<inits, provided>>
    /\ UNCHANGED <<Wiring, inDegree, queue, sorted>>

\* Also after an Init has failed nothing is taken down: NewEngine returns without an engine.
Shutdown ==
    /\ phase \in {"running", "stopping"}
    /\ phase' = IF inits = 0 THEN "stopped" ELSE "stopping"
    /\ inits' = IF inits = 0 THEN 0 ELSE inits - 1
    /\ UNCHANGED <<Wiring, inDegree, queue, sorted, provided>>

StartupNext == validate \/ sort \/ findCycle \/ connectWithRetry \/ InitModules \/ Shutdown

StartupSpec == StartupInit /\ [][StartupNext]_startupVars

-----------------------------------------------------------------------------
(* Properties.                                                             *)

StartupTypeOK ==
    /\ phase \in {"validate", "missing", "sort", "cycle", "connect", "unready", "init", "failed", "panic", "running", "stopping", "stopped"}
    /\ inDegree \in [Modules -> Nat] /\ inits \in 0..Len(sorted)
    /\ queue \in Seq(Modules) /\ sorted \in Seq(Modules) /\ provided \subseteq enabled

Up == {sorted[i] : i \in 1..inits}

\* A dependency-first numbering of the enabled modules exists.
Acyclic ==
    \E rank \in [enabled -> 1..Cardinality(enabled)] :
        \A m \in enabled : \A d \in requires[m] : rank[d] < rank[m]

\* Whatever the dependencies and the order of map iteration: no Init asks for a service that
\* is not there, a module is only up together with those it requires, a cycle is
\* reported exactly when there is one, and otherwise every enabled module is sorted once.
DependenciesFirst ==
    /\ phase # "panic"
    /\ \A m \in Up : requires[m] \subseteq Up
    /\ phase = "cycle" => ~Acyclic
    /\ phase = "connect" => Acyclic /\ IsInjective(sorted) /\ ToSet(sorted) = enabled
=============================================================================
