----------------------------- MODULE MCPlatform -----------------------------
(***************************************************************************)
(* The broker, the migration commands and the start of the process, on one *)
(* instance.  They share no state, so a behaviour explores one of them,    *)
(* `part`, while the others rest: the run visits the sum of their states,  *)
(* not the product.                                                        *)
(***************************************************************************)
EXTENDS RabbitMQ, Migrate, Startup, TLC

MCPlan == <<"core", "catalog", "events">>
MCFiles == [core |-> 2, catalog |-> 2, events |-> 1]
MCExpected == [core |-> {1}, catalog |-> {1, 2}, events |-> {1}]
MCCollections == [core |-> {"users"}, catalog |-> {"products"}, events |-> {}]

Symmetric == Permutations(Handlers) \cup Permutations(Operators)

VARIABLE part    \* the component a behaviour explores

\* The components that rest have one initial state.
Init ==
    /\ part \in {"bus", "migrations", "startup"}
    /\ RabbitInit /\ MigrateInit /\ StartupInit
    /\ part # "bus" => declared
    /\ part # "migrations" => ~tracking /\ \A m \in Mods : recorded[m] = {}
    /\ part # "startup" => enabled = {} /\ \A m \in Modules : requires[m] = {}

BusStep == part = "bus" /\ RabbitNext /\ UNCHANGED <<migrateVars, startupVars, part>>
MigrationStep == part = "migrations" /\ MigrateNext /\ UNCHANGED <<rabbitVars, startupVars, part>>
StartupStep == part = "startup" /\ StartupNext /\ UNCHANGED <<rabbitVars, migrateVars, part>>

Next == BusStep \/ MigrationStep \/ StartupStep

vars == <<rabbitVars, migrateVars, startupVars, part>>
Spec == Init /\ [][Next]_vars

TypeOK == RabbitTypeOK /\ MigrateTypeOK /\ StartupTypeOK

\* Bound: a second connection is lost when every call of Subscribe has returned.
Bound == lost > 1 => \A h \in Handlers : subscriber[h] \in {"done", "refused"}
=============================================================================
