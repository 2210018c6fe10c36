------------------------------ MODULE Migrate ------------------------------
(***************************************************************************)
(* cmd/migrate (internal/migrate): commands that bring a database up, roll *)
(* a module back or seed it, several at once, each of which may fail or be *)
(* killed at any call, and the check of a server that starts.              *)
(*                                                                         *)
(* Postgres: a version of a module is one file, which creates its tables   *)
(* in one transaction with the row of schema_migrations.  Until it         *)
(* commits, the transaction blocks whoever creates or drops the same       *)
(* tables.  A version here stands for its tables.  MongoDB: `seed` creates *)
(* collections and indexes one call at a time.  A module without a         *)
(* directory or indexes.json has no files.                                 *)
(***************************************************************************)
EXTENDS Integers, Sequences, FiniteSets

CONSTANTS
    Operators,       \* processes that run one command each
    Plan,            \* the enabled modules in the order of Plan
    Files,           \* Files[m]: number of versions of module m
    Idempotent,      \* modules whose SQL says IF NOT EXISTS (events)
    Linked,          \* modules whose versions refer to the one before (core)
    Expected,        \* Expected[m]: versions whose tables expectedSchema lists
    Collections      \* Collections[m]: module m's collections in indexes.json

VARIABLES
    tracking,        \* the table schema_migrations exists
    tables,          \* tables[m]: versions whose tables exist
    recorded,        \* recorded[m]: versions in schema_migrations
    collections,     \* existing collections
    indexes,         \* collections whose indexes exist
    cmd,             \* what each process does
    server,          \* what a starting server knows
    overlapped       \* history: a command ran while another rolled back

migrateVars == <<tracking, tables, recorded, collections, indexes, cmd, server, overlapped>>

Mods == {Plan[i] : i \in DOMAIN Plan}
Versions(m) == 1..Files[m]

\* `core` comes first in every plan, and what is expected to exist is in some version's file.
ASSUME MigrateAssumption ==
    /\ Plan \in Seq(Mods) /\ "core" \in Mods
    /\ Files \in [Mods -> Nat]
    /\ \A m \in Mods : Expected[m] \subseteq Versions(m)

Most == CHOOSE n \in {Files[m] : m \in Mods} : \A m \in Mods : Files[m] <= n

\* `at`: the next call; `i`: the index in Plan; `m`: the module; `applied`: versions read as
\* applied; `v`: the version of the open transaction; `todo`: collections still to seed, `c` the
\* one in work.
NoCommand == [op |-> "none", at |-> "new", i |-> 0, m |-> Plan[1], applied |-> {}, v |-> 0, todo |-> {}, c |-> ""]

\* What earlier commands may have left: a prefix of the versions of each module.
Histories == {[m \in Mods |-> 1..k[m]] : k \in {f \in [Mods -> 0..Most] : \A m \in Mods : f[m] <= Files[m]}}

MigrateInit ==
    /\ tracking \in BOOLEAN
    /\ recorded \in IF tracking THEN Histories ELSE {[m \in Mods |-> {}]}
    /\ tables = recorded
    /\ collections = {} /\ indexes = {}
    /\ cmd = [p \in Operators |-> NoCommand]
    /\ server = "off" /\ overlapped = FALSE

Running(p) == cmd[p].at \notin {"new", "ok", "failed"}
Rolling(p) == Running(p) /\ cmd[p].op = "down"

\* The versions whose tables a file locks: its own, and one it refers to.
Touches(op, m, v) == IF op = "up" /\ m \in Linked THEN {v, v - 1} ELSE {v}

\* A transaction is open that has locked one of these.
Locked(op, m, v) ==
    \E p \in Operators :
        LET c == cmd[p] IN
        c.at = "commit" /\ c.m = m /\ Touches(c.op, m, c.v) \cap Touches(op, m, v) # {}

Moves(p, at) == cmd' = [cmd EXCEPT ![p].at = at]

Schema == <<tracking, tables, recorded>>
Seeded == <<collections, indexes>>

\* Faulty variant: the file of a version is executed outside of the transaction.
KeepTables(p) == IF cmd[p].at = "commit" /\ cmd[p].op = "up"
                 THEN [tables EXCEPT ![cmd[p].m] = @ \cup {cmd[p].v}] ELSE tables

\* What is left of an open transaction.
Rollback(p) == tables

\* A call fails or the process is killed.
Fail(p) ==
    /\ Running(p)
    /\ Moves(p, "failed")
    /\ tables' = Rollback(p)
    /\ UNCHANGED <<tracking, recorded, Seeded, server, overlapped>>

-----------------------------------------------------------------------------
(* RunPostgresUp.                                                          *)

Start(p, op, m, at, todo) ==
    /\ cmd[p] = NoCommand
    /\ cmd' = [cmd EXCEPT ![p] = [@ EXCEPT !.op = op, !.at = at, !.m = m, !.todo = todo]]
    /\ overlapped' = (overlapped \/ \E q \in Operators \ {p} : Running(q) /\ (op = "down" \/ Rolling(q)))
    /\ UNCHANGED <<Schema, Seeded, server>>

RunPostgresUp(p) == Start(p, "up", Plan[1], "track", {})

ensureTrackingTable(p) ==
    /\ cmd[p].at = "track"
    /\ tracking' = TRUE
    /\ cmd' = [cmd EXCEPT ![p].at = "read", ![p].i = 1]
    /\ UNCHANGED <<tables, recorded, Seeded, server, overlapped>>

\* A failed query reads as an empty set, unless it fails between rows.
appliedVersions(p) ==
    /\ cmd[p].at = "read"
    /\ \E vs \in {recorded[cmd[p].m], {}} :
         cmd' = [cmd EXCEPT ![p].at = IF cmd[p].op = "up" THEN "apply" ELSE "revert", ![p].applied = vs]
    /\ UNCHANGED <<Schema, Seeded, server, overlapped>>

Pending(p) == {v \in Versions(cmd[p].m) : v \notin cmd[p].applied}
Lowest(S) == CHOOSE v \in S : \A w \in S : v <= w
Highest(S) == CHOOSE v \in S : \A w \in S : w <= v

\* The file creates tables that refer to those of the version before.
Creates(m, v) ==
    /\ m \in Idempotent \/ v \notin tables[m]
    /\ m \in Linked => v = 1 \/ v - 1 \in tables[m]

\* migrateUp: BEGIN and the file of the lowest pending version, waiting for others' locks.
migrateUp(p) ==
    /\ cmd[p].at = "apply" /\ Pending(p) # {}
    /\ LET v == Lowest(Pending(p)) IN
         /\ ~Locked("up", cmd[p].m, v)
         /\ cmd' = IF Creates(cmd[p].m, v) THEN [cmd EXCEPT ![p].at = "commit", ![p].v = v]
                   ELSE [cmd EXCEPT ![p].at = "failed"]
    /\ UNCHANGED <<Schema, Seeded, server, overlapped>>

\* Nothing is pending: the next enabled module, or the end.
NextModule(p) ==
    /\ cmd[p].at = "apply" /\ Pending(p) = {}
    /\ cmd' = IF cmd[p].i = Len(Plan) THEN [cmd EXCEPT ![p].at = "ok"]
              ELSE [cmd EXCEPT ![p].at = "read", ![p].i = @ + 1, ![p].m = Plan[cmd[p].i + 1]]
    /\ UNCHANGED <<Schema, Seeded, server, overlapped>>

(***************************************************************************)
(* The row of schema_migrations and COMMIT, whose answer may be lost.      *)
(***************************************************************************)
CommitUp(p) ==
    LET c == cmd[p] IN
    /\ c.at = "commit" /\ c.op = "up"
    /\ IF c.v \in recorded[c.m]
       THEN Moves(p, "failed") /\ tables' = Rollback(p) /\ UNCHANGED recorded
       ELSE /\ tables' = [tables EXCEPT ![c.m] = @ \cup {c.v}]
            /\ recorded' = [recorded EXCEPT ![c.m] = @ \cup {c.v}]
            /\ \/ cmd' = [cmd EXCEPT ![p].at = "apply", ![p].applied = @ \cup {c.v}]
               \/ Moves(p, "failed")
    /\ UNCHANGED <<tracking, Seeded, server, overlapped>>

-----------------------------------------------------------------------------
(* RunPostgresDown.                                                        *)

RunPostgresDown(p, m) == Start(p, "down", m, "read", {})

\* DROP TABLE IF EXISTS, refused while other tables refer to these.
migrateDown(p) ==
    LET c == cmd[p]
        v == Highest(c.applied) IN
    /\ c.at = "revert"
    /\ \/ c.applied = {} /\ Moves(p, "failed")
       \/ /\ c.applied # {} /\ ~Locked("down", c.m, v)
          /\ cmd' = IF c.m \in Linked /\ v + 1 \in tables[c.m] THEN [cmd EXCEPT ![p].at = "failed"]
                    ELSE [cmd EXCEPT ![p].at = "commit", ![p].v = v]
    /\ UNCHANGED <<Schema, Seeded, server, overlapped>>

CommitDown(p) ==
    LET c == cmd[p] IN
    /\ c.at = "commit" /\ c.op = "down"
    /\ tables' = [tables EXCEPT ![c.m] = @ \ {c.v}]
    /\ recorded' = [recorded EXCEPT ![c.m] = @ \ {c.v}]
    /\ \/ Moves(p, "ok") \/ Moves(p, "failed")
    /\ UNCHANGED <<tracking, Seeded, server, overlapped>>

-----------------------------------------------------------------------------
(* RunMongoSeed: ensureCollection and ensureIndex for each collection.     *)

Listed == UNION {Collections[m] : m \in Mods}

RunMongoSeed(p) == Start(p, "seed", Plan[1], "seed", Listed)

\* ListCollectionNames.
ensureCollection(p, c) ==
    /\ cmd[p].at = "seed" /\ c \in cmd[p].todo
    /\ cmd' = [cmd EXCEPT ![p].at = IF c \in collections THEN "index" ELSE "create", ![p].c = c]
    /\ UNCHANGED <<Schema, Seeded, server, overlapped>>

\* A collection that another seed has created meanwhile is an error.
CreateCollection(p) ==
    /\ cmd[p].at = "create"
    /\ Moves(p, IF cmd[p].c \in collections THEN "failed" ELSE "index")
    /\ collections' = collections \cup {cmd[p].c}
    /\ UNCHANGED <<Schema, indexes, server, overlapped>>

\* An index of that name is left as it is; creating it twice is no error.
ensureIndex(p) ==
    /\ cmd[p].at = "index"
    /\ indexes' = indexes \cup {cmd[p].c}
    /\ cmd' = [cmd EXCEPT ![p].at = "seed", ![p].todo = @ \ {cmd[p].c}]
    /\ UNCHANGED <<Schema, collections, server, overlapped>>

SeedDone(p) ==
    /\ cmd[p].at = "seed" /\ cmd[p].todo = {}
    /\ Moves(p, "ok")
    /\ UNCHANGED <<Schema, Seeded, server, overlapped>>

-----------------------------------------------------------------------------
(* QuickCheck of a server that starts: two queries.                        *)

quickCheck ==
    /\ \/ server = "off" /\ server' = IF tracking THEN "tracked" ELSE "refused"
       \/ server = "tracked" /\ server' = IF recorded["core"] # {} THEN "ready" ELSE "refused"
    /\ UNCHANGED <<Schema, Seeded, cmd, overlapped>>

Command(p) ==
    \/ RunPostgresUp(p) \/ RunMongoSeed(p)
    \/ \E m \in Mods : RunPostgresDown(p, m)
    \/ ensureTrackingTable(p) \/ appliedVersions(p) \/ migrateUp(p) \/ NextModule(p)
    \/ CommitUp(p) \/ migrateDown(p) \/ CommitDown(p) \/ Fail(p)
    \/ \E c \in Listed : ensureCollection(p, c)
    \/ CreateCollection(p) \/ ensureIndex(p) \/ SeedDone(p)

MigrateNext == quickCheck \/ \E p \in Operators : Command(p)

MigrateSpec == MigrateInit /\ [][MigrateNext]_migrateVars

-----------------------------------------------------------------------------
(* Properties.                                                             *)

MigrateTypeOK ==
    /\ \A p \in Operators : cmd[p].m \in Mods /\ cmd[p].i \in 0..Len(Plan) /\ cmd[p].todo \subseteq Listed
    /\ tracking \in BOOLEAN
    /\ tables \in [Mods -> SUBSET Nat] /\ recorded \in [Mods -> SUBSET Nat]
    /\ collections \subseteq Listed /\ indexes \subseteq collections
    /\ server \in {"off", "tracked", "ready", "refused"} /\ overlapped \in BOOLEAN

\* Expected tables that do not exist; a version creates all columns of its tables.
missingColumns(m) == Expected[m] \ tables[m]

verifyPostgres == \A m \in Mods : missingColumns(m) = {}

verifyMongo == Listed \subseteq collections /\ Listed \subseteq indexes

\* A version's tables exist exactly when it is recorded, wherever commands failed, were killed
\* or met; and the versions of a module have no gap unless a rollback overlapped a command: it
\* reads the highest version before its transaction, and an `up` may add one meanwhile.
SchemaAsRecorded ==
    /\ tables = recorded
    /\ \A m \in Mods : overlapped \/ \E k \in 0..Files[m] : recorded[m] = 1..k

NoRollback == \A p \in Operators : cmd[p].op # "down"

\* A command that reported success left nothing to do, also one that continued where another
\* had been killed, as long as nobody rolls back; and a server that has passed its check
\* finds the first tables of core.
SuccessIsComplete ==
    /\ \A p \in Operators : cmd[p].at = "ok" /\ cmd[p].op = "up" /\ NoRollback =>
            verifyPostgres /\ \A m \in Mods : recorded[m] = Versions(m)
    /\ \A p \in Operators : cmd[p].at = "ok" /\ cmd[p].op = "seed" => verifyMongo
    /\ server = "ready" /\ NoRollback => 1 \in tables["core"]

MigrationsSound == SchemaAsRecorded /\ SuccessIsComplete
=============================================================================
