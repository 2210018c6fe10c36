------------------------------ MODULE Database ------------------------------
(***************************************************************************)
(* The database a deployment runs on, and what its transactions do when    *)
(* rows they are about to change have been changed since they were read.   *)
(* The components above it read in one step and commit in another; a       *)
(* transaction that does not commit leaves nothing.                        *)
(***************************************************************************)
EXTENDS Integers, Sequences, FiniteSets

CONSTANT Requests  \* requests in flight at once

VARIABLE backend   \* "postgres" or "mongo", fixed when the process starts

Backends == {"postgres", "mongo"}

\* Postgres (read committed) waits for the row locks, then writes over what it finds.
PgCommits(changed) == TRUE

\* MongoDB aborts on a write conflict, and WithTransaction runs the function again.
MgCommits(changed) == changed = {}

\* `changed`: the rows of the transaction that have changed since its snapshot.
Commits(changed) == IF backend = "mongo" THEN MgCommits(changed) ELSE PgCommits(changed)

\* What the adapter of this deployment makes of an operation.
On(pg, mg) == IF backend = "mongo" THEN mg ELSE pg

\* ORDER BY created_at DESC LIMIT limit OFFSET offset; an id grows with the time of creation.
Newest(rows, limit, offset) ==
    {r \in rows : Cardinality({s \in rows : s.id > r.id}) \in offset .. offset + limit - 1}
=============================================================================
