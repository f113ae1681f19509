-------------------------- MODULE MCRepositoryBackfill --------------------------
EXTENDS RepositoryBackfill

\* Instants 0 .. 8 are imported: one run before them, and four in them, three together.
MCCreated == [r \in Runs |-> CASE r = 0 -> -1 [] r = 1 -> 1 [] OTHER -> 3]

\* One of the three may not have completed yet.
MCCompleted == {Runs, Runs \ {2}}

Open == [state |-> "OPEN", updated |-> 1, merged |-> -1]
Merge(updated, merged) == [state |-> "MERGED", updated |-> updated, merged |-> merged]
Old == [state |-> "CLOSED", updated |-> -1, merged |-> -1]

\* Pull requests open, merged, merged before the interval but commented on since, and
\* closed long ago.
MCPulls == {
    [p \in Pulls |-> Open],
    [p \in Pulls |-> IF p = 3 THEN Merge(3, 3) ELSE Open],
    [p \in Pulls |-> CASE p = 1 -> Merge(2, 2) [] p = 2 -> Merge(3, -1) [] OTHER -> Open],
    [p \in Pulls |-> CASE p = 1 -> Merge(2, 2) [] p = 2 -> Old [] OTHER -> Merge(2, 1)] }
=============================================================================
