-------------------------- MODULE MCMetricFreshness --------------------------
(* Small instances of MetricFreshness for TLC. *)
EXTENDS MetricFreshness, TLC

CONSTANTS c, other, d1, d2, d3, p1, prod

\* Days and weeks of unequal length.
MCCalendar == [DAY |-> {0, 2, 3, 4, 5}, WEEK |-> {0, 3, 5}]

Outcomes == {<<prod, "SUCCESS", other>>, <<prod, "SUCCESS", c>>,
             <<prod, "FAILURE", other>>}

MCRuns == {[finished |-> i, environment |-> o[1], status |-> o[2], sha |-> o[3]] :
              i \in 1 .. Horizon, o \in Outcomes}

MCPull(commits, merged, review) ==
    [known |-> TRUE, merged |-> merged, commits |-> commits, first |-> 1, opened |-> 1,
     ready |-> 2, review |-> review]

\* Pushed over while it is open, then merged and reviewed.
MCPullStates == {MCPull({c}, 0, 0), MCPull({other}, 0, 0), MCPull({c}, 2, 0), MCPull({c}, 2, 2)}

\* One that reaches back to all of the past, and one that does not.
MCBackfillRanges == {[from |-> 0, to |-> 5], [from |-> 3, to |-> 5]}

MCSymmetry == Permutations(Deployments)
=============================================================================
