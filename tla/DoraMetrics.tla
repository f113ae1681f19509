----------------------------- MODULE DoraMetrics -----------------------------
(***************************************************************************)
(* What the engine derives from the normalized rows of one repository:     *)
(* which pull requests a deployment shipped, which deployment ended which  *)
(* failure, the observations of each metric in a calendar period, and the  *)
(* value an alert rule sees over a rolling window.                         *)
(*                                                                         *)
(* Tables are functions: deployments and pull requests by their id.  An    *)
(* instant is a natural number, 0 stands for NULL; the calendar of a       *)
(* granularity is the set of instants at which its periods start, so       *)
(* periods may differ in length as months and DST days do.  Durations and  *)
(* percentiles are functions of an observation's instants and are left     *)
(* out.                                                                    *)
(***************************************************************************)
EXTENDS Naturals, FiniteSetsExt

CONSTANTS Calendar   \* [granularity -> set of period boundaries]

\* A calendar has a last boundary.
ASSUME CalendarAssumption ==
    \A g \in DOMAIN Calendar :
        /\ Calendar[g] \subseteq Nat
        /\ \E last \in Calendar[g] : \A b \in Calendar[g] : b <= last

Granularities == DOMAIN Calendar

-----------------------------------------------------------------------------
(* Links and incidents, rebuilt from scratch each time. *)

Stored(deps) == {d \in DOMAIN deps : deps[d].finished # 0}
Successes(deps) ==
    {d \in Stored(deps) : deps[d].production /\ deps[d].status = "SUCCESS"}
Failures(deps) ==
    {d \in Stored(deps) : deps[d].production /\ deps[d].status = "FAILURE"}

\* By the deployed commit: the pull request's merge or head SHA, or one of its commits.
ExactLinks(deps, pulls) ==
    {l \in Stored(deps) \X DOMAIN pulls :
        pulls[l[2]].known /\ deps[l[1]].sha \in pulls[l[2]].commits}

\* By the merge window since the previous successful production deployment; the
\* first one has no lower boundary and gets none.
WindowLinks(deps, pulls) ==
    {l \in Successes(deps) \X DOMAIN pulls :
        LET finished == deps[l[1]].finished
            merged == pulls[l[2]].merged
            previous == {deps[x].finished : x \in Successes(deps)} \cap (0 .. finished - 1)
        IN  previous # {} /\ Max(previous) < merged /\ merged <= finished}

Links(deps, pulls) == ExactLinks(deps, pulls) \cup WindowLinks(deps, pulls)

\* Instants of the successful production deployments a pull request is linked to.
Shipped(deps, links, p) == {deps[d].finished : d \in {s \in Successes(deps) : <<s, p>> \in links}}

Earliest(instants) == IF instants = {} THEN 0 ELSE Min(instants)

\* Each failed production deployment, with the instant of its recovery or 0.
Incidents(deps) ==
    [d \in Failures(deps) |->
        [detected |-> deps[d].finished,
         resolved |-> Earliest({deps[s].finished : s \in
             {x \in Successes(deps) : deps[x].finished > deps[d].finished}})]]

-----------------------------------------------------------------------------
(* Calendar periods, named by their start. *)

Starts(g) == Calendar[g] \ {Max(Calendar[g])}
End(g, b) == Min({x \in Calendar[g] : x > b})
In(i, g, b) == b <= i /\ i < End(g, b)

\* The periods covering [from, to).
PeriodBuckets(g, from, to) == {b \in Starts(g) : End(g, b) > from /\ b < to}

\* Variant: the preceding bucket instead of the affected ones at the upper end.
BucketsOfFirst(g, from, to) == {b \in Starts(g) : In(from, g, b)}

\* The periods that meet [from, to], and the one before the first of them.
RecalculationBuckets(g, from, to) ==
    LET affected == {b \in Starts(g) : End(g, b) > from /\ b <= to}
        before == {b \in Starts(g) : \A a \in affected : b < a}
    IN  IF affected = {} THEN {}
        ELSE affected \cup (IF before = {} THEN {} ELSE {Max(before)})

-----------------------------------------------------------------------------
(* The observations of a period.  A snapshot is the set of them. *)

DeploymentFrequency(g, b, deps) ==
    {[key |-> d, at |-> deps[d].finished] :
        d \in {s \in Successes(deps) : In(deps[s].finished, g, b)}}

ChangeFailureRate(g, b, deps, incidents) ==
    {[key |-> d, at |-> deps[d].finished,
      failed |-> deps[d].status = "FAILURE" \/ d \in DOMAIN incidents] :
        d \in {s \in Stored(deps) : deps[s].production /\ In(deps[s].finished, g, b)}}

\* A pull request counts once, with its earliest deployment.
FirstShipped(deps, links, pulls) ==
    {[key |-> p, at |-> Earliest(Shipped(deps, links, p))] :
        p \in {q \in DOMAIN pulls : pulls[q].first # 0 /\ Shipped(deps, links, q) # {}}}

ChangeLeadTime(g, b, deps, links, pulls) ==
    {o \in FirstShipped(deps, links, pulls) : In(o.at, g, b) /\ o.at >= pulls[o.key].first}

RecoveryTime(g, b, incidents) ==
    {[key |-> d, at |-> incidents[d].resolved, since |-> incidents[d].detected] :
        d \in {f \in DOMAIN incidents :
            incidents[f].resolved # 0 /\ In(incidents[f].resolved, g, b)}}

\* Review counts from the last ready_for_review, unless a review came before it.
PickupStart(pull) ==
    IF pull.ready > pull.opened /\ (pull.review = 0 \/ pull.ready <= pull.review)
    THEN pull.ready ELSE pull.opened

Stages(pull, deployed) ==
    LET stage == [coding |-> <<pull.first, PickupStart(pull)>>,
                  pickup |-> <<PickupStart(pull), pull.review>>,
                  review |-> <<pull.review, pull.merged>>,
                  deploy |-> <<pull.merged, deployed>>]
    IN  {<<s, stage[s]>> : s \in {t \in DOMAIN stage :
            0 \notin {stage[t][1], stage[t][2]} /\ stage[t][1] <= stage[t][2]}}

\* The deployment that completes the deploy stage.
Deployed(deps, links, pulls, p) ==
    Earliest({i \in Shipped(deps, links, p) : i >= pulls[p].merged})

\* The stages of the pull requests merged in the period.
CycleTime(g, b, deps, links, pulls) ==
    {[key |-> p, stages |-> Stages(pulls[p], Deployed(deps, links, pulls, p))] :
        p \in {q \in DOMAIN pulls : pulls[q].merged # 0 /\ In(pulls[q].merged, g, b)}}

-----------------------------------------------------------------------------
(* Alert rules: the DAY snapshots that overlap the window, cut to it. *)

\* The first observation of a key counts; snapshots come in order of their start.
WindowObservations(snapshots, from, to) ==
    LET overlapping == PeriodBuckets("DAY", from, to)
        seen == {<<b, o>> : b \in overlapping, o \in UNION {snapshots[x] : x \in overlapping}}
        kept == {s \in seen : s[2] \in snapshots[s[1]] /\ from <= s[2].at /\ s[2].at < to}
    IN  {s[2] : s \in {x \in kept : \A y \in kept : y[2].key = x[2].key => x[1] <= y[1]}}
=============================================================================
