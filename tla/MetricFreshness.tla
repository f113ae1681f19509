--------------------------- MODULE MetricFreshness ---------------------------
(***************************************************************************)
(* Do the stored snapshots of a repository agree with its deployments and  *)
(* pull requests once no recalculation is asked for any more?              *)
(*                                                                         *)
(* Webhook deliveries are processed one after the other under the          *)
(* repository's lease, each in several transactions; what a handler that   *)
(* died left behind is finished by its retry, after whatever came in       *)
(* between.  Handlers ask for the range of instants they believe they      *)
(* affected; a recalculation rebuilds the buckets of that range.           *)
(*                                                                         *)
(* Some changes reach buckets that no handler asks for: a deployment that  *)
(* moves or was late, a row that a backfill imports or classifies anew, a  *)
(* first shipment that a relinking replaces.  `outdated' keeps the buckets *)
(* they touch until a recalculation rebuilds them; the code has no such    *)
(* state, and no guard reads it.                                           *)
(***************************************************************************)
EXTENDS DoraMetrics

CONSTANTS
    Deployments, Pulls,   \* external ids
    Horizon,              \* instants are 1 .. Horizon
    Runs,                 \* what the provider may report of a deployment
    PullStates,           \* what it may report of a pull request
    Environments, Production,   \* environments, and those the settings match at first
    BackfillRanges,       \* from its cutoff to the day after its start
    MaxDeliveries,
    MaxDisturbances,      \* bounds: deliveries; crashes and changes of settings
    None

Instants == 1 .. Horizon

\* What a recalculation is asked for, what a handler handles, and where it is.
Ranges == {range \in [from : Nat, to : Nat] : range.from <= range.to}
Work == [kind : {"deployment"}, id : Deployments, state : Runs]
            \cup [kind : {"pull", "review"}, id : Pulls, state : PullStates]
            \cup [kind : {"recalculation", "backfill"}, id : {None}, state : Ranges]
Handlers == [delivery : Work, step : {"stored", "linked", "reconciled", "rebuilt"},
             affected : SUBSET Instants]

\* The provider reports instants; 0 stands for one that has not come.  The days reach
\* from before the first instant to after the last.
ASSUME FreshnessAssumption ==
    /\ Horizon \in Nat \ {0}
    /\ MaxDeliveries \in Nat /\ MaxDisturbances \in Nat
    /\ Production \subseteq Environments
    /\ BackfillRanges \subseteq Ranges
    /\ \A run \in Runs : run.finished \in Instants /\ run.environment \in Environments
    /\ PullStates \subseteq
          [known : {TRUE}, commits : {state.commits : state \in PullStates},
           merged : Instants \cup {0}, first : Instants \cup {0}, opened : Instants \cup {0},
           ready : Instants \cup {0}, review : Instants \cup {0}]
    /\ None \notin Ranges \cup Handlers /\ None \notin Environments
    /\ "DAY" \in Granularities /\ 0 \in Calendar["DAY"]
    /\ \E end \in Calendar["DAY"] : end > Horizon

VARIABLES
    deployments, pulls,   \* normalized rows, by external id
    links, incidents,     \* derived rows
    snapshots,            \* what the last recalculation of each bucket stored
    patterns,             \* environments the repository's settings call production
    request,              \* range of the waiting recalculation row, or None
    backfill,             \* a reclassifying backfill is due
    job,                  \* the handler that holds the lease, or None
    retries,              \* deliveries whose handler died
    outdated,             \* buckets changed without a request, and not rebuilt since
    deliveries, disturbances

rows == <<deployments, pulls>>
derived == <<links, incidents>>
counters == <<deliveries, disturbances>>
vars == <<rows, derived, snapshots, patterns, request, backfill, job, retries,
          outdated, counters>>

NoDeployment == [finished |-> 0, environment |-> None, production |-> FALSE,
                 status |-> None, sha |-> None]
NoPull == [known |-> FALSE, merged |-> 0, commits |-> {}, first |-> 0,
           opened |-> 0, ready |-> 0, review |-> 0]

\* One bucket's snapshots; stage snapshots exist for days only.
BucketSnapshots(g, b, deps, lks, incs, prs) ==
    [frequency |-> DeploymentFrequency(g, b, deps),
     failures |-> ChangeFailureRate(g, b, deps, incs),
     leadTime |-> ChangeLeadTime(g, b, deps, lks, prs),
     recovery |-> RecoveryTime(g, b, incs),
     cycle |-> IF g = "DAY" THEN CycleTime(g, b, deps, lks, prs) ELSE {}]

AllBuckets == UNION {{<<g, b>> : b \in Starts(g)} : g \in Granularities}

EmptySnapshots == [frequency |-> {}, failures |-> {}, leadTime |-> {}, recovery |-> {}, cycle |-> {}]

Init ==
    /\ deployments = [d \in Deployments |-> NoDeployment]
    /\ pulls = [p \in Pulls |-> NoPull]
    /\ links = {}
    /\ incidents = Incidents(deployments)
    /\ snapshots = [gb \in AllBuckets |-> EmptySnapshots]
    /\ patterns = Production
    /\ request = None
    /\ backfill = FALSE
    /\ job = None
    /\ retries = {}
    /\ outdated = {}
    /\ deliveries = 0
    /\ disturbances = 0

-----------------------------------------------------------------------------
(* Requests. *)

\* The waiting row, if any, is widened to cover the new instants.
Ask(instants) ==
    request' = LET all == instants \cup IF request = None THEN {} ELSE {request.from, request.to}
               IN [from |-> Min(all), to |-> Max(all)]

Handler(delivery, step) == [delivery |-> delivery, step |-> step, affected |-> {}]

-----------------------------------------------------------------------------
(* Links, and what handlers read from them. *)

Holding(instants) == {gb \in AllBuckets : \E i \in instants : In(i, gb[1], gb[2])}

FirstShipment(lks, p) == Earliest(Shipped(deployments, lks, p))

\* Each pull request's handler asks for its first shipment by the links before and
\* after; for the others the one before is forgotten.
Relink(asking) ==
    /\ links' = Links(deployments, pulls)
    /\ outdated' = outdated \cup
          Holding({FirstShipment(links, p) : p \in {q \in Pulls \ asking :
                      FirstShipment(links, q) # FirstShipment(links', q)}} \ {0})

-----------------------------------------------------------------------------
(* A workflow run or deployment status with a final state. *)

\* The guard of the upsert's DO UPDATE.
Newer(row, run) == row.finished = 0 \/ run.finished >= row.finished

\* A new deployment, after all that finished before it.
InOrder(d, run) ==
    /\ deployments[d].finished = 0
    /\ \A x \in Stored(deployments) : deployments[x].finished < run.finished

\* A delivery that loses the guard still goes on with the row that is there.
UpsertDeployment(delivery) ==
    LET d == delivery.id
        run == delivery.state
        production == run.environment \in patterns
    IN
    /\ deployments' = [deployments EXCEPT ![d] =
          IF Newer(@, run)
          THEN [finished |-> run.finished, environment |-> run.environment,
                production |-> production, status |-> run.status, sha |-> run.sha]
          ELSE @]
    /\ outdated' = IF deployments' = deployments \/ InOrder(d, run) THEN outdated ELSE AllBuckets
    /\ job' = IF production THEN Handler(delivery, "stored") ELSE None
    /\ UNCHANGED <<pulls, derived, snapshots, patterns, request, backfill>>

\* A backfill imports runs the same way, the older ones late.
DeploymentDelivered ==
    \E d \in Deployments, run \in Runs :
        /\ job = None
        /\ deliveries < MaxDeliveries
        /\ deliveries' = deliveries + 1
        /\ UpsertDeployment([kind |-> "deployment", id |-> d, state |-> run])
        /\ UNCHANGED <<retries, disturbances>>

AtStep(kind, step) == job # None /\ job.delivery.kind = kind /\ job.step = step

RelinkDeployments ==
    /\ AtStep("deployment", "stored")
    /\ Relink({})
    /\ job' = [job EXCEPT !.step = "linked"]
    /\ UNCHANGED <<rows, incidents, snapshots, patterns, request, backfill, retries, counters>>

ReconcileIncidents ==
    /\ AtStep("deployment", "linked")
    /\ incidents' = Incidents(deployments)
    /\ job' = [job EXCEPT !.step = "reconciled", !.affected = {job.delivery.state.finished}]
    /\ UNCHANGED <<rows, links, snapshots, patterns, request, backfill, retries, outdated, counters>>

-----------------------------------------------------------------------------
(* A pull request or a review.  The handler reads the provider's current   *)
(* state, so the row never goes back.                                      *)

UpsertPull(delivery) ==
    LET merged == delivery.state.merged IN
    /\ pulls' = [pulls EXCEPT ![delivery.id] = delivery.state]
    /\ job' = IF merged # 0 THEN Handler(delivery, "stored") ELSE None
    /\ UNCHANGED <<deployments, derived, snapshots, patterns, request, backfill, outdated>>

\* Every delivery replaces commits, dates and reviews; those of an open pull request
\* may have become any.  A merge and what was merged are final.
Successor(old, new) ==
    old.merged # 0 => /\ new.merged = old.merged
                      /\ new.commits = old.commits /\ new.first = old.first

PullDelivered ==
    \E p \in Pulls, state \in PullStates :
        /\ job = None
        /\ deliveries < MaxDeliveries
        /\ deliveries' = deliveries + 1
        /\ Successor(pulls[p], state)
        /\ UpsertPull([kind |-> "pull", id |-> p, state |-> state])
        /\ UNCHANGED <<retries, disturbances>>

AffectedByPull(merged, before, after) == {merged, before, after} \ {0}

\* A page of the backfill that is due stores pull requests and asks for nothing.
PullImported ==
    \E p \in Pulls, state \in PullStates :
        /\ job = None
        /\ backfill
        /\ deliveries < MaxDeliveries
        /\ deliveries' = deliveries + 1
        /\ Successor(pulls[p], state)
        /\ pulls' = [pulls EXCEPT ![p] = state]
        /\ outdated' = outdated \cup
              IF state.merged = 0 THEN {}
              ELSE Holding(AffectedByPull(state.merged, FirstShipment(links, p),
                                          FirstShipment(Links(deployments, pulls'), p)))
        /\ UNCHANGED <<deployments, derived, snapshots, patterns, request, backfill, job,
                       retries, disturbances>>

RelinkPull ==
    LET p == job.delivery.id IN
    /\ AtStep("pull", "stored")
    /\ Relink({p})
    /\ job' = [job EXCEPT !.step = "reconciled",
                          !.affected = AffectedByPull(pulls[p].merged, FirstShipment(links, p),
                                                      FirstShipment(links', p))]
    /\ UNCHANGED <<rows, incidents, snapshots, patterns, request, backfill, retries, counters>>

\* Reviews of a known pull request are replaced by the provider's list.
ReviewDelivered ==
    \E p \in Pulls, state \in PullStates :
        /\ job = None
        /\ deliveries < MaxDeliveries
        /\ deliveries' = deliveries + 1
        /\ pulls[p].known
        /\ pulls[p] # state /\ pulls[p] = [state EXCEPT !.review = pulls[p].review]
        /\ pulls' = [pulls EXCEPT ![p] = state]
        /\ job' = IF state.merged = 0 THEN None
                  ELSE [Handler([kind |-> "review", id |-> p, state |-> state], "reconciled")
                            EXCEPT !.affected = {state.merged}]
        /\ UNCHANGED <<deployments, derived, snapshots, patterns, request, backfill,
                       retries, outdated, disturbances>>

-----------------------------------------------------------------------------
\* The last transaction of a webhook handler.
AskForRecalculation ==
    /\ job # None /\ job.step = "reconciled"
    /\ Ask(job.affected)
    /\ job' = None
    /\ UNCHANGED <<rows, derived, snapshots, patterns, backfill, retries, outdated, counters>>

\* It dies before that; its job is retried.  What a pull request's handler had read
\* before it relinked is lost with it.
HandlerDies ==
    /\ job # None
    /\ job.delivery.kind \in {"deployment", "pull", "review"}
    /\ disturbances < MaxDisturbances
    /\ disturbances' = disturbances + 1
    /\ retries' = retries \cup {job.delivery}
    /\ outdated' = outdated \cup IF job.delivery.kind = "pull" THEN Holding(job.affected) ELSE {}
    /\ job' = None
    /\ UNCHANGED <<rows, derived, snapshots, patterns, request, backfill, deliveries>>

\* A retried pull request is read again from the provider.
Retry ==
    \E delivery \in retries :
        /\ job = None
        /\ retries' = retries \ {delivery}
        /\ \/ delivery.kind = "deployment" /\ UpsertDeployment(delivery)
           \/ /\ delivery.kind = "pull"
              /\ \E state \in PullStates : /\ Successor(pulls[delivery.id], state)
                                           /\ UpsertPull([delivery EXCEPT !.state = state])
           \/ /\ delivery.kind = "review"
              /\ job' = [Handler(delivery, "reconciled") EXCEPT !.affected = {delivery.state.merged}]
              /\ UNCHANGED <<rows, derived, snapshots, patterns, request, backfill, outdated>>
        /\ UNCHANGED counters

-----------------------------------------------------------------------------
(* Recalculation. *)

RecalculationStarts ==
    /\ job = None
    /\ request # None
    /\ job' = Handler([kind |-> "recalculation", id |-> None, state |-> request], "stored")
    /\ request' = None
    /\ UNCHANGED <<rows, derived, snapshots, patterns, backfill, retries, outdated, counters>>

\* adept-api stores new patterns and queues a backfill.  A handler reads them once,
\* in the step that takes the lease: a change during its work is one after it.
ChangeSettings ==
    /\ job = None
    /\ disturbances < MaxDisturbances
    /\ disturbances' = disturbances + 1
    /\ \E s \in SUBSET Environments : patterns' = s
    /\ backfill' = TRUE
    /\ UNCHANGED <<rows, derived, snapshots, request, job, retries, outdated, deliveries>>

\* The last page of a full backfill: every row is classified again, whenever it
\* finished, and the periods of the backfill's own range are recalculated.
BackfillReclassifies ==
    /\ job = None
    /\ backfill
    /\ deployments' = [d \in Deployments |->
          [deployments[d] EXCEPT !.production = deployments[d].environment \in patterns]]
    /\ outdated' = IF deployments' = deployments THEN outdated ELSE AllBuckets
    /\ \E range \in BackfillRanges :
          job' = Handler([kind |-> "backfill", id |-> None, state |-> range], "stored")
    /\ backfill' = FALSE
    /\ UNCHANGED <<pulls, derived, snapshots, patterns, request, retries, counters>>

Recalculating(step) == AtStep("recalculation", step) \/ AtStep("backfill", step)

RebuildDerived ==
    /\ Recalculating("stored")
    /\ Relink({})
    /\ incidents' = Incidents(deployments)
    /\ job' = [job EXCEPT !.step = "rebuilt"]
    /\ UNCHANGED <<rows, snapshots, patterns, request, backfill, retries, counters>>

\* A deployment in the range completes the stages of pull requests merged before it.
CycleFrom(range) ==
    Min({range.from} \cup {pulls[p].merged : p \in {q \in Pulls :
        /\ pulls[q].merged # 0
        /\ \E i \in Shipped(deployments, links, q) : range.from <= i /\ i <= range.to}})

\* A backfill gives dates, a request the instants it affects.
RangeBuckets(g, work) ==
    LET range == work.state IN
    IF work.kind = "backfill" THEN PeriodBuckets(g, range.from, range.to)
    ELSE RecalculationBuckets(g, range.from, range.to)

\* Variant: stage snapshots of the range's own days only.
CycleBucketsOfRange(g, work) == RangeBuckets(g, work)

CycleBuckets(g, work) ==
    LET range == work.state IN
    IF work.kind = "backfill" THEN PeriodBuckets(g, range.from, range.to)
    ELSE RecalculationBuckets(g, CycleFrom(range), range.to)

\* All snapshots of a recalculation are upserted in one transaction.
WriteSnapshots ==
    LET rebuilt(g) == RangeBuckets(g, job.delivery)
        cycle(g) == CycleBuckets(g, job.delivery)
    IN
    /\ Recalculating("rebuilt")
    /\ snapshots' = [gb \in AllBuckets |->
          LET now == BucketSnapshots(gb[1], gb[2], deployments, links, incidents, pulls) IN
          [m \in DOMAIN now |->
              IF gb[2] \in (IF m = "cycle" THEN cycle(gb[1]) ELSE rebuilt(gb[1]))
              THEN now[m] ELSE snapshots[gb][m]]]
    /\ outdated' = {gb \in outdated : gb[2] \notin rebuilt(gb[1]) \cap cycle(gb[1])}
    /\ job' = None
    /\ UNCHANGED <<rows, derived, patterns, request, backfill, retries, counters>>

RecalculationDies ==
    /\ job # None /\ job.delivery.kind \in {"recalculation", "backfill"}
    /\ disturbances < MaxDisturbances
    /\ disturbances' = disturbances + 1
    /\ IF job.delivery.kind = "backfill"
       THEN backfill' = TRUE /\ UNCHANGED request
       ELSE request' = job.delivery.state /\ UNCHANGED backfill
    /\ job' = None
    /\ UNCHANGED <<rows, derived, snapshots, patterns, retries, outdated, deliveries>>

Next ==
    \/ DeploymentDelivered \/ RelinkDeployments \/ ReconcileIncidents
    \/ PullDelivered \/ PullImported \/ RelinkPull \/ ReviewDelivered
    \/ AskForRecalculation \/ HandlerDies \/ Retry
    \/ RecalculationStarts \/ RebuildDerived \/ WriteSnapshots \/ RecalculationDies
    \/ ChangeSettings \/ BackfillReclassifies

Spec == Init /\ [][Next]_vars

-----------------------------------------------------------------------------
Quiet == job = None /\ request = None /\ retries = {}

\* A pull request enters the metrics when it is merged; before that its
\* observations come and go with recalculations asked for by others.
OfMerged(observations) == {o \in observations : pulls[o.key].merged # 0}

Agrees(stored, true) ==
    /\ \A m \in {"frequency", "failures", "recovery", "cycle"} : stored[m] = true[m]
    /\ OfMerged(stored.leadTime) = OfMerged(true.leadTime)

\* A bucket's snapshots are what the stored rows say about its period.
Correct(gb) ==
    Agrees(snapshots[gb],
           BucketSnapshots(gb[1], gb[2], deployments, Links(deployments, pulls),
                           Incidents(deployments), pulls))

\* "Every bucket spanning that burst is recalculated, along with the bucket
\* immediately before it so boundary-sensitive metrics remain correct"
\* (calculator.py:130): once no request is left, every bucket is correct.  It is not
\* (MetricMoved.cfg): a deployment that finishes again leaves its old bucket behind.
BurstsRecalculated == Quiet => \A gb \in AllBuckets : Correct(gb)

\* What holds: once no request is left, the ranges that the handlers asked for were
\* wide enough for every change they made, except those that reach buckets no handler
\* asks for, and for these a bucket that has been rebuilt since is correct again.
SnapshotsCorrect == Quiet => \A gb \in AllBuckets \ outdated : Correct(gb)

\* An alert rule over a rolling window of such days counts each successful production
\* deployment that finished in the window, once and with its own instant.
AlertWindowExact ==
    Quiet => \A from \in 0 .. Horizon : \A to \in from + 1 .. Horizon + 1 :
        (\A b \in PeriodBuckets("DAY", from, to) : <<"DAY", b>> \notin outdated)
        => WindowObservations([b \in Starts("DAY") |-> snapshots[<<"DAY", b>>].frequency],
                              from, to)
             = {[key |-> d, at |-> deployments[d].finished] :
                   d \in {s \in Successes(deployments) :
                       from <= deployments[s].finished /\ deployments[s].finished < to}}
=============================================================================
