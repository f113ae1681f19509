------------------------ MODULE MetricFreshnessProofs ------------------------
(***************************************************************************)
(* Proofs about MetricFreshness: stored snapshots agree with the rows once *)
(* nothing is left to do, except in buckets that a change no handler asks  *)
(* for has touched and no recalculation has rebuilt since; alert windows   *)
(* over the others count every deployment once.  They hold for any         *)
(* calendars, deployments, pull requests, backfill ranges and bounds.      *)
(*                                                                         *)
(* Neither is inductive.  What is: a snapshot of a bucket that is not      *)
(* outdated and that the rows contradict is in a range that the request, a *)
(* handler or a retry owes.  A new deployment changes only the buckets of  *)
(* its own instant and those of the merges it completes; a pull request    *)
(* that is merged changes those of its first shipment before and after.    *)
(***************************************************************************)
EXTENDS MetricFreshness, WellFoundedInduction, TLAPS

RunRows == {NoDeployment} \cup
    [finished : Instants, environment : Environments, production : BOOLEAN,
     status : {run.status : run \in Runs}, sha : {run.sha : run \in Runs}]

\* A bucket's snapshots of some tables, and which deployments ship a pull request in them.
SnapshotsOf(g, b, deps, prs) ==
    BucketSnapshots(g, b, deps, Links(deps, prs), Incidents(deps), prs)
ShippedIn(deps, prs, p) == Shipped(deps, Links(deps, prs), p)

Expected(g, b) == SnapshotsOf(g, b, deployments, pulls)
ShippedNow(p) == ShippedIn(deployments, pulls, p)

\* Types.
PullRows == PullStates \cup {NoPull}

Typed ==
    /\ deployments \in [Deployments -> RunRows]
    /\ pulls \in [Pulls -> PullRows]
    /\ patterns \subseteq Environments
    /\ request \in Ranges \cup {None}
    /\ backfill \in BOOLEAN
    /\ job \in Handlers \cup {None}
    /\ retries \subseteq Work
    /\ outdated \subseteq AllBuckets

\* What handlers and retries know of.
Known == retries \cup IF job = None THEN {} ELSE {job.delivery}

\* The first shipment by the stored links, and by those a relinking would store.
Before(p) == FirstShipment(links, p)
After(p) == Earliest(ShippedNow(p))

\* A run has stored its row as a production deployment.
StoredBy(w) ==
    deployments[w.id] = [finished |-> w.state.finished, environment |-> w.state.environment,
                         production |-> TRUE, status |-> w.state.status, sha |-> w.state.sha]

\* The instants that some work has changed: in the four metrics, and in the stages.
MetricInstants(w) ==
    CASE w.kind = "deployment" -> {i \in {w.state.finished} : StoredBy(w)}
      [] w.kind = "pull" -> {Before(w.id), After(w.id)} \ {0}
      [] OTHER -> {}
StageInstants(w) ==
    CASE w.kind = "deployment" -> {i \in {w.state.finished} : StoredBy(w)}
      [] w.kind \in {"pull", "review"} -> {w.state.merged}
      [] OTHER -> {}

\* The steps of each handler.
Steps(kind) ==
    CASE kind = "deployment" -> {"stored", "linked", "reconciled"}
      [] kind = "pull" -> {"stored", "reconciled"}
      [] kind = "review" -> {"reconciled"}
      [] OTHER -> {"stored", "rebuilt"}

\* A handler asks for all it has changed, and a recalculation has fresh links.
HandlerInv ==
    job # None =>
        /\ job.step \in Steps(job.delivery.kind)
        /\ job.step = "reconciled" =>
              /\ job.affected # {}
              /\ MetricInstants(job.delivery) \cup StageInstants(job.delivery) \subseteq job.affected
        /\ job.step = "rebuilt" => links = Links(deployments, pulls) /\ incidents = Incidents(deployments)
        /\ job.delivery.kind = "recalculation" => request = None

\* A handled or retried pull request is merged, at the instant its row has.
PullsInv ==
    \A w \in Known : w.kind \in {"pull", "review"} =>
        w.state.merged # 0 /\ pulls[w.id].merged = w.state.merged

\* Links are of stored deployments.
LinksInv == links \subseteq Stored(deployments) \X Pulls

\* What the request, the handlers and the retries will have rebuilt.
At(i) == [from |-> i, to |-> i]
Requests ==
    ({request} \ {None})
        \cup (IF job # None /\ job.delivery.kind = "recalculation" THEN {job.delivery.state} ELSE {})
ToAsk ==
    {i \in Instants : \/ \E w \in Known : i \in MetricInstants(w)
                      \/ /\ job # None /\ job.delivery.kind = "pull" /\ job.step = "reconciled"
                         /\ i \in job.affected}
ToStage == {i \in Instants : \E w \in Known : i \in StageInstants(w)}
OwedMetrics == Requests \cup {At(i) : i \in ToAsk}
OwedStages == Requests \cup {At(i) : i \in ToStage}

Meets(g, b, from, to) == b \in Starts(g) /\ End(g, b) > from /\ b <= to

Rebuilds(r, g, b) == Meets(g, b, r.from, r.to)

\* From the merge of a pull request that a deployment in the range shipped.
RebuildsCycle(r, g, b) ==
    \/ Meets(g, b, r.from, r.to)
    \/ \E q \in Pulls : /\ pulls[q].merged # 0 /\ Meets(g, b, pulls[q].merged, r.to)
                        /\ \E i \in ShippedNow(q) : r.from <= i /\ i <= r.to

\* All but the stages; lead times of pull requests not merged yet are nobody's to rebuild.
MetricsAgree(stored, expected) ==
    /\ stored.frequency = expected.frequency /\ stored.failures = expected.failures
    /\ stored.recovery = expected.recovery /\ OfMerged(stored.leadTime) = OfMerged(expected.leadTime)

\* A snapshot the rows contradict is owed or outdated.
SnapshotsInv ==
    \A g \in Granularities : \A b \in Starts(g) : <<g, b>> \notin outdated =>
        /\ \/ MetricsAgree(snapshots[<<g, b>>], Expected(g, b))
           \/ \E r \in OwedMetrics : Rebuilds(r, g, b)
        /\ \/ snapshots[<<g, b>>].cycle = Expected(g, b).cycle
           \/ \E r \in OwedStages : RebuildsCycle(r, g, b)

\* The handler that merges a pull request finds its observation through the links.
UnmergedInv ==
    \A g \in Granularities : \A b \in Starts(g) : <<g, b>> \notin outdated =>
        \A o \in snapshots[<<g, b>>].leadTime :
            /\ o.key \in Pulls /\ In(o.at, g, b)
            /\ pulls[o.key].merged = 0 => o.at # 0 /\ o.at = Before(o.key)

FreshInv ==
    Typed /\ HandlerInv /\ PullsInv /\ LinksInv /\ UnmergedInv /\ SnapshotsInv

-----------------------------------------------------------------------------
(* Instants, calendars and ranges.                                         *)

\* A set of naturals has a least member, and a greatest if it is bounded.
LEMMA HasLeast ==
    ASSUME NEW S, S \subseteq Nat, S # {}
    PROVE  Min(S) \in S /\ \A y \in S : Min(S) <= y
<1>1. \E x \in S : \A y \in S : ~(<<y, x>> \in OpToRel(<, Nat))
  BY NatLessThanWellFounded, WFMin, Zenon
<1>2. PICK x \in S : \A y \in S : ~(<<y, x>> \in OpToRel(<, Nat))
  BY <1>1
<1>3. \A y \in S : ~(y < x)
  <2>1. \A y \in S : y \in Nat /\ x \in Nat
    OBVIOUS
  <2> QED BY <1>2, <2>1, Zenon DEF OpToRel
<1>4. \E z \in S : \A y \in S : z <= y
  <2>1. \A y \in S : x <= y
    BY <1>3
  <2> QED BY <2>1
<1> QED BY <1>4 DEF Min

LEMMA HasGreatest ==
    ASSUME NEW S, S \subseteq Nat, S # {}, NEW n \in Nat, \A x \in S : x <= n
    PROVE  Max(S) \in S /\ \A y \in S : Max(S) >= y
<1> DEFINE T == {n - x : x \in S}
<1>1. T \subseteq Nat /\ T # {}
  <2>1. \A x \in S : n - x \in Nat
    OBVIOUS
  <2> QED BY <2>1
<1>2. Min(T) \in T /\ \A y \in T : Min(T) <= y
  BY <1>1, HasLeast
<1>3. PICK x \in S : n - x = Min(T)
  BY <1>2
<1>4. \A y \in S : x >= y
  <2> SUFFICES ASSUME NEW y \in S PROVE x >= y
    OBVIOUS
  <2>1. n - x <= n - y
    BY <1>2, <1>3
  <2> QED BY <2>1
<1>5. \E z \in S : \A y \in S : z >= y
  BY <1>4
<1> QED BY <1>5 DEF Max

\* The earliest of some instants.
LEMMA EarliestOf ==
    ASSUME NEW S, S \subseteq Instants
    PROVE  /\ S = {} => Earliest(S) = 0
           /\ S # {} => Earliest(S) \in S /\ \A y \in S : Earliest(S) <= y
           /\ Earliest(S) \in Instants \cup {0}
<1>1. S \subseteq Nat
  BY DEF Instants
<1> QED BY <1>1, HasLeast DEF Earliest

\* A period ends at the next boundary.
LEMMA EndOf ==
    ASSUME NEW g \in Granularities, NEW b \in Starts(g)
    PROVE  /\ b \in Nat /\ b \in Calendar[g] /\ End(g, b) \in Calendar[g]
           /\ End(g, b) \in Nat /\ b < End(g, b)
           /\ \A x \in Calendar[g] : x > b => End(g, b) <= x
<1>1. PICK last \in Calendar[g] : \A x \in Calendar[g] : x <= last
  BY CalendarAssumption DEF Granularities
<1>2. Calendar[g] \subseteq Nat /\ b \in Calendar[g] /\ b # Max(Calendar[g])
  BY CalendarAssumption DEF Granularities, Starts
<1>3. Max(Calendar[g]) \in Calendar[g] /\ \A x \in Calendar[g] : Max(Calendar[g]) >= x
  BY <1>1, <1>2, HasGreatest
<1> DEFINE S == {x \in Calendar[g] : x > b}
<1>4. S \subseteq Nat /\ Max(Calendar[g]) \in S
  <2>1. Max(Calendar[g]) > b
    BY <1>2, <1>3
  <2> QED BY <1>2, <1>3, <2>1
<1>5. Min(S) \in S /\ \A x \in S : Min(S) <= x
  BY <1>4, HasLeast
<1> QED BY <1>2, <1>5 DEF End

\* A wider range meets what a range meets.
LEMMA MeetsWider ==
    ASSUME NEW g \in Granularities, NEW b, NEW from \in Nat, NEW to \in Nat,
           NEW from2 \in Nat, NEW to2 \in Nat, Meets(g, b, from, to), from2 <= from, to <= to2
    PROVE  Meets(g, b, from2, to2)
<1>1. b \in Starts(g) /\ End(g, b) > from /\ b <= to
  BY DEF Meets
<1>2. End(g, b) \in Nat /\ b \in Nat
  BY <1>1, EndOf
<1> QED BY <1>1, <1>2 DEF Meets

\* The bucket of an instant, and of a merge before it.
LEMMA InMeets ==
    ASSUME NEW g \in Granularities, NEW b \in Starts(g), NEW i \in Nat, NEW to \in Nat,
           In(i, g, b), i <= to
    PROVE  Meets(g, b, i, to)
<1>1. End(g, b) \in Nat /\ b \in Nat /\ b <= i /\ i < End(g, b)
  BY EndOf DEF In
<1> QED BY <1>1 DEF Meets

\* A range of one instant meets its bucket only.
LEMMA MeetsIn ==
    ASSUME NEW g \in Granularities, NEW b, NEW i \in Nat, Rebuilds(At(i), g, b)
    PROVE  b \in Starts(g) /\ In(i, g, b)
<1>1. b \in Starts(g) /\ End(g, b) > i /\ b <= i
  BY DEF Rebuilds, Meets, At
<1>2. End(g, b) \in Nat /\ b \in Nat
  BY <1>1, EndOf
<1> QED BY <1>1, <1>2 DEF In

\* A recalculation rebuilds what its range meets.
LEMMA RangeRebuilt ==
    ASSUME NEW w, w.kind = "recalculation", NEW g \in Granularities, NEW b \in Starts(g),
           Rebuilds(w.state, g, b)
    PROVE  b \in RangeBuckets(g, w)
BY DEF Rebuilds, Meets, RangeBuckets, RecalculationBuckets

-----------------------------------------------------------------------------
(* What a new run changes, if it is the last to finish.                    *)

\* The rows of one deployment more.
Adds(deps, deps2, d) ==
    /\ deps \in [Deployments -> RunRows] /\ deps2 \in [Deployments -> RunRows]
    /\ d \in Deployments /\ deps[d].finished = 0 /\ deps2[d].finished \in Instants
    /\ \A x \in Deployments \ {d} :
          deps2[x] = deps[x] /\ deps[x].finished < deps2[d].finished

\* A row has finished at an instant, or is the empty one.
LEMMA FinishedTyped ==
    ASSUME NEW deps \in [Deployments -> RunRows], NEW d \in Deployments
    PROVE  /\ deps[d].finished \in Instants \cup {0} /\ deps[d].finished \in Nat
           /\ deps[d].finished = 0 <=> deps[d] = NoDeployment
<1>1. Horizon \in Nat /\ deps[d] \in RunRows
  BY FreshnessAssumption
<1>2. NoDeployment.finished = 0
  BY DEF NoDeployment
<1>3. \A row \in RunRows \ {NoDeployment} : row.finished \in Instants
  BY DEF RunRows
<1> QED BY <1>1, <1>2, <1>3 DEF Instants

\* Instants of what was shipped.
LEMMA ShippedTyped ==
    ASSUME NEW deps \in [Deployments -> RunRows], NEW lks, NEW p
    PROVE  Shipped(deps, lks, p) \subseteq Instants
<1>1. \A d \in Successes(deps) : d \in Deployments /\ deps[d].finished # 0
  BY DEF Successes, Stored
<1> QED BY <1>1, FinishedTyped DEF Shipped

\* The tables differ in the new deployment only.
LEMMA AddsStored ==
    ASSUME NEW deps, NEW deps2, NEW d, Adds(deps, deps2, d)
    PROVE  /\ Stored(deps) = Stored(deps2) \ {d} /\ d \in Stored(deps2)
           /\ Successes(deps) = Successes(deps2) \ {d}
           /\ Failures(deps) = Failures(deps2) \ {d}
           /\ \A x \in Stored(deps) : /\ x \in Deployments /\ x # d /\ deps2[x] = deps[x]
                                      /\ deps[x].finished \in Instants
                                      /\ deps[x].finished < deps2[d].finished
<1>1. DOMAIN deps = Deployments /\ DOMAIN deps2 = Deployments /\ 0 \notin Instants
  BY DEF Adds, Instants
<1>2. d \notin Stored(deps) /\ d \in Stored(deps2)
  BY <1>1 DEF Adds, Stored
<1>3. \A x \in Deployments \ {d} : deps2[x] = deps[x]
  BY DEF Adds
<1>4. Stored(deps) = Stored(deps2) \ {d}
  BY <1>1, <1>2, <1>3 DEF Stored
<1>5. \A x \in Stored(deps) : x \in Deployments /\ deps[x].finished \in Instants
  BY <1>1, FinishedTyped DEF Adds, Stored
<1> QED BY <1>1, <1>2, <1>3, <1>4, <1>5 DEF Successes, Failures, Adds

\* Links of deployments before it stay what they are.
LEMMA AddsLinks ==
    ASSUME NEW deps, NEW deps2, NEW d, Adds(deps, deps2, d), NEW prs
    PROVE  Links(deps, prs) = {l \in Links(deps2, prs) : l[1] # d}
<1> USE AddsStored
<1>1. ExactLinks(deps, prs) = {l \in ExactLinks(deps2, prs) : l[1] # d}
  BY DEF ExactLinks
<1>2. ASSUME NEW x \in Successes(deps)
      PROVE  {deps[y].finished : y \in Successes(deps)} \cap (0 .. deps[x].finished - 1)
                 = {deps2[y].finished : y \in Successes(deps2)} \cap (0 .. deps2[x].finished - 1)
  <2>1. x \in Stored(deps) /\ deps2[x] = deps[x] /\ deps[x].finished \in Nat
        /\ deps[x].finished < deps2[d].finished /\ deps2[d].finished \in Nat
    BY DEF Successes, Instants, Adds
  <2>2. ~(deps2[d].finished \in 0 .. deps2[x].finished - 1)
    BY <2>1
  <2>3. \A y \in Successes(deps) : deps2[y] = deps[y]
    BY DEF Successes
  <2> QED BY <2>1, <2>2, <2>3
<1>3. WindowLinks(deps, prs) = {l \in WindowLinks(deps2, prs) : l[1] # d}
  <2>1. \A x \in Successes(deps) : x # d /\ deps2[x] = deps[x]
    BY DEF Successes
  <2>2. Successes(deps) = Successes(deps2) \ {d}
    OBVIOUS
  <2>3. ASSUME NEW l \in Successes(deps) \X DOMAIN prs
        PROVE  l \in WindowLinks(deps, prs) <=> l \in WindowLinks(deps2, prs)
    <3>1. l[1] \in Successes(deps) /\ l \in Successes(deps2) \X DOMAIN prs
      BY <2>2
    <3> QED BY <1>2, <2>1, <3>1 DEF WindowLinks
  <2>4. \A l \in WindowLinks(deps2, prs) :
          l[1] # d => l \in Successes(deps) \X DOMAIN prs
    BY <2>2 DEF WindowLinks
  <2>5. \A l \in WindowLinks(deps, prs) : l \in Successes(deps) \X DOMAIN prs /\ l[1] # d
    BY <2>1 DEF WindowLinks
  <2> QED BY <2>3, <2>4, <2>5
<1> QED BY <1>1, <1>3 DEF Links

\* The same instants, or one more that is later than all; the earliest stays.
LEMMA EarliestKept ==
    ASSUME NEW S, NEW T, S \subseteq Instants, T \subseteq Instants, S \subseteq T, S # {},
           NEW f \in Nat, T \subseteq S \cup {f}, \A i \in S : i < f
    PROVE  Earliest(T) = Earliest(S)
<1>1. Earliest(S) \in S /\ Earliest(T) \in T
      /\ (\A i \in S : Earliest(S) <= i) /\ (\A i \in T : Earliest(T) <= i)
  BY EarliestOf
<1>2. /\ Earliest(T) \in Nat /\ \A i \in S : i \in Nat
      /\ Earliest(S) \in Nat
  <2>1. \A i \in Instants : i \in Nat
    BY DEF Instants
  <2> QED BY <1>1, <2>1
<1>3. Earliest(T) <= Earliest(S)
  BY <1>1
<1>4. Earliest(T) \in S
  BY <1>1, <1>2, <1>3
<1> QED BY <1>1, <1>2, <1>3, <1>4

\* The new run ships at its own instant, later than all others.
LEMMA AddsShipped ==
    ASSUME NEW deps, NEW deps2, NEW d, Adds(deps, deps2, d), NEW prs, NEW p
    PROVE  LET old == ShippedIn(deps, prs, p)
               new == ShippedIn(deps2, prs, p)
               f == deps2[d].finished
           IN  /\ old \subseteq new /\ new \subseteq old \cup {f}
               /\ old \subseteq Instants /\ new \subseteq Instants
               /\ \A i \in old : i < f
               /\ d \notin Successes(deps2) => new = old
               /\ old # {} => Earliest(new) = Earliest(old)
<1> DEFINE old == ShippedIn(deps, prs, p)
           new == ShippedIn(deps2, prs, p)
           f == deps2[d].finished
<1>1. old \subseteq Instants /\ new \subseteq Instants
  BY ShippedTyped DEF Adds, ShippedIn
<1>2. \A s \in Successes(deps) : /\ s \in Successes(deps2) /\ s # d /\ deps2[s] = deps[s]
                                 /\ deps[s].finished < f
                                 /\ (<<s, p>> \in Links(deps, prs) <=> <<s, p>> \in Links(deps2, prs))
  <2>1. \A s \in Successes(deps) : s \in Successes(deps2) /\ s # d /\ deps2[s] = deps[s]
                                   /\ deps[s].finished < f
    BY AddsStored DEF Successes
  <2>2. \A s : s # d => (<<s, p>> \in Links(deps, prs) <=> <<s, p>> \in Links(deps2, prs))
    BY AddsLinks
  <2> QED BY <2>1, <2>2
<1>3. \A s \in Successes(deps2) : s = d \/ s \in Successes(deps)
  BY AddsStored
<1>4. old \subseteq new /\ new \subseteq old \cup {f} /\ \A i \in old : i < f
  BY <1>2, <1>3 DEF ShippedIn, Shipped
<1>5. d \notin Successes(deps2) => new = old
  BY <1>2, <1>3 DEF ShippedIn, Shipped
<1>6. f \in Nat
  BY DEF Adds, Instants
<1> HIDE DEF old, new, f
<1>7. old # {} => Earliest(new) = Earliest(old)
  BY <1>1, <1>4, <1>6, EarliestKept
<1> QED BY <1>1, <1>4, <1>5, <1>7 DEF old, new, f

\* A bucket that the new run is not in keeps its observations.
LEMMA AddsFrequency ==
    ASSUME NEW deps, NEW deps2, NEW d, Adds(deps, deps2, d), NEW g, NEW b,
           ~In(deps2[d].finished, g, b) \/ ~deps2[d].production
    PROVE  /\ DeploymentFrequency(g, b, deps2) = DeploymentFrequency(g, b, deps)
           /\ ChangeFailureRate(g, b, deps2, Incidents(deps2))
                = ChangeFailureRate(g, b, deps, Incidents(deps))
<1>1. DeploymentFrequency(g, b, deps2) = DeploymentFrequency(g, b, deps)
  <2>1. {s \in Successes(deps2) : In(deps2[s].finished, g, b)}
            = {s \in Successes(deps) : In(deps[s].finished, g, b)}
    <3>1. \A s \in Successes(deps) : s # d /\ deps2[s] = deps[s]
      BY AddsStored DEF Successes
    <3>2. d \in Successes(deps2) => ~In(deps2[d].finished, g, b)
      BY DEF Successes
    <3> QED BY <3>1, <3>2, AddsStored
  <2>2. \A s \in Successes(deps) : deps2[s] = deps[s]
    BY AddsStored DEF Successes
  <2> QED BY <2>1, <2>2 DEF DeploymentFrequency
<1>2. ChangeFailureRate(g, b, deps2, Incidents(deps2))
        = ChangeFailureRate(g, b, deps, Incidents(deps))
  <2>1. DOMAIN Incidents(deps2) = Failures(deps2) /\ DOMAIN Incidents(deps) = Failures(deps)
    BY DEF Incidents
  <2>2. {s \in Stored(deps2) : deps2[s].production /\ In(deps2[s].finished, g, b)}
            = {s \in Stored(deps) : deps[s].production /\ In(deps[s].finished, g, b)}
    BY AddsStored
  <2>3. \A s \in Stored(deps) : deps2[s] = deps[s]
                                /\ (s \in Failures(deps2) <=> s \in Failures(deps))
    BY AddsStored
  <2> QED BY <2>1, <2>2, <2>3 DEF ChangeFailureRate
<1> QED BY <1>1, <1>2

\* It ends the failures that nothing has ended yet, at its own instant.
LEMMA AddsRecovery ==
    ASSUME NEW deps, NEW deps2, NEW d, Adds(deps, deps2, d), NEW g, NEW b,
           ~In(deps2[d].finished, g, b) \/ ~deps2[d].production
    PROVE  RecoveryTime(g, b, Incidents(deps2)) = RecoveryTime(g, b, Incidents(deps))
<1> DEFINE after(D, i) == {D[y].finished : y \in {z \in Successes(D) : D[z].finished > i}}
           f == deps2[d].finished
<1>1. /\ DOMAIN Incidents(deps2) = Failures(deps2) /\ DOMAIN Incidents(deps) = Failures(deps)
      /\ \A x \in Failures(deps2) : Incidents(deps2)[x] = [detected |-> deps2[x].finished,
                                       resolved |-> Earliest(after(deps2, deps2[x].finished))]
      /\ \A x \in Failures(deps) : Incidents(deps)[x] = [detected |-> deps[x].finished,
                                       resolved |-> Earliest(after(deps, deps[x].finished))]
  BY DEF Incidents
<1>2. /\ f \in Nat /\ \A x \in Successes(deps) : deps[x].finished \in Instants
      /\ \A x \in Successes(deps2) : deps2[x].finished \in Instants
  BY AddsStored DEF Adds, Instants, Successes
<1>3. ASSUME NEW x \in Failures(deps)
      PROVE  LET old == Incidents(deps)[x]
                 new == Incidents(deps2)[x]
             IN  /\ x \in Failures(deps2) /\ new.detected = old.detected
                 /\ \/ new.resolved = old.resolved
                    \/ old.resolved = 0 /\ new.resolved = f /\ d \in Successes(deps2)
  <2>1. x \in Failures(deps2) /\ deps2[x] = deps[x] /\ deps[x].finished \in Nat
        /\ deps[x].finished < f
    BY AddsStored DEF Failures, Instants
  <2> DEFINE S == after(deps, deps[x].finished)
             T == after(deps2, deps2[x].finished)
  <2>2. \A s \in Successes(deps) : s \in Successes(deps2) /\ deps2[s] = deps[s]
                                   /\ deps[s].finished < f
    BY AddsStored DEF Successes
  <2>3. \A s \in Successes(deps2) : s = d \/ s \in Successes(deps)
    BY AddsStored
  <2>4. S \subseteq T /\ T \subseteq S \cup {f} /\ (\A i \in S : i < f)
        /\ (d \notin Successes(deps2) => T = S)
    BY <2>1, <2>2, <2>3
  <2>5. S \subseteq Instants /\ T \subseteq Instants
    BY <1>2
  <2> HIDE DEF S, T
  <2>6. S # {} => Earliest(T) = Earliest(S)
    BY <1>2, <2>4, <2>5, EarliestKept
  <2>7. S = {} => Earliest(S) = 0 /\ (Earliest(T) = 0 \/ (Earliest(T) = f /\ d \in Successes(deps2)))
    BY <2>4, <2>5, EarliestOf
  <2>8. Earliest(T) = Earliest(S) \/ (Earliest(S) = 0 /\ Earliest(T) = f /\ d \in Successes(deps2))
    BY <2>6, <2>7
  <2>9. /\ Incidents(deps2)[x] = [detected |-> deps2[x].finished, resolved |-> Earliest(T)]
        /\ Incidents(deps)[x] = [detected |-> deps[x].finished, resolved |-> Earliest(S)]
    BY <1>1, <2>1 DEF S, T
  <2> HIDE DEF f
  <2> QED BY <2>1, <2>8, <2>9
<1>4. d \in Failures(deps2) => Incidents(deps2)[d].resolved = 0
  <2> SUFFICES ASSUME d \in Failures(deps2) PROVE Incidents(deps2)[d].resolved = 0
    OBVIOUS
  <2>1. \A s \in Successes(deps2) : ~(deps2[s].finished > f)
    <3>1. d \notin Successes(deps2)
      BY DEF Failures, Successes
    <3>2. \A s \in Successes(deps) : deps2[s] = deps[s] /\ deps[s].finished < f
                                     /\ deps[s].finished \in Nat
      BY <1>2, AddsStored DEF Successes, Instants
    <3> QED BY <1>2, <3>1, <3>2, AddsStored
  <2>2. after(deps2, f) = {}
    BY <2>1
  <2> HIDE DEF after
  <2> QED BY <1>1, <2>2 DEF Earliest
<1> HIDE DEF after
<1>5. d \in Successes(deps2) => ~In(f, g, b)
  BY DEF Successes
<1>6. \A x \in Failures(deps2) : x = d \/ x \in Failures(deps)
  BY AddsStored
<1>7. {x \in Failures(deps2) : /\ Incidents(deps2)[x].resolved # 0
                               /\ In(Incidents(deps2)[x].resolved, g, b)}
        = {x \in Failures(deps) : /\ Incidents(deps)[x].resolved # 0
                                  /\ In(Incidents(deps)[x].resolved, g, b)}
  BY <1>3, <1>4, <1>5, <1>6
<1>8. \A x \in Failures(deps) :
        Incidents(deps)[x].resolved # 0 =>
            /\ Incidents(deps2)[x].resolved = Incidents(deps)[x].resolved
            /\ Incidents(deps2)[x].detected = Incidents(deps)[x].detected
  BY <1>3
<1> HIDE DEF f
<1> QED BY <1>1, <1>7, <1>8 DEF RecoveryTime

\* It is the first deployment of what nothing has shipped yet, at its own instant.
LEMMA AddsLeadTime ==
    ASSUME NEW deps, NEW deps2, NEW d, Adds(deps, deps2, d), NEW g, NEW b, NEW prs,
           ~In(deps2[d].finished, g, b) \/ ~deps2[d].production
    PROVE  ChangeLeadTime(g, b, deps2, Links(deps2, prs), prs)
             = ChangeLeadTime(g, b, deps, Links(deps, prs), prs)
<1> DEFINE old(q) == ShippedIn(deps, prs, q)
           new(q) == ShippedIn(deps2, prs, q)
           f == deps2[d].finished
<1>1. ASSUME NEW q
      PROVE  \/ (old(q) = {} <=> new(q) = {}) /\ Earliest(new(q)) = Earliest(old(q))
             \/ old(q) = {} /\ Earliest(new(q)) = f /\ ~In(f, g, b)
  <2>1. /\ old(q) \subseteq new(q) /\ new(q) \subseteq old(q) \cup {f}
        /\ new(q) \subseteq Instants
        /\ d \notin Successes(deps2) => new(q) = old(q)
        /\ old(q) # {} => Earliest(new(q)) = Earliest(old(q))
    BY AddsShipped
  <2>2. new(q) # {} => Earliest(new(q)) \in new(q)
    BY <2>1, EarliestOf
  <2>3. d \in Successes(deps2) => ~In(f, g, b)
    BY DEF Successes
  <2> HIDE DEF old, new, f
  <2>4. CASE old(q) # {}
    BY <2>1, <2>4
  <2>5. CASE old(q) = {} /\ new(q) # {}
    <3>1. Earliest(new(q)) = f /\ d \in Successes(deps2)
      BY <2>1, <2>2, <2>5
    <3> QED BY <2>3, <2>5, <3>1
  <2>6. CASE old(q) = {} /\ new(q) = {}
    BY <2>6
  <2> QED BY <2>4, <2>5, <2>6
<1> DEFINE O(q) == [key |-> q, at |-> Earliest(old(q))]
           N(q) == [key |-> q, at |-> Earliest(new(q))]
<1>2. /\ FirstShipped(deps, Links(deps, prs), prs)
            = {O(q) : q \in {x \in DOMAIN prs : prs[x].first # 0 /\ old(x) # {}}}
      /\ FirstShipped(deps2, Links(deps2, prs), prs)
            = {N(q) : q \in {x \in DOMAIN prs : prs[x].first # 0 /\ new(x) # {}}}
  BY DEF FirstShipped, ShippedIn
<1>3. \A q : (In(N(q).at, g, b) /\ new(q) # {}) \/ (In(O(q).at, g, b) /\ old(q) # {})
                => N(q) = O(q) /\ old(q) # {} /\ new(q) # {}
  <2> HIDE DEF old, new
  <2> SUFFICES ASSUME NEW q, (In(N(q).at, g, b) /\ new(q) # {}) \/ (In(O(q).at, g, b) /\ old(q) # {})
               PROVE  N(q) = O(q) /\ old(q) # {} /\ new(q) # {}
    OBVIOUS
  <2>1. N(q).at = Earliest(new(q)) /\ O(q).at = Earliest(old(q))
    OBVIOUS
  <2> HIDE DEF f
  <2>2. Earliest(new(q)) = Earliest(old(q)) /\ (old(q) = {} <=> new(q) = {})
    BY <1>1, <2>1
  <2> QED BY <2>2
<1> HIDE DEF old, new, O, N
<1>4. \A q : O(q).key = q /\ N(q).key = q
  BY DEF O, N
<1>5. ASSUME NEW o
      PROVE  /\ o \in ChangeLeadTime(g, b, deps2, Links(deps2, prs), prs)
                  => o \in ChangeLeadTime(g, b, deps, Links(deps, prs), prs)
             /\ o \in ChangeLeadTime(g, b, deps, Links(deps, prs), prs)
                  => o \in ChangeLeadTime(g, b, deps2, Links(deps2, prs), prs)
  BY <1>2, <1>3, <1>4 DEF ChangeLeadTime
<1> QED BY <1>5 DEF ChangeLeadTime

\* What the deploy stage of a pull request ends with changes only if the new run ships
\* it, after the merge.
LEMMA AddsCycle ==
    ASSUME NEW deps, NEW deps2, NEW d, Adds(deps, deps2, d), NEW g, NEW b, NEW prs,
           CycleTime(g, b, deps2, Links(deps2, prs), prs)
             # CycleTime(g, b, deps, Links(deps, prs), prs)
    PROVE  /\ d \in Successes(deps2)
           /\ \E q \in DOMAIN prs : /\ prs[q].merged # 0 /\ In(prs[q].merged, g, b)
                                    /\ deps2[d].finished \in ShippedIn(deps2, prs, q)
                                    /\ deps2[d].finished >= prs[q].merged
<1> DEFINE f == deps2[d].finished
           after(D, q) == {i \in ShippedIn(D, prs, q) : i >= prs[q].merged}
<1>1. ASSUME NEW q \in DOMAIN prs,
             d \notin Successes(deps2) \/ f \notin ShippedIn(deps2, prs, q) \/ ~(f >= prs[q].merged)
      PROVE  Deployed(deps2, Links(deps2, prs), prs, q) = Deployed(deps, Links(deps, prs), prs, q)
  <2>1. /\ ShippedIn(deps, prs, q) \subseteq ShippedIn(deps2, prs, q)
        /\ ShippedIn(deps2, prs, q) \subseteq ShippedIn(deps, prs, q) \cup {f}
        /\ d \notin Successes(deps2) => ShippedIn(deps2, prs, q) = ShippedIn(deps, prs, q)
    BY AddsShipped
  <2>2. after(deps2, q) = after(deps, q)
    BY <1>1, <2>1
  <2> QED BY <2>2 DEF Deployed, ShippedIn
<1> DEFINE Q == {q \in DOMAIN prs : prs[q].merged # 0 /\ In(prs[q].merged, g, b)}
<1>2. PICK q \in Q : Deployed(deps2, Links(deps2, prs), prs, q)
                        # Deployed(deps, Links(deps, prs), prs, q)
  BY DEF CycleTime
<1> QED BY <1>1, <1>2

\* All metrics of a bucket together.
LEMMA AddsSnapshots ==
    ASSUME NEW deps, NEW deps2, NEW d, Adds(deps, deps2, d), NEW g, NEW b, NEW prs
    PROVE  LET old == SnapshotsOf(g, b, deps, prs)
               new == SnapshotsOf(g, b, deps2, prs)
               f == deps2[d].finished
           IN  /\ \/ /\ new.frequency = old.frequency /\ new.failures = old.failures
                     /\ new.recovery = old.recovery /\ new.leadTime = old.leadTime
                  \/ deps2[d].production /\ In(f, g, b)
               /\ \/ new.cycle = old.cycle
                  \/ /\ deps2[d].production
                     /\ \E q \in DOMAIN prs : /\ prs[q].merged # 0 /\ In(prs[q].merged, g, b)
                                              /\ f \in ShippedIn(deps2, prs, q) /\ f >= prs[q].merged
<1> DEFINE f == deps2[d].finished
<1>1. ASSUME ~In(f, g, b) \/ ~deps2[d].production
      PROVE  /\ SnapshotsOf(g, b, deps2, prs).frequency = SnapshotsOf(g, b, deps, prs).frequency
             /\ SnapshotsOf(g, b, deps2, prs).failures = SnapshotsOf(g, b, deps, prs).failures
             /\ SnapshotsOf(g, b, deps2, prs).recovery = SnapshotsOf(g, b, deps, prs).recovery
             /\ SnapshotsOf(g, b, deps2, prs).leadTime = SnapshotsOf(g, b, deps, prs).leadTime
  BY <1>1, AddsFrequency, AddsRecovery, AddsLeadTime DEF SnapshotsOf, BucketSnapshots
<1>2. ASSUME SnapshotsOf(g, b, deps2, prs).cycle # SnapshotsOf(g, b, deps, prs).cycle
      PROVE  /\ deps2[d].production
             /\ \E q \in DOMAIN prs : /\ prs[q].merged # 0 /\ In(prs[q].merged, g, b)
                                      /\ f \in ShippedIn(deps2, prs, q) /\ f >= prs[q].merged
  <2>1. CycleTime(g, b, deps2, Links(deps2, prs), prs) # CycleTime(g, b, deps, Links(deps, prs), prs)
    BY <1>2 DEF SnapshotsOf, BucketSnapshots
  <2>2. d \in Successes(deps2)
    BY <2>1, AddsCycle
  <2> QED BY <2>1, <2>2, AddsCycle DEF Successes
<1> QED BY <1>1, <1>2
-----------------------------------------------------------------------------
(* What the provider's new state of a pull request changes.                *)

Moves(prs, prs2, p) ==
    /\ prs \in [Pulls -> PullRows] /\ prs2 \in [Pulls -> PullRows]
    /\ p \in Pulls /\ prs2[p].known /\ Successor(prs[p], prs2[p])
    /\ \A q \in Pulls \ {p} : prs2[q] = prs[q]

\* A merge is at an instant, and that of a known pull request.
LEMMA PullTyped ==
    ASSUME NEW prs \in [Pulls -> PullRows], NEW q \in Pulls
    PROVE  /\ prs[q].merged \in Instants \cup {0} /\ prs[q].merged \in Nat
           /\ prs[q].merged # 0 => prs[q].known
<1>1. prs[q] \in PullStates \/ prs[q] = NoPull
  BY DEF PullRows
<1>2. NoPull.merged = 0
  BY DEF NoPull
<1>3. \A state \in PullStates : state.known /\ state.merged \in Instants \cup {0}
  BY FreshnessAssumption
<1>4. \A i \in Instants \cup {0} : i \in Nat
  BY DEF Instants
<1> QED BY <1>1, <1>2, <1>3, <1>4

\* Links change only for a pull request that was not merged.
LEMMA MovesLinks ==
    ASSUME NEW deps, NEW prs, NEW prs2, NEW p, Moves(prs, prs2, p),
           NEW l, l[2] # p \/ prs[p].merged # 0
    PROVE  l \in Links(deps, prs2) <=> l \in Links(deps, prs)
<1>1. DOMAIN prs = Pulls /\ DOMAIN prs2 = Pulls
  BY DEF Moves
<1>2. l[2] \in Pulls => /\ prs2[l[2]].merged = prs[l[2]].merged
                        /\ (prs2[l[2]].known <=> prs[l[2]].known)
                        /\ prs2[l[2]].commits = prs[l[2]].commits
  <2>1. CASE l[2] # p
    BY <2>1 DEF Moves
  <2>2. CASE l[2] = p
    BY <2>2, PullTyped DEF Moves, Successor
  <2> QED BY <2>1, <2>2
<1>3. l \in ExactLinks(deps, prs2) <=> l \in ExactLinks(deps, prs)
  BY <1>1, <1>2 DEF ExactLinks
<1>4. l \in WindowLinks(deps, prs2) <=> l \in WindowLinks(deps, prs)
  BY <1>1, <1>2 DEF WindowLinks
<1> QED BY <1>3, <1>4 DEF Links

\* So do the instants at which it was shipped.
LEMMA MovesShipped ==
    ASSUME NEW deps, NEW prs, NEW prs2, NEW p, Moves(prs, prs2, p),
           NEW q, q # p \/ prs[p].merged # 0
    PROVE  ShippedIn(deps, prs2, q) = ShippedIn(deps, prs, q)
<1>1. ASSUME NEW s PROVE <<s, q>> \in Links(deps, prs2) <=> <<s, q>> \in Links(deps, prs)
  <2>1. <<s, q>>[2] = q
    OBVIOUS
  <2> QED BY <2>1, MovesLinks
<1> QED BY <1>1 DEF ShippedIn, Shipped

\* A lead time is that of a shipped pull request, in the bucket.
LEMMA LeadTimeOf ==
    ASSUME NEW g, NEW b, NEW deps, NEW prs, NEW o
    PROVE  o \in ChangeLeadTime(g, b, deps, Links(deps, prs), prs) <=>
              /\ o = [key |-> o.key, at |-> o.at] /\ o.key \in DOMAIN prs
              /\ prs[o.key].first # 0 /\ ShippedIn(deps, prs, o.key) # {}
              /\ o.at = Earliest(ShippedIn(deps, prs, o.key))
              /\ In(o.at, g, b) /\ o.at >= prs[o.key].first
<1> DEFINE S == {q \in DOMAIN prs : prs[q].first # 0 /\ ShippedIn(deps, prs, q) # {}}
           O(q) == [key |-> q, at |-> Earliest(ShippedIn(deps, prs, q))]
<1>1. FirstShipped(deps, Links(deps, prs), prs) = {O(q) : q \in S}
  BY DEF FirstShipped, ShippedIn
<1>2. \A q : O(q).key = q /\ O(q).at = Earliest(ShippedIn(deps, prs, q))
  OBVIOUS
<1>3. o \in {O(q) : q \in S} <=> o.key \in S /\ o = O(o.key)
  <2> HIDE DEF S, O
  <2> QED BY <1>2
<1>4. o = O(o.key) <=> /\ o = [key |-> o.key, at |-> o.at]
                       /\ o.at = Earliest(ShippedIn(deps, prs, o.key))
  BY <1>2
<1> HIDE DEF O
<1> QED BY <1>1, <1>3, <1>4 DEF ChangeLeadTime

\* The stages of the pull requests merged in the bucket.
LEMMA MovesCycle ==
    ASSUME NEW deps, NEW prs, NEW prs2, NEW p, Moves(prs, prs2, p),
           NEW g, NEW b, ~(prs2[p].merged # 0 /\ In(prs2[p].merged, g, b))
    PROVE  CycleTime(g, b, deps, Links(deps, prs2), prs2) = CycleTime(g, b, deps, Links(deps, prs), prs)
<1>1. DOMAIN prs = Pulls /\ DOMAIN prs2 = Pulls
  BY DEF Moves
<1> DEFINE Q(P) == {q \in Pulls : P[q].merged # 0 /\ In(P[q].merged, g, b)}
<1>2. Q(prs2) = Q(prs) /\ p \notin Q(prs)
  BY DEF Moves, Successor
<1>3. ASSUME NEW q \in Q(prs)
      PROVE  prs2[q] = prs[q]
             /\ Deployed(deps, Links(deps, prs2), prs2, q) = Deployed(deps, Links(deps, prs), prs, q)
  <2>1. q # p /\ prs2[q] = prs[q]
    BY <1>2 DEF Moves
  <2>2. ShippedIn(deps, prs2, q) = ShippedIn(deps, prs, q)
    BY <2>1, MovesShipped
  <2> QED BY <2>1, <2>2 DEF Deployed, ShippedIn
<1> QED BY <1>1, <1>2, <1>3 DEF CycleTime

-----------------------------------------------------------------------------
(* Types of what handlers work on and ask for.                             *)

\* What each kind of work is about.
LEMMA WorkTyped ==
    ASSUME NEW w \in Work
    PROVE  /\ w.kind \in {"deployment", "pull", "review", "recalculation", "backfill"}
           /\ w.kind = "deployment" => /\ w.id \in Deployments /\ w.state \in Runs
                                       /\ w.state.finished \in Instants
                                       /\ w.state.environment \in Environments
           /\ w.kind \in {"pull", "review"} => /\ w.id \in Pulls /\ w.state \in PullStates
                                               /\ w.state.known
                                               /\ w.state.merged \in Instants \cup {0}
           /\ w.kind \in {"recalculation", "backfill"} => w.state \in Ranges
<1>1. /\ \A run \in Runs : run.finished \in Instants /\ run.environment \in Environments
      /\ \A state \in PullStates : state.known /\ state.merged \in Instants \cup {0}
  BY FreshnessAssumption
<1> QED BY <1>1 DEF Work

\* The parts of the handler under way.
LEMMA JobTyped ==
    ASSUME Typed, job # None
    PROVE  /\ job.delivery \in Work /\ job.affected \subseteq Instants
           /\ job.step \in {"stored", "linked", "reconciled", "rebuilt"}
           /\ job = [delivery |-> job.delivery, step |-> job.step, affected |-> job.affected]
BY DEF Typed, Handlers

\* The range a waiting request is widened to.
LEMMA AskedRange ==
    ASSUME NEW S, S \subseteq Instants, S # {}, NEW r \in Ranges \cup {None}
    PROVE  LET all == S \cup IF r = None THEN {} ELSE {r.from, r.to}
               new == [from |-> Min(all), to |-> Max(all)]
           IN  /\ new \in Ranges
               /\ \A i \in all : new.from <= i /\ i <= new.to
<1> DEFINE all == S \cup IF r = None THEN {} ELSE {r.from, r.to}
<1>1. Horizon \in Nat /\ \A i \in S : i \in Nat /\ i # 0 /\ i <= Horizon
  <2>1. Horizon \in Nat
    BY FreshnessAssumption
  <2> QED BY <2>1 DEF Instants
<1>2. r # None => r.from \in Nat /\ r.to \in Nat
  BY DEF Ranges
<1>3. all \subseteq Nat /\ all # {}
  BY <1>1, <1>2
<1>4. \E n \in Nat : \A i \in all : i <= n
  <2>1. CASE r = None
    BY <1>1, <2>1
  <2>2. CASE r # None
    <3>1. r.from + r.to + Horizon \in Nat
      BY <1>1, <1>2, <2>2
    <3>2. \A i \in all : i <= r.from + r.to + Horizon
      BY <1>1, <1>2, <2>2
    <3> QED BY <3>1, <3>2
  <2> QED BY <2>1, <2>2
<1> HIDE DEF all
<1>5. Min(all) \in all /\ \A i \in all : Min(all) <= i
  BY <1>3, HasLeast
<1>6. Max(all) \in all /\ \A i \in all : Max(all) >= i
  BY <1>3, <1>4, HasGreatest
<1>7. Min(all) \in Nat /\ Max(all) \in Nat /\ Min(all) <= Max(all)
  BY <1>3, <1>5, <1>6
<1>8. \A i \in all : i <= Max(all)
  BY <1>3, <1>6, <1>7
<1> QED BY <1>5, <1>7, <1>8 DEF all, Ranges

\* What is owed are ranges.
LEMMA OwedTyped ==
    ASSUME Typed
    PROVE  OwedMetrics \subseteq Ranges /\ OwedStages \subseteq Ranges
<1>1. \A i \in Instants : At(i) \in Ranges
  BY DEF Instants, At, Ranges
<1>2. Requests \subseteq Ranges
  <2>1. job # None /\ job.delivery.kind = "recalculation" => job.delivery.state \in Ranges
    BY JobTyped, WorkTyped
  <2> QED BY <2>1 DEF Requests, Typed
<1> QED BY <1>1, <1>2 DEF OwedMetrics, OwedStages, ToAsk, ToStage

\* Rebuilding a wider range rebuilds what the range would.
LEMMA WiderRebuilds ==
    ASSUME Typed, NEW r \in Ranges, NEW r2 \in Ranges, r2.from <= r.from, r.to <= r2.to,
           NEW g \in Granularities, NEW b
    PROVE  /\ Rebuilds(r, g, b) => Rebuilds(r2, g, b)
           /\ RebuildsCycle(r, g, b) => RebuildsCycle(r2, g, b)
<1>1. /\ r.from \in Nat /\ r.to \in Nat /\ r2.from \in Nat /\ r2.to \in Nat
  BY DEF Ranges
<1>2. Meets(g, b, r.from, r.to) => Meets(g, b, r2.from, r2.to)
  BY <1>1, MeetsWider
<1>3. ASSUME NEW q \in Pulls, Meets(g, b, pulls[q].merged, r.to)
      PROVE  Meets(g, b, pulls[q].merged, r2.to)
  <2>1. pulls[q].merged \in Nat
    BY PullTyped DEF Typed
  <2> QED BY <1>1, <1>3, <2>1, MeetsWider
<1>4. \A q : \A i \in ShippedNow(q) : r.from <= i /\ i <= r.to => r2.from <= i /\ i <= r2.to
  <2>1. \A q : \A i \in ShippedNow(q) : i \in Nat
    BY ShippedTyped DEF ShippedNow, ShippedIn, Typed, Instants
  <2> QED BY <1>1, <2>1
<1> QED BY <1>2, <1>3, <1>4 DEF Rebuilds, RebuildsCycle


\* What handlers and retries know is work, and what it has changed are instants.
LEMMA KnownTyped ==
    ASSUME Typed, PullsInv, NEW w \in Known
    PROVE  /\ w \in Work /\ MetricInstants(w) \subseteq Instants /\ StageInstants(w) \subseteq Instants
<1>1. w \in Work
  BY JobTyped DEF Known, Typed
<1>2. \A p : Before(p) \in Instants \cup {0} /\ After(p) \in Instants \cup {0}
  BY ShippedTyped, EarliestOf DEF Before, FirstShipment, After, ShippedNow, ShippedIn, Typed
<1>3. CASE w.kind = "deployment"
  BY <1>1, <1>3, WorkTyped DEF MetricInstants, StageInstants
<1>4. CASE w.kind = "pull"
  <2>1. /\ MetricInstants(w) = {Before(w.id), After(w.id)} \ {0}
        /\ StageInstants(w) = {w.state.merged}
    BY <1>4 DEF MetricInstants, StageInstants
  <2>2. w.state.merged \in Instants
    BY <1>1, <1>4, WorkTyped DEF PullsInv
  <2> QED BY <1>1, <1>2, <2>1, <2>2
<1>5. CASE w.kind = "review"
  <2>1. MetricInstants(w) = {} /\ StageInstants(w) = {w.state.merged}
    BY <1>5 DEF MetricInstants, StageInstants
  <2>2. w.state.merged \in Instants
    BY <1>1, <1>5, WorkTyped DEF PullsInv
  <2> QED BY <1>1, <2>1, <2>2
<1>6. CASE w.kind \notin {"deployment", "pull", "review"}
  BY <1>1, <1>6 DEF MetricInstants, StageInstants
<1> QED BY <1>3, <1>4, <1>5, <1>6

-----------------------------------------------------------------------------
(* Types of the steps.                                                     *)

\* A handler that starts.
LEMMA HandlerTyped ==
    ASSUME NEW w \in Work, NEW step \in {"stored", "linked", "reconciled", "rebuilt"}
    PROVE  /\ Handler(w, step) \in Handlers /\ Handler(w, step) # None
           /\ Handler(w, step).delivery = w /\ Handler(w, step).step = step
           /\ Handler(w, step).affected = {}
BY FreshnessAssumption DEF Handler, Handlers

\* A stored run is a row, and its handler goes on or ends.
LEMMA UpsertDeploymentTyped ==
    ASSUME Typed, NEW w \in Work, w.kind = "deployment", UpsertDeployment(w)
    PROVE  /\ deployments' \in [Deployments -> RunRows] /\ job' \in Handlers \cup {None}
           /\ outdated' \subseteq AllBuckets
           /\ UNCHANGED <<pulls, links, incidents, snapshots, patterns, request, backfill>>
<1>1. w.id \in Deployments /\ w.state \in Runs /\ w.state.finished \in Instants
      /\ w.state.environment \in Environments
  BY WorkTyped
<1>2. [finished |-> w.state.finished, environment |-> w.state.environment,
       production |-> w.state.environment \in patterns,
       status |-> w.state.status, sha |-> w.state.sha] \in RunRows
  BY <1>1 DEF RunRows
<1>3. deployments' \in [Deployments -> RunRows]
  BY <1>1, <1>2 DEF UpsertDeployment, Typed
<1>4. job' \in Handlers \cup {None}
  BY HandlerTyped DEF UpsertDeployment
<1>5. outdated' \subseteq AllBuckets
  BY DEF UpsertDeployment, Typed
<1> QED BY <1>3, <1>4, <1>5 DEF UpsertDeployment, derived

\* What a merged pull request affects are instants.
LEMMA AffectedTyped ==
    ASSUME Typed, NEW p \in Pulls, NEW lks
    PROVE  AffectedByPull(pulls[p].merged, Before(p), FirstShipment(lks, p)) \subseteq Instants
<1>1. pulls[p].merged \in Instants \cup {0}
  BY PullTyped DEF Typed
<1>2. \A l : FirstShipment(l, p) \in Instants \cup {0}
  BY ShippedTyped, EarliestOf DEF FirstShipment, Typed
<1> QED BY <1>1, <1>2 DEF AffectedByPull, Before

\* A relinking adds buckets.
LEMMA RelinkTyped ==
    ASSUME Typed, NEW asking, Relink(asking)
    PROVE  /\ links' = Links(deployments, pulls)
           /\ outdated \subseteq outdated' /\ outdated' \subseteq AllBuckets
BY DEF Relink, Holding, Typed

\* A handler that goes on.
LEMMA AdvanceTyped ==
    ASSUME Typed, RelinkDeployments \/ ReconcileIncidents \/ RelinkPull \/ RebuildDerived
    PROVE  /\ job # None /\ job' \in Handlers /\ job'.delivery = job.delivery
           /\ UNCHANGED <<deployments, pulls, snapshots, patterns, request, backfill, retries>>
           /\ outdated \subseteq outdated' /\ outdated' \subseteq AllBuckets
<1>1. /\ job # None
      /\ UNCHANGED <<deployments, pulls, snapshots, patterns, request, backfill, retries>>
  BY DEF RelinkDeployments, ReconcileIncidents, RelinkPull, RebuildDerived, Recalculating,
    AtStep, rows
<1>2. outdated \subseteq outdated' /\ outdated' \subseteq AllBuckets
  BY RelinkTyped DEF RelinkDeployments, ReconcileIncidents, RelinkPull, RebuildDerived, Typed
<1>3. CASE RelinkDeployments \/ RebuildDerived
  BY <1>1, <1>2, <1>3, JobTyped DEF RelinkDeployments, RebuildDerived, Handlers
<1>4. CASE ReconcileIncidents
  <2>1. job.delivery.state.finished \in Instants
    BY <1>4, JobTyped, WorkTyped DEF ReconcileIncidents, AtStep
  <2> QED BY <1>1, <1>2, <1>4, <2>1, JobTyped DEF ReconcileIncidents, Handlers
<1>5. CASE RelinkPull
  <2>1. job.delivery.id \in Pulls
    BY <1>5, JobTyped, WorkTyped DEF RelinkPull, AtStep
  <2>2. job'.affected \subseteq Instants
    BY <1>1, <1>5, <2>1, JobTyped, AffectedTyped DEF RelinkPull, Before
  <2> QED BY <1>1, <1>2, <1>5, <2>2, JobTyped DEF RelinkPull, Handlers
<1> QED BY <1>1, <1>2, <1>3, <1>4, <1>5

LEMMA InitTyped == Init => Typed
<1> SUFFICES ASSUME Init PROVE Typed
  OBVIOUS
<1>1. deployments \in [Deployments -> RunRows] /\ pulls \in [Pulls -> PullRows]
  BY DEF Init, RunRows, PullRows
<1> QED BY <1>1, FreshnessAssumption DEF Init, Typed

LEMMA TypedStep ==
    ASSUME Typed, HandlerInv, PullsInv, Next
    PROVE  Typed'
<1>1. CASE DeploymentDelivered
  <2>1. PICK d \in Deployments, run \in Runs :
          UpsertDeployment([kind |-> "deployment", id |-> d, state |-> run]) /\ UNCHANGED retries
    BY <1>1 DEF DeploymentDelivered
  <2>2. [kind |-> "deployment", id |-> d, state |-> run] \in Work
    BY DEF Work
  <2> QED BY <2>1, <2>2, UpsertDeploymentTyped DEF Typed
<1>2. CASE RelinkDeployments \/ ReconcileIncidents \/ RelinkPull \/ RebuildDerived
  BY <1>2, AdvanceTyped DEF Typed
<1>4. CASE PullDelivered
  <2>1. PICK p \in Pulls, state \in PullStates :
          UpsertPull([kind |-> "pull", id |-> p, state |-> state]) /\ UNCHANGED retries
    BY <1>4 DEF PullDelivered
  <2>2. [kind |-> "pull", id |-> p, state |-> state] \in Work
    BY DEF Work
  <2>3. job' \in Handlers \cup {None}
    BY <2>1, <2>2, HandlerTyped DEF UpsertPull
  <2> QED BY <2>1, <2>3 DEF UpsertPull, Typed, derived, PullRows
<1>5. CASE PullImported
  <2>1. PICK p \in Pulls, state \in PullStates :
          /\ pulls' = [pulls EXCEPT ![p] = state] /\ outdated' \subseteq AllBuckets
          /\ UNCHANGED <<deployments, patterns, request, backfill, job, retries>>
    BY <1>5 DEF PullImported, Holding, Typed
  <2> QED BY <2>1 DEF Typed, PullRows
<1>6. CASE ReviewDelivered
  <2>1. PICK p \in Pulls, state \in PullStates :
          /\ pulls' = [pulls EXCEPT ![p] = state]
          /\ job' = IF state.merged = 0 THEN None
                    ELSE [Handler([kind |-> "review", id |-> p, state |-> state], "reconciled")
                              EXCEPT !.affected = {state.merged}]
          /\ UNCHANGED <<deployments, derived, snapshots, patterns, request, backfill, retries,
                         outdated>>
    BY <1>6 DEF ReviewDelivered
  <2>2. [kind |-> "review", id |-> p, state |-> state] \in Work
    BY DEF Work
  <2>3. state.merged \in Instants \cup {0}
    BY FreshnessAssumption
  <2>4. job' \in Handlers \cup {None}
    BY <2>1, <2>2, <2>3 DEF Handler, Handlers
  <2> QED BY <2>1, <2>4 DEF Typed, PullRows
<1>7. CASE AskForRecalculation
  <2>1. job # None /\ job.step = "reconciled" /\ Ask(job.affected)
    BY <1>7 DEF AskForRecalculation
  <2>2. job.affected # {} /\ job.affected \subseteq Instants
    BY <2>1, JobTyped DEF HandlerInv
  <2>3. request' \in Ranges
    BY <2>1, <2>2, AskedRange DEF Ask, Typed
  <2> QED BY <1>7, <2>3 DEF AskForRecalculation, Typed, rows
<1>8. CASE HandlerDies
  BY <1>8, JobTyped DEF HandlerDies, Holding, Typed, rows
<1>9. CASE Retry
  <2>1. PICK delivery \in retries :
          /\ retries' = retries \ {delivery}
          /\ \/ delivery.kind = "deployment" /\ UpsertDeployment(delivery)
             \/ /\ delivery.kind = "pull"
                /\ \E state \in PullStates : UpsertPull([delivery EXCEPT !.state = state])
             \/ /\ delivery.kind = "review"
                /\ job' = [Handler(delivery, "reconciled") EXCEPT !.affected = {delivery.state.merged}]
                /\ UNCHANGED <<rows, derived, snapshots, patterns, request, backfill, outdated>>
    BY <1>9 DEF Retry
  <2>2. delivery \in Work /\ retries' \subseteq Work
    BY <2>1 DEF Typed
  <2>3. CASE delivery.kind = "deployment" /\ UpsertDeployment(delivery)
    BY <2>2, <2>3, UpsertDeploymentTyped DEF Typed
  <2>4. CASE /\ delivery.kind = "review"
             /\ job' = [Handler(delivery, "reconciled") EXCEPT !.affected = {delivery.state.merged}]
             /\ UNCHANGED <<rows, derived, snapshots, patterns, request, backfill, outdated>>
    <3>1. delivery.state.merged \in Instants
      BY <2>2, <2>4, WorkTyped DEF PullsInv, Known
    <3>2. job' \in Handlers
      BY <2>2, <2>4, <3>1 DEF Handler, Handlers
    <3> QED BY <2>2, <2>4, <3>2 DEF Typed, rows
  <2>5. CASE delivery.kind = "pull"
              /\ \E state \in PullStates : UpsertPull([delivery EXCEPT !.state = state])
    <3>1. PICK state \in PullStates : UpsertPull([delivery EXCEPT !.state = state])
      BY <2>5
    <3>2. [delivery EXCEPT !.state = state] = [kind |-> "pull", id |-> delivery.id, state |-> state]
      BY <2>2, <2>5 DEF Work
    <3>3. [kind |-> "pull", id |-> delivery.id, state |-> state] \in Work
      BY <2>2, <2>5, WorkTyped DEF Work
    <3>4. pulls' = [pulls EXCEPT ![delivery.id] = state] /\ job' \in Handlers \cup {None}
          /\ UNCHANGED <<deployments, patterns, request, backfill, outdated>>
      BY <3>1, <3>2, <3>3, HandlerTyped DEF UpsertPull
    <3> QED BY <2>2, <3>4 DEF Typed, PullRows
  <2> QED BY <2>1, <2>3, <2>4, <2>5
<1>10. CASE RecalculationStarts
  <2>1. [kind |-> "recalculation", id |-> None, state |-> request] \in Work
    BY <1>10 DEF RecalculationStarts, Typed, Work
  <2> QED BY <1>10, <2>1, HandlerTyped DEF RecalculationStarts, Typed, rows
<1>12. CASE WriteSnapshots
  BY <1>12 DEF WriteSnapshots, Typed, rows
<1>13. CASE RecalculationDies
  <2>1. job # None /\ job.delivery.kind \in {"recalculation", "backfill"}
    BY <1>13 DEF RecalculationDies
  <2>2. job.delivery.state \in Ranges
    BY <2>1, JobTyped, WorkTyped
  <2> QED BY <1>13, <2>1, <2>2 DEF RecalculationDies, Typed, rows
<1>14. CASE ChangeSettings
  BY <1>14 DEF ChangeSettings, Typed, rows
<1>15. CASE BackfillReclassifies
  <2>1. \A d \in Deployments :
          [deployments[d] EXCEPT !.production = deployments[d].environment \in patterns] \in RunRows
    <3> SUFFICES ASSUME NEW d \in Deployments
                 PROVE  [deployments[d] EXCEPT !.production = deployments[d].environment \in patterns] \in RunRows
      OBVIOUS
    <3>1. CASE deployments[d] = NoDeployment
      <4>1. (NoDeployment.environment \in patterns) = FALSE
        BY FreshnessAssumption DEF Typed, NoDeployment
      <4>2. [NoDeployment EXCEPT !.production = FALSE] = NoDeployment
        <5>1. /\ NoDeployment.production = FALSE
              /\ DOMAIN NoDeployment = {"finished", "environment", "production", "status", "sha"}
              /\ NoDeployment = [x \in DOMAIN NoDeployment |-> NoDeployment[x]]
          BY DEF NoDeployment
        <5> QED BY <5>1
      <4> QED BY <3>1, <4>1, <4>2 DEF RunRows
    <3>2. CASE deployments[d] # NoDeployment
      <4>1. \A production \in BOOLEAN : [deployments[d] EXCEPT !.production = production] \in RunRows
        BY <3>2 DEF Typed, RunRows
      <4>2. CASE deployments[d].environment \in patterns
        <5>1. (deployments[d].environment \in patterns) = TRUE
          BY <4>2
        <5> QED BY <4>1, <5>1
      <4>3. CASE deployments[d].environment \notin patterns
        <5>1. (deployments[d].environment \in patterns) = FALSE
          BY <4>3
        <5> QED BY <4>1, <5>1
      <4> QED BY <4>2, <4>3
    <3> QED BY <3>1, <3>2
  <2>2. \A range \in BackfillRanges : [kind |-> "backfill", id |-> None, state |-> range] \in Work
    BY FreshnessAssumption DEF Work
  <2>3. job' \in Handlers
    BY <1>15, <2>2, HandlerTyped DEF BackfillReclassifies
  <2>4. deployments' \in [Deployments -> RunRows] /\ outdated' \subseteq AllBuckets
    BY <1>15, <2>1 DEF BackfillReclassifies, Typed
  <2> QED BY <1>15, <2>3, <2>4 DEF BackfillReclassifies, Typed
<1> QED BY <1>1, <1>2, <1>4, <1>5, <1>6, <1>7, <1>8, <1>9, <1>10, <1>12, <1>13, <1>14, <1>15 DEF Next


-----------------------------------------------------------------------------
(* Handlers, retries and links.                                            *)

\* A handler's steps come in order, and it asks for all it changed.
LEMMA HandlerStep ==
    ASSUME Typed, HandlerInv, PullsInv, Next
    PROVE  HandlerInv'
<1>1. ASSUME NEW w, w.kind = "deployment", UpsertDeployment(w) PROVE HandlerInv'
  BY <1>1 DEF UpsertDeployment, Handler, HandlerInv, Steps
<1>2. ASSUME NEW w, w.kind = "pull", UpsertPull(w) PROVE HandlerInv'
  BY <1>2 DEF UpsertPull, Handler, HandlerInv, Steps
<1>3. ASSUME NEW w \in Work, w.kind = "review",
             job' = [Handler(w, "reconciled") EXCEPT !.affected = {w.state.merged}]
      PROVE  HandlerInv'
  <2>1. job' = [delivery |-> w, step |-> "reconciled", affected |-> {w.state.merged}]
    BY <1>3 DEF Handler
  <2> QED BY <1>3, <2>1 DEF HandlerInv, Steps, MetricInstants, StageInstants
<1>4. CASE DeploymentDelivered
  BY <1>1, <1>4 DEF DeploymentDelivered
<1>5. CASE RelinkDeployments
  <2>1. job # None /\ job.delivery.kind = "deployment"
    BY <1>5 DEF RelinkDeployments, AtStep
  <2>2. job'.delivery = job.delivery /\ job'.step = "linked"
    BY <1>5, <2>1, JobTyped DEF RelinkDeployments
  <2> QED BY <2>1, <2>2 DEF HandlerInv, Steps
<1>6. CASE ReconcileIncidents
  <2>1. job # None /\ job.delivery.kind = "deployment"
    BY <1>6 DEF ReconcileIncidents, AtStep
  <2>2. job'.delivery = job.delivery /\ job'.step = "reconciled"
        /\ job'.affected = {job.delivery.state.finished}
    BY <1>6, <2>1, JobTyped DEF ReconcileIncidents
  <2> QED BY <2>1, <2>2 DEF HandlerInv, Steps, MetricInstants, StageInstants
<1>7. CASE PullDelivered
  BY <1>2, <1>7 DEF PullDelivered
<1>8. CASE RelinkPull
  <2>1. job # None /\ job.delivery.kind = "pull" /\ UNCHANGED <<deployments, pulls>>
    BY <1>8 DEF RelinkPull, AtStep, rows
  <2> DEFINE p == job.delivery.id
  <2>2. job'.delivery = job.delivery /\ job'.step = "reconciled"
        /\ job'.affected = AffectedByPull(pulls[p].merged, Before(p), FirstShipment(links', p))
    BY <1>8, <2>1, JobTyped DEF RelinkPull, Before
  <2>3. job.delivery.state.merged # 0 /\ pulls[p].merged = job.delivery.state.merged
    BY <2>1 DEF PullsInv, Known
  <2>4. Before(p)' = FirstShipment(links', p) /\ After(p)' = FirstShipment(links', p)
    <3>1. links' = Links(deployments, pulls)
      BY <1>8 DEF RelinkPull, Relink
    <3> QED BY <2>1, <2>2, <3>1 DEF Before, After, FirstShipment, ShippedNow, ShippedIn
  <2>5. /\ MetricInstants(job.delivery)' = {FirstShipment(links', p)} \ {0}
        /\ StageInstants(job.delivery)' = {pulls[p].merged}
    <3>1. job'.delivery.kind = "pull" /\ job'.delivery.id = p
          /\ job'.delivery.state.merged = pulls[p].merged
      BY <2>1, <2>2, <2>3
    <3> QED BY <2>4, <3>1 DEF MetricInstants, StageInstants
  <2>6. job'.affected = {pulls[p].merged, Before(p), FirstShipment(links', p)} \ {0}
    BY <2>2 DEF AffectedByPull
  <2> HIDE DEF p
  <2> QED BY <2>1, <2>2, <2>3, <2>5, <2>6 DEF HandlerInv, Steps
<1>9. CASE ReviewDelivered
  <2>1. PICK p \in Pulls, state \in PullStates :
          job' = IF state.merged = 0 THEN None
                 ELSE [Handler([kind |-> "review", id |-> p, state |-> state], "reconciled")
                           EXCEPT !.affected = {state.merged}]
    BY <1>9 DEF ReviewDelivered
  <2> DEFINE w == [kind |-> "review", id |-> p, state |-> state]
  <2>2. w \in Work /\ w.kind = "review" /\ w.state = state
    BY DEF Work
  <2>3. CASE state.merged = 0
    BY <2>1, <2>3 DEF HandlerInv
  <2>4. CASE state.merged # 0
    <3>1. job' = [Handler(w, "reconciled") EXCEPT !.affected = {w.state.merged}]
      BY <2>1, <2>4
    <3> HIDE DEF w
    <3> QED BY <1>3, <2>2, <3>1
  <2> QED BY <2>3, <2>4
<1>10. CASE Retry
  <2>1. PICK w \in retries :
          \/ w.kind = "deployment" /\ UpsertDeployment(w)
          \/ w.kind = "pull" /\ \E state \in PullStates : UpsertPull([w EXCEPT !.state = state])
          \/ w.kind = "review"
             /\ job' = [Handler(w, "reconciled") EXCEPT !.affected = {w.state.merged}]
    BY <1>10 DEF Retry
  <2>2. w \in Work
    BY DEF Typed
  <2>3. ASSUME w.kind = "pull", NEW state \in PullStates PROVE [w EXCEPT !.state = state].kind = "pull"
    BY <2>2, <2>3 DEF Work
  <2> QED BY <1>1, <1>2, <1>3, <2>1, <2>2, <2>3
<1>11. CASE RecalculationStarts
  BY <1>11 DEF RecalculationStarts, Handler, HandlerInv, Steps
<1>12. CASE RebuildDerived
  <2>1. job # None /\ job.delivery.kind \in {"recalculation", "backfill"}
        /\ UNCHANGED <<deployments, pulls, request>>
    BY <1>12 DEF RebuildDerived, Recalculating, AtStep, rows
  <2>2. job'.delivery = job.delivery /\ job'.step = "rebuilt"
    BY <1>12, <2>1, JobTyped DEF RebuildDerived
  <2>3. links' = Links(deployments', pulls') /\ incidents' = Incidents(deployments')
    BY <1>12, <2>1 DEF RebuildDerived, Relink
  <2> QED BY <2>1, <2>2, <2>3 DEF HandlerInv, Steps
<1>13. CASE BackfillReclassifies
  BY <1>13 DEF BackfillReclassifies, Handler, HandlerInv, Steps
<1>14. CASE AskForRecalculation \/ HandlerDies \/ WriteSnapshots \/ RecalculationDies
  BY <1>14 DEF AskForRecalculation, HandlerDies, WriteSnapshots, RecalculationDies, HandlerInv
<1>15. CASE ChangeSettings \/ PullImported
  BY <1>15 DEF ChangeSettings, PullImported, HandlerInv
<1> QED BY <1>4, <1>5, <1>6, <1>7, <1>8, <1>9, <1>10, <1>11, <1>12, <1>13, <1>14, <1>15 DEF Next

\* What is stored of a pull request stays merged when it was.
LEMMA MovedPulls ==
    ASSUME Typed, NEW p \in Pulls, NEW state \in PullStates, Successor(pulls[p], state),
           pulls' = [pulls EXCEPT ![p] = state]
    PROVE  /\ pulls'[p] = state /\ \A q \in Pulls \ {p} : pulls'[q] = pulls[q]
           /\ \A q \in Pulls : pulls[q].merged # 0 => pulls'[q].merged = pulls[q].merged
           /\ Moves(pulls, pulls', p)
<1>1. pulls'[p] = state /\ \A q \in Pulls \ {p} : pulls'[q] = pulls[q]
  BY DEF Typed
<1>2. pulls' \in [Pulls -> PullRows] /\ state.known
  BY FreshnessAssumption DEF Typed, PullRows
<1> QED BY <1>1, <1>2 DEF Typed, Successor, Moves

\* Reviews are all that a review changes.
LEMMA ReviewSuccessor ==
    ASSUME NEW row, NEW state \in PullStates, row = [state EXCEPT !.review = row.review]
    PROVE  Successor(row, state) /\ row.merged = state.merged
<1>1. PullStates \subseteq
        [known : {TRUE}, commits : {x.commits : x \in PullStates},
         merged : Instants \cup {0}, first : Instants \cup {0}, opened : Instants \cup {0},
         ready : Instants \cup {0}, review : Instants \cup {0}]
  BY FreshnessAssumption
<1> QED BY <1>1 DEF Successor

\* The retries and the handler of a pull request know its merge.
LEMMA PullsStep ==
    ASSUME Typed, PullsInv, Next
    PROVE  PullsInv'
<1> DEFINE Pulled(w) == w.kind \in {"pull", "review"}
<1>1. ASSUME UNCHANGED pulls, \A w \in Known' : Pulled(w) => w \in Known
      PROVE  PullsInv'
  BY <1>1 DEF PullsInv
<1>2. ASSUME NEW p \in Pulls, NEW state \in PullStates, Successor(pulls[p], state),
             pulls' = [pulls EXCEPT ![p] = state],
             \A w \in Known' : Pulled(w) => \/ w \in Known
                                            \/ w.id = p /\ w.state = state /\ state.merged # 0
      PROVE  PullsInv'
  <2>1. /\ pulls'[p] = state
        /\ \A q \in Pulls : pulls[q].merged # 0 => pulls'[q].merged = pulls[q].merged
    BY <1>2, MovedPulls
  <2>2. ASSUME NEW w \in Known, Pulled(w)
        PROVE  w.state.merged # 0 /\ pulls'[w.id].merged = w.state.merged
    <3>1. w \in Work /\ w.id \in Pulls
      BY <2>2, JobTyped, WorkTyped DEF Known, Typed
    <3>2. w.state.merged # 0 /\ pulls[w.id].merged = w.state.merged
      BY <2>2 DEF PullsInv
    <3> QED BY <2>1, <3>1, <3>2
  <2> QED BY <1>2, <2>1, <2>2 DEF PullsInv
<1>3. CASE DeploymentDelivered
  BY <1>1, <1>3 DEF DeploymentDelivered, UpsertDeployment, Known, Handler
<1>4. CASE RelinkDeployments \/ ReconcileIncidents \/ RelinkPull \/ RebuildDerived
  BY <1>1, <1>4, AdvanceTyped DEF Known
<1>5. CASE PullDelivered
  <2>1. PICK p \in Pulls, state \in PullStates :
          /\ Successor(pulls[p], state) /\ UNCHANGED retries
          /\ UpsertPull([kind |-> "pull", id |-> p, state |-> state])
    BY <1>5 DEF PullDelivered
  <2> DEFINE w == [kind |-> "pull", id |-> p, state |-> state]
  <2>2. job' = (IF state.merged # 0 THEN Handler(w, "stored") ELSE None)
        /\ pulls' = [pulls EXCEPT ![p] = state]
    BY <2>1 DEF UpsertPull
  <2>3. w.id = p /\ w.state = state
    OBVIOUS
  <2> HIDE DEF w
  <2>4. \A x \in Known' : x \in Known \/ (x = w /\ state.merged # 0)
    BY <2>1, <2>2 DEF Known, Handler
  <2>5. \A x \in Known' : x \in Known \/ (x.id = p /\ x.state = state /\ state.merged # 0)
    BY <2>3, <2>4
  <2> QED BY <1>2, <2>1, <2>2, <2>5
<1>6. CASE PullImported
  <2>1. PICK p \in Pulls, state \in PullStates :
          /\ Successor(pulls[p], state) /\ pulls' = [pulls EXCEPT ![p] = state]
          /\ UNCHANGED <<job, retries>>
    BY <1>6 DEF PullImported
  <2> QED BY <1>2, <2>1 DEF Known
<1>7. CASE ReviewDelivered
  <2>1. PICK p \in Pulls, state \in PullStates :
          /\ pulls[p] = [state EXCEPT !.review = pulls[p].review] /\ UNCHANGED retries
          /\ pulls' = [pulls EXCEPT ![p] = state]
          /\ job' = IF state.merged = 0 THEN None
                    ELSE [Handler([kind |-> "review", id |-> p, state |-> state], "reconciled")
                              EXCEPT !.affected = {state.merged}]
    BY <1>7 DEF ReviewDelivered
  <2> DEFINE w == [kind |-> "review", id |-> p, state |-> state]
  <2>2. w.id = p /\ w.state = state
    OBVIOUS
  <2>3. job' # None => job'.delivery = w /\ state.merged # 0
    BY <2>1 DEF Handler
  <2>4. Successor(pulls[p], state)
    BY <2>1, ReviewSuccessor
  <2> HIDE DEF w
  <2>5. \A x \in Known' : x \in Known \/ (x = w /\ state.merged # 0)
    BY <2>1, <2>3 DEF Known
  <2>6. \A x \in Known' : x \in Known \/ (x.id = p /\ x.state = state /\ state.merged # 0)
    BY <2>2, <2>5
  <2> QED BY <1>2, <2>1, <2>4, <2>6
<1>8. CASE Retry
  <2>1. PICK w \in retries :
          /\ retries' = retries \ {w}
          /\ \/ w.kind = "deployment" /\ UpsertDeployment(w)
             \/ /\ w.kind = "pull"
                /\ \E state \in PullStates : /\ Successor(pulls[w.id], state)
                                             /\ UpsertPull([w EXCEPT !.state = state])
             \/ /\ w.kind = "review" /\ UNCHANGED pulls
                /\ job' = [Handler(w, "reconciled") EXCEPT !.affected = {w.state.merged}]
    BY <1>8 DEF Retry, rows
  <2>2. CASE w.kind = "deployment" /\ UpsertDeployment(w)
    BY <1>1, <2>1, <2>2 DEF Known, UpsertDeployment, Handler
  <2>3. CASE /\ w.kind = "review" /\ UNCHANGED pulls
             /\ job' = [Handler(w, "reconciled") EXCEPT !.affected = {w.state.merged}]
    BY <1>1, <2>1, <2>3 DEF Known, Handler
  <2>4. CASE /\ w.kind = "pull"
             /\ \E state \in PullStates : /\ Successor(pulls[w.id], state)
                                          /\ UpsertPull([w EXCEPT !.state = state])
    <3>1. PICK state \in PullStates :
            Successor(pulls[w.id], state) /\ UpsertPull([w EXCEPT !.state = state])
      BY <2>4
    <3> DEFINE w2 == [w EXCEPT !.state = state]
    <3>2. w \in Work /\ w.id \in Pulls
      BY <2>4, WorkTyped DEF Typed
    <3>3. w2.id = w.id /\ w2.state = state
      BY <3>2 DEF Work
    <3>4. job' = (IF w2.state.merged # 0 THEN Handler(w2, "stored") ELSE None)
          /\ pulls' = [pulls EXCEPT ![w2.id] = w2.state]
      BY <3>1 DEF UpsertPull
    <3> HIDE DEF w2
    <3>5. \A x \in Known' : x \in Known \/ (x = w2 /\ w2.state.merged # 0)
      BY <2>1, <3>4 DEF Known, Handler
    <3> QED BY <1>2, <3>1, <3>2, <3>3, <3>4, <3>5
  <2> QED BY <2>1, <2>2, <2>3, <2>4
<1>9. CASE HandlerDies
  BY <1>1, <1>9 DEF HandlerDies, Known, rows
<1>10. CASE AskForRecalculation \/ WriteSnapshots \/ RecalculationDies \/ ChangeSettings
  <2>1. UNCHANGED <<pulls, retries>> /\ job' = None
    BY <1>10 DEF AskForRecalculation, WriteSnapshots, RecalculationDies, ChangeSettings, rows
  <2> QED BY <1>1, <2>1 DEF Known
<1>11. CASE RecalculationStarts \/ BackfillReclassifies
  <2>1. UNCHANGED <<pulls, retries>> /\ job'.delivery.kind \in {"recalculation", "backfill"}
    BY <1>11 DEF RecalculationStarts, BackfillReclassifies, Handler, rows
  <2> QED BY <1>1, <2>1 DEF Known
<1> QED BY <1>3, <1>4, <1>5, <1>6, <1>7, <1>8, <1>9, <1>10, <1>11 DEF Next

\* What was stored is stored.
LEMMA UpsertStored ==
    ASSUME Typed, NEW w \in Work, w.kind = "deployment", UpsertDeployment(w)
    PROVE  Stored(deployments) \subseteq Stored(deployments')
<1>1. w.id \in Deployments /\ w.state.finished \in Instants
  BY WorkTyped
<1>2. \A d \in Deployments : deployments'[d] = deployments[d] \/ deployments'[d].finished \in Instants
  BY <1>1 DEF UpsertDeployment, Typed
<1>3. DOMAIN deployments = Deployments /\ DOMAIN deployments' = Deployments /\ 0 \notin Instants
  BY UpsertDeploymentTyped DEF Typed, Instants
<1> QED BY <1>2, <1>3 DEF Stored

\* Links are of stored deployments.
LEMMA LinksStep ==
    ASSUME Typed, LinksInv, Next
    PROVE  LinksInv'
<1>1. ASSUME UNCHANGED links, Stored(deployments) \subseteq Stored(deployments') PROVE LinksInv'
  BY <1>1 DEF LinksInv
<1>2. CASE RelinkDeployments \/ RelinkPull \/ RebuildDerived
  <2>1. links' = Links(deployments, pulls) /\ UNCHANGED deployments
    BY <1>2 DEF RelinkDeployments, RelinkPull, RebuildDerived, Relink, rows
  <2>2. Links(deployments, pulls) \subseteq Stored(deployments) \X Pulls
    BY DEF Links, ExactLinks, WindowLinks, Successes, Typed
  <2> QED BY <2>1, <2>2 DEF LinksInv
<1>3. CASE DeploymentDelivered
  <2>1. PICK d \in Deployments, run \in Runs :
          UpsertDeployment([kind |-> "deployment", id |-> d, state |-> run])
    BY <1>3 DEF DeploymentDelivered
  <2> DEFINE w == [kind |-> "deployment", id |-> d, state |-> run]
  <2>2. w \in Work /\ w.kind = "deployment" /\ UpsertDeployment(w)
    BY <2>1 DEF Work
  <2> HIDE DEF w
  <2> QED BY <1>1, <2>2, UpsertStored, UpsertDeploymentTyped
<1>4. CASE Retry
  <2>1. PICK w \in retries : \/ w.kind = "deployment" /\ UpsertDeployment(w)
                             \/ UNCHANGED <<deployments, links>>
    BY <1>4 DEF Retry, UpsertPull, rows, derived
  <2>2. w \in Work
    BY DEF Typed
  <2> QED BY <1>1, <2>1, <2>2, UpsertStored, UpsertDeploymentTyped
<1>5. CASE BackfillReclassifies
  <2>1. \A d \in Deployments : deployments'[d] =
          [deployments[d] EXCEPT !.production = deployments[d].environment \in patterns]
    BY <1>5 DEF BackfillReclassifies
  <2>2. \A d \in Deployments : deployments'[d].finished = deployments[d].finished
    <3>1. \A d \in Deployments : deployments[d] \in RunRows
      BY DEF Typed
    <3> QED BY <2>1, <3>1 DEF RunRows, NoDeployment
  <2>3. DOMAIN deployments = Deployments /\ DOMAIN deployments' = Deployments /\ UNCHANGED links
    BY <1>5 DEF BackfillReclassifies, Typed, derived
  <2> QED BY <1>1, <2>2, <2>3 DEF Stored
<1>6. CASE \/ ReconcileIncidents \/ PullDelivered \/ PullImported \/ ReviewDelivered
           \/ AskForRecalculation \/ HandlerDies
  BY <1>1, <1>6 DEF ReconcileIncidents, PullDelivered, UpsertPull, PullImported, ReviewDelivered,
    AskForRecalculation, HandlerDies, rows, derived
<1>7. CASE RecalculationStarts \/ WriteSnapshots \/ RecalculationDies \/ ChangeSettings
  BY <1>1, <1>7 DEF RecalculationStarts, WriteSnapshots, RecalculationDies, ChangeSettings,
    rows, derived
<1> QED BY <1>2, <1>3, <1>4, <1>5, <1>6, <1>7 DEF Next

-----------------------------------------------------------------------------
(* Snapshots agree with the rows, are owed or are outdated.                *)

\* Buckets of granularities.
LEMMA BucketOf ==
    ASSUME NEW g \in Granularities, NEW b \in Starts(g)
    PROVE  /\ <<g, b>> \in AllBuckets
           /\ \A S : (\E i \in S : In(i, g, b)) => <<g, b>> \in Holding(S)
<1>1. <<g, b>> \in AllBuckets /\ <<g, b>>[1] = g /\ <<g, b>>[2] = b
  BY DEF AllBuckets
<1> QED BY <1>1 DEF Holding

\* An instant in a bucket is reason to rebuild it.
LEMMA AtRebuilds ==
    ASSUME NEW g \in Granularities, NEW b \in Starts(g), NEW i \in Instants, In(i, g, b)
    PROVE  Rebuilds(At(i), g, b)
<1>1. i \in Nat
  BY DEF Instants
<1> QED BY <1>1, InMeets DEF Rebuilds, At

\* The rows stay, and what was owed still is or is outdated.
LEMMA SnapshotsKept ==
    ASSUME Typed, Typed', SnapshotsInv, UNCHANGED <<deployments, pulls, snapshots>>,
           outdated \subseteq outdated',
           \A r \in OwedStages : \E r2 \in OwedStages' : r2.from <= r.from /\ r.to <= r2.to,
           \A r \in OwedMetrics :
              \/ \E r2 \in OwedMetrics' : r2.from <= r.from /\ r.to <= r2.to
              \/ \E i \in Instants : r = At(i) /\ Holding({i}) \subseteq outdated'
    PROVE  SnapshotsInv'
<1>1. OwedMetrics \subseteq Ranges /\ OwedStages \subseteq Ranges
  BY OwedTyped
<1>2. OwedMetrics' \subseteq Ranges /\ OwedStages' \subseteq Ranges
  <2>1. (Typed => OwedMetrics \subseteq Ranges /\ OwedStages \subseteq Ranges)'
    BY OwedTyped, PTL
  <2> QED BY <2>1
<1>3. \A g, b : /\ Expected(g, b)' = Expected(g, b)
                /\ \A r : (Rebuilds(r, g, b)' <=> Rebuilds(r, g, b))
                          /\ (RebuildsCycle(r, g, b)' <=> RebuildsCycle(r, g, b))
  BY DEF Expected, Rebuilds, RebuildsCycle, ShippedNow
<1> SUFFICES ASSUME NEW g \in Granularities, NEW b \in Starts(g), <<g, b>> \notin outdated'
             PROVE  /\ MetricsAgree(snapshots[<<g, b>>], Expected(g, b))
                         \/ \E r \in OwedMetrics' : Rebuilds(r, g, b)
                    /\ snapshots[<<g, b>>].cycle = Expected(g, b).cycle
                         \/ \E r \in OwedStages' : RebuildsCycle(r, g, b)
  BY <1>3 DEF SnapshotsInv, MetricsAgree, OfMerged
<1>4. /\ MetricsAgree(snapshots[<<g, b>>], Expected(g, b)) \/ \E r \in OwedMetrics : Rebuilds(r, g, b)
      /\ snapshots[<<g, b>>].cycle = Expected(g, b).cycle \/ \E r \in OwedStages : RebuildsCycle(r, g, b)
  BY DEF SnapshotsInv
<1>5. ASSUME NEW r \in OwedMetrics, Rebuilds(r, g, b)
      PROVE  \E r2 \in OwedMetrics' : Rebuilds(r2, g, b)
  <2>1. ASSUME NEW i \in Instants, r = At(i), Holding({i}) \subseteq outdated' PROVE FALSE
    <3>1. i \in Nat
      BY DEF Instants
    <3>2. In(i, g, b)
      BY <1>5, <2>1, <3>1, MeetsIn
    <3>3. <<g, b>> \in Holding({i})
      BY <3>2, BucketOf
    <3> QED BY <2>1, <3>3
  <2>2. PICK r2 \in OwedMetrics' : r2.from <= r.from /\ r.to <= r2.to
    BY <2>1
  <2> QED BY <1>1, <1>2, <1>5, <2>2, WiderRebuilds
<1>6. ASSUME NEW r \in OwedStages, RebuildsCycle(r, g, b)
      PROVE  \E r2 \in OwedStages' : RebuildsCycle(r2, g, b)
  <2>1. PICK r2 \in OwedStages' : r2.from <= r.from /\ r.to <= r2.to
    OBVIOUS
  <2> QED BY <1>1, <1>2, <1>6, <2>1, WiderRebuilds
<1> QED BY <1>4, <1>5, <1>6

\* The links stay.
LEMMA UnmergedKept ==
    ASSUME UnmergedInv, UNCHANGED <<deployments, pulls, snapshots, links>>,
           outdated \subseteq outdated'
    PROVE  UnmergedInv'
<1>1. \A q : Before(q)' = Before(q)
  BY DEF Before, FirstShipment
<1> QED BY <1>1 DEF UnmergedInv

\* A step that leaves rows and links alone and owes no less.
LEMMA OwedKept ==
    ASSUME Typed, Typed', UnmergedInv, SnapshotsInv,
           UNCHANGED <<deployments, pulls, snapshots, links>>, outdated \subseteq outdated',
           OwedMetrics \subseteq OwedMetrics', OwedStages \subseteq OwedStages'
    PROVE  UnmergedInv' /\ SnapshotsInv'
<1>1. \A r \in OwedMetrics \cup OwedStages : r.from \in Nat /\ r.to \in Nat
  BY OwedTyped DEF Ranges
<1>2. \A r \in OwedMetrics : \E r2 \in OwedMetrics' : r2.from <= r.from /\ r.to <= r2.to
  BY <1>1
<1>3. \A r \in OwedStages : \E r2 \in OwedStages' : r2.from <= r.from /\ r.to <= r2.to
  BY <1>1
<1> QED BY <1>2, <1>3, SnapshotsKept, UnmergedKept

\* A deployment that finished after all others.
LEMMA RunAdded ==
    ASSUME Typed, LinksInv, UnmergedInv, SnapshotsInv, Typed',
           NEW d, Adds(deployments, deployments', d),
           UNCHANGED <<pulls, links, snapshots, outdated>>,
           OwedMetrics \subseteq OwedMetrics', OwedStages \subseteq OwedStages',
           deployments'[d].production => /\ At(deployments'[d].finished) \in OwedMetrics'
                                         /\ At(deployments'[d].finished) \in OwedStages'
    PROVE  UnmergedInv' /\ SnapshotsInv'
<1> DEFINE f == deployments'[d].finished
<1>1. \A q : Before(q)' = Before(q) /\ ShippedNow(q) \subseteq ShippedNow(q)'
  <2>1. \A q : <<d, q>> \notin links
    <3>1. d \notin Stored(deployments)
      BY DEF Adds, Stored
    <3> QED BY <3>1 DEF LinksInv
  <2>2. \A q : Shipped(deployments', links, q) = Shipped(deployments, links, q)
    <3>1. \A x \in Successes(deployments) : deployments'[x] = deployments[x]
      BY AddsStored DEF Successes
    <3>2. Successes(deployments) = Successes(deployments') \ {d}
      BY AddsStored
    <3> QED BY <2>1, <3>1, <3>2 DEF Shipped
  <2> QED BY <2>2, AddsShipped DEF Before, FirstShipment, ShippedNow
<1>2. UnmergedInv'
  BY <1>1 DEF UnmergedInv
<1>3. SnapshotsInv'
  <2> SUFFICES ASSUME NEW g \in Granularities, NEW b \in Starts(g), <<g, b>> \notin outdated
               PROVE  /\ MetricsAgree(snapshots[<<g, b>>], Expected(g, b)')
                           \/ \E r \in OwedMetrics' : Rebuilds(r, g, b)
                      /\ snapshots[<<g, b>>].cycle = Expected(g, b)'.cycle
                           \/ \E r \in OwedStages' : RebuildsCycle(r, g, b)'
    BY DEF SnapshotsInv, MetricsAgree, OfMerged, Rebuilds
  <2>1. f \in Instants /\ f \in Nat /\ b \in Nat
    <3>1. f \in Instants
      BY DEF Adds
    <3> QED BY <3>1, EndOf DEF Instants
  <2>2. /\ MetricsAgree(snapshots[<<g, b>>], Expected(g, b)) \/ \E r \in OwedMetrics : Rebuilds(r, g, b)
        /\ snapshots[<<g, b>>].cycle = Expected(g, b).cycle \/ \E r \in OwedStages : RebuildsCycle(r, g, b)
    BY DEF SnapshotsInv
  <2>3. /\ \/ /\ Expected(g, b)'.frequency = Expected(g, b).frequency
              /\ Expected(g, b)'.failures = Expected(g, b).failures
              /\ Expected(g, b)'.recovery = Expected(g, b).recovery
              /\ Expected(g, b)'.leadTime = Expected(g, b).leadTime
           \/ deployments'[d].production /\ In(f, g, b)
        /\ \/ Expected(g, b)'.cycle = Expected(g, b).cycle
           \/ /\ deployments'[d].production
              /\ \E q \in DOMAIN pulls : /\ pulls[q].merged # 0 /\ In(pulls[q].merged, g, b)
                                         /\ f \in ShippedNow(q)' /\ f >= pulls[q].merged
    BY AddsSnapshots DEF Expected, ShippedNow
  <2>4. deployments'[d].production /\ In(f, g, b) => \E r \in OwedMetrics' : Rebuilds(r, g, b)
    BY <2>1, AtRebuilds
  <2>5. MetricsAgree(snapshots[<<g, b>>], Expected(g, b)') \/ \E r \in OwedMetrics' : Rebuilds(r, g, b)
    BY <2>2, <2>3, <2>4 DEF MetricsAgree
  <2>6. ASSUME NEW r, RebuildsCycle(r, g, b) PROVE RebuildsCycle(r, g, b)'
    BY <1>1, <2>6 DEF RebuildsCycle
  <2>7. ASSUME NEW q \in DOMAIN pulls,
               pulls[q].merged # 0, In(pulls[q].merged, g, b), f \in ShippedNow(q)',
               f >= pulls[q].merged, NEW r, r = At(f)
        PROVE  RebuildsCycle(r, g, b)'
    <3>1. q \in Pulls /\ pulls[q].merged \in Nat
      BY <2>7, PullTyped DEF Typed
    <3>2. Meets(g, b, pulls[q].merged, f)
      BY <2>1, <2>7, <3>1, InMeets
    <3> QED BY <2>1, <2>7, <3>1, <3>2 DEF RebuildsCycle, At
  <2>8. snapshots[<<g, b>>].cycle = Expected(g, b)'.cycle \/ \E r \in OwedStages' : RebuildsCycle(r, g, b)'
    <3>1. CASE Expected(g, b)'.cycle = Expected(g, b).cycle
      BY <2>2, <2>6, <3>1
    <3>2. CASE Expected(g, b)'.cycle # Expected(g, b).cycle
      <4>1. PICK r \in OwedStages' : r = At(f)
        BY <2>3, <3>2
      <4>2. RebuildsCycle(r, g, b)'
        BY <2>3, <2>7, <3>2, <4>1
      <4> QED BY <4>2
    <3> QED BY <3>1, <3>2
  <2> QED BY <2>5, <2>8
<1> QED BY <1>2, <1>3

\* A pull request the provider reports again, merged now perhaps.
LEMMA PullMoved ==
    ASSUME Typed, UnmergedInv, SnapshotsInv, Typed',
           NEW p, Moves(pulls, pulls', p),
           UNCHANGED <<deployments, links, snapshots>>, outdated \subseteq outdated',
           OwedMetrics \subseteq OwedMetrics', OwedStages \subseteq OwedStages',
           pulls'[p].merged # 0 => \/ At(pulls'[p].merged) \in OwedStages'
                                   \/ Holding({pulls'[p].merged}) \subseteq outdated',
           pulls[p].merged = 0 /\ pulls'[p].merged # 0
             => \A i \in {Before(p), After(p)'} \ {0} :
                    At(i) \in OwedMetrics' \/ Holding({i}) \subseteq outdated'
    PROVE  UnmergedInv' /\ SnapshotsInv'
<1>1. /\ p \in Pulls /\ Successor(pulls[p], pulls'[p]) /\ deployments \in [Deployments -> RunRows]
      /\ \A q \in Pulls \ {p} : pulls'[q] = pulls[q]
      /\ DOMAIN pulls = Pulls /\ DOMAIN pulls' = Pulls
  BY DEF Moves, Typed
<1>2. \A q \in Pulls : /\ pulls[q].merged \in Nat /\ pulls'[q].merged \in Nat
                       /\ pulls[q].merged # 0 => pulls'[q].merged = pulls[q].merged
  BY <1>1, PullTyped DEF Typed, Successor
<1>3. \A q : /\ ShippedNow(q) \subseteq Instants /\ ShippedNow(q)' \subseteq Instants
             /\ q # p \/ pulls[p].merged # 0 => ShippedNow(q)' = ShippedNow(q)
  BY <1>1, MovesShipped, ShippedTyped DEF ShippedNow, ShippedIn
<1>4. \A q : Before(q)' = Before(q)
  BY DEF Before, FirstShipment
<1>5. UnmergedInv'
  BY <1>2, <1>4 DEF UnmergedInv
<1>6. ASSUME NEW g \in Granularities, NEW b \in Starts(g), <<g, b>> \notin outdated'
      PROVE  \/ /\ snapshots[<<g, b>>].frequency = Expected(g, b)'.frequency
                /\ snapshots[<<g, b>>].failures = Expected(g, b)'.failures
                /\ snapshots[<<g, b>>].recovery = Expected(g, b)'.recovery
                /\ \A o : pulls'[o.key].merged # 0 =>
                      (o \in snapshots[<<g, b>>].leadTime <=> o \in Expected(g, b)'.leadTime)
             \/ \E r \in OwedMetrics' : Rebuilds(r, g, b)
  <2> SUFFICES ASSUME ~ \E r \in OwedMetrics' : Rebuilds(r, g, b)
               PROVE  /\ snapshots[<<g, b>>].frequency = Expected(g, b)'.frequency
                      /\ snapshots[<<g, b>>].failures = Expected(g, b)'.failures
                      /\ snapshots[<<g, b>>].recovery = Expected(g, b)'.recovery
                      /\ \A o : pulls'[o.key].merged # 0 =>
                            (o \in snapshots[<<g, b>>].leadTime <=> o \in Expected(g, b)'.leadTime)
    OBVIOUS
  <2>0. <<g, b>> \notin outdated
    BY <1>6
  <2>1. MetricsAgree(snapshots[<<g, b>>], Expected(g, b))
    BY <2>0 DEF SnapshotsInv
  <2>2. /\ Expected(g, b)'.frequency = Expected(g, b).frequency
        /\ Expected(g, b)'.failures = Expected(g, b).failures
        /\ Expected(g, b)'.recovery = Expected(g, b).recovery
    BY DEF Expected, SnapshotsOf, BucketSnapshots
  <2>3. /\ Expected(g, b).leadTime
              = ChangeLeadTime(g, b, deployments, Links(deployments, pulls), pulls)
        /\ Expected(g, b)'.leadTime
              = ChangeLeadTime(g, b, deployments, Links(deployments, pulls'), pulls')
    BY DEF Expected, SnapshotsOf, BucketSnapshots
  <2>4. ASSUME NEW o, pulls'[o.key].merged # 0
        PROVE  o \in snapshots[<<g, b>>].leadTime <=> o \in Expected(g, b)'.leadTime
    <3>1. o \in snapshots[<<g, b>>].leadTime \/ o \in Expected(g, b)'.leadTime => o.key \in Pulls
      BY <1>1, <2>0, <2>3, LeadTimeOf DEF UnmergedInv
    <3>2. CASE o.key \in Pulls /\ (o.key # p \/ pulls[p].merged # 0)
      <4>1. pulls[o.key].merged # 0 /\ pulls'[o.key].first = pulls[o.key].first
        BY <1>1, <1>2, <2>4, <3>2 DEF Successor
      <4>2. o \in snapshots[<<g, b>>].leadTime <=> o \in Expected(g, b).leadTime
        BY <2>1, <4>1 DEF MetricsAgree, OfMerged
      <4>3. ShippedIn(deployments, pulls', o.key) = ShippedIn(deployments, pulls, o.key)
        BY <1>3, <3>2 DEF ShippedNow
      <4> QED BY <1>1, <2>3, <4>1, <4>2, <4>3, LeadTimeOf
    <3>3. CASE o.key = p /\ pulls[p].merged = 0
      <4>1. \A i \in {Before(p), After(p)'} \ {0} : i \in Instants => ~In(i, g, b)
        <5> SUFFICES ASSUME NEW i \in {Before(p), After(p)'} \ {0}, i \in Instants, In(i, g, b)
                     PROVE  FALSE
          OBVIOUS
        <5>1. At(i) \in OwedMetrics' \/ Holding({i}) \subseteq outdated'
          BY <2>4, <3>3
        <5>2. Rebuilds(At(i), g, b) /\ <<g, b>> \in Holding({i})
          BY AtRebuilds, BucketOf
        <5> QED BY <1>6, <5>1, <5>2
      <4>2. ASSUME o \in snapshots[<<g, b>>].leadTime PROVE FALSE
        <5>1. In(o.at, g, b) /\ o.at # 0 /\ o.at = Before(p)
          BY <2>0, <3>3, <4>2 DEF UnmergedInv
        <5>2. Before(p) \in Instants \cup {0}
          BY ShippedTyped, EarliestOf DEF Before, FirstShipment, Typed
        <5> QED BY <4>1, <5>1, <5>2
      <4>3. ASSUME o \in Expected(g, b)'.leadTime PROVE FALSE
        <5>1. In(o.at, g, b) /\ ShippedIn(deployments, pulls', p) # {}
              /\ o.at = Earliest(ShippedIn(deployments, pulls', p))
          BY <2>3, <3>3, <4>3, LeadTimeOf
        <5>2. o.at = After(p)' /\ o.at \in Instants
          BY <1>3, <5>1, EarliestOf DEF After, ShippedNow
        <5>3. o.at # 0
          BY <5>2 DEF Instants
        <5> QED BY <4>1, <5>1, <5>2, <5>3
      <4> QED BY <4>2, <4>3
    <3> QED BY <3>1, <3>2, <3>3
  <2> QED BY <2>1, <2>2, <2>4 DEF MetricsAgree
<1>7. ASSUME NEW g \in Granularities, NEW b \in Starts(g), <<g, b>> \notin outdated'
      PROVE  snapshots[<<g, b>>].cycle = Expected(g, b)'.cycle
               \/ \E r \in OwedStages' : RebuildsCycle(r, g, b)'
  <2>1. snapshots[<<g, b>>].cycle = Expected(g, b).cycle \/ \E r \in OwedStages : RebuildsCycle(r, g, b)
    BY <1>7 DEF SnapshotsInv
  <2>2. ASSUME NEW r, RebuildsCycle(r, g, b) PROVE RebuildsCycle(r, g, b)'
    BY <1>2, <1>3, <2>2 DEF RebuildsCycle
  <2>3. CASE pulls'[p].merged # 0 /\ In(pulls'[p].merged, g, b)
    <3>1. <<g, b>> \in Holding({pulls'[p].merged})
      BY <2>3, BucketOf
    <3>2. PICK r \in OwedStages' : r = At(pulls'[p].merged)
      BY <1>7, <2>3, <3>1
    <3>3. Meets(g, b, r.from, r.to)
      BY <1>1, <1>2, <2>3, <3>2, InMeets DEF At
    <3> QED BY <3>3 DEF RebuildsCycle
  <2>4. CASE ~(pulls'[p].merged # 0 /\ In(pulls'[p].merged, g, b))
    <3>1. Expected(g, b)'.cycle = Expected(g, b).cycle
      BY <1>1, <2>4, MovesCycle DEF Expected, SnapshotsOf, BucketSnapshots
    <3> QED BY <2>1, <2>2, <3>1
  <2> QED BY <2>3, <2>4
<1>8. SnapshotsInv'
  <2>1. ASSUME NEW g \in Granularities, NEW b \in Starts(g), <<g, b>> \notin outdated'
        PROVE  MetricsAgree(snapshots[<<g, b>>], Expected(g, b))'
                 \/ \E r \in OwedMetrics' : Rebuilds(r, g, b)
    BY <1>6, <2>1 DEF MetricsAgree, OfMerged
  <2> QED BY <1>7, <2>1 DEF SnapshotsInv, Rebuilds
<1> QED BY <1>5, <1>8

\* Links stored anew: what a first shipment left behind is asked for or outdated.
LEMMA Relinked ==
    ASSUME Typed, PullsInv, UnmergedInv, SnapshotsInv, Typed', NEW asking, Relink(asking),
           UNCHANGED <<deployments, pulls, snapshots, request, retries>>,
           job # None, job' # None, job'.delivery = job.delivery, job.step = "stored",
           \A q \in asking : /\ pulls[q].merged # 0
                             /\ Before(q) # 0 => At(Before(q)) \in OwedMetrics'
    PROVE  UnmergedInv' /\ SnapshotsInv'
<1>1. links' = Links(deployments, pulls) /\ outdated \subseteq outdated'
  BY RelinkTyped
<1>2. \A q : /\ After(q)' = After(q) /\ Before(q)' = FirstShipment(links', q)
             /\ Before(q)' = After(q)
  BY <1>1 DEF After, Before, FirstShipment, ShippedNow, ShippedIn
<1>3. ASSUME NEW q \in Pulls, q \notin asking, Before(q) # Before(q)', Before(q) # 0
      PROVE  Holding({Before(q)}) \subseteq outdated'
  <2> DEFINE P == {x \in Pulls \ asking : FirstShipment(links, x) # FirstShipment(links', x)}
  <2>1. q \in P
    BY <1>2, <1>3 DEF Before
  <2>2. Before(q) \in {FirstShipment(links, x) : x \in P} \ {0}
    BY <1>3, <2>1 DEF Before
  <2>3. outdated' = outdated \cup Holding({FirstShipment(links, x) : x \in P} \ {0})
    BY DEF Relink
  <2> HIDE DEF P
  <2> QED BY <2>2, <2>3 DEF Holding
<1>4. UnmergedInv'
  <2> SUFFICES ASSUME NEW g \in Granularities, NEW b \in Starts(g), <<g, b>> \notin outdated',
                      NEW o \in snapshots[<<g, b>>].leadTime
               PROVE  /\ o.key \in Pulls /\ In(o.at, g, b)
                      /\ pulls[o.key].merged = 0 => o.at # 0 /\ o.at = Before(o.key)'
    BY DEF UnmergedInv
  <2>1. /\ o.key \in Pulls /\ In(o.at, g, b)
        /\ pulls[o.key].merged = 0 => o.at # 0 /\ o.at = Before(o.key)
    BY <1>1 DEF UnmergedInv
  <2>2. ASSUME pulls[o.key].merged = 0, Before(o.key) # Before(o.key)' PROVE FALSE
    <3>1. Holding({Before(o.key)}) \subseteq outdated'
      BY <1>3, <2>1, <2>2
    <3>2. <<g, b>> \in Holding({Before(o.key)})
      BY <2>1, <2>2, BucketOf
    <3> QED BY <3>1, <3>2
  <2> QED BY <2>1, <2>2
<1>5. Known' = Known /\ Requests' = Requests
  BY DEF Known, Requests
<1>6. \A w : StageInstants(w)' = StageInstants(w)
  BY DEF StageInstants, StoredBy
<1>7. OwedStages \subseteq OwedStages'
  BY <1>5, <1>6 DEF OwedStages, ToStage
<1>8. ASSUME NEW r \in OwedMetrics
      PROVE  r \in OwedMetrics' \/ \E i \in Instants : r = At(i) /\ Holding({i}) \subseteq outdated'
  <2>1. CASE r \in Requests
    BY <1>5, <2>1 DEF OwedMetrics
  <2>2. CASE r \notin Requests
    <3>1. PICK i \in Instants : r = At(i) /\ \E w \in Known : i \in MetricInstants(w)
      BY <2>2 DEF OwedMetrics, ToAsk
    <3>2. PICK w \in Known : i \in MetricInstants(w)
      BY <3>1
    <3>3. CASE i \in MetricInstants(w)'
      BY <1>5, <3>1, <3>2, <3>3 DEF OwedMetrics, ToAsk
    <3>4. CASE i \notin MetricInstants(w)'
      <4>1. w.kind = "pull"
        BY <3>2, <3>4 DEF MetricInstants, StoredBy
      <4>2. w.id \in Pulls
        BY <4>1, KnownTyped, WorkTyped
      <4>3. /\ MetricInstants(w) = {Before(w.id), After(w.id)} \ {0}
            /\ MetricInstants(w)' = {Before(w.id)', After(w.id)'} \ {0}
        BY <4>1 DEF MetricInstants
      <4>4. i = Before(w.id) /\ i # 0 /\ Before(w.id) # Before(w.id)'
        BY <1>2, <3>2, <3>4, <4>3
      <4>5. CASE w.id \in asking
        BY <3>1, <4>4, <4>5
      <4>6. CASE w.id \notin asking
        BY <1>3, <3>1, <4>2, <4>4, <4>6
      <4> QED BY <4>5, <4>6
    <3> QED BY <3>3, <3>4
  <2> QED BY <2>1, <2>2
<1>9. \A r \in OwedMetrics \cup OwedStages : r.from \in Nat /\ r.to \in Nat
  BY OwedTyped DEF Ranges
<1>10. \A r \in OwedStages : \E r2 \in OwedStages' : r2.from <= r.from /\ r.to <= r2.to
  BY <1>7, <1>9
<1>11. \A r \in OwedMetrics :
          \/ \E r2 \in OwedMetrics' : r2.from <= r.from /\ r.to <= r2.to
          \/ \E i \in Instants : r = At(i) /\ Holding({i}) \subseteq outdated'
  <2>1. \A r \in OwedMetrics : r.from <= r.from /\ r.to <= r.to
    BY <1>9
  <2> QED BY <1>8, <2>1, Zenon
<1> QED BY <1>1, <1>4, <1>10, <1>11, SnapshotsKept

-----------------------------------------------------------------------------
(* What a recalculation writes.                                            *)

\* From the first merge that a deployment in the range completes.
LEMMA CycleRebuilt ==
    ASSUME Typed, links = Links(deployments, pulls), NEW w, w.kind = "recalculation",
           w.state \in Ranges, NEW g \in Granularities, NEW b \in Starts(g),
           RebuildsCycle(w.state, g, b)
    PROVE  b \in CycleBuckets(g, w)
<1> DEFINE r == w.state
           Q == {q \in Pulls : /\ pulls[q].merged # 0
                               /\ \E i \in Shipped(deployments, links, q) : r.from <= i /\ i <= r.to}
           S == {r.from} \cup {pulls[q].merged : q \in Q}
<1>1. r.from \in Nat /\ r.to \in Nat
  BY DEF Ranges
<1>2. S \subseteq Nat /\ S # {}
  <2>1. \A q \in Q : pulls[q].merged \in Nat
    BY PullTyped DEF Typed
  <2> QED BY <1>1, <2>1
<1>3. CycleFrom(r) = Min(S)
  BY DEF CycleFrom
<1>4. CycleFrom(r) \in Nat /\ \A x \in S : CycleFrom(r) <= x
  BY <1>2, <1>3, HasLeast
<1>5. \A q : ShippedNow(q) = Shipped(deployments, links, q)
  BY DEF ShippedNow, ShippedIn
<1>6. \E x \in S : Meets(g, b, x, r.to)
  <2>1. CASE Meets(g, b, r.from, r.to)
    BY <2>1
  <2>2. CASE \E q \in Pulls : /\ pulls[q].merged # 0 /\ Meets(g, b, pulls[q].merged, r.to)
                              /\ \E i \in ShippedNow(q) : r.from <= i /\ i <= r.to
    BY <1>5, <2>2
  <2> QED BY <2>1, <2>2 DEF RebuildsCycle
<1>7. Meets(g, b, CycleFrom(r), r.to)
  <2> HIDE DEF S, r
  <2>1. PICK x \in S : Meets(g, b, x, r.to)
    BY <1>6
  <2> QED BY <1>1, <1>2, <1>4, <2>1, MeetsWider
<1> QED BY <1>7 DEF CycleBuckets, Meets, RecalculationBuckets

\* The two cases of a written bucket, for the metrics and for the stages.
LEMMA Written ==
    ASSUME WriteSnapshots, NEW g \in Granularities, NEW b \in Starts(g)
    PROVE  LET new == snapshots'[<<g, b>>]
               now == BucketSnapshots(g, b, deployments, links, incidents, pulls)
               old == snapshots[<<g, b>>]
           IN  /\ IF b \in RangeBuckets(g, job.delivery)
                  THEN /\ new.frequency = now.frequency /\ new.failures = now.failures
                       /\ new.recovery = now.recovery /\ new.leadTime = now.leadTime
                  ELSE /\ new.frequency = old.frequency /\ new.failures = old.failures
                       /\ new.recovery = old.recovery /\ new.leadTime = old.leadTime
               /\ IF b \in CycleBuckets(g, job.delivery)
                  THEN new.cycle = now.cycle ELSE new.cycle = old.cycle
               /\ <<g, b>> \in outdated /\ <<g, b>> \notin outdated'
                    => b \in RangeBuckets(g, job.delivery) /\ b \in CycleBuckets(g, job.delivery)
<1> DEFINE work == job.delivery
           now == BucketSnapshots(g, b, deployments, links, incidents, pulls)
           gb == <<g, b>>
<1>1. gb \in AllBuckets /\ gb[1] = g /\ gb[2] = b
  BY DEF AllBuckets
<1>2. snapshots'[gb] = [m \in DOMAIN now |->
          IF b \in (IF m = "cycle" THEN CycleBuckets(g, work) ELSE RangeBuckets(g, work))
          THEN now[m] ELSE snapshots[gb][m]]
  BY <1>1 DEF WriteSnapshots
<1>3. DOMAIN now = {"frequency", "failures", "leadTime", "recovery", "cycle"}
  BY DEF BucketSnapshots
<1>4. gb \in outdated /\ gb \notin outdated' => b \in RangeBuckets(g, work) /\ b \in CycleBuckets(g, work)
  BY <1>1 DEF WriteSnapshots
<1> HIDE DEF now, gb, work
<1> QED BY <1>2, <1>3, <1>4 DEF now, gb, work

\* What a recalculation owed, it has written.
LEMMA SnapshotsWritten ==
    ASSUME Typed, HandlerInv, UnmergedInv, SnapshotsInv, WriteSnapshots
    PROVE  UnmergedInv' /\ SnapshotsInv'
<1> DEFINE work == job.delivery
<1>1. /\ job # None /\ job.step = "rebuilt" /\ work.kind \in {"recalculation", "backfill"}
      /\ job' = None
      /\ UNCHANGED <<deployments, pulls, links, incidents, patterns, request, backfill, retries>>
  BY DEF WriteSnapshots, Recalculating, AtStep, rows, derived
<1>2. links = Links(deployments, pulls) /\ incidents = Incidents(deployments)
  BY <1>1 DEF HandlerInv
<1>3. work \in Work /\ work.state \in Ranges
  BY <1>1, JobTyped, WorkTyped
<1>4. \A g, b : BucketSnapshots(g, b, deployments, links, incidents, pulls) = Expected(g, b)
  BY <1>2 DEF Expected, SnapshotsOf
<1>5. /\ \A w : MetricInstants(w)' = MetricInstants(w) /\ StageInstants(w)' = StageInstants(w)
      /\ MetricInstants(work) = {} /\ StageInstants(work) = {}
  <2>1. \A w : MetricInstants(w)' = MetricInstants(w) /\ StageInstants(w)' = StageInstants(w)
    BY <1>1 DEF MetricInstants, StageInstants, StoredBy, Before, FirstShipment, After, ShippedNow
  <2>2. MetricInstants(work) = {} /\ StageInstants(work) = {}
    BY <1>1 DEF MetricInstants, StageInstants
  <2> QED BY <2>1, <2>2
<1>6. \A w \in Known : w \in Known' \/ w = work
  BY <1>1 DEF Known
<1>7. ToAsk \subseteq ToAsk' /\ ToStage \subseteq ToStage'
  BY <1>1, <1>5, <1>6 DEF ToAsk, ToStage
<1>8. \A r \in Requests : r \in Requests' \/ (r = work.state /\ work.kind = "recalculation")
  BY <1>1 DEF Requests
<1>9. /\ \A r \in OwedMetrics : r \in OwedMetrics' \/ (r = work.state /\ work.kind = "recalculation")
      /\ \A r \in OwedStages : r \in OwedStages' \/ (r = work.state /\ work.kind = "recalculation")
  BY <1>7, <1>8 DEF OwedMetrics, OwedStages
<1>10. /\ \A g, b : Expected(g, b)' = Expected(g, b)
       /\ \A q : Before(q)' = Before(q)
       /\ \A g, b, r : RebuildsCycle(r, g, b)' <=> RebuildsCycle(r, g, b)
  BY <1>1 DEF Expected, Before, FirstShipment, ShippedNow, RebuildsCycle
<1>11. ASSUME NEW g \in Granularities, NEW b \in Starts(g)
       PROVE  LET new == snapshots'[<<g, b>>]
                  now == Expected(g, b)
                  old == snapshots[<<g, b>>]
              IN  /\ IF b \in RangeBuckets(g, work)
                     THEN /\ new.frequency = now.frequency /\ new.failures = now.failures
                          /\ new.recovery = now.recovery /\ new.leadTime = now.leadTime
                     ELSE /\ new.frequency = old.frequency /\ new.failures = old.failures
                          /\ new.recovery = old.recovery /\ new.leadTime = old.leadTime
                  /\ IF b \in CycleBuckets(g, work)
                     THEN new.cycle = now.cycle ELSE new.cycle = old.cycle
                  /\ <<g, b>> \in outdated /\ <<g, b>> \notin outdated'
                       => b \in RangeBuckets(g, work) /\ b \in CycleBuckets(g, work)
  BY <1>4, Written
<1> HIDE DEF work
<1>12. UnmergedInv'
  <2>1. ASSUME NEW g \in Granularities, NEW b \in Starts(g), <<g, b>> \notin outdated',
               NEW o \in snapshots'[<<g, b>>].leadTime
        PROVE  /\ o.key \in Pulls /\ In(o.at, g, b)
               /\ pulls[o.key].merged = 0 => o.at # 0 /\ o.at = Before(o.key)
    <3>1. CASE b \in RangeBuckets(g, work)
      <4>1. o \in Expected(g, b).leadTime
        BY <1>11, <2>1, <3>1
      <4>2. o \in ChangeLeadTime(g, b, deployments, Links(deployments, pulls), pulls)
        BY <4>1 DEF Expected, SnapshotsOf, BucketSnapshots
      <4>3. /\ o.key \in Pulls /\ In(o.at, g, b) /\ ShippedNow(o.key) # {}
            /\ o.at = Earliest(ShippedNow(o.key))
        BY <4>2, LeadTimeOf DEF ShippedNow, Typed
      <4>4. o.at \in Instants
        <5>1. ShippedNow(o.key) \subseteq Instants
          BY ShippedTyped DEF ShippedNow, ShippedIn, Typed
        <5> QED BY <4>3, <5>1, EarliestOf
      <4>5. o.at # 0 /\ o.at = Before(o.key)
        BY <1>2, <4>3, <4>4 DEF Before, FirstShipment, ShippedNow, ShippedIn, Instants
      <4> QED BY <4>3, <4>5
    <3>2. CASE b \notin RangeBuckets(g, work)
      <4>1. o \in snapshots[<<g, b>>].leadTime /\ <<g, b>> \notin outdated
        BY <1>11, <2>1, <3>2
      <4> QED BY <4>1 DEF UnmergedInv
    <3> QED BY <3>1, <3>2
  <2> QED BY <1>1, <1>10, <2>1 DEF UnmergedInv
<1>13. SnapshotsInv'
  <2>1. ASSUME NEW g \in Granularities, NEW b \in Starts(g), <<g, b>> \notin outdated'
        PROVE  /\ MetricsAgree(snapshots'[<<g, b>>], Expected(g, b))
                    \/ \E r \in OwedMetrics' : Rebuilds(r, g, b)
               /\ snapshots'[<<g, b>>].cycle = Expected(g, b).cycle
                    \/ \E r \in OwedStages' : RebuildsCycle(r, g, b)
    <3>1. <<g, b>> \notin outdated =>
            /\ MetricsAgree(snapshots[<<g, b>>], Expected(g, b)) \/ \E r \in OwedMetrics : Rebuilds(r, g, b)
            /\ snapshots[<<g, b>>].cycle = Expected(g, b).cycle
                 \/ \E r \in OwedStages : RebuildsCycle(r, g, b)
      BY DEF SnapshotsInv
    <3>2. MetricsAgree(snapshots'[<<g, b>>], Expected(g, b)) \/ \E r \in OwedMetrics' : Rebuilds(r, g, b)
      <4>1. CASE b \in RangeBuckets(g, work)
        BY <1>11, <4>1 DEF MetricsAgree
      <4>2. CASE b \notin RangeBuckets(g, work)
        <5>1. <<g, b>> \notin outdated
          BY <1>11, <2>1, <4>2
        <5>2. work.kind = "recalculation" => ~Rebuilds(work.state, g, b)
          BY <4>2, RangeRebuilt
        <5>3. MetricsAgree(snapshots'[<<g, b>>], Expected(g, b))
                \/ ~MetricsAgree(snapshots[<<g, b>>], Expected(g, b))
          BY <1>11, <4>2 DEF MetricsAgree
        <5> QED BY <1>9, <3>1, <5>1, <5>2, <5>3
      <4> QED BY <4>1, <4>2
    <3>3. snapshots'[<<g, b>>].cycle = Expected(g, b).cycle \/ \E r \in OwedStages' : RebuildsCycle(r, g, b)
      <4>1. CASE b \in CycleBuckets(g, work)
        BY <1>11, <4>1
      <4>2. CASE b \notin CycleBuckets(g, work)
        <5>1. <<g, b>> \notin outdated
          BY <1>11, <2>1, <4>2
        <5>2. work.kind = "recalculation" => ~RebuildsCycle(work.state, g, b)
          BY <1>2, <1>3, <4>2, CycleRebuilt
        <5>3. snapshots'[<<g, b>>].cycle = snapshots[<<g, b>>].cycle
          BY <1>11, <4>2
        <5> QED BY <1>9, <3>1, <5>1, <5>2, <5>3
      <4> QED BY <4>1, <4>2
    <3> QED BY <3>2, <3>3
  <2> QED BY <1>1, <1>10, <2>1 DEF SnapshotsInv, MetricsAgree, OfMerged, Rebuilds
<1> QED BY <1>12, <1>13

-----------------------------------------------------------------------------
(* No step loses what is owed.                                             *)

\* A run that does not change its row owes nothing if it is not a production deployment's;
\* one that is the last to finish owes its instant; any other makes every bucket outdated.
LEMMA RunStored ==
    ASSUME Typed, PullsInv, LinksInv, UnmergedInv, SnapshotsInv, Typed',
           NEW w \in Work, w.kind = "deployment", UpsertDeployment(w), job = None,
           retries \subseteq retries' \cup {w}
    PROVE  UnmergedInv' /\ SnapshotsInv'
<1> DEFINE d == w.id
           run == w.state
           production == run.environment \in patterns
           new == [finished |-> run.finished, environment |-> run.environment,
                   production |-> production, status |-> run.status, sha |-> run.sha]
<1>1. /\ d \in Deployments /\ run.finished \in Instants /\ run.finished \in Nat /\ run.finished > 0
      /\ deployments \in [Deployments -> RunRows] /\ deployments' \in [Deployments -> RunRows]
  <2>1. d \in Deployments /\ run.finished \in Instants
    BY WorkTyped
  <2> QED BY <2>1 DEF Instants, Typed
<1>2. /\ UNCHANGED <<pulls, links, snapshots, request>>
      /\ deployments' = [deployments EXCEPT ![d] = IF Newer(deployments[d], run) THEN new
                                                   ELSE deployments[d]]
      /\ outdated' = IF deployments' = deployments \/ InOrder(d, run) THEN outdated ELSE AllBuckets
      /\ job' = IF production THEN Handler(w, "stored") ELSE None
  BY <1>1 DEF UpsertDeployment, derived
<1>3. /\ \A x \in Known : x \in Known' \/ x = w
      /\ production => w \in Known'
  <2>1. production => job' # None /\ job'.delivery = w
    BY <1>2, HandlerTyped
  <2> QED BY <2>1 DEF Known
<1>4. Requests \subseteq Requests'
  BY <1>2 DEF Requests
<1>5. /\ new.finished = run.finished /\ new.environment = run.environment
      /\ (new.production <=> production) /\ new.status = run.status /\ new.sha = run.sha
  OBVIOUS
<1>6. ASSUME StoredBy(w), ~production PROVE deployments' # deployments
  <2>1. deployments[d].production = TRUE /\ deployments[d].finished = run.finished
    BY <1>6 DEF StoredBy
  <2>2. Newer(deployments[d], run)
    BY <1>1, <2>1 DEF Newer
  <2>3. deployments'[d] = new
    BY <1>1, <1>2, <2>2
  <2> HIDE DEF new
  <2> QED BY <1>5, <1>6, <2>1, <2>3
<1> HIDE DEF new
<1>7. CASE deployments' = deployments
  <2>1. /\ outdated' = outdated
        /\ \A x : MetricInstants(x)' = MetricInstants(x) /\ StageInstants(x)' = StageInstants(x)
    BY <1>2, <1>7 DEF MetricInstants, StageInstants, StoredBy, Before, FirstShipment, After, ShippedNow
  <2>2. ~production => MetricInstants(w) = {} /\ StageInstants(w) = {}
    BY <1>6, <1>7 DEF MetricInstants, StageInstants
  <2>3. ToAsk \subseteq ToAsk' /\ ToStage \subseteq ToStage'
    BY <1>3, <2>1, <2>2 DEF ToAsk, ToStage
  <2>4. OwedMetrics \subseteq OwedMetrics' /\ OwedStages \subseteq OwedStages'
    BY <1>4, <2>3 DEF OwedMetrics, OwedStages
  <2> QED BY <1>2, <1>7, <2>1, <2>4, OwedKept
<1>8. CASE InOrder(d, run)
  <2>1. deployments[d].finished = 0 /\ outdated' = outdated
    BY <1>2, <1>8 DEF InOrder
  <2>2. deployments'[d] = new
    BY <1>1, <1>2, <2>1 DEF Newer
  <2>3. Adds(deployments, deployments', d)
    <3>1. \A x \in Deployments \ {d} : deployments'[x] = deployments[x]
      BY <1>1, <1>2
    <3>2. ASSUME NEW x \in Deployments PROVE deployments[x].finished < run.finished
      <4>1. deployments[x].finished # 0 => deployments[x].finished < run.finished
        BY <1>1, <1>8, <3>2 DEF InOrder, Stored
      <4> QED BY <1>1, <4>1
    <3> QED BY <1>1, <1>5, <2>1, <2>2, <3>1, <3>2 DEF Adds
  <2>4. ASSUME NEW x \in Known
        PROVE  /\ MetricInstants(x) \subseteq MetricInstants(x)'
               /\ StageInstants(x) \subseteq StageInstants(x)'
               /\ x = w => MetricInstants(x) = {} /\ StageInstants(x) = {}
    <3>1. x \in Work
      BY KnownTyped
    <3>2. CASE x.kind = "deployment"
      <4>1. x.id \in Deployments /\ x.state.finished \in Instants
        BY <3>1, <3>2, WorkTyped
      <4>2. x.id = d => ~StoredBy(x)
        BY <2>1, <4>1 DEF StoredBy, Instants
      <4>3. x.id # d => deployments'[x.id] = deployments[x.id]
        BY <2>3, <4>1 DEF Adds
      <4>4. StoredBy(x) => StoredBy(x)'
        BY <4>2, <4>3 DEF StoredBy
      <4> QED BY <3>2, <4>2, <4>4 DEF MetricInstants, StageInstants
    <3>3. CASE x.kind = "pull"
      <4>1. \A q : Before(q)' = Before(q)
        <5>1. \A q : <<d, q>> \notin links
          BY <2>1 DEF LinksInv, Stored
        <5>2. \A q : Shipped(deployments', links, q) = Shipped(deployments, links, q)
          <6>1. \A y \in Successes(deployments) : deployments'[y] = deployments[y]
            BY <2>3, AddsStored DEF Successes
          <6>2. Successes(deployments) = Successes(deployments') \ {d}
            BY <2>3, AddsStored
          <6> QED BY <5>1, <6>1, <6>2 DEF Shipped
        <5> QED BY <1>2, <5>2 DEF Before, FirstShipment
      <4>2. \A q : After(q) # 0 => After(q)' = After(q)
        <5>1. \A q : ShippedNow(q) # {} => After(q)' = After(q)
          BY <1>2, <2>3, AddsShipped DEF After, ShippedNow
        <5> QED BY <5>1 DEF After, Earliest
      <4>3. {Before(x.id), After(x.id)} \ {0} \subseteq {Before(x.id)', After(x.id)'} \ {0}
        BY <4>1, <4>2
      <4>4. /\ MetricInstants(x) = {Before(x.id), After(x.id)} \ {0}
            /\ MetricInstants(x)' = {Before(x.id)', After(x.id)'} \ {0}
            /\ StageInstants(x)' = StageInstants(x) /\ x # w
        BY <3>3 DEF MetricInstants, StageInstants
      <4> QED BY <4>3, <4>4
    <3>4. CASE x.kind \notin {"deployment", "pull"}
      BY <3>4 DEF MetricInstants, StageInstants
    <3> QED BY <3>2, <3>3, <3>4
  <2>5. ToAsk \subseteq ToAsk' /\ ToStage \subseteq ToStage'
    BY <1>3, <2>4 DEF ToAsk, ToStage
  <2>6. OwedMetrics \subseteq OwedMetrics' /\ OwedStages \subseteq OwedStages'
    BY <1>4, <2>5 DEF OwedMetrics, OwedStages
  <2>7. ASSUME production PROVE run.finished \in ToAsk' /\ run.finished \in ToStage'
    <3>1. StoredBy(w)'
      <4>1. deployments'[w.id] = [finished |-> run.finished, environment |-> run.environment,
                                  production |-> TRUE, status |-> run.status, sha |-> run.sha]
        BY <2>2, <2>7 DEF new
      <4> QED BY <4>1 DEF StoredBy
    <3>2. run.finished \in MetricInstants(w)' /\ run.finished \in StageInstants(w)'
      BY <3>1 DEF MetricInstants, StageInstants
    <3> QED BY <1>1, <1>3, <2>7, <3>2 DEF ToAsk, ToStage
  <2>8. deployments'[d].production => /\ At(deployments'[d].finished) \in OwedMetrics'
                                      /\ At(deployments'[d].finished) \in OwedStages'
    BY <1>5, <2>2, <2>7 DEF OwedMetrics, OwedStages
  <2> HIDE DEF d
  <2> QED BY <1>2, <2>1, <2>3, <2>6, <2>8, RunAdded
<1>9. CASE deployments' # deployments /\ ~InOrder(d, run)
  <2>1. \A g \in Granularities : \A b \in Starts(g) : <<g, b>> \in outdated'
    BY <1>2, <1>9, BucketOf
  <2> QED BY <2>1 DEF UnmergedInv, SnapshotsInv
<1> QED BY <1>7, <1>8, <1>9

\* What the work on pull requests has changed, when one of them is stored again.
LEMMA InstantsMoved ==
    ASSUME Typed, PullsInv, NEW p, Moves(pulls, pulls', p), UNCHANGED <<deployments, links>>,
           NEW w \in Known
    PROVE  MetricInstants(w)' = MetricInstants(w) /\ StageInstants(w)' = StageInstants(w)
<1>1. CASE w.kind = "pull"
  <2>1. w.id \in Pulls /\ pulls[w.id].merged # 0
    BY <1>1, KnownTyped, WorkTyped DEF PullsInv
  <2>2. ShippedNow(w.id)' = ShippedNow(w.id)
    BY <2>1, MovesShipped DEF ShippedNow
  <2>3. Before(w.id)' = Before(w.id) /\ After(w.id)' = After(w.id)
    BY <2>2 DEF Before, FirstShipment, After
  <2> QED BY <1>1, <2>3 DEF MetricInstants, StageInstants
<1>2. CASE w.kind # "pull"
  BY <1>2 DEF MetricInstants, StageInstants, StoredBy
<1> QED BY <1>1, <1>2

\* A pull request is stored by its handler, which goes on if it is merged.
LEMMA PullStored ==
    ASSUME Typed, PullsInv, UnmergedInv, SnapshotsInv, Typed',
           NEW p \in Pulls, NEW state \in PullStates, Successor(pulls[p], state),
           pulls' = [pulls EXCEPT ![p] = state],
           UNCHANGED <<deployments, links, snapshots, request, outdated>>, job = None,
           NEW w \in Work, w.id = p, w.state = state,
           \/ w.kind = "pull"
           \/ w.kind = "review" /\ pulls[p].merged = state.merged,
           state.merged # 0 => job' # None /\ job'.delivery = w,
           \A x \in retries : \/ x \in retries'
                              \/ x.id = p /\ x.kind = w.kind /\ x.kind = "pull"
    PROVE  UnmergedInv' /\ SnapshotsInv'
<1>1. /\ pulls'[p] = state /\ \A q \in Pulls : pulls[q].merged # 0 => pulls'[q].merged = pulls[q].merged
      /\ Moves(pulls, pulls', p)
  BY MovedPulls
<1>2. \A x \in Known : MetricInstants(x)' = MetricInstants(x) /\ StageInstants(x)' = StageInstants(x)
  BY <1>1, InstantsMoved
<1>3. state.merged # 0 => w \in Known'
  BY DEF Known
<1>4. ASSUME NEW x \in Known, x \notin Known'
      PROVE  /\ w \in Known' /\ MetricInstants(x) = MetricInstants(w)'
             /\ StageInstants(x) = StageInstants(w)'
  <2>1. x \in retries /\ x.id = p /\ x.kind = "pull" /\ w.kind = "pull"
    BY <1>4 DEF Known
  <2>2. x.state.merged # 0 /\ pulls[p].merged = x.state.merged /\ state.merged = x.state.merged
    BY <1>1, <2>1 DEF PullsInv, Known
  <2>3. MetricInstants(x)' = MetricInstants(w)' /\ StageInstants(x)' = StageInstants(w)'
    BY <2>1, <2>2 DEF MetricInstants, StageInstants
  <2> QED BY <1>2, <1>3, <2>2, <2>3
<1>5. ToAsk \subseteq ToAsk' /\ ToStage \subseteq ToStage'
  BY <1>2, <1>4 DEF ToAsk, ToStage
<1>6. Requests \subseteq Requests'
  BY DEF Requests
<1>7. OwedMetrics \subseteq OwedMetrics' /\ OwedStages \subseteq OwedStages'
  BY <1>5, <1>6 DEF OwedMetrics, OwedStages
<1>8. ASSUME state.merged # 0
      PROVE  At(pulls'[p].merged) \in OwedStages'
  <2>1. state.merged \in Instants
    BY <1>8, FreshnessAssumption
  <2>2. state.merged \in StageInstants(w)'
    BY DEF StageInstants
  <2>3. state.merged \in ToStage'
    BY <1>3, <1>8, <2>1, <2>2 DEF ToStage
  <2> QED BY <1>1, <2>3 DEF OwedStages
<1>9. ASSUME pulls[p].merged = 0, state.merged # 0, NEW i \in {Before(p), After(p)'} \ {0}
      PROVE  At(i) \in OwedMetrics'
  <2>1. w.kind = "pull"
    BY <1>9
  <2>2. Before(p)' = Before(p)
    BY DEF Before, FirstShipment
  <2>3. MetricInstants(w)' = {Before(p)', After(p)'} \ {0}
    BY <2>1 DEF MetricInstants
  <2>4. Before(p) \in Instants \cup {0} /\ After(p)' \in Instants \cup {0}
    BY ShippedTyped, EarliestOf DEF Before, FirstShipment, After, ShippedNow, ShippedIn, Typed
  <2>5. i \in Instants /\ i \in MetricInstants(w)'
    BY <1>9, <2>2, <2>3, <2>4
  <2>6. i \in ToAsk'
    BY <1>3, <1>9, <2>5 DEF ToAsk
  <2> QED BY <2>6 DEF OwedMetrics
<1> QED BY <1>1, <1>7, <1>8, <1>9, PullMoved

\* A backfill's page asks for nothing: what a merge changes is outdated.
LEMMA ImportStep ==
    ASSUME Typed, PullsInv, UnmergedInv, SnapshotsInv, Typed', PullImported
    PROVE  UnmergedInv' /\ SnapshotsInv'
<1>1. PICK p \in Pulls, state \in PullStates :
        /\ Successor(pulls[p], state) /\ pulls' = [pulls EXCEPT ![p] = state]
        /\ outdated' = outdated \cup
              IF state.merged = 0 THEN {}
              ELSE Holding(AffectedByPull(state.merged, FirstShipment(links, p),
                                          FirstShipment(Links(deployments, pulls'), p)))
        /\ UNCHANGED <<deployments, links, snapshots, request, job, retries>>
  BY DEF PullImported, derived
<1>2. pulls'[p] = state /\ Moves(pulls, pulls', p)
  BY <1>1, MovedPulls
<1>3. \A x \in Known : MetricInstants(x)' = MetricInstants(x) /\ StageInstants(x)' = StageInstants(x)
  BY <1>1, <1>2, InstantsMoved
<1>4. Known' = Known /\ Requests' = Requests
  BY <1>1 DEF Known, Requests
<1>5. ToAsk \subseteq ToAsk' /\ ToStage \subseteq ToStage'
  BY <1>1, <1>3, <1>4 DEF ToAsk, ToStage
<1>6. OwedMetrics \subseteq OwedMetrics' /\ OwedStages \subseteq OwedStages'
  BY <1>4, <1>5 DEF OwedMetrics, OwedStages
<1>7. After(p)' = FirstShipment(Links(deployments, pulls'), p) /\ Before(p) = FirstShipment(links, p)
  BY <1>1 DEF After, ShippedNow, ShippedIn, Before, FirstShipment
<1>8. ASSUME state.merged # 0, NEW i \in {state.merged, Before(p), After(p)'} \ {0}
      PROVE  Holding({i}) \subseteq outdated'
  <2>1. i \in AffectedByPull(state.merged, Before(p), After(p)')
    BY <1>8 DEF AffectedByPull
  <2>2. Holding(AffectedByPull(state.merged, Before(p), After(p)')) \subseteq outdated'
    BY <1>1, <1>7, <1>8
  <2> QED BY <2>1, <2>2 DEF Holding
<1> QED BY <1>1, <1>2, <1>6, <1>8, PullMoved

\* The widened request owes what the handler did.
LEMMA AskStep ==
    ASSUME Typed, HandlerInv, PullsInv, UnmergedInv, SnapshotsInv, Typed', AskForRecalculation
    PROVE  UnmergedInv' /\ SnapshotsInv'
<1>1. /\ job # None /\ job.step = "reconciled" /\ Ask(job.affected) /\ job' = None
      /\ UNCHANGED <<deployments, pulls, links, snapshots, retries, outdated>>
  BY DEF AskForRecalculation, rows, derived
<1>2. /\ job.affected # {} /\ job.affected \subseteq Instants
      /\ MetricInstants(job.delivery) \subseteq job.affected
      /\ StageInstants(job.delivery) \subseteq job.affected
      /\ job.delivery.kind # "recalculation"
  BY <1>1, JobTyped DEF HandlerInv, Steps
<1> DEFINE all == job.affected \cup IF request = None THEN {} ELSE {request.from, request.to}
<1>3. /\ request' \in Ranges /\ \A i \in all : request'.from <= i /\ i <= request'.to
  BY <1>1, <1>2, AskedRange DEF Ask, Typed
<1>4. request' \in Requests'
  BY <1>3, FreshnessAssumption DEF Requests
<1>5. \A x : MetricInstants(x)' = MetricInstants(x) /\ StageInstants(x)' = StageInstants(x)
  BY <1>1 DEF MetricInstants, StageInstants, StoredBy, Before, FirstShipment, After, ShippedNow
<1>6. \A x \in Known : x \in Known' \/ x = job.delivery
  BY <1>1 DEF Known
<1>7. /\ \A i \in ToAsk : i \in ToAsk' \/ i \in job.affected
      /\ \A i \in ToStage : i \in ToStage' \/ i \in job.affected
  BY <1>2, <1>5, <1>6 DEF ToAsk, ToStage
<1>8. \A i \in job.affected : request'.from <= At(i).from /\ At(i).to <= request'.to
  BY <1>3 DEF At
<1>9. \A r \in Requests : request'.from <= r.from /\ r.to <= request'.to
  BY <1>2, <1>3 DEF Requests
<1>10. \A r \in OwedMetrics \cup OwedStages : r.from <= r.from /\ r.to <= r.to
  BY OwedTyped DEF Ranges
<1>11. ASSUME NEW r \in OwedMetrics
       PROVE  \E r2 \in OwedMetrics' : r2.from <= r.from /\ r.to <= r2.to
  <2>1. request' \in OwedMetrics'
    BY <1>4 DEF OwedMetrics
  <2>2. r \in Requests \/ r \in OwedMetrics' \/ \E i \in job.affected : r = At(i)
    BY <1>7 DEF OwedMetrics
  <2> QED BY <1>8, <1>9, <1>10, <2>1, <2>2
<1>12. ASSUME NEW r \in OwedStages
       PROVE  \E r2 \in OwedStages' : r2.from <= r.from /\ r.to <= r2.to
  <2>1. request' \in OwedStages'
    BY <1>4 DEF OwedStages
  <2>2. r \in Requests \/ r \in OwedStages' \/ \E i \in job.affected : r = At(i)
    BY <1>7 DEF OwedStages
  <2> QED BY <1>8, <1>9, <1>10, <2>1, <2>2
<1> QED BY <1>1, <1>11, <1>12, SnapshotsKept, UnmergedKept

\* A handler, or a recalculation, stores the links anew.
LEMMA RelinkStep ==
    ASSUME Typed, PullsInv, UnmergedInv, SnapshotsInv, Typed',
           RelinkDeployments \/ RelinkPull \/ RebuildDerived
    PROVE  UnmergedInv' /\ SnapshotsInv'
<1>1. /\ job # None /\ job' \in Handlers /\ job'.delivery = job.delivery /\ job.step = "stored"
      /\ UNCHANGED <<deployments, pulls, snapshots, request, retries>>
  BY AdvanceTyped DEF RelinkDeployments, RelinkPull, RebuildDerived, Recalculating, AtStep
<1>2. job' # None
  BY <1>1, FreshnessAssumption
<1>3. CASE RelinkDeployments \/ RebuildDerived
  <2>1. Relink({})
    BY <1>3 DEF RelinkDeployments, RebuildDerived
  <2> QED BY <1>1, <1>2, <2>1, Relinked
<1>4. CASE RelinkPull
  <2> DEFINE p == job.delivery.id
  <2>1. Relink({p}) /\ job.delivery.kind = "pull"
    BY <1>4 DEF RelinkPull, AtStep
  <2>2. job'.step = "reconciled"
        /\ job'.affected = AffectedByPull(pulls[p].merged, Before(p), FirstShipment(links', p))
    BY <1>1, <1>4, JobTyped DEF RelinkPull, Before
  <2>3. p \in Pulls /\ pulls[p].merged # 0
    BY <1>1, <2>1, JobTyped, WorkTyped DEF PullsInv, Known
  <2>4. ASSUME Before(p) # 0 PROVE At(Before(p)) \in OwedMetrics'
    <3>1. Before(p) \in job'.affected
      BY <2>2, <2>4 DEF AffectedByPull
    <3>2. Before(p) \in Instants
      BY <2>4, ShippedTyped, EarliestOf DEF Before, FirstShipment, Typed
    <3>3. Before(p) \in ToAsk'
      BY <1>1, <1>2, <2>1, <2>2, <3>1, <3>2 DEF ToAsk
    <3> QED BY <3>3 DEF OwedMetrics
  <2> HIDE DEF p
  <2> QED BY <1>1, <1>2, <2>1, <2>3, <2>4, Relinked
<1> QED BY <1>3, <1>4

\* A run, a pull request or a review comes in or is retried.
LEMMA DeliveryStep ==
    ASSUME FreshInv, Typed', DeploymentDelivered \/ PullDelivered \/ ReviewDelivered \/ Retry
    PROVE  UnmergedInv' /\ SnapshotsInv'
<1> USE DEF FreshInv
<1>1. CASE DeploymentDelivered
  <2>1. PICK d \in Deployments, run \in Runs :
          /\ job = None /\ UNCHANGED retries
          /\ UpsertDeployment([kind |-> "deployment", id |-> d, state |-> run])
    BY <1>1 DEF DeploymentDelivered
  <2> DEFINE w == [kind |-> "deployment", id |-> d, state |-> run]
  <2>2. w \in Work /\ w.kind = "deployment" /\ UpsertDeployment(w)
    BY <2>1 DEF Work
  <2> HIDE DEF w
  <2> QED BY <2>1, <2>2, RunStored
<1>2. CASE PullDelivered
  <2>1. PICK p \in Pulls, state \in PullStates :
          /\ job = None /\ Successor(pulls[p], state) /\ UNCHANGED retries
          /\ UpsertPull([kind |-> "pull", id |-> p, state |-> state])
    BY <1>2 DEF PullDelivered
  <2> DEFINE w == [kind |-> "pull", id |-> p, state |-> state]
  <2>2. w \in Work /\ w.kind = "pull" /\ w.id = p /\ w.state = state /\ UpsertPull(w)
    BY <2>1 DEF Work
  <2> HIDE DEF w
  <2>3. /\ pulls' = [pulls EXCEPT ![p] = state]
        /\ UNCHANGED <<deployments, links, snapshots, request, outdated>>
        /\ state.merged # 0 => job' # None /\ job'.delivery = w
    BY <2>2, HandlerTyped DEF UpsertPull, derived
  <2> QED BY <2>1, <2>2, <2>3, PullStored
<1>3. CASE ReviewDelivered
  <2>1. PICK p \in Pulls, state \in PullStates :
          /\ job = None /\ UNCHANGED retries
          /\ pulls[p] = [state EXCEPT !.review = pulls[p].review]
          /\ pulls' = [pulls EXCEPT ![p] = state]
          /\ job' = IF state.merged = 0 THEN None
                    ELSE [Handler([kind |-> "review", id |-> p, state |-> state], "reconciled")
                              EXCEPT !.affected = {state.merged}]
          /\ UNCHANGED <<deployments, links, snapshots, request, outdated>>
    BY <1>3 DEF ReviewDelivered, derived
  <2>2. Successor(pulls[p], state) /\ pulls[p].merged = state.merged
    BY <2>1, ReviewSuccessor
  <2> DEFINE w == [kind |-> "review", id |-> p, state |-> state]
  <2>3. w \in Work /\ w.kind = "review" /\ w.id = p /\ w.state = state
    BY DEF Work
  <2>4. state.merged # 0 => job' = [delivery |-> w, step |-> "reconciled", affected |-> {state.merged}]
    BY <2>1 DEF Handler
  <2> HIDE DEF w
  <2>5. ASSUME state.merged # 0 PROVE job' # None /\ job'.delivery = w
    <3>1. state.merged \in Instants
      BY <2>5, FreshnessAssumption
    <3>2. job' \in Handlers
      BY <2>3, <2>4, <2>5, <3>1 DEF Handlers
    <3> QED BY <2>4, <2>5, <3>2, FreshnessAssumption
  <2> QED BY <2>1, <2>2, <2>3, <2>5, PullStored
<1>4. CASE Retry
  <2>1. PICK w \in retries :
          /\ job = None /\ retries' = retries \ {w}
          /\ \/ w.kind = "deployment" /\ UpsertDeployment(w)
             \/ /\ w.kind = "pull"
                /\ \E state \in PullStates : /\ Successor(pulls[w.id], state)
                                             /\ UpsertPull([w EXCEPT !.state = state])
             \/ /\ w.kind = "review"
                /\ job' = [Handler(w, "reconciled") EXCEPT !.affected = {w.state.merged}]
                /\ UNCHANGED <<rows, derived, snapshots, patterns, request, backfill, outdated>>
    BY <1>4 DEF Retry
  <2>2. w \in Work /\ w \in Known
    BY <2>1 DEF Typed, Known
  <2>3. CASE w.kind = "deployment" /\ UpsertDeployment(w)
    BY <2>1, <2>2, <2>3, RunStored
  <2>4. CASE /\ w.kind = "pull"
             /\ \E state \in PullStates : /\ Successor(pulls[w.id], state)
                                          /\ UpsertPull([w EXCEPT !.state = state])
    <3>1. PICK state \in PullStates :
            Successor(pulls[w.id], state) /\ UpsertPull([w EXCEPT !.state = state])
      BY <2>4
    <3> DEFINE w2 == [w EXCEPT !.state = state]
    <3>2. w.id \in Pulls
      BY <2>2, <2>4, WorkTyped
    <3>3. w2 \in Work /\ w2.kind = "pull" /\ w2.id = w.id /\ w2.state = state
      BY <2>2, <2>4, <3>2 DEF Work
    <3>4. UpsertPull(w2)
      BY <3>1
    <3> HIDE DEF w2
    <3>5. /\ pulls' = [pulls EXCEPT ![w.id] = state]
          /\ UNCHANGED <<deployments, links, snapshots, request, outdated>>
          /\ state.merged # 0 => job' # None /\ job'.delivery = w2
      BY <3>3, <3>4, HandlerTyped DEF UpsertPull, derived
    <3> QED BY <2>1, <2>4, <3>1, <3>2, <3>3, <3>5, PullStored
  <2>5. CASE /\ w.kind = "review"
             /\ job' = [Handler(w, "reconciled") EXCEPT !.affected = {w.state.merged}]
             /\ UNCHANGED <<rows, derived, snapshots, patterns, request, backfill, outdated>>
    <3>1. job' = [delivery |-> w, step |-> "reconciled", affected |-> {w.state.merged}]
      BY <2>5 DEF Handler
    <3>2. w.state.merged \in Instants
      BY <2>2, <2>5, WorkTyped DEF PullsInv
    <3>3. job' # None
      <4>1. job' \in Handlers
        BY <2>2, <3>1, <3>2 DEF Handlers
      <4> QED BY <4>1, FreshnessAssumption
    <3>4. UNCHANGED <<deployments, pulls, links, snapshots, request, outdated>>
      BY <2>5 DEF rows, derived
    <3>5. \A x : MetricInstants(x)' = MetricInstants(x) /\ StageInstants(x)' = StageInstants(x)
      BY <3>4 DEF MetricInstants, StageInstants, StoredBy, Before, FirstShipment, After, ShippedNow
    <3>6. Known \subseteq Known' /\ Requests \subseteq Requests'
      BY <2>1, <3>1, <3>3, <3>4 DEF Known, Requests
    <3>7. ToAsk \subseteq ToAsk' /\ ToStage \subseteq ToStage'
      BY <2>1, <3>5, <3>6 DEF ToAsk, ToStage
    <3>8. OwedMetrics \subseteq OwedMetrics' /\ OwedStages \subseteq OwedStages'
      BY <3>6, <3>7 DEF OwedMetrics, OwedStages
    <3> QED BY <3>4, <3>8, OwedKept
  <2> QED BY <2>1, <2>3, <2>4, <2>5
<1> QED BY <1>1, <1>2, <1>3, <1>4

\* What a handler knew is retried, except what it had read before it relinked.
LEMMA DeathStep ==
    ASSUME FreshInv, Typed', HandlerDies
    PROVE  UnmergedInv' /\ SnapshotsInv'
<1> USE DEF FreshInv
<1>1. /\ job # None /\ job' = None /\ job.delivery.kind \in {"deployment", "pull", "review"}
      /\ retries' = retries \cup {job.delivery}
      /\ outdated' = outdated \cup IF job.delivery.kind = "pull" THEN Holding(job.affected) ELSE {}
      /\ UNCHANGED <<deployments, pulls, links, snapshots, request>>
  BY DEF HandlerDies, rows, derived
<1>2. \A x : MetricInstants(x)' = MetricInstants(x) /\ StageInstants(x)' = StageInstants(x)
  BY <1>1 DEF MetricInstants, StageInstants, StoredBy, Before, FirstShipment, After, ShippedNow
<1>3. Known \subseteq Known' /\ Requests \subseteq Requests'
  BY <1>1 DEF Known, Requests
<1>4. OwedStages \subseteq OwedStages'
  BY <1>2, <1>3 DEF OwedStages, ToStage
<1>5. ASSUME NEW i \in ToAsk PROVE i \in ToAsk' \/ Holding({i}) \subseteq outdated'
  <2>1. CASE \E w \in Known : i \in MetricInstants(w)
    BY <1>2, <1>3, <2>1 DEF ToAsk
  <2>2. CASE job.delivery.kind = "pull" /\ i \in job.affected
    BY <1>1, <2>2 DEF Holding
  <2> QED BY <2>1, <2>2 DEF ToAsk
<1>6. ASSUME NEW r \in OwedMetrics
      PROVE  r \in OwedMetrics' \/ \E i \in Instants : r = At(i) /\ Holding({i}) \subseteq outdated'
  BY <1>3, <1>5 DEF OwedMetrics, ToAsk
<1>7. \A r \in OwedMetrics \cup OwedStages : r.from <= r.from /\ r.to <= r.to
  BY OwedTyped DEF Ranges
<1>8. \A r \in OwedStages : \E r2 \in OwedStages' : r2.from <= r.from /\ r.to <= r2.to
  BY <1>4, <1>7
<1>9. \A r \in OwedMetrics :
          \/ \E r2 \in OwedMetrics' : r2.from <= r.from /\ r.to <= r2.to
          \/ \E i \in Instants : r = At(i) /\ Holding({i}) \subseteq outdated'
  BY <1>6, <1>7, Zenon
<1> QED BY <1>1, <1>8, <1>9, SnapshotsKept, UnmergedKept

\* Steps that change neither rows nor snapshots nor links, and lose no work.
LEMMA QueueStep ==
    ASSUME FreshInv, Typed',
           ReconcileIncidents \/ RecalculationStarts \/ RecalculationDies \/ ChangeSettings
               \/ (BackfillReclassifies /\ deployments' = deployments) \/ UNCHANGED vars
    PROVE  UnmergedInv' /\ SnapshotsInv'
<1> USE DEF FreshInv
<1>1. UNCHANGED <<deployments, pulls, links, snapshots, outdated, retries>>
  BY DEF ReconcileIncidents, RecalculationStarts, RecalculationDies, ChangeSettings,
    BackfillReclassifies, vars, rows, derived
<1>2. \A x : /\ MetricInstants(x)' = MetricInstants(x) /\ StageInstants(x)' = StageInstants(x)
             /\ x.kind \in {"recalculation", "backfill"}
                  => MetricInstants(x) = {} /\ StageInstants(x) = {}
  BY <1>1 DEF MetricInstants, StageInstants, StoredBy, Before, FirstShipment, After, ShippedNow
<1>3. /\ Requests \subseteq Requests'
      /\ \A x \in Known : x \in Known' \/ x.kind \in {"recalculation", "backfill"}
      /\ job # None /\ job.delivery.kind = "pull"
           => job' # None /\ job'.delivery = job.delivery /\ job'.step = job.step
              /\ job'.affected = job.affected
  <2>1. CASE ReconcileIncidents
    <3>1. job # None /\ job'.delivery = job.delivery /\ job' \in Handlers
          /\ job.delivery.kind = "deployment" /\ UNCHANGED <<request, retries>>
      BY <2>1, AdvanceTyped DEF ReconcileIncidents, AtStep
    <3>2. job' # None
      BY <3>1, FreshnessAssumption
    <3> QED BY <3>1, <3>2 DEF Known, Requests
  <2>2. CASE RecalculationStarts
    <3> DEFINE w == [kind |-> "recalculation", id |-> None, state |-> request]
    <3>1. job = None /\ request # None /\ request' = None /\ job' = Handler(w, "stored")
      BY <2>2 DEF RecalculationStarts
    <3>2. w \in Work /\ w.kind = "recalculation" /\ w.state = request
      BY <3>1 DEF Typed, Work
    <3> HIDE DEF w
    <3>3. job' # None /\ job'.delivery = w
      BY <3>1, <3>2, HandlerTyped
    <3> QED BY <1>1, <3>1, <3>2, <3>3 DEF Known, Requests
  <2>3. CASE RecalculationDies
    <3>1. /\ job # None /\ job.delivery.kind \in {"recalculation", "backfill"} /\ job' = None
          /\ IF job.delivery.kind = "backfill" THEN UNCHANGED request
             ELSE request' = job.delivery.state
      BY <2>3 DEF RecalculationDies
    <3>2. job.delivery.state \in Ranges /\ (job.delivery.kind = "recalculation" => request = None)
      BY <3>1, JobTyped, WorkTyped DEF HandlerInv
    <3>3. job.delivery.state # None
      BY <3>2, FreshnessAssumption
    <3> QED BY <1>1, <3>1, <3>2, <3>3 DEF Known, Requests
  <2>4. CASE ChangeSettings
    BY <1>1, <2>4 DEF ChangeSettings, Known, Requests
  <2>5. CASE BackfillReclassifies
    <3>1. PICK range \in BackfillRanges :
            job' = Handler([kind |-> "backfill", id |-> None, state |-> range], "stored")
      BY <2>5 DEF BackfillReclassifies
    <3>2. job'.delivery.kind = "backfill"
      BY <3>1 DEF Handler
    <3> QED BY <1>1, <2>5, <3>2 DEF BackfillReclassifies, Known, Requests
  <2>6. CASE UNCHANGED vars
    BY <2>6 DEF vars, Known, Requests
  <2> QED BY <2>1, <2>2, <2>3, <2>4, <2>5, <2>6
<1>4. ToAsk \subseteq ToAsk' /\ ToStage \subseteq ToStage'
  BY <1>2, <1>3 DEF ToAsk, ToStage
<1>5. OwedMetrics \subseteq OwedMetrics' /\ OwedStages \subseteq OwedStages'
  BY <1>3, <1>4 DEF OwedMetrics, OwedStages
<1> QED BY <1>1, <1>5, OwedKept

\* Every step keeps the invariant.
LEMMA FreshStep ==
    ASSUME FreshInv, Next
    PROVE  FreshInv'
<1>1. Typed' /\ HandlerInv' /\ PullsInv' /\ LinksInv'
  BY TypedStep, HandlerStep, PullsStep, LinksStep DEF FreshInv
<1> SUFFICES UnmergedInv' /\ SnapshotsInv'
  BY <1>1 DEF FreshInv
<1>2. CASE DeploymentDelivered \/ PullDelivered \/ ReviewDelivered \/ Retry
  BY <1>1, <1>2, DeliveryStep
<1>3. CASE PullImported
  BY <1>1, <1>3, ImportStep DEF FreshInv
<1>4. CASE RelinkDeployments \/ RelinkPull \/ RebuildDerived
  BY <1>1, <1>4, RelinkStep DEF FreshInv
<1>5. CASE AskForRecalculation
  BY <1>1, <1>5, AskStep DEF FreshInv
<1>6. CASE HandlerDies
  BY <1>1, <1>6, DeathStep
<1>7. CASE WriteSnapshots
  BY <1>7, SnapshotsWritten DEF FreshInv
<1>8. CASE ReconcileIncidents \/ RecalculationStarts \/ RecalculationDies \/ ChangeSettings
  BY <1>1, <1>8, QueueStep
<1>9. CASE BackfillReclassifies
  <2>1. CASE deployments' = deployments
    BY <1>1, <1>9, <2>1, QueueStep
  <2>2. CASE deployments' # deployments
    <3>1. \A g \in Granularities : \A b \in Starts(g) : <<g, b>> \in outdated'
      BY <1>9, <2>2, BucketOf DEF BackfillReclassifies
    <3> QED BY <3>1 DEF UnmergedInv, SnapshotsInv
  <2> QED BY <2>1, <2>2
<1> QED BY <1>2, <1>3, <1>4, <1>5, <1>6, <1>7, <1>8, <1>9 DEF Next

-----------------------------------------------------------------------------
(* The theorems.                                                           *)

\* With no rows there are no observations.
LEMMA FreshInit == Init => FreshInv
<1> SUFFICES ASSUME Init PROVE FreshInv
  OBVIOUS
<1>1. Typed
  BY InitTyped
<1>2. /\ job = None /\ retries = {} /\ request = None /\ links = {}
      /\ deployments = [d \in Deployments |-> NoDeployment] /\ pulls = [q \in Pulls |-> NoPull]
  BY DEF Init
<1>3. Stored(deployments) = {}
  BY <1>2 DEF Stored, NoDeployment
<1>4. HandlerInv /\ PullsInv /\ LinksInv
  BY <1>2, <1>3 DEF HandlerInv, PullsInv, LinksInv, Known
<1>5. ASSUME NEW g \in Granularities, NEW b \in Starts(g)
      PROVE  /\ snapshots[<<g, b>>] = EmptySnapshots
             /\ Expected(g, b) = EmptySnapshots
  <2>1. <<g, b>> \in AllBuckets
    BY DEF AllBuckets
  <2>2. Successes(deployments) = {} /\ Failures(deployments) = {}
    BY <1>3 DEF Successes, Failures
  <2>3. DOMAIN Incidents(deployments) = {}
    BY <2>2 DEF Incidents
  <2>4. DeploymentFrequency(g, b, deployments) = {}
        /\ ChangeFailureRate(g, b, deployments, Incidents(deployments)) = {}
        /\ RecoveryTime(g, b, Incidents(deployments)) = {}
    BY <1>3, <2>2, <2>3 DEF DeploymentFrequency, ChangeFailureRate, RecoveryTime
  <2>5. \A lks : ChangeLeadTime(g, b, deployments, lks, pulls) = {}
                 /\ CycleTime(g, b, deployments, lks, pulls) = {}
    BY <1>2 DEF ChangeLeadTime, FirstShipped, CycleTime, NoPull
  <2> QED BY <2>1, <2>4, <2>5 DEF Init, Expected, SnapshotsOf, BucketSnapshots, EmptySnapshots
<1>6. UnmergedInv
  BY <1>5 DEF UnmergedInv, EmptySnapshots
<1>7. SnapshotsInv
  BY <1>5 DEF SnapshotsInv, MetricsAgree
<1> QED BY <1>1, <1>4, <1>6, <1>7 DEF FreshInv

\* Rows, handlers, retries and the waiting request together owe every snapshot that the
\* rows contradict, except in the buckets of a change that no handler asks for.
THEOREM FreshInvariance == Spec => []FreshInv
<1>1. FreshInv /\ [Next]_vars => FreshInv'
  <2> SUFFICES ASSUME FreshInv, [Next]_vars PROVE FreshInv'
    OBVIOUS
  <2>1. CASE Next
    BY <2>1, FreshStep
  <2>2. CASE UNCHANGED vars
    <3>1. UNCHANGED <<deployments, pulls, links, incidents, snapshots, patterns, request, backfill,
                      job, retries, outdated>>
      BY <2>2 DEF vars, rows, derived
    <3>2. Typed' /\ PullsInv' /\ LinksInv'
      BY <3>1 DEF FreshInv, Typed, PullsInv, LinksInv, Known
    <3>3. \A w : MetricInstants(w)' = MetricInstants(w) /\ StageInstants(w)' = StageInstants(w)
      BY <3>1 DEF MetricInstants, StageInstants, StoredBy, Before, FirstShipment, After, ShippedNow
    <3>4. HandlerInv'
      BY <3>1, <3>3 DEF FreshInv, HandlerInv
    <3> QED BY <2>2, <3>2, <3>4, QueueStep DEF FreshInv
  <2> QED BY <2>1, <2>2
<1> QED BY FreshInit, <1>1, PTL DEF Spec

\* With nothing left to do nothing is owed.
LEMMA QuietAgrees ==
    ASSUME FreshInv, Quiet, NEW g \in Granularities, NEW b \in Starts(g), <<g, b>> \notin outdated
    PROVE  /\ MetricsAgree(snapshots[<<g, b>>], Expected(g, b))
           /\ snapshots[<<g, b>>].cycle = Expected(g, b).cycle
<1>1. OwedMetrics = {} /\ OwedStages = {}
  BY DEF Quiet, OwedMetrics, OwedStages, ToAsk, ToStage, Known, Requests
<1> QED BY <1>1 DEF FreshInv, SnapshotsInv

\* Once nothing is left to do every snapshot is what the stored rows say about its period,
\* if no change that nobody asked for has touched it since it was rebuilt: the ranges the
\* handlers ask for, and those of the stages, are wide enough.
THEOREM SnapshotsAreCorrect == Spec => []SnapshotsCorrect
<1>1. FreshInv => SnapshotsCorrect
  <2> SUFFICES ASSUME FreshInv, Quiet, NEW gb \in AllBuckets \ outdated
               PROVE  Agrees(snapshots[gb], Expected(gb[1], gb[2]))
    BY DEF SnapshotsCorrect, Correct, Expected, SnapshotsOf
  <2>0. PICK g \in Granularities : gb \in {<<g, x>> : x \in Starts(g)}
    BY DEF AllBuckets
  <2>1. PICK b \in Starts(g) : gb = <<g, b>>
    BY <2>0
  <2>2. /\ MetricsAgree(snapshots[gb], Expected(g, b))
        /\ snapshots[gb].cycle = Expected(g, b).cycle
    BY <2>1, QuietAgrees
  <2> DEFINE stored == snapshots[gb]
             expected == Expected(g, b)
  <2> HIDE DEF stored, expected
  <2>3. /\ stored.frequency = expected.frequency /\ stored.failures = expected.failures
        /\ stored.recovery = expected.recovery /\ stored.cycle = expected.cycle
        /\ OfMerged(stored.leadTime) = OfMerged(expected.leadTime)
    BY <2>2 DEF stored, expected, MetricsAgree
  <2>4. Agrees(stored, expected)
    BY <2>3 DEF Agrees
  <2> QED BY <2>1, <2>4 DEF stored, expected
<1> QED BY <1>1, FreshInvariance, PTL

\* Every instant is in one day.
LEMMA DayOf ==
    ASSUME NEW i \in Instants
    PROVE  /\ \E b \in Starts("DAY") : In(i, "DAY", b)
           /\ \A b, b2 \in Starts("DAY") : In(i, "DAY", b) /\ In(i, "DAY", b2) => b = b2
<1>1. /\ i \in Nat /\ i <= Horizon /\ Horizon \in Nat /\ "DAY" \in Granularities
      /\ 0 \in Calendar["DAY"] /\ \E end \in Calendar["DAY"] : end > Horizon
  <2>1. Horizon \in Nat
    BY FreshnessAssumption
  <2> QED BY <2>1, FreshnessAssumption DEF Instants
<1>2. Calendar["DAY"] \subseteq Nat
      /\ \E last \in Calendar["DAY"] : \A x \in Calendar["DAY"] : x <= last
  BY <1>1, CalendarAssumption DEF Granularities
<1> DEFINE S == {x \in Calendar["DAY"] : x <= i}
           b0 == Max(S)
<1>3. b0 \in S /\ \A x \in S : b0 >= x
  <2>1. S \subseteq Nat /\ S # {} /\ \A x \in S : x <= i
    BY <1>1, <1>2
  <2> HIDE DEF S
  <2> QED BY <1>1, <2>1, HasGreatest
<1>4. b0 \in Starts("DAY")
  <2>1. PICK end \in Calendar["DAY"] : end > Horizon
    BY <1>1
  <2>2. PICK last \in Calendar["DAY"] : \A x \in Calendar["DAY"] : x <= last
    BY <1>2
  <2>3. last \in Nat
    BY <1>2
  <2>4. Max(Calendar["DAY"]) \in Calendar["DAY"] /\ Max(Calendar["DAY"]) >= end
    BY <1>2, <2>1, <2>2, <2>3, HasGreatest
  <2>5. b0 # Max(Calendar["DAY"])
    BY <1>1, <1>2, <1>3, <2>1, <2>4
  <2> QED BY <1>3, <2>5 DEF Starts
<1>5. In(i, "DAY", b0)
  <2>1. /\ b0 \in Nat /\ End("DAY", b0) \in Calendar["DAY"] /\ End("DAY", b0) \in Nat
        /\ b0 < End("DAY", b0)
    BY <1>1, <1>4, EndOf
  <2>2. ~(End("DAY", b0) <= i)
    BY <1>3, <2>1
  <2> QED BY <1>1, <1>3, <2>1, <2>2 DEF In
<1>6. ASSUME NEW b \in Starts("DAY"), NEW b2 \in Starts("DAY"), In(i, "DAY", b), In(i, "DAY", b2)
      PROVE  ~(b < b2)
  <2>1. /\ b \in Nat /\ b2 \in Nat /\ b2 \in Calendar["DAY"] /\ End("DAY", b) \in Nat
        /\ b2 > b => End("DAY", b) <= b2
    BY <1>1, EndOf
  <2> QED BY <1>1, <1>6, <2>1 DEF In
<1>7. \A b \in Starts("DAY") : b \in Nat
  BY <1>1, EndOf
<1> QED BY <1>4, <1>5, <1>6, <1>7

\* An alert rule over a window of such days sees each successful production deployment in
\* it, once: days cover the instants without overlapping, and their snapshots are right.
THEOREM AlertWindowsExact == Spec => []AlertWindowExact
<1>1. FreshInv => AlertWindowExact
  <2> SUFFICES ASSUME FreshInv, Quiet, NEW from \in 0 .. Horizon, NEW to \in from + 1 .. Horizon + 1,
                      \A b \in PeriodBuckets("DAY", from, to) : <<"DAY", b>> \notin outdated
               PROVE  WindowObservations([b \in Starts("DAY") |-> snapshots[<<"DAY", b>>].frequency],
                                         from, to)
                        = {[key |-> d, at |-> deployments[d].finished] :
                              d \in {s \in Successes(deployments) :
                                  from <= deployments[s].finished /\ deployments[s].finished < to}}
    BY DEF AlertWindowExact
  <2>1. from \in Nat /\ to \in Nat /\ "DAY" \in Granularities
    <3>1. Horizon \in Nat /\ "DAY" \in Granularities
      BY FreshnessAssumption
    <3> QED BY <3>1
  <2> DEFINE snaps == [b \in Starts("DAY") |-> snapshots[<<"DAY", b>>].frequency]
             O(d) == [key |-> d, at |-> deployments[d].finished]
             D == {s \in Successes(deployments) :
                      from <= deployments[s].finished /\ deployments[s].finished < to}
             overlapping == PeriodBuckets("DAY", from, to)
             seen == {<<b, o>> : b \in overlapping, o \in UNION {snaps[x] : x \in overlapping}}
             kept == {s \in seen : s[2] \in snaps[s[1]] /\ from <= s[2].at /\ s[2].at < to}
             first == {x \in kept : \A y \in kept : y[2].key = x[2].key => x[1] <= y[1]}
  <2>2. \A b \in overlapping : snaps[b] =
          {O(d) : d \in {s \in Successes(deployments) : In(deployments[s].finished, "DAY", b)}}
    <3>1. \A b \in overlapping : b \in Starts("DAY") /\ <<"DAY", b>> \notin outdated
      BY DEF PeriodBuckets
    <3> QED BY <2>1, <3>1, QuietAgrees DEF MetricsAgree, Expected, SnapshotsOf, BucketSnapshots,
      DeploymentFrequency
  <2>3. \A d : O(d).key = d /\ O(d).at = deployments[d].finished
    OBVIOUS
  <2>4. \A d \in Successes(deployments) : deployments[d].finished \in Instants
    BY FinishedTyped DEF FreshInv, Typed, Successes, Stored
  <2>5. \A b \in overlapping : b \in Starts("DAY") /\ b \in Nat
    BY <2>1, EndOf DEF PeriodBuckets
  <2>6. ASSUME NEW x \in kept
        PROVE  /\ x[1] \in Starts("DAY") /\ x[1] \in Nat
               /\ \E d \in D : x[2] = O(d) /\ In(deployments[d].finished, "DAY", x[1])
    <3> HIDE DEF O
    <3>1. x[1] \in overlapping /\ x[2] \in snaps[x[1]] /\ from <= x[2].at /\ x[2].at < to
      OBVIOUS
    <3>2. x[1] \in Starts("DAY") /\ x[1] \in Nat
      BY <2>5, <3>1
    <3> HIDE DEF snaps
    <3>3. PICK d \in Successes(deployments) :
            x[2] = O(d) /\ In(deployments[d].finished, "DAY", x[1])
      BY <2>2, <3>1, <3>2
    <3> QED BY <2>3, <3>1, <3>2, <3>3
  <2>7. ASSUME NEW d \in D PROVE \E x \in first : x[2] = O(d)
    <3>1. deployments[d].finished \in Instants /\ deployments[d].finished \in Nat
      BY <2>4 DEF Instants
    <3>2. PICK b \in Starts("DAY") : In(deployments[d].finished, "DAY", b)
      BY <3>1, DayOf
    <3>3. b \in Nat /\ End("DAY", b) \in Nat
      BY <2>1, EndOf
    <3>4. b \in overlapping
      BY <2>1, <3>1, <3>2, <3>3 DEF PeriodBuckets, In
    <3>5. O(d) \in snaps[b]
      <4> HIDE DEF snaps, O
      <4> QED BY <2>2, <3>2, <3>4
    <3>6. <<b, O(d)>> \in kept
      <4> HIDE DEF snaps, O
      <4> QED BY <2>3, <3>4, <3>5
    <3>7. ASSUME NEW y \in kept, y[2].key = d PROVE b <= y[1]
      <4> HIDE DEF O, kept
      <4>1. PICK d2 \in D : y[2] = O(d2) /\ In(deployments[d2].finished, "DAY", y[1])
        BY <2>6
      <4>2. d2 = d
        BY <2>3, <3>7, <4>1
      <4>3. y[1] = b
        BY <2>6, <3>1, <3>2, <4>1, <4>2, DayOf
      <4> QED BY <3>3, <4>3
    <3> HIDE DEF O, kept
    <3> DEFINE x == <<b, O(d)>>
    <3>8. x \in kept /\ x[1] = b /\ x[2] = O(d) /\ x[2].key = d
      BY <2>3, <3>6
    <3> HIDE DEF x
    <3>9. x \in first
      BY <3>7, <3>8
    <3> QED BY <3>8, <3>9
  <2>8. \A x \in first : \E d \in D : x[2] = O(d)
    <3> HIDE DEF kept, O, D
    <3> QED BY <2>6
  <2>9. {x[2] : x \in first} = {O(d) : d \in D}
    <3> HIDE DEF first, O, D
    <3> QED BY <2>7, <2>8
  <2>10. WindowObservations(snaps, from, to) = {x[2] : x \in first}
    BY DEF WindowObservations
  <2> HIDE DEF first
  <2> QED BY <2>9, <2>10
<1> QED BY <1>1, FreshInvariance, PTL
=============================================================================
