----------------------------- MODULE AlertsProofs -----------------------------
(***************************************************************************)
(* Proofs about Alerts: cooldowns are respected, silence is explained and  *)
(* no evaluation is lost, for every number of rules, evaluations, faults   *)
(* and edits.                                                              *)
(***************************************************************************)
EXTENDS Alerts, TLAPS

\* What the decisions rest on: the types of the tables and of what a handler read,
\* and that no deciding transaction starts in the future or before the first instant.
Typed ==
    /\ now \in Instants
    /\ rule \in [Rules -> RuleRows]
    /\ deliveries \subseteq Deliveries
    /\ task \in [Jobs -> Tasks]
    /\ version \in [Publishers -> Nat]
    /\ stage \in [Jobs -> {"none", "claimed", "evaluating", "deciding"}]
    /\ \A j \in Jobs : stage[j] = "deciding" => task[j].start \in Instants

\* The inductive invariant.
CooldownInv == Typed /\ CooldownRespected /\ SilencedByDelivery

-----------------------------------------------------------------------------
\* A decided rule leaves the task well formed.
LEMMA SkipTyped ==
    ASSUME NEW t \in Tasks, NEW r \in Rules, AlertsAssumption
    PROVE  [t EXCEPT !.rules = @ \ {r}, !.start = 0] \in Tasks
<1>1. t.rules \ {r} \in SUBSET Rules
      BY DEF Tasks
<1>2. 0 \in 0 .. MaxTime
      BY DEF AlertsAssumption
<1> DEFINE half == [t EXCEPT !.rules = @ \ {r}]
<1>3. half \in Tasks
      BY <1>1 DEF Tasks
<1>4. [half EXCEPT !.start = 0] \in Tasks
      BY <1>2, <1>3 DEF Tasks
<1>5. [half EXCEPT !.start = 0] = [t EXCEPT !.rules = @ \ {r}, !.start = 0]
      BY DEF Tasks
<1> QED BY <1>4, <1>5

\* One decision keeps the table of deliveries well spaced: a new delivery starts at
\* or after last_triggered_at plus its cooldown, and no delivery is younger than that.
LEMMA DecisionSpaced ==
    ASSUME NEW j \in Jobs, NEW r \in Rules, AlertsAssumption, CooldownInv, DecideRule(j, r)
    PROVE  CooldownInv'
<1> DEFINE row == rule[r]
           cool == task[j].read[r].cooldown
           at == task[j].start
<1>1. /\ row \in RuleRows /\ task[j] \in Tasks /\ task[j].read[r] \in RuleRows
      /\ r \in task[j].rules /\ stage[j] = "deciding"
      BY DEF CooldownInv, Typed, DecideRule, Current, Tasks
<1>2. /\ cool \in Cooldowns /\ cool \in Nat /\ MaxTime \in Nat
      /\ at \in Instants /\ at \in Nat /\ row.last \in 0 .. MaxTime /\ row.last \in Nat
  <2>1. MaxTime \in Nat /\ Cooldowns \subseteq Nat
        BY DEF AlertsAssumption
  <2>2. cool \in Cooldowns /\ row.last \in 0 .. MaxTime
        BY <1>1 DEF RuleRows
  <2>3. at \in Instants
        BY <1>1 DEF CooldownInv, Typed
  <2> HIDE DEF cool, row, at
  <2> QED BY <2>1, <2>2, <2>3 DEF Instants
<1>3. task' \in [Jobs -> Tasks]
  <2>1. task' = [task EXCEPT ![j] = [task[j] EXCEPT !.rules = @ \ {r}, !.start = 0]]
        BY DEF DecideRule, Skip, CooldownInv, Typed, Tasks
  <2>2. [task[j] EXCEPT !.rules = @ \ {r}, !.start = 0] \in Tasks
        BY <1>1, SkipTyped
  <2> QED BY <2>1, <2>2 DEF CooldownInv, Typed
<1>4. /\ now' \in Instants /\ version' \in [Publishers -> Nat]
      /\ stage' \in [Jobs -> {"none", "claimed", "evaluating", "deciding"}]
      /\ \A k \in Jobs : stage'[k] = "deciding" => task'[k].start \in Instants
      BY DEF DecideRule, Skip, CooldownInv, Typed, data
<1>5. CASE UNCHANGED <<deliveries, rule>>
      BY <1>3, <1>4, <1>5 DEF CooldownInv, Typed, CooldownRespected, SilencedByDelivery
<1>6. CASE ~UNCHANGED <<deliveries, rule>>
  <2> DEFINE new == [rule |-> r, job |-> j, at |-> at, cooldown |-> cool]
  <2>1. /\ ~Cooling(j, r)
        /\ deliveries' = deliveries \cup {new}
        /\ rule' = [rule EXCEPT ![r].last = at]
        BY <1>6 DEF DecideRule, Deliver
  <2>2. new \in Deliveries BY <1>2 DEF Deliveries
  <2>3. rule' \in [Rules -> RuleRows]
        BY <2>1, <1>1, <1>2, at \in 0 .. MaxTime DEF CooldownInv, Typed, RuleRows, Instants
  <2>4. rule'[r].last = at /\ \A q \in Rules \ {r} : rule'[q] = rule[q]
        BY <2>1, <1>1 DEF CooldownInv, Typed, RuleRows
  <2>5. row.last = 0 \/ row.last + cool <= at
        BY <2>1, <1>2 DEF Cooling, Instants
  <2>6. \A d \in deliveries : d.rule = r => d.at + cool <= at
    <3>1. SUFFICES ASSUME NEW d \in deliveries, d.rule = r PROVE d.at + cool <= at
          OBVIOUS
    <3>2. d.at <= row.last /\ d.at \in Nat /\ d.at # 0
          BY <3>1, <1>2 DEF CooldownInv, SilencedByDelivery, Typed, Deliveries, Instants
    <3>3. row.last + cool <= at
          BY <3>2, <2>5, <1>2
    <3> HIDE DEF row, cool, at
    <3> QED BY <3>2, <3>3, <1>2
  <2>7. CooldownRespected'
    <3>1. SUFFICES ASSUME NEW a \in deliveries', NEW b \in deliveries', a # b, a.rule = b.rule
                   PROVE  a.at + b.cooldown <= b.at \/ b.at + a.cooldown <= a.at
          BY DEF CooldownRespected
    <3>2. CASE a = new
          BY <3>1, <3>2, <2>1, <2>6
    <3>3. CASE b = new
          BY <3>1, <3>3, <2>1, <2>6
    <3>4. CASE a \in deliveries /\ b \in deliveries
          BY <3>1, <3>4 DEF CooldownInv, CooldownRespected
    <3> QED BY <3>1, <3>2, <3>3, <3>4, <2>1
  <2>8. SilencedByDelivery'
    <3>1. SUFFICES ASSUME NEW q \in Rules
                   PROVE  /\ rule'[q].last # 0 =>
                              \E d \in deliveries' : d.rule = q /\ d.at = rule'[q].last
                          /\ \A d \in deliveries' : d.rule = q => d.at <= rule'[q].last
          BY DEF SilencedByDelivery
    <3>2. CASE q = r
      <4>1. ASSUME NEW d \in deliveries, d.rule = r PROVE d.at <= at
        <5>1. d.at \in Nat
              BY <1>2 DEF CooldownInv, Typed, Deliveries, Instants
        <5>2. d.at + cool <= at
              BY <4>1, <2>6
        <5> HIDE DEF cool, at
        <5> QED BY <5>1, <5>2, <1>2
      <4>2. new \in deliveries' /\ new.rule = r /\ new.at = at /\ at <= at
            BY <2>1, <1>2
      <4> HIDE DEF at
      <4> QED BY <3>2, <4>1, <4>2, <2>1, <2>4
    <3>3. CASE q # r
          BY <3>3, <2>1, <2>4 DEF CooldownInv, SilencedByDelivery
    <3> QED BY <3>2, <3>3
  <2> QED BY <1>3, <1>4, <2>1, <2>2, <2>3, <2>7, <2>8 DEF CooldownInv, Typed
<1> QED BY <1>5, <1>6

\* An edit leaves last_triggered_at alone, so it disturbs neither fact.
LEMMA EditHarmless ==
    ASSUME NEW r \in Rules, CooldownInv, EditRule(r)
    PROVE  CooldownInv'
<1>1. PICK row \in RuleRows : row.last = rule[r].last /\ rule' = [rule EXCEPT ![r] = row]
      BY DEF EditRule
<1>2. rule' \in [Rules -> RuleRows] /\ \A q \in Rules : rule'[q].last = rule[q].last
      BY <1>1 DEF CooldownInv, Typed
<1>3. UNCHANGED <<now, deliveries, task, version, stage>>
      BY DEF EditRule, data
<1> QED BY <1>2, <1>3 DEF CooldownInv, Typed, CooldownRespected, SilencedByDelivery

\* The steps of an evaluation before its decision only read the rules.
LEMMA ReadingHarmless ==
    ASSUME NEW j \in Jobs, AlertsAssumption, CooldownInv,
           \/ LoadRules(j) \/ FinishEvaluation(j) \/ EvaluationFails(j)
           \/ \E r \in Rules : EvaluateRule(j, r)
    PROVE  CooldownInv'
<1>1. UNCHANGED <<now, rule, deliveries, version>>
      BY DEF LoadRules, FinishEvaluation, EvaluationFails, EvaluateRule, data
<1>2. NoTask \in Tasks
  <2>1. (CHOOSE table \in [Rules -> RuleRows] : TRUE) \in [Rules -> RuleRows]
        BY DEF CooldownInv, Typed
  <2> QED BY <2>1 DEF NoTask, Tasks, AlertsAssumption
<1>3. /\ task' \in [Jobs -> Tasks]
      /\ stage' \in [Jobs -> {"none", "claimed", "evaluating", "deciding"}]
      /\ \A k \in Jobs : stage'[k] = "deciding" => task'[k].start \in Instants
  <2>1. CASE LoadRules(j)
    <3>1. [rules |-> {r \in Rules : rule[r].enabled}, read |-> rule, seen |-> version,
           start |-> 0] \in Tasks
          BY DEF CooldownInv, Typed, Tasks, AlertsAssumption
    <3> QED BY <2>1, <3>1 DEF LoadRules, CooldownInv, Typed
  <2>2. CASE FinishEvaluation(j)
        BY <2>2, <1>2 DEF FinishEvaluation, CooldownInv, Typed
  <2>3. CASE EvaluationFails(j)
        BY <2>3, <1>2 DEF EvaluationFails, CooldownInv, Typed
  <2>4. ASSUME NEW r \in Rules, EvaluateRule(j, r)
        PROVE  <1>3!1 /\ <1>3!2 /\ <1>3!3
    <3>1. task[j] \in Tasks BY DEF CooldownInv, Typed
    <3>2. now \in Instants /\ Instants \subseteq 0 .. MaxTime
          BY DEF CooldownInv, Typed, Instants
    <3>3. [task[j] EXCEPT !.start = now] \in Tasks
          BY <3>1, <3>2 DEF Tasks
    <3>4. [task[j] EXCEPT !.rules = @ \ {r}, !.start = 0] \in Tasks
          BY <3>1, SkipTyped
    <3>5. CASE /\ stage' = [stage EXCEPT ![j] = "deciding"]
               /\ task' = [task EXCEPT ![j].start = now]
      <4>1. task' = [task EXCEPT ![j] = [task[j] EXCEPT !.start = now]]
            BY <3>5 DEF CooldownInv, Typed
      <4>2. task'[j].start = now BY <4>1, <3>1 DEF CooldownInv, Typed, Tasks
      <4> QED BY <3>2, <3>3, <3>5, <4>1, <4>2 DEF CooldownInv, Typed
    <3>6. CASE Skip(j, r)
      <4>1. task' = [task EXCEPT ![j] = [task[j] EXCEPT !.rules = @ \ {r}, !.start = 0]]
            BY <3>6, <3>1 DEF Skip, CooldownInv, Typed, Tasks
      <4> QED BY <3>4, <3>6, <4>1 DEF Skip, CooldownInv, Typed
    <3> QED BY <2>4, <3>5, <3>6 DEF EvaluateRule
  <2> QED BY <2>1, <2>2, <2>3, <2>4
<1> QED BY <1>1, <1>3 DEF CooldownInv, Typed, CooldownRespected, SilencedByDelivery

-----------------------------------------------------------------------------
\* All other steps leave rules, deliveries and what was read alone.
LEMMA CooldownStep ==
    ASSUME AlertsAssumption, CooldownInv, [Next]_vars
    PROVE  CooldownInv'
<1> USE DEF data, rows, counters
<1>1. ASSUME NEW p \in Publishers, PublisherStep(p) \/ PublisherDies(p) \/ SnapshotsCommit
      PROVE  CooldownInv'
  <2>1. UNCHANGED <<now, rule, deliveries, task, stage>>
        BY <1>1 DEF PublisherStep, PublisherStarts, SelectQueued, PublisherCommits,
                    PublisherDies, SnapshotsCommit
  <2>2. version' \in [Publishers -> Nat]
        BY <1>1 DEF PublisherStep, PublisherStarts, SelectQueued, PublisherCommits,
                    PublisherDies, SnapshotsCommit, Publish, CooldownInv, Typed
  <2> QED BY <2>1, <2>2 DEF CooldownInv, Typed, CooldownRespected, SilencedByDelivery
<1>2. ASSUME NEW j \in Jobs, Claim(j) \/ Defer(j)
      PROVE  CooldownInv'
  <2>1. UNCHANGED <<now, rule, deliveries, task, version>>
        BY <1>2 DEF Claim, Defer
  <2>2. /\ stage' \in [Jobs -> {"none", "claimed", "evaluating", "deciding"}]
        /\ \A k \in Jobs : stage'[k] = "deciding" => stage[k] = "deciding"
        BY <1>2 DEF Claim, Defer, CooldownInv, Typed
  <2> QED BY <2>1, <2>2 DEF CooldownInv, Typed, CooldownRespected, SilencedByDelivery
<1>3. ASSUME NEW j \in Jobs, \/ LoadRules(j) \/ FinishEvaluation(j) \/ EvaluationFails(j)
                             \/ \E r \in Rules : EvaluateRule(j, r)
      PROVE  CooldownInv'
      BY <1>3, ReadingHarmless
<1>4. ASSUME NEW j \in Jobs, NEW r \in Rules, DecideRule(j, r)
      PROVE  CooldownInv'
      BY <1>4, DecisionSpaced
<1>5. ASSUME NEW r \in Rules, EditRule(r)
      PROVE  CooldownInv'
      BY <1>5, EditHarmless
<1>6. CASE LoseSession \/ Tick
  <2>1. UNCHANGED <<rule, deliveries, task, stage, version>> /\ now' \in Instants
        BY <1>6 DEF LoseSession, Tick, CooldownInv, Typed, Instants, AlertsAssumption
  <2> QED BY <2>1 DEF CooldownInv, Typed, CooldownRespected, SilencedByDelivery
<1>7. CASE UNCHANGED vars
      BY <1>7 DEF vars, CooldownInv, Typed, CooldownRespected, SilencedByDelivery
<1> QED BY <1>1, <1>2, <1>3, <1>4, <1>5, <1>6, <1>7 DEF Next, JobStep, Publishers

LEMMA CooldownInit ==
    ASSUME AlertsAssumption, Init
    PROVE  CooldownInv
<1>1. rule \in [Rules -> RuleRows] /\ \A r \in Rules : rule[r].last = 0
      BY DEF Init
<1>2. NoTask \in Tasks
  <2>1. (CHOOSE table \in [Rules -> RuleRows] : TRUE) \in [Rules -> RuleRows]
        BY <1>1
  <2> QED BY <2>1 DEF NoTask, Tasks, AlertsAssumption
<1> QED BY <1>1, <1>2 DEF Init, CooldownInv, Typed, CooldownRespected, SilencedByDelivery,
           Instants, AlertsAssumption

-----------------------------------------------------------------------------
\* CooldownInv is an invariant: the runs of the alert rules for every constant.
THEOREM CooldownInvariance == Spec => []CooldownInv
<1>1. Init => CooldownInv BY AlertsAssumption, CooldownInit
<1>2. CooldownInv /\ [Next]_vars => CooldownInv' BY AlertsAssumption, CooldownStep
<1> QED BY <1>1, <1>2, PTL DEF Spec

\* No two notifications of a rule fall inside one cooldown window, whatever sessions
\* are lost and whatever users edit meanwhile.
THEOREM CooldownsHold == Spec => []CooldownRespected
<1>1. CooldownInv => CooldownRespected BY DEF CooldownInv
<1> QED BY <1>1, CooldownInvariance, PTL

\* A rule's silence always has a notification behind it, and it is the newest one.
THEOREM SilenceExplained == Spec => []SilencedByDelivery
<1>1. CooldownInv => SilencedByDelivery BY DEF CooldownInv
<1> QED BY <1>1, CooldownInvariance, PTL

-----------------------------------------------------------------------------
(* No evaluation is lost while no session dies under its handler. *)

Working(p) == publisher[p] \notin {"idle", "retrying"}
Reading(j) == stage[j] \in {"evaluating", "deciding"}
Pending(j) == Unread(j) \/ status[j] = "DEAD"

\* A row is RUNNING exactly while a handler has it.
RowsInv ==
    /\ status \in [Jobs -> {"ABSENT", "PENDING", "RUNNING", "FAILED", "SUCCEEDED", "DEAD"}]
    /\ publisher \in [Publishers -> {"idle", "retrying", "started", "written", "queued",
                                     "unqueued"}]
    /\ evaluated \in [Publishers -> Nat]
    /\ \A j \in Jobs : status[j] = "RUNNING" <=> stage[j] # "none"

\* The lease is held by whoever writes or reads the data ...
LeaseInv ==
    /\ \A p \in Publishers : Working(p) => holder = p
    /\ \A j \in Jobs : Reading(j) => holder = j

\* ... so what an evaluation has seen is current as long as it reads, and the row a
\* publisher found queued is still to be read when the publisher commits.
SeenInv ==
    /\ \A j \in Jobs : Reading(j) => task[j].seen = version
    /\ \A p \in Publishers : publisher[p] = "queued" => \E j \in Jobs : Pending(j)

\* The inductive invariant.
EvaluationInv == RowsInv /\ (~lost => LeaseInv /\ SeenInv /\ NoLostEvaluation)

\* A job in a handler is RUNNING, and one that is not waits, failed or is over.
LEMMA PendingRow ==
    ASSUME NEW j \in Jobs, RowsInv
    PROVE  /\ status[j] \in {"PENDING", "FAILED", "DEAD"} => Pending(j)
           /\ stage[j] = "claimed" => Pending(j)
BY DEF RowsInv, Pending, Unread

\* What the owed evaluations depend on: the commits, what is evaluated, the publisher of
\* snapshots, and the row of each job.  A step that grows no version and leaves every
\* witness a witness keeps the property.
LEMMA WitnessesKept ==
    ASSUME NoLostEvaluation, ~lost, UNCHANGED <<version, evaluated>>,
           publisher'[Snapshots] = "idle" => publisher[Snapshots] = "idle",
           \A j \in Jobs : Pending(j) => Pending(j)',
           \A j \in Jobs : Reading(j) =>
               Pending(j)' \/ (Reading(j)' /\ task'[j].seen = task[j].seen),
           CooldownInv, RowsInv
    PROVE  NoLostEvaluation'
<1> SUFFICES ASSUME NEW p \in Publishers, version'[p] > evaluated'[p]
             PROVE  \/ p = Snapshots /\ publisher'[p] # "idle"
                    \/ \E j \in Jobs : \/ Unread(j)'
                                       \/ status'[j] = "DEAD"
                                       \/ stage'[j] # "none" /\ task'[j].seen[p] = version'[p]
    BY DEF NoLostEvaluation
<1>1. CASE p = Snapshots /\ publisher[p] # "idle"
  BY <1>1
<1>2. ASSUME NEW j \in Jobs, Unread(j) \/ status[j] = "DEAD"
      PROVE  Unread(j)' \/ status'[j] = "DEAD"
  BY <1>2 DEF Pending
<1>3. ASSUME NEW j \in Jobs, stage[j] # "none" /\ task[j].seen[p] = version[p],
             ~(Unread(j) \/ status[j] = "DEAD")
      PROVE  \/ Unread(j)' \/ status'[j] = "DEAD"
             \/ stage'[j] # "none" /\ task'[j].seen[p] = version'[p]
  BY <1>3 DEF Pending, Reading, Unread, RowsInv, CooldownInv, Typed
<1> QED BY <1>1, <1>2, <1>3 DEF NoLostEvaluation


\* Who has the lease is alone with the data.
LEMMA Alone ==
    ASSUME LeaseInv, AlertsAssumption
    PROVE  /\ \A p, q \in Publishers : Working(p) /\ Working(q) => p = q
           /\ \A i, j \in Jobs : Reading(i) /\ Reading(j) => i = j
           /\ \A p \in Publishers, j \in Jobs : ~(Working(p) /\ Reading(j))
           /\ \A x \in Publishers \cup Jobs : x # None
BY DEF LeaseInv, AlertsAssumption

\* What a publisher does keeps the invariant.
LEMMA PublisherKeeps ==
    ASSUME AlertsAssumption, CooldownInv, EvaluationInv, NEW p \in Publishers,
           PublisherStarts(p) \/ SelectQueued(p) \/ PublisherDies(p)
    PROVE  EvaluationInv'
<1>0. UNCHANGED <<version, evaluated, status, stage, task, lost>>
  BY DEF PublisherStarts, SelectQueued, PublisherDies, data, rows
<1>1. /\ publisher' \in [Publishers -> {"idle", "retrying", "started", "written", "queued",
                                        "unqueued"}]
      /\ \A q \in Publishers \ {p} : publisher'[q] = publisher[q]
      /\ publisher'[p] # "idle"
      /\ publisher'[p] = "queued" => \E j \in Jobs : status[j] = "PENDING"
  BY DEF PublisherStarts, SelectQueued, PublisherDies, To, Queued, EvaluationInv, RowsInv
<1>2. RowsInv'
  BY <1>0, <1>1 DEF EvaluationInv, RowsInv
<1>3. ASSUME ~lost PROVE LeaseInv' /\ SeenInv' /\ NoLostEvaluation'
  <2>1. LeaseInv /\ SeenInv /\ NoLostEvaluation /\ RowsInv
    BY <1>3 DEF EvaluationInv
  <2>2. /\ \A q \in Publishers \ {p} : Working(q)' <=> Working(q)
        /\ \A j \in Jobs : (Reading(j)' <=> Reading(j)) /\ (Pending(j)' <=> Pending(j))
    BY <1>0, <1>1 DEF Working, Reading, Pending, Unread
  <2>3. LeaseInv'
    <3>1. CASE PublisherStarts(p)
      BY <2>1, <2>2, <3>1, Alone DEF PublisherStarts, Acquire, LeaseInv
    <3>2. CASE SelectQueued(p)
      BY <2>1, <2>2, <3>2 DEF SelectQueued, LeaseInv, Working
    <3>3. CASE PublisherDies(p)
      BY <2>1, <2>2, <3>3, Alone DEF PublisherDies, To, Release, LeaseInv, Working, EvaluationInv,
         RowsInv
    <3> QED BY <3>1, <3>2, <3>3
  <2>4. SeenInv'
    <3>1. \A j \in Jobs : Reading(j)' => task'[j].seen = version'
      BY <1>0, <2>1, <2>2 DEF SeenInv
    <3>2. ASSUME NEW q \in Publishers, publisher'[q] = "queued"
          PROVE  \E j \in Jobs : Pending(j)'
      BY <1>1, <2>1, <2>2, <3>2, PendingRow DEF SeenInv
    <3> QED BY <3>1, <3>2 DEF SeenInv
  <2>5. NoLostEvaluation'
    BY <1>0, <1>1, <1>3, <2>1, <2>2, WitnessesKept DEF Publishers
  <2> QED BY <2>3, <2>4, <2>5
<1> QED BY <1>0, <1>2, <1>3 DEF EvaluationInv

\* A publisher that commits leaves a row behind that is to be read.
LEMMA CommitKeeps ==
    ASSUME AlertsAssumption, CooldownInv, EvaluationInv, NEW p \in Publishers,
           PublisherCommits(p)
    PROVE  EvaluationInv'
<1>0. UNCHANGED <<evaluated, stage, task, lost>>
  BY DEF PublisherCommits
<1>1. /\ publisher' \in [Publishers -> {"idle", "retrying", "started", "written", "queued",
                                        "unqueued"}]
      /\ \A q \in Publishers \ {p} : publisher'[q] = publisher[q]
      /\ publisher'[p] = "idle" /\ Working(p)
  BY DEF PublisherCommits, To, EvaluationInv, RowsInv, Working
<1>2. ASSUME publisher[p] = "unqueued" PROVE RowsInv' /\ \E j \in Jobs : Pending(j)'
  <2>1. PICK i \in Jobs : status[i] = "ABSENT" /\ status' = [status EXCEPT ![i] = "PENDING"]
    BY <1>2 DEF PublisherCommits, InsertJob
  <2>2. RowsInv' /\ Pending(i)'
    BY <1>0, <1>1, <2>1 DEF EvaluationInv, RowsInv, Pending, Unread
  <2> QED BY <2>2
<1>3. ASSUME publisher[p] = "queued"
      PROVE  RowsInv' /\ \A j \in Jobs : Pending(j)' <=> Pending(j)
  <2>1. UNCHANGED <<status, attempts>>
    BY <1>3 DEF PublisherCommits, rows
  <2>2. RowsInv' /\ \A j \in Jobs : Pending(j)' <=> Pending(j)
    BY <1>0, <1>1, <2>1 DEF EvaluationInv, RowsInv, Pending, Unread
  <2> QED BY <2>2
<1>4. RowsInv'
  BY <1>2, <1>3 DEF PublisherCommits
<1>5. ASSUME ~lost PROVE LeaseInv' /\ SeenInv' /\ NoLostEvaluation'
  <2>1. LeaseInv /\ SeenInv
    BY <1>5 DEF EvaluationInv
  <2>2. /\ \A q \in Publishers : ~Working(q)'
        /\ \A j \in Jobs : ~Reading(j)'
    BY <1>0, <1>1, <2>1, Alone DEF Working, Reading
  <2>3. \E j \in Jobs : Pending(j)'
    <3>1. publisher[p] = "queued" => \E j \in Jobs : Pending(j)
      BY <2>1 DEF SeenInv
    <3> QED BY <1>2, <1>3, <3>1 DEF PublisherCommits
  <2>4. NoLostEvaluation'
    BY <2>3 DEF NoLostEvaluation, Pending
  <2>5. LeaseInv'
    BY <2>2 DEF LeaseInv
  <2>6. \A q \in Publishers : publisher'[q] # "queued"
    BY <2>2 DEF Working
  <2> QED BY <2>2, <2>4, <2>5, <2>6 DEF SeenInv
<1> QED BY <1>0, <1>4, <1>5 DEF EvaluationInv

\* Snapshots committed before anything is queued are their publisher's to enqueue.
LEMMA SnapshotsKeep ==
    ASSUME AlertsAssumption, CooldownInv, EvaluationInv, SnapshotsCommit
    PROVE  EvaluationInv'
<1>0. /\ UNCHANGED <<evaluated, status, stage, task, lost, holder>>
      /\ publisher[Snapshots] = "started" /\ Working(Snapshots)
      /\ \A q \in Publishers \ {Snapshots} : version'[q] = version[q]
  BY DEF SnapshotsCommit, rows, Working, Publish, CooldownInv, Typed
<1>1. /\ publisher' \in [Publishers -> {"idle", "retrying", "started", "written", "queued",
                                        "unqueued"}]
      /\ \A q \in Publishers \ {Snapshots} : publisher'[q] = publisher[q]
      /\ publisher'[Snapshots] = "written" /\ Snapshots \in Publishers
  BY DEF SnapshotsCommit, To, EvaluationInv, RowsInv, Publishers
<1>2. RowsInv'
  BY <1>0, <1>1 DEF EvaluationInv, RowsInv
<1>3. ASSUME ~lost PROVE LeaseInv' /\ SeenInv' /\ NoLostEvaluation'
  <2>1. LeaseInv /\ SeenInv /\ NoLostEvaluation
    BY <1>3 DEF EvaluationInv
  <2>2. /\ \A q \in Publishers : Working(q)' <=> Working(q)
        /\ \A j \in Jobs : ~Reading(j) /\ ~Reading(j)' /\ (Pending(j)' <=> Pending(j))
    BY <1>0, <1>1, <2>1, Alone DEF Working, Reading, Pending, Unread
  <2>3. LeaseInv'
    BY <1>0, <2>1, <2>2 DEF LeaseInv
  <2>4. SeenInv'
    BY <1>1, <2>1, <2>2 DEF SeenInv
  <2>5. NoLostEvaluation'
    BY <1>0, <1>1, <1>3, <2>1 DEF NoLostEvaluation, Unread
  <2> QED BY <2>3, <2>4, <2>5
<1> QED BY <1>0, <1>2, <1>3 DEF EvaluationInv

\* A row that is claimed, put off or handed to a retry is still to be read.
LEMMA RowKeeps ==
    ASSUME AlertsAssumption, CooldownInv, EvaluationInv, NEW j \in Jobs,
           Claim(j) \/ Defer(j) \/ EvaluationFails(j)
    PROVE  EvaluationInv'
<1>0. UNCHANGED <<version, evaluated, publisher, lost>>
  BY DEF Claim, Defer, EvaluationFails, data
<1>1. /\ status' \in [Jobs -> {"ABSENT", "PENDING", "RUNNING", "FAILED", "SUCCEEDED", "DEAD"}]
      /\ \A k \in Jobs \ {j} : /\ status'[k] = status[k] /\ stage'[k] = stage[k]
                               /\ task'[k] = task[k]
      /\ \/ stage'[j] = "claimed" /\ status'[j] = "RUNNING"
         \/ stage'[j] = "none" /\ status'[j] \in {"PENDING", "FAILED", "DEAD"}
  BY DEF Claim, Defer, EvaluationFails, EvaluationInv, RowsInv, CooldownInv, Typed
<1>2. RowsInv' /\ RowsInv
  BY <1>0, <1>1 DEF EvaluationInv, RowsInv
<1>3. ~Reading(j)' /\ Pending(j)'
  BY <1>1 DEF Reading, Pending, Unread
<1>4. ASSUME ~lost PROVE LeaseInv' /\ SeenInv' /\ NoLostEvaluation'
  <2>1. LeaseInv /\ SeenInv /\ NoLostEvaluation
    BY <1>4 DEF EvaluationInv
  <2>2. /\ \A q \in Publishers : Working(q)' <=> Working(q)
        /\ \A k \in Jobs \ {j} : (Reading(k)' <=> Reading(k)) /\ (Pending(k)' <=> Pending(k))
    BY <1>0, <1>1 DEF Working, Reading, Pending, Unread
  <2>3. holder' = holder \/ (holder = j /\ holder' = None)
    BY DEF Claim, Defer, EvaluationFails, Release
  <2>4. LeaseInv'
    <3>1. \A p \in Publishers : p # j
      BY DEF AlertsAssumption
    <3> QED BY <1>3, <2>1, <2>2, <2>3, <3>1 DEF LeaseInv
  <2>5. SeenInv'
    BY <1>0, <1>1, <1>3, <2>1, <2>2 DEF SeenInv
  <2>6. \A k \in Jobs : Pending(k) => Pending(k)'
    BY <1>3, <2>2
  <2>7. \A k \in Jobs : Reading(k) =>
            Pending(k)' \/ (Reading(k)' /\ task'[k].seen = task[k].seen)
    BY <1>1, <1>3, <2>2
  <2>8. NoLostEvaluation'
    BY <1>0, <1>2, <1>4, <2>1, <2>6, <2>7, WitnessesKept
  <2> QED BY <2>4, <2>5, <2>8
<1> QED BY <1>0, <1>2, <1>4 DEF EvaluationInv

\* An evaluation begins with the newest commits.
LEMMA LoadKeeps ==
    ASSUME AlertsAssumption, CooldownInv, EvaluationInv, NEW j \in Jobs, LoadRules(j)
    PROVE  EvaluationInv'
<1>0. UNCHANGED <<version, evaluated, publisher, lost, status>> /\ holder = None /\ holder' = j
  BY DEF LoadRules, data, rows, Acquire
<1>1. /\ \A k \in Jobs \ {j} : stage'[k] = stage[k] /\ task'[k] = task[k]
      /\ stage[j] = "claimed" /\ stage'[j] = "evaluating" /\ task'[j].seen = version
  BY DEF LoadRules, CooldownInv, Typed
<1>2. RowsInv'
  BY <1>0, <1>1 DEF EvaluationInv, RowsInv
<1>3. ASSUME ~lost PROVE LeaseInv' /\ SeenInv' /\ NoLostEvaluation'
  <2>1. LeaseInv
    BY <1>3 DEF EvaluationInv
  <2>2. /\ \A q \in Publishers : ~Working(q) /\ ~Working(q)'
        /\ \A k \in Jobs \ {j} : ~Reading(k) /\ ~Reading(k)'
    BY <1>0, <1>1, <2>1, Alone DEF Working, Reading, LeaseInv
  <2>3. LeaseInv'
    BY <1>0, <2>2 DEF LeaseInv
  <2>4. SeenInv'
    BY <1>0, <1>1, <2>2 DEF SeenInv, Working
  <2>5. NoLostEvaluation'
    BY <1>0, <1>1 DEF NoLostEvaluation
  <2> QED BY <2>3, <2>4, <2>5
<1> QED BY <1>0, <1>2, <1>3 DEF EvaluationInv

\* An evaluation under way keeps what it has seen.
LEMMA ReadingKeeps ==
    ASSUME AlertsAssumption, CooldownInv, EvaluationInv, NEW j \in Jobs, NEW r \in Rules,
           EvaluateRule(j, r) \/ DecideRule(j, r)
    PROVE  EvaluationInv'
<1>0. UNCHANGED <<version, evaluated, publisher, lost, status, holder>>
  BY DEF EvaluateRule, DecideRule, data, rows
<1>1. /\ \A k \in Jobs \ {j} : stage'[k] = stage[k] /\ task'[k] = task[k]
      /\ stage[j] \in {"evaluating", "deciding"} /\ stage'[j] \in {"evaluating", "deciding"}
      /\ task'[j].seen = task[j].seen
  BY DEF EvaluateRule, DecideRule, Skip, CooldownInv, Typed, Tasks
<1>2. RowsInv' /\ RowsInv
  BY <1>0, <1>1 DEF EvaluationInv, RowsInv
<1>3. /\ \A q \in Publishers : Working(q)' <=> Working(q)
      /\ \A k \in Jobs : (Reading(k)' <=> Reading(k)) /\ (Pending(k)' <=> Pending(k))
  BY <1>0, <1>1 DEF Working, Reading, Pending, Unread
<1>4. \A k \in Jobs : task'[k].seen = task[k].seen
  BY <1>1
<1>5. ASSUME ~lost PROVE LeaseInv' /\ SeenInv' /\ NoLostEvaluation'
  <2>1. LeaseInv /\ SeenInv /\ NoLostEvaluation
    BY <1>5 DEF EvaluationInv
  <2>2. LeaseInv'
    BY <1>0, <1>3, <2>1 DEF LeaseInv
  <2>3. SeenInv'
    BY <1>0, <1>3, <1>4, <2>1 DEF SeenInv
  <2>4. NoLostEvaluation'
    BY <1>0, <1>2, <1>3, <1>4, <1>5, <2>1, WitnessesKept
  <2> QED BY <2>2, <2>3, <2>4
<1> QED BY <1>0, <1>2, <1>5 DEF EvaluationInv

\* A finished evaluation has read every commit there is.
LEMMA FinishKeeps ==
    ASSUME AlertsAssumption, CooldownInv, EvaluationInv, NEW j \in Jobs, FinishEvaluation(j)
    PROVE  EvaluationInv'
<1>0. UNCHANGED <<version, publisher, lost>>
  BY DEF FinishEvaluation, data
<1>1. /\ \A k \in Jobs \ {j} : /\ status'[k] = status[k] /\ stage'[k] = stage[k]
                               /\ task'[k] = task[k]
      /\ stage[j] = "evaluating" /\ stage'[j] = "none" /\ status'[j] = "SUCCEEDED"
      /\ status' \in [Jobs -> {"ABSENT", "PENDING", "RUNNING", "FAILED", "SUCCEEDED", "DEAD"}]
  BY DEF FinishEvaluation, EvaluationInv, RowsInv, CooldownInv, Typed
<1>2. \A p \in Publishers : /\ evaluated'[p] \in Nat /\ evaluated'[p] >= task[j].seen[p]
  <2> SUFFICES ASSUME NEW p \in Publishers
               PROVE  evaluated'[p] \in Nat /\ evaluated'[p] >= task[j].seen[p]
    OBVIOUS
  <2>1. evaluated[p] \in Nat /\ task[j].seen[p] \in Nat
    BY DEF EvaluationInv, RowsInv, CooldownInv, Typed, Tasks
  <2>2. evaluated'[p] = Larger(evaluated[p], task[j].seen[p])
    BY DEF FinishEvaluation
  <2> QED BY <2>1, <2>2 DEF Larger
<1>3. evaluated' \in [Publishers -> Nat]
  BY <1>2 DEF FinishEvaluation
<1>4. RowsInv'
  BY <1>0, <1>1, <1>3 DEF EvaluationInv, RowsInv
<1>5. ASSUME ~lost PROVE LeaseInv' /\ SeenInv' /\ NoLostEvaluation'
  <2>1. LeaseInv /\ SeenInv
    BY <1>5 DEF EvaluationInv
  <2>2. /\ \A q \in Publishers : ~Working(q)'
        /\ \A k \in Jobs : ~Reading(k)'
    BY <1>0, <1>1, <2>1, Alone DEF Working, Reading
  <2>3. LeaseInv' /\ SeenInv'
    BY <2>2 DEF LeaseInv, SeenInv, Working
  <2>4. \A p \in Publishers : ~(version'[p] > evaluated'[p])
    <3> SUFFICES ASSUME NEW p \in Publishers PROVE ~(version'[p] > evaluated'[p])
      OBVIOUS
    <3>1. task[j].seen[p] = version[p] /\ version[p] \in Nat
      BY <1>1, <2>1 DEF SeenInv, Reading, CooldownInv, Typed
    <3> QED BY <1>0, <1>2, <3>1
  <2> QED BY <2>3, <2>4 DEF NoLostEvaluation
<1> QED BY <1>0, <1>4, <1>5 DEF EvaluationInv

\* Every step keeps the invariant.
LEMMA EvaluationStep ==
    ASSUME AlertsAssumption, CooldownInv, EvaluationInv, [Next]_vars
    PROVE  EvaluationInv'
<1>1. ASSUME \/ \E r \in Rules : EditRule(r)
             \/ Tick
             \/ UNCHANGED vars
      PROVE  EvaluationInv'
  <2>1. UNCHANGED <<version, evaluated, publisher, lost, status, stage, task, holder>>
    BY <1>1 DEF EditRule, Tick, vars, data, rows
  <2> QED BY <2>1 DEF EvaluationInv, RowsInv, LeaseInv, SeenInv, NoLostEvaluation, Working,
                      Reading, Pending, Unread
<1>2. ASSUME LoseSession PROVE EvaluationInv'
  <2>1. lost' /\ UNCHANGED <<evaluated, publisher, status, stage>>
    BY <1>2 DEF LoseSession, rows
  <2> QED BY <2>1 DEF EvaluationInv, RowsInv
<1> QED BY <1>1, <1>2, PublisherKeeps, CommitKeeps, SnapshotsKeep, RowKeeps, LoadKeeps,
           ReadingKeeps, FinishKeeps DEF Next, PublisherStep, JobStep

LEMMA EvaluationInit ==
    ASSUME AlertsAssumption, Init
    PROVE  EvaluationInv
BY DEF Init, EvaluationInv, RowsInv, LeaseInv, SeenInv, NoLostEvaluation, Working, Reading

\* EvaluationInv is an invariant: deduplication, leases and retries for every constant.
THEOREM EvaluationInvariance == Spec => []EvaluationInv
<1>1. Init => EvaluationInv BY AlertsAssumption, EvaluationInit
<1>2. CooldownInv /\ EvaluationInv /\ [Next]_vars => EvaluationInv'
      BY AlertsAssumption, EvaluationStep
<1> QED BY <1>1, <1>2, CooldownInvariance, PTL DEF Spec

\* Committed data no evaluation has read are still to be read, whatever is deduplicated,
\* deferred, retried or killed, as long as no lease is lost under a handler
\* (evaluate_alerts.py:158, enqueue_evaluate_alerts_job).
THEOREM EvaluationsKept == Spec => []NoLostEvaluation
<1>1. EvaluationInv => NoLostEvaluation BY DEF EvaluationInv, NoLostEvaluation
<1> QED BY <1>1, EvaluationInvariance, PTL
=============================================================================
