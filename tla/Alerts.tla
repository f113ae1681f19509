-------------------------------- MODULE Alerts --------------------------------
(***************************************************************************)
(* Alert rules of one repository.  Publishers commit metric snapshots or a *)
(* risk prediction and queue an evaluation unless one is PENDING; an       *)
(* evaluation reads the enabled rules, compares each with the data, and    *)
(* decides under the rule's row lock whether to queue a notification.      *)
(*                                                                         *)
(* Publishers and evaluations work under the repository's lease, which a   *)
(* dead session releases under a handler that still runs.  Users edit      *)
(* rules at any time.                                                      *)
(***************************************************************************)
EXTENDS Naturals, FiniteSets

CONSTANTS
    Rules,          \* naturals, in the order of created_at
    Jobs,           \* EVALUATE_ALERTS rows
    Snapshots,      \* the publishers: Snapshots commits before it enqueues,
    Risk,           \*   Risk in the same transaction
    Levels,         \* values a metric can take; 0 stands for no observation
    Comparator,     \* [Rules -> comparator]
    Source,         \* [Rules -> publisher of the metric]
    Cooldowns, Thresholds,   \* what users may configure
    MaxAttempts,
    MaxTime, MaxPublications, MaxEdits, MaxFaults,   \* bounds
    None

Publishers == {Snapshots, Risk}

ASSUME AlertsAssumption ==
    /\ Rules \subseteq Nat /\ IsFiniteSet(Rules)
    /\ Levels \subseteq Nat /\ Thresholds \subseteq Nat /\ Cooldowns \subseteq Nat
    /\ Source \in [Rules -> Publishers]
    /\ MaxTime \in Nat \ {0} /\ MaxAttempts \in Nat
    /\ MaxPublications \in Nat /\ MaxEdits \in Nat /\ MaxFaults \in Nat
    /\ Snapshots # Risk /\ Publishers \cap Jobs = {} /\ None \notin Jobs \cup Publishers

VARIABLES
    now,
    rule,        \* alert_rules: enabled, cooldown, threshold, last_triggered_at (0: never)
    deliveries,  \* notification_deliveries: rule, evaluation job, instant, cooldown applied
    status, attempts,   \* of the evaluation rows
    stage,       \* [Jobs -> where the handler of a RUNNING row is]
    task,        \* [Jobs -> what it has read]
    publisher,   \* [Publishers -> where its handler is]
    level,       \* committed data of each publisher
    version,     \* its number of commits so far
    evaluated,   \* the newest version a finished evaluation has read
    holder,      \* owner of the repository's lease, or None
    lost,        \* a session died under its handler
    publications, edits, faults

rows == <<status, attempts>>
data == <<level, version>>
counters == <<publications, edits, faults>>
vars == <<now, rule, deliveries, rows, stage, task, publisher, data, evaluated,
          holder, lost, counters>>

Instants == 1 .. MaxTime
RuleRows == [enabled : BOOLEAN, cooldown : Cooldowns, threshold : Thresholds,
             last : 0 .. MaxTime]
Deliveries == [rule : Rules, job : Jobs, at : Instants, cooldown : Cooldowns]
Tasks == [rules : SUBSET Rules, read : [Rules -> RuleRows], seen : [Publishers -> Nat],
          start : 0 .. MaxTime]
NoTask == [rules |-> {}, read |-> CHOOSE table \in [Rules -> RuleRows] : TRUE,
           seen |-> [p \in Publishers |-> 0], start |-> 0]

Init ==
    /\ now = 1
    /\ rule \in [Rules -> {row \in RuleRows : row.enabled /\ row.last = 0}]
    /\ deliveries = {}
    /\ status = [j \in Jobs |-> "ABSENT"]
    /\ attempts = [j \in Jobs |-> 0]
    /\ stage = [j \in Jobs |-> "none"]
    /\ task = [j \in Jobs |-> NoTask]
    /\ publisher = [p \in Publishers |-> "idle"]
    /\ level = [p \in Publishers |-> 0]
    /\ version = [p \in Publishers |-> 0]
    /\ evaluated = [p \in Publishers |-> 0]
    /\ holder = None
    /\ lost = FALSE
    /\ publications = 0 /\ edits = 0 /\ faults = 0

-----------------------------------------------------------------------------
(* Leases. *)

\* Variant: evaluations do not exclude publishers.
AcquireShared(x) == holder' = IF holder = None THEN x ELSE holder

Acquire(x) == holder = None /\ holder' = x
Release(x) == holder' = IF holder = x THEN None ELSE holder

LoseSession ==
    /\ holder # None
    /\ faults < MaxFaults
    /\ faults' = faults + 1
    /\ holder' = None
    /\ lost' = TRUE
    /\ UNCHANGED <<now, rule, deliveries, rows, stage, task, publisher, data, evaluated,
                   publications, edits>>

-----------------------------------------------------------------------------
(* Publishers: recalculate_repository_metrics and                          *)
(* calculate_and_persist_pull_request_risk.                                *)

\* The SELECT before the INSERT.
Queued == \E j \in Jobs : status[j] = "PENDING"

InsertJob ==
    \E j \in Jobs :
        /\ status[j] = "ABSENT"
        /\ status' = [status EXCEPT ![j] = "PENDING"]
        /\ UNCHANGED attempts

Publish(p) ==
    /\ version' = [version EXCEPT ![p] = @ + 1]
    /\ \E l \in Levels : level' = [level EXCEPT ![p] = l]

To(p, at) == publisher' = [publisher EXCEPT ![p] = at]

PublisherStarts(p) ==
    /\ publisher[p] \in {"idle", "retrying"}
    /\ \/ publisher[p] = "retrying" /\ UNCHANGED publications
       \/ /\ publisher[p] = "idle"
          /\ publications < MaxPublications
          /\ publications' = publications + 1
    /\ Acquire(p)
    /\ To(p, "started")
    /\ UNCHANGED <<now, rule, deliveries, rows, stage, task, data, evaluated, lost,
                   edits, faults>>

SnapshotsCommit ==
    /\ publisher[Snapshots] = "started"
    /\ Publish(Snapshots)
    /\ To(Snapshots, "written")
    /\ UNCHANGED <<now, rule, deliveries, rows, stage, task, evaluated, holder, lost, counters>>

\* Risk selects inside the transaction that writes the prediction.
SelectQueued(p) ==
    /\ publisher[p] = (IF p = Risk THEN "started" ELSE "written")
    /\ To(p, IF Queued THEN "queued" ELSE "unqueued")
    /\ UNCHANGED <<now, rule, deliveries, rows, stage, task, data, evaluated, holder,
                   lost, counters>>

\* The end of the enqueuing transaction, and of the handler.
PublisherCommits(p) ==
    /\ publisher[p] \in {"queued", "unqueued"}
    /\ IF publisher[p] = "unqueued" THEN InsertJob ELSE UNCHANGED rows
    /\ IF p = Risk THEN Publish(p) ELSE UNCHANGED data
    /\ To(p, "idle")
    /\ Release(p)
    /\ UNCHANGED <<now, rule, deliveries, stage, task, evaluated, lost, counters>>

PublisherDies(p) ==
    /\ publisher[p] \notin {"idle", "retrying"}
    /\ faults < MaxFaults
    /\ faults' = faults + 1
    /\ To(p, "retrying")
    /\ Release(p)
    /\ UNCHANGED <<now, rule, deliveries, rows, stage, task, data, evaluated, lost,
                   publications, edits>>

-----------------------------------------------------------------------------
(* Evaluations. *)

Claim(j) ==
    /\ status[j] \in {"PENDING", "FAILED"}
    /\ attempts[j] < MaxAttempts
    /\ status' = [status EXCEPT ![j] = "RUNNING"]
    /\ attempts' = [attempts EXCEPT ![j] = @ + 1]
    /\ stage' = [stage EXCEPT ![j] = "claimed"]
    /\ UNCHANGED <<now, rule, deliveries, task, publisher, data, evaluated, holder,
                   lost, counters>>

\* The lease is busy: back to PENDING, beside a newer PENDING row if need be.
Defer(j) ==
    /\ stage[j] = "claimed"
    /\ holder # None
    /\ status' = [status EXCEPT ![j] = "PENDING"]
    /\ attempts' = [attempts EXCEPT ![j] = @ - 1]
    /\ stage' = [stage EXCEPT ![j] = "none"]
    /\ UNCHANGED <<now, rule, deliveries, task, publisher, data, evaluated, holder,
                   lost, counters>>

\* All enabled rules are read once, with the fields the decision will use.
LoadRules(j) ==
    LET enabled == {r \in Rules : rule[r].enabled} IN
    /\ stage[j] = "claimed"
    /\ Acquire(j)
    /\ stage' = [stage EXCEPT ![j] = "evaluating"]
    /\ task' = [task EXCEPT ![j] = [rules |-> enabled, read |-> rule,
                                    seen |-> version, start |-> 0]]
    /\ UNCHANGED <<now, rule, deliveries, rows, publisher, data, evaluated, lost, counters>>

Matches(comparator, actual, threshold) ==
    \/ comparator = "GT" /\ actual > threshold
    \/ comparator = "GTE" /\ actual >= threshold
    \/ comparator = "LT" /\ actual < threshold
    \/ comparator = "LTE" /\ actual <= threshold
    \/ comparator = "EQ" /\ actual = threshold

\* The oldest rule not yet decided.
Current(j, r) == r \in task[j].rules /\ \A x \in task[j].rules : r <= x

Skip(j, r) ==
    /\ task' = [task EXCEPT ![j].rules = @ \ {r}, ![j].start = 0]
    /\ stage' = [stage EXCEPT ![j] = "evaluating"]

\* The data are read rule by rule; a match opens the deciding transaction, whose
\* now() is the time it starts, not the time it gets the row lock.
EvaluateRule(j, r) ==
    LET actual == level[Source[r]] IN
    /\ stage[j] = "evaluating"
    /\ Current(j, r)
    /\ IF actual # 0 /\ Matches(Comparator[r], actual, task[j].read[r].threshold)
       THEN /\ stage' = [stage EXCEPT ![j] = "deciding"]
            /\ task' = [task EXCEPT ![j].start = now]
       ELSE Skip(j, r)
    /\ UNCHANGED <<now, rule, deliveries, rows, publisher, data, evaluated, holder, lost,
                   counters>>

\* Variant: cooldown read with the rules instead of under the lock.
CoolingUnlocked(j, r) ==
    LET last == task[j].read[r].last IN last # 0 /\ task[j].start < last + task[j].read[r].cooldown

\* last_triggered_at is the row's, locked; the cooldown is the one read before.
Cooling(j, r) ==
    rule[r].last # 0 /\ task[j].start < rule[r].last + task[j].read[r].cooldown

AlreadyQueued(j, r) == \E d \in deliveries : d.rule = r /\ d.job = j

\* Variant: the rule is marked even when the delivery was there already.
DeliverAgain(j, r) ==
    /\ deliveries' = IF AlreadyQueued(j, r) THEN deliveries
                     ELSE deliveries \cup {[rule |-> r, job |-> j, at |-> task[j].start,
                                            cooldown |-> task[j].read[r].cooldown]}
    /\ rule' = [rule EXCEPT ![r].last = task[j].start]

\* INSERT ... ON CONFLICT (alert_rule_id, event_key) DO NOTHING, then the UPDATE.
Deliver(j, r) ==
    IF AlreadyQueued(j, r) THEN UNCHANGED <<deliveries, rule>>
    ELSE /\ deliveries' = deliveries \cup {[rule |-> r, job |-> j, at |-> task[j].start,
                                            cooldown |-> task[j].read[r].cooldown]}
         /\ rule' = [rule EXCEPT ![r].last = task[j].start]

DecideRule(j, r) ==
    /\ stage[j] = "deciding"
    /\ Current(j, r)
    /\ IF ~rule[r].enabled \/ Cooling(j, r) THEN UNCHANGED <<deliveries, rule>>
       ELSE Deliver(j, r)
    /\ Skip(j, r)
    /\ UNCHANGED <<now, rows, publisher, data, evaluated, holder, lost, counters>>

Larger(a, b) == IF a >= b THEN a ELSE b

FinishEvaluation(j) ==
    /\ stage[j] = "evaluating"
    /\ task[j].rules = {}
    /\ status' = [status EXCEPT ![j] = "SUCCEEDED"]
    /\ stage' = [stage EXCEPT ![j] = "none"]
    /\ evaluated' = [p \in Publishers |-> Larger(evaluated[p], task[j].seen[p])]
    /\ task' = [task EXCEPT ![j] = NoTask]
    /\ Release(j)
    /\ UNCHANGED <<now, rule, deliveries, attempts, publisher, data, lost, counters>>

\* An error, or a crash that recovery turns into a retry.
EvaluationFails(j) ==
    /\ stage[j] # "none"
    /\ faults < MaxFaults
    /\ faults' = faults + 1
    /\ status' = [status EXCEPT ![j] = IF attempts[j] >= MaxAttempts THEN "DEAD" ELSE "FAILED"]
    /\ stage' = [stage EXCEPT ![j] = "none"]
    /\ task' = [task EXCEPT ![j] = NoTask]
    /\ Release(j)
    /\ UNCHANGED <<now, rule, deliveries, attempts, publisher, data, evaluated, lost,
                   publications, edits>>

-----------------------------------------------------------------------------
\* A user edits a rule; last_triggered_at is not theirs to change.
EditRule(r) ==
    /\ edits < MaxEdits
    /\ edits' = edits + 1
    /\ \E row \in RuleRows : row.last = rule[r].last /\ rule' = [rule EXCEPT ![r] = row]
    /\ UNCHANGED <<now, deliveries, rows, stage, task, publisher, data, evaluated, holder,
                   lost, publications, faults>>

Tick ==
    /\ now < MaxTime
    /\ now' = now + 1
    /\ UNCHANGED <<rule, deliveries, rows, stage, task, publisher, data, evaluated, holder,
                   lost, counters>>

PublisherStep(p) == PublisherStarts(p) \/ SelectQueued(p) \/ PublisherCommits(p)

JobStep(j) ==
    \/ Claim(j) \/ Defer(j) \/ LoadRules(j) \/ FinishEvaluation(j)
    \/ \E r \in Rules : EvaluateRule(j, r) \/ DecideRule(j, r)

Next ==
    \/ \E p \in Publishers : PublisherStep(p) \/ PublisherDies(p)
    \/ SnapshotsCommit
    \/ \E j \in Jobs : JobStep(j) \/ EvaluationFails(j)
    \/ \E r \in Rules : EditRule(r)
    \/ LoseSession
    \/ Tick

Spec == Init /\ [][Next]_vars

(***************************************************************************)
(* Handlers run on, claimed rows get the lease when it is free often       *)
(* enough, and a publisher that died is retried.  Nothing forces a new     *)
(* publication, an edit, a fault or the passing of time.                   *)
(***************************************************************************)
Fairness ==
    /\ WF_vars(SnapshotsCommit)
    /\ \A p \in Publishers :
          /\ WF_vars(SelectQueued(p) \/ PublisherCommits(p))
          /\ SF_vars(PublisherStarts(p) /\ publisher[p] = "retrying")
    /\ \A j \in Jobs :
          /\ WF_vars(Claim(j)) /\ SF_vars(LoadRules(j))
          /\ WF_vars(\E r \in Rules : EvaluateRule(j, r) \/ DecideRule(j, r))
          /\ WF_vars(FinishEvaluation(j))

FairSpec == Spec /\ Fairness

-----------------------------------------------------------------------------
\* "Serialize the cooldown decision for this rule so concurrent workers cannot
\* create two deliveries inside one cooldown window" (evaluate_alerts.py:498): of
\* two notifications of a rule, the later keeps the cooldown its job had read,
\* whatever sessions die, whatever users edit, however long a lock is waited for.
CooldownRespected ==
    \A a, b \in deliveries :
        \/ a = b
        \/ a.rule # b.rule
        \/ a.at + b.cooldown <= b.at
        \/ b.at + a.cooldown <= a.at

\* A rule is silenced only by a notification that exists: last_triggered_at is the
\* instant of its newest delivery, also when a retried job meets its own delivery.
SilencedByDelivery ==
    \A r \in Rules :
        /\ rule[r].last # 0 => \E d \in deliveries : d.rule = r /\ d.at = rule[r].last
        /\ \A d \in deliveries : d.rule = r => d.at <= rule[r].last

Unread(j) == stage[j] \in {"none", "claimed"} /\ status[j] \in {"PENDING", "FAILED", "RUNNING"}

\* Deduplication never swallows an evaluation: committed data that no finished
\* evaluation has read are still to be read by some row, or their publisher has yet
\* to enqueue, or a dead letter tells.  It takes the lease: a prediction is not yet
\* visible when its transaction looks for a PENDING row.
NoLostEvaluation ==
    ~lost => \A p \in Publishers : version[p] > evaluated[p] =>
        \/ p = Snapshots /\ publisher[p] # "idle"
        \/ \E j \in Jobs : \/ Unread(j)
                           \/ status[j] = "DEAD"
                           \/ stage[j] # "none" /\ task[j].seen[p] = version[p]

\* Every publication is evaluated in the end, or an evaluation is dead-lettered.
EvaluationsCatchUp ==
    []<>(\/ lost
         \/ \E j \in Jobs : status[j] = "DEAD"
         \/ \A p \in Publishers : evaluated[p] = version[p])
=============================================================================
