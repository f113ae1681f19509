----------------------------- MODULE RecalcQueue -----------------------------
(***************************************************************************)
(* The RECALCULATE_METRICS rows of one repository: how a webhook handler   *)
(* that changed normalized data asks for a recalculation of the affected   *)
(* range, how requests merge into the one waiting row, and how that row    *)
(* travels through claims, leases, retries and stale-claim recovery.       *)
(*                                                                         *)
(* The table has a partial unique index: at most one row of a repository   *)
(* waits (PENDING or FAILED).  The index belongs to adept-api's schema; it *)
(* is what the ON CONFLICT clause of the enqueue names.  A write that would *)
(* make a second row wait aborts with its whole transaction.               *)
(***************************************************************************)
EXTENDS Naturals, FiniteSets

CONSTANTS
    Rows,         \* rows the repository may get
    Horizon,      \* affected instants are 1 .. Horizon; 0 stands for NULL
    MaxAttempts,
    MaxWrites,    \* bound: changes the webhook handlers commit
    MaxCrashes,   \* bound: consumers that die, or fail to write an outcome
    Writer, None

ASSUME RecalcAssumption ==
    /\ Horizon \in Nat \ {0} /\ MaxAttempts \in Nat \ {0}
    /\ MaxWrites \in Nat /\ MaxCrashes \in Nat
    /\ Writer \notin Rows /\ None \notin Rows /\ Writer # None

VARIABLES
    status,    \* processing_jobs.status, ABSENT before the insert
    attempts,
    ready,     \* available_at <= now()
    range,     \* the payload's affected_from and affected_to
    stage,     \* where the consumer of a RUNNING row is
    seen,      \* changed instants its handler has read
    holder,    \* who holds the repository's lease: a row, Writer or None
    writer,    \* the webhook job: idle, writing, changed, enqueued or retrying
    affected,  \* the instant its current change affects
    dirty,     \* instants whose snapshots do not reflect the data
    writes, crashes

rows == <<status, attempts, ready, range, stage, seen>>
vars == <<rows, holder, writer, affected, dirty, writes, crashes>>

Instants == 1 .. Horizon
Ranges == [from : 0 .. Horizon, to : 0 .. Horizon]
Waiting == {r \in Rows : status[r] \in {"PENDING", "FAILED"}}

TypeOK ==
    /\ status \in [Rows -> {"ABSENT", "PENDING", "FAILED", "RUNNING", "SUCCEEDED", "DEAD"}]
    /\ attempts \in [Rows -> 0 .. MaxAttempts]
    /\ ready \in [Rows -> BOOLEAN]
    /\ range \in [Rows -> Ranges]
    /\ stage \in [Rows -> {"none", "claimed", "executing", "read", "orphan", "stale"}]
    /\ seen \in [Rows -> SUBSET Instants]
    /\ holder \in Rows \cup {Writer, None}
    /\ writer \in {"idle", "writing", "changed", "enqueued", "retrying"}
    /\ affected \in 0 .. Horizon
    /\ dirty \subseteq Instants
    /\ writes \in 0 .. MaxWrites
    /\ crashes \in 0 .. MaxCrashes

Init ==
    /\ status = [r \in Rows |-> "ABSENT"]
    /\ attempts = [r \in Rows |-> 0]
    /\ ready = [r \in Rows |-> FALSE]
    /\ range = [r \in Rows |-> [from |-> 0, to |-> 0]]
    /\ stage = [r \in Rows |-> "none"]
    /\ seen = [r \in Rows |-> {}]
    /\ holder = None
    /\ writer = "idle"
    /\ affected = 0
    /\ dirty = {}
    /\ writes = 0
    /\ crashes = 0

-----------------------------------------------------------------------------
(* Ranges.  A payload without a range asks for the whole window. *)

\* LEAST and GREATEST ignore NULL.
Least(a, b) == IF a = 0 \/ (b # 0 /\ b <= a) THEN b ELSE a
Greatest(a, b) == IF a >= b THEN a ELSE b

\* The variant a bug would be: the new request replaces the waiting one.
HullReplaced(p, q) == q

Hull(p, q) == [from |-> Least(p.from, q.from), to |-> Greatest(p.to, q.to)]

Covers(p, i) == p.from = 0 \/ (p.from <= i /\ i <= p.to)

-----------------------------------------------------------------------------
(* The webhook handler: it works under the repository's lease, commits the *)
(* normalized data, and enqueues in a transaction of its own.              *)

WriterStart ==
    /\ writer \in {"idle", "retrying"}
    /\ affected # 0 \/ writes < MaxWrites
    /\ holder = None
    /\ holder' = Writer
    /\ writer' = "writing"
    /\ UNCHANGED <<rows, affected, dirty, writes, crashes>>

\* A retried job finds its own change again: same instant, nothing new to reflect.
WriterCommit ==
    /\ writer = "writing"
    /\ writer' = "changed"
    /\ \/ /\ affected = 0
          /\ writes < MaxWrites
          /\ writes' = writes + 1
          /\ \E i \in 0 .. Horizon :
                /\ affected' = i
                /\ dirty' = dirty \cup ({i} \cap Instants)
       \/ /\ affected # 0
          /\ UNCHANGED <<affected, dirty, writes>>
    /\ UNCHANGED <<rows, holder, crashes>>

\* The row INSERT ... ON CONFLICT DO UPDATE writes: the waiting one, or a new one.
Targets == IF Waiting # {} THEN Waiting ELSE {r \in Rows : status[r] = "ABSENT"}

\* The waiting row is widened and starts over.
WriterEnqueue ==
    LET wanted == [from |-> affected, to |-> affected]
        r == CHOOSE t \in Targets : TRUE
    IN
    /\ writer = "changed"
    /\ Targets # {}
    /\ status' = [status EXCEPT ![r] = "PENDING"]
    /\ attempts' = [attempts EXCEPT ![r] = 0]
    /\ ready' = [ready EXCEPT ![r] = TRUE]
    /\ range' = [range EXCEPT ![r] = IF Waiting = {} THEN wanted ELSE Hull(@, wanted)]
    /\ writer' = "enqueued"
    /\ affected' = 0
    /\ UNCHANGED <<stage, seen, holder, dirty, writes, crashes>>

\* The handler returns and its lease closes.
WriterDone ==
    /\ writer = "enqueued"
    /\ writer' = "idle"
    /\ holder' = None
    /\ UNCHANGED <<rows, affected, dirty, writes, crashes>>

\* It dies before it is done; its own row brings the job back later.
WriterDies ==
    /\ writer \in {"writing", "changed", "enqueued"}
    /\ crashes < MaxCrashes
    /\ crashes' = crashes + 1
    /\ writer' = IF affected = 0 THEN "idle" ELSE "retrying"
    /\ holder' = None
    /\ UNCHANGED <<rows, affected, dirty, writes>>

-----------------------------------------------------------------------------
(* Consumers of the recalculation rows. *)

\* Variants: an off-by-one in the budget, a claim that forgets FAILED rows.
SpentLate(r) == attempts[r] > MaxAttempts

ClaimablePending(r) == status[r] = "PENDING" /\ ready[r]

Spent(r) == attempts[r] >= MaxAttempts

Claimable(r) == r \in Waiting /\ ready[r] /\ ~Spent(r)

\* One transaction: recovery of stale rows, then the claim.  Recovery that would
\* make two rows wait violates the index: nothing of the transaction happens.
Claim ==
    LET stale == {r \in Rows : stage[r] = "stale"}
        dead == {r \in stale : Spent(r)}
        back == stale \ dead
        taken == back \cup {r \in Rows : Claimable(r)}
    IN  /\ stale \cup taken # {}
        /\ Cardinality(Waiting \cup back) <= 1
        /\ status' = [r \in Rows |-> IF r \in dead THEN "DEAD"
                                     ELSE IF r \in taken THEN "RUNNING" ELSE status[r]]
        /\ attempts' = [r \in Rows |-> IF r \in taken THEN attempts[r] + 1 ELSE attempts[r]]
        /\ stage' = [r \in Rows |-> IF r \in taken THEN "claimed"
                                    ELSE IF r \in dead THEN "none" ELSE stage[r]]
        /\ UNCHANGED <<ready, range, seen, holder, writer, affected, dirty, writes, crashes>>

Finish(r, newStatus, newAttempts) ==
    /\ status' = [status EXCEPT ![r] = newStatus]
    /\ attempts' = [attempts EXCEPT ![r] = newAttempts]
    /\ ready' = [ready EXCEPT ![r] = FALSE]
    /\ stage' = [stage EXCEPT ![r] = "none"]
    /\ seen' = [seen EXCEPT ![r] = {}]
    /\ UNCHANGED range

\* The consumer is gone, or its write aborted: the row stays RUNNING, unattended.
Orphan(r) ==
    /\ stage' = [stage EXCEPT ![r] = "orphan"]
    /\ seen' = [seen EXCEPT ![r] = {}]
    /\ UNCHANGED <<status, attempts, ready, range>>

\* A row goes back to waiting, unless the index already has a waiting row.
WaitAgain(r, newStatus, newAttempts) ==
    IF Waiting = {} THEN Finish(r, newStatus, newAttempts) ELSE Orphan(r)

LeaseOk(r) ==
    /\ stage[r] = "claimed"
    /\ holder = None
    /\ holder' = r
    /\ stage' = [stage EXCEPT ![r] = "executing"]
    /\ UNCHANGED <<status, attempts, ready, range, seen, writer, affected, dirty,
                   writes, crashes>>

\* JobScopeBusy: deferred for 5 s, the attempt restored.
LeaseBusy(r) ==
    /\ stage[r] = "claimed"
    /\ holder # None
    /\ WaitAgain(r, "PENDING", IF attempts[r] = 0 THEN 0 ELSE attempts[r] - 1)
    /\ UNCHANGED <<holder, writer, affected, dirty, writes, crashes>>

RunReads(r) ==
    /\ stage[r] = "executing"
    /\ stage' = [stage EXCEPT ![r] = "read"]
    /\ seen' = [seen EXCEPT ![r] = dirty]
    /\ UNCHANGED <<status, attempts, ready, range, holder, writer, affected, dirty,
                   writes, crashes>>

\* The snapshots of the range are upserted from what was read.
RunSucceeds(r) ==
    /\ stage[r] = "read"
    /\ dirty' = {i \in dirty : ~(i \in seen[r] /\ Covers(range[r], i))}
    /\ Finish(r, "SUCCEEDED", attempts[r])
    /\ holder' = None
    /\ UNCHANGED <<writer, affected, writes, crashes>>

RunFails(r) ==
    /\ stage[r] \in {"executing", "read"}
    /\ IF Spent(r)
       THEN Finish(r, "DEAD", attempts[r])
       ELSE WaitAgain(r, "FAILED", attempts[r])
    /\ holder' = None
    /\ UNCHANGED <<writer, affected, dirty, writes, crashes>>

ConsumerDies(r) ==
    /\ stage[r] \in {"claimed", "executing", "read"}
    /\ crashes < MaxCrashes
    /\ crashes' = crashes + 1
    /\ Orphan(r)
    /\ holder' = IF holder = r THEN None ELSE holder
    /\ UNCHANGED <<writer, affected, dirty, writes>>

LockTimeout(r) ==
    /\ stage[r] = "orphan"
    /\ stage' = [stage EXCEPT ![r] = "stale"]
    /\ UNCHANGED <<status, attempts, ready, range, seen, holder, writer, affected,
                   dirty, writes, crashes>>

BackoffElapses(r) ==
    /\ r \in Waiting
    /\ ~ready[r]
    /\ ready' = [ready EXCEPT ![r] = TRUE]
    /\ UNCHANGED <<status, attempts, range, stage, seen, holder, writer, affected,
                   dirty, writes, crashes>>

WriterStep == WriterStart \/ WriterCommit \/ WriterEnqueue \/ WriterDone

RowStep(r) ==
    \/ LeaseOk(r) \/ LeaseBusy(r) \/ RunReads(r) \/ RunSucceeds(r) \/ RunFails(r)
    \/ LockTimeout(r) \/ BackoffElapses(r)

Next ==
    \/ WriterStep
    \/ WriterDies
    \/ Claim
    \/ \E r \in Rows : RowStep(r) \/ ConsumerDies(r)

Spec == Init /\ [][Next]_vars

(***************************************************************************)
(* Claims are polled for, threads run, timers elapse, and a webhook job    *)
(* that died is retried.  Nothing forces a new change or a crash.          *)
(***************************************************************************)
Fairness ==
    /\ WF_vars(WriterEnqueue) /\ WF_vars(WriterDone) /\ WF_vars(WriterCommit)
    /\ WF_vars(WriterStart /\ affected # 0)
    /\ WF_vars(Claim)
    /\ \A r \in Rows : WF_vars(RowStep(r))

FairSpec == Spec /\ Fairness

-----------------------------------------------------------------------------
\* A committed change is never forgotten: until its snapshots are rewritten, some
\* row still asks for its instant (waiting, unfinished and not past its read, or
\* dead-lettered for an operator to see), or the webhook job has yet to enqueue.
\* Merging requests, and the gap between commit and enqueue, must preserve this.
NoLostRecalculation ==
    \A i \in dirty :
        \/ affected = i
        \/ \E r \in Rows :
              /\ status[r] \in {"PENDING", "FAILED", "RUNNING", "DEAD"}
              /\ Covers(range[r], i)
              /\ stage[r] = "read" => i \in seen[r]

\* Recovery can give a stale row back only while it would be the only one to wait.
Retryable == {r \in Rows : stage[r] = "stale" /\ ~Spent(r)}
Collided == Retryable # {} /\ Cardinality(Waiting \cup Retryable) > 1

Fresh == dirty = {} \/ \E r \in Rows : status[r] = "DEAD"

\* Unless recovery collides with the unique index, every change reaches the
\* snapshots or a dead letter, whatever crashes, retries and busy leases come between.
SnapshotsCatchUp == []<>Fresh \/ <>Collided

\* "Stale RUNNING jobs moved durably to retry or dead letter"
\* (docs/worker-monitoring.md:58), "unfinished jobs use the existing stale-claim
\* recovery path" (worker.py:87): a claim nobody works on is always recovered.
StaleClaimsRecovered == \A r \in Rows : stage[r] = "stale" ~> status[r] # "RUNNING"
=============================================================================
