------------------------------ MODULE WorkerPool ------------------------------
(***************************************************************************)
(* The worker processes of adept-engine and the processing_jobs rows they  *)
(* share.  A process (a "boot": every restart gets a fresh boot id) runs a *)
(* few consumer threads.  A consumer claims one row in a transaction that  *)
(* also recovers stale rows, opens a lease (a database session of its own  *)
(* that takes advisory locks on the job, its workspace and its repository  *)
(* and refreshes locked_at), runs the handler, writes the outcome into the *)
(* row and closes the session.                                             *)
(*                                                                         *)
(* Time enters through lockedAge (the age of a row's locked_at) and beat   *)
(* (the time since a lease's last heartbeat), both advanced by Tick.       *)
(***************************************************************************)
EXTENDS Naturals, FiniteSets

CONSTANTS
    Boots,            \* process incarnations, each started at most once
    Consumers,        \* consumer ids: one per boot and thread slot
    BootOf,           \* the boot a consumer id belongs to
    Jobs,             \* rows of processing_jobs
    Workspace,        \* the workspace a job's lease resolves, or None
    Repository,       \* the repository a job's lease resolves, or None
    Deletions,        \* the DELETE_WORKSPACE jobs
    Poison,           \* jobs whose handler may raise PermanentJobError
    Rank,             \* position in ORDER BY priority, created_at, id
    None,
    MaxAttempts,      \* max_attempts of every row
    StaleAfter,       \* engine_job_lock_timeout_seconds, in ticks
    HeartbeatEvery,   \* the lease's heartbeat interval, in ticks
    MaxMissedBeats,   \* bound: beats in a row that find the row locked
    MaxContinuations, \* bound: paginated requeues of one job
    MaxFaults,        \* bound: database errors at a consumer's own write
    MaxLosses         \* bound: lease sessions lost under a running handler

(***************************************************************************)
(* worker.py: interval_seconds = min(30, timeout / 3), so two intervals    *)
(* always fit below the stale timeout.                                     *)
(***************************************************************************)
ASSUME PoolAssumption ==
    /\ BootOf \in [Consumers -> Boots]
    /\ None \notin Consumers /\ None \notin Jobs
    /\ Deletions \subseteq Jobs /\ Poison \subseteq Jobs
    /\ Rank \in [Jobs -> Nat]
    /\ \A j, k \in Jobs : Rank[j] = Rank[k] => j = k
    /\ DOMAIN Workspace = Jobs /\ DOMAIN Repository = Jobs
    /\ \A j \in Deletions : Repository[j] = None
    /\ MaxAttempts \in Nat \ {0}
    /\ HeartbeatEvery \in Nat \ {0}
    /\ StaleAfter \in Nat /\ MaxMissedBeats \in Nat
    /\ (MaxMissedBeats + 1) * HeartbeatEvery < StaleAfter
    /\ MaxContinuations \in Nat /\ MaxFaults \in Nat /\ MaxLosses \in Nat

VARIABLES
    status,        \* processing_jobs.status; ABSENT before, GONE after the row exists
    attempts,      \* processing_jobs.attempts
    lockedBy,      \* processing_jobs.locked_by
    lockedAge,     \* now() - locked_at, up to StaleAfter
    available,     \* available_at <= now()
    spent,         \* history: claims that failed or were abandoned since the last reset
    continuations, \* history: paginated requeues so far (for the bound)
    boot,          \* a process: unborn, up, stopping (stop event set) or gone
    phase,         \* where a consumer is in consume_jobs
    task,          \* the ClaimedJob it works on
    claimed,       \* ClaimedJob.attempts
    held,          \* the advisory locks its lease session holds
    beat,          \* time since its lease's last heartbeat
    missed,        \* heartbeats in a row that found the row locked
    lost,          \* the session died and the guard has not noticed
    faults, losses \* faults injected so far (for the bounds)

row == <<status, attempts, lockedBy, lockedAge, available, spent, continuations>>
lease == <<held, beat, missed, lost>>
budget == <<faults, losses>>
vars == <<row, boot, phase, task, claimed, lease, budget>>

Waiting == {"PENDING", "FAILED"}
Finished == {"SUCCEEDED", "DEAD", "GONE"}
Statuses == {"ABSENT", "RUNNING"} \cup Waiting \cup Finished
Phases == {"off", "polling", "claimed", "leasing", "deferring", "executing", "returning"}
LockLevels == {"job", "workspace", "repository"}

TypeOK ==
    /\ status \in [Jobs -> Statuses]
    /\ attempts \in [Jobs -> 0 .. MaxAttempts]
    /\ lockedBy \in [Jobs -> Consumers \cup {None}]
    /\ lockedAge \in [Jobs -> 0 .. StaleAfter]
    /\ available \in [Jobs -> BOOLEAN]
    /\ spent \in [Jobs -> 0 .. MaxAttempts]
    /\ continuations \in [Jobs -> 0 .. MaxContinuations]
    /\ boot \in [Boots -> {"unborn", "up", "stopping", "gone"}]
    /\ phase \in [Consumers -> Phases]
    /\ task \in [Consumers -> Jobs \cup {None}]
    /\ claimed \in [Consumers -> 0 .. MaxAttempts]
    /\ held \in [Consumers -> SUBSET LockLevels]
    /\ beat \in [Consumers -> 0 .. HeartbeatEvery]
    /\ missed \in [Consumers -> 0 .. MaxMissedBeats]
    /\ lost \in [Consumers -> BOOLEAN]
    /\ faults \in 0 .. MaxFaults
    /\ losses \in 0 .. MaxLosses

Init ==
    /\ status = [j \in Jobs |-> "ABSENT"]
    /\ attempts = [j \in Jobs |-> 0]
    /\ lockedBy = [j \in Jobs |-> None]
    /\ lockedAge = [j \in Jobs |-> 0]
    /\ available = [j \in Jobs |-> FALSE]
    /\ spent = [j \in Jobs |-> 0]
    /\ continuations = [j \in Jobs |-> 0]
    /\ boot = [b \in Boots |-> "unborn"]
    /\ phase = [c \in Consumers |-> "off"]
    /\ task = [c \in Consumers |-> None]
    /\ claimed = [c \in Consumers |-> 0]
    /\ held = [c \in Consumers |-> {}]
    /\ beat = [c \in Consumers |-> 0]
    /\ missed = [c \in Consumers |-> 0]
    /\ lost = [c \in Consumers |-> FALSE]
    /\ faults = 0
    /\ losses = 0

-----------------------------------------------------------------------------
(* The rows a statement's WHERE clause selects. *)

\* A variant of Owned: the writer does not check locked_by.
OwnedByAnyone(c, j) == status[j] = "RUNNING"

Owned(c, j) == status[j] = "RUNNING" /\ lockedBy[j] = c

JobLockFree(j) == \A d \in Consumers : "job" \in held[d] => task[d] # j

Stale(j) ==
    /\ status[j] = "RUNNING"
    /\ lockedAge[j] = StaleAfter
    /\ JobLockFree(j)

Exhausted(j) == attempts[j] >= MaxAttempts

(***************************************************************************)
(* One transaction of claim_jobs: dead-letter exhausted stale rows, give   *)
(* the other stale rows back, then claim the first ready row.  now() is    *)
(* the transaction's, so a row given back is ready in the same statement.  *)
(***************************************************************************)
\* Variants of Ready: attempts < max_attempts is forgotten, or FAILED rows are.
ReadyOverBudget(j) == Stale(j) \/ (status[j] \in Waiting /\ available[j])

ReadyPending(j) ==
    \/ Stale(j) /\ ~Exhausted(j)
    \/ status[j] = "PENDING" /\ available[j] /\ ~Exhausted(j)

Ready(j) ==
    \/ Stale(j) /\ ~Exhausted(j)
    \/ status[j] \in Waiting /\ available[j] /\ ~Exhausted(j)

First(S) == {j \in S : \A k \in S : Rank[j] <= Rank[k]}

Claim(c) ==
    LET recovered == {j \in Jobs : Stale(j)}
        dead == {j \in recovered : Exhausted(j)}
        taken == First({j \in Jobs : Ready(j)})
    IN  /\ phase[c] = "polling"
        /\ boot[BootOf[c]] = "up"
        /\ status' = [j \in Jobs |->
                        IF j \in taken THEN "RUNNING"
                        ELSE IF j \in dead THEN "DEAD"
                        ELSE IF j \in recovered THEN "FAILED"
                        ELSE status[j]]
        /\ attempts' = [j \in Jobs |-> IF j \in taken THEN attempts[j] + 1 ELSE attempts[j]]
        /\ lockedBy' = [j \in Jobs |->
                          IF j \in taken THEN c
                          ELSE IF j \in recovered THEN None ELSE lockedBy[j]]
        /\ lockedAge' = [j \in Jobs |->
                           IF j \in taken \cup recovered THEN 0 ELSE lockedAge[j]]
        /\ available' = [j \in Jobs |-> available[j] \/ j \in recovered \ dead]
        /\ spent' = [j \in Jobs |-> IF j \in recovered THEN spent[j] + 1 ELSE spent[j]]
        /\ \/ /\ taken = {}
              /\ UNCHANGED <<phase, task, claimed>>
           \/ \E j \in taken :
                 /\ phase' = [phase EXCEPT ![c] = "claimed"]
                 /\ task' = [task EXCEPT ![c] = j]
                 /\ claimed' = [claimed EXCEPT ![c] = attempts[j] + 1]
        /\ UNCHANGED <<continuations, boot, lease, budget>>

-----------------------------------------------------------------------------
(* Writes of a consumer to its own row: they happen only WHERE the row is  *)
(* RUNNING and locked_by is the writer; otherwise JobOwnershipError.       *)

Relinquish(c, j, newStatus, newAttempts, isAvailable, newSpent) ==
    /\ status' = [status EXCEPT ![j] = newStatus]
    /\ attempts' = [attempts EXCEPT ![j] = newAttempts]
    /\ lockedBy' = [lockedBy EXCEPT ![j] = None]
    /\ lockedAge' = [lockedAge EXCEPT ![j] = 0]
    /\ available' = [available EXCEPT ![j] = isAvailable]
    /\ spent' = [spent EXCEPT ![j] = newSpent]

LeaveRow == UNCHANGED <<status, attempts, lockedBy, lockedAge, available, spent>>

WriteOwned(c, newStatus, newAttempts, isAvailable, newSpent) ==
    LET j == task[c] IN
    IF Owned(c, j)
    THEN Relinquish(c, j, newStatus, newAttempts, isAvailable, newSpent)
    ELSE LeaveRow

\* A variant of Requeue: the attempt is not given back.
RequeueSpends(c, isAvailable, reset) ==
    LET j == task[c] IN WriteOwned(c, "PENDING", attempts[j], isAvailable, spent[j])

\* retry.requeue_with_payload: attempts = GREATEST(attempts - 1, 0), or 0.
Requeue(c, isAvailable, reset) ==
    LET j == task[c] IN
    WriteOwned(c, "PENDING",
               IF reset \/ attempts[j] = 0 THEN 0 ELSE attempts[j] - 1,
               isAvailable,
               IF reset THEN 0 ELSE spent[j])

\* Variants of MarkFailed: one attempt too many, one too few.
MarkFailedLate(c, permanent) ==
    LET j == task[c] IN
    WriteOwned(c, IF permanent \/ attempts[j] > MaxAttempts THEN "DEAD" ELSE "FAILED",
               attempts[j], FALSE, spent[j] + 1)

MarkFailedEarly(c, permanent) ==
    LET j == task[c] IN
    WriteOwned(c, IF permanent \/ attempts[j] + 1 >= MaxAttempts THEN "DEAD" ELSE "FAILED",
               attempts[j], FALSE, spent[j] + 1)

\* retry.mark_failed.
MarkFailed(c, permanent) ==
    LET j == task[c] IN
    WriteOwned(c, IF permanent \/ Exhausted(j) THEN "DEAD" ELSE "FAILED",
               attempts[j], FALSE, spent[j] + 1)

\* retry.mark_succeeded.
MarkSucceeded(c) ==
    LET j == task[c] IN WriteOwned(c, "SUCCEEDED", attempts[j], FALSE, spent[j])

-----------------------------------------------------------------------------
(* From a claim to a lease: consume_jobs and lease._acquire. *)

Resume(c, next) == phase' = [phase EXCEPT ![c] = next]

\* Back to the head of the loop, or out of it: the row is no longer this thread's.
Forget(c, next) ==
    /\ Resume(c, next)
    /\ task' = [task EXCEPT ![c] = None]
    /\ claimed' = [claimed EXCEPT ![c] = 0]

Unlock(c) ==
    /\ held' = [held EXCEPT ![c] = {}]
    /\ beat' = [beat EXCEPT ![c] = 0]
    /\ missed' = [missed EXCEPT ![c] = 0]
    /\ lost' = [lost EXCEPT ![c] = FALSE]

\* A variant of DeferShutdown: the thread leaves with its claim.
DeferShutdownForgets(c) ==
    /\ phase[c] = "claimed"
    /\ boot[BootOf[c]] = "stopping"
    /\ Forget(c, "off")
    /\ UNCHANGED <<row, boot, lease, budget>>

\* The stop event was seen after the claim: hand the row back and leave.
DeferShutdown(c) ==
    /\ phase[c] = "claimed"
    /\ boot[BootOf[c]] = "stopping"
    /\ Requeue(c, FALSE, FALSE)
    /\ Forget(c, "off")
    /\ UNCHANGED <<continuations, boot, lease, budget>>

OpenLease(c) ==
    /\ phase[c] = "claimed"
    /\ boot[BootOf[c]] = "up"
    /\ Resume(c, "leasing")
    /\ UNCHANGED <<row, boot, task, claimed, lease, budget>>

JobFree(c) == \A d \in Consumers \ {c} : "job" \in held[d] => task[d] # task[c]

\* Variants: every workspace lock is shared, a repository job takes none.
WorkspaceAlwaysFree(c) == TRUE

RequiredUnscoped(j) ==
    {"job"} \cup (IF Repository[j] # None THEN {"repository"} ELSE {"workspace"})

\* A workspace lock is shared between leases that also name a repository.
WorkspaceFree(c) ==
    \A d \in Consumers \ {c} :
        "workspace" \in held[d] /\ Workspace[task[d]] = Workspace[task[c]]
          => Repository[task[c]] # None /\ Repository[task[d]] # None

RepositoryFree(c) ==
    \A d \in Consumers \ {c} :
        "repository" \in held[d] => Repository[task[d]] # Repository[task[c]]

Required(j) ==
    {"job"} \cup (IF Workspace[j] # None THEN {"workspace"} ELSE {})
            \cup (IF Repository[j] # None THEN {"repository"} ELSE {})

\* The next advisory lock _acquire tries: job, then workspace, then repository.
NextLock(c) ==
    LET wanted == Required(task[c]) \ held[c] IN
    CASE "job" \in wanted -> "job"
      [] "job" \notin wanted /\ "workspace" \in wanted -> "workspace"
      [] OTHER -> "repository"

LockFree(c, level) ==
    CASE level = "job" -> JobFree(c)
      [] level = "workspace" -> WorkspaceFree(c)
      [] OTHER -> RepositoryFree(c)

\* A variant of StillClaimed: the row is not checked.
StillClaimedUnchecked(c) == TRUE

\* The row check that follows the job lock.
StillClaimed(c) == Owned(c, task[c]) /\ attempts[task[c]] = claimed[c]

TakeLock(c) ==
    LET level == NextLock(c) IN
    /\ phase[c] = "leasing"
    /\ Required(task[c]) # held[c]
    /\ LockFree(c, level)
    /\ level = "job" => StillClaimed(c)
    /\ held' = [held EXCEPT ![c] = @ \cup {level}]
    /\ UNCHANGED <<row, boot, phase, task, claimed, beat, missed, lost, budget>>

\* pg_try_advisory_lock returned false: JobScopeBusy closes the session.
ScopeBusy(c) ==
    /\ phase[c] = "leasing"
    /\ Required(task[c]) # held[c]
    /\ ~LockFree(c, NextLock(c))
    /\ Resume(c, "deferring")
    /\ Unlock(c)
    /\ UNCHANGED <<row, boot, task, claimed, budget>>

\* _defer after JobScopeBusy: 5 s later, at no cost in attempts.
DeferBusy(c) ==
    /\ phase[c] = "deferring"
    /\ Requeue(c, FALSE, FALSE)
    /\ Forget(c, "polling")
    /\ UNCHANGED <<continuations, boot, lease, budget>>

\* The row is not this claim's any more: JobOwnershipError, nothing runs.
ClaimLost(c) ==
    /\ phase[c] = "leasing"
    /\ held[c] = {}
    /\ JobFree(c)
    /\ ~StillClaimed(c)
    /\ Forget(c, "polling")
    /\ UNCHANGED <<row, boot, lease, budget>>

\* Any other error after a claim (its answer is lost, the lease cannot be opened,
\* the deferral's write fails) leaves the row RUNNING.
LeaseFault(c) ==
    /\ phase[c] \in {"claimed", "leasing", "deferring"}
    /\ faults < MaxFaults
    /\ faults' = faults + 1
    /\ Forget(c, IF phase[c] = "claimed" /\ boot[BootOf[c]] = "stopping"
                 THEN "off" ELSE "polling")
    /\ Unlock(c)
    /\ UNCHANGED <<row, boot, losses>>

\* A variant of Refresh: the heartbeat leaves locked_at alone.
RefreshNothing(c) == UNCHANGED lockedAge

Refresh(c) ==
    lockedAge' = [j \in Jobs |->
                    IF j = task[c] /\ StillClaimed(c) THEN 0 ELSE lockedAge[j]]

\* All locks are held: the first heartbeat commits and dispatch_job begins.
StartHandler(c) ==
    /\ phase[c] = "leasing"
    /\ held[c] = Required(task[c])
    /\ Refresh(c)
    /\ Resume(c, "executing")
    /\ UNCHANGED <<status, attempts, lockedBy, available, spent, continuations,
                   boot, task, claimed, lease, budget>>

-----------------------------------------------------------------------------
(* The lease's guard thread. *)

Guarded(c) == phase[c] \in {"executing", "returning"}

\* Only a workspace deletion locks its own row; then the beat SKIPs it.
Heartbeat(c) ==
    /\ Guarded(c)
    /\ ~lost[c]
    /\ beat[c] = HeartbeatEvery
    /\ beat' = [beat EXCEPT ![c] = 0]
    /\ \/ /\ Refresh(c)
          /\ missed' = [missed EXCEPT ![c] = 0]
       \/ /\ phase[c] = "executing"
          /\ task[c] \in Deletions
          /\ missed[c] < MaxMissedBeats
          /\ missed' = [missed EXCEPT ![c] = @ + 1]
          /\ UNCHANGED lockedAge
    /\ UNCHANGED <<status, attempts, lockedBy, available, spent, continuations,
                   boot, phase, task, claimed, held, lost, budget>>

\* The session dies on the server: its advisory locks are gone at once.
LoseSession(c) ==
    /\ Guarded(c)
    /\ ~lost[c]
    /\ losses < MaxLosses
    /\ losses' = losses + 1
    /\ lost' = [lost EXCEPT ![c] = TRUE]
    /\ held' = [held EXCEPT ![c] = {}]
    /\ UNCHANGED <<row, boot, phase, task, claimed, beat, missed, faults>>

Kill(b) ==
    LET gone == {c \in Consumers : BootOf[c] = b} IN
    /\ boot' = [boot EXCEPT ![b] = "gone"]
    /\ phase' = [c \in Consumers |-> IF c \in gone THEN "off" ELSE phase[c]]
    /\ task' = [c \in Consumers |-> IF c \in gone THEN None ELSE task[c]]
    /\ claimed' = [c \in Consumers |-> IF c \in gone THEN 0 ELSE claimed[c]]
    /\ held' = [c \in Consumers |-> IF c \in gone THEN {} ELSE held[c]]
    /\ beat' = [c \in Consumers |-> IF c \in gone THEN 0 ELSE beat[c]]
    /\ missed' = [c \in Consumers |-> IF c \in gone THEN 0 ELSE missed[c]]
    /\ lost' = [c \in Consumers |-> IF c \in gone THEN FALSE ELSE lost[c]]

\* The next heartbeat fails and _connection_lost calls os._exit(1).
FailClosed(c) ==
    /\ Guarded(c)
    /\ lost[c]
    /\ beat[c] = HeartbeatEvery
    /\ Kill(BootOf[c])
    /\ UNCHANGED <<row, budget>>

-----------------------------------------------------------------------------
(* The handler and dispatch_job's durable outcome. *)

Finish(c) == Resume(c, "returning")

\* Rows that disappear with their workspace; a deletion's own row references none.
Removable(w) ==
    {j \in Jobs \ Deletions : w # None /\ Workspace[j] = w /\ status[j] # "GONE"}

Succeed(c) ==
    /\ phase[c] = "executing"
    /\ task[c] \in Deletions => Removable(Workspace[task[c]]) = {} /\ Owned(c, task[c])
    /\ MarkSucceeded(c)
    /\ Finish(c)
    /\ UNCHANGED <<continuations, boot, task, claimed, lease, budget>>

Fail(c) ==
    /\ phase[c] = "executing"
    /\ \/ MarkFailed(c, FALSE)
       \/ task[c] \in Poison /\ MarkFailed(c, TRUE)
    /\ Finish(c)
    /\ UNCHANGED <<continuations, boot, task, claimed, lease, budget>>

\* The outcome's own transaction fails: nothing is written, the job stays RUNNING.
OutcomeFault(c) ==
    /\ phase[c] = "executing"
    /\ faults < MaxFaults
    /\ faults' = faults + 1
    /\ Finish(c)
    /\ UNCHANGED <<row, boot, task, claimed, lease, losses>>

\* The handler stores its cursor and requeues its own row.
Continue(c) ==
    LET j == task[c] IN
    /\ phase[c] = "executing"
    /\ j \notin Deletions
    /\ continuations[j] < MaxContinuations
    /\ continuations' = [continuations EXCEPT ![j] = @ + 1]
    /\ \E reset \in BOOLEAN : Requeue(c, TRUE, reset)
    /\ Finish(c)
    /\ UNCHANGED <<boot, task, claimed, lease, budget>>

\* handle_delete_workspace commits: the rows that reference the workspace go with it.
DeleteWorkspace(c) ==
    LET removed == Removable(Workspace[task[c]])
    IN  /\ phase[c] = "executing"
        /\ task[c] \in Deletions
        /\ Owned(c, task[c])
        /\ removed # {}
        /\ status' = [j \in Jobs |-> IF j \in removed THEN "GONE" ELSE status[j]]
        /\ lockedBy' = [j \in Jobs |-> IF j \in removed THEN None ELSE lockedBy[j]]
        /\ lockedAge' = [j \in Jobs |-> IF j \in removed THEN 0 ELSE lockedAge[j]]
        /\ UNCHANGED <<attempts, available, spent, continuations, boot, phase, task,
                       claimed, lease, budget>>

\* JobLease.__exit__: the guard stops and the session closes.
CloseLease(c) ==
    /\ phase[c] = "returning"
    /\ Forget(c, "polling")
    /\ Unlock(c)
    /\ UNCHANGED <<row, boot, budget>>

-----------------------------------------------------------------------------
(* Processes, producers and time. *)

StartBoot(b) ==
    /\ boot[b] = "unborn"
    /\ boot' = [boot EXCEPT ![b] = "up"]
    /\ phase' = [c \in Consumers |-> IF BootOf[c] = b THEN "polling" ELSE phase[c]]
    /\ UNCHANGED <<row, task, claimed, lease, budget>>

RequestStop(b) ==
    /\ boot[b] = "up"
    /\ boot' = [boot EXCEPT ![b] = "stopping"]
    /\ UNCHANGED <<row, phase, task, claimed, lease, budget>>

\* A variant of LeaveLoop: the thread stays while a row is ready.
LeaveLoopWhenIdle(c) ==
    /\ phase[c] = "polling"
    /\ boot[BootOf[c]] = "stopping"
    /\ \A j \in Jobs : ~Ready(j)
    /\ Resume(c, "off")
    /\ UNCHANGED <<row, boot, task, claimed, lease, budget>>

\* while not stop.is_set()
LeaveLoop(c) ==
    /\ phase[c] = "polling"
    /\ boot[BootOf[c]] = "stopping"
    /\ Resume(c, "off")
    /\ UNCHANGED <<row, boot, task, claimed, lease, budget>>

Crash(b) ==
    /\ boot[b] \in {"up", "stopping"}
    /\ \E c \in Consumers : BootOf[c] = b /\ phase[c] # "off"
    /\ Kill(b)
    /\ UNCHANGED <<row, budget>>

\* adept-api, or a handler, inserts a row.
Insert(j) ==
    /\ status[j] = "ABSENT"
    /\ status' = [status EXCEPT ![j] = "PENDING"]
    /\ available' = [available EXCEPT ![j] = TRUE]
    /\ UNCHANGED <<attempts, lockedBy, lockedAge, spent, continuations, boot, phase,
                   task, claimed, lease, budget>>

BackoffElapses(j) ==
    /\ status[j] \in Waiting
    /\ ~available[j]
    /\ available' = [available EXCEPT ![j] = TRUE]
    /\ UNCHANGED <<status, attempts, lockedBy, lockedAge, spent, continuations, boot,
                   phase, task, claimed, lease, budget>>

\* A guard wakes up when its interval is over: time does not pass it by.
Tick ==
    /\ \A c \in Consumers : Guarded(c) => beat[c] < HeartbeatEvery
    /\ lockedAge' = [j \in Jobs |->
                       IF status[j] = "RUNNING" /\ lockedAge[j] < StaleAfter
                       THEN lockedAge[j] + 1 ELSE lockedAge[j]]
    /\ beat' = [c \in Consumers |-> IF Guarded(c) THEN beat[c] + 1 ELSE beat[c]]
    /\ UNCHANGED <<status, attempts, lockedBy, available, spent, continuations, boot,
                   phase, task, claimed, held, missed, lost, budget>>

ConsumerStep(c) ==
    \/ Claim(c) \/ DeferShutdown(c) \/ OpenLease(c) \/ TakeLock(c) \/ ScopeBusy(c)
    \/ DeferBusy(c) \/ ClaimLost(c) \/ StartHandler(c) \/ Succeed(c) \/ Fail(c)
    \/ Continue(c) \/ DeleteWorkspace(c) \/ CloseLease(c) \/ LeaveLoop(c)

GuardStep(c) == Heartbeat(c) \/ FailClosed(c)

FaultStep(c) == LeaseFault(c) \/ OutcomeFault(c) \/ LoseSession(c)

Next ==
    \/ \E c \in Consumers : ConsumerStep(c) \/ GuardStep(c) \/ FaultStep(c)
    \/ \E b \in Boots : StartBoot(b) \/ RequestStop(b) \/ Crash(b)
    \/ \E j \in Jobs : Insert(j) \/ BackoffElapses(j)
    \/ Tick

Spec == Init /\ [][Next]_vars

(***************************************************************************)
(* The scheduler runs every live thread, a guard's wait returns, timers    *)
(* elapse, and a handler returns (its HTTP and database calls time out).   *)
(* Nothing forces a start, a stop, a crash, a fault or an insert.          *)
(***************************************************************************)
Fairness ==
    /\ \A c \in Consumers : WF_vars(ConsumerStep(c)) /\ WF_vars(GuardStep(c))
    /\ \A j \in Jobs : WF_vars(BackoffElapses(j))
    /\ WF_vars(Tick)

FairSpec == Spec /\ Fairness

-----------------------------------------------------------------------------
(* Job-level promises: they survive crashes, faults and lost sessions. *)

Executing(c) == phase[c] = "executing"

\* A handler never runs twice at the same time for one job: job lock, heartbeat
\* and stale timeout together keep a second consumer out (lease.py, claimer.py).
OneExecutor ==
    \A c, d \in Consumers : Executing(c) /\ Executing(d) /\ task[c] = task[d] => c = d

\* Until its outcome is written, the row of a running handler still carries its
\* claim, so mark_succeeded and mark_failed never hit JobOwnershipError after a
\* handler has done its work; only a workspace deletion may have removed the row.
ExecutorOwnsRow ==
    \A c \in Consumers : Executing(c) => StillClaimed(c) \/ status[task[c]] = "GONE"

\* A row that waits for a claim can be claimed: CLAIM_SQL skips rows whose
\* attempts are used up, so no path may put such a row back to PENDING or FAILED.
NoStrandedJob == \A j \in Jobs : status[j] \in Waiting => ~Exhausted(j)

\* attempts is exactly the number of failed or abandoned claims, plus the current
\* one: deferrals (busy scope, shutdown) and continuations restore the budget.
AttemptAccounting ==
    \A j \in Jobs : status[j] # "GONE" =>
        attempts[j] = spent[j] + (IF status[j] \in {"RUNNING", "SUCCEEDED"} THEN 1 ELSE 0)

\* A job is dead-lettered only once its budget is spent, unless its handler said
\* PermanentJobError.
DeadOnlyWhenSpent ==
    \A j \in Jobs \ Poison : status[j] = "DEAD" => spent[j] = MaxAttempts

-----------------------------------------------------------------------------
(* The pool implements the queue's promise.  used is read off the attempts  *)
(* column: while a claim is open it counts one more than was used up.       *)

QueueState(j) ==
    CASE status[j] = "ABSENT" -> "absent"
      [] status[j] \in Waiting -> "waiting"
      [] status[j] = "RUNNING" -> "claimed"
      [] status[j] = "SUCCEEDED" -> "succeeded"
      [] OTHER -> "dead"

Queue == INSTANCE JobQueue WITH
    Workers <- Consumers,
    state <- [j \in Jobs |-> QueueState(j)],
    used <- [j \in Jobs |-> IF status[j] \in {"RUNNING", "SUCCEEDED"}
                            THEN attempts[j] - 1 ELSE attempts[j]],
    running <- [j \in Jobs |-> {c \in Consumers : Executing(c) /\ task[c] = j}]

\* Without workspace deletions, every behaviour of the consumers is one the
\* queue promises: one executor at a time, no outcome lost or written twice,
\* the attempt budget charged for failures and abandonments only.
ImplementsQueue == Queue!QueueSpec

-----------------------------------------------------------------------------
(* Scope-level promises: they rest on the lease sessions staying open. *)

Conflict(j, k) ==
    \/ j = k
    \/ Repository[j] # None /\ Repository[j] = Repository[k]
    \/ /\ Workspace[j] # None /\ Workspace[j] = Workspace[k]
       /\ Repository[j] = None \/ Repository[k] = None

\* "serialize conflicting repository work" (lease.py:1): no two handlers run at once
\* on one repository, and none beside a workspace-wide operation of its workspace.
ScopeExclusion ==
    \A c, d \in Consumers :
        c # d /\ Executing(c) /\ Executing(d) => ~Conflict(task[c], task[d])

\* DELETE_WORKSPACE never removes the row under a running handler.
DeletionSparesHandlers ==
    [][\A c \in Consumers :
         Executing(c) /\ status[task[c]] # "GONE" => status'[task[c]] # "GONE"]_vars

\* A graceful stop (no crash, no fault) leaves no row RUNNING for recovery to find.
GracefulStopHandsBack ==
    faults = 0 =>
        \A c \in Consumers :
            phase[c] = "off" /\ boot[BootOf[c]] = "stopping"
              => \A j \in Jobs : lockedBy[j] # c

\* While some process stays up, no inserted row stays unfinished for ever: busy
\* scopes, crashes of other processes and stale claims only delay it.
Settled == \A j \in Jobs : status[j] \in Finished \cup {"ABSENT"}

EveryJobFinishes ==
    <>[](\E b \in Boots : boot[b] = "up") => []<>Settled

\* A stop request ends every consumer of the process: in-flight handlers drain.
Drained == \A c \in Consumers : boot[BootOf[c]] = "stopping" => phase[c] = "off"

StopDrains == []<>Drained
=============================================================================
