---------------------------- MODULE WorkerPoolProofs ---------------------------
(***************************************************************************)
(* Proofs about WorkerPool: its types and the attempt budget of its rows,  *)
(* a graceful stop that leaves no claim behind, and what the lease         *)
(* guarantees.                                                             *)
(***************************************************************************)
EXTENDS WorkerPool, TLAPS

\* A consumer between two claims works on no row; any other works on one.
HasTask == \A c \in Consumers : task[c] = None <=> phase[c] \in {"off", "polling"}

\* The threads of a process that has not started are not running.
Unstarted == \A c \in Consumers : boot[BootOf[c]] = "unborn" => phase[c] = "off"

\* What a row's status says about its attempts.
Sound(j, s, a, p) ==
    /\ s # "GONE" => a = p + (IF s \in {"RUNNING", "SUCCEEDED"} THEN 1 ELSE 0)
    /\ s \in Waiting => a < MaxAttempts
    /\ s = "ABSENT" => a = 0
    /\ s = "DEAD" /\ j \notin Poison => p = MaxAttempts

SoundRows == \A j \in Jobs : Sound(j, status[j], attempts[j], spent[j])

BudgetInv == TypeOK /\ HasTask /\ Unstarted /\ SoundRows

-----------------------------------------------------------------------------
(* A write of a consumer to its own row keeps the rows well typed and sound *)
(* if what it writes is sound.                                             *)

RowsOK ==
    /\ status \in [Jobs -> Statuses]
    /\ attempts \in [Jobs -> 0 .. MaxAttempts]
    /\ lockedBy \in [Jobs -> Consumers \cup {None}]
    /\ lockedAge \in [Jobs -> 0 .. StaleAfter]
    /\ available \in [Jobs -> BOOLEAN]
    /\ spent \in [Jobs -> 0 .. MaxAttempts]
    /\ SoundRows

\* The guarded updates of retry.py keep RowsOK when the new values are sound.
LEMMA WriteOwnedSound ==
    ASSUME BudgetInv, NEW c \in Consumers, task[c] \in Jobs,
           NEW s \in Statuses, NEW a, NEW av \in BOOLEAN, NEW p,
           Owned(c, task[c]) =>
             /\ a \in 0 .. MaxAttempts
             /\ p \in 0 .. MaxAttempts
             /\ Sound(task[c], s, a, p),
           WriteOwned(c, s, a, av, p)
    PROVE  RowsOK'
<1> USE PoolAssumption DEF PoolAssumption
<1>1. CASE ~Owned(c, task[c])
  BY <1>1 DEF WriteOwned, LeaveRow, BudgetInv, TypeOK, RowsOK, SoundRows, Sound
<1>2. CASE Owned(c, task[c])
  <2>1. Relinquish(c, task[c], s, a, av, p)
    BY <1>2 DEF WriteOwned
  <2>2. /\ a \in 0 .. MaxAttempts
        /\ p \in 0 .. MaxAttempts
        /\ Sound(task[c], s, a, p)
    BY <1>2
  <2>3. /\ status' \in [Jobs -> Statuses]
        /\ attempts' \in [Jobs -> 0 .. MaxAttempts]
        /\ lockedBy' \in [Jobs -> Consumers \cup {None}]
        /\ lockedAge' \in [Jobs -> 0 .. StaleAfter]
        /\ available' \in [Jobs -> BOOLEAN]
        /\ spent' \in [Jobs -> 0 .. MaxAttempts]
    BY <2>1, <2>2 DEF Relinquish, BudgetInv, TypeOK
  <2>4. ASSUME NEW j \in Jobs PROVE Sound(j, status'[j], attempts'[j], spent'[j])
    <3>1. CASE j = task[c]
      BY <2>1, <2>2, <3>1 DEF Relinquish, BudgetInv, TypeOK
    <3>2. CASE j # task[c]
      BY <2>1, <3>2 DEF Relinquish, BudgetInv, TypeOK, SoundRows
    <3> QED BY <3>1, <3>2
  <2> QED BY <2>3, <2>4 DEF RowsOK, SoundRows
<1> QED BY <1>1, <1>2

\* requeue_with_payload gives the attempt back, or the whole budget.
LEMMA RequeueSound ==
    ASSUME BudgetInv, NEW c \in Consumers, task[c] \in Jobs,
           NEW av \in BOOLEAN, NEW reset \in BOOLEAN, Requeue(c, av, reset)
    PROVE  RowsOK'
<1> DEFINE j == task[c]
           a == IF reset \/ attempts[j] = 0 THEN 0 ELSE attempts[j] - 1
           p == IF reset THEN 0 ELSE spent[j]
<1>1. WriteOwned(c, "PENDING", a, av, p)
  BY DEF Requeue
<1>2. Owned(c, j) => /\ a \in 0 .. MaxAttempts
                     /\ p \in 0 .. MaxAttempts
                     /\ Sound(j, "PENDING", a, p)
  <2>1. attempts[j] \in 0 .. MaxAttempts /\ spent[j] \in 0 .. MaxAttempts
    BY DEF BudgetInv, TypeOK
  <2>2. Sound(j, status[j], attempts[j], spent[j])
    BY DEF BudgetInv, SoundRows
  <2> QED BY <2>1, <2>2, PoolAssumption DEF Owned, Sound, Waiting, PoolAssumption
<1>3. "PENDING" \in Statuses
  BY DEF Statuses, Waiting
<1> HIDE DEF a, p
<1> QED BY <1>1, <1>2, <1>3, WriteOwnedSound

\* mark_failed retries within the budget and dead-letters at its end.
LEMMA MarkFailedSound ==
    ASSUME BudgetInv, NEW c \in Consumers, task[c] \in Jobs,
           NEW permanent \in BOOLEAN, permanent => task[c] \in Poison,
           MarkFailed(c, permanent)
    PROVE  RowsOK'
<1> DEFINE j == task[c]
           s == IF permanent \/ Exhausted(j) THEN "DEAD" ELSE "FAILED"
<1>1. WriteOwned(c, s, attempts[j], FALSE, spent[j] + 1)
  BY DEF MarkFailed
<1>2. Owned(c, j) => /\ attempts[j] \in 0 .. MaxAttempts
                     /\ spent[j] + 1 \in 0 .. MaxAttempts
                     /\ Sound(j, s, attempts[j], spent[j] + 1)
  BY PoolAssumption
  DEF Owned, BudgetInv, TypeOK, SoundRows, Sound, Waiting, Exhausted, PoolAssumption
<1>3. s \in Statuses
  BY DEF Statuses, Waiting, Finished
<1> HIDE DEF s
<1> QED BY <1>1, <1>2, <1>3, WriteOwnedSound

\* mark_succeeded keeps the attempt that succeeded.
LEMMA MarkSucceededSound ==
    ASSUME BudgetInv, NEW c \in Consumers, task[c] \in Jobs, MarkSucceeded(c)
    PROVE  RowsOK'
<1> DEFINE j == task[c]
<1>1. WriteOwned(c, "SUCCEEDED", attempts[j], FALSE, spent[j])
  BY DEF MarkSucceeded
<1>2. Owned(c, j) => /\ attempts[j] \in 0 .. MaxAttempts
                     /\ spent[j] \in 0 .. MaxAttempts
                     /\ Sound(j, "SUCCEEDED", attempts[j], spent[j])
  BY PoolAssumption
  DEF Owned, BudgetInv, TypeOK, SoundRows, Sound, Waiting, PoolAssumption
<1>3. "SUCCEEDED" \in Statuses
  BY DEF Statuses, Finished
<1> QED BY <1>1, <1>2, <1>3, WriteOwnedSound

-----------------------------------------------------------------------------
(* The other variables: processes, consumers and lease sessions. *)

RestOK ==
    /\ continuations \in [Jobs -> 0 .. MaxContinuations]
    /\ boot \in [Boots -> {"unborn", "up", "stopping", "gone"}]
    /\ phase \in [Consumers -> Phases]
    /\ task \in [Consumers -> Jobs \cup {None}]
    /\ claimed \in [Consumers -> 0 .. MaxAttempts]
    /\ held \in [Consumers -> SUBSET LockLevels]
    /\ beat \in [Consumers -> 0 .. HeartbeatEvery]
    /\ missed \in [Consumers -> 0 .. MaxMissedBeats]
    /\ lost \in [Consumers -> BOOLEAN]
    /\ faults \in 0 .. MaxFaults
    /\ losses \in 0 .. MaxLosses
    /\ HasTask
    /\ Unstarted

\* The invariant is about the rows and about the rest.
LEMMA BudgetSplit == BudgetInv <=> RowsOK /\ RestOK
BY DEF BudgetInv, TypeOK, RowsOK, RestOK

\* The same after a step.
LEMMA BudgetSplitNext == BudgetInv' <=> RowsOK' /\ RestOK'
BY DEF BudgetInv, TypeOK, RowsOK, RestOK

\* A step that leaves the rows' columns alone keeps them sound.
LEMMA RowsUntouched ==
    ASSUME RowsOK, UNCHANGED <<status, attempts, lockedBy, lockedAge, available, spent>>
    PROVE  RowsOK'
BY DEF RowsOK, SoundRows, Sound

\* So does one that moves locked_at or available_at only.
LEMMA AgesOnly ==
    ASSUME RowsOK, UNCHANGED <<status, attempts, lockedBy, spent>>,
           lockedAge' \in [Jobs -> 0 .. StaleAfter], available' \in [Jobs -> BOOLEAN]
    PROVE  RowsOK'
BY DEF RowsOK, SoundRows, Sound

\* The claim transaction: recovered rows are charged, the claimed one is in budget.
LEMMA ClaimSound ==
    ASSUME BudgetInv, NEW c \in Consumers, Claim(c)
    PROVE  RowsOK' /\ RestOK'
<1> USE PoolAssumption DEF PoolAssumption
<1> DEFINE recovered == {j \in Jobs : Stale(j)}
           dead == {j \in recovered : Exhausted(j)}
           taken == First({j \in Jobs : Ready(j)})
<1>1. \A j \in taken : j \in Jobs /\ Ready(j)
  BY DEF First
<1>2. \A j \in Jobs : j \in taken => ~Exhausted(j)
  BY <1>1 DEF Ready
<1>3. /\ status' = [j \in Jobs |->
                      IF j \in taken THEN "RUNNING"
                      ELSE IF j \in dead THEN "DEAD"
                      ELSE IF j \in recovered THEN "FAILED" ELSE status[j]]
      /\ attempts' = [j \in Jobs |-> IF j \in taken THEN attempts[j] + 1 ELSE attempts[j]]
      /\ lockedBy' = [j \in Jobs |->
                        IF j \in taken THEN c
                        ELSE IF j \in recovered THEN None ELSE lockedBy[j]]
      /\ lockedAge' = [j \in Jobs |->
                         IF j \in taken \cup recovered THEN 0 ELSE lockedAge[j]]
      /\ available' = [j \in Jobs |-> available[j] \/ j \in recovered \ dead]
      /\ spent' = [j \in Jobs |-> IF j \in recovered THEN spent[j] + 1 ELSE spent[j]]
  BY DEF Claim
<1>11. \/ UNCHANGED <<phase, task, claimed>>
       \/ \E j \in taken :
             /\ phase' = [phase EXCEPT ![c] = "claimed"]
             /\ task' = [task EXCEPT ![c] = j]
             /\ claimed' = [claimed EXCEPT ![c] = attempts[j] + 1]
  BY DEF Claim
<1>4. \A j \in Jobs : Sound(j, status[j], attempts[j], spent[j])
  BY DEF BudgetInv, SoundRows
<1>5. \A j \in taken : status[j] \in Waiting \/ (j \in recovered \ dead)
  BY <1>1 DEF Ready
<1>6. \A j \in recovered : status[j] = "RUNNING"
  BY DEF Stale
<1>7. \A j \in Jobs : j \in dead <=> j \in recovered /\ Exhausted(j)
  OBVIOUS
<1> HIDE DEF recovered, dead, taken
<1>8. ASSUME NEW j \in Jobs
      PROVE  /\ Sound(j, status'[j], attempts'[j], spent'[j])
             /\ status'[j] \in Statuses
             /\ attempts'[j] \in 0 .. MaxAttempts
             /\ spent'[j] \in 0 .. MaxAttempts
  <2> attempts[j] \in 0 .. MaxAttempts /\ spent[j] \in 0 .. MaxAttempts /\ status[j] \in Statuses
    BY DEF BudgetInv, TypeOK
  <2>1. CASE j \in taken /\ j \in recovered
    BY <1>2, <1>3, <1>4, <1>5, <1>6, <1>7, <2>1
    DEF Sound, Exhausted, Waiting, Statuses, Finished
  <2>2. CASE j \in taken /\ j \notin recovered
    BY <1>2, <1>3, <1>4, <1>5, <1>6, <1>7, <2>2
    DEF Sound, Exhausted, Waiting, Statuses, Finished
  <2>3. CASE j \notin taken /\ j \in recovered
    BY <1>2, <1>3, <1>4, <1>5, <1>6, <1>7, <2>3
    DEF Sound, Exhausted, Waiting, Statuses, Finished
  <2>4. CASE j \notin taken /\ j \notin recovered
    BY <1>3, <1>4, <1>7, <2>4
  <2> QED BY <2>1, <2>2, <2>3, <2>4
<1>9. RowsOK'
  <2>1. /\ lockedBy' \in [Jobs -> Consumers \cup {None}]
        /\ lockedAge' \in [Jobs -> 0 .. StaleAfter]
        /\ available' \in [Jobs -> BOOLEAN]
    BY <1>3 DEF BudgetInv, TypeOK
  <2>2. /\ status' \in [Jobs -> Statuses]
        /\ attempts' \in [Jobs -> 0 .. MaxAttempts]
        /\ spent' \in [Jobs -> 0 .. MaxAttempts]
    BY <1>3, <1>8
  <2> QED BY <1>8, <2>1, <2>2 DEF RowsOK, SoundRows
<1>10. RestOK'
  <2>1. CASE UNCHANGED <<phase, task, claimed>>
    BY <2>1 DEF Claim, BudgetInv, TypeOK, RestOK, HasTask, Unstarted, lease, budget
  <2>2. ASSUME NEW j \in taken,
               phase' = [phase EXCEPT ![c] = "claimed"],
               task' = [task EXCEPT ![c] = j],
               claimed' = [claimed EXCEPT ![c] = attempts[j] + 1]
        PROVE  RestOK'
    <3>1. j \in Jobs /\ attempts[j] + 1 \in 0 .. MaxAttempts
      BY <1>1, <1>2 DEF BudgetInv, TypeOK, Exhausted
    <3>2. boot[BootOf[c]] = "up" /\ UNCHANGED <<continuations, boot, lease, budget>>
      BY DEF Claim
    <3> QED BY <2>2, <3>1, <3>2 DEF BudgetInv, TypeOK, RestOK, HasTask, Unstarted, Phases, lease, budget
  <2> QED BY <1>11, <2>1, <2>2
<1> QED BY <1>9, <1>10

\* A process that dies takes its consumers with it; the rows stay as they are.
LEMMA KillSound ==
    ASSUME BudgetInv, NEW b \in Boots, Kill(b), UNCHANGED <<row, budget>>
    PROVE  RowsOK' /\ RestOK'
<1>1. RowsOK'
  BY RowsUntouched, BudgetSplit DEF row
<1>2. RestOK'
  <2>1. RestOK
    BY BudgetSplit
  <2>2. /\ boot' \in [Boots -> {"unborn", "up", "stopping", "gone"}]
        /\ phase' \in [Consumers -> Phases]
        /\ task' \in [Consumers -> Jobs \cup {None}]
        /\ held' \in [Consumers -> SUBSET LockLevels]
        /\ lost' \in [Consumers -> BOOLEAN]
    BY <2>1 DEF Kill, RestOK, Phases
  <2>3. /\ claimed' \in [Consumers -> 0 .. MaxAttempts]
        /\ beat' \in [Consumers -> 0 .. HeartbeatEvery]
        /\ missed' \in [Consumers -> 0 .. MaxMissedBeats]
    BY <2>1, PoolAssumption DEF Kill, RestOK, PoolAssumption
  <2>4. HasTask' /\ Unstarted'
    BY <2>1, PoolAssumption DEF Kill, RestOK, HasTask, Unstarted, PoolAssumption
  <2> QED BY <2>1, <2>2, <2>3, <2>4 DEF RestOK, row, budget
<1> QED BY <1>1, <1>2

-----------------------------------------------------------------------------
\* Nothing has been inserted or started: every row and thread is sound.
LEMMA BudgetInit == Init => BudgetInv
BY PoolAssumption
DEF Init, BudgetInv, TypeOK, HasTask, Unstarted, SoundRows, Sound, Statuses, Phases, Waiting,
    PoolAssumption

\* Every step keeps the invariant: one case per action.
LEMMA BudgetStep == BudgetInv /\ [Next]_vars => BudgetInv'
<1> SUFFICES ASSUME BudgetInv, [Next]_vars
             PROVE  RowsOK' /\ RestOK'
  BY BudgetSplitNext
<1> USE PoolAssumption DEF PoolAssumption
<1>0. RowsOK /\ RestOK
  BY BudgetSplit
<1>a. ASSUME NEW c \in Consumers, phase[c] \notin {"off", "polling"}
      PROVE  task[c] \in Jobs
  BY <1>0, <1>a DEF RestOK, HasTask
<1>1. ASSUME NEW c \in Consumers, ConsumerStep(c)
      PROVE  RowsOK' /\ RestOK'
  <2> DEFINE j == task[c]
  <2>1. CASE Claim(c)
    BY <2>1, ClaimSound
  <2>2. CASE DeferShutdown(c)
    <3>1. RowsOK'
      BY <1>a, <2>2, RequeueSound DEF DeferShutdown
    <3>2. RestOK'
      BY <1>0, <2>2 DEF DeferShutdown, Forget, Resume, RestOK, HasTask, Unstarted, Phases, lease, budget
    <3> QED BY <3>1, <3>2
  <2>3. CASE OpenLease(c)
    <3>1. RowsOK'
      BY <1>0, <2>3, RowsUntouched DEF OpenLease, row
    <3>2. RestOK'
      BY <1>0, <2>3 DEF OpenLease, Resume, RestOK, HasTask, Unstarted, Phases, row, lease, budget
    <3> QED BY <3>1, <3>2
  <2>4. CASE TakeLock(c)
    <3>1. RowsOK'
      BY <1>0, <2>4, RowsUntouched DEF TakeLock, row
    <3>2. NextLock(c) \in LockLevels
      BY DEF NextLock, LockLevels
    <3>3. RestOK'
      BY <1>0, <2>4, <3>2 DEF TakeLock, RestOK, HasTask, Unstarted, row, budget
    <3> QED BY <3>1, <3>3
  <2>5. CASE ScopeBusy(c)
    <3>1. RowsOK'
      BY <1>0, <2>5, RowsUntouched DEF ScopeBusy, row
    <3>2. RestOK'
      BY <1>0, <2>5 DEF ScopeBusy, Resume, Unlock, RestOK, HasTask, Unstarted, Phases, row, budget
    <3> QED BY <3>1, <3>2
  <2>6. CASE DeferBusy(c)
    <3>1. RowsOK'
      BY <1>a, <2>6, RequeueSound DEF DeferBusy
    <3>2. RestOK'
      BY <1>0, <2>6 DEF DeferBusy, Forget, Resume, RestOK, HasTask, Unstarted, Phases, lease, budget
    <3> QED BY <3>1, <3>2
  <2>7. CASE ClaimLost(c)
    <3>1. RowsOK'
      BY <1>0, <2>7, RowsUntouched DEF ClaimLost, row
    <3>2. RestOK'
      BY <1>0, <2>7 DEF ClaimLost, Forget, Resume, RestOK, HasTask, Unstarted, Phases, row, lease, budget
    <3> QED BY <3>1, <3>2
  <2>8. CASE StartHandler(c)
    <3>1. lockedAge' \in [Jobs -> 0 .. StaleAfter]
      BY <1>0, <2>8 DEF StartHandler, Refresh, RowsOK
    <3>2. RowsOK'
      BY <1>0, <2>8, <3>1, AgesOnly DEF StartHandler, RowsOK
    <3>3. RestOK'
      BY <1>0, <2>8 DEF StartHandler, Resume, RestOK, HasTask, Unstarted, Phases, lease, budget
    <3> QED BY <3>2, <3>3
  <2>9. CASE Succeed(c)
    <3>1. RowsOK'
      BY <1>a, <2>9, MarkSucceededSound DEF Succeed
    <3>2. RestOK'
      BY <1>0, <2>9 DEF Succeed, Finish, Resume, RestOK, HasTask, Unstarted, Phases, lease, budget
    <3> QED BY <3>1, <3>2
  <2>10. CASE Fail(c)
    <3>1. j \in Jobs
      BY <1>a, <2>10 DEF Fail
    <3>2. \/ MarkFailed(c, FALSE)
          \/ j \in Poison /\ MarkFailed(c, TRUE)
      BY <2>10 DEF Fail
    <3>3. RowsOK'
      BY <3>1, <3>2, MarkFailedSound
    <3>4. RestOK'
      BY <1>0, <2>10 DEF Fail, Finish, Resume, RestOK, HasTask, Unstarted, Phases, lease, budget
    <3> QED BY <3>3, <3>4
  <2>11. CASE Continue(c)
    <3>1. RowsOK'
      BY <1>a, <2>11, RequeueSound DEF Continue
    <3>2. RestOK'
      BY <1>0, <1>a, <2>11 DEF Continue, Finish, Resume, RestOK, HasTask, Unstarted, Phases, lease, budget
    <3> QED BY <3>1, <3>2
  <2>12. CASE DeleteWorkspace(c)
    <3> DEFINE removed == Removable(Workspace[j])
    <3>1. /\ status' = [k \in Jobs |-> IF k \in removed THEN "GONE" ELSE status[k]]
          /\ lockedBy' = [k \in Jobs |-> IF k \in removed THEN None ELSE lockedBy[k]]
          /\ lockedAge' = [k \in Jobs |-> IF k \in removed THEN 0 ELSE lockedAge[k]]
          /\ UNCHANGED <<attempts, available, spent>>
      BY <2>12 DEF DeleteWorkspace
    <3> HIDE DEF removed
    <3>2. RowsOK'
      BY <1>0, <3>1 DEF RowsOK, SoundRows, Sound, Statuses, Finished, Waiting
    <3>3. RestOK'
      BY <1>0, <2>12 DEF DeleteWorkspace, RestOK, HasTask, Unstarted, lease, budget
    <3> QED BY <3>2, <3>3
  <2>13. CASE CloseLease(c)
    <3>1. RowsOK'
      BY <1>0, <2>13, RowsUntouched DEF CloseLease, row
    <3>2. RestOK'
      BY <1>0, <2>13 DEF CloseLease, Forget, Resume, Unlock, RestOK, HasTask, Unstarted, Phases, row, budget
    <3> QED BY <3>1, <3>2
  <2>14. CASE LeaveLoop(c)
    <3>1. RowsOK'
      BY <1>0, <2>14, RowsUntouched DEF LeaveLoop, row
    <3>2. RestOK'
      BY <1>0, <2>14 DEF LeaveLoop, Resume, RestOK, HasTask, Unstarted, Phases, row, lease, budget
    <3> QED BY <3>1, <3>2
  <2> QED
    BY <1>1, <2>1, <2>2, <2>3, <2>4, <2>5, <2>6, <2>7, <2>8, <2>9, <2>10, <2>11, <2>12,
       <2>13, <2>14 DEF ConsumerStep
<1>2. ASSUME NEW c \in Consumers, Heartbeat(c)
      PROVE  RowsOK' /\ RestOK'
  <2>1. lockedAge' \in [Jobs -> 0 .. StaleAfter]
    BY <1>0, <1>2 DEF Heartbeat, Refresh, RowsOK
  <2>2. RowsOK'
    BY <1>0, <1>2, <2>1, AgesOnly DEF Heartbeat, RowsOK
  <2>3. RestOK'
    BY <1>0, <1>2 DEF Heartbeat, RestOK, HasTask, Unstarted, budget
  <2> QED BY <2>2, <2>3
<1>3. ASSUME NEW c \in Consumers, FailClosed(c)
      PROVE  RowsOK' /\ RestOK'
  BY <1>3, KillSound DEF FailClosed
<1>4. ASSUME NEW c \in Consumers, FaultStep(c)
      PROVE  RowsOK' /\ RestOK'
  <2>1. RowsOK'
    BY <1>0, <1>4, RowsUntouched DEF FaultStep, LeaseFault, OutcomeFault, LoseSession, row
  <2>2. CASE LeaseFault(c)
    BY <1>0, <2>1, <2>2 DEF LeaseFault, Forget, Resume, Unlock, RestOK, HasTask, Unstarted, Phases, row
  <2>3. CASE OutcomeFault(c)
    BY <1>0, <2>1, <2>3 DEF OutcomeFault, Finish, Resume, RestOK, HasTask, Unstarted, Phases, row, lease
  <2>4. CASE LoseSession(c)
    BY <1>0, <2>1, <2>4 DEF LoseSession, RestOK, HasTask, Unstarted, row
  <2> QED BY <1>4, <2>2, <2>3, <2>4 DEF FaultStep
<1>5. ASSUME NEW b \in Boots, StartBoot(b) \/ RequestStop(b) \/ Crash(b)
      PROVE  RowsOK' /\ RestOK'
  <2>1. CASE StartBoot(b)
    <3>1. RowsOK'
      BY <1>0, <2>1, RowsUntouched DEF StartBoot, row
    <3>2. RestOK'
      BY <1>0, <2>1 DEF StartBoot, RestOK, HasTask, Unstarted, Phases, row, lease, budget
    <3> QED BY <3>1, <3>2
  <2>2. CASE RequestStop(b)
    <3>1. RowsOK'
      BY <1>0, <2>2, RowsUntouched DEF RequestStop, row
    <3>2. RestOK'
      BY <1>0, <2>2 DEF RequestStop, RestOK, HasTask, Unstarted, row, lease, budget
    <3> QED BY <3>1, <3>2
  <2>3. CASE Crash(b)
    BY <2>3, KillSound DEF Crash
  <2> QED BY <1>5, <2>1, <2>2, <2>3
<1>6. ASSUME NEW j \in Jobs, Insert(j) \/ BackoffElapses(j)
      PROVE  RowsOK' /\ RestOK'
  <2>1. CASE Insert(j)
    <3>1. RowsOK'
      BY <1>0, <2>1 DEF Insert, RowsOK, SoundRows, Sound, Statuses, Waiting, Finished
    <3>2. RestOK'
      BY <1>0, <2>1 DEF Insert, RestOK, HasTask, Unstarted, lease, budget
    <3> QED BY <3>1, <3>2
  <2>2. CASE BackoffElapses(j)
    <3>1. available' \in [Jobs -> BOOLEAN]
      BY <1>0, <2>2 DEF BackoffElapses, RowsOK
    <3>2. RowsOK'
      BY <1>0, <2>2, <3>1, AgesOnly DEF BackoffElapses, RowsOK
    <3>3. RestOK'
      BY <1>0, <2>2 DEF BackoffElapses, RestOK, HasTask, Unstarted, lease, budget
    <3> QED BY <3>2, <3>3
  <2> QED BY <1>6, <2>1, <2>2
<1>7. CASE Tick
  <2>1. lockedAge' \in [Jobs -> 0 .. StaleAfter]
    BY <1>0, <1>7 DEF Tick, RowsOK
  <2>2. RowsOK'
    BY <1>0, <1>7, <2>1, AgesOnly DEF Tick, RowsOK
  <2>3. RestOK'
    BY <1>0, <1>7 DEF Tick, RestOK, HasTask, Unstarted, budget
  <2> QED BY <2>2, <2>3
<1>8. CASE UNCHANGED vars
  <2>1. RowsOK'
    BY <1>0, <1>8, RowsUntouched DEF vars, row
  <2>2. RestOK'
    BY <1>0, <1>8 DEF vars, RestOK, HasTask, Unstarted, row, lease, budget
  <2> QED BY <2>1, <2>2
<1> QED
  BY <1>1, <1>2, <1>3, <1>4, <1>5, <1>6, <1>7, <1>8 DEF Next, GuardStep

\* BudgetInv holds in every reachable state.
THEOREM BudgetInvariance == Spec => []BudgetInv
BY BudgetInit, BudgetStep, PTL DEF Spec

-----------------------------------------------------------------------------
\* Every variable keeps its type: in particular no claim, retry, deferral or
\* recovery takes attempts beyond max_attempts or below zero.
THEOREM TypeCorrect == Spec => []TypeOK
<1>1. BudgetInv => TypeOK
  BY DEF BudgetInv
<1> QED BY <1>1, BudgetInvariance, PTL

\* attempts counts the failed and abandoned claims and the current one: deferrals
\* and continuations (requeue_with_payload) are free, for any number of processes.
THEOREM AttemptsAccountedFor == Spec => []AttemptAccounting
<1>1. BudgetInv => AttemptAccounting
  BY DEF BudgetInv, SoundRows, Sound, AttemptAccounting
<1> QED BY <1>1, BudgetInvariance, PTL

\* No waiting row has used up its attempts, so CLAIM_SQL can take every waiting row.
THEOREM NoJobStranded == Spec => []NoStrandedJob
<1>1. BudgetInv => NoStrandedJob
  BY PoolAssumption
  DEF BudgetInv, TypeOK, SoundRows, Sound, NoStrandedJob, Exhausted, PoolAssumption
<1> QED BY <1>1, BudgetInvariance, PTL

\* Only a spent budget, or a handler's PermanentJobError, dead-letters a row.
THEOREM DeadWhenSpent == Spec => []DeadOnlyWhenSpent
<1>1. BudgetInv => DeadOnlyWhenSpent
  BY DEF BudgetInv, SoundRows, Sound, DeadOnlyWhenSpent
<1> QED BY <1>1, BudgetInvariance, PTL

-----------------------------------------------------------------------------
(* A graceful stop leaves no claim behind.  As long as no write fails, a   *)
(* row that carries a consumer's name is the one this consumer is at work  *)
(* on, claimed with the attempts it knows, unless its process is gone.     *)

\* Where a consumer still owes its row an outcome or a deferral.
Owing == {"claimed", "leasing", "deferring", "executing"}

AtWork(c, j) ==
    /\ task[c] = j /\ phase[c] \in Owing
    /\ status[j] = "RUNNING" /\ attempts[j] = claimed[c]

Accounted(c, j) == lockedBy[j] = c => boot[BootOf[c]] = "gone" \/ AtWork(c, j)

HandbackInv == faults = 0 => \A c \in Consumers, j \in Jobs : Accounted(c, j)

-----------------------------------------------------------------------------
\* A consumer with nothing to do owns no row, unless its process is gone.
LEMMA IdleOwnsNothing ==
    ASSUME HandbackInv, faults = 0, NEW c \in Consumers, phase[c] \notin Owing,
           boot[BootOf[c]] # "gone", NEW j \in Jobs
    PROVE  lockedBy[j] # c
BY DEF HandbackInv, Accounted, AtWork

\* A consumer other than the one that writes keeps what it has, row and all.
LEMMA OthersAccounted ==
    ASSUME BudgetInv, HandbackInv, faults = 0,
           NEW c \in Consumers, NEW d \in Consumers, c # d, NEW j \in Jobs,
           task[c] \in Jobs, NEW s, NEW a, NEW av, NEW p, WriteOwned(c, s, a, av, p),
           task'[d] = task[d], phase'[d] = phase[d], claimed'[d] = claimed[d],
           boot' = boot
    PROVE  Accounted(d, j)'
<1>1. Accounted(d, j) /\ d # None
  BY PoolAssumption DEF HandbackInv, PoolAssumption
<1>2. CASE ~Owned(c, task[c])
  BY <1>1, <1>2 DEF WriteOwned, LeaveRow, Accounted, AtWork
<1>3. CASE Owned(c, task[c])
  <2>1. Relinquish(c, task[c], s, a, av, p)
    BY <1>3 DEF WriteOwned
  <2>2. CASE j = task[c]
    BY <1>1, <2>1, <2>2 DEF Relinquish, Accounted, BudgetInv, TypeOK
  <2>3. CASE j # task[c]
    BY <1>1, <2>1, <2>3 DEF Relinquish, Accounted, AtWork, BudgetInv, TypeOK
  <2> QED BY <2>2, <2>3
<1> QED BY <1>2, <1>3

\* After it has written, or found the row gone, the writer owns nothing.
LEMMA WriterOwnsNothing ==
    ASSUME BudgetInv, HandbackInv, faults = 0,
           NEW c \in Consumers, boot[BootOf[c]] # "gone", NEW j \in Jobs,
           task[c] \in Jobs, NEW s, NEW a, NEW av, NEW p, WriteOwned(c, s, a, av, p)
    PROVE  lockedBy'[j] # c
<1>1. c # None /\ (lockedBy[j] = c => task[c] = j /\ status[j] = "RUNNING")
  BY PoolAssumption DEF HandbackInv, Accounted, AtWork, PoolAssumption
<1>2. CASE ~Owned(c, task[c])
  BY <1>1, <1>2 DEF WriteOwned, LeaveRow, Owned
<1>3. CASE Owned(c, task[c])
  BY <1>1, <1>3 DEF WriteOwned, Relinquish, BudgetInv, TypeOK
<1> QED BY <1>2, <1>3

\* Deferral, continuation and outcome all go through the guarded updates of retry.py.
LEMMA OutcomeAccounted ==
    ASSUME BudgetInv, HandbackInv, faults = 0,
           NEW c \in Consumers, task[c] \in Jobs,
           NEW s, NEW a, NEW av, NEW p, WriteOwned(c, s, a, av, p), boot' = boot,
           \A d \in Consumers \ {c} :
              task'[d] = task[d] /\ phase'[d] = phase[d] /\ claimed'[d] = claimed[d]
    PROVE  HandbackInv'
<1> SUFFICES ASSUME NEW d \in Consumers, NEW j \in Jobs PROVE Accounted(d, j)'
  BY DEF HandbackInv
<1>1. CASE d = c
  <2>1. CASE boot[BootOf[c]] = "gone"
    BY <1>1, <2>1 DEF Accounted
  <2>2. CASE boot[BootOf[c]] # "gone"
    BY <1>1, <2>2, WriterOwnsNothing DEF Accounted
  <2> QED BY <2>1, <2>2
<1>2. CASE d # c
  BY <1>2, OthersAccounted
<1> QED BY <1>1, <1>2

\* The claim names its new owner with the attempts it wrote; who lost a stale row
\* is not named by it any more.
LEMMA ClaimAccounted ==
    ASSUME BudgetInv, HandbackInv, faults = 0, NEW c \in Consumers, Claim(c)
    PROVE  HandbackInv'
<1> DEFINE recovered == {j \in Jobs : Stale(j)}
           dead == {j \in recovered : Exhausted(j)}
           taken == First({j \in Jobs : Ready(j)})
<1>1. \A j, k \in taken : j \in Jobs /\ j = k
  <2> SUFFICES ASSUME NEW j \in taken, NEW k \in taken PROVE j \in Jobs /\ j = k
    OBVIOUS
  <2>1. j \in Jobs /\ k \in Jobs /\ Rank[j] <= Rank[k] /\ Rank[k] <= Rank[j]
    BY DEF First
  <2>2. Rank[j] = Rank[k]
    BY <2>1, PoolAssumption DEF PoolAssumption
  <2> QED BY <2>1, <2>2, PoolAssumption DEF PoolAssumption
<1>2. /\ phase[c] = "polling" /\ boot[BootOf[c]] = "up" /\ boot' = boot
      /\ status' = [j \in Jobs |->
                      IF j \in taken THEN "RUNNING"
                      ELSE IF j \in dead THEN "DEAD"
                      ELSE IF j \in recovered THEN "FAILED" ELSE status[j]]
      /\ attempts' = [j \in Jobs |-> IF j \in taken THEN attempts[j] + 1 ELSE attempts[j]]
      /\ lockedBy' = [j \in Jobs |->
                        IF j \in taken THEN c
                        ELSE IF j \in recovered THEN None ELSE lockedBy[j]]
      /\ \/ taken = {} /\ UNCHANGED <<phase, task, claimed>>
         \/ \E j \in taken :
               /\ phase' = [phase EXCEPT ![c] = "claimed"]
               /\ task' = [task EXCEPT ![c] = j]
               /\ claimed' = [claimed EXCEPT ![c] = attempts[j] + 1]
  BY DEF Claim
<1>3. dead \subseteq recovered
  OBVIOUS
<1> HIDE DEF recovered, dead, taken
<1>4. ASSUME NEW d \in Consumers, NEW j \in Jobs PROVE Accounted(d, j)'
  <2>1. d # None /\ Accounted(d, j)
    BY PoolAssumption DEF HandbackInv, PoolAssumption
  <2>2. CASE j \in taken
    <3>1. /\ phase' = [phase EXCEPT ![c] = "claimed"] /\ task' = [task EXCEPT ![c] = j]
          /\ claimed' = [claimed EXCEPT ![c] = attempts[j] + 1]
      BY <1>1, <1>2, <2>2
    <3>2. phase'[c] = "claimed" /\ task'[c] = j /\ claimed'[c] = attempts[j] + 1
      BY <3>1 DEF BudgetInv, TypeOK
    <3>3. status'[j] = "RUNNING" /\ attempts'[j] = attempts[j] + 1 /\ lockedBy'[j] = c
      BY <1>2, <2>2
    <3> QED BY <3>2, <3>3 DEF Accounted, AtWork, Owing
  <2>3. CASE j \notin taken /\ j \in recovered
    BY <1>2, <2>1, <2>3 DEF Accounted
  <2>4. CASE j \notin taken /\ j \notin recovered
    <3>1. status'[j] = status[j] /\ attempts'[j] = attempts[j] /\ lockedBy'[j] = lockedBy[j]
      BY <1>2, <1>3, <2>4
    <3>2. d # c => phase'[d] = phase[d] /\ task'[d] = task[d] /\ claimed'[d] = claimed[d]
      BY <1>2 DEF BudgetInv, TypeOK
    <3>3. lockedBy[j] # c
      BY <1>2, IdleOwnsNothing DEF Owing
    <3> QED BY <1>2, <2>1, <3>1, <3>2, <3>3 DEF Accounted, AtWork
  <2> QED BY <2>2, <2>3, <2>4
<1> QED BY <1>4 DEF HandbackInv

\* What a step that writes no column of the queue may do to a consumer.
LEMMA RowsAccounted ==
    ASSUME HandbackInv, faults = 0, UNCHANGED <<status, attempts, lockedBy>>,
           \A c \in Consumers :
              \/ boot'[BootOf[c]] = "gone"
              \/ \A j \in Jobs : lockedBy[j] # c
              \/ /\ boot[BootOf[c]] = "gone" => boot'[BootOf[c]] = "gone"
                 /\ task'[c] = task[c] /\ claimed'[c] = claimed[c]
                 /\ phase[c] \in Owing => phase'[c] \in Owing
    PROVE  HandbackInv'
BY DEF HandbackInv, Accounted, AtWork

-----------------------------------------------------------------------------
\* One case per action of a consumer.
LEMMA HandbackConsumerStep ==
    ASSUME BudgetInv, HandbackInv, faults = 0, NEW c \in Consumers, ConsumerStep(c)
    PROVE  HandbackInv'
<1>a. phase[c] \notin {"off", "polling"} => task[c] \in Jobs
  BY DEF BudgetInv, TypeOK, HasTask
<1>b. /\ phase \in [Consumers -> Phases] /\ task \in [Consumers -> Jobs \cup {None}]
      /\ claimed \in [Consumers -> 0 .. MaxAttempts]
  BY DEF BudgetInv, TypeOK
<1>1. CASE Claim(c)
  BY <1>1, ClaimAccounted
<1>2. CASE DeferShutdown(c) \/ DeferBusy(c) \/ Succeed(c) \/ Fail(c) \/ Continue(c)
  <2>1. task[c] \in Jobs /\ boot' = boot
    BY <1>2, <1>a DEF DeferShutdown, DeferBusy, Succeed, Fail, Continue
  <2>2. \A d \in Consumers \ {c} :
           task'[d] = task[d] /\ phase'[d] = phase[d] /\ claimed'[d] = claimed[d]
    BY <1>2, <1>b DEF DeferShutdown, DeferBusy, Succeed, Fail, Continue, Forget, Finish, Resume
  <2>3. \E s, a, av, p : WriteOwned(c, s, a, av, p)
    <3>1. CASE DeferShutdown(c) \/ DeferBusy(c)
      BY <3>1 DEF DeferShutdown, DeferBusy, Requeue
    <3>2. CASE Succeed(c)
      BY <3>2 DEF Succeed, MarkSucceeded
    <3>3. CASE Fail(c)
      BY <3>3 DEF Fail, MarkFailed
    <3>4. CASE Continue(c)
      BY <3>4 DEF Continue, Requeue
    <3> QED BY <1>2, <3>1, <3>2, <3>3, <3>4
  <2> QED BY <2>1, <2>2, <2>3, OutcomeAccounted
<1>3. CASE OpenLease(c) \/ TakeLock(c) \/ ScopeBusy(c) \/ StartHandler(c)
  BY <1>3, <1>b, RowsAccounted
  DEF OpenLease, TakeLock, ScopeBusy, StartHandler, Resume, row, Owing
<1>4. CASE ClaimLost(c)
  <2>1. boot[BootOf[c]] = "gone" \/ \A j \in Jobs : lockedBy[j] # c
    BY <1>4 DEF ClaimLost, StillClaimed, Owned, HandbackInv, Accounted, AtWork
  <2> QED
    BY <1>4, <1>b, <2>1, RowsAccounted DEF ClaimLost, Forget, Resume, row
<1>5. CASE CloseLease(c) \/ LeaveLoop(c)
  <2>1. boot[BootOf[c]] = "gone" \/ \A j \in Jobs : lockedBy[j] # c
    BY <1>5, IdleOwnsNothing DEF CloseLease, LeaveLoop, Owing
  <2> QED
    BY <1>5, <1>b, <2>1, RowsAccounted DEF CloseLease, LeaveLoop, Forget, Resume, row
<1>6. CASE DeleteWorkspace(c)
  <2> DEFINE removed == Removable(Workspace[task[c]])
  <2>1. /\ status' = [j \in Jobs |-> IF j \in removed THEN "GONE" ELSE status[j]]
        /\ lockedBy' = [j \in Jobs |-> IF j \in removed THEN None ELSE lockedBy[j]]
        /\ UNCHANGED <<attempts, boot, phase, task, claimed>>
    BY <1>6 DEF DeleteWorkspace
  <2> HIDE DEF removed
  <2>2. None \notin Consumers
    BY PoolAssumption DEF PoolAssumption
  <2> QED BY <2>1, <2>2 DEF HandbackInv, Accounted, AtWork
<1> QED
  BY <1>1, <1>2, <1>3, <1>4, <1>5, <1>6 DEF ConsumerStep

\* A process that starts finds no row in the names of its consumers; one that is
\* told to stop, or dies, changes no row.
LEMMA HandbackBootStep ==
    ASSUME BudgetInv, HandbackInv, faults = 0,
           NEW b \in Boots, UNCHANGED row, StartBoot(b) \/ RequestStop(b) \/ Kill(b)
    PROVE  HandbackInv'
<1>a. /\ phase \in [Consumers -> Phases] /\ boot \in [Boots -> {"unborn", "up", "stopping", "gone"}]
      /\ task \in [Consumers -> Jobs \cup {None}] /\ BootOf \in [Consumers -> Boots]
  BY PoolAssumption DEF BudgetInv, TypeOK, PoolAssumption
<1>1. CASE StartBoot(b)
  <2>1. \A c \in Consumers : BootOf[c] = b => \A j \in Jobs : lockedBy[j] # c
    BY <1>1, IdleOwnsNothing DEF StartBoot, BudgetInv, Unstarted, Owing
  <2> QED
    BY <1>1, <1>a, <2>1, RowsAccounted DEF StartBoot, row
<1>2. CASE RequestStop(b)
  BY <1>2, <1>a, RowsAccounted DEF RequestStop, row
<1>3. CASE Kill(b)
  BY <1>3, <1>a, RowsAccounted DEF Kill, row
<1> QED BY <1>1, <1>2, <1>3

\* Every step keeps the invariant.
LEMMA HandbackStep == BudgetInv /\ HandbackInv /\ [Next]_vars => HandbackInv'
<1> SUFFICES ASSUME BudgetInv, HandbackInv, [Next]_vars, faults' = 0 PROVE HandbackInv'
  BY DEF HandbackInv
<1>a. faults \in Nat
  BY PoolAssumption DEF BudgetInv, TypeOK, PoolAssumption
<1>1. ASSUME NEW c \in Consumers, ConsumerStep(c) PROVE HandbackInv'
  <2>1. faults = 0
    BY <1>1 DEF ConsumerStep, Claim, DeferShutdown, OpenLease, TakeLock, ScopeBusy, DeferBusy,
                ClaimLost, StartHandler, Succeed, Fail, Continue, DeleteWorkspace, CloseLease,
                LeaveLoop, budget
  <2> QED BY <1>1, <2>1, HandbackConsumerStep
<1>2. ASSUME NEW c \in Consumers, Heartbeat(c) PROVE HandbackInv'
  BY <1>2 DEF Heartbeat, budget, HandbackInv, Accounted, AtWork
<1>3. ASSUME NEW c \in Consumers, FailClosed(c) PROVE HandbackInv'
  <2>1. BootOf[c] \in Boots
    BY PoolAssumption DEF PoolAssumption
  <2> QED BY <1>3, <2>1, HandbackBootStep DEF FailClosed, budget
<1>4. ASSUME NEW c \in Consumers, FaultStep(c) PROVE HandbackInv'
  <2>1. CASE LoseSession(c)
    BY <2>1 DEF LoseSession, row, HandbackInv, Accounted, AtWork
  <2>2. CASE LeaseFault(c) \/ OutcomeFault(c)
    BY <1>a, <2>2 DEF LeaseFault, OutcomeFault
  <2> QED BY <1>4, <2>1, <2>2 DEF FaultStep
<1>5. ASSUME NEW b \in Boots, StartBoot(b) \/ RequestStop(b) \/ Crash(b) PROVE HandbackInv'
  <2>1. faults = 0 /\ UNCHANGED row
    BY <1>5 DEF StartBoot, RequestStop, Crash, budget
  <2> QED BY <1>5, <2>1, HandbackBootStep DEF Crash
<1>6. ASSUME NEW j \in Jobs, Insert(j) \/ BackoffElapses(j) PROVE HandbackInv'
  <2>1. /\ faults = 0 /\ UNCHANGED <<attempts, lockedBy, boot, phase, task, claimed>>
        /\ \A k \in Jobs : status[k] = "RUNNING" => status'[k] = "RUNNING"
    BY <1>6 DEF Insert, BackoffElapses, budget, BudgetInv, TypeOK
  <2> QED BY <2>1 DEF HandbackInv, Accounted, AtWork
<1>7. CASE Tick
  BY <1>7 DEF Tick, budget, HandbackInv, Accounted, AtWork
<1>8. CASE UNCHANGED vars
  BY <1>8 DEF vars, row, budget, HandbackInv, Accounted, AtWork
<1> QED
  BY <1>1, <1>2, <1>3, <1>4, <1>5, <1>6, <1>7, <1>8 DEF Next, GuardStep

\* The invariant holds in every reachable state.
THEOREM HandbackInvariance == Spec => []HandbackInv
<1>1. Init => HandbackInv
  BY PoolAssumption DEF Init, HandbackInv, Accounted, PoolAssumption
<1> QED BY <1>1, BudgetInvariance, HandbackStep, PTL DEF Spec

\* A consumer that has left the loop of a stopping process has handed back every row
\* (worker.py:175-184): nothing waits for the lock timeout.
THEOREM StopHandsBack == Spec => []GracefulStopHandsBack
<1>1. HandbackInv => GracefulStopHandsBack
  BY DEF HandbackInv, Accounted, AtWork, Owing, GracefulStopHandsBack
<1> QED BY <1>1, HandbackInvariance, PTL

-----------------------------------------------------------------------------
(* The lease.  The job lock, the check of the row behind it and the        *)
(* heartbeat together keep the claim of a running handler; with no lost    *)
(* session the workspace and repository locks keep conflicting handlers    *)
(* apart.                                                                  *)

\* A consumer whose claim is protected: it holds the job lock behind the row
\* check, or its handler runs (even if the session behind the lock has died).
Active(c) == phase[c] = "executing" \/ (phase[c] = "leasing" /\ "job" \in held[c])

\* Session state outside a lease is reset; inside one, every required lock is held.
Calm(c) ==
    /\ phase[c] \notin {"leasing", "executing", "returning"} => held[c] = {}
    /\ ~Guarded(c) => beat[c] = 0 /\ missed[c] = 0 /\ ~lost[c]
    /\ Guarded(c) /\ ~lost[c] => held[c] = Required(task[c])

Keeps(c) == Active(c) => StillClaimed(c) \/ status[task[c]] = "GONE"

\* locked_at is never older than the heartbeats that were missed allow.
Renewed(c) ==
    Executing(c) =>
        \/ status[task[c]] = "GONE"
        \/ lockedAge[task[c]] <= missed[c] * HeartbeatEvery + beat[c]

Good(c) == Calm(c) /\ Keeps(c) /\ Renewed(c)

\* Advisory locks exclude each other as PostgreSQL's do, and active consumers
\* work on different jobs.
Apart(c, d) ==
    /\ "job" \in held[c] /\ "job" \in held[d] => task[c] # task[d]
    /\ "repository" \in held[c] /\ "repository" \in held[d]
         => Repository[task[c]] # Repository[task[d]]
    /\ "workspace" \in held[c] /\ "workspace" \in held[d]
       /\ Workspace[task[c]] = Workspace[task[d]]
         => Repository[task[c]] # None /\ Repository[task[d]] # None
    /\ Active(c) /\ Active(d) => task[c] # task[d]

LeaseInv ==
    /\ \A c \in Consumers : Good(c)
    /\ \A c, d \in Consumers : c # d => Apart(c, d)

-----------------------------------------------------------------------------
(* What a step may do to a consumer that does not take it. *)

\* It loses locks or activity, never gains them.
Shrinks(d) ==
    /\ held'[d] \subseteq held[d]
    /\ held'[d] # {} => task'[d] = task[d]
    /\ Active(d)' => Active(d) /\ task'[d] = task[d]

Untouched(d) ==
    /\ phase'[d] = phase[d] /\ task'[d] = task[d] /\ claimed'[d] = claimed[d]
    /\ held'[d] = held[d] /\ beat'[d] = beat[d] /\ missed'[d] = missed[d]
    /\ lost'[d] = lost[d]

\* The claim of an active consumer is left alone, or its row deleted.
RowKept(d) ==
    Active(d) =>
        \/ status'[task[d]] = "GONE"
        \/ /\ status'[task[d]] = status[task[d]]
           /\ attempts'[task[d]] = attempts[task[d]]
           /\ lockedBy'[task[d]] = lockedBy[task[d]]
           /\ lockedAge'[task[d]] = lockedAge[task[d]]

\* Two sessions whose locks only shrink stay compatible: pg_advisory locks conflict
\* only when one of them is newly taken.
LEMMA ApartShrinks ==
    ASSUME LeaseInv, \A d \in Consumers : Shrinks(d)
    PROVE  (\A c, d \in Consumers : c # d => Apart(c, d))'
<1> SUFFICES ASSUME NEW c \in Consumers, NEW d \in Consumers, c # d
             PROVE  Apart(c, d)'
  OBVIOUS
<1>1. Apart(c, d) /\ Shrinks(c) /\ Shrinks(d)
  BY DEF LeaseInv
<1> QED BY <1>1 DEF Apart, Shrinks

\* A step that touches neither the row nor the lease of an active consumer leaves
\* its claim good.
LEMMA Frame ==
    ASSUME LeaseInv, NEW d \in Consumers, Untouched(d), RowKept(d)
    PROVE  Good(d)' /\ Shrinks(d)
<1>1. Good(d)
  BY DEF LeaseInv
<1>2. Active(d)' <=> Active(d)
  BY DEF Untouched, Active
<1>3. Calm(d)'
  BY <1>1 DEF Good, Calm, Untouched, Guarded
<1>4. Keeps(d)'
  BY <1>1, <1>2 DEF Good, Keeps, Untouched, RowKept, StillClaimed, Owned
<1>5. Renewed(d)'
  BY <1>1 DEF Good, Renewed, Untouched, RowKept, Executing, Active
<1>6. Shrinks(d)
  BY <1>2 DEF Shrinks, Untouched
<1> QED BY <1>3, <1>4, <1>5, <1>6 DEF Good

\* A consumer's write to its own row never hits the row of another active one.
LEMMA WriteKeepsOthers ==
    ASSUME BudgetInv, LeaseInv, NEW c \in Consumers, NEW d \in Consumers, c # d,
           task[c] \in Jobs, NEW s, NEW a, NEW av, NEW p, WriteOwned(c, s, a, av, p)
    PROVE  RowKept(d)
<1>1. CASE ~Owned(c, task[c])
  BY <1>1 DEF WriteOwned, LeaveRow, RowKept
<1>2. CASE Owned(c, task[c])
  <2>1. Relinquish(c, task[c], s, a, av, p)
    BY <1>2 DEF WriteOwned
  <2>2. SUFFICES ASSUME Active(d) PROVE RowKept(d)
    BY DEF RowKept
  <2>3. task[d] \in Jobs
    BY <2>2 DEF Active, BudgetInv, TypeOK, HasTask
  <2>4. task[d] # task[c]
    BY <1>2, <2>2 DEF LeaseInv, Good, Keeps, StillClaimed, Owned
  <2> QED BY <2>1, <2>3, <2>4 DEF Relinquish, RowKept, BudgetInv, TypeOK
<1> QED BY <1>1, <1>2

\* Between two heartbeats a row does not age to the stale timeout, and before the
\* first one the job lock keeps recovery away: an active claim is never stale.
LEMMA ActiveNotStale ==
    ASSUME BudgetInv, LeaseInv, NEW c \in Consumers, Active(c)
    PROVE  ~Stale(task[c])
<1> USE PoolAssumption DEF PoolAssumption
<1>1. CASE phase[c] = "leasing" /\ "job" \in held[c]
  BY <1>1 DEF Stale, JobLockFree
<1>2. CASE phase[c] = "executing"
  <2>1. SUFFICES ASSUME status[task[c]] # "GONE"
                 PROVE  lockedAge[task[c]] < StaleAfter
    BY DEF Stale
  <2>2. lockedAge[task[c]] <= missed[c] * HeartbeatEvery + beat[c]
    BY <1>2, <2>1 DEF LeaseInv, Good, Renewed, Executing
  <2>3. /\ missed[c] \in 0 .. MaxMissedBeats /\ beat[c] \in 0 .. HeartbeatEvery
        /\ task[c] \in Jobs
    BY <1>2 DEF BudgetInv, TypeOK, HasTask
  <2>4. lockedAge[task[c]] \in Nat
    BY <2>3 DEF BudgetInv, TypeOK
  <2>5. \A m \in 0 .. MaxMissedBeats :
           m * HeartbeatEvery + HeartbeatEvery <= (MaxMissedBeats + 1) * HeartbeatEvery
    OBVIOUS
  <2>6. missed[c] * HeartbeatEvery \in Nat
    BY <2>3
  <2>7. (MaxMissedBeats + 1) * HeartbeatEvery \in Nat
    OBVIOUS
  <2> DEFINE m == missed[c] * HeartbeatEvery
             top == (MaxMissedBeats + 1) * HeartbeatEvery
  <2>8. m + HeartbeatEvery <= top /\ top < StaleAfter /\ m \in Nat /\ top \in Nat
    BY <2>3, <2>5, <2>6, <2>7
  <2>9. lockedAge[task[c]] <= m + beat[c]
    BY <2>2
  <2> HIDE DEF m, top
  <2> QED BY <2>3, <2>4, <2>8, <2>9
<1> QED BY <1>1, <1>2 DEF Active

\* Claiming touches only rows no active consumer works on.
LEMMA ClaimKeepsActive ==
    ASSUME BudgetInv, LeaseInv, NEW c \in Consumers, Claim(c), NEW d \in Consumers
    PROVE  RowKept(d)
<1> SUFFICES ASSUME Active(d) PROVE RowKept(d)
  BY DEF RowKept
<1> DEFINE j == task[d]
           recovered == {k \in Jobs : Stale(k)}
           dead == {k \in recovered : Exhausted(k)}
           taken == First({k \in Jobs : Ready(k)})
<1>1. j \in Jobs
  BY DEF Active, BudgetInv, TypeOK, HasTask
<1>2. j \notin recovered
  BY ActiveNotStale
<1>3. status[j] \notin Waiting
  BY DEF LeaseInv, Good, Keeps, StillClaimed, Owned, Waiting
<1>4. j \notin taken
  BY <1>2, <1>3 DEF First, Ready
<1>5. /\ status' = [k \in Jobs |->
                      IF k \in taken THEN "RUNNING"
                      ELSE IF k \in dead THEN "DEAD"
                      ELSE IF k \in recovered THEN "FAILED" ELSE status[k]]
      /\ attempts' = [k \in Jobs |-> IF k \in taken THEN attempts[k] + 1 ELSE attempts[k]]
      /\ lockedBy' = [k \in Jobs |->
                        IF k \in taken THEN c
                        ELSE IF k \in recovered THEN None ELSE lockedBy[k]]
      /\ lockedAge' = [k \in Jobs |->
                         IF k \in taken \cup recovered THEN 0 ELSE lockedAge[k]]
  BY DEF Claim
<1>6. j \notin dead
  BY <1>2
<1> HIDE DEF recovered, dead, taken
<1> QED BY <1>1, <1>2, <1>4, <1>5, <1>6 DEF RowKept

\* A process that dies keeps nobody else from anything.
LEMMA KillKeepsLeases ==
    ASSUME BudgetInv, LeaseInv, NEW b \in Boots, Kill(b), UNCHANGED row
    PROVE  LeaseInv'
<1>1. ASSUME NEW d \in Consumers
      PROVE  Good(d)' /\ Shrinks(d)
  <2>1. CASE BootOf[d] = b
    BY <2>1 DEF Kill, Good, Calm, Keeps, Renewed, Shrinks, Active, Guarded, Executing
  <2>2. CASE BootOf[d] # b
    <3>1. Untouched(d)
      BY <2>2 DEF Kill, Untouched
    <3>2. RowKept(d)
      BY DEF RowKept, row
    <3> QED BY <3>1, <3>2, Frame
  <2> QED BY <2>1, <2>2
<1> QED BY <1>1, ApartShrinks DEF LeaseInv

\* A consumer that leaves its active phase: it only has to be calm afterwards.
LEMMA Rests ==
    ASSUME NEW c \in Consumers, phase'[c] \notin {"leasing", "executing"},
           held'[c] \subseteq held[c], held'[c] # {} => task'[c] = task[c], Calm(c)'
    PROVE  Good(c)' /\ Shrinks(c)
BY DEF Good, Keeps, Renewed, Shrinks, Active, Executing

\* No session is open before the first process starts.
LEMMA LeaseInit == Init => LeaseInv
BY DEF Init, LeaseInv, Good, Calm, Keeps, Renewed, Apart, Active, Guarded, Executing

\* One case per action of a consumer.
LEMMA LeaseConsumerStep ==
    ASSUME BudgetInv, LeaseInv, NEW c \in Consumers, ConsumerStep(c)
    PROVE  LeaseInv'
<1> USE PoolAssumption DEF PoolAssumption
<1> DEFINE j == task[c]
<1>g. Good(c) /\ Calm(c) /\ Keeps(c) /\ Renewed(c)
  BY DEF LeaseInv, Good
<1>t. phase[c] \notin {"off", "polling"} => j \in Jobs
  BY DEF BudgetInv, TypeOK, HasTask
<1>y. /\ phase \in [Consumers -> Phases] /\ task \in [Consumers -> Jobs \cup {None}]
      /\ claimed \in [Consumers -> 0 .. MaxAttempts]
      /\ held \in [Consumers -> SUBSET LockLevels]
      /\ beat \in [Consumers -> 0 .. HeartbeatEvery]
      /\ missed \in [Consumers -> 0 .. MaxMissedBeats] /\ lost \in [Consumers -> BOOLEAN]
      /\ status \in [Jobs -> Statuses] /\ lockedAge \in [Jobs -> 0 .. StaleAfter]
  BY DEF BudgetInv, TypeOK
<1>q. ASSUME \A d \in Consumers \ {c} : Untouched(d) /\ RowKept(d),
             Good(c)', Shrinks(c)
      PROVE  LeaseInv'
  <2>1. \A d \in Consumers : Good(d)' /\ Shrinks(d)
    BY <1>q, Frame
  <2> QED BY <2>1, ApartShrinks DEF LeaseInv
<1>1. CASE Claim(c)
  <2>1. \A d \in Consumers : RowKept(d)
    BY <1>1, ClaimKeepsActive
  <2>2. \A d \in Consumers \ {c} : Untouched(d)
    BY <1>1, <1>y DEF Claim, Untouched, lease
  <2>3. phase'[c] \in {"polling", "claimed"} /\ held'[c] = held[c] /\ held[c] = {}
    BY <1>1, <1>g, <1>y DEF Claim, Calm, lease
  <2>4. Calm(c)'
    BY <1>1, <1>g, <2>3 DEF Claim, Calm, Guarded, lease
  <2>5. Good(c)' /\ Shrinks(c)
    BY <2>3, <2>4, Rests
  <2> QED BY <1>q, <2>1, <2>2, <2>5
<1>2. CASE DeferShutdown(c)
  <2>1. \A d \in Consumers \ {c} : RowKept(d)
    BY <1>2, <1>t, WriteKeepsOthers DEF DeferShutdown, Requeue
  <2>2. \A d \in Consumers \ {c} : Untouched(d)
    BY <1>2, <1>y DEF DeferShutdown, Forget, Resume, Untouched, lease
  <2>3. Calm(c)' /\ phase'[c] = "off" /\ held'[c] = {}
    BY <1>2, <1>g, <1>y DEF DeferShutdown, Forget, Resume, Calm, Guarded, lease
  <2> QED BY <1>q, <2>1, <2>2, <2>3, Rests
<1>3. CASE OpenLease(c)
  <2>1. \A d \in Consumers \ {c} : RowKept(d)
    BY <1>3 DEF OpenLease, row, RowKept
  <2>2. \A d \in Consumers \ {c} : Untouched(d)
    BY <1>3, <1>y DEF OpenLease, Resume, Untouched, lease
  <2>3. phase'[c] = "leasing" /\ held'[c] = {} /\ held[c] = {}
    BY <1>3, <1>g, <1>y DEF OpenLease, Resume, Calm, lease
  <2>4. Good(c)' /\ Shrinks(c)
    BY <1>3, <1>g, <2>3
    DEF OpenLease, Good, Calm, Keeps, Renewed, Shrinks, Active, Guarded, Executing, lease
  <2> QED BY <1>q, <2>1, <2>2, <2>4
<1>4. CASE TakeLock(c)
  <2> DEFINE level == NextLock(c)
  <2>1. \A d \in Consumers \ {c} : RowKept(d)
    BY <1>4 DEF TakeLock, row, RowKept
  <2>2. \A d \in Consumers \ {c} : Untouched(d)
    BY <1>4, <1>y DEF TakeLock, Untouched
  <2>3. \A d \in Consumers \ {c} : Good(d)' /\ Shrinks(d)
    BY <2>1, <2>2, Frame
  <2>4. /\ phase[c] = "leasing" /\ phase'[c] = "leasing" /\ task' = task
        /\ held'[c] = held[c] \cup {level} /\ LockFree(c, level)
        /\ level = "job" => StillClaimed(c)
        /\ UNCHANGED <<row, claimed, beat, missed, lost>>
    BY <1>4, <1>y DEF TakeLock
  <2>5. level \in LockLevels
    BY DEF NextLock, LockLevels
  <2> HIDE DEF level
  <2>6. Good(c)'
    <3>1. Calm(c)' /\ Renewed(c)'
      BY <1>g, <2>4 DEF Calm, Renewed, Guarded, Executing
    <3>2. Keeps(c)'
      BY <1>g, <2>4 DEF Keeps, Active, StillClaimed, Owned, row
    <3> QED BY <3>1, <3>2 DEF Good
  <2>7. ASSUME NEW d \in Consumers, d # c
        PROVE  Apart(c, d)' /\ Apart(d, c)'
    <3>1. Apart(c, d) /\ Apart(d, c) /\ Shrinks(d) /\ Good(d)
      BY <2>3, <2>7 DEF LeaseInv
    <3>2. /\ level = "job" => ("job" \in held[d] => task[d] # task[c])
          /\ level = "repository" =>
               ("repository" \in held[d] => Repository[task[d]] # Repository[task[c]])
          /\ level = "workspace" =>
               ("workspace" \in held[d] /\ Workspace[task[d]] = Workspace[task[c]]
                  => Repository[task[c]] # None /\ Repository[task[d]] # None)
      BY <2>4, <2>7 DEF LockFree, JobFree, WorkspaceFree, RepositoryFree
    <3>3. level = "job" => (Active(d) => task[d] # task[c])
      BY <2>4, <2>7, <3>1 DEF Good, Keeps, StillClaimed, Owned
    <3>4. /\ held'[d] = held[d] /\ task'[d] = task[d]
          /\ Active(d)' <=> Active(d)
      BY <2>2, <2>7 DEF Untouched, Active
    <3>5. Active(c)' => Active(c) \/ level = "job"
      BY <2>4 DEF Active
    <3>6. /\ "job" \in held'[c] => "job" \in held[c] \/ level = "job"
          /\ "workspace" \in held'[c] => "workspace" \in held[c] \/ level = "workspace"
          /\ "repository" \in held'[c] => "repository" \in held[c] \/ level = "repository"
      BY <2>4
    <3> QED BY <2>4, <3>1, <3>2, <3>3, <3>4, <3>5, <3>6 DEF Apart
  <2>8. ASSUME NEW d \in Consumers, NEW e \in Consumers, d # e, d # c, e # c
        PROVE  Apart(d, e)'
    <3>1. Apart(d, e) /\ Shrinks(d) /\ Shrinks(e)
      BY <2>3, <2>8 DEF LeaseInv
    <3> QED BY <3>1 DEF Apart, Shrinks
  <2> QED BY <2>3, <2>6, <2>7, <2>8 DEF LeaseInv
<1>5. CASE ScopeBusy(c)
  <2>1. \A d \in Consumers \ {c} : RowKept(d)
    BY <1>5 DEF ScopeBusy, row, RowKept
  <2>2. \A d \in Consumers \ {c} : Untouched(d)
    BY <1>5, <1>y DEF ScopeBusy, Resume, Unlock, Untouched
  <2>3. Calm(c)' /\ phase'[c] = "deferring" /\ held'[c] = {}
    BY <1>5, <1>y DEF ScopeBusy, Resume, Unlock, Calm, Guarded
  <2> QED BY <1>q, <2>1, <2>2, <2>3, Rests
<1>6. CASE DeferBusy(c)
  <2>1. \A d \in Consumers \ {c} : RowKept(d)
    BY <1>6, <1>t, WriteKeepsOthers DEF DeferBusy, Requeue
  <2>2. \A d \in Consumers \ {c} : Untouched(d)
    BY <1>6, <1>y DEF DeferBusy, Forget, Resume, Untouched, lease
  <2>3. Calm(c)' /\ phase'[c] = "polling" /\ held'[c] = {}
    BY <1>6, <1>g, <1>y DEF DeferBusy, Forget, Resume, Calm, Guarded, lease
  <2> QED BY <1>q, <2>1, <2>2, <2>3, Rests
<1>7. CASE ClaimLost(c)
  <2>1. \A d \in Consumers \ {c} : RowKept(d)
    BY <1>7 DEF ClaimLost, row, RowKept
  <2>2. \A d \in Consumers \ {c} : Untouched(d)
    BY <1>7, <1>y DEF ClaimLost, Forget, Resume, Untouched, lease
  <2>3. Calm(c)' /\ phase'[c] = "polling" /\ held'[c] = {}
    BY <1>7, <1>g, <1>y DEF ClaimLost, Forget, Resume, Calm, Guarded, lease
  <2> QED BY <1>q, <2>1, <2>2, <2>3, Rests
<1>8. CASE StartHandler(c)
  <2>1. phase[c] = "leasing" /\ held[c] = Required(j) /\ "job" \in held[c]
    BY <1>8 DEF StartHandler, Required
  <2>2. StillClaimed(c) \/ status[j] = "GONE"
    BY <1>g, <2>1 DEF Keeps, Active
  <2>3. j \in Jobs
    BY <1>t, <2>1
  <2>4. \A d \in Consumers \ {c} : Untouched(d)
    BY <1>8, <1>y DEF StartHandler, Resume, Untouched, lease
  <2>5. ASSUME NEW d \in Consumers, d # c PROVE RowKept(d)
    <3>1. SUFFICES ASSUME Active(d) PROVE RowKept(d)
      BY DEF RowKept
    <3>2. task[d] # j /\ task[d] \in Jobs
      BY <2>1, <2>5, <3>1 DEF LeaseInv, Apart, Active, BudgetInv, TypeOK, HasTask
    <3> QED BY <1>8, <1>y, <3>2 DEF StartHandler, Refresh, RowKept
  <2>6. phase'[c] = "executing" /\ UNCHANGED <<status, attempts, lockedBy, task, claimed, lease>>
    BY <1>8, <1>y DEF StartHandler, Resume
  <2>7. Calm(c)' /\ Keeps(c)' /\ Shrinks(c)
    BY <1>g, <2>1, <2>2, <2>6
    DEF Calm, Keeps, Shrinks, Active, Guarded, StillClaimed, Owned, lease
  <2>8. Renewed(c)'
    <3>1. CASE status[j] = "GONE"
      BY <2>6, <3>1 DEF Renewed
    <3>2. CASE StillClaimed(c)
      <4>1. lockedAge'[j] = 0
        BY <1>8, <2>3, <3>2 DEF StartHandler, Refresh
      <4>2. beat[c] = 0 /\ missed[c] = 0
        BY <1>g, <2>1 DEF Calm, Guarded
      <4> QED BY <2>6, <4>1, <4>2 DEF Renewed, lease
    <3> QED BY <2>2, <3>1, <3>2
  <2> QED BY <1>q, <2>4, <2>5, <2>7, <2>8 DEF Good
<1>a. ASSUME phase[c] = "executing", Finish(c), UNCHANGED <<task, claimed, lease>>,
             \A d \in Consumers \ {c} : RowKept(d)
      PROVE  LeaseInv'
  <2>1. \A d \in Consumers \ {c} : Untouched(d)
    BY <1>a, <1>y DEF Finish, Resume, Untouched, lease
  <2>2. Calm(c)' /\ phase'[c] = "returning" /\ held'[c] = held[c] /\ task'[c] = task[c]
    BY <1>a, <1>g, <1>y DEF Finish, Resume, Calm, Guarded, lease
  <2> QED BY <1>a, <1>q, <2>1, <2>2, Rests
<1>9. CASE Succeed(c)
  <2>1. \A d \in Consumers \ {c} : RowKept(d)
    BY <1>9, <1>t, WriteKeepsOthers DEF Succeed, MarkSucceeded
  <2> QED BY <1>9, <1>a, <2>1 DEF Succeed
<1>10. CASE Fail(c)
  <2>1. \A d \in Consumers \ {c} : RowKept(d)
    BY <1>10, <1>t, WriteKeepsOthers DEF Fail, MarkFailed
  <2> QED BY <1>10, <1>a, <2>1 DEF Fail
<1>11. CASE Continue(c)
  <2>1. \A d \in Consumers \ {c} : RowKept(d)
    BY <1>11, <1>t, WriteKeepsOthers DEF Continue, Requeue
  <2> QED BY <1>11, <1>a, <2>1 DEF Continue
<1>12. CASE DeleteWorkspace(c)
  <2> DEFINE removed == Removable(Workspace[j])
  <2>1. /\ status' = [k \in Jobs |-> IF k \in removed THEN "GONE" ELSE status[k]]
        /\ lockedBy' = [k \in Jobs |-> IF k \in removed THEN None ELSE lockedBy[k]]
        /\ lockedAge' = [k \in Jobs |-> IF k \in removed THEN 0 ELSE lockedAge[k]]
        /\ UNCHANGED <<attempts, phase, task, claimed, lease>>
    BY <1>12 DEF DeleteWorkspace
  <2> HIDE DEF removed
  <2>2. ASSUME NEW d \in Consumers PROVE RowKept(d) /\ Untouched(d)
    <3>1. Active(d) => task[d] \in Jobs
      BY DEF Active, BudgetInv, TypeOK, HasTask
    <3> QED BY <2>1, <3>1 DEF RowKept, Untouched, lease
  <2>3. Good(c)' /\ Shrinks(c)
    BY <2>2, Frame
  <2> QED BY <1>q, <2>2, <2>3
<1>13. CASE CloseLease(c)
  <2>1. \A d \in Consumers \ {c} : RowKept(d)
    BY <1>13 DEF CloseLease, row, RowKept
  <2>2. \A d \in Consumers \ {c} : Untouched(d)
    BY <1>13, <1>y DEF CloseLease, Forget, Resume, Unlock, Untouched
  <2>3. Calm(c)' /\ phase'[c] = "polling" /\ held'[c] = {}
    BY <1>13, <1>y DEF CloseLease, Forget, Resume, Unlock, Calm, Guarded
  <2> QED BY <1>q, <2>1, <2>2, <2>3, Rests
<1>14. CASE LeaveLoop(c)
  <2>1. \A d \in Consumers \ {c} : RowKept(d)
    BY <1>14 DEF LeaveLoop, row, RowKept
  <2>2. \A d \in Consumers \ {c} : Untouched(d)
    BY <1>14, <1>y DEF LeaveLoop, Resume, Untouched, lease
  <2>3. Calm(c)' /\ phase'[c] = "off" /\ held'[c] = {}
    BY <1>14, <1>g, <1>y DEF LeaveLoop, Resume, Calm, Guarded, lease
  <2> QED BY <1>q, <2>1, <2>2, <2>3, Rests
<1> QED
  BY <1>1, <1>2, <1>3, <1>4, <1>5, <1>6, <1>7, <1>8, <1>9, <1>10, <1>11, <1>12, <1>13,
     <1>14 DEF ConsumerStep

\* The guard thread: renewal keeps the age in step with the beats.
LEMMA LeaseGuardStep ==
    ASSUME BudgetInv, LeaseInv, NEW c \in Consumers, Heartbeat(c)
    PROVE  LeaseInv'
<1> USE PoolAssumption DEF PoolAssumption
<1> DEFINE j == task[c]
<1>1. /\ Guarded(c) /\ ~lost[c] /\ beat[c] = HeartbeatEvery
      /\ UNCHANGED <<status, attempts, lockedBy, phase, task, claimed, held, lost>>
      /\ beat' = [beat EXCEPT ![c] = 0]
  BY DEF Heartbeat
<1>2. /\ j \in Jobs
      /\ beat \in [Consumers -> 0 .. HeartbeatEvery]
      /\ missed \in [Consumers -> 0 .. MaxMissedBeats]
      /\ lockedAge \in [Jobs -> 0 .. StaleAfter]
  BY <1>1 DEF Guarded, BudgetInv, TypeOK, HasTask
<1>3. Good(c)
  BY DEF LeaseInv
<1>4. Required(j) = held[c]
  BY <1>1, <1>3 DEF Good, Calm
<1>5. \/ Refresh(c) /\ missed' = [missed EXCEPT ![c] = 0]
      \/ missed' = [missed EXCEPT ![c] = @ + 1] /\ UNCHANGED lockedAge
  BY DEF Heartbeat
<1>6. \A d \in Consumers \ {c} : Untouched(d)
  BY <1>1, <1>2, <1>5 DEF Untouched
<1>7. ASSUME NEW d \in Consumers, d # c PROVE RowKept(d)
  <2>1. SUFFICES ASSUME Active(d) PROVE RowKept(d)
    BY DEF RowKept
  <2>2. task[d] \in Jobs
    BY <2>1 DEF Active, BudgetInv, TypeOK, HasTask
  <2>3. task[d] = j => ~StillClaimed(c)
    BY <1>7, <2>1 DEF LeaseInv, Good, Keeps, StillClaimed, Owned
  <2>4. task[d] = j /\ StillClaimed(c) => FALSE
    BY <2>3
  <2>5. lockedAge'[task[d]] = lockedAge[task[d]]
    BY <1>2, <1>5, <2>2, <2>4 DEF Refresh
  <2> QED BY <1>1, <2>5 DEF RowKept
<1>8. Good(c)'
  <2>1. Calm(c)' /\ Keeps(c)'
    BY <1>1, <1>3 DEF Good, Calm, Keeps, Active, Guarded, StillClaimed, Owned
  <2>2. SUFFICES ASSUME Executing(c), status[j] # "GONE"
                 PROVE  lockedAge'[j] <= missed'[c] * HeartbeatEvery + beat'[c]
    BY <1>1, <2>1 DEF Good, Renewed, Executing
  <2>3. StillClaimed(c) /\ lockedAge[j] <= missed[c] * HeartbeatEvery + HeartbeatEvery
    BY <1>1, <1>3, <2>2 DEF Good, Keeps, Renewed, Executing, Active
  <2>4. beat'[c] = 0
    BY <1>1, <1>2
  <2>5. CASE Refresh(c) /\ missed' = [missed EXCEPT ![c] = 0]
    BY <1>2, <2>3, <2>4, <2>5 DEF Refresh
  <2>6. CASE missed' = [missed EXCEPT ![c] = @ + 1] /\ UNCHANGED lockedAge
    <3>1. missed'[c] = missed[c] + 1
      BY <1>2, <2>6
    <3>2. missed[c] \in Nat
      BY <1>2
    <3>3. (missed[c] + 1) * HeartbeatEvery = missed[c] * HeartbeatEvery + HeartbeatEvery
      BY <3>2
    <3>4. missed[c] * HeartbeatEvery + HeartbeatEvery \in Nat
      BY <3>2
    <3> QED BY <2>3, <2>4, <2>6, <3>1, <3>3, <3>4
  <2> QED BY <1>5, <2>5, <2>6
<1>9. Shrinks(c)
  BY <1>1 DEF Shrinks, Active
<1>10. \A d \in Consumers : Good(d)' /\ Shrinks(d)
  BY <1>6, <1>7, <1>8, <1>9, Frame
<1> QED BY <1>10, ApartShrinks DEF LeaseInv

\* Faults: a consumer gives up, or its session dies under it.
LEMMA LeaseFaultStep ==
    ASSUME BudgetInv, LeaseInv, NEW c \in Consumers, FaultStep(c)
    PROVE  LeaseInv'
<1>1. Good(c) /\ Calm(c) /\ Keeps(c) /\ Renewed(c)
  BY DEF LeaseInv, Good
<1>2. /\ phase \in [Consumers -> Phases] /\ task \in [Consumers -> Jobs \cup {None}]
      /\ claimed \in [Consumers -> 0 .. MaxAttempts]
      /\ held \in [Consumers -> SUBSET LockLevels]
      /\ beat \in [Consumers -> 0 .. HeartbeatEvery]
      /\ missed \in [Consumers -> 0 .. MaxMissedBeats] /\ lost \in [Consumers -> BOOLEAN]
  BY DEF BudgetInv, TypeOK
<1>3. UNCHANGED row
  BY DEF FaultStep, LeaseFault, OutcomeFault, LoseSession
<1>4. \A d \in Consumers : RowKept(d)
  BY <1>3 DEF RowKept, row
<1>5. \A d \in Consumers \ {c} : Untouched(d)
  BY <1>2 DEF FaultStep, LeaseFault, OutcomeFault, LoseSession, Forget, Resume, Unlock,
              Finish, Untouched, lease
<1>6. Good(c)' /\ Shrinks(c)
  <2>1. CASE LeaseFault(c)
    <3>1. Calm(c)' /\ phase'[c] \in {"off", "polling"} /\ held'[c] = {}
      BY <1>2, <2>1 DEF LeaseFault, Forget, Resume, Unlock, Calm, Guarded
    <3> QED BY <3>1, Rests
  <2>2. CASE OutcomeFault(c)
    <3>1. Calm(c)' /\ phase'[c] = "returning" /\ held'[c] = held[c] /\ task'[c] = task[c]
      BY <1>1, <1>2, <2>2 DEF OutcomeFault, Finish, Resume, Calm, Guarded, lease
    <3> QED BY <3>1, Rests
  <2>3. CASE LoseSession(c)
    <3>1. /\ lost'[c] /\ held'[c] = {} /\ Guarded(c)
          /\ UNCHANGED <<row, phase, task, claimed, beat, missed>>
      BY <1>2, <2>3 DEF LoseSession
    <3>2. Active(c)' => Active(c)
      BY <3>1 DEF Active
    <3>3. Calm(c)' /\ Renewed(c)' /\ Shrinks(c)
      BY <1>1, <3>1, <3>2 DEF Calm, Renewed, Shrinks, Guarded, Executing, row
    <3>4. Keeps(c)'
      BY <1>1, <3>1, <3>2 DEF Keeps, StillClaimed, Owned, row
    <3> QED BY <3>3, <3>4 DEF Good
  <2> QED BY <2>1, <2>2, <2>3 DEF FaultStep
<1>7. \A d \in Consumers : Good(d)' /\ Shrinks(d)
  BY <1>4, <1>5, <1>6, Frame
<1> QED BY <1>7, ApartShrinks DEF LeaseInv

\* Time: a tick ages the row and the beat alike.
LEMMA LeaseTick ==
    ASSUME BudgetInv, LeaseInv, Tick
    PROVE  LeaseInv'
<1> USE PoolAssumption DEF PoolAssumption
<1>1. ASSUME NEW c \in Consumers PROVE Good(c)' /\ Shrinks(c)
  <2>1. Good(c) /\ Calm(c) /\ Keeps(c) /\ Renewed(c)
    BY DEF LeaseInv, Good
  <2>2. /\ UNCHANGED <<status, attempts, lockedBy, phase, task, claimed, held, missed, lost>>
        /\ beat' = [d \in Consumers |-> IF Guarded(d) THEN beat[d] + 1 ELSE beat[d]]
        /\ lockedAge' = [k \in Jobs |->
                           IF status[k] = "RUNNING" /\ lockedAge[k] < StaleAfter
                           THEN lockedAge[k] + 1 ELSE lockedAge[k]]
    BY DEF Tick
  <2>3. Calm(c)' /\ Keeps(c)' /\ Shrinks(c)
    BY <2>1, <2>2 DEF Calm, Keeps, Shrinks, Active, Guarded, StillClaimed, Owned
  <2>4. Renewed(c)'
    <3>1. SUFFICES ASSUME Executing(c), status[task[c]] # "GONE"
                   PROVE  lockedAge'[task[c]] <= missed'[c] * HeartbeatEvery + beat'[c]
      BY <2>2 DEF Renewed, Executing
    <3>2. /\ task[c] \in Jobs /\ lockedAge[task[c]] \in Nat /\ beat[c] \in Nat
          /\ missed[c] \in Nat
      BY <3>1 DEF Executing, BudgetInv, TypeOK, HasTask
    <3>3. lockedAge[task[c]] <= missed[c] * HeartbeatEvery + beat[c]
      BY <2>1, <3>1 DEF Renewed
    <3>4. beat'[c] = beat[c] + 1 /\ missed'[c] = missed[c]
      BY <2>2, <3>1 DEF Executing, Guarded
    <3>5. lockedAge'[task[c]] <= lockedAge[task[c]] + 1
      BY <2>2, <3>2
    <3>6. lockedAge'[task[c]] \in Nat /\ missed[c] * HeartbeatEvery \in Nat
      BY <2>2, <3>2
    <3> QED BY <3>2, <3>3, <3>4, <3>5, <3>6
  <2> QED BY <2>3, <2>4 DEF Good
<1> QED BY <1>1, ApartShrinks DEF LeaseInv

\* Every step keeps the leases: the named lemmas, and the steps that touch none.
LEMMA LeaseStep == BudgetInv /\ LeaseInv /\ [Next]_vars => LeaseInv'
<1> SUFFICES ASSUME BudgetInv, LeaseInv, [Next]_vars PROVE LeaseInv'
  OBVIOUS
<1>a. ASSUME \A d \in Consumers : Untouched(d) /\ RowKept(d) PROVE LeaseInv'
  <2>1. \A d \in Consumers : Good(d)' /\ Shrinks(d)
    BY <1>a, Frame
  <2> QED BY <2>1, ApartShrinks DEF LeaseInv
<1>1. ASSUME NEW c \in Consumers, ConsumerStep(c) PROVE LeaseInv'
  BY <1>1, LeaseConsumerStep
<1>2. ASSUME NEW c \in Consumers, GuardStep(c) PROVE LeaseInv'
  <2>1. CASE Heartbeat(c)
    BY <2>1, LeaseGuardStep
  <2>2. CASE FailClosed(c)
    <3>1. BootOf[c] \in Boots
      BY PoolAssumption DEF PoolAssumption
    <3> QED BY <2>2, <3>1, KillKeepsLeases DEF FailClosed
  <2> QED BY <1>2, <2>1, <2>2 DEF GuardStep
<1>3. ASSUME NEW c \in Consumers, FaultStep(c) PROVE LeaseInv'
  BY <1>3, LeaseFaultStep
<1>4. ASSUME NEW b \in Boots, StartBoot(b) PROVE LeaseInv'
  <2>1. ASSUME NEW d \in Consumers PROVE Good(d)' /\ Shrinks(d)
    <3>1. CASE BootOf[d] = b
      <4>1. phase[d] = "off" /\ phase'[d] = "polling" /\ UNCHANGED <<task, lease>>
        BY <1>4, <3>1 DEF StartBoot, BudgetInv, Unstarted
      <4>2. Calm(d)
        BY DEF LeaseInv, Good
      <4>3. Calm(d)' /\ held'[d] = held[d]
        BY <4>1, <4>2 DEF Calm, Guarded, lease
      <4> QED BY <4>1, <4>3, Rests
    <3>2. CASE BootOf[d] # b
      <4>1. Untouched(d)
        BY <1>4, <3>2 DEF StartBoot, Untouched, lease, BudgetInv, TypeOK
      <4>2. RowKept(d)
        BY <1>4 DEF StartBoot, RowKept, row
      <4> QED BY <4>1, <4>2, Frame
    <3> QED BY <3>1, <3>2
  <2> QED BY <2>1, ApartShrinks DEF LeaseInv
<1>5. ASSUME NEW b \in Boots, RequestStop(b) PROVE LeaseInv'
  BY <1>5, <1>a DEF RequestStop, Untouched, RowKept, row, lease
<1>6. ASSUME NEW b \in Boots, Crash(b) PROVE LeaseInv'
  BY <1>6, KillKeepsLeases DEF Crash
<1>7. ASSUME NEW j \in Jobs, Insert(j) PROVE LeaseInv'
  <2>1. \A d \in Consumers : Untouched(d)
    BY <1>7 DEF Insert, Untouched, lease
  <2>2. ASSUME NEW d \in Consumers, Active(d) PROVE task[d] # j
    BY <1>7, <2>2 DEF Insert, LeaseInv, Good, Keeps, StillClaimed, Owned
  <2>3. \A d \in Consumers : RowKept(d)
    BY <1>7, <2>2 DEF Insert, RowKept, BudgetInv, TypeOK, HasTask, Active
  <2> QED BY <1>a, <2>1, <2>3
<1>8. ASSUME NEW j \in Jobs, BackoffElapses(j) PROVE LeaseInv'
  BY <1>8, <1>a DEF BackoffElapses, Untouched, RowKept, lease
<1>9. CASE Tick
  BY <1>9, LeaseTick
<1>10. CASE UNCHANGED vars
  BY <1>10, <1>a DEF vars, Untouched, RowKept, row, lease
<1> QED
  BY <1>1, <1>2, <1>3, <1>4, <1>5, <1>6, <1>7, <1>8, <1>9, <1>10 DEF Next

\* LeaseInv holds in every reachable state, whatever crashes, faults and losses occur.
THEOREM LeaseInvariance == Spec => []LeaseInv
BY BudgetInvariance, LeaseInit, LeaseStep, PTL DEF Spec

-----------------------------------------------------------------------------
\* One handler per job: job lock, row check, heartbeat and stale timeout keep every
\* second consumer out of dispatch_job, even when a lease session dies.
THEOREM OneExecutorPerJob == Spec => []OneExecutor
<1>1. LeaseInv => OneExecutor
  BY DEF LeaseInv, Apart, Active, OneExecutor, Executing
<1> QED BY <1>1, LeaseInvariance, PTL

\* A running handler keeps its claim until its outcome is written, unless a
\* workspace deletion removes the row.
THEOREM ExecutorKeepsClaim == Spec => []ExecutorOwnsRow
<1>1. LeaseInv => ExecutorOwnsRow
  BY DEF LeaseInv, Good, Keeps, Active, ExecutorOwnsRow, Executing
<1> QED BY <1>1, LeaseInvariance, PTL

-----------------------------------------------------------------------------
(* The next two rest on sessions that stay open: MaxLosses = 0.            *)

NothingLost == MaxLosses = 0 => \A c \in Consumers : lost[c] = FALSE

\* Only LoseSession sets lost, and the bound MaxLosses = 0 disables it.
LEMMA NothingLostStep == TypeOK /\ NothingLost /\ [Next]_vars => NothingLost'
<1> SUFFICES ASSUME TypeOK, NothingLost, [Next]_vars, MaxLosses = 0,
                    NEW c \in Consumers
             PROVE  lost'[c] = FALSE
  BY DEF NothingLost
<1>1. lost[c] = FALSE /\ lost \in [Consumers -> BOOLEAN]
  BY DEF NothingLost, TypeOK
<1>2. \A d \in Consumers : ~LoseSession(d)
  BY DEF LoseSession, TypeOK
<1>3. \/ lost' = lost
      \/ \E d \in Consumers : lost' = [lost EXCEPT ![d] = FALSE]
      \/ \E b \in Boots : lost' = [d \in Consumers |-> IF d \in {e \in Consumers : BootOf[e] = b}
                                                      THEN FALSE ELSE lost[d]]
  <2>1. ASSUME NEW d \in Consumers, ConsumerStep(d) PROVE lost' = lost \/ lost' = [lost EXCEPT ![d] = FALSE]
    BY <2>1 DEF ConsumerStep, Claim, DeferShutdown, OpenLease, TakeLock, ScopeBusy, DeferBusy,
       ClaimLost, StartHandler, Succeed, Fail, Continue, DeleteWorkspace, CloseLease, LeaveLoop,
       Unlock, lease
  <2>2. ASSUME NEW d \in Consumers, Heartbeat(d) PROVE lost' = lost
    BY <2>2 DEF Heartbeat
  <2>3. ASSUME NEW b \in Boots, Kill(b)
        PROVE  lost' = [d \in Consumers |-> IF d \in {e \in Consumers : BootOf[e] = b}
                                            THEN FALSE ELSE lost[d]]
    BY <2>3 DEF Kill
  <2>4. ASSUME NEW d \in Consumers, FaultStep(d) PROVE lost' = lost \/ lost' = [lost EXCEPT ![d] = FALSE]
    BY <1>2, <2>4 DEF FaultStep, LeaseFault, OutcomeFault, Unlock, lease
  <2>5. ASSUME NEW b \in Boots, StartBoot(b) \/ RequestStop(b) PROVE lost' = lost
    BY <2>5 DEF StartBoot, RequestStop, lease
  <2>6. ASSUME NEW j \in Jobs, Insert(j) \/ BackoffElapses(j) PROVE lost' = lost
    BY <2>6 DEF Insert, BackoffElapses, lease
  <2>7. Tick \/ UNCHANGED vars => lost' = lost
    BY DEF Tick, vars, lease
  <2>8. \A d \in Consumers : BootOf[d] \in Boots
    BY PoolAssumption DEF PoolAssumption
  <2> QED BY <2>1, <2>2, <2>3, <2>4, <2>5, <2>6, <2>7, <2>8 DEF Next, GuardStep, FailClosed, Crash
<1> QED BY <1>1, <1>3

\* Two open sessions with all the locks _acquire requires name no common scope.
LEMMA LocksSeparate ==
    ASSUME MaxLosses = 0, NothingLost, BudgetInv, LeaseInv
    PROVE  ScopeExclusion
<1> SUFFICES ASSUME NEW c \in Consumers, NEW d \in Consumers, c # d,
                    Executing(c), Executing(d)
             PROVE  ~Conflict(task[c], task[d])
  BY DEF ScopeExclusion
<1>1. held[c] = Required(task[c]) /\ held[d] = Required(task[d])
  BY DEF LeaseInv, Good, Calm, Guarded, Executing, NothingLost
<1>2. Apart(c, d)
  BY DEF LeaseInv
<1> QED BY <1>1, <1>2 DEF Apart, Required, Conflict

\* "serialize conflicting repository work": while no lease session is lost, no two
\* handlers run on one repository, nor beside a workspace-wide one of its workspace.
THEOREM ScopesExclude ==
    ASSUME MaxLosses = 0
    PROVE  Spec => []ScopeExclusion
<1>1. Init => NothingLost
  BY DEF Init, NothingLost
<1>2. NothingLost /\ BudgetInv /\ LeaseInv => ScopeExclusion
  BY LocksSeparate
<1> QED
  BY <1>1, <1>2, NothingLostStep, TypeCorrect, BudgetInvariance, LeaseInvariance, PTL DEF Spec

\* DELETE_WORKSPACE holds its workspace exclusively: with every session open it never
\* removes the row of a handler that is running.
THEOREM DeletionSpares ==
    ASSUME MaxLosses = 0
    PROVE  Spec => DeletionSparesHandlers
<1> DEFINE Spared == \A c \in Consumers :
                       Executing(c) /\ status[task[c]] # "GONE" => status'[task[c]] # "GONE"
<1>1. Init => NothingLost
  BY DEF Init, NothingLost
<1>2. NothingLost /\ BudgetInv /\ LeaseInv /\ [Next]_vars => Spared
  <2> SUFFICES ASSUME NothingLost, BudgetInv, LeaseInv, [Next]_vars,
                      NEW c \in Consumers, Executing(c), status[task[c]] # "GONE"
               PROVE  status'[task[c]] # "GONE"
    OBVIOUS
  <2> DEFINE j == task[c]
  <2>1. j \in Jobs /\ status \in [Jobs -> Statuses]
    BY DEF BudgetInv, TypeOK, HasTask, Executing
  <2>2. ASSUME NEW d \in Consumers, DeleteWorkspace(d) PROVE status'[j] # "GONE"
    <3> DEFINE removed == Removable(Workspace[task[d]])
    <3>1. j \notin removed
      <4>1. CASE d = c
        BY <2>2, <4>1 DEF DeleteWorkspace, Removable
      <4>2. CASE d # c
        <5>1. ~Conflict(task[d], j)
          BY <2>2, <4>2, LocksSeparate DEF ScopeExclusion, DeleteWorkspace, Executing
        <5>2. task[d] \in Deletions
          BY <2>2 DEF DeleteWorkspace
        <5>3. Repository[task[d]] = None
          BY <5>2, PoolAssumption DEF PoolAssumption
        <5> QED BY <5>1, <5>3 DEF Conflict, Removable
      <4> QED BY <4>1, <4>2
    <3>2. status' = [k \in Jobs |-> IF k \in removed THEN "GONE" ELSE status[k]]
      BY <2>2 DEF DeleteWorkspace
    <3> HIDE DEF removed
    <3> QED BY <2>1, <3>1, <3>2
  <2>3. ASSUME NEW d \in Consumers, NEW s, NEW a, NEW av, NEW p,
               WriteOwned(d, s, a, av, p), s # "GONE"
        PROVE  status'[j] # "GONE"
    BY <2>1, <2>3 DEF WriteOwned, Relinquish, LeaveRow
  <2>4. ASSUME NEW d \in Consumers, Claim(d) PROVE status'[j] # "GONE"
    BY <2>1, <2>4 DEF Claim
  <2>5. ASSUME NEW d \in Consumers, ConsumerStep(d) PROVE status'[j] # "GONE"
    <3>1. CASE Claim(d) \/ DeleteWorkspace(d)
      BY <2>2, <2>4, <3>1
    <3>2. CASE DeferShutdown(d) \/ DeferBusy(d) \/ Continue(d)
      BY <2>3, <3>2 DEF DeferShutdown, DeferBusy, Continue, Requeue
    <3>3. CASE Succeed(d)
      BY <2>3, <3>3 DEF Succeed, MarkSucceeded
    <3>4. CASE Fail(d)
      <4>1. PICK permanent \in BOOLEAN : MarkFailed(d, permanent)
        BY <3>4 DEF Fail
      <4>2. (IF permanent \/ Exhausted(task[d]) THEN "DEAD" ELSE "FAILED") # "GONE"
        OBVIOUS
      <4> QED BY <2>3, <4>1, <4>2 DEF MarkFailed
    <3>5. CASE \/ OpenLease(d) \/ TakeLock(d) \/ ScopeBusy(d) \/ ClaimLost(d)
               \/ StartHandler(d) \/ CloseLease(d) \/ LeaveLoop(d)
      BY <3>5 DEF OpenLease, TakeLock, ScopeBusy, ClaimLost, StartHandler, CloseLease,
                  LeaveLoop, row
    <3> QED BY <2>5, <3>1, <3>2, <3>3, <3>4, <3>5 DEF ConsumerStep
  <2>6. ASSUME NEW d \in Consumers, GuardStep(d) \/ FaultStep(d) PROVE status'[j] # "GONE"
    BY <2>6 DEF GuardStep, Heartbeat, FailClosed, FaultStep, LeaseFault, OutcomeFault,
                LoseSession, row
  <2>7. ASSUME NEW b \in Boots, StartBoot(b) \/ RequestStop(b) \/ Crash(b)
        PROVE  status'[j] # "GONE"
    BY <2>7 DEF StartBoot, RequestStop, Crash, row
  <2>8. ASSUME NEW k \in Jobs, Insert(k) \/ BackoffElapses(k) PROVE status'[j] # "GONE"
    BY <2>1, <2>8 DEF Insert, BackoffElapses
  <2>9. Tick \/ UNCHANGED vars => status'[j] # "GONE"
    BY DEF Tick, vars, row
  <2> QED BY <2>5, <2>6, <2>7, <2>8, <2>9 DEF Next
<1>3. Spared <=> \A c \in Consumers :
                   Executing(c) /\ status[task[c]] # "GONE" => status'[task[c]] # "GONE"
  OBVIOUS
<1> HIDE DEF Spared
<1>4. NothingLost /\ BudgetInv /\ LeaseInv /\ [Next]_vars => [Spared]_vars
  BY <1>2
<1>5. Spec => [][Spared]_vars
  BY <1>1, <1>4, NothingLostStep, TypeCorrect, BudgetInvariance, LeaseInvariance, PTL DEF Spec
<1> QED BY <1>5, PTL DEF DeletionSparesHandlers, Spared
=============================================================================
