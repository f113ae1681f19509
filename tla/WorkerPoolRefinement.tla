------------------------- MODULE WorkerPoolRefinement -------------------------
(***************************************************************************)
(* Proof that WorkerPool implements JobQueue while no workspace is         *)
(* deleted.  What a row has used up is what the history variable spent     *)
(* counts, and at most one handler runs for it; so every action moves each *)
(* row by one step of the queue, or leaves it where it is.                 *)
(***************************************************************************)
EXTENDS WorkerPoolProofs

NoneGone == \A j \in Jobs : status[j] # "GONE"

PoolInv == BudgetInv /\ LeaseInv /\ NoneGone

Runners(j) == {c \in Consumers : Executing(c) /\ task[c] = j}

-----------------------------------------------------------------------------
\* The state of a row as the queue sees it, one status at a time.
LEMMA QueueStates ==
    ASSUME NEW j \in Jobs
    PROVE  /\ status[j] = "ABSENT" => QueueState(j) = "absent"
           /\ status[j] \in Waiting => QueueState(j) = "waiting"
           /\ status[j] = "RUNNING" => QueueState(j) = "claimed"
           /\ status[j] = "SUCCEEDED" => QueueState(j) = "succeeded"
           /\ status[j] = "DEAD" => QueueState(j) = "dead"
           /\ QueueState(j) \in {"absent", "waiting", "claimed", "succeeded", "dead"}
BY DEF QueueState, Waiting

\* The same after a step.
LEMMA QueueStatesNext ==
    ASSUME NEW j \in Jobs
    PROVE  /\ status'[j] = "ABSENT" => QueueState(j)' = "absent"
           /\ status'[j] \in Waiting => QueueState(j)' = "waiting"
           /\ status'[j] = "RUNNING" => QueueState(j)' = "claimed"
           /\ status'[j] = "SUCCEEDED" => QueueState(j)' = "succeeded"
           /\ status'[j] = "DEAD" => QueueState(j)' = "dead"
           /\ QueueState(j)' \in {"absent", "waiting", "claimed", "succeeded", "dead"}
BY DEF QueueState, Waiting

Used(j) == IF status[j] \in {"RUNNING", "SUCCEEDED"} THEN attempts[j] - 1 ELSE attempts[j]

\* attempts, less one while a claim is open, is what was used up.
LEMMA UsedIsSpent == ASSUME PoolInv, NEW j \in Jobs PROVE Used(j) = spent[j]
BY DEF PoolInv, NoneGone, BudgetInv, TypeOK, SoundRows, Sound, Used

\* The same after a step.
LEMMA UsedIsSpentNext == ASSUME PoolInv', NEW j \in Jobs PROVE Used(j)' = spent'[j]
BY DEF PoolInv, NoneGone, BudgetInv, TypeOK, SoundRows, Sound, Used

\* A row is run by whoever has claimed it, and by nobody else.
LEMMA RunnerOwns ==
    ASSUME PoolInv, NEW j \in Jobs, NEW c \in Runners(j)
    PROVE  /\ c \in Consumers /\ Active(c) /\ task[c] = j
           /\ status[j] = "RUNNING" /\ lockedBy[j] = c
           /\ Runners(j) = {c}
<1>1. c \in Consumers /\ Active(c) /\ task[c] = j
  BY DEF Runners, Executing, Active
<1>2. \A d \in Runners(j) : status[j] = "RUNNING" /\ lockedBy[j] = d
  BY DEF PoolInv, NoneGone, LeaseInv, Good, Keeps, Active, StillClaimed, Owned, Runners, Executing
<1> QED BY <1>1, <1>2

-----------------------------------------------------------------------------
(* The steps of one row. *)

\* What JobQueue calls state, used and running.
LEMMA Views ==
    ASSUME PoolInv, PoolInv', NEW j \in Jobs
    PROVE  /\ [k \in Jobs |-> QueueState(k)][j] = QueueState(j)
           /\ [k \in Jobs |-> QueueState(k)]'[j] = QueueState(j)'
           /\ [k \in Jobs |-> IF status[k] \in {"RUNNING", "SUCCEEDED"}
                              THEN attempts[k] - 1 ELSE attempts[k]][j] = spent[j]
           /\ [k \in Jobs |-> IF status[k] \in {"RUNNING", "SUCCEEDED"}
                              THEN attempts[k] - 1 ELSE attempts[k]]'[j] = spent'[j]
           /\ [k \in Jobs |-> {c \in Consumers : Executing(c) /\ task[c] = k}][j] = Runners(j)
           /\ [k \in Jobs |-> {c \in Consumers : Executing(c) /\ task[c] = k}]'[j] = Runners(j)'
BY UsedIsSpent, UsedIsSpentNext DEF Used, Runners

\* A row nothing happens to.
LEMMA Stays ==
    ASSUME PoolInv, PoolInv', NEW j \in Jobs,
           status'[j] = status[j], spent'[j] = spent[j], Runners(j)' = Runners(j)
    PROVE  Queue!JobStep(j)
<1>1. QueueState(j)' = QueueState(j)
  BY DEF QueueState
<1> QED BY <1>1, Views DEF Queue!JobStep, Queue!Stay

\* A row on which no handler runs: inserted, claimed, deferred or recovered.
LEMMA Quiet ==
    ASSUME PoolInv, PoolInv', NEW j \in Jobs, Runners(j) = {}, Runners(j)' = {},
           \/ /\ spent'[j] = spent[j]
              /\ \/ status[j] = "ABSENT" /\ status'[j] = "PENDING"
                 \/ status[j] \in Waiting /\ status'[j] = "RUNNING"
                 \/ status[j] = "RUNNING" /\ status'[j] = "PENDING"
           \/ /\ spent'[j] = spent[j] + 1
              /\ status[j] = "RUNNING"
              /\ status'[j] \in {"FAILED", "RUNNING", "DEAD"}
              /\ status'[j] = "DEAD" <=> spent'[j] = MaxAttempts
    PROVE  Queue!JobStep(j)
<1>1. spent'[j] \in 0 .. MaxAttempts /\ MaxAttempts \in Nat
  BY PoolAssumption DEF PoolInv, BudgetInv, TypeOK, PoolAssumption
<1>2. CASE status[j] = "ABSENT" /\ status'[j] = "PENDING" /\ spent'[j] = spent[j]
  <2>1. QueueState(j) = "absent" /\ QueueState(j)' = "waiting"
    BY <1>2, QueueStates, QueueStatesNext DEF Waiting
  <2> QED BY <1>2, <2>1, Views DEF Queue!JobStep, Queue!Submit, Queue!Moves, Queue!Idle
<1>3. CASE status[j] \in Waiting /\ status'[j] = "RUNNING" /\ spent'[j] = spent[j]
  <2>1. QueueState(j) = "waiting" /\ QueueState(j)' = "claimed"
    BY <1>3, QueueStates, QueueStatesNext
  <2> QED BY <1>3, <2>1, Views DEF Queue!JobStep, Queue!Take, Queue!Moves, Queue!Idle
<1>4. CASE status[j] = "RUNNING" /\ status'[j] = "PENDING" /\ spent'[j] = spent[j]
  <2>1. QueueState(j) = "claimed" /\ QueueState(j)' = "waiting"
    BY <1>4, QueueStates, QueueStatesNext DEF Waiting
  <2> QED BY <1>4, <2>1, Views DEF Queue!JobStep, Queue!HandBack, Queue!Moves, Queue!Idle
<1>5. CASE /\ spent'[j] = spent[j] + 1 /\ status[j] = "RUNNING"
           /\ status'[j] \in {"FAILED", "RUNNING", "DEAD"}
           /\ status'[j] = "DEAD" <=> spent'[j] = MaxAttempts
  <2>1. /\ QueueState(j) = "claimed"
        /\ QueueState(j)' \in {"waiting", "claimed", "dead"}
        /\ QueueState(j)' = "dead" <=> status'[j] = "DEAD"
    BY <1>5, QueueStates, QueueStatesNext DEF Waiting
  <2> QED BY <1>1, <1>5, <2>1, Views DEF Queue!JobStep, Queue!Abandon, Queue!Moves, Queue!Idle
<1> QED BY <1>2, <1>3, <1>4, <1>5

\* The handler of a row begins.
LEMMA Begins ==
    ASSUME PoolInv, PoolInv', NEW j \in Jobs, NEW c \in Consumers,
           Runners(j) = {}, Runners(j)' = {c},
           status[j] = "RUNNING", status'[j] = "RUNNING", spent'[j] = spent[j]
    PROVE  Queue!JobStep(j)
<1>1. QueueState(j) = "claimed" /\ QueueState(j)' = "claimed"
  BY QueueStates, QueueStatesNext
<1> QED BY <1>1, Views DEF Queue!JobStep, Queue!Run, Queue!Moves

\* The handler of a row ends: with an outcome, with a continuation, or with nothing.
LEMMA Ends ==
    ASSUME PoolInv, PoolInv', NEW j \in Jobs, Runners(j) # {}, Runners(j)' = {},
           status[j] = "RUNNING",
           \/ /\ spent'[j] = spent[j]
              /\ status'[j] \in {"PENDING", "SUCCEEDED", "RUNNING"}
           \/ spent'[j] = 0 /\ status'[j] = "PENDING"
           \/ /\ spent'[j] = spent[j] + 1
              /\ status'[j] = "DEAD" \/ (status'[j] = "FAILED" /\ spent'[j] < MaxAttempts)
    PROVE  Queue!JobStep(j)
<1>1. QueueState(j) = "claimed"
  BY QueueStates
<1>2. CASE status'[j] = "PENDING" /\ spent'[j] \in {spent[j], 0}
  <2>1. QueueState(j)' = "waiting"
    BY <1>2, QueueStatesNext DEF Waiting
  <2> QED BY <1>1, <1>2, <2>1, Views DEF Queue!JobStep, Queue!Proceed, Queue!Moves, Queue!Ends
<1>3. CASE status'[j] = "SUCCEEDED" /\ spent'[j] = spent[j]
  <2>1. QueueState(j)' = "succeeded"
    BY <1>3, QueueStatesNext
  <2> QED BY <1>1, <1>3, <2>1, Views DEF Queue!JobStep, Queue!Complete, Queue!Moves, Queue!Ends
<1>4. CASE status'[j] = "RUNNING" /\ spent'[j] = spent[j]
  <2>1. QueueState(j)' = "claimed"
    BY <1>4, QueueStatesNext
  <2> QED BY <1>1, <1>4, <2>1, Views DEF Queue!JobStep, Queue!Halt, Queue!Moves, Queue!Ends
<1>5. CASE spent'[j] = spent[j] + 1 /\ status'[j] = "DEAD"
  <2>1. QueueState(j)' = "dead"
    BY <1>5, QueueStatesNext
  <2> QED BY <1>1, <1>5, <2>1, Views DEF Queue!JobStep, Queue!FailRun, Queue!Moves, Queue!Ends
<1>6. CASE spent'[j] = spent[j] + 1 /\ status'[j] = "FAILED" /\ spent'[j] < MaxAttempts
  <2>1. QueueState(j)' = "waiting"
    BY <1>6, QueueStatesNext DEF Waiting
  <2> QED BY <1>1, <1>6, <2>1, Views DEF Queue!JobStep, Queue!FailRun, Queue!Moves, Queue!Ends
<1> QED BY <1>2, <1>3, <1>4, <1>5, <1>6

-----------------------------------------------------------------------------
(* The actions of the pool. *)

\* A step that changes neither the rows nor who executes what is a stutter.
LEMMA Stutters ==
    ASSUME PoolInv, PoolInv', UNCHANGED <<status, spent>>,
           \A c \in Consumers :
              Executing(c)' = Executing(c) /\ (Executing(c) => task'[c] = task[c]),
           NEW j \in Jobs
    PROVE  Queue!JobStep(j)
<1>1. Runners(j)' = Runners(j)
  BY DEF Runners
<1> QED BY <1>1, Stays

\* A claim: recovered rows are abandoned, the first ready row is taken.
LEMMA ClaimRefines ==
    ASSUME PoolInv, PoolInv', NEW c \in Consumers, Claim(c), NEW j \in Jobs
    PROVE  Queue!JobStep(j)
<1> DEFINE recovered == {k \in Jobs : Stale(k)}
           dead == {k \in recovered : Exhausted(k)}
           taken == First({k \in Jobs : Ready(k)})
<1>1. /\ status' = [k \in Jobs |->
                      IF k \in taken THEN "RUNNING"
                      ELSE IF k \in dead THEN "DEAD"
                      ELSE IF k \in recovered THEN "FAILED" ELSE status[k]]
      /\ spent' = [k \in Jobs |-> IF k \in recovered THEN spent[k] + 1 ELSE spent[k]]
      /\ phase[c] = "polling"
      /\ \A d \in Consumers : phase'[d] # phase[d] \/ task'[d] # task[d] =>
            d = c /\ phase'[d] = "claimed"
  BY DEF Claim, PoolInv, BudgetInv, TypeOK
<1>2. Runners(j)' = Runners(j)
  BY <1>1 DEF Runners, Executing
<1>3. j \in recovered => status[j] = "RUNNING" /\ Runners(j) = {}
  <2> SUFFICES ASSUME Stale(j) PROVE status[j] = "RUNNING" /\ Runners(j) = {}
    OBVIOUS
  <2>1. status[j] = "RUNNING"
    BY DEF Stale
  <2>2. ASSUME NEW d \in Runners(j) PROVE FALSE
    BY <2>2, RunnerOwns, ActiveNotStale DEF PoolInv
  <2> QED BY <2>1, <2>2
<1>4. j \in taken => ~Exhausted(j) /\ (j \in recovered \/ status[j] \in Waiting)
  BY DEF First, Ready
<1>5. status[j] \in Waiting => Runners(j) = {}
  BY RunnerOwns DEF Waiting
<1>6. /\ attempts[j] \in 0 .. MaxAttempts /\ spent[j] \in 0 .. MaxAttempts /\ MaxAttempts \in Nat
      /\ status[j] = "RUNNING" => attempts[j] = spent[j] + 1
  BY PoolAssumption DEF PoolInv, BudgetInv, TypeOK, SoundRows, Sound, PoolAssumption
<1>7. j \in dead <=> j \in recovered /\ attempts[j] >= MaxAttempts
  BY DEF Exhausted
<1>8. j \in taken => attempts[j] < MaxAttempts
  BY <1>4, <1>6 DEF Exhausted
<1> HIDE DEF recovered, dead, taken
<1>9. CASE j \in recovered
  <2>1. /\ spent'[j] = spent[j] + 1 /\ status[j] = "RUNNING"
        /\ status'[j] \in {"FAILED", "RUNNING", "DEAD"}
        /\ status'[j] = "DEAD" <=> spent'[j] = MaxAttempts
    BY <1>1, <1>3, <1>6, <1>7, <1>8, <1>9
  <2> QED BY <1>2, <1>3, <1>9, <2>1, Quiet
<1>10. CASE j \notin recovered /\ j \in taken
  <2>1. status[j] \in Waiting /\ status'[j] = "RUNNING" /\ spent'[j] = spent[j]
    BY <1>1, <1>4, <1>10
  <2> QED BY <1>2, <1>5, <2>1, Quiet
<1>11. CASE j \notin recovered /\ j \notin taken
  <2>1. status'[j] = status[j] /\ spent'[j] = spent[j]
    BY <1>1, <1>7, <1>11
  <2> QED BY <1>2, <2>1, Stays
<1> QED BY <1>9, <1>10, <1>11

\* A deferral hands the row back; if it is somebody else's by now, nothing happens.
LEMMA DeferRefines ==
    ASSUME PoolInv, PoolInv', NEW c \in Consumers, DeferShutdown(c) \/ DeferBusy(c), NEW j \in Jobs
    PROVE  Queue!JobStep(j)
<1>1. /\ ~Executing(c) /\ ~Executing(c)'
      /\ \A d \in Consumers \ {c} : phase'[d] = phase[d] /\ task'[d] = task[d]
  BY DEF DeferShutdown, DeferBusy, Forget, Resume, Executing, PoolInv, BudgetInv, TypeOK
<1>2. Runners(j)' = Runners(j)
  BY <1>1 DEF Runners, Executing
<1>3. PICK a, av : WriteOwned(c, "PENDING", a, av, spent[task[c]])
  <2>1. \E av : Requeue(c, av, FALSE)
    BY DEF DeferShutdown, DeferBusy
  <2> QED BY <2>1 DEF Requeue
<1>4. CASE Owned(c, task[c]) /\ j = task[c]
  <2>1. status[j] = "RUNNING" /\ status'[j] = "PENDING" /\ spent'[j] = spent[j]
    BY <1>3, <1>4 DEF WriteOwned, Relinquish, Owned, PoolInv, BudgetInv, TypeOK
  <2>2. Runners(j) = {}
    BY <1>1, <1>4, RunnerOwns DEF Owned, Runners
  <2> QED BY <1>2, <2>1, <2>2, Quiet
<1>5. CASE ~(Owned(c, task[c]) /\ j = task[c])
  <2>1. status'[j] = status[j] /\ spent'[j] = spent[j]
    BY <1>3, <1>5 DEF WriteOwned, Relinquish, LeaveRow, PoolInv, BudgetInv, TypeOK
  <2> QED BY <1>2, <2>1, Stays
<1> QED BY <1>4, <1>5

\* The handler starts behind the job lock: no other one runs for the row.
LEMMA StartRefines ==
    ASSUME PoolInv, PoolInv', NEW c \in Consumers, StartHandler(c), NEW j \in Jobs
    PROVE  Queue!JobStep(j)
<1>1. /\ phase[c] = "leasing" /\ phase'[c] = "executing"
      /\ UNCHANGED <<status, spent, task>>
      /\ \A d \in Consumers \ {c} : phase'[d] = phase[d]
  BY DEF StartHandler, Resume, PoolInv, BudgetInv, TypeOK
<1>2. Active(c)
  BY DEF StartHandler, Required, Active
<1>3. CASE j = task[c]
  <2>1. status[j] = "RUNNING" /\ lockedBy[j] = c
    BY <1>2, <1>3 DEF PoolInv, NoneGone, LeaseInv, Good, Keeps, StillClaimed, Owned
  <2>2. Runners(j) = {}
    BY <1>1, <2>1, RunnerOwns DEF Runners, Executing
  <2>3. Runners(j)' = {c}
    BY <1>1, <1>3, <2>2 DEF Runners, Executing
  <2> QED BY <1>1, <2>1, <2>2, <2>3, Begins
<1>4. CASE j # task[c]
  <2>1. Runners(j)' = Runners(j)
    BY <1>1, <1>4 DEF Runners, Executing
  <2> QED BY <1>1, <2>1, Stays
<1> QED BY <1>3, <1>4

\* The handler ends: its outcome goes to the row it still owns.
LEMMA OutcomeRefines ==
    ASSUME PoolInv, PoolInv', NEW c \in Consumers,
           Succeed(c) \/ Fail(c) \/ Continue(c) \/ OutcomeFault(c), NEW j \in Jobs
    PROVE  Queue!JobStep(j)
<1>1. /\ phase[c] = "executing" /\ phase'[c] = "returning"
      /\ task' = task
      /\ \A d \in Consumers \ {c} : phase'[d] = phase[d]
  BY DEF Succeed, Fail, Continue, OutcomeFault, Finish, Resume, PoolInv, BudgetInv, TypeOK
<1>2. /\ task[c] \in Jobs /\ c \in Runners(task[c])
  BY <1>1 DEF Runners, Executing, PoolInv, BudgetInv, TypeOK, HasTask
<1>3. Owned(c, task[c]) /\ Runners(task[c]) = {c}
  BY <1>2, RunnerOwns DEF Owned
<1>4. \/ UNCHANGED <<status, spent>>
      \/ \E s, a, av, p : /\ WriteOwned(c, s, a, av, p)
                          /\ \/ s = "PENDING" /\ p \in {spent[task[c]], 0}
                             \/ s = "SUCCEEDED" /\ p = spent[task[c]]
                             \/ s = "DEAD" /\ p = spent[task[c]] + 1
                             \/ /\ s = "FAILED" /\ ~Exhausted(task[c])
                                /\ p = spent[task[c]] + 1
  <2>1. CASE Succeed(c)
    BY <2>1 DEF Succeed, MarkSucceeded
  <2>2. CASE Fail(c)
    BY <2>2 DEF Fail, MarkFailed
  <2>3. CASE Continue(c)
    BY <2>3 DEF Continue, Requeue
  <2>4. CASE OutcomeFault(c)
    BY <2>4 DEF OutcomeFault, row
  <2> QED BY <2>1, <2>2, <2>3, <2>4
<1>5. CASE j # task[c]
  <2>1. Runners(j)' = Runners(j)
    BY <1>1, <1>5 DEF Runners, Executing
  <2>2. status'[j] = status[j] /\ spent'[j] = spent[j]
    <3>1. status \in [Jobs -> Statuses] /\ spent \in [Jobs -> 0 .. MaxAttempts]
      BY DEF PoolInv, BudgetInv, TypeOK
    <3>2. CASE UNCHANGED <<status, spent>>
      BY <3>2
    <3>3. ASSUME NEW s, NEW a, NEW av, NEW p, WriteOwned(c, s, a, av, p)
          PROVE  status'[j] = status[j] /\ spent'[j] = spent[j]
      BY <1>3, <1>5, <3>1, <3>3 DEF WriteOwned, Relinquish
    <3> QED BY <1>4, <3>2, <3>3
  <2> QED BY <2>1, <2>2, Stays
<1>6. CASE j = task[c]
  <2>1. Runners(j) # {} /\ Runners(j)' = {}
    BY <1>1, <1>3, <1>6 DEF Runners, Executing
  <2>2. status[j] = "RUNNING"
    BY <1>3, <1>6 DEF Owned
  <2>3. \/ spent'[j] = spent[j] /\ status'[j] \in {"PENDING", "SUCCEEDED", "RUNNING"}
        \/ spent'[j] = 0 /\ status'[j] = "PENDING"
        \/ spent'[j] = spent[j] + 1 /\ status'[j] = "DEAD"
        \/ spent'[j] = spent[j] + 1 /\ status'[j] = "FAILED" /\ ~Exhausted(j)
    <3>1. CASE UNCHANGED <<status, spent>>
      BY <2>2, <3>1
    <3>2. ASSUME NEW s, NEW a, NEW av, NEW p, WriteOwned(c, s, a, av, p)
          PROVE  status'[j] = s /\ spent'[j] = p
      BY <1>3, <1>6, <3>2 DEF WriteOwned, Relinquish, PoolInv, BudgetInv, TypeOK
    <3> QED BY <1>4, <1>6, <3>1, <3>2
  <2>4. ~Exhausted(j) => spent[j] + 1 < MaxAttempts
    <3>1. attempts[j] \in Nat /\ spent[j] \in Nat /\ MaxAttempts \in Nat
      BY PoolAssumption DEF PoolInv, BudgetInv, TypeOK, PoolAssumption
    <3>2. attempts[j] = spent[j] + 1
      BY <2>2 DEF PoolInv, BudgetInv, SoundRows, Sound
    <3> QED BY <3>1, <3>2 DEF Exhausted
  <2> QED BY <2>1, <2>2, <2>3, <2>4, Ends
<1> QED BY <1>5, <1>6

\* A process that dies ends the handlers it runs; their rows keep the claim.
LEMMA KillRefines ==
    ASSUME PoolInv, PoolInv', NEW b \in Boots, Kill(b), UNCHANGED row, NEW j \in Jobs
    PROVE  Queue!JobStep(j)
<1>1. UNCHANGED <<status, spent>>
  BY DEF row
<1>2. \A c \in Consumers : IF BootOf[c] = b THEN ~Executing(c)'
                           ELSE phase'[c] = phase[c] /\ task'[c] = task[c]
  BY DEF Kill, Executing
<1>3. CASE \E c \in Runners(j) : BootOf[c] = b
  <2>1. PICK c \in Runners(j) : BootOf[c] = b
    BY <1>3
  <2>2. Runners(j) = {c} /\ status[j] = "RUNNING"
    BY <2>1, RunnerOwns
  <2>3. Runners(j)' = {}
    BY <1>2, <2>1, <2>2 DEF Runners, Executing
  <2> QED BY <1>1, <2>2, <2>3, Ends
<1>4. CASE \A c \in Runners(j) : BootOf[c] # b
  <2>1. Runners(j)' = Runners(j)
    BY <1>2, <1>4 DEF Runners, Executing
  <2> QED BY <1>1, <2>1, Stays
<1> QED BY <1>3, <1>4

-----------------------------------------------------------------------------
\* Every step of the pool is a step, or a stutter, of each of its rows.
LEMMA RowsRefine ==
    ASSUME Deletions = {}, PoolInv, PoolInv', [Next]_vars, NEW j \in Jobs
    PROVE  Queue!JobStep(j)
<1>a. /\ phase \in [Consumers -> Phases] /\ task \in [Consumers -> Jobs \cup {None}]
      /\ status \in [Jobs -> Statuses] /\ spent \in [Jobs -> 0 .. MaxAttempts]
  BY DEF PoolInv, BudgetInv, TypeOK
<1>1. ASSUME NEW c \in Consumers, ConsumerStep(c) PROVE Queue!JobStep(j)
  <2>1. CASE Claim(c)
    BY <2>1, ClaimRefines
  <2>2. CASE DeferShutdown(c) \/ DeferBusy(c)
    BY <2>2, DeferRefines
  <2>3. CASE StartHandler(c)
    BY <2>3, StartRefines
  <2>4. CASE Succeed(c) \/ Fail(c) \/ Continue(c)
    BY <2>4, OutcomeRefines
  <2>5. CASE OpenLease(c) \/ TakeLock(c) \/ ScopeBusy(c) \/ ClaimLost(c) \/ CloseLease(c) \/ LeaveLoop(c)
    <3>1. UNCHANGED <<status, spent>>
      BY <2>5 DEF OpenLease, TakeLock, ScopeBusy, ClaimLost, CloseLease, LeaveLoop, row
    <3>2. \A d \in Consumers :
             Executing(d)' = Executing(d) /\ (Executing(d) => task'[d] = task[d])
      BY <2>5, <1>a
      DEF OpenLease, TakeLock, ScopeBusy, ClaimLost, CloseLease, LeaveLoop, Forget, Resume, Executing
    <3> QED BY <3>1, <3>2, Stutters
  <2>6. ~DeleteWorkspace(c)
    BY DEF DeleteWorkspace
  <2> QED BY <1>1, <2>1, <2>2, <2>3, <2>4, <2>5, <2>6 DEF ConsumerStep
<1>2. ASSUME NEW c \in Consumers, Heartbeat(c) \/ LoseSession(c) PROVE Queue!JobStep(j)
  <2>1. UNCHANGED <<status, spent, phase, task>>
    BY <1>2 DEF Heartbeat, LoseSession, row
  <2> QED BY <2>1, Stutters DEF Executing
<1>3. ASSUME NEW c \in Consumers, FailClosed(c) PROVE Queue!JobStep(j)
  <2>1. BootOf[c] \in Boots
    BY PoolAssumption DEF PoolAssumption
  <2> QED BY <1>3, <2>1, KillRefines DEF FailClosed
<1>4. ASSUME NEW c \in Consumers, LeaseFault(c) PROVE Queue!JobStep(j)
  <2>1. /\ UNCHANGED <<status, spent>>
        /\ phase[c] # "executing" /\ phase'[c] # "executing"
        /\ \A d \in Consumers \ {c} : phase'[d] = phase[d] /\ task'[d] = task[d]
    BY <1>4, <1>a DEF LeaseFault, Forget, Resume, row
  <2> QED BY <2>1, Stutters DEF Executing
<1>5. ASSUME NEW c \in Consumers, OutcomeFault(c) PROVE Queue!JobStep(j)
  BY <1>5, OutcomeRefines
<1>6. ASSUME NEW b \in Boots, StartBoot(b) \/ RequestStop(b) PROVE Queue!JobStep(j)
  <2>1. UNCHANGED <<status, spent, task>>
    BY <1>6 DEF StartBoot, RequestStop, row
  <2>2. \A d \in Consumers : Executing(d)' = Executing(d)
    BY <1>6, <1>a DEF StartBoot, RequestStop, Executing, PoolInv, BudgetInv, Unstarted
  <2> QED BY <2>1, <2>2, Stutters
<1>7. ASSUME NEW b \in Boots, Crash(b) PROVE Queue!JobStep(j)
  BY <1>7, KillRefines DEF Crash
<1>8. ASSUME NEW k \in Jobs, Insert(k) PROVE Queue!JobStep(j)
  <2>1. UNCHANGED <<spent, phase, task>>
    BY <1>8 DEF Insert
  <2>2. Runners(j)' = Runners(j)
    BY <2>1 DEF Runners, Executing
  <2>3. CASE j = k
    <3>1. status[j] = "ABSENT" /\ status'[j] = "PENDING"
      BY <1>8, <1>a, <2>3 DEF Insert
    <3>2. Runners(j) = {}
      BY <3>1, RunnerOwns
    <3> QED BY <2>1, <2>2, <3>1, <3>2, Quiet
  <2>4. CASE j # k
    <3>1. status'[j] = status[j]
      BY <1>8, <1>a, <2>4 DEF Insert
    <3> QED BY <2>1, <2>2, <3>1, Stays
  <2> QED BY <2>3, <2>4
<1>9. ASSUME NEW k \in Jobs, BackoffElapses(k) PROVE Queue!JobStep(j)
  BY <1>9, Stutters DEF BackoffElapses, Executing
<1>10. CASE Tick
  BY <1>10, Stutters DEF Tick, Executing
<1>11. CASE UNCHANGED vars
  BY <1>11, Stutters DEF vars, row, Executing
<1> QED
  BY <1>1, <1>2, <1>3, <1>4, <1>5, <1>6, <1>7, <1>8, <1>9, <1>10, <1>11
  DEF Next, GuardStep, FaultStep

\* The rows together make a step of the queue.
LEMMA PoolRefines ==
    ASSUME Deletions = {}, PoolInv, PoolInv', [Next]_vars
    PROVE  Queue!QueueNext
<1>1. \A j \in Jobs : Queue!JobStep(j)
  BY RowsRefine
<1>2. \A j \in Jobs : QueueState(j)' \in {"absent", "waiting", "claimed", "succeeded", "dead"}
  BY QueueStatesNext
<1>3. \A j \in Jobs : Used(j)' \in 0 .. MaxAttempts
  BY UsedIsSpentNext DEF PoolInv, BudgetInv, TypeOK
<1> QED BY <1>1, <1>2, <1>3 DEF Queue!QueueNext, Queue!States, Used

\* Without deletions no row disappears.
LEMMA NoneGoneStep ==
    ASSUME Deletions = {}, BudgetInv, NoneGone, [Next]_vars
    PROVE  NoneGone'
<1>a. status \in [Jobs -> Statuses]
  BY DEF BudgetInv, TypeOK
<1>1. ASSUME NEW c \in Consumers, NEW s, s # "GONE", NEW a, NEW av, NEW p,
             WriteOwned(c, s, a, av, p)
      PROVE  NoneGone'
  BY <1>1, <1>a DEF WriteOwned, Relinquish, LeaveRow, NoneGone
<1>2. ASSUME NEW c \in Consumers, ConsumerStep(c) PROVE NoneGone'
  <2>1. CASE Claim(c)
    BY <2>1 DEF Claim, NoneGone
  <2>2. CASE DeferShutdown(c) \/ DeferBusy(c)
    BY <1>1, <2>2 DEF DeferShutdown, DeferBusy, Requeue
  <2>3. CASE Succeed(c)
    BY <1>1, <2>3 DEF Succeed, MarkSucceeded
  <2>4. CASE Fail(c)
    BY <1>1, <2>4 DEF Fail, MarkFailed
  <2>5. CASE Continue(c)
    BY <1>1, <2>5 DEF Continue, Requeue
  <2>6. CASE OpenLease(c) \/ TakeLock(c) \/ ScopeBusy(c) \/ ClaimLost(c) \/ CloseLease(c)
             \/ LeaveLoop(c) \/ StartHandler(c)
    BY <2>6
    DEF OpenLease, TakeLock, ScopeBusy, ClaimLost, CloseLease, LeaveLoop, StartHandler, row, NoneGone
  <2>7. ~DeleteWorkspace(c)
    BY DEF DeleteWorkspace
  <2> QED BY <1>2, <2>1, <2>2, <2>3, <2>4, <2>5, <2>6, <2>7 DEF ConsumerStep
<1>3. ASSUME NEW c \in Consumers, GuardStep(c) \/ FaultStep(c) PROVE NoneGone'
  BY <1>3
  DEF GuardStep, FaultStep, Heartbeat, FailClosed, LeaseFault, OutcomeFault, LoseSession, row, NoneGone
<1>4. ASSUME NEW b \in Boots, StartBoot(b) \/ RequestStop(b) \/ Crash(b) PROVE NoneGone'
  BY <1>4 DEF StartBoot, RequestStop, Crash, row, NoneGone
<1>5. ASSUME NEW k \in Jobs, Insert(k) \/ BackoffElapses(k) PROVE NoneGone'
  BY <1>5, <1>a DEF Insert, BackoffElapses, NoneGone
<1>6. CASE Tick \/ UNCHANGED vars
  BY <1>6 DEF Tick, vars, row, NoneGone
<1> QED BY <1>2, <1>3, <1>4, <1>5, <1>6 DEF Next

\* The first state of the pool is the queue's.
LEMMA PoolInitRefines == Init => Queue!QueueInit
<1> SUFFICES ASSUME Init PROVE Queue!QueueInit
  OBVIOUS
<1>1. ASSUME NEW j \in Jobs
      PROVE  QueueState(j) = "absent" /\ Used(j) = 0 /\ Runners(j) = {}
  <2>1. status[j] = "ABSENT" /\ attempts[j] = 0
    BY DEF Init
  <2>2. \A c \in Consumers : ~Executing(c)
    BY DEF Init, Executing
  <2> QED BY <2>1, <2>2, QueueStates DEF Used, Runners
<1> QED BY <1>1 DEF Queue!QueueInit, Used, Runners

\* Any number of processes, consumers and jobs, with crashes, faults and lost sessions,
\* give what JobQueue promises (claimer.py, lease.py, retry.py, dispatcher.py).
THEOREM PoolImplementsQueue ==
    ASSUME Deletions = {}
    PROVE  Spec => ImplementsQueue
<1>1. Init => NoneGone
  BY DEF Init, NoneGone
<1>2. BudgetInv /\ NoneGone /\ [Next]_vars => NoneGone'
  BY NoneGoneStep
<1>3. BudgetInv /\ LeaseInv /\ NoneGone /\ (BudgetInv /\ LeaseInv /\ NoneGone)' /\ [Next]_vars
      => Queue!QueueNext
  BY PoolRefines DEF PoolInv
<1> QED
  BY <1>1, <1>2, <1>3, PoolInitRefines, BudgetInvariance, LeaseInvariance, PTL
  DEF Spec, ImplementsQueue, Queue!QueueSpec
=============================================================================
