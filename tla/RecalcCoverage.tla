---------------------------- MODULE RecalcCoverage ----------------------------
(***************************************************************************)
(* Proofs about RecalcQueue: its types, and that no committed change is    *)
(* forgotten.                                                              *)
(*                                                                         *)
(* NoLostRecalculation is not inductive: a payload without a range covers  *)
(* every instant until a request with one merges into it.  The invariant   *)
(* asks for a row whose range itself holds the instant, and for ranges     *)
(* that are either empty or have both ends.                                *)
(***************************************************************************)
EXTENDS RecalcQueue, TLAPS

Holds(p, i) == p.from <= i /\ i <= p.to

Asks(r, i) ==
    /\ status[r] \in {"PENDING", "FAILED", "RUNNING", "DEAD"}
    /\ Holds(range[r], i)
    /\ stage[r] = "read" => i \in seen[r]

Attended == \A r \in Rows : stage[r] # "none" => status[r] = "RUNNING"

BothEnds == \A r \in Rows : range[r].from = 0 <=> range[r].to = 0

Covered == \A i \in dirty : affected = i \/ \E r \in Rows : Asks(r, i)

CoverageInv == TypeOK /\ Attended /\ BothEnds /\ Covered

-----------------------------------------------------------------------------
\* The hull of two ranges (metrics/service.py:691-700) has both ends or none, and
\* holds what either of them held.
LEMMA HullHolds ==
    ASSUME NEW p \in Ranges, NEW q \in Ranges,
           p.from = 0 <=> p.to = 0, q.from = 0 <=> q.to = 0
    PROVE  /\ Hull(p, q) \in Ranges
           /\ Hull(p, q).from = 0 <=> Hull(p, q).to = 0
           /\ \A i \in Instants : Holds(p, i) \/ Holds(q, i) => Holds(Hull(p, q), i)
<1>1. /\ p.from \in 0 .. Horizon /\ p.to \in 0 .. Horizon
      /\ q.from \in 0 .. Horizon /\ q.to \in 0 .. Horizon
  BY DEF Ranges
<1>2. Hull(p, q) \in Ranges
  BY <1>1 DEF Hull, Ranges, Least, Greatest
<1>3. Hull(p, q).from = 0 <=> Hull(p, q).to = 0
  BY <1>1, RecalcAssumption DEF Hull, Least, Greatest
<1>4. ASSUME NEW i \in Instants, Holds(p, i) \/ Holds(q, i) PROVE Holds(Hull(p, q), i)
  BY <1>1, <1>4, RecalcAssumption DEF Hull, Least, Greatest, Holds, Instants
<1> QED
  BY <1>2, <1>3, <1>4

\* Nothing is dirty at first.
LEMMA CoverageInit == Init => CoverageInv
  BY RecalcAssumption DEF Init, CoverageInv, TypeOK, Attended, BothEnds, Covered, Ranges, Instants

-----------------------------------------------------------------------------
\* A row that ends, or waits again, still asks for what it asked, unless it succeeded.
LEMMA FinishKeeps ==
    ASSUME CoverageInv, NEW r \in Rows, NEW outcome \in {"PENDING", "FAILED", "DEAD", "SUCCEEDED"},
           NEW n \in 0 .. MaxAttempts, Finish(r, outcome, n)
    PROVE  /\ status' \in [Rows -> {"ABSENT", "PENDING", "FAILED", "RUNNING", "SUCCEEDED", "DEAD"}]
           /\ attempts' \in [Rows -> 0 .. MaxAttempts]
           /\ ready' \in [Rows -> BOOLEAN]
           /\ range' \in [Rows -> Ranges]
           /\ stage' \in [Rows -> {"none", "claimed", "executing", "read", "orphan", "stale"}]
           /\ seen' \in [Rows -> SUBSET Instants]
           /\ Attended' /\ BothEnds'
           /\ \A q \in Rows, i \in Instants :
                 Asks(q, i) /\ (q # r \/ outcome # "SUCCEEDED") => Asks(q, i)'
<1>1. TypeOK
  BY DEF CoverageInv
<1>2. Attended' /\ BothEnds'
  BY <1>1 DEF CoverageInv, TypeOK, Attended, BothEnds, Finish
<1>3. ASSUME NEW q \in Rows, NEW i \in Instants, Asks(q, i), q # r \/ outcome # "SUCCEEDED"
      PROVE  Asks(q, i)'
  BY <1>1, <1>3 DEF TypeOK, Finish, Asks, Holds
<1> QED
  BY <1>1, <1>2, <1>3 DEF TypeOK, Finish

\* So does one whose consumer is gone.
LEMMA OrphanKeeps ==
    ASSUME CoverageInv, NEW r \in Rows, stage[r] # "none", Orphan(r)
    PROVE  /\ status' \in [Rows -> {"ABSENT", "PENDING", "FAILED", "RUNNING", "SUCCEEDED", "DEAD"}]
           /\ attempts' \in [Rows -> 0 .. MaxAttempts]
           /\ ready' \in [Rows -> BOOLEAN]
           /\ range' \in [Rows -> Ranges]
           /\ stage' \in [Rows -> {"none", "claimed", "executing", "read", "orphan", "stale"}]
           /\ seen' \in [Rows -> SUBSET Instants]
           /\ Attended' /\ BothEnds'
           /\ \A q \in Rows, i \in Instants : Asks(q, i) => Asks(q, i)'
<1>1. TypeOK
  BY DEF CoverageInv
<1>2. Attended' /\ BothEnds'
  BY <1>1 DEF CoverageInv, TypeOK, Attended, BothEnds, Orphan
<1>3. ASSUME NEW q \in Rows, NEW i \in Instants, Asks(q, i) PROVE Asks(q, i)'
  BY <1>1, <1>3 DEF TypeOK, Orphan, Asks, Holds
<1> QED
  BY <1>1, <1>2, <1>3 DEF TypeOK, Orphan

\* When every change keeps its row, and nothing new is dirty, all stays covered.
LEMMA CoveredKept ==
    ASSUME CoverageInv, dirty' \subseteq dirty, affected' = affected,
           \A r \in Rows, i \in Instants : i \in dirty' /\ Asks(r, i) => Asks(r, i)'
    PROVE  Covered'
<1> SUFFICES ASSUME NEW i \in dirty', affected # i
             PROVE  \E r \in Rows : Asks(r, i)'
  BY DEF Covered
<1>1. i \in dirty /\ i \in Instants
  BY DEF CoverageInv, TypeOK
<1>2. PICK r \in Rows : Asks(r, i)
  BY <1>1 DEF CoverageInv, Covered
<1> QED
  BY <1>1, <1>2

-----------------------------------------------------------------------------
\* The webhook handler: a change is its own until it is enqueued, and then the target's.
LEMMA WriterKeeps == ASSUME CoverageInv, WriterStep \/ WriterDies PROVE CoverageInv'
<1>1. CASE WriterStart \/ WriterDone \/ WriterDies
  <2>1. TypeOK'
    BY <1>1, RecalcAssumption DEF WriterStart, WriterDone, WriterDies, CoverageInv, TypeOK, rows
  <2>2. Attended' /\ BothEnds' /\ Covered'
    BY <1>1 DEF WriterStart, WriterDone, WriterDies, rows, CoverageInv, Attended, BothEnds,
                Covered, Asks
  <2> QED
    BY <2>1, <2>2 DEF CoverageInv
<1>2. CASE WriterCommit
  <2>1. TypeOK'
    <3>1. /\ affected' \in 0 .. Horizon /\ dirty' \subseteq Instants
          /\ writes' \in 0 .. MaxWrites /\ writer' \in {"changed"}
      BY <1>2, RecalcAssumption DEF WriterCommit, CoverageInv, TypeOK
    <3> QED
      BY <1>2, <3>1 DEF WriterCommit, CoverageInv, TypeOK, rows
  <2>2. Attended' /\ BothEnds'
    BY <1>2 DEF WriterCommit, rows, CoverageInv, Attended, BothEnds
  <2>3. ASSUME NEW i \in dirty' PROVE affected' = i \/ \E r \in Rows : Asks(r, i)'
    <3>1. affected' = i \/ (i \in dirty /\ i # 0 /\ (affected = 0 \/ affected' = affected))
      BY <1>2, <2>3, RecalcAssumption DEF WriterCommit, CoverageInv, TypeOK, Instants
    <3> QED
      BY <1>2, <3>1 DEF WriterCommit, rows, CoverageInv, Covered, Asks
  <2> QED
    BY <2>1, <2>2, <2>3 DEF CoverageInv, Covered
<1>3. CASE WriterEnqueue
  <2> DEFINE wanted == [from |-> affected, to |-> affected]
             r == CHOOSE t \in Targets : TRUE
             new == IF Waiting = {} THEN wanted ELSE Hull(range[r], wanted)
  <2>1. r \in Targets
    BY <1>3 DEF WriterEnqueue
  <2>2. r \in Rows /\ stage[r] = "none" /\ (Waiting = {} => status[r] = "ABSENT")
    BY <2>1 DEF Targets, Waiting, CoverageInv, Attended
  <2>3. wanted \in Ranges /\ range[r] \in Ranges
    BY <2>2 DEF CoverageInv, TypeOK, Ranges
  <2>4. /\ new \in Ranges /\ (new.from = 0 <=> new.to = 0)
        /\ \A i \in Instants : (Waiting # {} /\ Holds(range[r], i)) \/ affected = i => Holds(new, i)
    <3>1. wanted.from = 0 <=> wanted.to = 0
      OBVIOUS
    <3>2. range[r].from = 0 <=> range[r].to = 0
      BY <2>2 DEF CoverageInv, BothEnds
    <3>3. \A i \in Instants : affected = i => Holds(wanted, i)
      BY DEF Holds, Instants
    <3>4. CASE Waiting = {}
      BY <2>3, <3>1, <3>3, <3>4
    <3>5. CASE Waiting # {}
      BY <2>3, <3>1, <3>2, <3>3, <3>5, HullHolds
    <3> QED
      BY <3>4, <3>5
  <2>5. /\ status' = [status EXCEPT ![r] = "PENDING"]
        /\ range' = [range EXCEPT ![r] = new]
        /\ attempts' = [attempts EXCEPT ![r] = 0]
        /\ ready' = [ready EXCEPT ![r] = TRUE]
        /\ UNCHANGED <<stage, seen, dirty, holder, writes, crashes>>
        /\ writer' = "enqueued" /\ affected' = 0
    BY <1>3 DEF WriterEnqueue
  <2> HIDE DEF new, r
  <2>6. TypeOK'
    BY <2>2, <2>4, <2>5, RecalcAssumption DEF CoverageInv, TypeOK
  <2>7. Attended' /\ BothEnds'
    BY <2>2, <2>4, <2>5 DEF CoverageInv, TypeOK, Attended, BothEnds
  <2>8. ASSUME NEW i \in dirty PROVE \E q \in Rows : Asks(q, i)'
    <3>1. i \in Instants
      BY DEF CoverageInv, TypeOK
    <3>2. /\ status'[r] = "PENDING" /\ range'[r] = new /\ stage'[r] = "none"
          /\ \A q \in Rows \ {r} : status'[q] = status[q] /\ range'[q] = range[q]
      BY <2>2, <2>5 DEF CoverageInv, TypeOK
    <3>3. CASE affected = i
      BY <2>2, <2>4, <3>1, <3>2, <3>3 DEF Asks
    <3>4. CASE affected # i
      <4>1. PICK q \in Rows : Asks(q, i)
        BY <3>4 DEF CoverageInv, Covered
      <4>2. CASE q = r
        <5>1. Waiting # {} /\ Holds(range[r], i)
          BY <2>2, <4>1, <4>2 DEF Asks
        <5> QED
          BY <2>2, <2>4, <3>1, <3>2, <5>1 DEF Asks
      <4>3. CASE q # r
        BY <2>5, <3>2, <4>1, <4>3 DEF Asks
      <4> QED
        BY <4>2, <4>3
    <3> QED
      BY <3>3, <3>4
  <2> QED
    BY <2>5, <2>6, <2>7, <2>8 DEF CoverageInv, Covered
<1> QED
  BY <1>1, <1>2, <1>3 DEF WriterStep

\* Recovery and claim: a row taken or dead still asks for its instants.
LEMMA ClaimKeeps == ASSUME CoverageInv, Claim PROVE CoverageInv'
<1> DEFINE stale == {r \in Rows : stage[r] = "stale"}
           dead == {r \in stale : Spent(r)}
           taken == (stale \ dead) \cup {r \in Rows : Claimable(r)}
<1>1. /\ status' = [r \in Rows |-> IF r \in dead THEN "DEAD"
                                   ELSE IF r \in taken THEN "RUNNING" ELSE status[r]]
      /\ attempts' = [r \in Rows |-> IF r \in taken THEN attempts[r] + 1 ELSE attempts[r]]
      /\ stage' = [r \in Rows |-> IF r \in taken THEN "claimed"
                                  ELSE IF r \in dead THEN "none" ELSE stage[r]]
      /\ UNCHANGED <<ready, range, seen, holder, writer, affected, dirty, writes, crashes>>
  BY DEF Claim
<1>2. \A r \in taken : r \in Rows /\ attempts[r] < MaxAttempts /\ r \notin dead
  BY RecalcAssumption DEF Spent, Claimable, Waiting, CoverageInv, TypeOK, Attended
<1>3. \A r \in taken : status[r] \in {"PENDING", "FAILED", "RUNNING"}
  BY DEF Claimable, Waiting, CoverageInv, Attended
<1>4. \A r \in dead : r \in Rows /\ status[r] = "RUNNING"
  BY DEF CoverageInv, Attended
<1> HIDE DEF taken, dead
<1>5. attempts' \in [Rows -> 0 .. MaxAttempts]
  BY <1>1, <1>2, RecalcAssumption DEF CoverageInv, TypeOK
<1>6. TypeOK'
  BY <1>1, <1>5 DEF CoverageInv, TypeOK
<1>7. Attended' /\ BothEnds'
  BY <1>1, <1>2 DEF CoverageInv, Attended, BothEnds
<1>8. \A r \in Rows, i \in Instants : Asks(r, i) => Asks(r, i)'
  BY <1>1, <1>2, <1>3, <1>4 DEF Asks
<1>9. Covered'
  BY <1>1, <1>8, CoveredKept
<1> QED
  BY <1>6, <1>7, <1>9 DEF CoverageInv

\* The consumer of a row: only a run that has read a change and covers it makes it clean.
LEMMA RowKeeps ==
    ASSUME CoverageInv, NEW r \in Rows, RowStep(r) \/ ConsumerDies(r) PROVE CoverageInv'
<1>1. attempts[r] \in 0 .. MaxAttempts /\ MaxAttempts \in Nat
  BY RecalcAssumption DEF CoverageInv, TypeOK
<1>2. CASE LeaseOk(r) \/ RunReads(r) \/ LockTimeout(r) \/ BackoffElapses(r)
  <2>1. TypeOK'
    BY <1>2 DEF LeaseOk, RunReads, LockTimeout, BackoffElapses, CoverageInv, TypeOK
  <2>2. Attended' /\ BothEnds'
    BY <1>2 DEF LeaseOk, RunReads, LockTimeout, BackoffElapses, CoverageInv, TypeOK, Attended,
                BothEnds
  <2>3. \A q \in Rows, i \in Instants : i \in dirty' /\ Asks(q, i) => Asks(q, i)'
    BY <1>2 DEF LeaseOk, RunReads, LockTimeout, BackoffElapses, CoverageInv, TypeOK, Asks
  <2>4. dirty' = dirty /\ affected' = affected
    BY <1>2 DEF LeaseOk, RunReads, LockTimeout, BackoffElapses
  <2> QED
    BY <2>1, <2>2, <2>3, <2>4, CoveredKept DEF CoverageInv
<1>3. CASE RunSucceeds(r)
  <2>1. Finish(r, "SUCCEEDED", attempts[r])
    BY <1>3 DEF RunSucceeds
  <2>2. \A q \in Rows, i \in Instants : i \in dirty' /\ Asks(q, i) => Asks(q, i)'
    <3> SUFFICES ASSUME NEW q \in Rows, NEW i \in Instants, i \in dirty', Asks(q, i)
                 PROVE  q # r
      BY <1>1, <2>1, FinishKeeps
    <3>1. ~(i \in seen[r] /\ Covers(range[r], i))
      BY <1>3 DEF RunSucceeds
    <3>2. Holds(range[r], i) => Covers(range[r], i)
      BY DEF Holds, Covers
    <3> QED
      BY <1>3, <3>1, <3>2 DEF RunSucceeds, Asks
  <2>3. TypeOK' /\ Attended' /\ BothEnds'
    BY <1>1, <1>3, <2>1, FinishKeeps DEF RunSucceeds, CoverageInv, TypeOK
  <2>4. dirty' \subseteq dirty /\ affected' = affected
    BY <1>3 DEF RunSucceeds
  <2> QED
    BY <2>2, <2>3, <2>4, CoveredKept DEF CoverageInv
<1>4. CASE LeaseBusy(r) \/ RunFails(r) \/ ConsumerDies(r)
  <2>1. \/ \E outcome \in {"PENDING", "FAILED", "DEAD"}, n \in 0 .. MaxAttempts : Finish(r, outcome, n)
        \/ stage[r] # "none" /\ Orphan(r)
    <3>1. CASE LeaseBusy(r)
      <4> DEFINE n == IF attempts[r] = 0 THEN 0 ELSE attempts[r] - 1
      <4>1. n \in 0 .. MaxAttempts
        BY <1>1
      <4>2. Finish(r, "PENDING", n) \/ (stage[r] # "none" /\ Orphan(r))
        BY <3>1 DEF LeaseBusy, WaitAgain
      <4> QED
        BY <4>1, <4>2
    <3>2. CASE RunFails(r)
      <4>1. \/ Finish(r, "DEAD", attempts[r]) \/ Finish(r, "FAILED", attempts[r])
            \/ stage[r] # "none" /\ Orphan(r)
        BY <3>2 DEF RunFails, WaitAgain
      <4> QED
        BY <1>1, <4>1
    <3>3. CASE ConsumerDies(r)
      BY <3>3 DEF ConsumerDies
    <3> QED
      BY <1>4, <3>1, <3>2, <3>3
  <2>2. /\ status' \in [Rows -> {"ABSENT", "PENDING", "FAILED", "RUNNING", "SUCCEEDED", "DEAD"}]
        /\ attempts' \in [Rows -> 0 .. MaxAttempts]
        /\ ready' \in [Rows -> BOOLEAN]
        /\ range' \in [Rows -> Ranges]
        /\ stage' \in [Rows -> {"none", "claimed", "executing", "read", "orphan", "stale"}]
        /\ seen' \in [Rows -> SUBSET Instants]
        /\ Attended' /\ BothEnds'
        /\ \A q \in Rows, i \in Instants : Asks(q, i) => Asks(q, i)'
    BY <2>1, FinishKeeps, OrphanKeeps
  <2>3. /\ holder' \in {holder, None} /\ UNCHANGED <<writer, affected, dirty, writes>>
        /\ crashes' \in 0 .. MaxCrashes
    BY <1>4, RecalcAssumption DEF LeaseBusy, RunFails, ConsumerDies, CoverageInv, TypeOK
  <2>4. TypeOK'
    BY <2>2, <2>3 DEF CoverageInv, TypeOK
  <2> QED
    BY <2>2, <2>3, <2>4, CoveredKept DEF CoverageInv
<1> QED
  BY <1>2, <1>3, <1>4 DEF RowStep

\* Every step keeps the invariant.
LEMMA CoverageStep == CoverageInv /\ [Next]_vars => CoverageInv'
<1> SUFFICES ASSUME CoverageInv, [Next]_vars PROVE CoverageInv'
  OBVIOUS
<1>1. CASE UNCHANGED vars
  BY <1>1 DEF vars, rows, CoverageInv, TypeOK, Attended, BothEnds, Covered, Asks
<1> QED
  BY <1>1, WriterKeeps, ClaimKeeps, RowKeeps DEF Next

\* Some row asks for every change that is not yet in the snapshots.
THEOREM CoverageInvariance == Spec => []CoverageInv
<1> QED
  BY CoverageInit, CoverageStep, PTL DEF Spec

\* Every variable keeps its type; attempts stay within the budget (claimer.py:34).
THEOREM RecalcTypeCorrect == Spec => []TypeOK
<1>1. CoverageInv => TypeOK
  BY DEF CoverageInv
<1> QED
  BY <1>1, CoverageInvariance, PTL

\* A committed change is never forgotten, for any number of rows, changes and crashes.
THEOREM NoRecalculationLost == Spec => []NoLostRecalculation
<1>1. CoverageInv => NoLostRecalculation
  BY DEF CoverageInv, Covered, Asks, Holds, Covers, NoLostRecalculation
<1> QED
  BY <1>1, CoverageInvariance, PTL
=============================================================================
