---------------------------- MODULE BackfillProofs ----------------------------
(***************************************************************************)
(* Proofs about RepositoryBackfill: the windows leave no instant of the    *)
(* interval out and always fit the cursor, a job that succeeds has stored  *)
(* what it was to import and refresh, and the issue sweep ends with the    *)
(* open issues GitHub has, for every interval, page size, cap and failure. *)
(*                                                                         *)
(* That the pending windows cover what lies below the current one is not   *)
(* inductive: when the first of them becomes the current one, the others   *)
(* must still reach it.  What makes it so is their order, each starting no *)
(* later than the one before it.  What the pages are to bring is kept by   *)
(* the rank of an item in its listing: it is stored, or its rank is beyond *)
(* the pages read.                                                         *)
(***************************************************************************)
EXTENDS RepositoryBackfill, FiniteSetTheorems, TLAPS

Windows == [start : Int, end : Int]
Stages == {"OPEN_PULL_REQUESTS", "PULL_REQUESTS", "WORKFLOW_RUNS", "DEPLOYMENTS", "ISSUES",
           "REVIEWS", "DONE"}
Cursors == [stage : Stages, page : Nat \ {0}, window : Windows, pending : Seq(Windows)]

\* The current window is number 0, the pending ones follow.
Nth(c, i) == IF i = 0 THEN c.window ELSE c.pending[i]

\* Windows are not empty, and start no later than the one before.
Descending(c) ==
    \A i \in 0 .. Len(c.pending) :
        /\ Nth(c, i).start <= Nth(c, i).end
        /\ \A j \in i .. Len(c.pending) : Nth(c, j).start <= Nth(c, i).start

Covers(c) ==
    \A t \in Cutoff .. c.window.start :
        \E i \in 0 .. Len(c.pending) : Nth(c, i).start <= t /\ t <= Nth(c, i).end

WindowsInv ==
    /\ cursor \in Cursors
    /\ cursor.stage = "WORKFLOW_RUNS" => Descending(cursor) /\ Covers(cursor)

\* The whole interval is a window, and no window is pending at first.
LEMMA WholeTyped == Whole \in Windows /\ << >> \in Seq(Windows)
<1>1. Whole \in Windows
  BY BackfillAssumption DEF Whole, Windows
<1>2. << >> \in Seq(Windows)
  OBVIOUS
<1> QED
  BY <1>1, <1>2

\* A stage without windows holds the whole interval.
LEMMA AtTyped ==
    ASSUME NEW stage \in Stages, NEW page \in Nat \ {0}
    PROVE  At(stage, page) \in Cursors /\ At(stage, page).stage = stage
BY WholeTyped DEF At, Cursors

\* One window, the whole interval, covers it.
LEMMA WholeCovers ==
    LET c == Window(Whole, << >>) IN c \in Cursors /\ Descending(c) /\ Covers(c)
<1>1. Window(Whole, << >>) \in Cursors
  BY WholeTyped DEF Window, Cursors, Stages
<1>2. Len(Window(Whole, << >>).pending) = 0
  BY DEF Window
<1>3. /\ Window(Whole, << >>).window.start = Cutoff
      /\ Window(Whole, << >>).window.end = Horizon
  BY DEF Window, Whole
<1> QED
  BY <1>1, <1>2, <1>3, BackfillAssumption DEF Descending, Covers, Nth

\* A split keeps the windows in order and covers as much: the older half ends where the
\* newer one starts.
LEMMA SplitCovers ==
    ASSUME WindowsInv, cursor.stage = "WORKFLOW_RUNS"
    PROVE  Split \in Cursors /\ Descending(Split) /\ Covers(Split)
<1> DEFINE w == cursor.window
           p == cursor.pending
           m == Midpoint
<1>1. /\ w.start \in Int /\ w.end \in Int /\ p \in Seq(Windows)
      /\ cursor.page \in Int
  BY DEF WindowsInv, Cursors, Windows
<1>2. w.start <= w.end
  <2>1. 0 \in 0 .. Len(p)
    BY <1>1
  <2> QED
    BY <2>1 DEF WindowsInv, Descending, Nth
<1>3. m \in Int /\ w.start <= m /\ m <= w.end
  <2>1. w.end - w.start \in Nat
    BY <1>1, <1>2
  <2>2. /\ (w.end - w.start) \div 2 \in Nat
        /\ (w.end - w.start) \div 2 <= w.end - w.start
    BY <2>1
  <2> QED
    BY <1>1, <2>1, <2>2 DEF Midpoint
<1>4. NewerHalf \in Windows /\ OlderHalf \in Windows
  BY <1>1, <1>3 DEF NewerHalf, OlderHalf, Windows
<1>5. /\ <<OlderHalf>> \o p \in Seq(Windows)
      /\ Len(<<OlderHalf>> \o p) = Len(p) + 1
      /\ (<<OlderHalf>> \o p)[1] = OlderHalf
      /\ \A i \in 1 .. Len(p) : (<<OlderHalf>> \o p)[i + 1] = p[i]
  BY <1>1, <1>4
<1>6. Split \in Cursors
  BY <1>4, <1>5 DEF Split, Window, Cursors, Stages
<1>7. /\ Len(Split.pending) = Len(p) + 1
      /\ Nth(Split, 0) = NewerHalf
      /\ Nth(Split, 1) = OlderHalf
      /\ \A i \in 1 .. Len(p) : Nth(Split, i + 1) = Nth(cursor, i)
  BY <1>1, <1>5 DEF Split, Window, Nth
<1>8. /\ Nth(Split, 0).start = m /\ Nth(Split, 0).end = w.end
      /\ Nth(Split, 1).start = w.start /\ Nth(Split, 1).end = m
  BY <1>7 DEF NewerHalf, OlderHalf
<1>9. \A i \in 0 .. Len(p) : Nth(cursor, i).start \in Int /\ Nth(cursor, i).end \in Int
  <2> SUFFICES ASSUME NEW i \in 0 .. Len(p) PROVE Nth(cursor, i) \in Windows
    BY DEF Windows
  <2>1. w \in Windows
    BY DEF WindowsInv, Cursors
  <2>2. ASSUME i # 0 PROVE p[i] \in Windows
    BY <1>1, <2>2
  <2> QED
    BY <2>1, <2>2 DEF Nth
<1>10. Len(p) \in Nat
  BY <1>1
<1>11. \A i \in 2 .. Len(p) + 1 : i - 1 \in 1 .. Len(p) /\ Nth(Split, i) = Nth(cursor, i - 1)
  BY <1>7, <1>10
<1>12. \A i \in 0 .. Len(p) :
         /\ Nth(cursor, i).start <= Nth(cursor, i).end
         /\ \A j \in i .. Len(p) : Nth(cursor, j).start <= Nth(cursor, i).start
  BY DEF WindowsInv, Descending
<1>13. \A i \in 0 .. Len(p) : Nth(cursor, i).start <= w.start
  BY <1>10, <1>12 DEF Nth
<1>14. Descending(Split)
  <2> SUFFICES ASSUME NEW i \in 0 .. Len(p) + 1
               PROVE  /\ Nth(Split, i).start <= Nth(Split, i).end
                      /\ \A j \in i .. Len(p) + 1 : Nth(Split, j).start <= Nth(Split, i).start
    BY <1>7 DEF Descending
  <2>1. Nth(Split, i).start <= Nth(Split, i).end
    <3>1. CASE i \in {0, 1}
      BY <3>1, <1>3, <1>8
    <3>2. CASE i \in 2 .. Len(p) + 1
      BY <3>2, <1>10, <1>11, <1>12
    <3> QED
      BY <3>1, <3>2, <1>10
  <2>2. ASSUME NEW j \in i .. Len(p) + 1
        PROVE  Nth(Split, j).start <= Nth(Split, i).start
    <3>1. CASE i = 0 /\ j = 0
      BY <3>1, <1>3, <1>8
    <3>2. CASE i \in {0, 1} /\ j = 1
      BY <3>2, <1>1, <1>3, <1>8
    <3>3. CASE i \in {0, 1} /\ j \in 2 .. Len(p) + 1
      <4>1. Nth(Split, j).start <= w.start /\ Nth(Split, j).start \in Int
        <5>1. j - 1 \in 0 .. Len(p) /\ Nth(Split, j) = Nth(cursor, j - 1)
          BY <3>3, <1>10, <1>11
        <5> QED
          BY <5>1, <1>9, <1>13
      <4> QED
        BY <4>1, <3>3, <1>1, <1>3, <1>8
    <3>4. CASE i \in 2 .. Len(p) + 1
      <4>1. j \in 2 .. Len(p) + 1 /\ j - 1 \in i - 1 .. Len(p) /\ i - 1 \in 0 .. Len(p)
        BY <3>4, <2>2, <1>10
      <4> QED
        BY <4>1, <3>4, <1>11, <1>12
    <3> QED
      BY <3>1, <3>2, <3>3, <3>4, <2>2, <1>10
  <2> QED
    BY <2>1, <2>2
<1>15. Covers(Split)
  <2> SUFFICES ASSUME NEW t \in Cutoff .. m
               PROVE  \E i \in 0 .. Len(p) + 1 : Nth(Split, i).start <= t /\ t <= Nth(Split, i).end
    BY <1>7, <1>8 DEF Covers, Nth
  <2>1. CASE w.start <= t
    BY <2>1, <1>8, <1>10
  <2>2. CASE t < w.start
    <3>1. t \in Cutoff .. w.start /\ t \in Int
      BY <2>2, <1>1, <1>3, BackfillAssumption
    <3>2. PICK i \in 0 .. Len(p) : Nth(cursor, i).start <= t /\ t <= Nth(cursor, i).end
      BY <3>1 DEF WindowsInv, Covers
    <3>3. i # 0
      BY <3>2, <2>2, <3>1, <1>1 DEF Nth
    <3>4. i \in 1 .. Len(p) /\ i + 1 \in 0 .. Len(p) + 1
      BY <3>3, <1>10
    <3> QED
      BY <3>2, <3>4, <1>7
  <2> QED
    BY <2>1, <2>2, <1>1, <1>3, BackfillAssumption
<1> QED
  BY <1>6, <1>14, <1>15

\* When the windows already read are left, the first pending one takes over, and the
\* others still reach it.
LEMMA NextWindowCovers ==
    ASSUME WindowsInv, cursor.stage = "WORKFLOW_RUNS"
    PROVE  /\ NextWindow \in Cursors
           /\ NextWindow.stage = "WORKFLOW_RUNS" => Descending(NextWindow) /\ Covers(NextWindow)
<1> DEFINE p == cursor.pending
           n == Window(Head(p), Tail(p))
<1>1. CASE p = << >>
  <2>1. NextWindow = Done
    BY <1>1 DEF NextWindow
  <2>2. Done \in Cursors /\ Done.stage = "DONE"
    BY AtTyped DEF Done, Stages
  <2> QED
    BY <2>1, <2>2
<1>2. CASE p # << >>
  <2>1. p \in Seq(Windows) /\ Len(p) \in Nat \ {0}
    BY <1>2 DEF WindowsInv, Cursors
  <2>2. /\ Head(p) \in Windows /\ Tail(p) \in Seq(Windows)
        /\ Len(Tail(p)) = Len(p) - 1 /\ Head(p) = p[1]
        /\ \A i \in 1 .. Len(p) - 1 : Tail(p)[i] = p[i + 1]
    BY <2>1, <1>2
  <2>3. NextWindow = n /\ n \in Cursors
    <3>1. NextWindow = n
      BY <1>2 DEF NextWindow
    <3>2. n \in Cursors
      BY <2>2 DEF Window, Cursors, Stages
    <3> QED
      BY <3>1, <3>2
  <2>4. Len(n.pending) = Len(p) - 1
    BY <2>2 DEF Window
  <2>5. \A i \in 0 .. Len(p) - 1 : Nth(n, i) = Nth(cursor, i + 1)
    <3> SUFFICES ASSUME NEW i \in 0 .. Len(p) - 1
                 PROVE  Nth(n, i) = Nth(cursor, i + 1)
      OBVIOUS
    <3>1. CASE i = 0
      BY <3>1, <2>2 DEF Nth, Window
    <3>2. CASE i \in 1 .. Len(p) - 1
      BY <3>2, <2>1, <2>2 DEF Nth, Window
    <3> QED
      BY <3>1, <3>2, <2>1
  <2>6. \A i \in 0 .. Len(p) :
          /\ Nth(cursor, i).start <= Nth(cursor, i).end
          /\ \A j \in i .. Len(p) : Nth(cursor, j).start <= Nth(cursor, i).start
    BY DEF WindowsInv, Descending
  <2>7. Descending(n)
    <3> SUFFICES ASSUME NEW i \in 0 .. Len(p) - 1
                 PROVE  /\ Nth(n, i).start <= Nth(n, i).end
                        /\ \A j \in i .. Len(p) - 1 : Nth(n, j).start <= Nth(n, i).start
      BY <2>4 DEF Descending
    <3>1. i + 1 \in 0 .. Len(p)
      BY <2>1
    <3>2. Nth(n, i).start <= Nth(n, i).end
      BY <3>1, <2>5, <2>6
    <3>3. ASSUME NEW j \in i .. Len(p) - 1
          PROVE  Nth(n, j).start <= Nth(n, i).start
      <4>1. j \in 0 .. Len(p) - 1 /\ j + 1 \in i + 1 .. Len(p)
        BY <3>3, <2>1
      <4> QED
        BY <4>1, <3>1, <2>5, <2>6
    <3> QED
      BY <3>2, <3>3
  <2>8. Covers(n)
    <3> SUFFICES ASSUME NEW t \in Cutoff .. n.window.start
                 PROVE  \E i \in 0 .. Len(p) - 1 : Nth(n, i).start <= t /\ t <= Nth(n, i).end
      BY <2>4 DEF Covers
    <3>1. /\ n.window = Nth(n, 0) /\ Nth(n, 0) = Nth(cursor, 1) /\ Nth(cursor, 0) = cursor.window
          /\ n.window.start \in Int /\ cursor.window.start \in Int /\ t \in Int
      <4>1. n.window = Nth(n, 0) /\ Nth(cursor, 0) = cursor.window
        BY DEF Nth
      <4>2. 0 \in 0 .. Len(p) - 1
        BY <2>1
      <4>3. Nth(n, 0) = Nth(cursor, 1)
        BY <2>5, <4>2
      <4>4. n.window \in Windows /\ cursor.window \in Windows
        BY <2>3 DEF Cursors, WindowsInv
      <4>5. n.window.start \in Int /\ cursor.window.start \in Int
        BY <4>4 DEF Windows
      <4>6. t \in Int
        BY <4>5, BackfillAssumption
      <4> QED
        BY <4>1, <4>3, <4>5, <4>6
    <3>2. Nth(cursor, 1).start <= cursor.window.start
      BY <2>1, <2>6, <3>1
    <3>3. t \in Cutoff .. cursor.window.start
      BY <3>1, <3>2, BackfillAssumption
    <3>4. PICK i \in 0 .. Len(p) : Nth(cursor, i).start <= t /\ t <= Nth(cursor, i).end
      BY <3>3 DEF WindowsInv, Covers
    <3>5. CASE i = 0
      <4>1. t = n.window.start
        BY <3>1, <3>2, <3>4, <3>5
      <4>2. 0 \in 0 .. Len(p) - 1
        BY <2>1
      <4>3. Nth(n, 0).start <= Nth(n, 0).end
        BY <4>2, <2>4, <2>7 DEF Descending
      <4>4. Nth(n, 0).start <= t /\ t <= Nth(n, 0).end
        BY <4>1, <4>3, <3>1
      <4> QED
        BY <4>2, <4>4
    <3>6. CASE i \in 1 .. Len(p)
      <4>1. i - 1 \in 0 .. Len(p) - 1 /\ Nth(n, i - 1) = Nth(cursor, i)
        BY <3>6, <2>1, <2>5
      <4> QED
        BY <4>1, <3>4
    <3> QED
      BY <3>5, <3>6, <2>1
  <2> QED
    BY <2>3, <2>7, <2>8
<1> QED
  BY <1>1, <1>2

\* The cursor a page leads to is one of a few.
LEMMA FollowingCovers ==
    ASSUME WindowsInv
    PROVE  /\ Following \in Cursors
           /\ Following.stage = "WORKFLOW_RUNS" => Descending(Following) /\ Covers(Following)
<1>1. CASE Following = NextPage
  <2>1. /\ NextPage \in Cursors
        /\ NextPage.stage = cursor.stage
        /\ NextPage.window = cursor.window /\ NextPage.pending = cursor.pending
    BY DEF WindowsInv, Cursors, NextPage
  <2> QED
    BY <1>1, <2>1 DEF WindowsInv, Descending, Covers, Nth
<1>2. CASE \E stage \in Stages \ {"WORKFLOW_RUNS"} : Following = At(stage, 1)
  BY <1>2, AtTyped
<1>3. CASE Following = Window(Whole, << >>)
  BY <1>3, WholeCovers
<1>4. CASE Following = NextWindow /\ cursor.stage = "WORKFLOW_RUNS"
  BY <1>4, NextWindowCovers
<1> QED
  <2>1. CASE Continues
    BY <2>1, <1>1 DEF Following
  <2>2. CASE ~Continues /\ cursor.stage = "PULL_REQUESTS"
    BY <2>2, <1>2, <1>3 DEF Following, DeploymentStage, Done, Stages
  <2>3. CASE ~Continues /\ cursor.stage = "WORKFLOW_RUNS"
    BY <2>3, <1>4 DEF Following
  <2>4. CASE ~Continues /\ cursor.stage \notin {"PULL_REQUESTS", "WORKFLOW_RUNS"}
    BY <2>4, <1>2 DEF Following, Done, Stages
  <2> QED
    BY <2>1, <2>2, <2>3, <2>4

\* A job starts without windows.
LEMMA WindowsInit == Init => WindowsInv
<1> SUFFICES ASSUME Init PROVE WindowsInv
  OBVIOUS
<1>1. cursor = At(InitialStage(mode), 1)
  BY DEF Init
<1>2. InitialStage(mode) \in Stages \ {"WORKFLOW_RUNS"}
  BY DEF InitialStage, Stages
<1> QED
  BY <1>1, <1>2, AtTyped DEF WindowsInv

\* Only a split and a page that is requeued move the cursor.
LEMMA WindowsStep == WindowsInv /\ [Next]_vars => WindowsInv'
<1> SUFFICES ASSUME WindowsInv, [Next]_vars PROVE WindowsInv'
  OBVIOUS
<1> USE DEF Requeue, Finish
<1>1. CASE cursor' = cursor
  BY <1>1 DEF WindowsInv, Descending, Covers, Nth
<1>2. CASE SplitWindow
  <2>1. cursor.stage = "WORKFLOW_RUNS" /\ cursor' = Split
    BY <1>2 DEF SplitWindow, Capped
  <2>2. Split \in Cursors /\ Descending(Split) /\ Covers(Split)
    BY <2>1, SplitCovers
  <2> QED
    BY <2>1, <2>2 DEF WindowsInv, Descending, Covers, Nth
<1>3. CASE ImportPage
  <2>1. cursor' = cursor \/ cursor' = Following
    BY <1>3 DEF ImportPage
  <2>2. CASE cursor' = Following
    BY <2>2, FollowingCovers DEF WindowsInv, Descending, Covers, Nth
  <2> QED
    BY <2>1, <2>2, <1>1
<1>4. CASE GiveUp
  BY <1>1, <1>4 DEF GiveUp, Finish
<1>5. CASE FailPage
  BY <1>1, <1>5 DEF FailPage
<1>6. CASE ChangeIssue \/ CommentIssue \/ ChangePull \/ ChangeRun
  <2>1. Change
    BY <1>6 DEF ChangeIssue, CommentIssue, ChangePull, ChangeRun
  <2> QED
    BY <1>1, <2>1 DEF Change, job
<1>7. CASE \E d \in deliveries : HandleIssue(d)
  BY <1>1, <1>7 DEF HandleIssue, job
<1>8. CASE \E p \in Pulls : HandleMerge(p)
  BY <1>1, <1>8 DEF HandleMerge, job
<1>9. CASE Withdraw
  BY <1>1, <1>9 DEF Withdraw, job
<1>10. CASE UNCHANGED vars
  BY <1>1, <1>10 DEF vars, job
<1> QED
  BY <1>2, <1>3, <1>4, <1>5, <1>6, <1>7, <1>8, <1>9, <1>10 DEF Next, Process

\* The invariant holds of every behaviour: windows are never empty or out of order.
THEOREM WindowsInvariance == Spec => []WindowsInv
<1> QED
  BY WindowsInit, WindowsStep, PTL DEF Spec

\* "pagination can never silently omit older runs" (backfill_repository.py:374), as far
\* as the windows go: no instant of the interval is lost between a split, a page and the
\* window that is taken up next.
THEOREM WindowsHold == Spec => []WindowsCover
<1>1. WindowsInv => WindowsCover
  <2> SUFFICES ASSUME WindowsInv, cursor.stage = "WORKFLOW_RUNS",
                      NEW t \in Cutoff .. cursor.window.start
               PROVE  \E i \in 1 .. Len(cursor.pending) \cup {0} :
                          LET w == IF i = 0 THEN cursor.window ELSE cursor.pending[i]
                          IN w.start <= t /\ t <= w.end
    BY DEF WindowsCover
  <2>1. PICK i \in 0 .. Len(cursor.pending) : Nth(cursor, i).start <= t /\ t <= Nth(cursor, i).end
    BY DEF WindowsInv, Covers
  <2>2. Len(cursor.pending) \in Nat
    BY DEF WindowsInv, Cursors
  <2>3. i \in 1 .. Len(cursor.pending) \cup {0}
    BY <2>1, <2>2
  <2> QED
    BY <2>1, <2>3 DEF Nth
<1> QED
  BY <1>1, WindowsInvariance, PTL

-----------------------------------------------------------------------------
(* The cursor never holds too many windows: a split halves, and with no    *)
(* window to halve down to a second there is none left to split.           *)

Width == CHOOSE width \in [0 .. MaxWindows -> 0 .. Horizon - Cutoff] : Halving(width)
Size(w) == w.end - w.start

\* The deeper the cursor, the narrower its current window, and each pending one is as
\* narrow as its turn needs it.
Shallow(c) ==
    /\ Len(c.pending) <= MaxWindows
    /\ Size(c.window) <= Width[MaxWindows - Len(c.pending)]
    /\ \A i \in 1 .. Len(c.pending) :
         Size(c.pending[i]) <= Width[MaxWindows - Len(c.pending) + i]

\* What a job may die of.
Cause ==
    \/ ~active \/ failures >= MaxAttempts \/ denied
    \/ InvalidSignal
    \/ Capped /\ TooDense

DepthInv ==
    /\ IF cursor.stage = "WORKFLOW_RUNS" THEN Shallow(cursor) ELSE cursor.pending = << >>
    /\ status = "DEAD" => Cause

\* The assumption gives such widths.
LEMMA WidthHalves == Width \in [0 .. MaxWindows -> 0 .. Horizon - Cutoff] /\ Halving(Width)
BY BackfillAssumption DEF Width

\* A narrower width is at least half of the next.
LEMMA WidthStep ==
    ASSUME NEW k \in 1 .. MaxWindows
    PROVE  Width[k] \in Nat /\ Width[k - 1] \in Nat /\ Width[k] <= 2 * Width[k - 1]
<1>1. k \in 0 .. MaxWindows /\ k - 1 \in 0 .. MaxWindows /\ Horizon - Cutoff \in Nat
  BY BackfillAssumption
<1> QED BY <1>1, WidthHalves DEF Halving

\* The whole interval is as wide as it may be.
LEMMA WholeShallow == Shallow(Window(Whole, << >>))
<1> DEFINE c == Window(Whole, << >>)
<1>1. Len(c.pending) = 0 /\ c.window.start = Cutoff /\ c.window.end = Horizon
  BY DEF Window, Whole
<1>2. Width[MaxWindows] = Horizon - Cutoff /\ MaxWindows \in Nat
  BY WidthHalves, BackfillAssumption DEF Halving
<1>3. Len(c.pending) <= MaxWindows /\ MaxWindows - Len(c.pending) = MaxWindows
  BY <1>1, <1>2
<1> HIDE DEF c
<1>4. Size(c.window) = Horizon - Cutoff
  BY <1>1 DEF Size
<1>5. Size(c.window) <= Width[MaxWindows - Len(c.pending)]
  <2>1. Horizon - Cutoff \in Int
    BY BackfillAssumption
  <2>2. Width[MaxWindows - Len(c.pending)] = Horizon - Cutoff
    BY <1>2, <1>3
  <2> QED BY <1>4, <2>1, <2>2
<1> QED BY <1>1, <1>3, <1>5 DEF Shallow, c

\* Halving the current window leaves room for what it adds.
LEMMA SplitShallow ==
    ASSUME WindowsInv, cursor.stage = "WORKFLOW_RUNS", Shallow(cursor), ~TooDense
    PROVE  Shallow(Split)
<1> DEFINE w == cursor.window
           p == cursor.pending
           n == Len(p)
<1>1. /\ w.start \in Int /\ w.end \in Int /\ p \in Seq(Windows) /\ n \in Nat /\ n <= MaxWindows
      /\ MaxWindows \in Nat /\ Second \in Nat \ {0}
  BY BackfillAssumption DEF WindowsInv, Cursors, Windows, Shallow
<1>2. w.start <= w.end
  <2>1. 0 \in 0 .. n
    BY <1>1
  <2> QED BY <2>1 DEF WindowsInv, Descending, Nth
<1>3. w.end - w.start > Second /\ w.end - w.start <= Width[MaxWindows - n]
  BY <1>1 DEF TooDense, Shallow, Size
<1> DEFINE k == MaxWindows - n
<1>4. k \in 1 .. MaxWindows
  <2>1. n # MaxWindows
    <3> SUFFICES ASSUME n = MaxWindows PROVE FALSE
      OBVIOUS
    <3>1. Width[MaxWindows - n] = Width[0]
      BY <1>1
    <3>2. Width[0] <= Second /\ Width[0] \in Int
      BY WidthHalves, <1>1, BackfillAssumption DEF Halving
    <3> QED BY <1>1, <1>3, <3>1, <3>2
  <2> QED BY <1>1, <2>1
<1>5. Width[k] \in Nat /\ Width[k - 1] \in Nat /\ Width[k] <= 2 * Width[k - 1]
  BY <1>4, WidthStep
<1>6. /\ Midpoint \in Int
      /\ w.end - Midpoint <= Width[k - 1] /\ Midpoint - w.start <= Width[k]
  <2> DEFINE s == w.end - w.start
             h == s \div 2
             narrow == Width[k - 1]
             wide == Width[k]
  <2>1. s \in Nat /\ s <= wide /\ wide <= 2 * narrow /\ narrow \in Nat /\ wide \in Nat
    BY <1>1, <1>2, <1>3, <1>5
  <2>2. Midpoint = w.start + h /\ w.end = w.start + s
    BY <1>1 DEF Midpoint
  <2> HIDE DEF s, narrow, wide
  <2>3. h \in Nat /\ h <= s /\ s - h <= narrow
    BY <2>1
  <2> HIDE DEF h
  <2>4. w.end - Midpoint = s - h /\ Midpoint - w.start = h /\ Midpoint \in Int
    <3>1. w.start \in Int /\ s \in Int /\ h \in Int
      BY <1>1, <2>1, <2>3
    <3> QED BY <2>2, <3>1
  <2>5. h <= wide
    BY <2>1, <2>3
  <2> QED BY <2>3, <2>4, <2>5 DEF narrow, wide
<1>7. NewerHalf \in Windows /\ OlderHalf \in Windows
  BY <1>1, <1>6 DEF NewerHalf, OlderHalf, Windows
<1>8. /\ Len(Split.pending) = n + 1 /\ Split.window = NewerHalf
      /\ Split.pending[1] = OlderHalf
      /\ \A i \in 1 .. n : Split.pending[i + 1] = p[i]
  BY <1>1, <1>7 DEF Split, Window
<1>9. Size(NewerHalf) <= Width[k - 1] /\ Size(OlderHalf) <= Width[k]
  BY <1>6 DEF Size, NewerHalf, OlderHalf
<1>10. \A i \in 1 .. n : Size(p[i]) <= Width[k + i]
  BY DEF Shallow
<1>11. ASSUME NEW i \in 1 .. n + 1
       PROVE  Size(Split.pending[i]) <= Width[MaxWindows - (n + 1) + i]
  <2>1. CASE i = 1
    <3>1. MaxWindows - (n + 1) + i = k
      BY <1>1, <2>1
    <3> QED BY <1>8, <1>9, <2>1, <3>1
  <2>2. CASE i # 1
    <3>1. i - 1 \in 1 .. n /\ MaxWindows - (n + 1) + i = k + (i - 1) /\ (i - 1) + 1 = i
      BY <1>1, <1>11, <2>2
    <3>2. Split.pending[i] = p[i - 1]
      BY <1>8, <3>1
    <3>3. Size(p[i - 1]) <= Width[k + (i - 1)]
      BY <1>10, <3>1
    <3> QED BY <3>1, <3>2, <3>3
  <2> QED BY <2>1, <2>2
<1>12. n + 1 <= MaxWindows /\ MaxWindows - (n + 1) = k - 1
  BY <1>1, <1>4
<1>13. Size(Split.window) <= Width[MaxWindows - (n + 1)]
  BY <1>8, <1>9, <1>12
<1> QED BY <1>8, <1>11, <1>12, <1>13 DEF Shallow

\* The window taken up next is as narrow as its turn allows.
LEMMA NextWindowShallow ==
    ASSUME WindowsInv, Shallow(cursor), cursor.pending # << >>
    PROVE  Shallow(NextWindow)
<1> DEFINE p == cursor.pending
           n == Len(p)
<1>1. p \in Seq(Windows) /\ n \in Nat \ {0} /\ n <= MaxWindows /\ MaxWindows \in Nat
  BY BackfillAssumption DEF WindowsInv, Cursors, Shallow
<1>2. /\ NextWindow.window = p[1] /\ Len(NextWindow.pending) = n - 1
      /\ \A i \in 1 .. n - 1 : NextWindow.pending[i] = p[i + 1]
  BY <1>1 DEF NextWindow, Window
<1>3. \A i \in 1 .. n : Size(p[i]) <= Width[MaxWindows - n + i]
  BY DEF Shallow
<1>4. MaxWindows - (n - 1) = MaxWindows - n + 1 /\ n - 1 <= MaxWindows /\ 1 \in 1 .. n
  BY <1>1
<1>5. Size(NextWindow.window) <= Width[MaxWindows - (n - 1)]
  BY <1>2, <1>3, <1>4
<1>6. ASSUME NEW i \in 1 .. n - 1
      PROVE  Size(NextWindow.pending[i]) <= Width[MaxWindows - (n - 1) + i]
  <2>1. i + 1 \in 1 .. n /\ MaxWindows - (n - 1) + i = MaxWindows - n + (i + 1)
    BY <1>1, <1>6
  <2> QED BY <1>2, <1>3, <2>1
<1> QED BY <1>2, <1>4, <1>5, <1>6 DEF Shallow

\* A cursor in a stage without windows holds none.
Depth(c) == IF c.stage = "WORKFLOW_RUNS" THEN Shallow(c) ELSE c.pending = << >>

LEMMA FollowingShallow ==
    ASSUME WindowsInv, Depth(cursor)
    PROVE  Depth(Following)
<1>1. CASE Following = NextPage
  <2>1. /\ NextPage.stage = cursor.stage
        /\ NextPage.window = cursor.window /\ NextPage.pending = cursor.pending
    BY DEF WindowsInv, Cursors, NextPage
  <2> QED BY <1>1, <2>1 DEF Depth, Shallow
<1>2. CASE \E stage \in Stages \ {"WORKFLOW_RUNS"} : Following = At(stage, 1)
  BY <1>2 DEF Depth, At
<1>3. CASE Following = Window(Whole, << >>)
  BY <1>3, WholeShallow DEF Depth, Window
<1>4. CASE Following = NextWindow /\ cursor.stage = "WORKFLOW_RUNS" /\ cursor.pending # << >>
  <2>1. NextWindow.stage = "WORKFLOW_RUNS"
    BY <1>4 DEF NextWindow, Window
  <2> QED BY <1>4, <2>1, NextWindowShallow DEF Depth
<1> QED
  <2>1. CASE Continues
    BY <2>1, <1>1 DEF Following
  <2>2. CASE ~Continues /\ cursor.stage = "PULL_REQUESTS"
    BY <2>2, <1>2, <1>3 DEF Following, DeploymentStage, Done, Stages
  <2>3. CASE ~Continues /\ cursor.stage = "WORKFLOW_RUNS"
    BY <2>3, <1>2, <1>4 DEF Following, NextWindow, Done, Stages
  <2>4. CASE ~Continues /\ cursor.stage \notin {"PULL_REQUESTS", "WORKFLOW_RUNS"}
    BY <2>4, <1>2 DEF Following, Done, Stages
  <2> QED BY <2>1, <2>2, <2>3, <2>4

\* So no cursor is refused.
LEMMA NeverRefused == ASSUME WindowsInv, Depth(cursor) PROVE ~Refused
<1>1. MaxWindows \in Nat
  BY BackfillAssumption
<1>2. CASE cursor.stage = "WORKFLOW_RUNS"
  BY <1>1, <1>2 DEF Depth, Shallow, Refused, WindowsInv, Cursors
<1>3. CASE cursor.stage # "WORKFLOW_RUNS"
  <2>1. Len(cursor.pending) = 0
    BY <1>3 DEF Depth
  <2> QED BY <1>1, <2>1 DEF Refused
<1> QED BY <1>2, <1>3

\* Every step keeps the cursor shallow, and a dead job stays where it died.
LEMMA DepthStep == WindowsInv /\ DepthInv /\ [Next]_vars => DepthInv'
<1> SUFFICES ASSUME WindowsInv, DepthInv, [Next]_vars PROVE DepthInv'
  OBVIOUS
<1> USE DEF Requeue, Finish
<1>0. Depth(cursor)
  BY DEF DepthInv, Depth
<1>1. ASSUME cursor' = cursor, status' = "DEAD" => Cause'
      PROVE  DepthInv'
  BY <1>1 DEF DepthInv, Shallow
<1>2. ASSUME cursor' = cursor, status' # "DEAD" PROVE DepthInv'
  BY <1>1, <1>2
<1>3. ASSUME UNCHANGED <<pull, completed, remote, imported, cursor, signal, active, attempts>>
      PROVE  Cause => Cause'
  <2>1. UNCHANGED <<Listing, Order>>
    BY <1>3 DEF Listing, Order, PullUpdated, IssueUpdated, MergedOrder, In, Closed, OpenIssues,
       ReviewRows, Matching
  <2>2. UNCHANGED <<Capped, TooDense>>
    BY <1>3, <2>1 DEF Capped, TooDense
  <2>3. UNCHANGED Items
    BY <1>3, <2>1 DEF Items, Page
  <2>4. UNCHANGED InvalidSignal
    BY <1>3, <2>1, <2>3 DEF InvalidSignal, Continues
  <2> QED BY <1>3, <2>2, <2>4 DEF Cause, attempts
<1>4. CASE SplitWindow
  <2>1. cursor.stage = "WORKFLOW_RUNS" /\ cursor' = Split /\ ~TooDense /\ status' # "DEAD"
    BY <1>4 DEF SplitWindow, Capped, Working
  <2>2. Shallow(Split)
    BY <1>0, <2>1, SplitShallow DEF Depth
  <2>3. Split.stage = "WORKFLOW_RUNS"
    BY DEF Split, Window
  <2> QED BY <2>1, <2>2, <2>3 DEF DepthInv, Shallow
<1>5. CASE ImportPage
  <2>1. CASE InvalidSignal
    <3>1. cursor' = cursor /\ UNCHANGED <<pull, completed, remote, signal, active, attempts>>
      BY <1>5, <2>1 DEF ImportPage, fixed, github, repository
    <3>2. imported' = imported \cup Recent(Items \cap In("MERGED")) /\ cursor.stage = "PULL_REQUESTS"
      BY <1>5, <2>1 DEF ImportPage, StoreItems, InvalidSignal
    <3>3. Listing' = Listing /\ Order' = Order
      BY <3>1, <3>2 DEF Listing, Order, Closed, In, PullUpdated
    <3>4. Items' = Items
      BY <3>1, <3>3 DEF Items, Page
    <3>5. InvalidSignal'
      BY <2>1, <3>1, <3>2, <3>3, <3>4 DEF InvalidSignal, Continues
    <3> QED BY <1>1, <3>1, <3>5 DEF Cause
  <2>2. CASE ~InvalidSignal
    <3>1. status' # "DEAD" /\ (cursor' = cursor \/ cursor' = Following)
      BY <1>5, <2>2 DEF ImportPage, Working
    <3>2. CASE cursor' = Following
      <4>1. Depth(Following)
        BY <1>0, FollowingShallow
      <4> QED BY <3>1, <3>2, <4>1 DEF DepthInv, Depth, Shallow
    <3> QED BY <1>2, <3>1, <3>2
  <2> QED BY <2>1, <2>2
<1>6. CASE GiveUp
  <2>1. UNCHANGED <<pull, completed, remote, imported, cursor, signal, active, attempts>>
    BY <1>6 DEF GiveUp, fixed, github, mirror, pulls, repository
  <2>2. status' = "DEAD" => Cause
    BY <1>0, <1>6, NeverRefused DEF GiveUp, Cause
  <2> QED BY <1>1, <1>3, <2>1, <2>2
<1>7. CASE FailPage
  <2>1. cursor' = cursor /\ (status' = "DEAD" => Cause')
    BY <1>7 DEF FailPage, Working, Cause
  <2> QED BY <1>1, <2>1
<1>8. CASE ChangeIssue \/ CommentIssue \/ ChangePull \/ ChangeRun
  <2>1. Change
    BY <1>8 DEF ChangeIssue, CommentIssue, ChangePull, ChangeRun
  <2>2. cursor' = cursor /\ status' = "PENDING"
    BY <2>1 DEF Change, job
  <2> QED BY <1>2, <2>2
<1>9. CASE (\E p \in Pulls : HandleMerge(p)) \/ Withdraw
  <2>1. cursor' = cursor /\ status' = "PENDING"
    BY <1>9 DEF HandleMerge, Withdraw, job
  <2> QED BY <1>2, <2>1
<1>10. CASE (\E d \in deliveries : HandleIssue(d)) \/ UNCHANGED vars
  <2>1. UNCHANGED <<pull, completed, remote, imported, cursor, status, signal, active, attempts>>
    BY <1>10 DEF HandleIssue, vars, fixed, github, pulls, mirror, job, repository
  <2> QED BY <1>1, <1>3, <2>1 DEF DepthInv
<1> QED BY <1>4, <1>5, <1>6, <1>7, <1>8, <1>9, <1>10 DEF Next, Process

\* A job starts without windows.
LEMMA DepthInit == Init => DepthInv
<1> SUFFICES ASSUME Init PROVE DepthInv
  OBVIOUS
<1>1. InitialStage(mode) # "WORKFLOW_RUNS"
  BY DEF InitialStage
<1> QED BY <1>1 DEF Init, DepthInv, At

\* The invariant holds of every behaviour.
THEOREM DepthInvariance == Spec => []DepthInv
<1> QED BY DepthInit, DepthStep, WindowsInvariance, PTL DEF Spec

\* The 64 windows of a cursor (backfill_repository.py:549) are never outgrown, and a job that
\* dies does so of its integration, its attempts, a permanent error, the setting, or a second
\* that holds too many runs.
THEOREM CursorsAccepted == Spec => []CursorAccepted
<1>1. WindowsInv /\ DepthInv => CursorAccepted
  <2> SUFFICES ASSUME WindowsInv, DepthInv PROVE CursorAccepted
    OBVIOUS
  <2>1. ~Refused
    BY NeverRefused DEF DepthInv, Depth
  <2> QED BY <2>1 DEF DepthInv, Cause, CursorAccepted
<1> QED BY <1>1, WindowsInvariance, DepthInvariance, PTL

-----------------------------------------------------------------------------
(* Listings: ranks number the items without gaps, so a page that something *)
(* comes after is full.                                                    *)

\* An order of items, and a listing of some of them.
Ordered(key, D, S) == key \in [D -> Int] /\ D \subseteq Nat /\ S \subseteq D /\ IsFiniteSet(S)

\* A rank is below the number of items.
LEMMA RankBound ==
    ASSUME NEW key, NEW D, NEW S, Ordered(key, D, S), NEW x \in S
    PROVE  Rank(key, S, x) \in Nat /\ Cardinality(S) \in Nat /\ Rank(key, S, x) < Cardinality(S)
<1> DEFINE Before == {y \in S : Newer(key, y, x)}
<1>1. IsFiniteSet(S) /\ Cardinality(S) \in Nat
  BY FS_CardinalityType DEF Ordered
<1>2. IsFiniteSet(S \ {x}) /\ Cardinality(S \ {x}) = Cardinality(S) - 1
  BY <1>1, FS_RemoveElement
<1>3. key[x] \in Int /\ x \in Int
  BY DEF Ordered
<1>4. Before \in SUBSET (S \ {x})
  BY <1>3 DEF Newer
<1>5. Cardinality(Before) <= Cardinality(S \ {x}) /\ IsFiniteSet(Before)
  BY <1>2, <1>4, FS_Subset
<1>6. Cardinality(Before) \in Nat
  BY <1>5, FS_CardinalityType
<1> HIDE DEF Before
<1>7. Cardinality(Before) < Cardinality(S)
  BY <1>1, <1>2, <1>5, <1>6
<1> QED BY <1>1, <1>6, <1>7 DEF Rank, Before

\* The newer of two items has the lower rank.
LEMMA RankIncreases ==
    ASSUME NEW key, NEW D, NEW S, Ordered(key, D, S), NEW x \in S, NEW y \in S, Newer(key, y, x)
    PROVE  Rank(key, S, y) < Rank(key, S, x)
<1> DEFINE Before == {z \in S : Newer(key, z, y)}
           Later == {z \in S : Newer(key, z, x)}
<1>1. IsFiniteSet(Later) /\ Cardinality(Later) \in Nat
  BY FS_Subset, FS_CardinalityType DEF Ordered
<1>2. \A z \in S : key[z] \in Int /\ z \in Int
  BY DEF Ordered
<1>3. y \in Later /\ Before \in SUBSET (Later \ {y})
  <2>1. y \in Later
    OBVIOUS
  <2>2. \A z \in S : Newer(key, z, y) => Newer(key, z, x) /\ z # y
    BY <1>2 DEF Newer
  <2> QED BY <2>1, <2>2
<1>4. IsFiniteSet(Later \ {y}) /\ Cardinality(Later \ {y}) = Cardinality(Later) - 1
  BY <1>1, <1>3, FS_RemoveElement
<1>5. Cardinality(Before) <= Cardinality(Later \ {y}) /\ Cardinality(Before) \in Nat
  BY <1>3, <1>4, FS_Subset, FS_CardinalityType
<1> HIDE DEF Before, Later
<1>6. Cardinality(Before) < Cardinality(Later)
  BY <1>1, <1>4, <1>5
<1> QED BY <1>6 DEF Rank, Before, Later

\* Of two items one is newer.
LEMMA NewerTotal ==
    ASSUME NEW key, NEW D, NEW S, Ordered(key, D, S), NEW x \in S, NEW y \in S
    PROVE  x = y \/ Newer(key, x, y) \/ Newer(key, y, x)
<1>1. key[x] \in Int /\ key[y] \in Int /\ x \in Nat /\ y \in Nat
  BY DEF Ordered
<1> QED BY <1>1 DEF Newer

\* An item of a higher rank is no newer, and two items have two ranks.
LEMMA RankDecides ==
    ASSUME NEW key, NEW D, NEW S, Ordered(key, D, S), NEW x \in S, NEW y \in S
    PROVE  /\ Rank(key, S, y) < Rank(key, S, x) => key[x] <= key[y]
           /\ Rank(key, S, y) = Rank(key, S, x) => x = y
<1>1. Rank(key, S, x) \in Nat /\ Rank(key, S, y) \in Nat
  BY RankBound
<1>2. key[x] \in Int /\ key[y] \in Int
  BY DEF Ordered
<1>3. Newer(key, y, x) => key[x] <= key[y]
  BY <1>2 DEF Newer
<1>4. /\ Newer(key, y, x) => Rank(key, S, y) < Rank(key, S, x)
      /\ Newer(key, x, y) => Rank(key, S, x) < Rank(key, S, y)
  BY RankIncreases
<1>5. x = y \/ Newer(key, x, y) \/ Newer(key, y, x)
  BY NewerTotal
<1> QED BY <1>1, <1>3, <1>4, <1>5

\* Every number below the number of items is a rank.
LEMMA RankReached ==
    ASSUME NEW key, NEW D, NEW S, Ordered(key, D, S), NEW n \in Nat, n < Cardinality(S)
    PROVE  \E x \in S : Rank(key, S, x) = n
<1> DEFINE c == Cardinality(S)
           ranks == 0 .. c - 1
           f == [x \in S |-> Rank(key, S, x)]
<1>1. IsFiniteSet(S) /\ c \in Nat
  BY FS_CardinalityType DEF Ordered
<1>2. f \in [S -> ranks]
  <2> SUFFICES ASSUME NEW x \in S PROVE Rank(key, S, x) \in ranks
    OBVIOUS
  <2> QED BY RankBound
<1>3. \A x, y \in S : f[x] = f[y] => x = y
  BY RankDecides
<1>4. f \in Injection(S, ranks)
  BY <1>2, <1>3 DEF Injection, IsInjective
<1>5. IsFiniteSet(ranks) /\ Cardinality(ranks) = c
  <2> HIDE DEF c
  <2>1. c - 1 \in Int /\ 0 \in Int
    BY <1>1
  <2>2. /\ IsFiniteSet(ranks)
        /\ Cardinality(ranks) = IF 0 > c - 1 THEN 0 ELSE (c - 1) - 0 + 1
    BY <2>1, FS_Interval
  <2> QED BY <1>1, <2>2
<1>6. f \in Surjection(S, ranks)
  BY <1>4, <1>5, FS_Injection
<1>7. n \in ranks
  BY <1>1
<1> QED BY <1>6, <1>7 DEF Surjection

\* A page that an item comes after is full.
LEMMA PageFull ==
    ASSUME NEW key, NEW D, NEW S, Ordered(key, D, S), NEW k \in Nat \ {0}, NEW x \in S,
           Rank(key, S, x) >= k * PageSize
    PROVE  Full(Page(key, S, k))
<1> DEFINE low == (k - 1) * PageSize
           ranks == low .. k * PageSize - 1
           page == Page(key, S, k)
           f == [y \in page |-> Rank(key, S, y)]
<1>1. PageSize \in Nat \ {0} /\ low \in Nat /\ k * PageSize = low + PageSize
  BY BackfillAssumption
<1>2. f \in [page -> ranks] /\ page \in SUBSET S
  BY DEF Page
<1>3. f \in Injection(page, ranks)
  <2>1. \A y, z \in page : f[y] = f[z] => y = z
    BY <1>2, RankDecides
  <2> QED BY <1>2, <2>1 DEF Injection, IsInjective
<1>4. f \in Surjection(page, ranks)
  <2>1. \A n \in ranks : \E y \in page : f[y] = n
    <3> SUFFICES ASSUME NEW n \in ranks PROVE \E y \in page : f[y] = n
      OBVIOUS
    <3>1. n \in Nat /\ n < Cardinality(S)
      BY <1>1, RankBound
    <3>2. PICK y \in S : Rank(key, S, y) = n
      BY <3>1, RankReached
    <3> QED BY <3>2 DEF Page
  <2> QED BY <1>2, <2>1 DEF Surjection
<1>5. IsFiniteSet(ranks) /\ Cardinality(ranks) = PageSize
  <2> HIDE DEF low
  <2>1. IsFiniteSet(ranks) /\ Cardinality(ranks) =
            IF low > k * PageSize - 1 THEN 0 ELSE (k * PageSize - 1) - low + 1
    BY <1>1, FS_Interval
  <2> QED BY <1>1, <2>1
<1>6. Cardinality(page) = PageSize
  BY <1>3, <1>4, <1>5, FS_Injection
<1> QED BY <1>6 DEF Full

-----------------------------------------------------------------------------
(* What there was to import is imported, or still to come.                 *)

DeploymentStages ==
    CASE signal = "WORKFLOW_RUN" -> {"WORKFLOW_RUNS"}
      [] signal = "DEPLOYMENT" -> {"DEPLOYMENTS"}
      [] OTHER -> {}
StagesOfMode ==
    CASE mode = "full" -> {"OPEN_PULL_REQUESTS", "PULL_REQUESTS"} \cup DeploymentStages
      [] mode = "risk" -> {"OPEN_PULL_REQUESTS"}
      [] mode = "issues" -> {"ISSUES"}
      [] OTHER -> {"REVIEWS"}

\* The tables, GitHub and the payload hold what they should, in stages the mode has.
TypesInv ==
    /\ mode \in {"full", "risk", "issues", "reviews"}
    /\ signal \in {"WORKFLOW_RUN", "DEPLOYMENT", "PUSH", "INVALID"}
    /\ pull \in [Pulls -> PullRows] /\ completed \in SUBSET Runs
    /\ remote \in [Issues -> [state : {"OPEN", "CLOSED", "DELETED"}, updated : Int]]
    /\ imported \in SUBSET Pulls
    /\ owed \in [runs : SUBSET Runs, open : SUBSET Pulls, merged : SUBSET Pulls]
    /\ clock \in Int /\ Horizon <= clock
    /\ status \in {"PENDING", "SUCCEEDED", "DEAD"}
    /\ tracked \in BOOLEAN /\ drifted \in BOOLEAN
    /\ cursor.stage \in StagesOfMode

\* A pull request is merged before it is last updated, in the past.
Dated == \A p \in Pulls : pull[p].merged <= pull[p].updated /\ pull[p].updated <= clock

\* What is owed still is what it was.
OwedIs ==
    /\ \A r \in owed.runs : r \in completed /\ Cutoff <= Created[r] /\ Created[r] <= Horizon
    /\ owed.open \subseteq In("OPEN")
    /\ owed.merged \subseteq Recent(In("MERGED"))
    /\ \A p \in owed.merged : pull[p].merged <= Horizon

Pending == status = "PENDING"
Live == Pending \/ Completed

OpenInv ==
    Live /\ ~drifted /\ mode \in {"full", "risk"} =>
        \A p \in owed.open :
            p \in scored \/ (Pending /\ cursor.stage = "OPEN_PULL_REQUESTS" /\ p \in ToCome)

MergedInv ==
    Live /\ ~drifted /\ mode = "full" =>
        \A p \in owed.merged :
            \/ p \in imported
            \/ Pending /\ cursor.stage = "OPEN_PULL_REQUESTS"
            \/ Pending /\ cursor.stage = "PULL_REQUESTS" /\ p \in ToCome

RecalcInv == Completed /\ mode = "full" => recalculated

\* The run is of an instant in one of the pending windows.
Waiting(r) == \E i \in 1 .. Len(cursor.pending) :
                cursor.pending[i].start <= Created[r] /\ Created[r] <= cursor.pending[i].end

RunsInv ==
    Live /\ ~drifted /\ mode = "full" /\ signal # "PUSH" =>
        \A r \in owed.runs :
            \/ r \in deployments
            \/ Pending /\ cursor.stage \in {"OPEN_PULL_REQUESTS", "PULL_REQUESTS"}
            \/ Pending /\ cursor.stage \in {"WORKFLOW_RUNS", "DEPLOYMENTS"} /\ r \in ToCome
            \/ Pending /\ cursor.stage = "WORKFLOW_RUNS" /\ Waiting(r)

ReviewsInv ==
    mode = "reviews" =>
        /\ owed.merged \subseteq imported
        /\ \A p \in In("MERGED") \ imported : pull[p].merged > Horizon
        /\ Live => \A p \in owed.merged : p \in refreshed \/ (Pending /\ p \in ToCome)

\* The inductive invariant.
ImportInv == TypesInv /\ Dated /\ OwedIs /\ OpenInv /\ MergedInv /\ RecalcInv /\ RunsInv /\ ReviewsInv

-----------------------------------------------------------------------------
(* What the pages of a listing take.                                       *)

Universe ==
    IF cursor.stage \in {"OPEN_PULL_REQUESTS", "PULL_REQUESTS", "REVIEWS"} THEN Pulls
    ELSE IF cursor.stage = "ISSUES" THEN Issues ELSE Runs

\* Every listing is in an order.
LEMMA ListingOrdered == ASSUME TypesInv PROVE Ordered(Order, Universe, Listing)
<1>1. cursor.stage \in {"OPEN_PULL_REQUESTS", "PULL_REQUESTS", "WORKFLOW_RUNS", "DEPLOYMENTS",
                        "ISSUES", "REVIEWS"}
  BY DEF TypesInv, StagesOfMode, DeploymentStages
<1>2. /\ PullUpdated \in [Pulls -> Int] /\ MergedOrder \in [Pulls -> Int]
      /\ IssueUpdated \in [Issues -> Int] /\ Created \in [Runs -> Int]
  BY BackfillAssumption DEF TypesInv, PullUpdated, MergedOrder, IssueUpdated, PullRows
<1>3. Order \in [Universe -> Int]
  BY <1>1, <1>2 DEF Order, Universe
<1>4. Listing \in SUBSET Universe
  BY <1>1 DEF Listing, Universe, In, Closed, OpenIssues, ReviewRows, Matching, TypesInv
<1>5. Universe \subseteq Nat /\ IsFiniteSet(Universe)
  BY BackfillAssumption DEF Universe
<1> QED BY <1>3, <1>4, <1>5, FS_Subset DEF Ordered

\* What the pages after this one show.
Later ==
    {x \in Listing :
        /\ Rank(Order, Listing, x) >= cursor.page * PageSize
        /\ cursor.stage = "WORKFLOW_RUNS" => Rank(Order, Listing, x) < Cap}

\* What a listing is cut at: nothing of it is recent.
TooOld(x) ==
    \/ cursor.stage = "PULL_REQUESTS" /\ pull[x].updated < Cutoff
    \/ cursor.stage = "DEPLOYMENTS" /\ Created[x] < Cutoff

\* What is to come is on this page, or on one after it, or too old to matter.
LEMMA PageTakes ==
    ASSUME TypesInv, WindowsInv, ~Capped, NEW x \in ToCome
    PROVE  x \in Items \/ (Continues /\ x \in Later) \/ TooOld(x)
<1> DEFINE r == Rank(Order, Listing, x)
           page == Page(Order, Listing, cursor.page)
<1>1. /\ Ordered(Order, Universe, Listing) /\ x \in Listing
      /\ cursor.page \in Nat \ {0} /\ PageSize \in Nat \ {0} /\ Cap \in Nat
  BY ListingOrdered, BackfillAssumption DEF ToCome, WindowsInv, Cursors
<1>2. r \in Nat /\ Cardinality(Listing) \in Nat /\ r < Cardinality(Listing)
  BY <1>1, RankBound
<1>3. cursor.stage = "WORKFLOW_RUNS" => r < Cap
  <2>1. cursor.page # 1 => cursor.page > 1
    BY <1>1
  <2> QED BY <1>1, <1>2, <2>1 DEF ToCome, Capped
<1>4. CASE r < cursor.page * PageSize
  <2>1. r \in (cursor.page - 1) * PageSize .. cursor.page * PageSize - 1
    BY <1>1, <1>2, <1>4 DEF ToCome
  <2>2. x \in page
    BY <1>1, <2>1 DEF Page
  <2>3. cursor.stage = "WORKFLOW_RUNS" => Order = Created
    BY DEF Order
  <2> QED BY <1>3, <2>2, <2>3 DEF Items
<1>5. CASE r >= cursor.page * PageSize
  <2>1. Full(page)
    BY <1>1, <1>5, PageFull
  <2>2. ASSUME NEW y \in page
        PROVE  y \in Listing /\ Rank(Order, Listing, y) \in Nat /\ Rank(Order, Listing, y) < r
    <3>1. y \in Listing /\ Rank(Order, Listing, y) \in (cursor.page - 1) * PageSize
                                                       .. cursor.page * PageSize - 1
      BY DEF Page
    <3>2. Rank(Order, Listing, y) \in Nat
      BY <1>1, <3>1, RankBound
    <3> QED BY <1>1, <1>2, <1>5, <3>1, <3>2
  <2>3. Items = page
    <3>1. cursor.stage = "WORKFLOW_RUNS" => \A y \in page : Rank(Created, Listing, y) < Cap
      <4>1. cursor.stage = "WORKFLOW_RUNS" => Order = Created
        BY DEF Order
      <4> QED BY <1>1, <1>2, <1>3, <2>2, <4>1
    <3> QED BY <3>1 DEF Items
  <2>4. x \in Later
    BY <1>1, <1>3, <1>5 DEF Later
  <2>5. CASE cursor.stage = "WORKFLOW_RUNS"
    BY <1>1, <1>2, <1>5, <2>1, <2>3, <2>4, <2>5 DEF Continues
  <2>6. CASE cursor.stage = "PULL_REQUESTS"
    <3>1. CASE \A p \in Items : pull[p].updated >= Cutoff
      BY <2>1, <2>3, <2>4, <2>6, <3>1 DEF Continues
    <3>2. ASSUME NEW p \in Items, ~(pull[p].updated >= Cutoff) PROVE TooOld(x)
      <4>1. Order[x] <= Order[p] /\ p \in Listing
        BY <1>1, <2>2, <2>3, RankDecides
      <4>2. x \in Pulls /\ p \in Pulls
        BY <1>1, <2>6, <4>1 DEF Ordered, Universe
      <4>3. pull[x].updated <= pull[p].updated
        BY <2>6, <4>1, <4>2 DEF Order, PullUpdated
      <4>4. pull[x].updated \in Int /\ pull[p].updated \in Int /\ Cutoff \in Int
        BY <4>2, BackfillAssumption DEF TypesInv, PullRows
      <4> QED BY <2>6, <3>2, <4>3, <4>4 DEF TooOld
    <3> QED BY <3>1, <3>2
  <2>7. CASE cursor.stage = "DEPLOYMENTS"
    <3>1. CASE \A p \in Items : Created[p] >= Cutoff
      BY <2>1, <2>3, <2>4, <2>7, <3>1 DEF Continues
    <3>2. ASSUME NEW p \in Items, ~(Created[p] >= Cutoff) PROVE TooOld(x)
      <4>1. Order[x] <= Order[p] /\ p \in Listing
        BY <1>1, <2>2, <2>3, RankDecides
      <4>2. x \in Runs /\ p \in Runs
        BY <1>1, <2>7, <4>1 DEF Ordered, Universe
      <4>3. Created[x] <= Created[p]
        BY <2>7, <4>1, <4>2 DEF Order
      <4>4. Created[x] \in Int /\ Created[p] \in Int /\ Cutoff \in Int
        BY <4>2, BackfillAssumption
      <4> QED BY <2>7, <3>2, <4>3, <4>4 DEF TooOld
    <3> QED BY <3>1, <3>2
  <2>8. CASE cursor.stage \notin {"WORKFLOW_RUNS", "PULL_REQUESTS", "DEPLOYMENTS"}
    BY <2>1, <2>3, <2>4, <2>8 DEF Continues
  <2> QED BY <2>5, <2>6, <2>7, <2>8
<1> QED BY <1>1, <1>2, <1>4, <1>5

\* What a listing is read from.
Sources == <<pull, remote, completed>>

\* With the same page of the same listing, the same is to come.
LEMMA SameToCome ==
    ASSUME UNCHANGED <<Sources, cursor>>, cursor.stage = "REVIEWS" => imported' = imported
    PROVE  ToCome' = ToCome /\ Listing' = Listing
<1>1. Listing' = Listing
  BY DEF Sources, Listing, In, Closed, OpenIssues, ReviewRows, Matching
<1>2. Order' = Order
  BY DEF Sources, Order, PullUpdated, IssueUpdated, MergedOrder
<1> QED BY <1>1, <1>2 DEF ToCome

\* The next page has to come what was later.
LEMMA TurnedPage ==
    ASSUME WindowsInv, cursor' = NextPage, UNCHANGED Sources,
           cursor.stage = "REVIEWS" => imported' = imported
    PROVE  /\ Later \subseteq ToCome'
           /\ cursor'.stage = cursor.stage /\ cursor'.pending = cursor.pending
<1>1. /\ cursor'.stage = cursor.stage /\ cursor'.window = cursor.window
      /\ cursor'.pending = cursor.pending /\ cursor'.page = cursor.page + 1
      /\ cursor.page \in Nat
  BY DEF WindowsInv, Cursors, NextPage
<1>2. Listing' = Listing
  BY <1>1 DEF Sources, Listing, In, Closed, OpenIssues, ReviewRows, Matching
<1>3. Order' = Order
  BY <1>1 DEF Sources, Order, PullUpdated, IssueUpdated, MergedOrder
<1>4. (cursor'.page - 1) * PageSize = cursor.page * PageSize
  BY <1>1
<1> QED BY <1>1, <1>2, <1>3, <1>4 DEF ToCome, Later

\* On a first page everything is to come.
LEMMA FirstPage == TypesInv /\ cursor.page = 1 => ToCome = Listing
<1> SUFFICES ASSUME TypesInv, cursor.page = 1 PROVE ToCome = Listing
  OBVIOUS
<1>1. \A x \in Listing : Rank(Order, Listing, x) \in Nat
  BY ListingOrdered, RankBound
<1>2. (cursor.page - 1) * PageSize = 0
  BY BackfillAssumption
<1> QED BY <1>1, <1>2 DEF ToCome

-----------------------------------------------------------------------------
(* Each step keeps it.                                                     *)

\* What happens at GitHub between two pages.
Outside == ChangeIssue \/ CommentIssue \/ ChangePull \/ ChangeRun

\* Time goes on, what is merged stays merged, and what is merged now is dated now.
LEMMA Moves ==
    ASSUME TypesInv, Dated, Outside
    PROVE  /\ Change /\ clock' = clock + 1
           /\ pull' \in [Pulls -> PullRows] /\ completed' \in SUBSET Runs
           /\ remote' \in [Issues -> [state : {"OPEN", "CLOSED", "DELETED"}, updated : Int]]
           /\ \A p \in Pulls :
                /\ pull'[p].merged <= pull'[p].updated /\ pull'[p].updated <= clock'
                /\ IF pull[p].state = "MERGED"
                   THEN pull'[p].state = "MERGED" /\ pull'[p].merged = pull[p].merged
                   ELSE pull'[p].state = "MERGED" => pull'[p].merged = clock + 1
<1>1. Change /\ clock' = clock + 1 /\ clock \in Int
  BY DEF Outside, ChangeIssue, CommentIssue, ChangePull, ChangeRun, Change, TypesInv
<1>2. \A p \in Pulls : /\ pull[p] \in PullRows /\ pull[p].merged \in Int /\ pull[p].updated \in Int
                       /\ pull[p].merged <= pull[p].updated /\ pull[p].updated <= clock
  BY DEF TypesInv, PullRows, Dated
<1>3. CASE ChangePull
  <2>1. PICK p \in Pulls :
          \/ pull' = [pull EXCEPT ![p].updated = clock + 1]
          \/ /\ pull[p].state = "OPEN"
             /\ pull' = [pull EXCEPT ![p] = [state |-> "MERGED", updated |-> clock + 1,
                                             merged |-> clock + 1]]
    BY <1>3 DEF ChangePull
  <2>2. /\ pull' \in [Pulls -> PullRows]
        /\ \A q \in Pulls \ {p} : pull'[q] = pull[q]
        /\ pull'[p].updated = clock + 1
        /\ \/ pull'[p].state = pull[p].state /\ pull'[p].merged = pull[p].merged
           \/ pull[p].state = "OPEN" /\ pull'[p].merged = clock + 1
    BY <1>1, <1>2, <2>1 DEF TypesInv, PullRows
  <2>3. UNCHANGED <<remote, completed>>
    BY <1>3 DEF ChangePull
  <2>4. \A q \in Pulls :
          /\ pull'[q].merged <= pull'[q].updated /\ pull'[q].updated <= clock'
          /\ IF pull[q].state = "MERGED"
             THEN pull'[q].state = "MERGED" /\ pull'[q].merged = pull[q].merged
             ELSE pull'[q].state = "MERGED" => pull'[q].merged = clock + 1
    BY <1>1, <1>2, <2>2
  <2> QED BY <1>1, <2>2, <2>3, <2>4 DEF TypesInv
<1>4. CASE ~ChangePull
  <2>1. pull' = pull
    BY <1>4 DEF Outside, ChangeIssue, CommentIssue, ChangeRun, IssueBecomes
  <2>2. completed' \in SUBSET Runs
    BY <1>4 DEF Outside, ChangeIssue, CommentIssue, ChangeRun, IssueBecomes, TypesInv
  <2>3. remote' \in [Issues -> [state : {"OPEN", "CLOSED", "DELETED"}, updated : Int]]
    BY <1>1, <1>4 DEF Outside, ChangeIssue, CommentIssue, ChangeRun, IssueBecomes, TypesInv,
       OpenIssues
  <2>4. \A q \in Pulls :
          /\ pull'[q].merged <= pull'[q].updated /\ pull'[q].updated <= clock'
          /\ pull'[q].state = pull[q].state /\ pull'[q].merged = pull[q].merged
    BY <1>1, <1>2, <2>1
  <2>5. \A q \in Pulls : pull'[q].state = "MERGED" => pull[q].state = "MERGED"
    BY <2>4
  <2> QED BY <1>1, <2>1, <2>2, <2>3, <2>4, <2>5 DEF TypesInv
<1> QED BY <1>3, <1>4

\* The step keeps the types ...
LEMMA OutsideTyped ==
    ASSUME TypesInv, Dated, OwedIs, Outside
    PROVE  TypesInv' /\ Dated' /\ OwedIs'
<1>1. /\ Change /\ clock' = clock + 1 /\ clock \in Int /\ Horizon \in Int
      /\ UNCHANGED <<mode, signal, imported, cursor, status, tracked>>
      /\ owed' = [owed EXCEPT !.runs = @ \cap completed', !.open = @ \cap In("OPEN")']
      /\ drifted' \in BOOLEAN
  BY Moves, BackfillAssumption DEF Change, fixed, mirror, pulls, job, repository, TypesInv
<1>2. /\ owed'.runs = owed.runs \cap completed' /\ owed'.open = owed.open \cap In("OPEN")'
      /\ owed'.merged = owed.merged
      /\ owed' \in [runs : SUBSET Runs, open : SUBSET Pulls, merged : SUBSET Pulls]
  BY <1>1 DEF TypesInv
<1>3. TypesInv'
  BY <1>1, <1>2, Moves DEF TypesInv, StagesOfMode, DeploymentStages
<1>4. Dated'
  BY Moves DEF Dated
<1>5. OwedIs'
  <2>1. \A p \in owed.merged : pull'[p].state = "MERGED" /\ pull'[p].merged = pull[p].merged
    BY Moves DEF OwedIs, Recent, In
  <2> QED BY <1>2, <2>1 DEF OwedIs, Recent, In, TypesInv
<1> QED BY <1>3, <1>4, <1>5

\* ... and with the payload unchanged, so do the others.
LEMMA StillTyped ==
    ASSUME TypesInv, Dated, OwedIs, UNCHANGED <<fixed, github, owed, drifted>>,
           imported' \in SUBSET Pulls, clock' \in Int, clock <= clock',
           status' \in {"PENDING", "SUCCEEDED", "DEAD"}, tracked' \in BOOLEAN,
           cursor'.stage \in StagesOfMode
    PROVE  TypesInv' /\ Dated' /\ OwedIs'
<1>1. StagesOfMode' = StagesOfMode
  BY DEF StagesOfMode, DeploymentStages, fixed
<1>2. TypesInv'
  BY <1>1, BackfillAssumption DEF TypesInv, fixed, github
<1>3. Dated'
  <2>1. \A p \in Pulls : pull[p].updated \in Int
    BY DEF TypesInv, PullRows
  <2> QED BY <2>1 DEF Dated, TypesInv, github
<1>4. OwedIs'
  BY DEF OwedIs, Recent, In, github
<1> QED BY <1>2, <1>3, <1>4

\* What a page stores only adds.
LEMMA Stored ==
    ASSUME TypesInv, NEW items, items \subseteq Listing, StoreItems(items)
    PROVE  /\ imported \subseteq imported' /\ imported' \in SUBSET Pulls
           /\ scored \subseteq scored' /\ refreshed \subseteq refreshed'
           /\ deployments \subseteq deployments'
           /\ cursor.stage = "REVIEWS" => imported' = imported
<1>1. imported' \in SUBSET Pulls
  BY DEF StoreItems, Listing, In, Closed, Recent, TypesInv
<1> QED BY <1>1 DEF StoreItems

\* The stage that follows is one of the mode's, unless the job is done.
LEMMA FollowingStage ==
    ASSUME TypesInv, WindowsInv, Following # Done
    PROVE  Following.stage \in StagesOfMode
<1>1. CASE Continues
  <2>1. Following.stage = cursor.stage
    BY <1>1 DEF Following, NextPage, WindowsInv, Cursors
  <2> QED BY <2>1 DEF TypesInv
<1>2. CASE ~Continues
  BY <1>2 DEF Following, At, Window, DeploymentStage, NextWindow, TypesInv, StagesOfMode,
     DeploymentStages
<1> QED BY <1>1, <1>2

\* What the job still has to do with GitHub's changes: what was to come still is, unless
\* the listing moved.
LEMMA OutsideKeeps ==
    ASSUME ImportInv, Outside
    PROVE  OpenInv' /\ MergedInv' /\ RecalcInv' /\ RunsInv'
<1>1. /\ Change /\ status = "PENDING" /\ Pending /\ Pending' /\ ~Completed'
      /\ UNCHANGED <<mode, signal, cursor, scored, imported, deployments>>
      /\ owed' = [owed EXCEPT !.runs = @ \cap completed', !.open = @ \cap In("OPEN")']
  BY Moves DEF ImportInv, Change, fixed, mirror, pulls, job, Pending, Completed
<1>2. /\ owed'.runs = owed.runs \cap completed' /\ owed'.open = owed.open \cap In("OPEN")'
      /\ owed'.merged = owed.merged
  BY <1>1 DEF ImportInv, TypesInv
<1>3. ASSUME ~drifted' PROVE ~drifted /\ \A x \in ToCome : x \in Listing' => x \in ToCome'
  BY <1>1, <1>3 DEF Change
<1>4. OpenInv'
  <2> SUFFICES ASSUME ~drifted', mode \in {"full", "risk"}, NEW p \in owed'.open
               PROVE  p \in scored \/ (cursor.stage = "OPEN_PULL_REQUESTS" /\ p \in ToCome')
    BY <1>1 DEF OpenInv
  <2>1. p \in scored \/ (cursor.stage = "OPEN_PULL_REQUESTS" /\ p \in ToCome)
    BY <1>1, <1>2, <1>3 DEF ImportInv, OpenInv, Live
  <2>2. cursor.stage = "OPEN_PULL_REQUESTS" => p \in Listing'
    BY <1>1, <1>2 DEF Listing
  <2> QED BY <1>3, <2>1, <2>2
<1>5. MergedInv'
  <2> SUFFICES ASSUME ~drifted', mode = "full", NEW p \in owed'.merged
               PROVE  \/ p \in imported
                      \/ cursor.stage = "OPEN_PULL_REQUESTS"
                      \/ cursor.stage = "PULL_REQUESTS" /\ p \in ToCome'
    BY <1>1 DEF MergedInv
  <2>1. \/ p \in imported
        \/ cursor.stage = "OPEN_PULL_REQUESTS"
        \/ cursor.stage = "PULL_REQUESTS" /\ p \in ToCome
    BY <1>1, <1>2, <1>3 DEF ImportInv, MergedInv, Live
  <2>2. p \in Pulls /\ pull'[p].state = "MERGED"
    BY <1>2, Moves DEF ImportInv, OwedIs, Recent, In
  <2>3. cursor.stage = "PULL_REQUESTS" => p \in Listing'
    BY <1>1, <2>2 DEF Listing, Closed, In
  <2> QED BY <1>3, <2>1, <2>3
<1>6. RunsInv'
  <2> SUFFICES ASSUME ~drifted', mode = "full", signal # "PUSH", NEW r \in owed'.runs
               PROVE  \/ r \in deployments
                      \/ cursor.stage \in {"OPEN_PULL_REQUESTS", "PULL_REQUESTS"}
                      \/ cursor.stage \in {"WORKFLOW_RUNS", "DEPLOYMENTS"} /\ r \in ToCome'
                      \/ cursor.stage = "WORKFLOW_RUNS" /\ Waiting(r)
    BY <1>1 DEF RunsInv, Waiting
  <2>1. \/ r \in deployments
        \/ cursor.stage \in {"OPEN_PULL_REQUESTS", "PULL_REQUESTS"}
        \/ cursor.stage \in {"WORKFLOW_RUNS", "DEPLOYMENTS"} /\ r \in ToCome
        \/ cursor.stage = "WORKFLOW_RUNS" /\ Waiting(r)
    BY <1>1, <1>2, <1>3 DEF ImportInv, RunsInv, Live
  <2>2. r \in completed'
    BY <1>2
  <2>3. ASSUME cursor.stage \in {"WORKFLOW_RUNS", "DEPLOYMENTS"}, r \in ToCome
        PROVE  r \in Listing'
    <3>1. r \in Listing
      BY <2>3 DEF ToCome
    <3> QED BY <1>1, <2>2, <2>3, <3>1 DEF Listing, Matching
  <2> QED BY <1>3, <2>1, <2>3
<1>7. RecalcInv'
  BY <1>1 DEF RecalcInv
<1> QED BY <1>4, <1>5, <1>6, <1>7

\* Reviews keep their places: rows that are added are of later merges.
LEMMA PlacesKept ==
    ASSUME TypesInv, OwedIs, mode = "reviews", cursor' = cursor,
           pull' \in [Pulls -> PullRows], imported' \in SUBSET Pulls,
           ReviewRows \subseteq ReviewRows',
           \A p \in ReviewRows : pull'[p].merged = pull[p].merged,
           \A p \in ReviewRows' \ ReviewRows : pull'[p].merged > Horizon,
           NEW x \in owed.merged, x \in ToCome
    PROVE  x \in ToCome'
<1>1. /\ cursor.stage = "REVIEWS" /\ Listing = ReviewRows /\ Listing' = ReviewRows'
      /\ Order = MergedOrder /\ Order' = MergedOrder'
  <2>1. cursor.stage = "REVIEWS" /\ cursor'.stage = "REVIEWS"
    BY DEF TypesInv, StagesOfMode
  <2> QED BY <2>1 DEF Listing, Order
<1>2. x \in ReviewRows /\ x \in ReviewRows' /\ x \in Pulls
  BY <1>1 DEF ToCome, ReviewRows, TypesInv
<1>3. \A y \in ReviewRows' : y \in Pulls /\ pull'[y].merged \in Int
  BY DEF ReviewRows, PullRows
<1>4. \A y \in Pulls : pull[y].merged \in Int
  BY DEF TypesInv, PullRows
<1>5. pull[x].merged <= Horizon /\ pull'[x].merged = pull[x].merged /\ Horizon \in Int
  BY <1>2, BackfillAssumption DEF OwedIs
<1>6. \A y \in Pulls : /\ MergedOrder[y] = -pull[y].merged
                       /\ MergedOrder'[y] = -pull'[y].merged
  BY DEF MergedOrder
<1>7. ASSUME NEW y \in ReviewRows
      PROVE  Newer(MergedOrder', y, x) <=> Newer(MergedOrder, y, x)
  <2>1. y \in Pulls /\ pull'[y].merged = pull[y].merged
    BY <1>3
  <2> QED BY <1>2, <1>5, <1>6, <2>1 DEF Newer
<1>8. ASSUME NEW y \in ReviewRows' \ ReviewRows PROVE ~Newer(MergedOrder', y, x)
  <2>1. y \in Pulls /\ pull'[y].merged \in Int /\ pull'[y].merged > Horizon
    BY <1>3
  <2>2. pull'[x].merged < pull'[y].merged /\ pull'[x].merged \in Int
    BY <1>2, <1>4, <1>5, <2>1
  <2>3. MergedOrder'[y] = -pull'[y].merged /\ MergedOrder'[x] = -pull'[x].merged
    BY <1>2, <1>6, <2>1
  <2> QED BY <2>1, <2>2, <2>3 DEF Newer
<1>9. {y \in ReviewRows' : Newer(MergedOrder', y, x)} = {y \in ReviewRows : Newer(MergedOrder, y, x)}
  BY <1>7, <1>8
<1>10. Rank(MergedOrder', ReviewRows', x) = Rank(MergedOrder, ReviewRows, x)
  BY <1>9 DEF Rank
<1> QED BY <1>1, <1>2, <1>10 DEF ToCome

\* Neither GitHub's changes nor a merge that is handled meanwhile lose a review.
LEMMA ReviewsKept ==
    ASSUME ImportInv, Outside \/ \E p \in Pulls : HandleMerge(p)
    PROVE  ReviewsInv'
<1> SUFFICES ASSUME mode' = "reviews"
             PROVE  /\ owed'.merged \subseteq imported'
                    /\ \A p \in In("MERGED")' \ imported' : pull'[p].merged > Horizon
                    /\ \A p \in owed'.merged : p \in refreshed' \/ (Pending' /\ p \in ToCome')
  BY DEF ReviewsInv
<1>1. /\ mode = "reviews" /\ Pending /\ Pending' /\ UNCHANGED <<cursor, refreshed>>
      /\ owed'.merged = owed.merged /\ imported \subseteq imported' /\ imported' \in SUBSET Pulls
      /\ pull' \in [Pulls -> PullRows] /\ clock \in Int /\ Horizon \in Int /\ Horizon <= clock
  <2>1. CASE Outside
    BY <2>1, Moves, BackfillAssumption DEF ImportInv, Change, fixed, mirror, pulls, job, Pending,
       TypesInv
  <2>2. CASE \E p \in Pulls : HandleMerge(p)
    BY <2>2, BackfillAssumption DEF ImportInv, HandleMerge, fixed, github, ghosts, job, Pending,
       TypesInv
  <2> QED BY <2>1, <2>2
<1>2. /\ owed.merged \subseteq imported
      /\ \A p \in In("MERGED") \ imported : pull[p].merged > Horizon
      /\ \A p \in owed.merged : p \in refreshed \/ p \in ToCome
  BY <1>1 DEF ImportInv, ReviewsInv, Live
<1>3. /\ \A p \in Pulls : pull[p].state = "MERGED" =>
            pull'[p].state = "MERGED" /\ pull'[p].merged = pull[p].merged
      /\ \A p \in Pulls : pull'[p].state = "MERGED" /\ pull[p].state # "MERGED" =>
            pull'[p].merged > Horizon
  <2>1. CASE Outside
    <3>1. clock + 1 > Horizon
      BY <1>1
    <3> QED BY <2>1, <3>1, Moves DEF ImportInv
  <2>2. CASE \E p \in Pulls : HandleMerge(p)
    BY <2>2 DEF HandleMerge, github
  <2> QED BY <2>1, <2>2
<1>4. \A p \in In("MERGED")' \ imported' : pull'[p].merged > Horizon
  BY <1>1, <1>2, <1>3 DEF In
<1>5. /\ ReviewRows \subseteq ReviewRows'
      /\ \A p \in ReviewRows : pull'[p].merged = pull[p].merged
  BY <1>1, <1>3 DEF ReviewRows, ImportInv, TypesInv
<1>6. \A p \in ReviewRows' \ ReviewRows : pull'[p].merged > Horizon
  <2> SUFFICES ASSUME NEW p \in ReviewRows', p \notin ReviewRows PROVE pull'[p].merged > Horizon
    OBVIOUS
  <2>1. p \in imported' /\ pull'[p].state = "MERGED" /\ pull'[p].merged >= Cutoff /\ p \in Pulls
    BY <1>1 DEF ReviewRows
  <2>2. CASE pull[p].state # "MERGED"
    BY <1>3, <2>1, <2>2
  <2>3. CASE pull[p].state = "MERGED"
    <3>1. p \notin imported
      BY <1>3, <2>1, <2>3 DEF ReviewRows
    <3> QED BY <1>2, <1>3, <2>1, <2>3, <3>1 DEF In
  <2> QED BY <2>2, <2>3
<1>7. ASSUME NEW p \in owed.merged PROVE p \in refreshed' \/ p \in ToCome'
  BY <1>1, <1>2, <1>5, <1>6, PlacesKept DEF ImportInv
<1> QED BY <1>1, <1>2, <1>4, <1>7

\* What a page leaves alone, and what it adds.
LEMMA PageStores ==
    ASSUME ImportInv, WindowsInv, ImportPage
    PROVE  /\ Pending /\ tracked /\ ~Capped /\ UNCHANGED <<fixed, github, tracked, owed, drifted>>
           /\ StoreItems(Items) /\ Items \subseteq Listing
           /\ imported \subseteq imported' /\ scored \subseteq scored'
           /\ refreshed \subseteq refreshed' /\ deployments \subseteq deployments'
           /\ imported' \in SUBSET Pulls
           /\ cursor.stage = "REVIEWS" => imported' = imported
           /\ InvalidSignal => cursor' = cursor /\ status' = "DEAD"
           /\ ~InvalidSignal =>
                IF Following # Done THEN cursor' = Following /\ status' = "PENDING"
                ELSE /\ cursor' = cursor /\ status' = "SUCCEEDED"
                     /\ recalculated' = (mode \in {"full", "reviews"})
<1>1. /\ Pending /\ tracked /\ ~Capped /\ UNCHANGED <<fixed, github, tracked, owed, drifted>>
      /\ StoreItems(Items)
  BY DEF ImportPage, Working, Pending, ghosts, repository
<1>2. Items \subseteq Listing
  BY DEF Items, Page
<1>3. /\ InvalidSignal => cursor' = cursor /\ status' = "DEAD"
      /\ ~InvalidSignal =>
            IF Following # Done THEN cursor' = Following /\ status' = "PENDING"
            ELSE /\ cursor' = cursor /\ status' = "SUCCEEDED"
                 /\ recalculated' = (mode \in {"full", "reviews"})
  BY DEF ImportPage, Requeue, Finish, Working
<1> QED BY <1>1, <1>2, <1>3, Stored DEF ImportInv

\* A listing that goes on does so on its next page.
LEMMA GoesOn ==
    ASSUME ImportInv, WindowsInv, ImportPage, Continues
    PROVE  /\ Pending' /\ Later \subseteq ToCome'
           /\ cursor'.stage = cursor.stage /\ cursor'.pending = cursor.pending
<1>1. Following = NextPage /\ NextPage.stage = cursor.stage
  BY DEF Following, NextPage, WindowsInv, Cursors
<1>2. cursor.stage # "DONE" /\ Done.stage = "DONE"
  BY DEF ImportInv, TypesInv, StagesOfMode, DeploymentStages, Done, At
<1>3. cursor' = NextPage /\ status' = "PENDING"
  BY <1>1, <1>2, PageStores DEF InvalidSignal
<1>4. UNCHANGED Sources /\ (cursor.stage = "REVIEWS" => imported' = imported)
  BY PageStores DEF Sources, github
<1> QED BY <1>3, <1>4, TurnedPage DEF Pending

\* A listing that is over leads to the next stage, whose first page is all to come.
LEMMA Begins ==
    ASSUME ImportInv, WindowsInv, ImportPage, Live', ~Continues, TypesInv', Following # Done
    PROVE  /\ Pending' /\ cursor' = Following /\ cursor'.page = 1 /\ ToCome' = Listing'
<1>1. Pending' /\ cursor' = Following
  BY PageStores DEF Live, Pending, Completed
<1>2. cursor'.page = 1
  BY <1>1 DEF Following, At, Window, NextWindow, DeploymentStage, Done
<1>3. (TypesInv /\ cursor.page = 1 => ToCome = Listing)'
  BY FirstPage, PTL
<1> QED BY <1>1, <1>2, <1>3

\* A page keeps the types.
LEMMA PageTyped ==
    ASSUME ImportInv, WindowsInv, ImportPage
    PROVE  TypesInv' /\ Dated' /\ OwedIs'
<1>1. clock \in Int /\ clock' \in Int /\ clock <= clock'
  BY DEF ImportInv, TypesInv, ImportPage, SyncStart
<1>2. status' \in {"PENDING", "SUCCEEDED", "DEAD"} /\ tracked' \in BOOLEAN
  BY PageStores DEF ImportInv, TypesInv
<1>3. cursor'.stage \in StagesOfMode
  <2>1. CASE Following # Done /\ ~InvalidSignal
    BY <2>1, PageStores, FollowingStage DEF ImportInv
  <2>2. CASE Following = Done \/ InvalidSignal
    BY <2>2, PageStores DEF ImportInv, TypesInv
  <2> QED BY <2>1, <2>2
<1> QED BY <1>1, <1>2, <1>3, PageStores, StillTyped DEF ImportInv

\* The open pull requests of a page are scored.
LEMMA PageOpen ==
    ASSUME ImportInv, WindowsInv, ImportPage
    PROVE  OpenInv'
<1> SUFFICES ASSUME Live', ~drifted', mode' \in {"full", "risk"}, NEW p \in owed'.open
             PROVE  \/ p \in scored'
                    \/ Pending' /\ cursor'.stage = "OPEN_PULL_REQUESTS" /\ p \in ToCome'
  BY DEF OpenInv
<1>1. /\ ~drifted /\ mode \in {"full", "risk"} /\ p \in owed.open /\ Pending /\ ~Capped
      /\ StoreItems(Items)
  BY PageStores DEF fixed
<1>2. CASE p \in scored
  BY <1>2, PageStores
<1>3. CASE p \notin scored
  <2>1. cursor.stage = "OPEN_PULL_REQUESTS" /\ p \in ToCome
    BY <1>1, <1>3 DEF ImportInv, OpenInv, Live
  <2>2. p \in Items \/ (Continues /\ p \in Later)
    BY <1>1, <2>1, PageTakes DEF ImportInv, TooOld
  <2>3. p \in Items => p \in scored'
    BY <1>1, <2>1 DEF StoreItems
  <2> QED BY <2>1, <2>2, <2>3, GoesOn
<1> QED BY <1>2, <1>3

\* The recent merges of a page are imported; what the listing is cut at has none.
LEMMA PageMerged ==
    ASSUME ImportInv, WindowsInv, ImportPage
    PROVE  MergedInv'
<1> SUFFICES ASSUME Live', ~drifted', mode' = "full", NEW p \in owed'.merged
             PROVE  \/ p \in imported'
                    \/ Pending' /\ cursor'.stage = "OPEN_PULL_REQUESTS"
                    \/ Pending' /\ cursor'.stage = "PULL_REQUESTS" /\ p \in ToCome'
  BY DEF MergedInv
<1>1. /\ ~drifted /\ mode = "full" /\ p \in owed.merged /\ Pending /\ ~Capped
      /\ StoreItems(Items) /\ UNCHANGED <<pull>> /\ TypesInv'
  BY PageStores, PageTyped DEF fixed, github
<1>2. p \in Pulls /\ pull[p].state = "MERGED" /\ pull[p].merged >= Cutoff /\ pull[p] \in PullRows
  BY <1>1 DEF ImportInv, OwedIs, Recent, In, TypesInv
<1>3. CASE p \in imported
  BY <1>3, PageStores
<1>4. CASE cursor.stage = "OPEN_PULL_REQUESTS"
  <2>1. CASE Continues
    BY <1>4, <2>1, GoesOn
  <2>2. CASE ~Continues
    <3>1. Following = At("PULL_REQUESTS", 1) /\ Following # Done
      BY <1>1, <1>4, <2>2 DEF Following, At, Done
    <3>2. Pending' /\ cursor' = Following /\ ToCome' = Listing'
      BY <1>1, <2>2, <3>1, Begins
    <3>3. cursor'.stage = "PULL_REQUESTS"
      BY <3>1, <3>2 DEF At
    <3>4. p \in Listing'
      BY <1>1, <1>2, <3>3 DEF Listing, Closed, In
    <3> QED BY <3>2, <3>3, <3>4
  <2> QED BY <2>1, <2>2
<1>5. CASE p \notin imported /\ cursor.stage # "OPEN_PULL_REQUESTS"
  <2>1. cursor.stage = "PULL_REQUESTS" /\ p \in ToCome
    BY <1>1, <1>5 DEF ImportInv, MergedInv, Live
  <2>2. p \in Items \/ (Continues /\ p \in Later) \/ TooOld(p)
    BY <1>1, PageTakes, <2>1 DEF ImportInv
  <2>3. p \in Items => p \in imported'
    BY <1>1, <1>2, <2>1 DEF StoreItems, Recent, In
  <2>4. ~TooOld(p)
    <3>1. pull[p].merged <= pull[p].updated /\ pull[p].merged \in Int /\ pull[p].updated \in Int
          /\ Cutoff \in Int
      BY <1>2, BackfillAssumption DEF ImportInv, Dated, PullRows
    <3> QED BY <1>2, <2>1, <3>1 DEF TooOld
  <2> QED BY <2>1, <2>2, <2>3, <2>4, GoesOn
<1> QED BY <1>3, <1>4, <1>5

\* The runs of a page are normalized; those of a pending window wait for it.
LEMMA PageRuns ==
    ASSUME ImportInv, WindowsInv, ImportPage
    PROVE  RunsInv'
<1> SUFFICES ASSUME Live', ~drifted', mode' = "full", signal' # "PUSH", NEW r \in owed'.runs
             PROVE  \/ r \in deployments'
                    \/ Pending' /\ cursor'.stage \in {"OPEN_PULL_REQUESTS", "PULL_REQUESTS"}
                    \/ /\ Pending' /\ cursor'.stage \in {"WORKFLOW_RUNS", "DEPLOYMENTS"}
                       /\ r \in ToCome'
                    \/ Pending' /\ cursor'.stage = "WORKFLOW_RUNS" /\ Waiting(r)'
  BY DEF RunsInv
<1>1. /\ ~drifted /\ mode = "full" /\ signal # "PUSH" /\ r \in owed.runs /\ Pending /\ ~Capped
      /\ StoreItems(Items) /\ UNCHANGED <<completed>> /\ TypesInv'
  BY PageStores, PageTyped DEF fixed, github
<1>2. /\ r \in Runs /\ r \in completed /\ Created[r] \in Int
      /\ Cutoff <= Created[r] /\ Created[r] <= Horizon /\ Cutoff \in Int /\ Horizon \in Int
  BY <1>1, BackfillAssumption DEF ImportInv, OwedIs, TypesInv
<1>3. CASE r \in deployments
  BY <1>3, PageStores
<1>4. CASE Continues /\ cursor.stage \in {"OPEN_PULL_REQUESTS", "PULL_REQUESTS"}
  BY <1>4, GoesOn
<1>5. CASE ~Continues /\ cursor.stage = "OPEN_PULL_REQUESTS"
  <2>1. Following = At("PULL_REQUESTS", 1) /\ Following # Done
    BY <1>1, <1>5 DEF Following, At, Done
  <2> QED BY <1>1, <1>5, <2>1, Begins DEF At
<1>6. CASE ~Continues /\ cursor.stage = "PULL_REQUESTS"
  <2>1. Following = DeploymentStage
    BY <1>6 DEF Following
  <2>2. signal \in {"WORKFLOW_RUN", "DEPLOYMENT"}
    <3>1. ~InvalidSignal
      BY PageStores DEF Live, Pending, Completed
    <3> QED BY <1>1, <1>6, <3>1 DEF ImportInv, TypesInv, InvalidSignal
  <2>3. Following # Done /\ Following.stage \in {"WORKFLOW_RUNS", "DEPLOYMENTS"}
        /\ (Following.stage = "WORKFLOW_RUNS" => Following.window = Whole)
    BY <2>1, <2>2 DEF DeploymentStage, Window, At, Done
  <2>4. Pending' /\ cursor' = Following /\ ToCome' = Listing'
    BY <1>1, <1>6, <2>3, Begins
  <2>5. r \in Listing'
    BY <1>1, <1>2, <2>3, <2>4 DEF Listing, Matching, Whole
  <2> QED BY <2>3, <2>4, <2>5
<1>7. CASE cursor.stage \in {"WORKFLOW_RUNS", "DEPLOYMENTS"} /\ r \in ToCome
  <2>1. r \in Items \/ (Continues /\ r \in Later)
    BY <1>1, <1>2, <1>7, PageTakes DEF ImportInv, TooOld
  <2>2. r \in Items => r \in deployments'
    BY <1>1, <1>2, <1>7 DEF StoreItems
  <2> QED BY <1>7, <2>1, <2>2, GoesOn
<1>8. CASE cursor.stage = "WORKFLOW_RUNS" /\ Waiting(r)
  <2>1. PICK i \in 1 .. Len(cursor.pending) :
          cursor.pending[i].start <= Created[r] /\ Created[r] <= cursor.pending[i].end
    BY <1>8 DEF Waiting
  <2>2. CASE Continues
    BY <1>8, <2>1, <2>2, GoesOn DEF Waiting
  <2>3. CASE ~Continues
    <3> DEFINE p == cursor.pending
    <3>1. p \in Seq(Windows) /\ p # << >> /\ Len(p) \in Nat
      BY <2>1 DEF WindowsInv, Cursors
    <3>2. Following = Window(Head(p), Tail(p)) /\ Following # Done
      BY <1>8, <2>3, <3>1 DEF Following, NextWindow, Window, Done, At
    <3>3. Pending' /\ cursor' = Following /\ ToCome' = Listing'
      BY <1>1, <2>3, <3>2, Begins
    <3>4. cursor'.stage = "WORKFLOW_RUNS" /\ cursor'.window = p[1] /\ cursor'.pending = Tail(p)
      BY <3>1, <3>2, <3>3 DEF Window
    <3>5. CASE i = 1
      <4>1. r \in Listing'
        BY <1>1, <1>2, <2>1, <3>4, <3>5 DEF Listing, Matching
      <4> QED BY <3>3, <3>4, <4>1
    <3>6. CASE i # 1
      <4>1. i - 1 \in 1 .. Len(Tail(p)) /\ Tail(p)[i - 1] = p[i]
        BY <2>1, <3>1, <3>6
      <4> QED BY <2>1, <3>3, <3>4, <4>1 DEF Waiting
    <3> QED BY <3>5, <3>6
  <2> QED BY <2>2, <2>3
<1> QED BY <1>1, <1>3, <1>4, <1>5, <1>6, <1>7, <1>8 DEF ImportInv, RunsInv, Live

\* The reviews of a page are refreshed.
LEMMA PageReviews ==
    ASSUME ImportInv, WindowsInv, ImportPage
    PROVE  ReviewsInv'
<1> SUFFICES ASSUME mode' = "reviews" PROVE ReviewsInv'
  BY DEF ReviewsInv
<1>1. /\ mode = "reviews" /\ Pending /\ ~Capped /\ StoreItems(Items)
      /\ UNCHANGED <<pull, owed>> /\ imported \subseteq imported'
  BY PageStores DEF fixed, github
<1>2. cursor.stage = "REVIEWS"
  BY <1>1 DEF ImportInv, TypesInv, StagesOfMode
<1>3. imported' = imported
  BY <1>2, PageStores
<1>4. ASSUME NEW p \in owed.merged PROVE p \in refreshed' \/ (Pending' /\ p \in ToCome')
  <2>1. CASE p \in refreshed
    BY <2>1, PageStores
  <2>2. CASE p \notin refreshed
    <3>1. p \in ToCome
      BY <1>1, <2>2 DEF ImportInv, ReviewsInv, Live
    <3>2. p \in Items \/ (Continues /\ p \in Later)
      BY <1>1, <1>2, <3>1, PageTakes DEF ImportInv, TooOld
    <3>3. p \in Items => p \in refreshed'
      BY <1>1, <1>2 DEF StoreItems
    <3> QED BY <3>2, <3>3, GoesOn
  <2> QED BY <2>1, <2>2
<1> QED BY <1>1, <1>3, <1>4 DEF ImportInv, ReviewsInv, In

\* A page keeps it all.
LEMMA PageKeeps ==
    ASSUME ImportInv, WindowsInv, ImportPage
    PROVE  ImportInv'
<1>1. RecalcInv'
  BY PageStores DEF RecalcInv, Completed, fixed
<1> QED BY <1>1, PageTyped, PageOpen, PageMerged, PageRuns, PageReviews DEF ImportInv

\* A page that fails has stored part of its items; the cursor is where it was.
LEMMA FailureKeeps ==
    ASSUME ImportInv, FailPage
    PROVE  ImportInv'
<1>1. PICK items \in SUBSET Items : StoreItems(items)
  <2>1. PICK items \in SUBSET (IF Capped THEN {} ELSE Items) : StoreItems(items)
    BY DEF FailPage
  <2> QED BY <2>1
<1>2. items \subseteq Listing
  BY DEF Items, Page
<1>3. /\ UNCHANGED <<fixed, github, cursor, started, recalculated, tracked, owed, drifted>>
      /\ Pending /\ ~Completed /\ status' \in {"PENDING", "DEAD"}
  BY DEF FailPage, repository, ghosts, Working, Pending, Completed
<1>4. /\ imported \subseteq imported' /\ imported' \in SUBSET Pulls
      /\ scored \subseteq scored' /\ refreshed \subseteq refreshed'
      /\ deployments \subseteq deployments'
      /\ cursor.stage = "REVIEWS" => imported' = imported
  BY <1>1, <1>2, Stored DEF ImportInv
<1>5. clock' \in Int /\ clock <= clock'
  BY DEF ImportInv, TypesInv, FailPage, SyncStart
<1>6. TypesInv' /\ Dated' /\ OwedIs'
  BY <1>3, <1>4, <1>5, StillTyped DEF ImportInv, TypesInv
<1>7. ToCome' = ToCome
  <2>1. UNCHANGED <<Sources, cursor>>
    BY <1>3 DEF Sources, github
  <2> QED BY <1>4, <2>1, SameToCome
<1>8. UNCHANGED <<mode, signal, pull>> /\ ~Completed'
  BY <1>3 DEF fixed, github, Pending, Completed
<1>9. OpenInv' /\ MergedInv' /\ RecalcInv' /\ RunsInv'
  BY <1>3, <1>4, <1>7, <1>8 DEF ImportInv, OpenInv, MergedInv, RecalcInv, RunsInv, Live, Waiting
<1>10. ReviewsInv'
  BY <1>3, <1>4, <1>7, <1>8 DEF ImportInv, ReviewsInv, Live, In
<1> QED BY <1>6, <1>9, <1>10 DEF ImportInv

\* A split gives each run of the window to one of its halves.
LEMMA SplitKeeps ==
    ASSUME ImportInv, WindowsInv, SplitWindow
    PROVE  ImportInv'
<1>1. /\ UNCHANGED <<fixed, github, clock, scored, imported, refreshed, deployments, recalculated,
                     status, tracked, owed, drifted>>
      /\ Pending /\ ~Completed /\ cursor' = Split
      /\ cursor.stage = "WORKFLOW_RUNS" /\ cursor.page = 1
  BY DEF SplitWindow, Requeue, mirror, pulls, repository, ghosts, Working, Pending, Completed, Capped
<1>2. mode = "full"
  BY <1>1 DEF ImportInv, TypesInv, StagesOfMode, DeploymentStages
<1>3. UNCHANGED <<mode, signal, pull, completed, clock, status, tracked, imported>>
  BY <1>1 DEF fixed, github
<1>4. /\ cursor'.stage = "WORKFLOW_RUNS" /\ cursor'.page = 1 /\ cursor'.window = NewerHalf
      /\ cursor'.pending = <<OlderHalf>> \o cursor.pending
  BY <1>1 DEF Split, Window
<1>5. TypesInv' /\ Dated' /\ OwedIs'
  <2>1. cursor'.stage \in StagesOfMode
    BY <1>1, <1>4 DEF ImportInv, TypesInv
  <2> QED BY <1>1, <1>3, <2>1, StillTyped DEF ImportInv, TypesInv
<1>6. ToCome' = Listing'
  <2>1. (TypesInv /\ cursor.page = 1 => ToCome = Listing)'
    BY FirstPage, PTL
  <2> QED BY <1>4, <1>5, <2>1
<1>7. Pending' /\ ~Completed'
  BY <1>3, <1>1 DEF Pending, Completed
<1>8. OpenInv' /\ MergedInv' /\ RecalcInv' /\ ReviewsInv'
  BY <1>1, <1>2, <1>3, <1>7 DEF ImportInv, OpenInv, MergedInv, RecalcInv, ReviewsInv, Live
<1>9. RunsInv'
  <2> SUFFICES ASSUME ~drifted, signal # "PUSH", NEW r \in owed.runs, r \notin deployments
               PROVE  r \in ToCome' \/ Waiting(r)'
    BY <1>1, <1>3, <1>4, <1>7 DEF RunsInv
  <2>1. r \in ToCome \/ Waiting(r)
    BY <1>1, <1>2 DEF ImportInv, RunsInv, Live
  <2>2. /\ r \in completed /\ r \in Runs /\ Created[r] \in Int
        /\ cursor.window.start \in Int /\ cursor.window.end \in Int
        /\ cursor.pending \in Seq(Windows)
    BY BackfillAssumption DEF ImportInv, OwedIs, TypesInv, WindowsInv, Cursors, Windows
  <2>3. CASE r \in ToCome
    <3>1. cursor.window.start <= Created[r] /\ Created[r] <= cursor.window.end
      BY <1>1, <2>3 DEF ToCome, Listing, Matching
    <3>2. CASE Midpoint <= Created[r]
      BY <1>3, <1>4, <1>6, <2>2, <3>1, <3>2 DEF Listing, Matching, NewerHalf
    <3>3. CASE ~(Midpoint <= Created[r])
      <4>1. Midpoint \in Int
        BY <2>2 DEF Midpoint
      <4>2. Len(cursor'.pending) = Len(cursor.pending) + 1 /\ cursor'.pending[1] = OlderHalf
            /\ Len(cursor.pending) \in Nat
        BY <1>4, <2>2
      <4>3. OlderHalf.start <= Created[r] /\ Created[r] <= OlderHalf.end
        BY <2>2, <3>1, <3>3, <4>1 DEF OlderHalf
      <4> QED BY <4>2, <4>3 DEF Waiting
    <3> QED BY <3>2, <3>3
  <2>4. CASE Waiting(r)
    <3>1. PICK i \in 1 .. Len(cursor.pending) :
            cursor.pending[i].start <= Created[r] /\ Created[r] <= cursor.pending[i].end
      BY <2>4 DEF Waiting
    <3>2. i + 1 \in 1 .. Len(cursor'.pending) /\ cursor'.pending[i + 1] = cursor.pending[i]
      BY <1>4, <2>2, <3>1
    <3> QED BY <3>1, <3>2 DEF Waiting
  <2> QED BY <2>1, <2>3, <2>4
<1> QED BY <1>5, <1>8, <1>9 DEF ImportInv

\* Steps beside the import: issues, a repository that is untracked, a job that gives up.
LEMMA BesideKeeps ==
    ASSUME ImportInv,
           (\E d \in deliveries : HandleIssue(d)) \/ Withdraw \/ GiveUp \/ UNCHANGED vars
    PROVE  ImportInv'
<1>1. /\ UNCHANGED <<fixed, github, clock, scored, imported, refreshed, deployments, recalculated,
                     cursor, owed, drifted>>
      /\ status' \in {"PENDING", "SUCCEEDED", "DEAD"} /\ tracked' \in BOOLEAN
      /\ Live' => Live
      /\ Live' => (Pending' <=> Pending)
      /\ Completed' => Completed
  <2>1. CASE \E d \in deliveries : HandleIssue(d)
    BY <2>1 DEF HandleIssue, pulls, job, repository, ghosts, ImportInv, TypesInv, Live, Pending,
       Completed
  <2>2. CASE Withdraw
    BY <2>2 DEF Withdraw, mirror, pulls, job, ghosts, ImportInv, TypesInv, Live, Pending, Completed
  <2>3. CASE GiveUp
    <3>1. ~Live'
      BY <2>3 DEF GiveUp, Finish, repository, Live, Pending, Completed
    <3> QED BY <2>3, <3>1 DEF GiveUp, Finish, mirror, pulls, repository, ghosts, ImportInv, TypesInv,
         Live
  <2>4. CASE UNCHANGED vars
    BY <2>4 DEF vars, fixed, github, mirror, pulls, job, repository, ghosts, ImportInv, TypesInv,
       Live, Pending, Completed
  <2> QED BY <2>1, <2>2, <2>3, <2>4
<1>2. UNCHANGED <<mode, signal, pull, completed>>
  BY <1>1 DEF fixed, github
<1>3. TypesInv' /\ Dated' /\ OwedIs'
  BY <1>1, StillTyped DEF ImportInv, TypesInv
<1>4. ToCome' = ToCome
  BY <1>1, SameToCome DEF Sources, github
<1>5. OpenInv' /\ MergedInv' /\ RecalcInv' /\ RunsInv'
  BY <1>1, <1>2, <1>4 DEF ImportInv, OpenInv, MergedInv, RecalcInv, RunsInv, Waiting
<1>6. ReviewsInv'
  BY <1>1, <1>2, <1>4 DEF ImportInv, ReviewsInv, In
<1> QED BY <1>3, <1>5, <1>6 DEF ImportInv

\* A merge that is handled while reviews are refreshed concerns nothing else.
LEMMA MergeKeeps ==
    ASSUME ImportInv, NEW p \in Pulls, HandleMerge(p)
    PROVE  ImportInv'
<1>1. /\ UNCHANGED <<fixed, github, clock, cursor, status, tracked, owed, drifted>>
      /\ mode = "reviews" /\ imported' = imported \cup {p}
  BY DEF HandleMerge, job, repository, ghosts
<1>2. TypesInv' /\ Dated' /\ OwedIs'
  BY <1>1, StillTyped DEF ImportInv, TypesInv
<1>3. mode' = "reviews"
  BY <1>1 DEF fixed
<1> QED BY <1>2, <1>3, ReviewsKept DEF ImportInv, OpenInv, MergedInv, RecalcInv, RunsInv

\* Every step keeps the invariant.
LEMMA ImportStep == ImportInv /\ WindowsInv /\ [Next]_vars => ImportInv'
<1> SUFFICES ASSUME ImportInv, WindowsInv, [Next]_vars PROVE ImportInv'
  OBVIOUS
<1>1. CASE Outside
  BY <1>1, OutsideTyped, OutsideKeeps, ReviewsKept DEF ImportInv
<1>2. CASE ~Outside
  BY <1>2, PageKeeps, FailureKeeps, SplitKeeps, BesideKeeps, MergeKeeps
  DEF Next, Process, Outside
<1> QED BY <1>1, <1>2

\* When the job is queued, everything it owes is to come.
LEMMA ImportInit == Init => ImportInv
<1> SUFFICES ASSUME Init PROVE ImportInv
  OBVIOUS
<1>1. /\ pull \in [Pulls -> PullRows] /\ completed \in SUBSET Runs
      /\ \A p \in Pulls : pull[p].merged <= pull[p].updated /\ pull[p].updated <= Horizon
  BY BackfillAssumption DEF Init
<1>2. remote \in [Issues -> [state : {"OPEN", "CLOSED", "DELETED"}, updated : Int]]
  BY BackfillAssumption DEF Init
<1>3. /\ owed.runs = {r \in completed : Created[r] \in Cutoff .. Horizon}
      /\ owed.open = In("OPEN") /\ owed.merged = Recent(In("MERGED"))
      /\ owed \in [runs : SUBSET Runs, open : SUBSET Pulls, merged : SUBSET Pulls]
  BY <1>1 DEF Init, In, Recent
<1>4. /\ cursor.stage = InitialStage(mode) /\ cursor.page = 1 /\ clock = Horizon
      /\ status = "PENDING" /\ tracked /\ ~drifted
      /\ imported = IF mode = "reviews" THEN In("MERGED") ELSE {}
      /\ mode \in {"full", "risk", "issues", "reviews"}
      /\ signal \in {"WORKFLOW_RUN", "DEPLOYMENT", "PUSH", "INVALID"}
      /\ Horizon \in Int
  BY BackfillAssumption DEF Init, At
<1>5. TypesInv
  <2>1. tracked \in BOOLEAN /\ drifted \in BOOLEAN
    BY DEF Init
  <2>2. imported \in SUBSET Pulls
    BY <1>4 DEF In
  <2>3. cursor.stage \in StagesOfMode
    BY <1>4 DEF InitialStage, StagesOfMode
  <2> QED BY <1>1, <1>2, <1>3, <1>4, <2>1, <2>2, <2>3 DEF TypesInv
<1>6. Dated
  BY <1>1, <1>4 DEF Dated
<1>7. OwedIs
  <2>1. \A p \in owed.merged : pull[p].merged <= Horizon
    <3> SUFFICES ASSUME NEW p \in owed.merged PROVE pull[p].merged <= Horizon
      OBVIOUS
    <3>1. /\ p \in Pulls /\ pull[p].merged \in Int /\ pull[p].updated \in Int
      BY <1>1, <1>3 DEF Recent, In, PullRows
    <3> QED BY <1>1, <1>4, <3>1
  <2> QED BY <1>3, <2>1 DEF OwedIs
<1>8. ToCome = Listing
  BY <1>4, <1>5, FirstPage
<1>9. OpenInv
  BY <1>3, <1>4, <1>8 DEF OpenInv, Pending, InitialStage, Listing
<1>10. MergedInv /\ RunsInv
  BY <1>4 DEF MergedInv, RunsInv, Pending, InitialStage
<1>11. RecalcInv
  BY <1>4 DEF RecalcInv, Completed
<1>12. ReviewsInv
  <2> SUFFICES ASSUME mode = "reviews" PROVE owed.merged \subseteq imported /\ owed.merged \subseteq Listing
    BY <1>4, <1>8 DEF ReviewsInv, Pending
  <2>1. Listing = ReviewRows /\ imported = In("MERGED")
    BY <1>4 DEF Listing, InitialStage
  <2> QED BY <1>3, <2>1 DEF ReviewRows, Recent, In
<1> QED BY <1>5, <1>6, <1>7, <1>9, <1>10, <1>11, <1>12 DEF ImportInv

\* The invariant holds of every behaviour.
THEOREM ImportInvariance == Spec => []ImportInv
<1> QED BY ImportInit, ImportStep, WindowsInvariance, PTL DEF Spec

\* No run of the interval is left out, whatever failed between two pages and however the
\* windows are cut (backfill_repository.py:374).
THEOREM RunsImported == Spec => []NoRunOmitted
<1>1. ImportInv => NoRunOmitted
  BY DEF ImportInv, RunsInv, NoRunOmitted, Live, Pending, Completed
<1> QED BY <1>1, ImportInvariance, PTL

\* Every open pull request is scored, every recent merge imported, and the interval queued
\* for recalculation, though the listing is cut at the cutoff (:331).
THEOREM PullsAreImported == Spec => []PullsImported
<1>1. ImportInv => PullsImported
  BY DEF ImportInv, OpenInv, MergedInv, RecalcInv, PullsImported, Live, Pending, Completed
<1> QED BY <1>1, ImportInvariance, PTL

\* Merges between two pages move no review to come out of its page (:262).
THEOREM ReviewsAreRefreshed == Spec => []ReviewsRefreshed
<1>1. ImportInv => ReviewsRefreshed
  BY DEF ImportInv, ReviewsInv, ReviewsRefreshed, Live, Pending, Completed
<1> QED BY <1>1, ImportInvariance, PTL

-----------------------------------------------------------------------------
(* Issues: the newest news of an issue decides, wherever it is.            *)

News == [id : Issues, state : {"OPEN", "CLOSED", "DELETED"}, updated : Int]

\* Nothing is newer than GitHub, each change has its date, and nothing follows a deletion.
NewsInv ==
    /\ deliveries \subseteq News /\ started \in Int \cup {None}
    /\ issue \in [Issues -> IssueRows \cup {None}]
    /\ \A i \in Issues : remote[i].updated <= clock
                         /\ (issue[i] # None => issue[i].updated <= remote[i].updated)
    /\ \A d \in deliveries :
         /\ d.updated <= remote[d.id].updated
         /\ d.updated = remote[d.id].updated => d.state = remote[d.id].state
         /\ d.state = "DELETED" => remote[d.id].state = "DELETED"
         /\ \A e \in deliveries : d.id = e.id /\ d.updated = e.updated => d = e

\* A closed issue's row is closed, or the delivery that closes it is to be handled.
ClosedInv ==
    \A i \in Issues : remote[i].state = "CLOSED" =>
        \/ \E d \in deliveries : d.id = i /\ d.state = "CLOSED" /\ d.updated = remote[i].updated
        \/ issue[i] # None /\ issue[i].state = "CLOSED" /\ issue[i].updated = remote[i].updated

\* The row is open by this synchronisation or since, and no delivery can close it.
HeldOpen(i) ==
    /\ issue[i] # None /\ issue[i].state = "OPEN"
    /\ started # None /\ issue[i].synced >= started
    /\ \A d \in deliveries : d.id = i => \/ d.updated < issue[i].updated
                                         \/ d.updated = issue[i].updated /\ d.state = "OPEN"

\* The newest delivery opens the issue.
OpensNext(i) ==
    \E d \in deliveries :
        /\ d.id = i /\ d.state = "OPEN"
        /\ issue[i] # None => issue[i].updated <= d.updated
        /\ \A e \in deliveries : e.id = i => e.updated <= d.updated

OpenedInv ==
    Live /\ ~drifted /\ mode = "issues" =>
        /\ started # None => started <= clock
        /\ started = None => cursor.page = 1
        /\ \A i \in OpenIssues : (Pending /\ i \in ToCome) \/ HeldOpen(i) \/ OpensNext(i)
        /\ Completed => started # None /\ \A i \in Issues :
              issue[i] # None /\ issue[i].state = "OPEN" => issue[i].synced >= started

IssuesInv == mode = "issues" => NewsInv /\ ClosedInv /\ OpenedInv

\* A job of this mode reads and stores issues only.
LEMMA IssuesMode ==
    ASSUME TypesInv, mode = "issues"
    PROVE  /\ cursor.stage = "ISSUES" /\ Listing = OpenIssues /\ ~Capped
           /\ Outside => ChangeIssue \/ CommentIssue
           /\ Following = IF Continues THEN NextPage ELSE Done
<1>1. cursor.stage = "ISSUES"
  BY DEF TypesInv, StagesOfMode
<1> QED BY <1>1 DEF Listing, Capped, Outside, ChangePull, ChangeRun, Following

\* The row of a listed issue is what the listing says: nothing newer is known here.
LEMMA ListedRow ==
    ASSUME TypesInv, NewsInv, NEW i \in OpenIssues
    PROVE  /\ Upsert(issue[i], Listed(i)) = Listed(i)
           /\ Listed(i) \in IssueRows /\ Listed(i) # None /\ SyncStart \in Int
           /\ Listed(i).state = "OPEN" /\ Listed(i).updated = remote[i].updated
           /\ Listed(i).synced = SyncStart
           /\ \A d \in deliveries : d.id = i =>
                 \/ d.updated < Listed(i).updated
                 \/ d.updated = Listed(i).updated /\ d.state = "OPEN"
<1>1. i \in Issues /\ remote[i].state = "OPEN" /\ remote[i].updated \in Int
  BY DEF OpenIssues, TypesInv
<1>2. SyncStart \in Int
  BY DEF SyncStart, NewsInv, TypesInv
<1>3. Listed(i) \in IssueRows /\ Listed(i).state = "OPEN" /\ Listed(i).synced = SyncStart
      /\ Listed(i).updated = remote[i].updated
  BY <1>1, <1>2 DEF Listed, IssueRows
<1>4. Listed(i) # None
  BY <1>3, BackfillAssumption
<1>5. issue[i] # None => issue[i].updated <= remote[i].updated
  BY <1>1 DEF NewsInv
<1>6. Upsert(issue[i], Listed(i)) = Listed(i)
  <2>1. issue[i] # None => issue[i].updated \in Int
    BY <1>1 DEF NewsInv, IssueRows
  <2> QED BY <1>1, <1>3, <1>5, <2>1 DEF Upsert
<1>7. ASSUME NEW d \in deliveries, d.id = i
      PROVE  \/ d.updated < Listed(i).updated
             \/ d.updated = Listed(i).updated /\ d.state = "OPEN"
  <2>1. d.updated \in Int /\ d.updated <= remote[i].updated
        /\ (d.updated = remote[i].updated => d.state = remote[i].state)
    BY <1>7 DEF NewsInv, News
  <2> QED BY <1>1, <1>3, <2>1
<1> QED BY <1>2, <1>3, <1>4, <1>6, <1>7

\* What a page makes of a row: the listing's, or what it was.
LEMMA RowsAfter ==
    ASSUME TypesInv, NewsInv, NEW items, items \subseteq OpenIssues
    PROVE  /\ IssuesAfter(items) \in [Issues -> IssueRows \cup {None}]
           /\ \A i \in items : IssuesAfter(items)[i] = Listed(i)
           /\ \A i \in Issues \ items : IssuesAfter(items)[i] = issue[i]
<1>1. \A i \in items : i \in Issues
  BY DEF OpenIssues
<1>2. \A i \in items : Upsert(issue[i], Listed(i)) = Listed(i) /\ Listed(i) \in IssueRows
  BY ListedRow
<1> QED BY <1>1, <1>2 DEF IssuesAfter, NewsInv

\* The sweep closes an open row that is older than the synchronisation, and nothing else.
LEMMA SweptRow ==
    ASSUME NEW rows \in [Issues -> IssueRows \cup {None}], NEW i \in Issues
    PROVE  LET row == Sweep(rows)[i] IN
           /\ row \in IssueRows \cup {None} /\ (row = None <=> rows[i] = None)
           /\ row # None => row.updated = rows[i].updated /\ row.synced = rows[i].synced
           /\ rows[i] # None /\ rows[i].state = "CLOSED" => row = rows[i]
           /\ rows[i] # None /\ ~(rows[i].synced < SyncStart) => row = rows[i]
           /\ row # None /\ row.state = "OPEN" => ~(row.synced < SyncStart)
<1> DEFINE row == Sweep(rows)[i]
           closed == [rows[i] EXCEPT !.state = "CLOSED"]
<1>1. row = IF Missing(rows[i]) THEN closed ELSE rows[i]
  BY DEF Sweep
<1>2. ASSUME rows[i] # None
      PROVE  closed \in IssueRows /\ closed # None /\ closed.updated = rows[i].updated
             /\ closed.synced = rows[i].synced /\ closed.state = "CLOSED"
  <2>1. rows[i] \in IssueRows
    BY <1>2
  <2>2. closed \in IssueRows /\ closed.updated = rows[i].updated
        /\ closed.synced = rows[i].synced /\ closed.state = "CLOSED"
    BY <2>1 DEF IssueRows
  <2> QED BY <2>2, BackfillAssumption
<1>3. rows[i] \in IssueRows \cup {None}
  OBVIOUS
<1> HIDE DEF row, closed
<1>4. CASE Missing(rows[i])
  BY <1>1, <1>2, <1>4 DEF Missing, row
<1>5. CASE ~Missing(rows[i])
  BY <1>1, <1>3, <1>5 DEF Missing, row
<1> QED BY <1>4, <1>5

\* A change at GitHub is newer than all that is known, and no news is deleted twice.
LEMMA ChangeNews ==
    ASSUME TypesInv, NewsInv, ClosedInv, OpenedInv, mode = "issues", Outside
    PROVE  NewsInv' /\ ClosedInv' /\ OpenedInv'
<1>1. PICK i0 \in Issues, s \in {"OPEN", "CLOSED", "DELETED"} :
        /\ remote[i0].state # "DELETED" /\ IssueBecomes(i0, s)
        /\ \/ deliveries' = deliveries \cup {[id |-> i0, state |-> s, updated |-> clock + 1]}
           \/ deliveries' = deliveries /\ s = "OPEN" /\ remote[i0].state = "OPEN"
  <2>1. CASE ChangeIssue
    BY <2>1 DEF ChangeIssue
  <2>2. CASE CommentIssue
    BY <2>2 DEF CommentIssue, OpenIssues
  <2> QED BY <2>1, <2>2, IssuesMode
<1>2. /\ Change /\ clock' = clock + 1 /\ clock \in Int /\ UNCHANGED <<cursor, started, issue>>
      /\ Pending /\ Pending' /\ ~Completed' /\ mode' = "issues"
  BY DEF Outside, ChangeIssue, CommentIssue, ChangePull, ChangeRun, Change, TypesInv, fixed,
     mirror, job, Pending, Completed
<1> DEFINE new == [id |-> i0, state |-> s, updated |-> clock + 1]
<1>3. /\ remote'[i0].state = s /\ remote'[i0].updated = clock + 1
      /\ \A i \in Issues \ {i0} : remote'[i] = remote[i]
      /\ \A i \in Issues : /\ remote[i].updated \in Int /\ remote[i].updated <= clock
                           /\ remote[i].updated <= remote'[i].updated
                           /\ remote'[i].updated <= clock'
  BY <1>1, <1>2 DEF IssueBecomes, TypesInv, NewsInv
<1>4. /\ new \in News /\ new.id = i0 /\ new.state = s /\ new.updated = clock + 1
      /\ deliveries \subseteq deliveries' /\ \A d \in deliveries' : d \in deliveries \/ d = new
  BY <1>1, <1>2 DEF News
<1>5. \A d \in deliveries : /\ d.id \in Issues /\ d.updated \in Int
                            /\ d.updated <= remote[d.id].updated /\ d.updated < clock + 1
  <2> SUFFICES ASSUME NEW d \in deliveries
               PROVE  /\ d.id \in Issues /\ d.updated \in Int
                      /\ d.updated <= remote[d.id].updated /\ d.updated < clock + 1
    OBVIOUS
  <2>1. d.id \in Issues /\ d.updated \in Int /\ d.updated <= remote[d.id].updated
    BY DEF NewsInv, News
  <2> QED BY <1>2, <1>3, <2>1
<1> HIDE DEF new
<1>6. NewsInv'
  <2>1. deliveries' \subseteq News /\ issue' \in [Issues -> IssueRows \cup {None}]
        /\ started' \in Int \cup {None}
    BY <1>2, <1>4 DEF NewsInv
  <2>2. ASSUME NEW i \in Issues
        PROVE  remote'[i].updated <= clock'
               /\ (issue'[i] # None => issue'[i].updated <= remote'[i].updated)
    <3>1. issue[i] # None => issue[i].updated \in Int /\ issue[i].updated <= remote[i].updated
      BY DEF NewsInv, IssueRows
    <3> QED BY <1>2, <1>3, <3>1
  <2>3. ASSUME NEW d \in deliveries'
        PROVE  /\ d.updated <= remote'[d.id].updated
               /\ d.updated = remote'[d.id].updated => d.state = remote'[d.id].state
               /\ d.state = "DELETED" => remote'[d.id].state = "DELETED"
               /\ \A e \in deliveries' : d.id = e.id /\ d.updated = e.updated => d = e
    <3>1. CASE d = new
      <4>1. \A e \in deliveries' : d.id = e.id /\ d.updated = e.updated => d = e
        BY <1>2, <1>4, <1>5, <3>1
      <4> QED BY <1>2, <1>3, <1>4, <3>1, <4>1
    <3>2. CASE d \in deliveries
      <4>1. \A e \in deliveries' : d.id = e.id /\ d.updated = e.updated => d = e
        BY <1>2, <1>4, <1>5, <3>2 DEF NewsInv
      <4>2. d.updated <= remote'[d.id].updated
        <5>1. d.updated \in Int /\ d.updated <= remote[d.id].updated /\ d.id \in Issues
          BY <1>5, <3>2
        <5>2. remote[d.id].updated \in Int /\ remote[d.id].updated <= remote'[d.id].updated
          BY <1>3, <5>1
        <5>3. remote'[d.id].updated \in Int
          BY <1>2, <1>3, <5>1, <5>2
        <5> QED BY <5>1, <5>2, <5>3
      <4>3. d.updated = remote'[d.id].updated => d.state = remote'[d.id].state
        BY <1>2, <1>3, <1>5, <3>2 DEF NewsInv
      <4>4. d.state = "DELETED" => remote'[d.id].state = "DELETED"
        BY <1>1, <1>3, <1>5, <3>2 DEF NewsInv
      <4> QED BY <4>1, <4>2, <4>3, <4>4
    <3> QED BY <1>4, <3>1, <3>2
  <2> QED BY <2>1, <2>2, <2>3 DEF NewsInv
<1>7. ClosedInv'
  <2> SUFFICES ASSUME NEW i \in Issues, remote'[i].state = "CLOSED"
               PROVE  \/ \E d \in deliveries' : d.id = i /\ d.state = "CLOSED"
                                                /\ d.updated = remote'[i].updated
                      \/ /\ issue'[i] # None /\ issue'[i].state = "CLOSED"
                         /\ issue'[i].updated = remote'[i].updated
    BY DEF ClosedInv
  <2>1. CASE i = i0
    <3>1. s = "CLOSED" /\ new \in deliveries'
      BY <1>1, <1>3, <2>1 DEF new
    <3> QED BY <1>3, <1>4, <2>1, <3>1
  <2>2. CASE i # i0
    BY <1>2, <1>3, <1>4, <2>2 DEF ClosedInv
  <2> QED BY <2>1, <2>2
<1>8. OpenedInv'
  <2> SUFFICES ASSUME ~drifted'
               PROVE  /\ started' # None => started' <= clock'
                      /\ started' = None => cursor'.page = 1
                      /\ \A i \in OpenIssues' : \/ i \in ToCome' \/ HeldOpen(i)' \/ OpensNext(i)'
    BY <1>2 DEF OpenedInv
  <2>1. ~drifted /\ Live /\ \A x \in ToCome : x \in Listing' => x \in ToCome'
    BY <1>2 DEF Change, Live
  <2>2. /\ started # None => started \in Int /\ started <= clock
        /\ started = None => cursor.page = 1
        /\ \A i \in OpenIssues : i \in ToCome \/ HeldOpen(i) \/ OpensNext(i)
    BY <1>2, <2>1 DEF OpenedInv, NewsInv
  <2>3. Listing' = OpenIssues'
    BY <1>2, IssuesMode DEF Listing
  <2>4. ASSUME NEW i \in OpenIssues', i # i0 \/ new \notin deliveries'
        PROVE  i \in ToCome' \/ HeldOpen(i)' \/ OpensNext(i)'
    <3>1. i \in OpenIssues
      BY <1>1, <1>3, <2>4 DEF OpenIssues, new
    <3>2. \A d \in deliveries' : d.id = i => d \in deliveries
      BY <1>4, <2>4
    <3>3. HeldOpen(i) => HeldOpen(i)'
      BY <1>2, <3>2 DEF HeldOpen
    <3>4. OpensNext(i) => OpensNext(i)'
      BY <1>2, <1>4, <3>2 DEF OpensNext
    <3> QED BY <2>1, <2>2, <2>3, <2>4, <3>1, <3>3, <3>4
  <2>5. ASSUME i0 \in OpenIssues', new \in deliveries'
        PROVE  OpensNext(i0)'
    <3>1. s = "OPEN"
      BY <1>3, <2>5 DEF OpenIssues
    <3>2. issue[i0] # None => issue[i0].updated <= clock + 1
      <4>1. issue[i0] # None => issue[i0].updated \in Int /\ issue[i0].updated <= remote[i0].updated
        BY DEF NewsInv, IssueRows
      <4> QED BY <1>2, <1>3, <4>1
    <3>3. \A e \in deliveries' : e.id = i0 => e.updated <= new.updated
      BY <1>2, <1>4, <1>5
    <3> QED BY <1>2, <1>4, <2>5, <3>1, <3>2, <3>3 DEF OpensNext
  <2>6. started # None => started <= clock'
    BY <1>2, <2>2
  <2> QED BY <1>2, <2>2, <2>4, <2>5, <2>6
<1> QED BY <1>6, <1>7, <1>8

\* A delivery that is handled replaces the row, unless the row is newer or it deletes it.
LEMMA HandledRow ==
    ASSUME TypesInv, NewsInv, NEW d \in deliveries, HandleIssue(d)
    PROVE  /\ d.id \in Issues /\ d.updated \in Int
           /\ issue' \in [Issues -> IssueRows \cup {None}]
           /\ \A i \in Issues \ {d.id} : issue'[i] = issue[i]
           /\ d.state = "DELETED" => issue'[d.id] = None
           /\ \/ d.state = "DELETED"
              \/ /\ issue[d.id] # None /\ d.updated < issue[d.id].updated
                 /\ issue'[d.id] = issue[d.id]
              \/ /\ issue[d.id] # None => issue[d.id].updated <= d.updated
                 /\ issue'[d.id] # None /\ issue'[d.id].state = d.state
                 /\ issue'[d.id].updated = d.updated /\ issue'[d.id].synced = clock
<1> DEFINE new == [state |-> d.state, updated |-> d.updated, synced |-> clock]
<1>1. /\ d.id \in Issues /\ d.updated \in Int /\ d.state \in {"OPEN", "CLOSED", "DELETED"}
      /\ clock \in Int /\ issue \in [Issues -> IssueRows \cup {None}]
  BY DEF NewsInv, News, TypesInv
<1>2. /\ \A i \in Issues \ {d.id} : issue'[i] = issue[i]
      /\ issue'[d.id] = IF d.state = "DELETED" THEN None ELSE Upsert(issue[d.id], new)
      /\ issue' = [i \in Issues |-> issue'[i]]
  BY <1>1 DEF HandleIssue
<1>3. d.state # "DELETED" => new \in IssueRows
  BY <1>1 DEF IssueRows
<1>4. new.state = d.state /\ new.updated = d.updated /\ new.synced = clock
  OBVIOUS
<1>5. issue[d.id] # None => issue[d.id].updated \in Int
  BY <1>1 DEF IssueRows
<1> HIDE DEF new
<1>6. d.state # "DELETED" =>
        \/ /\ issue[d.id] # None /\ d.updated < issue[d.id].updated
           /\ issue'[d.id] = issue[d.id]
        \/ /\ issue[d.id] # None => issue[d.id].updated <= d.updated
           /\ issue'[d.id] = new
  BY <1>1, <1>2, <1>4, <1>5 DEF Upsert
<1>7. d.state # "DELETED" => new # None
  BY <1>3, BackfillAssumption
<1>8. \A i \in Issues : issue'[i] \in IssueRows \cup {None}
  BY <1>1, <1>2, <1>3, <1>6
<1>9. issue' \in [Issues -> IssueRows \cup {None}]
  BY <1>2, <1>8
<1> QED BY <1>1, <1>2, <1>4, <1>6, <1>7, <1>9

\* Deliveries may be handled in any order.
LEMMA DeliveryNews ==
    ASSUME TypesInv, NewsInv, ClosedInv, OpenedInv, mode = "issues",
           NEW d \in deliveries, HandleIssue(d)
    PROVE  NewsInv' /\ ClosedInv' /\ OpenedInv'
<1>1. /\ deliveries' = deliveries \ {d}
      /\ UNCHANGED <<mode, remote, pull, completed, clock, cursor, started, status, tracked,
                     imported, drifted>>
  BY DEF HandleIssue, fixed, github, pulls, job, repository, ghosts
<1>2. /\ d.id \in Issues /\ d.updated \in Int /\ d.updated <= remote[d.id].updated
      /\ d.updated = remote[d.id].updated => d.state = remote[d.id].state
      /\ d.state = "DELETED" => remote[d.id].state = "DELETED"
      /\ \A e \in deliveries : d.id = e.id /\ d.updated = e.updated => d = e
      /\ clock \in Int /\ \A i \in Issues : remote[i].updated \in Int
  BY DEF NewsInv, News, TypesInv
<1>3. \A i \in Issues : issue[i] # None => issue[i].updated \in Int
                                           /\ issue[i].updated <= remote[i].updated
  BY DEF NewsInv, IssueRows
<1>4. \A e \in deliveries : e.updated \in Int
  BY DEF NewsInv, News
<1>5. NewsInv'
  <2>1. \A i \in Issues : issue'[i] # None => issue'[i].updated <= remote[i].updated
    BY <1>2, <1>3, HandledRow
  <2>2. issue' \in [Issues -> IssueRows \cup {None}]
    BY HandledRow
  <2> QED BY <1>1, <2>1, <2>2 DEF NewsInv
<1>6. ClosedInv'
  <2> SUFFICES ASSUME NEW i \in Issues, remote[i].state = "CLOSED"
               PROVE  \/ \E e \in deliveries' : e.id = i /\ e.state = "CLOSED"
                                                /\ e.updated = remote[i].updated
                      \/ /\ issue'[i] # None /\ issue'[i].state = "CLOSED"
                         /\ issue'[i].updated = remote[i].updated
    BY <1>1 DEF ClosedInv
  <2>1. CASE i # d.id
    BY <1>1, <2>1, HandledRow DEF ClosedInv
  <2>2. CASE i = d.id
    <3>1. \/ /\ issue'[i] = issue[i] /\ issue[i] # None /\ d.updated < issue[i].updated
          \/ /\ issue[i] # None => issue[i].updated <= d.updated
             /\ issue'[i] # None /\ issue'[i].state = d.state /\ issue'[i].updated = d.updated
      BY <1>2, <2>2, HandledRow
    <3>2. CASE \E e \in deliveries : /\ e # d /\ e.id = i /\ e.state = "CLOSED"
                                     /\ e.updated = remote[i].updated
      BY <1>1, <3>2
    <3>3. CASE d.state = "CLOSED" /\ d.updated = remote[i].updated
      BY <1>2, <1>3, <3>1, <3>3
    <3>4. CASE /\ issue[i] # None /\ issue[i].state = "CLOSED"
               /\ issue[i].updated = remote[i].updated
      <4>1. issue'[i].updated = d.updated /\ issue[i].updated <= d.updated
            => d.updated = remote[i].updated
        BY <1>2, <2>2, <3>4
      <4> QED BY <1>2, <2>2, <3>1, <3>4, <4>1
    <3> QED BY <3>2, <3>3, <3>4 DEF ClosedInv
  <2> QED BY <2>1, <2>2
<1>7. OpenedInv'
  <2> SUFFICES ASSUME Live, ~drifted
               PROVE  /\ started # None => started <= clock
                      /\ started = None => cursor.page = 1
                      /\ \A i \in OpenIssues : \/ Pending /\ i \in ToCome
                                               \/ HeldOpen(i)' \/ OpensNext(i)'
                      /\ Completed => started # None /\ \A i \in Issues :
                            issue'[i] # None /\ issue'[i].state = "OPEN" =>
                                issue'[i].synced >= started
    <3>1. UNCHANGED <<Sources, cursor>>
      BY <1>1 DEF Sources
    <3>2. ToCome' = ToCome
      BY <1>1, <3>1, SameToCome
    <3> QED BY <1>1, <3>2 DEF OpenedInv, Live, Pending, Completed, OpenIssues
  <2>1. /\ started # None => started \in Int /\ started <= clock
        /\ started = None => cursor.page = 1
        /\ \A i \in OpenIssues : (Pending /\ i \in ToCome) \/ HeldOpen(i) \/ OpensNext(i)
        /\ Completed => started # None /\ \A i \in Issues :
              issue[i] # None /\ issue[i].state = "OPEN" => issue[i].synced >= started
    BY DEF OpenedInv, NewsInv
  <2>2. ASSUME NEW i \in OpenIssues
        PROVE  (Pending /\ i \in ToCome) \/ HeldOpen(i)' \/ OpensNext(i)'
    <3>1. i \in Issues /\ remote[i].state = "OPEN"
      BY DEF OpenIssues
    <3>2. CASE HeldOpen(i)
      <4>1. \A e \in deliveries' : e.id = i => \/ e.updated < issue[i].updated
                                               \/ e.updated = issue[i].updated /\ e.state = "OPEN"
        BY <1>1, <3>2 DEF HeldOpen
      <4>2. CASE issue'[i] = issue[i]
        BY <1>1, <3>2, <4>1, <4>2 DEF HeldOpen
      <4>3. CASE issue'[i] # issue[i]
        <5>1. i = d.id /\ d.state = "OPEN" /\ d.updated = issue[i].updated
          <6>1. i = d.id
            BY <3>1, <4>3, HandledRow
          <6>2. d.updated < issue[i].updated \/ (d.updated = issue[i].updated /\ d.state = "OPEN")
            BY <3>2, <6>1 DEF HeldOpen
          <6> QED BY <1>2, <1>3, <3>1, <3>2, <4>3, <6>1, <6>2, HandledRow DEF HeldOpen
        <5>2. /\ issue'[i] # None /\ issue'[i].state = "OPEN"
              /\ issue'[i].updated = issue[i].updated /\ issue'[i].synced = clock
          BY <1>2, <1>3, <4>3, <5>1, HandledRow
        <5>3. started # None /\ clock >= started
          BY <1>2, <2>1, <3>2 DEF HeldOpen
        <5> QED BY <1>1, <4>1, <5>2, <5>3 DEF HeldOpen
      <4> QED BY <4>2, <4>3
    <3>3. CASE OpensNext(i)
      <4>1. PICK w \in deliveries : /\ w.id = i /\ w.state = "OPEN" /\ w.updated \in Int
                                    /\ issue[i] # None => issue[i].updated <= w.updated
                                    /\ \A e \in deliveries : e.id = i => e.updated <= w.updated
        BY <1>4, <3>3 DEF OpensNext
      <4>2. CASE d = w
        <5>1. /\ issue'[i] # None /\ issue'[i].state = "OPEN"
              /\ issue'[i].updated = d.updated /\ issue'[i].synced = clock
          BY <1>2, <1>3, <3>1, <4>1, <4>2, HandledRow
        <5>2. \A e \in deliveries' : e.id = i => e.updated < d.updated
          BY <1>1, <1>2, <1>4, <4>1, <4>2
        <5>3. CASE started # None
          BY <1>1, <1>2, <2>1, <5>1, <5>2, <5>3 DEF HeldOpen
        <5>4. CASE started = None
          BY <2>1, <5>4, FirstPage, IssuesMode DEF Live
        <5> QED BY <5>3, <5>4
      <4>3. CASE d # w
        <5>1. w \in deliveries' /\ \A e \in deliveries' : e.id = i => e.updated <= w.updated
          BY <1>1, <4>1, <4>3
        <5>2. issue'[i] # None => issue'[i].updated <= w.updated
          <6>1. CASE i = d.id
            <7>1. d.updated <= w.updated
              BY <4>1, <6>1
            <7> QED BY <3>1, <4>1, <6>1, <7>1, <1>2, HandledRow
          <6>2. CASE i # d.id
            BY <3>1, <4>1, <6>2, HandledRow
          <6> QED BY <6>1, <6>2
        <5> QED BY <4>1, <5>1, <5>2 DEF OpensNext
      <4> QED BY <4>2, <4>3
    <3> QED BY <2>1, <3>2, <3>3
  <2>3. ASSUME Completed, NEW i \in Issues, issue'[i] # None, issue'[i].state = "OPEN"
        PROVE  issue'[i].synced >= started
    BY <1>2, <2>1, <2>3, HandledRow
  <2> QED BY <2>1, <2>2, <2>3
<1> QED BY <1>5, <1>6, <1>7

\* The rows a page of issues leaves: a listed one is the listing's, another is what it was,
\* unless the sweep closes it for being older than the synchronisation.
LEMMA PageRows ==
    ASSUME TypesInv, NewsInv, NEW items, items \subseteq OpenIssues, NEW swept \in BOOLEAN,
           issue' = IF swept THEN Sweep(IssuesAfter(items)) ELSE IssuesAfter(items)
    PROVE  /\ issue' \in [Issues -> IssueRows \cup {None}]
           /\ \A i \in items : issue'[i] = Listed(i)
           /\ \A i \in Issues \ items :
                /\ issue'[i] = None <=> issue[i] = None
                /\ issue[i] # None => issue'[i].updated = issue[i].updated
                                      /\ (issue[i].state = "CLOSED" => issue'[i] = issue[i])
                                      /\ (~(issue[i].synced < SyncStart) => issue'[i] = issue[i])
           /\ swept => \A i \in Issues :
                issue'[i] # None /\ issue'[i].state = "OPEN" => ~(issue'[i].synced < SyncStart)
<1> DEFINE rows == IssuesAfter(items)
<1>1. /\ rows \in [Issues -> IssueRows \cup {None}]
      /\ \A i \in items : rows[i] = Listed(i)
      /\ \A i \in Issues \ items : rows[i] = issue[i]
  BY RowsAfter
<1>2. \A i \in items : i \in Issues /\ Listed(i) # None /\ ~(Listed(i).synced < SyncStart)
  <2> SUFFICES ASSUME NEW i \in items
               PROVE  i \in Issues /\ Listed(i) # None /\ ~(Listed(i).synced < SyncStart)
    OBVIOUS
  <2>1. i \in Issues
    BY DEF OpenIssues
  <2>2. Listed(i) # None /\ Listed(i).synced = SyncStart /\ SyncStart \in Int
    BY ListedRow
  <2> QED BY <2>1, <2>2
<1>3. issue' = IF swept THEN Sweep(rows) ELSE rows
  OBVIOUS
<1> HIDE DEF rows
<1>4. CASE ~swept
  BY <1>1, <1>3, <1>4
<1>5. CASE swept
  <2>1. Sweep(rows) = [i \in Issues |-> Sweep(rows)[i]]
    BY DEF Sweep
  <2> DEFINE after == Sweep(rows)
  <2>2. \A i \in Issues :
          /\ after[i] \in IssueRows \cup {None} /\ (after[i] = None <=> rows[i] = None)
          /\ after[i] # None => after[i].updated = rows[i].updated
          /\ rows[i] # None /\ rows[i].state = "CLOSED" => after[i] = rows[i]
          /\ rows[i] # None /\ ~(rows[i].synced < SyncStart) => after[i] = rows[i]
          /\ after[i] # None /\ after[i].state = "OPEN" => ~(after[i].synced < SyncStart)
    BY <1>1, SweptRow
  <2>3. issue' = after /\ after = [i \in Issues |-> after[i]]
    BY <1>3, <1>5, <2>1
  <2> HIDE DEF after
  <2>4. issue' \in [Issues -> IssueRows \cup {None}]
    BY <2>2, <2>3
  <2>5. \A i \in items : issue'[i] = Listed(i)
    BY <1>1, <1>2, <2>2, <2>3
  <2>6. ASSUME NEW i \in Issues \ items
        PROVE  /\ issue'[i] = None <=> issue[i] = None
               /\ issue[i] # None => issue'[i].updated = issue[i].updated
                                     /\ (issue[i].state = "CLOSED" => issue'[i] = issue[i])
                                     /\ (~(issue[i].synced < SyncStart) => issue'[i] = issue[i])
    BY <1>1, <2>2, <2>3
  <2> QED BY <2>2, <2>3, <2>4, <2>5, <2>6
<1> QED BY <1>4, <1>5

\* Storing issues of the listing tells nothing but what GitHub says.
LEMMA PageNews ==
    ASSUME TypesInv, NewsInv, ClosedInv, NEW items, items \subseteq OpenIssues,
           NEW swept \in BOOLEAN, UNCHANGED <<remote, deliveries>>,
           issue' = IF swept THEN Sweep(IssuesAfter(items)) ELSE IssuesAfter(items),
           started' \in Int \cup {None}, clock' \in Int, clock <= clock'
    PROVE  NewsInv' /\ ClosedInv'
<1>1. \A i \in items : /\ i \in Issues /\ remote[i].state = "OPEN"
                       /\ Listed(i).updated = remote[i].updated
  BY ListedRow DEF OpenIssues
<1>2. \A i \in Issues : /\ remote[i].updated \in Int /\ remote[i].updated <= clock
                        /\ issue[i] # None => issue[i].updated <= remote[i].updated
  BY DEF NewsInv, TypesInv
<1>3. clock \in Int /\ clock' \in Int /\ clock <= clock'
  BY DEF TypesInv
<1>4. ASSUME NEW i \in Issues
      PROVE  remote[i].updated <= clock' /\ (issue'[i] # None => issue'[i].updated <= remote[i].updated)
  <2>1. CASE i \in items
    BY <1>1, <1>2, <1>3, <2>1, PageRows
  <2>2. CASE i \notin items
    BY <1>2, <1>3, <2>2, PageRows
  <2> QED BY <2>1, <2>2
<1>5. NewsInv'
  <2>1. issue' \in [Issues -> IssueRows \cup {None}]
    BY PageRows
  <2> QED BY <1>4, <2>1 DEF NewsInv
<1>6. ClosedInv'
  <2> SUFFICES ASSUME NEW i \in Issues, remote[i].state = "CLOSED"
               PROVE  \/ \E d \in deliveries : d.id = i /\ d.state = "CLOSED"
                                               /\ d.updated = remote[i].updated
                      \/ /\ issue'[i] # None /\ issue'[i].state = "CLOSED"
                         /\ issue'[i].updated = remote[i].updated
    BY DEF ClosedInv
  <2>1. i \in Issues \ items
    BY <1>1
  <2>2. issue[i] # None /\ issue[i].state = "CLOSED" => issue'[i] = issue[i]
    BY <2>1, PageRows
  <2> QED BY <2>2 DEF ClosedInv
<1> QED BY <1>5, <1>6

\* A listed issue is open by this synchronisation, another is held or opened as before.
LEMMA PageHolds ==
    ASSUME TypesInv, NewsInv, NEW items, items \subseteq OpenIssues,
           NEW swept \in BOOLEAN, UNCHANGED <<remote, deliveries>>, started' = SyncStart,
           issue' = IF swept THEN Sweep(IssuesAfter(items)) ELSE IssuesAfter(items)
    PROVE  /\ \A i \in items : HeldOpen(i)'
           /\ \A i \in OpenIssues : HeldOpen(i) => HeldOpen(i)'
           /\ \A i \in OpenIssues : OpensNext(i) => HeldOpen(i)' \/ OpensNext(i)'
<1>1. started' \in Int /\ started' # None
  BY BackfillAssumption DEF SyncStart, NewsInv, TypesInv
<1>2. ASSUME NEW i \in items
      PROVE  HeldOpen(i)'
  <2>1. i \in OpenIssues /\ issue'[i] = Listed(i)
    BY PageRows
  <2>2. /\ Listed(i) # None /\ Listed(i).state = "OPEN" /\ Listed(i).synced = SyncStart
        /\ \A d \in deliveries : d.id = i => \/ d.updated < Listed(i).updated
                                             \/ d.updated = Listed(i).updated /\ d.state = "OPEN"
    BY <2>1, ListedRow
  <2>3. issue'[i].synced >= started'
    BY <1>1, <2>1, <2>2
  <2> HIDE DEF Listed
  <2> QED BY <1>1, <2>1, <2>2, <2>3 DEF HeldOpen
<1>3. ASSUME NEW i \in OpenIssues \ items, HeldOpen(i)
      PROVE  HeldOpen(i)'
  <2>1. i \in Issues \ items /\ started' = started /\ started \in Int
    BY <1>3 DEF OpenIssues, HeldOpen, SyncStart, NewsInv
  <2>2. issue[i] # None /\ issue[i].synced \in Int /\ issue[i].synced >= started
    BY <1>3, <2>1 DEF HeldOpen, NewsInv, IssueRows
  <2>3. ~(issue[i].synced < SyncStart)
    BY <2>1, <2>2
  <2>4. issue'[i] = issue[i]
    BY <2>1, <2>2, <2>3, PageRows
  <2> QED BY <1>3, <2>1, <2>4 DEF HeldOpen
<1>4. ASSUME NEW i \in OpenIssues \ items, OpensNext(i)
      PROVE  OpensNext(i)'
  <2>1. i \in Issues \ items
    BY DEF OpenIssues
  <2>2. /\ issue'[i] = None <=> issue[i] = None
        /\ issue[i] # None => issue'[i].updated = issue[i].updated
    BY <2>1, PageRows
  <2> QED BY <1>4, <2>2 DEF OpensNext
<1> QED BY <1>2, <1>3, <1>4

\* The page that ends the listing sweeps what it has not shown.
LEMMA PageReconciles ==
    ASSUME ImportInv, WindowsInv, NewsInv, ClosedInv, OpenedInv, mode = "issues", ImportPage
    PROVE  NewsInv' /\ ClosedInv' /\ OpenedInv'
<1>1. TypesInv /\ Pending /\ tracked /\ ~Capped /\ Items \subseteq OpenIssues
      /\ UNCHANGED <<mode, remote, deliveries, tracked, drifted>>
  BY PageStores, IssuesMode DEF ImportInv, fixed, github, ImportPage, ghosts
<1>2. /\ started' = SyncStart /\ SyncStart \in Int /\ started' # None
      /\ clock' = IF started = None THEN SyncStart ELSE clock
  <2>1. started' = SyncStart
    BY DEF ImportPage, Requeue, Finish
  <2>2. SyncStart \in Int
    BY <1>1 DEF SyncStart, NewsInv, TypesInv
  <2> QED BY <2>1, <2>2, BackfillAssumption DEF ImportPage
<1>3. clock' \in Int /\ clock <= clock'
  BY <1>1, <1>2 DEF SyncStart, TypesInv
<1>4. PICK swept \in BOOLEAN : swept = ~Continues
  OBVIOUS
<1>5. issue' = IF swept THEN Sweep(IssuesAfter(Items)) ELSE IssuesAfter(Items)
  BY <1>1, <1>4, IssuesMode DEF ImportPage
<1>6. NewsInv' /\ ClosedInv'
  BY <1>1, <1>2, <1>3, <1>5, PageNews
<1>7. Completed' => swept
  <2>1. CASE Continues
    BY <2>1, GoesOn DEF Completed, Pending
  <2> QED BY <1>4, <2>1
<1>8. OpenedInv'
  <2> SUFFICES ASSUME ~drifted
               PROVE  /\ started' <= clock'
                      /\ \A i \in OpenIssues : \/ Pending' /\ i \in ToCome'
                                               \/ HeldOpen(i)' \/ OpensNext(i)'
                      /\ Completed' => \A i \in Issues :
                            issue'[i] # None /\ issue'[i].state = "OPEN" =>
                                issue'[i].synced >= started'
    BY <1>1, <1>2 DEF OpenedInv, OpenIssues
  <2>1. /\ started # None => started <= clock
        /\ \A i \in OpenIssues : i \in ToCome \/ HeldOpen(i) \/ OpensNext(i)
    BY <1>1 DEF OpenedInv, Live
  <2>2. started' <= clock'
    BY <1>2, <2>1 DEF SyncStart
  <2>3. ASSUME NEW i \in OpenIssues
        PROVE  (Pending' /\ i \in ToCome') \/ HeldOpen(i)' \/ OpensNext(i)'
    <3>1. CASE i \in ToCome
      <4>1. i \in Items \/ (Continues /\ i \in Later)
        BY <1>1, <3>1, PageTakes, IssuesMode DEF TooOld
      <4>2. CASE i \in Items
        BY <1>1, <1>2, <1>5, <4>2, PageHolds
      <4>3. CASE Continues /\ i \in Later
        BY <4>3, GoesOn
      <4> QED BY <4>1, <4>2, <4>3
    <3>2. CASE HeldOpen(i) \/ OpensNext(i)
      BY <1>1, <1>2, <1>5, <3>2, PageHolds
    <3> QED BY <2>1, <3>1, <3>2
  <2>4. ASSUME Completed', NEW i \in Issues, issue'[i] # None, issue'[i].state = "OPEN"
        PROVE  issue'[i].synced >= started'
    <3>1. ~(issue'[i].synced < SyncStart)
      BY <1>1, <1>5, <1>7, <2>4, PageRows
    <3>2. issue'[i].synced \in Int
      <4>1. issue' \in [Issues -> IssueRows \cup {None}]
        BY <1>6 DEF NewsInv
      <4> QED BY <2>4, <4>1 DEF IssueRows
    <3> QED BY <1>2, <3>1, <3>2
  <2> QED BY <2>2, <2>3, <2>4
<1> QED BY <1>6, <1>8

\* A page that fails on the way has the date of a synchronisation that starts again.
LEMMA FailureReconciles ==
    ASSUME ImportInv, NewsInv, ClosedInv, OpenedInv, mode = "issues", FailPage
    PROVE  NewsInv' /\ ClosedInv' /\ OpenedInv'
<1>1. /\ TypesInv /\ Pending /\ tracked /\ Items \subseteq OpenIssues
      /\ UNCHANGED <<mode, remote, pull, completed, deliveries, tracked, drifted, cursor, started>>
      /\ status' \in {"PENDING", "DEAD"}
  BY IssuesMode DEF ImportInv, fixed, github, repository, FailPage, ghosts, Working, Pending, Items,
     Page
<1>2. PICK items \in SUBSET Items : issue' = IssuesAfter(items)
  <2>1. PICK items \in SUBSET (IF Capped THEN {} ELSE Items) : issue' = IssuesAfter(items)
    BY <1>1, IssuesMode DEF FailPage
  <2> QED BY <2>1
<1>3. items \subseteq OpenIssues /\ FALSE \in BOOLEAN
      /\ issue' = IF FALSE THEN Sweep(IssuesAfter(items)) ELSE IssuesAfter(items)
  BY <1>1, <1>2
<1>4. /\ started \in Int \cup {None} /\ clock \in Int /\ clock' \in Int /\ clock <= clock'
      /\ started # None => clock' = clock
  BY <1>1 DEF FailPage, SyncStart, NewsInv, TypesInv
<1>5. NewsInv' /\ ClosedInv'
  <2>1. UNCHANGED <<remote, deliveries>> /\ started' \in Int \cup {None}
    BY <1>1, <1>4
  <2> HIDE DEF NewsInv, ClosedInv
  <2> QED BY <1>1, <1>3, <1>4, <2>1, PageNews
<1>6. OpenedInv'
  <2> SUFFICES ASSUME Live', ~drifted
               PROVE  /\ started # None => started <= clock'
                      /\ started = None => cursor.page = 1
                      /\ \A i \in OpenIssues : i \in ToCome' \/ HeldOpen(i)' \/ OpensNext(i)'
    BY <1>1 DEF OpenedInv, OpenIssues, Live, Pending, Completed
  <2>1. /\ started # None => started <= clock
        /\ started = None => cursor.page = 1
        /\ \A i \in OpenIssues : i \in ToCome \/ HeldOpen(i) \/ OpensNext(i)
    BY <1>1 DEF OpenedInv, Live
  <2>2. ToCome' = ToCome
    <3>1. UNCHANGED <<Sources, cursor>> /\ cursor.stage # "REVIEWS"
      BY <1>1, IssuesMode DEF Sources
    <3> QED BY <3>1, SameToCome
  <2>3. CASE started = None
    <3>1. ToCome = OpenIssues
      BY <1>1, <2>1, <2>3, FirstPage, IssuesMode
    <3> QED BY <2>1, <2>2, <2>3, <3>1
  <2>4. CASE started # None
    <3>1. started' = SyncStart
      BY <1>1, <2>4 DEF SyncStart
    <3> QED BY <1>1, <1>3, <1>4, <2>1, <2>2, <2>4, <3>1, PageHolds
  <2> QED BY <2>3, <2>4
<1> QED BY <1>5, <1>6

\* Withdrawing the repository takes nothing from what is held or to come.
LEMMA IssuesOpenedKept ==
    ASSUME TypesInv, OpenedInv, mode = "issues", Live' => Live, Completed' => Completed,
           Pending => Pending',
           UNCHANGED <<mode, remote, pull, completed, issue, deliveries, clock, cursor, started,
                       drifted>>
    PROVE  OpenedInv'
<1>1. ToCome' = ToCome
  <2>1. UNCHANGED <<Sources, cursor>> /\ cursor.stage # "REVIEWS"
    BY IssuesMode DEF Sources
  <2> QED BY <2>1, SameToCome
<1> QED BY <1>1 DEF OpenedInv, OpenIssues, HeldOpen, OpensNext

\* The job ends without success, is untracked, or nothing happens.
LEMMA BesideReconciles ==
    ASSUME ImportInv, NewsInv, ClosedInv, OpenedInv, mode = "issues",
           GiveUp \/ Withdraw \/ UNCHANGED vars
    PROVE  NewsInv' /\ ClosedInv' /\ OpenedInv'
<1>1. /\ UNCHANGED <<mode, remote, pull, completed, issue, deliveries, clock, cursor, drifted>>
      /\ started' \in Int \cup {None}
  BY DEF GiveUp, Withdraw, Finish, vars, fixed, github, mirror, job, ghosts, SyncStart, ImportInv,
         TypesInv, NewsInv
<1>2. NewsInv' /\ ClosedInv'
  BY <1>1 DEF NewsInv, ClosedInv
<1>3. OpenedInv'
  <2>1. CASE GiveUp
    <3>1. ~Live'
      BY <2>1 DEF GiveUp, Finish, repository, Live, Pending, Completed
    <3> QED BY <3>1 DEF OpenedInv
  <2>2. CASE Withdraw
    <3>1. /\ UNCHANGED started /\ Pending /\ Pending' /\ ~Completed'
      BY <2>2 DEF Withdraw, job, Pending, Completed
    <3>2. TypesInv /\ (Live' => Live) /\ (Completed' => Completed)
      BY <3>1 DEF Live, ImportInv
    <3> QED BY <1>1, <3>1, <3>2, IssuesOpenedKept
  <2>3. CASE UNCHANGED vars
    <3>1. UNCHANGED started /\ Pending' = Pending /\ Completed' = Completed
      BY <2>3 DEF vars, job, repository, Pending, Completed
    <3>2. TypesInv /\ (Live' => Live)
      BY <3>1 DEF Live, ImportInv
    <3> QED BY <1>1, <3>1, <3>2, IssuesOpenedKept
  <2> QED BY <2>1, <2>2, <2>3
<1> QED BY <1>2, <1>3

\* What a step keeps of each issue.
LEMMA IssuesStep == IssuesInv /\ ImportInv /\ WindowsInv /\ [Next]_vars => IssuesInv'
<1> SUFFICES ASSUME IssuesInv, ImportInv, WindowsInv, [Next]_vars, mode' = "issues"
             PROVE  NewsInv' /\ ClosedInv' /\ OpenedInv'
  BY DEF IssuesInv
<1>1. UNCHANGED mode
  BY DEF Next, Process, ChangeIssue, CommentIssue, ChangePull, ChangeRun, Change, HandleIssue,
         HandleMerge, Withdraw, GiveUp, SplitWindow, ImportPage, FailPage, vars, fixed
<1>2. mode = "issues" /\ TypesInv /\ NewsInv /\ ClosedInv /\ OpenedInv
  BY <1>1 DEF IssuesInv, ImportInv
<1>3. CASE Outside
  BY <1>2, <1>3, ChangeNews
<1>4. CASE \E d \in deliveries : HandleIssue(d)
  BY <1>2, <1>4, DeliveryNews
<1>5. CASE \E p \in Pulls : HandleMerge(p)
  BY <1>2, <1>5 DEF HandleMerge
<1>6. CASE SplitWindow
  BY <1>2, <1>6, IssuesMode DEF SplitWindow
<1>7. CASE ImportPage
  BY <1>2, <1>7, PageReconciles
<1>8. CASE FailPage
  BY <1>2, <1>8, FailureReconciles
<1>9. CASE GiveUp \/ Withdraw \/ UNCHANGED vars
  BY <1>2, <1>9, BesideReconciles
<1> QED BY <1>3, <1>4, <1>5, <1>6, <1>7, <1>8, <1>9 DEF Next, Process, Outside

\* When the job is queued all open issues are to come and nothing is newer than GitHub.
LEMMA IssuesInit == Init => IssuesInv
<1> SUFFICES ASSUME Init, mode = "issues" PROVE NewsInv /\ ClosedInv /\ OpenedInv
  BY DEF IssuesInv
<1>1. /\ remote = [i \in Issues |-> [state |-> "OPEN", updated |-> i]]
      /\ issue \in [Issues -> {None, [state |-> "OPEN", updated |-> 0, synced |-> 0]}]
      /\ deliveries = {} /\ started = None /\ clock = Horizon /\ status = "PENDING"
      /\ cursor.page = 1 /\ Issues \subseteq Nat /\ \A i \in Issues : i <= Horizon
  BY BackfillAssumption DEF Init, At
<1>2. [state |-> "OPEN", updated |-> 0, synced |-> 0] \in IssueRows
  BY DEF IssueRows
<1>3. NewsInv
  BY <1>1, <1>2 DEF NewsInv
<1>4. ClosedInv
  BY <1>1 DEF ClosedInv
<1>5. OpenedInv
  <2>1. TypesInv
    BY ImportInit DEF ImportInv
  <2>2. ToCome = OpenIssues
    BY <1>1, <2>1, FirstPage, IssuesMode
  <2> QED BY <1>1, <2>2 DEF OpenedInv, Pending, Completed
<1> QED BY <1>3, <1>4, <1>5

\* The invariant holds of every behaviour.
THEOREM IssuesInvariance == Spec => []IssuesInv
<1> QED BY IssuesInit, IssuesStep, ImportInvariance, WindowsInvariance, PTL DEF Spec

\* The sweep and the deliveries, handled in any order, leave GitHub's issues
\* (backfill_repository.py:485).
THEOREM IssuesAreReconciled == Spec => []IssuesReconciled
<1>1. IssuesInv /\ ImportInv => IssuesReconciled
  <2> SUFFICES ASSUME IssuesInv, ImportInv, Completed, mode = "issues", ~drifted,
                      deliveries = {}, NEW i \in Issues
               PROVE  LET open == issue[i] # None /\ issue[i].state = "OPEN" IN
                      IF remote[i].state = "DELETED"
                      THEN open => issue[i].synced >= started
                      ELSE open <=> remote[i].state = "OPEN"
    BY DEF IssuesReconciled
  <2>1. ClosedInv /\ OpenedInv /\ Live /\ ~Pending
        /\ remote[i].state \in {"OPEN", "CLOSED", "DELETED"}
    BY DEF IssuesInv, Live, Pending, Completed, ImportInv, TypesInv
  <2>2. issue[i] # None /\ issue[i].state = "OPEN" => issue[i].synced >= started
    BY <2>1 DEF OpenedInv
  <2>3. remote[i].state = "OPEN" => issue[i] # None /\ issue[i].state = "OPEN"
    BY <2>1 DEF OpenedInv, OpenIssues, HeldOpen, OpensNext
  <2>4. remote[i].state = "CLOSED" => issue[i] # None /\ issue[i].state = "CLOSED"
    BY <2>1 DEF ClosedInv
  <2> QED BY <2>1, <2>2, <2>3, <2>4
<1> QED BY <1>1, IssuesInvariance, ImportInvariance, PTL
=============================================================================
