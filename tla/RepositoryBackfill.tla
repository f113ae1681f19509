-------------------------- MODULE RepositoryBackfill --------------------------
(***************************************************************************)
(* One BACKFILL_REPOSITORY job.  It imports one page per lease and queues  *)
(* itself again with a cursor; deliveries are handled and GitHub changes   *)
(* between two pages, not during one.  Its modes: the whole import (open   *)
(* pull requests, closed ones, then workflow runs or deployments), the     *)
(* risk of open pull requests, the open issues, and the reviews of merged  *)
(* pull requests.                                                          *)
(*                                                                         *)
(* A listing is GitHub's at that moment, newest first, cut into pages by   *)
(* offset.  A page that fails may have stored part of its items.           *)
(***************************************************************************)
EXTENDS Integers, Sequences, FiniteSets

CONSTANTS
    Issues, Pulls, Runs,     \* naturals: their ids; a run is a workflow run or a deployment
    Created,                 \* [Runs -> instant]
    PullsAtStart,            \* what the pull requests may be: state, updated, merged
    CompletedAtStart,        \* which runs may have completed
    Cutoff, Horizon, Second, \* the imported interval, in a unit that halves
    PageSize,
    Cap,                     \* results GitHub returns of one filtered query: 1,000
    MaxWindows,              \* pending windows a cursor may hold: 64
    MaxAttempts,             \* of the job
    MaxChanges, MaxFaults,   \* bounds
    None

PullRows == [state : {"OPEN", "MERGED", "CLOSED"}, updated : Int, merged : Int]
IssueRows == [state : {"OPEN", "CLOSED"}, updated : Int, synced : Int]

\* Widths that halve, from the whole interval's down to a second's.
Halving(width) ==
    /\ width[MaxWindows] = Horizon - Cutoff /\ width[0] <= Second
    /\ \A k \in 1 .. MaxWindows : width[k] <= 2 * width[k - 1]

\* What is there at the start is dated in the past, a merge no later than the last update.
\* A cursor holds more windows than it takes to halve the interval into seconds.
ASSUME BackfillAssumption ==
    /\ \A S \in {Issues, Pulls, Runs} : S \subseteq Nat /\ IsFiniteSet(S)
    /\ Created \in [Runs -> Int] /\ CompletedAtStart \subseteq SUBSET Runs
    /\ PullsAtStart \subseteq [Pulls -> PullRows]
    /\ \A pulls0 \in PullsAtStart, p \in Pulls :
          pulls0[p].merged <= pulls0[p].updated /\ pulls0[p].updated <= Horizon
    /\ \A i \in Issues : i <= Horizon
    /\ None \notin Int /\ None \notin IssueRows
    /\ Cutoff \in Int /\ Horizon \in Int /\ Cutoff < Horizon
    /\ Second \in Nat \ {0} /\ PageSize \in Nat \ {0} /\ Cap \in Nat \ {0}
    /\ MaxWindows \in Nat /\ MaxAttempts \in Nat \ {0} /\ MaxChanges \in Nat /\ MaxFaults \in Nat
    /\ \E width \in [0 .. MaxWindows -> 0 .. Horizon - Cutoff] : Halving(width)

VARIABLES
    mode, signal,   \* of the job, and the repository's deploymentSignal
    remote,         \* [Issues -> state and updated_at on GitHub]
    pull,           \* [Pulls -> state, updated and merged on GitHub]
    completed,      \* runs that have completed
    clock,          \* GitHub's and ours
    deliveries,     \* issue deliveries not yet handled
    issue,          \* [Issues -> row of github_issues, or None]
    imported, scored, refreshed,  \* pull requests: rows, predictions, reviews
    deployments,    \* runs normalized
    cursor, started,              \* the payload; started is None before the first requeue
    failures,       \* attempts that failed, at first before any page: a requeue gives its back
    denied,         \* a call or an answer was a permanent error
    recalculated,   \* the job has recalculated the whole interval
    active, tracked, \* of the repository: its integration, and itself
    status,
    owed,           \* what there was to import when the job was queued, and still is
    drifted,        \* an item changed pages under the job
    changes, faults

fixed == <<mode, signal>>
github == <<remote, pull, completed>>
pulls == <<imported, scored, refreshed>>
mirror == <<issue, pulls, deployments>>
attempts == <<failures, denied>>
job == <<cursor, started, recalculated, status, attempts>>
repository == <<active, tracked>>
bounds == <<changes, faults>>
ghosts == <<owed, drifted>>
vars == <<fixed, github, clock, deliveries, mirror, job, repository, ghosts, bounds>>

Whole == [start |-> Cutoff, end |-> Horizon]
At(stage, page) == [stage |-> stage, page |-> page, window |-> Whole, pending |-> << >>]
Done == At("DONE", 1)

InitialStage(m) ==
    CASE m = "issues" -> "ISSUES"
      [] m = "reviews" -> "REVIEWS"
      [] OTHER -> "OPEN_PULL_REQUESTS"

In(state) == {p \in Pulls : pull[p].state = state}
Recent(S) == {p \in S : pull[p].merged >= Cutoff}

Init ==
    /\ mode \in {"full", "risk", "issues", "reviews"}
    /\ signal \in {"WORKFLOW_RUN", "DEPLOYMENT", "PUSH", "INVALID"}
    /\ remote = [i \in Issues |-> [state |-> "OPEN", updated |-> i]]
    /\ pull \in PullsAtStart
    /\ completed \in CompletedAtStart
    /\ clock = Horizon
    /\ deliveries = {}
    /\ issue \in [Issues -> {None, [state |-> "OPEN", updated |-> 0, synced |-> 0]}]
    /\ imported = IF mode = "reviews" THEN In("MERGED") ELSE {}
    /\ scored = {} /\ refreshed = {} /\ deployments = {}
    /\ cursor = At(InitialStage(mode), 1)
    /\ started = None /\ recalculated = FALSE
    /\ failures \in 0 .. MaxAttempts - 1 /\ denied = FALSE
    /\ active = TRUE /\ tracked = TRUE /\ status = "PENDING"
    /\ owed = [runs |-> {r \in completed : Created[r] \in Cutoff .. Horizon},
               open |-> In("OPEN"), merged |-> Recent(In("MERGED"))]
    /\ drifted = FALSE
    /\ changes = 0 /\ faults = 0
    \* What the mode does not read need not vary.
    /\ mode # "full" => signal = "PUSH" /\ completed = Runs
    /\ mode # "issues" => \A i \in Issues : issue[i] = None
    /\ mode = "issues" => \A p, q \in Pulls : pull[p] = pull[q]

-----------------------------------------------------------------------------
(* Listings, newest first. *)

Newer(key, x, y) == key[x] > key[y] \/ (key[x] = key[y] /\ x > y)
Rank(key, S, x) == Cardinality({y \in S : Newer(key, y, x)})
Page(key, S, page) == {x \in S : Rank(key, S, x) \in (page - 1) * PageSize .. page * PageSize - 1}
Full(items) == Cardinality(items) = PageSize

IssueUpdated == [i \in Issues |-> remote[i].updated]
PullUpdated == [p \in Pulls |-> pull[p].updated]
OpenIssues == {i \in Issues : remote[i].state = "OPEN"}
Closed == In("MERGED") \cup In("CLOSED")

\* Reviews are refreshed in the order of the merges, which is the listing backwards.
MergedOrder == [p \in Pulls |-> -pull[p].merged]

\* Variant: only those whose reviews are not there yet, by the same offset.
ReviewRowsLeft ==
    {p \in imported \ refreshed : pull[p].state = "MERGED" /\ pull[p].merged >= Cutoff}

ReviewRows == {p \in imported : pull[p].state = "MERGED" /\ pull[p].merged >= Cutoff}

\* The runs a windowed query matches.
Matching(w) == {r \in completed : w.start <= Created[r] /\ Created[r] <= w.end}

\* What the listing of the current stage shows, and the order it is in.
Listing ==
    CASE cursor.stage = "OPEN_PULL_REQUESTS" -> In("OPEN")
      [] cursor.stage = "PULL_REQUESTS" -> Closed
      [] cursor.stage = "ISSUES" -> OpenIssues
      [] cursor.stage = "REVIEWS" -> ReviewRows
      [] cursor.stage = "WORKFLOW_RUNS" -> Matching(cursor.window)
      [] cursor.stage = "DEPLOYMENTS" -> Runs
      [] OTHER -> {}
Order ==
    CASE cursor.stage \in {"OPEN_PULL_REQUESTS", "PULL_REQUESTS"} -> PullUpdated
      [] cursor.stage = "ISSUES" -> IssueUpdated
      [] cursor.stage = "REVIEWS" -> MergedOrder
      [] OTHER -> Created

\* No more than Cap runs of one query can be paged to.
Items ==
    LET page == Page(Order, Listing, cursor.page) IN
    IF cursor.stage = "WORKFLOW_RUNS"
    THEN {r \in page : Rank(Created, Listing, r) < Cap} ELSE page

-----------------------------------------------------------------------------
(* GitHub changes, and issue deliveries are handled, between two pages.    *)

\* What the pages to come would show, were the listing to stay as it is.
ToCome ==
    {x \in Listing :
        /\ Rank(Order, Listing, x) >= (cursor.page - 1) * PageSize
        /\ cursor.stage = "WORKFLOW_RUNS" /\ cursor.page > 1 => Rank(Order, Listing, x) < Cap}

Change ==
    /\ status = "PENDING"
    /\ changes < MaxChanges
    /\ changes' = changes + 1
    /\ clock' = clock + 1
    /\ UNCHANGED <<fixed, mirror, job, repository, faults>>
    /\ owed' = [owed EXCEPT !.runs = @ \cap completed', !.open = @ \cap In("OPEN")']
    /\ drifted' = (drifted \/ ~(ToCome \cap Listing' \subseteq ToCome'))

IssueBecomes(i, state) ==
    /\ remote' = [remote EXCEPT ![i] = [state |-> state, updated |-> clock + 1]]
    /\ UNCHANGED <<pull, completed>>

\* An issue is edited, closed, opened again or deleted; a comment only dates it.
ChangeIssue ==
    /\ mode = "issues"
    /\ \E i \in Issues, state \in {"OPEN", "CLOSED", "DELETED"} :
        /\ remote[i].state # "DELETED"
        /\ IssueBecomes(i, state)
        /\ deliveries' = deliveries \cup {[id |-> i, state |-> state, updated |-> clock + 1]}
    /\ Change
CommentIssue ==
    /\ mode = "issues"
    /\ \E i \in OpenIssues : IssueBecomes(i, "OPEN")
    /\ UNCHANGED deliveries
    /\ Change

\* A pull request is updated or merged, while the job still lists them.
ChangePull ==
    /\ cursor.stage \in {"OPEN_PULL_REQUESTS", "PULL_REQUESTS", "REVIEWS"}
    /\ \E p \in Pulls :
        \/ pull' = [pull EXCEPT ![p].updated = clock + 1]
        \/ /\ pull[p].state = "OPEN"
           /\ pull' = [pull EXCEPT ![p] = [state |-> "MERGED", updated |-> clock + 1,
                                           merged |-> clock + 1]]
    /\ UNCHANGED <<remote, completed, deliveries>>
    /\ Change

\* A run completes, or is run again, while the job lists them.
ChangeRun ==
    /\ cursor.stage \in {"WORKFLOW_RUNS", "DEPLOYMENTS"}
    /\ \E r \in Runs :
        \/ r \notin completed /\ completed' = completed \cup {r}
        \/ r \in completed /\ completed' = completed \ {r}
    /\ UNCHANGED <<remote, pull, deliveries>>
    /\ Change

Upsert(row, new) == IF row = None \/ new.updated >= row.updated THEN new ELSE row

\* _handle_issue: a deletion is not remembered, so a delivery older than it may follow.
HandleIssue(d) ==
    /\ deliveries' = deliveries \ {d}
    /\ issue' = [issue EXCEPT ![d.id] =
                    IF d.state = "DELETED" THEN None
                    ELSE Upsert(@, [state |-> d.state, updated |-> d.updated, synced |-> clock])]
    /\ UNCHANGED <<fixed, github, clock, pulls, deployments, job, repository, ghosts, bounds>>

\* A merged pull request is imported by its delivery.
HandleMerge(p) ==
    /\ p \in In("MERGED") \ imported
    /\ mode = "reviews" /\ status = "PENDING"
    /\ imported' = imported \cup {p}
    /\ UNCHANGED <<fixed, github, clock, deliveries, issue, scored, refreshed, deployments,
                   job, repository, ghosts, bounds>>

\* The repository is no longer tracked, or its integration no longer ACTIVE.
Withdraw ==
    /\ status = "PENDING"
    /\ faults < MaxFaults
    /\ faults' = faults + 1
    /\ \/ tracked /\ tracked' = FALSE /\ UNCHANGED active
       \/ active /\ active' = FALSE /\ UNCHANGED tracked
    /\ UNCHANGED <<fixed, github, clock, deliveries, mirror, job, ghosts, changes>>

-----------------------------------------------------------------------------
(* One page: _process_page. *)

\* Variant: every page takes its own time.
SyncStartNow == clock + 1

\* The start of the synchronisation is set by the first page and kept by a requeue.
SyncStart == IF started = None THEN clock + 1 ELSE started

Listed(i) == [state |-> "OPEN", updated |-> remote[i].updated, synced |-> SyncStart]

\* The rows after the items have been upserted.
IssuesAfter(items) ==
    [i \in Issues |-> IF i \in items THEN Upsert(issue[i], Listed(i)) ELSE issue[i]]

Missing(row) == row # None /\ row.state = "OPEN" /\ row.synced < SyncStart

\* Whatever was open here and is on no page is closed.
Sweep(rows) ==
    [i \in Issues |-> IF Missing(rows[i]) THEN [rows[i] EXCEPT !.state = "CLOSED"] ELSE rows[i]]

StoreItems(items) ==
    /\ imported' = imported \cup
        CASE cursor.stage = "OPEN_PULL_REQUESTS" -> items
          [] cursor.stage = "PULL_REQUESTS" -> Recent(items \cap In("MERGED"))
          [] OTHER -> {}
    /\ scored' = scored \cup (IF cursor.stage = "OPEN_PULL_REQUESTS" THEN items ELSE {})
    /\ refreshed' = refreshed \cup (IF cursor.stage = "REVIEWS" THEN items ELSE {})
    /\ deployments' = deployments \cup
        CASE cursor.stage = "WORKFLOW_RUNS" -> items
          [] cursor.stage = "DEPLOYMENTS" -> {r \in items \cap completed : Created[r] >= Cutoff}
          [] OTHER -> {}

NextPage == [cursor EXCEPT !.page = @ + 1]
Window(w, pending) ==
    [stage |-> "WORKFLOW_RUNS", page |-> 1, window |-> w, pending |-> pending]

DeploymentStage ==
    CASE signal = "WORKFLOW_RUN" -> Window(Whole, << >>)
      [] signal = "DEPLOYMENT" -> At("DEPLOYMENTS", 1)
      [] OTHER -> Done

NextWindow ==
    IF cursor.pending = << >> THEN Done ELSE Window(Head(cursor.pending), Tail(cursor.pending))

\* Variant: stops at a pull request that is not recent.
ContinuesByMerge ==
    /\ Full(Items)
    /\ CASE cursor.stage = "PULL_REQUESTS" -> \A p \in Items : pull[p].merged >= Cutoff
         [] cursor.stage = "DEPLOYMENTS" -> \A r \in Items : Created[r] >= Cutoff
         [] cursor.stage = "WORKFLOW_RUNS" -> cursor.page * PageSize < Cardinality(Listing)
         [] OTHER -> TRUE

\* The stage's listing goes on.  Both lists that are cut at the cutoff are in an order
\* that dates their items no earlier than what makes them recent.
Continues ==
    /\ Full(Items)
    /\ CASE cursor.stage = "PULL_REQUESTS" -> \A p \in Items : pull[p].updated >= Cutoff
         [] cursor.stage = "DEPLOYMENTS" -> \A r \in Items : Created[r] >= Cutoff
         [] cursor.stage = "WORKFLOW_RUNS" -> cursor.page * PageSize < Cardinality(Listing)
         [] OTHER -> TRUE

\* The last page of pull requests is stored; then the setting is an error.
InvalidSignal == cursor.stage = "PULL_REQUESTS" /\ ~Continues /\ signal = "INVALID"

Following ==
    IF Continues THEN NextPage
    ELSE CASE cursor.stage = "OPEN_PULL_REQUESTS" /\ mode # "risk" -> At("PULL_REQUESTS", 1)
           [] cursor.stage = "PULL_REQUESTS" -> DeploymentStage
           [] cursor.stage = "WORKFLOW_RUNS" -> NextWindow
           [] OTHER -> Done

\* A first page of a query that GitHub cuts short.
Capped ==
    /\ cursor.stage = "WORKFLOW_RUNS" /\ cursor.page = 1
    /\ Cardinality(Listing) >= Cap
TooDense == cursor.window.end - cursor.window.start <= Second
Refused == Len(cursor.pending) > MaxWindows

\* Variant: cuts a second off the window.
MidpointByStep == cursor.window.start + Second

Midpoint == cursor.window.start + (cursor.window.end - cursor.window.start) \div 2
NewerHalf == [start |-> Midpoint, end |-> cursor.window.end]
OlderHalf == [start |-> cursor.window.start, end |-> Midpoint]

\* Variants: the older half is not kept, or the job goes on with the window it had.
SplitForgetting == Window(NewerHalf, cursor.pending)
SplitNothing == cursor

\* Both halves hold the midpoint: a run may be seen twice.
Split == Window(NewerHalf, <<OlderHalf>> \o cursor.pending)

Requeue(next) ==
    /\ cursor' = next
    /\ started' = SyncStart
    /\ UNCHANGED <<status, recalculated>>
Finish(outcome) ==
    /\ status' = outcome
    /\ started' = SyncStart
    /\ UNCHANGED cursor

Working == status = "PENDING" /\ active /\ tracked /\ ~Refused

\* The cursor is refused, the integration is not ACTIVE, an untracked repository's job does
\* nothing, or the window cannot be halved.
GiveUp ==
    /\ status = "PENDING"
    /\ \/ Refused \/ ~active
       \/ ~tracked
       \/ Capped /\ TooDense
    /\ Finish(IF ~Refused /\ active /\ ~tracked THEN "SUCCEEDED" ELSE "DEAD")
    /\ UNCHANGED <<fixed, github, clock, deliveries, mirror, recalculated, attempts, repository,
                   ghosts, bounds>>

SplitWindow ==
    /\ Working /\ Capped /\ ~TooDense
    /\ Requeue(Split)
    /\ UNCHANGED <<fixed, github, clock, deliveries, mirror, attempts, repository, ghosts, bounds>>

ImportPage ==
    /\ Working /\ ~Capped
    /\ StoreItems(Items)
    /\ issue' = CASE cursor.stage # "ISSUES" -> issue
                  [] Continues -> IssuesAfter(Items)
                  [] OTHER -> Sweep(IssuesAfter(Items))
    /\ CASE InvalidSignal -> Finish("DEAD") /\ UNCHANGED recalculated
         [] ~InvalidSignal /\ Following # Done -> Requeue(Following)
         [] OTHER -> Finish("SUCCEEDED") /\ recalculated' = (mode \in {"full", "reviews"})
    /\ clock' = IF started = None THEN SyncStart ELSE clock
    /\ UNCHANGED <<fixed, github, deliveries, attempts, repository, ghosts, bounds>>

\* A call fails, or the worker dies before it queues the job again: the job is retried, until
\* its attempts are spent, or the error is permanent.
FailPage ==
    /\ Working
    /\ faults < MaxFaults
    /\ faults' = faults + 1
    /\ \/ failures' = failures + 1 /\ UNCHANGED denied
       \/ denied' = TRUE /\ UNCHANGED failures
    /\ status' = IF denied' \/ failures' >= MaxAttempts THEN "DEAD" ELSE "PENDING"
    /\ \E items \in SUBSET (IF Capped THEN {} ELSE Items) :
        /\ StoreItems(items)
        /\ issue' = IF cursor.stage = "ISSUES" THEN IssuesAfter(items) ELSE issue
    /\ clock' = IF started = None THEN SyncStart ELSE clock
    /\ UNCHANGED <<fixed, github, deliveries, cursor, started, recalculated, repository, ghosts,
                   changes>>

Process == GiveUp \/ SplitWindow \/ ImportPage \/ FailPage

Next ==
    \/ ChangeIssue \/ CommentIssue \/ ChangePull \/ ChangeRun
    \/ \E d \in deliveries : HandleIssue(d)
    \/ \E p \in Pulls : HandleMerge(p)
    \/ Withdraw
    \/ Process

Spec == Init /\ [][Next]_vars

\* The worker comes back to a job that is due, and GitHub settles down.
FairSpec == Spec /\ WF_vars(Process)

-----------------------------------------------------------------------------
Completed == status = "SUCCEEDED" /\ tracked

\* "pagination can never silently omit older runs" (backfill_repository.py:374): a job
\* that succeeds has every run of the interval, unless the listing moved under it.
NoRunOmitted ==
    Completed /\ mode = "full" /\ signal # "PUSH" /\ ~drifted =>
        owed.runs \subseteq deployments

\* Every instant of the interval that the current window and those before it do not
\* reach is in a pending one (:385).
WindowsCover ==
    cursor.stage = "WORKFLOW_RUNS" =>
        \A t \in Cutoff .. cursor.window.start :
            \E i \in 1 .. Len(cursor.pending) \cup {0} :
                LET w == IF i = 0 THEN cursor.window ELSE cursor.pending[i]
                IN w.start <= t /\ t <= w.end

\* However dense the runs, halving never outgrows the 64 windows a cursor may hold (:549): the
\* job does not die of its own cursor.  It dies of an integration that is not ACTIVE (:59),
\* of its attempts or a permanent error, of the setting (:351), and of a second that holds
\* too many runs (:378).
CursorAccepted ==
    /\ ~Refused
    /\ status = "DEAD" =>
          \/ ~active \/ failures >= MaxAttempts \/ denied
          \/ InvalidSignal
          \/ Capped /\ TooDense

\* Stopping at a page older than the cutoff (:331) loses no recent pull request, and every
\* open one is scored "regardless of its age" (:192), whatever failed on the way; the
\* job has then recalculated the interval.
PullsImported ==
    Completed /\ mode \in {"full", "risk"} /\ ~drifted =>
        /\ owed.open \subseteq scored
        /\ mode = "full" => owed.merged \subseteq imported /\ recalculated

\* "offset pages stay stable while the job runs" (:262): every pull request merged before
\* the job has its reviews refreshed, though merges add rows between its pages.
ReviewsRefreshed == Completed /\ mode = "reviews" => owed.merged \subseteq refreshed

\* After the sweep (:485) the issues are GitHub's, once the deliveries are handled, in any
\* order.  A deleted issue may be open only by a delivery handled since the start.
IssuesReconciled ==
    Completed /\ mode = "issues" /\ ~drifted /\ deliveries = {} =>
        \A i \in Issues :
            LET open == issue[i] # None /\ issue[i].state = "OPEN" IN
            IF remote[i].state = "DELETED"
            THEN open => issue[i].synced >= started
            ELSE open <=> remote[i].state = "OPEN"

\* The job ends, whatever fails and however the windows are cut.
BackfillEnds == <>(status # "PENDING")
=============================================================================
