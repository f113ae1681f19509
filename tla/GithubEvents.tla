----------------------------- MODULE GithubEvents -----------------------------
(***************************************************************************)
(* The deliveries about one pull request of a tracked repository.  GitHub  *)
(* changes the pull request and sends one delivery per change, possibly    *)
(* twice; each is a raw event and a job, and jobs run in any order.  The   *)
(* handler reads GitHub's present state in several calls, mirrors it in    *)
(* several transactions, and queues a recalculation once the pull request  *)
(* is merged.                                                              *)
(*                                                                         *)
(* Handlers work under the repository's lease, which a dead session        *)
(* releases under a handler that still runs.  Timestamps are the           *)
(* provider's; a list of commits or reviews is known by its version.       *)
(***************************************************************************)
EXTENDS Naturals, Sequences

CONSTANTS
    Draft,           \* is the pull request a draft when it is first heard of
    MaxEvents,       \* bound: deliveries GitHub sends
    MaxFaults,       \* bound: errors, crashes, lost sessions and untracking
    None

\* What the columns guarded by last_synced_at say of the pull request.
Pulls == [updated : Nat, state : {"OPEN", "MERGED"}, draft : BOOLEAN]

ASSUME EventsAssumption ==
    /\ MaxEvents \in Nat /\ MaxFaults \in Nat /\ Draft \in BOOLEAN
    /\ None \notin Nat /\ None \notin Pulls

Jobs == 1 .. MaxEvents

VARIABLES
    remote,      \* the pull request on GitHub
    event,       \* the deliveries so far
    raw,         \* status of their raw_webhook_events
    status,      \* of their jobs
    stage, seen, \* where a handler is, and what it has read
    row,         \* pull_requests: the columns guarded by last_synced_at, or None
    readyAt,     \* its ready_for_review_at, 0 for NULL
    commits, reviews,   \* pull_request_commits, pull_request_reviews
    prediction,  \* commits and files the stored risk was computed from
    measured,    \* what was mirrored when a recalculation was last queued
    tracked,     \* tracking_enabled and not archived
    holder, lost, faults

provider == <<remote, event>>
children == <<commits, reviews>>
mirror == <<row, readyAt, children, prediction>>
leases == <<holder, lost>>
vars == <<provider, raw, status, stage, seen, mirror, measured, tracked, leases, faults>>

NothingSeen == [pull |-> None, commits |-> 0, reviews |-> 0]

Init ==
    /\ remote = [updated |-> 1, state |-> "OPEN", draft |-> Draft, commits |-> 1,
                 reviews |-> 0]
    /\ event = << >>
    /\ raw = [j \in Jobs |-> "RECEIVED"]
    /\ status = [j \in Jobs |-> "ABSENT"]
    /\ stage = [j \in Jobs |-> "none"]
    /\ seen = [j \in Jobs |-> NothingSeen]
    /\ row = None /\ readyAt = 0 /\ commits = 0 /\ reviews = 0
    /\ prediction = None /\ measured = None
    /\ tracked = TRUE
    /\ holder = None /\ lost = FALSE /\ faults = 0

-----------------------------------------------------------------------------
(* GitHub, and adept-api, which stores a delivery with its job.            *)

Deliver(e) ==
    /\ Len(event) < MaxEvents
    /\ event' = Append(event, e)
    /\ status' = [status EXCEPT ![Len(event) + 1] = "PENDING"]
    /\ UNCHANGED <<raw, stage, seen, mirror, measured, tracked, leases, faults>>

Changed(kind, pull) ==
    LET now == remote.updated + 1 IN
    /\ remote.state = "OPEN" \/ kind = "review"
    /\ remote' = [pull EXCEPT !.updated = now]
    /\ Deliver([kind |-> kind, at |-> now])

Push == Changed("synchronize", [remote EXCEPT !.commits = @ + 1])
ConvertToDraft == ~remote.draft /\ Changed("converted_to_draft", [remote EXCEPT !.draft = TRUE])
MarkReady ==
    /\ remote.draft
    /\ Changed("ready_for_review", [remote EXCEPT !.draft = FALSE])
Merge == ~remote.draft /\ Changed("closed", [remote EXCEPT !.state = "MERGED"])
Review == Changed("review", [remote EXCEPT !.reviews = @ + 1])

\* GitHub sends a delivery again.
Redeliver == \E i \in 1 .. Len(event) : Deliver(event[i]) /\ UNCHANGED remote

GithubStep == Push \/ ConvertToDraft \/ MarkReady \/ Merge \/ Review \/ Redeliver

\* A user stops tracking the repository.
Untrack ==
    /\ tracked
    /\ tracked' = FALSE
    /\ faults < MaxFaults
    /\ faults' = faults + 1
    /\ UNCHANGED <<provider, raw, status, stage, seen, mirror, measured, leases>>

-----------------------------------------------------------------------------
(* The job and its lease.  A job deferred because the lease is busy is as it was;  *)
(* one given up after its last attempt is one that is not claimed again.           *)

To(j, at) == stage' = [stage EXCEPT ![j] = at]
Mark(j, s) == raw' = [raw EXCEPT ![j] = s]
Release(j) == holder' = IF holder = j THEN None ELSE holder

\* Variant: the lease is not exclusive.
AcquireShared(j) == holder' = j

Acquire(j) == holder = None /\ holder' = j

\* With the lease, the handler asks whether the repository is tracked and marks the
\* raw event.
Start(j) ==
    /\ status[j] \in {"PENDING", "FAILED"}
    /\ Acquire(j)
    /\ status' = [status EXCEPT ![j] = "RUNNING"]
    /\ IF tracked THEN Mark(j, "PROCESSING") /\ To(j, "dispatched")
                  ELSE Mark(j, "IGNORED") /\ To(j, "finished")
    /\ UNCHANGED <<provider, seen, mirror, measured, tracked, lost, faults>>

End(j) ==
    /\ To(j, "none")
    /\ seen' = [seen EXCEPT ![j] = NothingSeen]
    /\ Release(j)

Succeed(j) ==
    /\ stage[j] = "finished"
    /\ status' = [status EXCEPT ![j] = "SUCCEEDED"]
    /\ End(j)
    /\ UNCHANGED <<provider, raw, mirror, measured, tracked, lost, faults>>

\* An exception marks the raw event FAILED on its way to the worker; a crash, once
\* recovered, leaves it as it was.
Fail(j) ==
    /\ stage[j] # "none"
    /\ faults < MaxFaults
    /\ faults' = faults + 1
    /\ \/ stage[j] # "finished" /\ Mark(j, "FAILED")
       \/ UNCHANGED raw
    /\ status' = [status EXCEPT ![j] = "FAILED"]
    /\ End(j)
    /\ UNCHANGED <<provider, mirror, measured, tracked, lost>>

LoseSession ==
    /\ holder # None
    /\ faults < MaxFaults
    /\ faults' = faults + 1
    /\ holder' = None
    /\ lost' = TRUE
    /\ UNCHANGED <<provider, raw, status, stage, seen, mirror, measured, tracked>>

-----------------------------------------------------------------------------
(* _handle_pull_request and _handle_pull_request_review. *)

\* The review of a pull request already stored needs only its reviews.
ReviewsOnly(j) == event[j].kind = "review" /\ row # None

Reading(j, from, to, what) ==
    /\ stage[j] = from
    /\ To(j, to)
    /\ seen' = [seen EXCEPT ![j] = what]
    /\ UNCHANGED <<provider, raw, status, mirror, measured, tracked, leases, faults>>

ReadPull(j) ==
    /\ Reading(j, "dispatched", "commits",
               [seen[j] EXCEPT !.pull = [updated |-> remote.updated, state |-> remote.state,
                                         draft |-> remote.draft]])
    /\ ~ReviewsOnly(j)
ReadCommits(j) ==
    Reading(j, "commits", "reviews", [seen[j] EXCEPT !.commits = remote.commits])
ReadReviews(j) ==
    \/ Reading(j, "reviews", "row", [seen[j] EXCEPT !.reviews = remote.reviews])
    \/ /\ Reading(j, "dispatched", "replace reviews",
                  [seen[j] EXCEPT !.reviews = remote.reviews])
       /\ ReviewsOnly(j)

Writing(j, from, to) ==
    /\ stage[j] = from
    /\ To(j, to)
    /\ UNCHANGED <<provider, raw, status, seen, measured, tracked, leases, faults>>

\* Variant: the upsert takes any row.
AcceptsAny(pull) == TRUE

\* ON CONFLICT DO UPDATE ... WHERE the row is not newer.
Accepts(pull) == row = None \/ pull.updated >= row.updated

\* ready_for_review_at is the delivery's, kept by COALESCE; a refused row is no error.
UpsertRow(j) ==
    LET pull == seen[j].pull IN
    /\ Writing(j, "row", "replace commits")
    /\ IF Accepts(pull)
       THEN /\ row' = pull
            /\ readyAt' = IF event[j].kind = "ready_for_review" THEN event[j].at ELSE readyAt
       ELSE UNCHANGED <<row, readyAt>>
    /\ UNCHANGED <<children, prediction>>

\* The lists are replaced whole, whether the row was accepted or not.
ReplaceCommits(j) ==
    /\ Writing(j, "replace commits", "replace reviews")
    /\ commits' = seen[j].commits
    /\ UNCHANGED <<row, readyAt, reviews, prediction>>

ReplaceReviews(j) ==
    /\ Writing(j, "replace reviews",
               IF seen[j].pull # None /\ seen[j].pull.state = "OPEN" THEN "score" ELSE "measure")
    /\ reviews' = seen[j].reviews
    /\ UNCHANGED <<row, readyAt, commits, prediction>>

\* The files are one more call; the prediction replaces the stored one.
Score(j) ==
    /\ Writing(j, "score", "measure")
    /\ prediction' = [commits |-> seen[j].commits, files |-> remote.commits]
    /\ UNCHANGED <<row, readyAt, children>>

\* Variant: a review only asks for a recalculation when its row was new.
MeasuresImports(j) == row.state = "MERGED" /\ seen[j].pull # None

\* A merged pull request has its deployments relinked and a recalculation queued.
Measures(j) == row.state = "MERGED"

Measure(j) ==
    /\ stage[j] = "measure"
    /\ To(j, "done")
    /\ measured' = IF Measures(j) THEN mirror ELSE measured
    /\ UNCHANGED <<provider, raw, status, seen, mirror, tracked, leases, faults>>

Processed(j) ==
    /\ stage[j] = "done"
    /\ To(j, "finished")
    /\ Mark(j, "PROCESSED")
    /\ UNCHANGED <<provider, status, seen, mirror, measured, tracked, leases, faults>>

Handle(j) ==
    \/ ReadPull(j) \/ ReadCommits(j) \/ ReadReviews(j)
    \/ UpsertRow(j) \/ ReplaceCommits(j) \/ ReplaceReviews(j) \/ Score(j)
    \/ Measure(j) \/ Processed(j)

Next ==
    \/ GithubStep
    \/ Untrack
    \/ \E j \in Jobs : Start(j) \/ Handle(j) \/ Succeed(j) \/ Fail(j)
    \/ LoseSession

Spec == Init /\ [][Next]_vars

-----------------------------------------------------------------------------
\* GitHub has sent something, and every delivery has been handled: none was given up
\* or ignored.
Settled ==
    /\ tracked
    /\ Len(event) > 0
    /\ \A j \in 1 .. Len(event) : status[j] = "SUCCEEDED"

\* "Retries and re-deliveries converge on a single correct row"
\* (pull_requests.py:6): once all deliveries are handled, in whatever order, with
\* whatever errors, crashes and lost sessions, the guarded columns are GitHub's.
RowConverges ==
    Settled => row # None /\ row.state = remote.state /\ row.draft = remote.draft

\* So are the lists and the risk of an open pull request (pull_requests.py:262).  They
\* are replaced without a guard: it takes that no session is lost under a handler,
\* and, for what a review delivery does not refresh, a delivery of another kind.
ListsConverge ==
    Settled /\ ~lost =>
        /\ reviews = remote.reviews
        /\ (\E j \in 1 .. Len(event) : event[j].kind # "review") =>
              /\ commits = remote.commits
              /\ remote.state = "OPEN" =>
                    prediction = [commits |-> remote.commits, files |-> remote.commits]

\* "Reviews of open PRs are picked up by the recalculation queued at merge"
\* (github_event.py:376): whatever is mirrored of a merged pull request was there when
\* a recalculation was last queued, whoever wrote it and whatever failed in between.
MergedIsMeasured ==
    Settled /\ row # None => (row.state = "MERGED" => measured = mirror)

\* A raw event is PROCESSED only once the row is as new as the change it announces.
ProcessedMeansMirrored ==
    \A j \in 1 .. Len(event) : raw[j] = "PROCESSED" =>
        /\ row # None
        /\ event[j].kind # "review" => row.updated >= event[j].at

\* "The review arrived before (or without) its pull request delivery, so import the
\* whole pull request" (github_event.py:347): once the review is handled, the commits
\* are there and an open pull request is scored.
ImportIsWhole ==
    Settled /\ ~lost =>
        /\ commits = remote.commits
        /\ remote.state = "OPEN" => prediction # None
=============================================================================
