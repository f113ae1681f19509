-------------------------- MODULE GithubConvergence --------------------------
(***************************************************************************)
(* Proofs about GithubEvents: that retries and re-deliveries, in whatever  *)
(* order, converge on what GitHub says of the pull request.                *)
(***************************************************************************)
EXTENDS GithubEvents, TLAPS

Kinds == {"synchronize", "converted_to_draft", "ready_for_review", "closed", "review"}
Events == [kind : Kinds, at : Nat]

Remotes == [updated : Nat, state : {"OPEN", "MERGED"}, draft : BOOLEAN,
            commits : Nat, reviews : Nat]

Readings == {"commits", "reviews", "row"}
Writings == {"replace commits", "replace reviews", "score", "measure"}
Stages == {"none", "dispatched", "done", "finished"} \cup Readings \cup Writings
Statuses == {"ABSENT", "PENDING", "RUNNING", "FAILED", "SUCCEEDED"}
RawStatuses == {"RECEIVED", "PROCESSING", "PROCESSED", "FAILED", "IGNORED"}

TypeOK ==
    /\ remote \in Remotes
    /\ event \in Seq(Events)
    /\ Len(event) <= MaxEvents
    /\ raw \in [Jobs -> RawStatuses]
    /\ status \in [Jobs -> Statuses]
    /\ stage \in [Jobs -> Stages]
    /\ seen \in [Jobs -> [pull : Pulls \cup {None}, commits : Nat, reviews : Nat]]
    /\ row \in Pulls \cup {None}
    /\ tracked \in BOOLEAN
    /\ holder \in Jobs \cup {None}
    /\ lost \in BOOLEAN

-----------------------------------------------------------------------------
\* A delivery is appended with its job; the earlier ones stay.
LEMMA Delivered ==
    ASSUME TypeOK, NEW e \in Events, Deliver(e)
    PROVE  /\ event' \in Seq(Events)
           /\ Len(event') = Len(event) + 1 /\ Len(event') <= MaxEvents
           /\ Len(event') \in Jobs
           /\ event'[Len(event')] = e
           /\ \A i \in 1 .. Len(event) : event'[i] = event[i] /\ event[i] \in Events
           /\ status' = [status EXCEPT ![Len(event')] = "PENDING"]
<1>1. event' = Append(event, e) /\ event \in Seq(Events)
  BY DEF Deliver, TypeOK
<1>2. Len(event) \in Nat /\ Len(event') = Len(event) + 1 /\ event' \in Seq(Events)
  BY <1>1
<1>3. Len(event') <= MaxEvents /\ Len(event') \in Jobs
  BY <1>2, EventsAssumption DEF Deliver, TypeOK, Jobs, EventsAssumption
<1>4. event'[Len(event')] = e
  BY <1>1, <1>2
<1>5. \A i \in 1 .. Len(event) : event'[i] = event[i] /\ event[i] \in Events
  BY <1>1, <1>2
<1> QED BY <1>1, <1>2, <1>3, <1>4, <1>5 DEF Deliver

\* A delivery of a step of GitHub's, and what the pull request becomes: a change dates
\* it anew and sends that date, and only a review comes after the merge or leaves the
\* columns alone; or an earlier delivery is sent again.
Sends(e) ==
    /\ e \in Events /\ remote' \in Remotes
    /\ Deliver(e)
    /\ \/ /\ e.at = remote.updated + 1 /\ remote'.updated = e.at
          /\ IF e.kind = "review"
             THEN /\ remote'.state = remote.state /\ remote'.draft = remote.draft
                  /\ remote'.commits = remote.commits
             ELSE remote.state = "OPEN" /\ remote'.reviews = remote.reviews
       \/ remote' = remote /\ \E i \in 1 .. Len(event) : e = event[i]

\* Changed() sends what it should when it is given what each of its callers gives it.
LEMMA ChangedSends ==
    ASSUME TypeOK, NEW kind \in Kinds, NEW pull \in Remotes, Changed(kind, pull),
           kind = "review" => /\ pull.state = remote.state /\ pull.draft = remote.draft
                              /\ pull.commits = remote.commits,
           kind # "review" => pull.reviews = remote.reviews
    PROVE  \E e : Sends(e)
<1> DEFINE e == [kind |-> kind, at |-> remote.updated + 1]
<1>1. remote.updated \in Nat /\ e \in Events
  BY DEF TypeOK, Remotes, Events
<1>2. remote' = [pull EXCEPT !.updated = e.at] /\ Deliver(e)
  BY DEF Changed
<1>3. /\ remote' \in Remotes /\ remote'.updated = e.at
      /\ remote'.state = pull.state /\ remote'.draft = pull.draft
      /\ remote'.commits = pull.commits /\ remote'.reviews = pull.reviews
  BY <1>1, <1>2 DEF Remotes
<1>4. kind = "review" \/ remote.state = "OPEN"
  BY DEF Changed
<1> QED BY <1>1, <1>2, <1>3, <1>4 DEF Sends

\* Every step of GitHub's sends a delivery.
LEMMA GithubSends ==
    ASSUME TypeOK, GithubStep
    PROVE  \E e : Sends(e)
<1> USE DEF Kinds
<1>0. remote \in Remotes
  BY DEF TypeOK
<1>1. CASE Push
  <2> [remote EXCEPT !.commits = @ + 1] \in Remotes
    BY <1>0 DEF Remotes
  <2> QED BY <1>0, <1>1, ChangedSends DEF Push, Remotes
<1>2. CASE ConvertToDraft
  <2> [remote EXCEPT !.draft = TRUE] \in Remotes
    BY <1>0 DEF Remotes
  <2> QED BY <1>0, <1>2, ChangedSends DEF ConvertToDraft, Remotes
<1>3. CASE MarkReady
  <2> [remote EXCEPT !.draft = FALSE] \in Remotes
    BY <1>0 DEF Remotes
  <2> QED BY <1>0, <1>3, ChangedSends DEF MarkReady, Remotes
<1>4. CASE Merge
  <2> [remote EXCEPT !.state = "MERGED"] \in Remotes
    BY <1>0 DEF Remotes
  <2> QED BY <1>0, <1>4, ChangedSends DEF Merge, Remotes
<1>5. CASE Review
  <2> [remote EXCEPT !.reviews = @ + 1] \in Remotes
    BY <1>0 DEF Remotes
  <2> QED BY <1>0, <1>5, ChangedSends DEF Review, Remotes
<1>6. CASE Redeliver
  <2>1. PICK i \in 1 .. Len(event) : Deliver(event[i]) /\ UNCHANGED remote
    BY <1>6 DEF Redeliver
  <2>2. event[i] \in Events
    BY DEF TypeOK
  <2> QED BY <1>0, <2>1, <2>2 DEF Sends
<1> QED BY <1>1, <1>2, <1>3, <1>4, <1>5, <1>6 DEF GithubStep

\* What a step of GitHub's leaves alone.
LEMMA GithubKeeps ==
    ASSUME NEW e, Deliver(e)
    PROVE  UNCHANGED <<raw, stage, seen, row, readyAt, commits, reviews, prediction,
                       measured, tracked, holder, lost>>
BY DEF Deliver, mirror, children, leases

\* The steps of a handler keep the types.
LEMMA HandleType == ASSUME TypeOK, NEW j \in Jobs, Handle(j) PROVE TypeOK'
<1> USE DEF provider, mirror, children, leases, TypeOK, Stages, Readings, Writings
<1>0. seen[j] \in [pull : Pulls \cup {None}, commits : Nat, reviews : Nat]
  OBVIOUS
<1>1. CASE ReadPull(j)
  <2> DEFINE p == [updated |-> remote.updated, state |-> remote.state, draft |-> remote.draft]
  <2>1. p \in Pulls
    BY DEF Remotes, Pulls
  <2>2. [seen[j] EXCEPT !.pull = p]
          \in [pull : Pulls \cup {None}, commits : Nat, reviews : Nat]
    BY <1>0, <2>1
  <2> HIDE DEF p
  <2> QED BY <1>1, <2>2 DEF ReadPull, Reading, To, p
<1>2. CASE ReadCommits(j)
  BY <1>0, <1>2 DEF ReadCommits, Reading, To, Remotes
<1>3. CASE ReadReviews(j)
  <2>1. [seen[j] EXCEPT !.reviews = remote.reviews]
          \in [pull : Pulls \cup {None}, commits : Nat, reviews : Nat]
    BY <1>0 DEF Remotes
  <2>2. stage' = [stage EXCEPT ![j] = "row"] \/ stage' = [stage EXCEPT ![j] = "replace reviews"]
    BY <1>3 DEF ReadReviews, Reading, To
  <2>3. stage' \in [Jobs -> Stages]
    BY <2>2
  <2> QED BY <1>3, <2>1, <2>3 DEF ReadReviews, Reading
<1>4. CASE UpsertRow(j)
  <2>1. stage[j] = "row" /\ stage' = [stage EXCEPT ![j] = "replace commits"]
    BY <1>4 DEF UpsertRow, Writing, To
  <2>2. row' \in Pulls \cup {None}
    BY <1>0, <1>4 DEF UpsertRow
  <2> QED BY <1>4, <2>1, <2>2 DEF UpsertRow, Writing
<1>5. CASE ReplaceCommits(j)
  BY <1>5 DEF ReplaceCommits, Writing, To
<1>6. CASE ReplaceReviews(j)
  BY <1>6 DEF ReplaceReviews, Writing, To
<1>7. CASE Score(j)
  BY <1>7 DEF Score, Writing, To
<1>8. CASE Measure(j)
  BY <1>8 DEF Measure, To
<1>9. CASE Processed(j)
  BY <1>9 DEF Processed, To, Mark, RawStatuses
<1> QED BY <1>1, <1>2, <1>3, <1>4, <1>5, <1>6, <1>7, <1>8, <1>9 DEF Handle

\* Every step keeps the types.
LEMMA TypeStep == TypeOK /\ [Next]_vars => TypeOK'
<1> SUFFICES ASSUME TypeOK, [Next]_vars PROVE TypeOK'
  OBVIOUS
<1> USE DEF provider, mirror, children, leases
<1>1. CASE GithubStep
  <2>1. PICK e : Sends(e)
    BY <1>1, GithubSends
  <2> QED BY <2>1, Delivered, GithubKeeps DEF Sends, TypeOK, Statuses
<1>2. CASE Untrack
  BY <1>2 DEF Untrack, TypeOK
<1>3. ASSUME NEW j \in Jobs, Start(j) PROVE TypeOK'
  BY <1>3 DEF Start, Acquire, Mark, To, TypeOK, Stages, Statuses, RawStatuses
<1>4. ASSUME NEW j \in Jobs, Succeed(j) PROVE TypeOK'
  BY <1>4 DEF Succeed, End, Release, To, NothingSeen, TypeOK, Stages, Statuses
<1>5. ASSUME NEW j \in Jobs, Fail(j) PROVE TypeOK'
  BY <1>5 DEF Fail, End, Release, Mark, To, NothingSeen, TypeOK, Stages, Statuses, RawStatuses
<1>6. CASE LoseSession
  BY <1>6 DEF LoseSession, TypeOK
<1>7. CASE UNCHANGED vars
  BY <1>7 DEF vars, TypeOK
<1> QED BY <1>1, <1>2, <1>3, <1>4, <1>5, <1>6, <1>7, HandleType DEF Next

\* The first state has the types.
LEMMA TypeInit == Init => TypeOK
<1> SUFFICES ASSUME Init PROVE TypeOK
  OBVIOUS
<1>1. event \in Seq(Events) /\ Len(event) = 0 /\ MaxEvents \in Nat
  BY EventsAssumption DEF Init, EventsAssumption
<1>2. remote \in Remotes
  BY EventsAssumption DEF Init, Remotes, EventsAssumption
<1>3. /\ stage \in [Jobs -> Stages]
      /\ seen \in [Jobs -> [pull : Pulls \cup {None}, commits : Nat, reviews : Nat]]
  BY DEF Init, Stages, NothingSeen
<1>4. raw \in [Jobs -> RawStatuses] /\ status \in [Jobs -> Statuses]
  BY DEF Init, RawStatuses, Statuses
<1>5. row = None /\ tracked \in BOOLEAN /\ holder = None /\ lost \in BOOLEAN
  BY DEF Init
<1> QED BY <1>1, <1>2, <1>3, <1>4, <1>5 DEF TypeOK

-----------------------------------------------------------------------------
(* The invariant.  The row and what the handlers hold are readings of the  *)
(* pull request at their date; the dates of the deliveries order them.     *)

Sent == 1 .. Len(event)

\* Where the handler of a job is, and the statuses of the job and of its raw event.
Placed(j) ==
    /\ status[j] = "ABSENT" <=> j > Len(event)
    /\ stage[j] # "none" <=> status[j] = "RUNNING"
    /\ status[j] = "ABSENT" => raw[j] = "RECEIVED"
    /\ tracked /\ (stage[j] = "finished" \/ status[j] = "SUCCEEDED") => raw[j] = "PROCESSED"

\* A handler has read the pull request, and no earlier than its delivery says.
Informed(j) ==
    /\ stage[j] \in {"none", "dispatched"} => seen[j].pull = None
    /\ stage[j] \in Readings \cup {"replace commits", "score"} => seen[j].pull # None
    /\ event[j].kind # "review" =>
          /\ stage[j] = "replace reviews" => seen[j].pull # None
          /\ seen[j].pull # None => seen[j].pull.updated >= event[j].at

\* Once its handler is past the row, or its raw event PROCESSED, the row is as new as
\* the delivery.
Mirrored(j) ==
    stage[j] \in Writings \cup {"done"} \/ raw[j] = "PROCESSED" =>
        /\ row # None
        /\ event[j].kind # "review" => row.updated >= event[j].at

Dated == \A i \in Sent : event[i].at <= remote.updated

\* What a reading says is so, or a later delivery says that it is not.
Reads(pull) ==
    pull # None =>
        /\ pull.updated <= remote.updated
        /\ pull.state = "MERGED" => remote.state = "MERGED"
        /\ \/ pull.state = remote.state /\ pull.draft = remote.draft
           \/ \E i \in Sent : event[i].kind # "review" /\ event[i].at > pull.updated

RowInv ==
    /\ TypeOK
    /\ \A j \in Jobs : Placed(j) /\ Informed(j) /\ Mirrored(j) /\ Reads(seen[j].pull)
    /\ Dated /\ Reads(row)

\* A job whose handler writes, or will write, and has not asked for a recalculation.
Busy(j) ==
    status[j] = "FAILED" \/ stage[j] \in {"dispatched"} \cup Readings \cup Writings

MeasureInv ==
    tracked /\ row # None /\ row.state = "MERGED" =>
        measured = mirror \/ \E j \in Jobs : Busy(j)

Waits(j) == status[j] \in {"PENDING", "FAILED"}
FullWaits == \E j \in Sent : event[j].kind # "review" /\ Waits(j)
Refreshes(stages) == \E j \in Sent : event[j].kind # "review" /\ stage[j] \in stages

\* The handler at work holds the lease.
Exclusive == \A j \in Jobs : stage[j] # "none" => holder = j

\* The reviews are GitHub's, or a job is to come; so are those a handler holds.
ReviewsInv ==
    /\ \/ reviews = remote.reviews \/ \E j \in Jobs : Waits(j)
       \/ \E j \in Jobs : stage[j] \in {"dispatched", "replace reviews", "replace commits"}
                                        \cup Readings
    /\ \A j \in Jobs : stage[j] \in {"row", "replace commits", "replace reviews"} =>
          seen[j].reviews = remote.reviews \/ \E k \in Jobs : Waits(k)

\* Where the commits a handler has read are still to be used.
HoldsCommits(j) ==
    \/ stage[j] \in {"reviews", "row", "replace commits", "score"}
    \/ stage[j] = "replace reviews" /\ seen[j].pull # None

Full == \E j \in Sent : event[j].kind # "review"

\* So are the commits and the prediction, once a delivery other than a review has come.
CommitsInv ==
    /\ Full => \/ commits = remote.commits \/ FullWaits
               \/ Refreshes({"dispatched", "replace commits"} \cup Readings)
    /\ Full /\ remote.state = "OPEN" =>
          \/ prediction = [commits |-> remote.commits, files |-> remote.commits]
          \/ FullWaits
          \/ Refreshes({"dispatched", "replace commits", "replace reviews", "score"}
                         \cup Readings)
    /\ \A j \in Jobs : HoldsCommits(j) =>
          seen[j].commits = remote.commits \/ FullWaits

ListsInv == ~lost => Exclusive /\ (tracked => ReviewsInv /\ CommitsInv)

-----------------------------------------------------------------------------
\* A delivery keeps the invariant of the row: it is newer than all readings, or as old
\* as an earlier delivery.
LEMMA GithubRow == ASSUME RowInv, NEW e, Sends(e) PROVE RowInv'
<1> USE DEF Sent
<1>0. TypeOK /\ e \in Events /\ Deliver(e) /\ Len(event) \in Nat
  BY DEF RowInv, Sends, TypeOK
<1>1. TypeOK'
  BY <1>0, Delivered, GithubKeeps DEF RowInv, Sends, TypeOK, Statuses
<1>2. /\ UNCHANGED <<raw, stage, seen, row, tracked>>
      /\ Len(event') = Len(event) + 1 /\ Len(event') \in Jobs
      /\ \A i \in Sent : event'[i] = event[i] /\ event[i] \in Events
      /\ event'[Len(event')] = e
      /\ status' = [status EXCEPT ![Len(event')] = "PENDING"]
  BY <1>0, Delivered, GithubKeeps
<1>3. remote'.updated >= remote.updated /\ remote.updated \in Nat /\ remote'.updated \in Nat
  BY <1>1, <1>0 DEF Sends, TypeOK, Remotes
<1>4. Dated'
  <2>1. e.at <= remote'.updated
    BY <1>0, <1>3 DEF Sends, RowInv, Dated, Events
  <2>2. \A i \in Sent : event[i].at \in Nat
    BY <1>2 DEF Events
  <2> QED BY <1>0, <1>2, <1>3, <2>1, <2>2 DEF RowInv, Dated
<1>5. ASSUME NEW pull \in Pulls \cup {None}, Reads(pull) PROVE Reads(pull)'
  <2> SUFFICES ASSUME pull # None PROVE Reads(pull)'
    BY DEF Reads
  <2>1. pull.updated \in Nat /\ pull.updated <= remote.updated
    BY <1>5 DEF Pulls, Reads
  <2>2. CASE remote' = remote
    BY <1>0, <1>2, <1>5, <2>2 DEF Reads
  <2>3. CASE e.kind = "review" /\ remote' # remote
    BY <1>0, <1>2, <1>3, <1>5, <2>1, <2>3 DEF Reads, Sends
  <2>4. CASE e.kind # "review" /\ remote' # remote
    <3>1. e.at > pull.updated /\ remote.state = "OPEN"
      BY <1>3, <2>1, <2>4 DEF Sends
    <3>2. pull.state # "MERGED" /\ pull.updated <= remote'.updated
      BY <1>3, <1>5, <2>1, <3>1 DEF Reads
    <3>3. Len(event') \in Sent' /\ event'[Len(event')] = e
      BY <1>0, <1>2
    <3> QED BY <2>4, <3>1, <3>2, <3>3 DEF Reads
  <2> QED BY <2>2, <2>3, <2>4
<1>6. Reads(row)'
  BY <1>2, <1>5, <1>0 DEF RowInv, TypeOK
<1>7. ASSUME NEW j \in Jobs
      PROVE  (Placed(j) /\ Informed(j) /\ Mirrored(j) /\ Reads(seen[j].pull))'
  <2>1. Reads(seen[j].pull)'
    BY <1>0, <1>2, <1>5 DEF RowInv, TypeOK
  <2>0. ASSUME j > Len(event)
        PROVE  status[j] = "ABSENT" /\ stage[j] = "none" /\ raw[j] = "RECEIVED"
               /\ seen[j].pull = None
    <3>1. status[j] = "ABSENT" /\ raw[j] = "RECEIVED"
      BY <2>0 DEF RowInv, Placed
    <3>2. stage[j] = "none"
      BY <3>1 DEF RowInv, Placed
    <3> QED BY <3>1, <3>2 DEF RowInv, Informed
  <2>2. CASE j = Len(event')
    <3>1. status[j] = "ABSENT" /\ stage[j] = "none" /\ raw[j] = "RECEIVED" /\ seen[j].pull = None
      BY <1>0, <1>2, <2>0, <2>2
    <3> QED BY <1>0, <1>2, <2>1, <2>2, <3>1
            DEF TypeOK, Placed, Informed, Mirrored, Readings, Writings
  <2>3. CASE j # Len(event')
    <3>1. status'[j] = status[j] /\ (j > Len(event) <=> j > Len(event'))
      BY <1>0, <1>2, <2>3 DEF TypeOK, Jobs
    <3>2. Placed(j)'
      BY <1>2, <3>1 DEF RowInv, Placed
    <3>3. CASE j \in Sent
      BY <1>2, <2>1, <3>2, <3>3 DEF RowInv, Informed, Mirrored
    <3>4. CASE j \notin Sent
      <4>1. status[j] = "ABSENT" /\ stage[j] = "none" /\ raw[j] = "RECEIVED"
             /\ seen[j].pull = None
        BY <1>0, <2>0, <3>4 DEF Jobs
      <4> QED BY <1>2, <2>1, <3>2, <4>1 DEF Informed, Mirrored, Readings, Writings
    <3> QED BY <3>3, <3>4
  <2> QED BY <2>2, <2>3
<1> QED BY <1>1, <1>4, <1>6, <1>7 DEF RowInv

\* While GitHub does nothing, readings remain readings, and the pull request as it is
\* is one.
LEMMA ReadingsRemain ==
    ASSUME RowInv, UNCHANGED provider
    PROVE  /\ Dated'
           /\ \A pull : Reads(pull) => Reads(pull)'
           /\ Reads([updated |-> remote.updated, state |-> remote.state,
                     draft |-> remote.draft])'
BY DEF provider, RowInv, TypeOK, Remotes, Dated, Reads, Sent

\* The steps of a job, taken together: the row and what GitHub says stay, and one job
\* changes its place.
LEMMA JobRow ==
    ASSUME RowInv, NEW j \in Jobs, Start(j) \/ Succeed(j) \/ Fail(j)
    PROVE  RowInv'
<1> USE DEF provider, mirror, children
<1>1. TypeOK /\ TypeOK'
  BY TypeStep DEF RowInv, Next
<1>2. UNCHANGED <<provider, row, tracked>>
  BY DEF Start, Succeed, Fail
<1>3. Dated' /\ Reads(row)'
  BY <1>2, ReadingsRemain DEF RowInv
<1>4. ASSUME NEW i \in Jobs PROVE (Placed(i) /\ Informed(i) /\ Mirrored(i) /\ Reads(seen[i].pull))'
  <2>0. Placed(i) /\ Informed(i) /\ Mirrored(i) /\ Reads(seen[i].pull)
    BY DEF RowInv
  <2>1. CASE i # j
    <3>1. UNCHANGED <<status[i], raw[i], stage[i], seen[i]>>
      BY <1>1, <2>1 DEF TypeOK, Start, Succeed, Fail, Mark, To, End
    <3>2. Reads(seen[i].pull)'
      BY <1>2, <2>0, <3>1, ReadingsRemain
    <3> QED BY <1>2, <2>0, <3>1, <3>2 DEF Placed, Informed, Mirrored
  <2>2. CASE i = j /\ Start(j)
    <3>1. /\ status[j] \in {"PENDING", "FAILED"} /\ status'[j] = "RUNNING"
          /\ seen' = seen
          /\ \/ stage'[j] = "dispatched" /\ raw'[j] = "PROCESSING"
             \/ stage'[j] = "finished" /\ raw'[j] = "IGNORED" /\ ~tracked
      BY <1>1, <2>2 DEF TypeOK, Start, Mark, To
    <3>2. stage[j] = "none" /\ seen[j].pull = None
      BY <2>0, <2>2, <3>1 DEF Placed, Informed
    <3>3. Reads(seen[i].pull)'
      BY <2>2, <3>1, <3>2 DEF Reads
    <3> QED BY <1>2, <2>0, <2>2, <3>1, <3>2, <3>3
            DEF Placed, Informed, Mirrored, Readings, Writings
  <2>3. CASE i = j /\ (Succeed(j) \/ Fail(j))
    <3>1. /\ stage'[j] = "none" /\ seen'[j].pull = None /\ stage[j] # "none"
          /\ \/ status'[j] = "SUCCEEDED" /\ stage[j] = "finished" /\ raw'[j] = raw[j]
             \/ status'[j] = "FAILED" /\ raw'[j] \in {"FAILED", raw[j]}
      BY <1>1, <2>3 DEF TypeOK, Succeed, Fail, End, To, Mark, NothingSeen
    <3>2. status[j] = "RUNNING"
      BY <2>0, <2>3, <3>1 DEF Placed
    <3>3. Reads(seen[i].pull)'
      BY <2>3, <3>1 DEF Reads
    <3> QED BY <1>2, <2>0, <2>3, <3>1, <3>2, <3>3
            DEF Placed, Informed, Mirrored, Readings, Writings
  <2> QED BY <2>1, <2>2, <2>3
<1> QED BY <1>1, <1>3, <1>4 DEF RowInv

\* A delivery that has come is one of GitHub's.
LEMMA EventTyped ==
    ASSUME TypeOK, NEW i \in Sent
    PROVE  event[i].at \in Nat /\ event[i].kind \in Kinds
<1>1. event[i] \in Events
  BY DEF TypeOK, Sent
<1> QED BY <1>1 DEF Events

\* A row that is replaced is replaced by a reading at least as new.
LEMMA RowAdvances ==
    ASSUME RowInv, NEW j \in Jobs, Handle(j)
    PROVE  /\ Reads(row)'
           /\ row # None => row' # None /\ row'.updated >= row.updated
           /\ stage[j] = "row" =>
                 row' # None /\ row'.updated >= seen[j].pull.updated
<1> USE DEF provider, mirror, children
<1>1. CASE UpsertRow(j)
  <2>1. seen[j].pull \in Pulls /\ Reads(seen[j].pull) /\ Reads(row) /\ row \in Pulls \cup {None}
    BY <1>1 DEF RowInv, TypeOK, Informed, UpsertRow, Writing, Readings
  <2>2. UNCHANGED provider
    BY <1>1 DEF UpsertRow, Writing
  <2>3. seen[j].pull # None /\ seen[j].pull.updated \in Nat
        /\ (row # None => row.updated \in Nat)
    BY <2>1, EventsAssumption DEF EventsAssumption, Pulls
  <2>4. row' = IF Accepts(seen[j].pull) THEN seen[j].pull ELSE row
    BY <1>1 DEF UpsertRow
  <2>5. Reads(seen[j].pull)' => Reads(row)'
    BY <2>1, <2>2, <2>4, ReadingsRemain DEF Reads
  <2>6. \A pull : Reads(pull) => Reads(pull)'
    BY <2>2, ReadingsRemain
  <2>7. Reads(row)'
    BY <2>1, <2>4, <2>6 DEF Reads
  <2> QED BY <2>3, <2>4, <2>7 DEF Accepts
<1>2. CASE ~UpsertRow(j)
  <2>1. UNCHANGED <<provider, row>> /\ stage[j] # "row"
    BY <1>2 DEF Handle, ReadPull, ReadCommits, ReadReviews, ReplaceCommits, ReplaceReviews,
                Score, Measure, Processed, Reading, Writing
  <2>2. row # None => row.updated \in Nat
    BY DEF RowInv, TypeOK, Pulls
  <2> QED BY <2>1, <2>2, ReadingsRemain DEF RowInv
<1> QED BY <1>1, <1>2

\* The handlers other than the one that takes a step keep what the invariant says of them.
LEMMA OthersKeep ==
    ASSUME RowInv, NEW j \in Jobs, Handle(j), NEW i \in Jobs, i # j
    PROVE  (Placed(i) /\ Informed(i) /\ Mirrored(i) /\ Reads(seen[i].pull))'
<1>0. Placed(i) /\ Informed(i) /\ Mirrored(i) /\ Reads(seen[i].pull) /\ TypeOK
  BY DEF RowInv
<1>1. /\ UNCHANGED <<status[i], raw[i], stage[i], seen[i], tracked>>
      /\ UNCHANGED provider
  BY <1>0 DEF TypeOK, Handle, ReadPull, ReadCommits, ReadReviews, UpsertRow, ReplaceCommits,
              ReplaceReviews, Score, Measure, Processed, Reading, Writing, Mark, To
<1>2. Reads(seen[i].pull)'
  BY <1>0, <1>1, ReadingsRemain
<1>3. Mirrored(i)'
  <2>1. event[i].kind # "review" /\ (stage[i] \in Writings \cup {"done"} \/ raw[i] = "PROCESSED")
         => row # None /\ event[i].at \in Nat /\ row.updated \in Nat
    <3>1. raw[i] = "PROCESSED" \/ stage[i] # "none" => i \in Sent
      BY <1>0 DEF Placed, Jobs, Sent, TypeOK
    <3>2. i \in Sent => event[i].at \in Nat
      BY <1>0, EventTyped
    <3> QED BY <1>0, <3>1, <3>2 DEF Mirrored, TypeOK, Pulls, Writings
  <2>2. row' # None => row'.updated \in Nat
    BY TypeStep DEF RowInv, TypeOK, Pulls, Next
  <2> QED BY <1>0, <1>1, <2>1, <2>2, RowAdvances DEF Mirrored, provider
<1> QED BY <1>0, <1>1, <1>2, <1>3 DEF Placed, Informed, provider

\* The handler that takes a step does too.
LEMMA HandlerKeeps ==
    ASSUME RowInv, NEW j \in Jobs, Handle(j)
    PROVE  (Placed(j) /\ Informed(j) /\ Mirrored(j) /\ Reads(seen[j].pull))'
<1> USE DEF provider, mirror, children
<1>0. /\ Placed(j) /\ Informed(j) /\ Mirrored(j) /\ Reads(seen[j].pull) /\ TypeOK /\ Dated
      /\ seen[j] \in [pull : Pulls \cup {None}, commits : Nat, reviews : Nat]
      /\ stage \in [Jobs -> Stages] /\ raw \in [Jobs -> RawStatuses]
      /\ seen \in [Jobs -> [pull : Pulls \cup {None}, commits : Nat, reviews : Nat]]
  BY DEF RowInv, TypeOK
<1>1. /\ stage[j] # "none" /\ UNCHANGED <<provider, status, tracked>>
      /\ row # None => row' # None /\ row'.updated >= row.updated
  BY RowAdvances
  DEF Handle, ReadPull, ReadCommits, ReadReviews, UpsertRow, ReplaceCommits,
      ReplaceReviews, Score, Measure, Processed, Reading, Writing
<1>2. j \in Sent /\ status[j] = "RUNNING"
  BY <1>0, <1>1 DEF Placed, Jobs, Sent, TypeOK
<1>3. /\ event[j].at \in Nat /\ event[j].at <= remote.updated /\ remote.updated \in Nat
      /\ row # None => row.updated \in Nat
      /\ row' # None => row'.updated \in Nat
  <2>1. TypeOK'
    BY TypeStep DEF RowInv, Next
  <2> QED BY <1>0, <1>2, <2>1, EventTyped DEF TypeOK, Remotes, Pulls, Dated
<1>4. CASE ReadPull(j)
  <2> DEFINE p == [updated |-> remote.updated, state |-> remote.state, draft |-> remote.draft]
  <2>1. p # None /\ p.updated = remote.updated
    BY <1>0, EventsAssumption DEF EventsAssumption, TypeOK, Remotes, Pulls
  <2>2. stage[j] = "dispatched" /\ stage'[j] = "commits" /\ seen'[j].pull = p /\ UNCHANGED <<raw, row>>
    BY <1>0, <1>4 DEF ReadPull, Reading, To
  <2>3. Reads(p)' /\ p' = p
    BY <1>1, ReadingsRemain
  <2> HIDE DEF p
  <2>4. Reads(seen[j].pull)'
    BY <1>1, <2>2, <2>3 DEF Reads
  <2>5. Placed(j)' /\ Mirrored(j)'
    BY <1>0, <1>1, <1>2, <2>2 DEF Placed, Mirrored, Writings
  <2>6. Informed(j)'
    BY <1>1, <1>3, <2>1, <2>2 DEF Informed, Readings
  <2> QED BY <2>4, <2>5, <2>6
<1>5. ASSUME seen'[j].pull = seen[j].pull PROVE Reads(seen[j].pull)'
  BY <1>0, <1>1, <1>5, ReadingsRemain
<1>6. CASE ReadCommits(j)
  <2>1. stage[j] = "commits" /\ stage'[j] = "reviews" /\ seen'[j].pull = seen[j].pull /\ UNCHANGED <<raw, row>>
    BY <1>0, <1>6 DEF ReadCommits, Reading, To
  <2> QED BY <1>0, <1>1, <1>2, <1>5, <2>1 DEF Placed, Informed, Mirrored, Readings, Writings
<1>7. CASE ReadReviews(j)
  <2>1. /\ seen'[j].pull = seen[j].pull /\ UNCHANGED <<raw, row>>
        /\ \/ stage[j] = "reviews" /\ stage'[j] = "row"
           \/ /\ stage[j] = "dispatched" /\ stage'[j] = "replace reviews"
              /\ event[j].kind = "review" /\ row # None
    BY <1>0, <1>7 DEF ReadReviews, Reading, To, ReviewsOnly
  <2> QED BY <1>0, <1>1, <1>2, <1>5, <2>1 DEF Placed, Informed, Mirrored, Readings, Writings
<1>8. CASE UpsertRow(j)
  <2>1. stage[j] = "row" /\ stage'[j] = "replace commits" /\ UNCHANGED <<raw, seen>>
    BY <1>0, <1>8 DEF UpsertRow, Writing, To
  <2>2. seen[j].pull # None /\ seen[j].pull.updated \in Nat
    BY <1>0, <2>1 DEF Informed, Readings, Pulls
  <2>3. row' # None /\ row'.updated >= seen[j].pull.updated
    BY <2>1, RowAdvances
  <2>4. Mirrored(j)'
    <3> SUFFICES ASSUME event[j].kind # "review" PROVE row'.updated >= event[j].at
      BY <1>1, <2>3 DEF Mirrored
    <3>1. seen[j].pull.updated >= event[j].at
      BY <1>0, <2>2 DEF Informed
    <3> QED BY <1>3, <2>2, <2>3, <3>1
  <2>5. Placed(j)' /\ Informed(j)'
    BY <1>0, <1>1, <2>1, <2>2 DEF Placed, Informed, Readings
  <2> QED BY <1>5, <2>1, <2>4, <2>5
<1>9. CASE ReplaceCommits(j) \/ ReplaceReviews(j) \/ Score(j) \/ Measure(j) \/ Processed(j)
  <2>1. /\ UNCHANGED <<seen, row>>
        /\ \/ /\ raw' = raw
              /\ \/ stage[j] = "replace commits" /\ stage'[j] = "replace reviews"
                 \/ /\ stage[j] = "replace reviews"
                    /\ \/ stage'[j] = "score" /\ seen[j].pull # None
                       \/ stage'[j] = "measure"
                 \/ stage[j] = "score" /\ stage'[j] = "measure"
                 \/ stage[j] = "measure" /\ stage'[j] = "done"
           \/ stage[j] = "done" /\ stage'[j] = "finished" /\ raw'[j] = "PROCESSED"
    BY <1>0, <1>9 DEF ReplaceCommits, ReplaceReviews, Score, Measure, Processed, Writing, To, Mark
  <2> QED BY <1>0, <1>1, <1>2, <1>5, <2>1 DEF Placed, Informed, Mirrored, Readings, Writings
<1> QED BY <1>4, <1>6, <1>7, <1>8, <1>9 DEF Handle

\* RowInv is inductive.
LEMMA RowStep == RowInv /\ [Next]_vars => RowInv'
<1> SUFFICES ASSUME RowInv, [Next]_vars PROVE RowInv'
  OBVIOUS
<1>1. CASE GithubStep
  BY <1>1, GithubSends, GithubRow DEF RowInv
<1>2. ASSUME NEW j \in Jobs, Start(j) \/ Succeed(j) \/ Fail(j) PROVE RowInv'
  BY <1>2, JobRow
<1>3. ASSUME NEW j \in Jobs, Handle(j) PROVE RowInv'
  <2>1. TypeOK' /\ Reads(row)'
    BY <1>3, TypeStep, RowAdvances DEF RowInv, Next
  <2>2. UNCHANGED provider
    BY <1>3 DEF Handle, ReadPull, ReadCommits, ReadReviews, UpsertRow, ReplaceCommits,
                ReplaceReviews, Score, Measure, Processed, Reading, Writing
  <2>3. Dated'
    BY <2>2, ReadingsRemain
  <2>4. \A i \in Jobs : (Placed(i) /\ Informed(i) /\ Mirrored(i) /\ Reads(seen[i].pull))'
    BY <1>3, OthersKeep, HandlerKeeps
  <2> QED BY <2>1, <2>3, <2>4 DEF RowInv
<1>4. CASE Untrack \/ LoseSession \/ UNCHANGED vars
  <2>1. /\ UNCHANGED <<provider, raw, status, stage, seen, row>>
        /\ tracked' => tracked
    BY <1>4 DEF Untrack, LoseSession, vars, mirror
  <2>2. TypeOK'
    BY TypeStep DEF RowInv
  <2> QED BY <2>1, <2>2
          DEF provider, RowInv, Placed, Informed, Mirrored, Dated, Reads, Sent
<1> QED BY <1>1, <1>2, <1>3, <1>4 DEF Next

\* So it holds of every reachable state: the row and all that the handlers hold of the
\* pull request are readings of it, and the deliveries bound their dates.
THEOREM RowInvariance == Spec => []RowInv
<1>1. Init => RowInv
  <2> SUFFICES ASSUME Init PROVE RowInv
    OBVIOUS
  <2>1. TypeOK
    BY TypeInit
  <2>2. Len(event) = 0 /\ row = None
    BY DEF Init
  <2>3. \A j \in Jobs : status[j] = "ABSENT" /\ raw[j] = "RECEIVED" /\ stage[j] = "none"
                        /\ seen[j].pull = None
    BY DEF Init, NothingSeen
  <2>4. Dated /\ Reads(row) /\ \A j \in Jobs : Reads(seen[j].pull)
    BY <2>2, <2>3 DEF Dated, Reads, Sent
  <2>5. ASSUME NEW j \in Jobs PROVE Placed(j) /\ Informed(j) /\ Mirrored(j)
    <3>1. j > Len(event)
      BY <2>2, EventsAssumption DEF Jobs, EventsAssumption
    <3> QED BY <2>3, <3>1 DEF Placed, Informed, Mirrored, Readings, Writings
  <2> QED BY <2>1, <2>4, <2>5 DEF RowInv
<1> QED BY <1>1, RowStep, PTL DEF Spec

-----------------------------------------------------------------------------
\* When all deliveries are handled, each has made the row as new as itself.
LEMMA SettledMirrors ==
    ASSUME RowInv, Settled
    PROVE  /\ \A j \in Sent : j \in Jobs /\ raw[j] = "PROCESSED" /\ status[j] = "SUCCEEDED"
           /\ \A j \in Jobs : stage[j] = "none" /\ status[j] \in {"ABSENT", "SUCCEEDED"}
           /\ row # None /\ Len(event) \in Nat
<1>1. Len(event) \in Nat /\ Sent \subseteq Jobs /\ 1 \in Sent
  <2>1. Len(event) \in Nat /\ Len(event) <= MaxEvents
    BY DEF RowInv, TypeOK
  <2> QED BY <2>1, EventsAssumption DEF EventsAssumption, Jobs, Sent, Settled
<1>2. \A j \in Sent : raw[j] = "PROCESSED" /\ status[j] = "SUCCEEDED"
  BY <1>1 DEF RowInv, Placed, Settled, Sent
<1>3. \A j \in Jobs : j \notin Sent => status[j] = "ABSENT"
  BY <1>1 DEF RowInv, Placed, Jobs, Sent
<1>4. \A j \in Jobs : stage[j] = "none" /\ status[j] \in {"ABSENT", "SUCCEEDED"}
  BY <1>2, <1>3 DEF RowInv, Placed
<1> QED BY <1>1, <1>2, <1>4 DEF RowInv, Mirrored

\* pull_requests.py:6, for any number of deliveries, orders, retries and lost sessions.
THEOREM RowsConverge == Spec => []RowConverges
<1>1. RowInv => RowConverges
  <2> SUFFICES ASSUME RowInv, Settled
               PROVE  row # None /\ row.state = remote.state /\ row.draft = remote.draft
    BY DEF RowConverges
  <2>1. ASSUME NEW i \in Sent, event[i].kind # "review", event[i].at > row.updated PROVE FALSE
    <3>1. row.updated >= event[i].at /\ row # None
      BY <2>1, SettledMirrors DEF RowInv, Mirrored
    <3> QED BY <2>1, <3>1, EventTyped DEF RowInv, TypeOK, Pulls
  <2> QED BY <2>1, SettledMirrors DEF RowInv, Reads
<1> QED BY <1>1, RowInvariance, PTL

\* A raw event is PROCESSED after its row, whichever handler went on without its lease.
THEOREM ProcessedIsMirrored == Spec => []ProcessedMeansMirrored
<1>1. RowInv => ProcessedMeansMirrored
  <2> SUFFICES ASSUME RowInv, NEW j \in Sent, raw[j] = "PROCESSED"
               PROVE  row # None /\ (event[j].kind # "review" => row.updated >= event[j].at)
    BY DEF ProcessedMeansMirrored, Sent
  <2>1. j \in Jobs
    BY EventsAssumption DEF RowInv, TypeOK, Sent, Jobs, EventsAssumption
  <2> QED BY <2>1 DEF RowInv, Mirrored
<1> QED BY <1>1, RowInvariance, PTL

-----------------------------------------------------------------------------
\* The job that has not asked yet is the reason why what is mirrored may still be
\* unmeasured; it asks, or it fails and is taken again.
LEMMA MeasureStep == RowInv /\ MeasureInv /\ [Next]_vars => MeasureInv'
<1> SUFFICES ASSUME RowInv, MeasureInv, [Next]_vars,
                    tracked', row' # None, row'.state = "MERGED"
             PROVE  (measured = mirror \/ \E j \in Jobs : Busy(j))'
  BY DEF MeasureInv
<1>0. TypeOK /\ tracked
  BY DEF RowInv, Next, GithubStep, Push, ConvertToDraft, MarkReady, Merge, Review, Redeliver,
         Changed, Deliver, Untrack, Start, Handle, Succeed, Fail, LoseSession, vars,
         ReadPull, ReadCommits, ReadReviews, UpsertRow, ReplaceCommits,
         ReplaceReviews, Score, Measure, Processed, Reading, Writing
<1>1. CASE GithubStep
  <2>1. PICK e : Sends(e)
    BY <1>0, <1>1, GithubSends
  <2>2. /\ UNCHANGED <<stage, mirror, measured>>
        /\ Len(event) + 1 \in Jobs /\ Len(event) \in Nat
        /\ status' = [status EXCEPT ![Len(event) + 1] = "PENDING"]
    BY <1>0, <2>1, Delivered DEF Sends, Deliver, TypeOK
  <2>3. status[Len(event) + 1] = "ABSENT"
    BY <2>2 DEF RowInv, Placed
  <2>4. \A j \in Jobs : Busy(j) => Busy(j)'
    BY <1>0, <2>2, <2>3 DEF Busy, TypeOK
  <2>5. row' = row
    BY <2>2 DEF mirror
  <2> QED BY <1>0, <2>2, <2>4, <2>5 DEF MeasureInv
<1>2. ASSUME NEW j \in Jobs, Start(j) \/ Fail(j) PROVE Busy(j)'
  BY <1>0, <1>2 DEF TypeOK, Start, Fail, End, To, Busy
<1>3. ASSUME NEW j \in Jobs, Succeed(j) \/ Processed(j)
      PROVE  (measured = mirror \/ \E i \in Jobs : Busy(i))'
  <2>1. UNCHANGED <<mirror, measured>>
    BY <1>3 DEF Succeed, Processed
  <2>2. stage[j] \in {"finished", "done"}
    BY <1>3 DEF Succeed, Processed
  <2>3. ~Busy(j)
    BY <2>2 DEF RowInv, Placed, Busy, Readings, Writings
  <2>4. \A i \in Jobs : Busy(i) => Busy(i)'
    BY <1>0, <1>3, <2>3 DEF TypeOK, Succeed, Processed, End, To, Busy
  <2> QED BY <1>0, <2>1, <2>4 DEF MeasureInv, mirror
<1>4. ASSUME NEW j \in Jobs, Measure(j) PROVE (measured = mirror)' \/ ~Measures(j)
  BY <1>4 DEF Measure
<1>5. ASSUME NEW j \in Jobs, Handle(j), ~Measure(j), ~Processed(j) PROVE Busy(j)'
  <2>1. stage'[j] \in Readings \cup Writings
    BY <1>0, <1>5 DEF TypeOK, Handle, ReadPull, ReadCommits, ReadReviews, UpsertRow,
          ReplaceCommits, ReplaceReviews, Score, Reading, Writing, To, Readings, Writings
  <2> QED BY <2>1 DEF Busy
<1>6. CASE Untrack \/ LoseSession \/ UNCHANGED vars
  <2>1. UNCHANGED <<mirror, measured, status, stage>>
    BY <1>0, <1>6 DEF Untrack, LoseSession, vars
  <2> QED BY <1>0, <2>1 DEF MeasureInv, mirror, Busy
<1>7. ASSUME NEW j \in Jobs, Measure(j) PROVE Measures(j)
  BY <1>7 DEF Measure, Measures, mirror
<1> QED BY <1>1, <1>2, <1>3, <1>4, <1>5, <1>6, <1>7 DEF Next

\* github_event.py:376, whoever wrote what is mirrored and whatever failed since.
THEOREM MergesAreMeasured == Spec => []MergedIsMeasured
<1>1. Init => MeasureInv
  BY DEF Init, MeasureInv
<1>2. RowInv /\ MeasureInv => MergedIsMeasured
  <2> SUFFICES ASSUME RowInv, MeasureInv, Settled, row # None, row.state = "MERGED"
               PROVE  measured = mirror
    BY DEF MergedIsMeasured
  <2>1. \A j \in Jobs : ~Busy(j)
    BY SettledMirrors DEF Busy, Readings, Writings
  <2> QED BY <2>1 DEF MeasureInv, Settled
<1> QED BY <1>1, <1>2, RowInvariance, MeasureStep, PTL DEF Spec

-----------------------------------------------------------------------------
\* No lease is taken while a handler is at work.
LEMMA ExclusiveStep ==
    ASSUME RowInv, Exclusive, [Next]_vars, ~lost'
    PROVE  ~lost /\ Exclusive'
<1>0. TypeOK /\ TypeOK'
  BY TypeStep DEF RowInv
<1>1. CASE GithubStep
  <2>1. PICK e : Sends(e)
    BY <1>0, <1>1, GithubSends
  <2> QED BY <2>1, GithubKeeps DEF Sends, Exclusive
<1>2. ASSUME NEW j \in Jobs, Start(j) PROVE ~lost /\ Exclusive'
  <2>1. /\ holder = None /\ holder' = j /\ lost' = lost
        /\ \A i \in Jobs : i # j => stage'[i] = stage[i]
    BY <1>0, <1>2 DEF TypeOK, Start, Acquire, To
  <2>2. None \notin Jobs
    BY EventsAssumption DEF EventsAssumption, Jobs
  <2> QED BY <2>1, <2>2 DEF Exclusive
<1>5. ASSUME NEW j \in Jobs, Succeed(j) \/ Fail(j) PROVE ~lost /\ Exclusive'
  <2>1. /\ holder' = IF holder = j THEN None ELSE holder
        /\ lost' = lost /\ stage[j] # "none" /\ stage'[j] = "none"
        /\ \A i \in Jobs : i # j => stage'[i] = stage[i]
    BY <1>0, <1>5 DEF TypeOK, Succeed, Fail, End, Release, To
  <2> QED BY <2>1 DEF Exclusive
<1>3. ASSUME NEW j \in Jobs, Handle(j) PROVE ~lost /\ Exclusive'
  <2>1. stage[j] # "none" /\ UNCHANGED leases /\ \A i \in Jobs : i # j => stage'[i] = stage[i]
    BY <1>0, <1>3
    DEF TypeOK, Handle, ReadPull, ReadCommits, ReadReviews, UpsertRow, ReplaceCommits,
        ReplaceReviews, Score, Measure, Processed, Reading, Writing, To
  <2> QED BY <2>1 DEF leases, Exclusive
<1>4. CASE Untrack \/ LoseSession \/ UNCHANGED vars
  BY <1>4 DEF Untrack, LoseSession, vars, leases, Exclusive
<1> QED BY <1>1, <1>2, <1>3, <1>4, <1>5 DEF Next

\* A delivery that is not a review makes the full refresh of the mirror wait for its job,
\* a review that of the reviews, and both wait on.
LEMMA GithubLists ==
    ASSUME RowInv, ReviewsInv, CommitsInv, NEW e, Sends(e)
    PROVE  ReviewsInv' /\ CommitsInv'
<1>0. TypeOK /\ e \in Events /\ Deliver(e)
  BY DEF RowInv, Sends
<1>1. PICK n \in Jobs :
      /\ UNCHANGED <<stage, seen, commits, reviews, prediction>>
      /\ \A i \in Sent : event'[i] = event[i] /\ i # n /\ i \in Sent' /\ i \in Jobs
      /\ \A i \in Sent' : i = n \/ i \in Sent
      /\ n \in Sent' /\ event'[n] = e
      /\ status' = [status EXCEPT ![n] = "PENDING"]
  <2>1. Len(event) \in Nat /\ Len(event') = Len(event) + 1 /\ Len(event') \in Jobs
    BY <1>0, Delivered DEF TypeOK
  <2>2. \A i \in Sent : event'[i] = event[i] /\ i # Len(event') /\ i \in Sent' /\ i \in Jobs
    BY <1>0, <2>1, Delivered, EventsAssumption DEF Sent, Jobs, EventsAssumption
  <2>3. Len(event') \in Sent' /\ \A i \in Sent' : i = Len(event') \/ i \in Sent
    BY <2>1 DEF Sent
  <2> QED BY <1>0, <2>1, <2>2, <2>3, Delivered, GithubKeeps
<1>2. Waits(n)' /\ \A j \in Jobs : Waits(j) => Waits(j)'
  BY <1>0, <1>1 DEF Waits, TypeOK
<1>3. ReviewsInv'
  BY <1>1, <1>2 DEF ReviewsInv
<1>4. (e.kind # "review" => FullWaits') /\ (FullWaits => FullWaits')
  BY <1>1, <1>2 DEF FullWaits
<1>5. \A stages : Refreshes(stages) => Refreshes(stages)'
  BY <1>1 DEF Refreshes
<1>6. CASE e.kind = "review"
  <2>1. /\ remote'.commits = remote.commits /\ remote'.state = remote.state
    BY <1>6 DEF Sends
  <2>2. Full' => Full
    BY <1>1, <1>6 DEF Full, Sent
  <2> QED BY <1>1, <1>3, <1>4, <1>5, <2>1, <2>2 DEF CommitsInv, HoldsCommits
<1>7. CASE e.kind # "review"
  BY <1>3, <1>4, <1>7 DEF CommitsInv
<1> QED BY <1>6, <1>7

\* A job that is taken, ends or fails leaves what is owed owed: it is taken when no
\* handler is at work, and one that fails waits again.
LEMMA JobLists ==
    ASSUME RowInv, Exclusive, ReviewsInv, CommitsInv, tracked,
           NEW j \in Jobs, Start(j) \/ Succeed(j) \/ Fail(j)
    PROVE  ReviewsInv' /\ CommitsInv'
<1>0. TypeOK /\ UNCHANGED <<remote, event, commits, reviews, prediction>>
  BY DEF RowInv, Start, Succeed, Fail, provider, mirror, children
<1>1. CASE Start(j)
  <2>1. \A i \in Jobs : stage[i] = "none"
    BY <1>1, EventsAssumption DEF Start, Acquire, Exclusive, Jobs, EventsAssumption
  <2>2. /\ stage' = [stage EXCEPT ![j] = "dispatched"] /\ seen' = seen
        /\ status' = [status EXCEPT ![j] = "RUNNING"]
    BY <1>1 DEF Start, To
  <2>3. \A i \in Jobs : stage'[i] = IF i = j THEN "dispatched" ELSE "none"
    BY <1>0, <2>1, <2>2 DEF TypeOK
  <2>4. ReviewsInv'
    BY <2>3 DEF ReviewsInv
  <2>5. \A i \in Jobs : ~HoldsCommits(i)'
    BY <2>3 DEF HoldsCommits
  <2>6. Sent \subseteq Jobs
    BY <1>0, EventsAssumption DEF TypeOK, Sent, Jobs, EventsAssumption
  <2>7. \A stages : ~Refreshes(stages) \/ "none" \in stages
    BY <2>1, <2>6 DEF Refreshes
  <2>8. ASSUME FullWaits, NEW stages, "dispatched" \in stages
        PROVE  FullWaits' \/ Refreshes(stages)'
    <3>1. PICK k \in Sent : event[k].kind # "review" /\ Waits(k)
      BY <2>8 DEF FullWaits
    <3> QED BY <1>0, <2>2, <2>3, <2>6, <2>8, <3>1 DEF FullWaits, Refreshes, Waits, Sent, TypeOK
  <2> QED BY <1>0, <2>4, <2>5, <2>7, <2>8 DEF CommitsInv, Full, Sent, Readings
<1>2. CASE Succeed(j) \/ Fail(j)
  <2>1. /\ stage[j] # "none" /\ status[j] = "RUNNING" /\ stage'[j] = "none"
        /\ Succeed(j) => stage[j] = "finished"
        /\ Fail(j) => Waits(j)'
        /\ \A i \in Jobs : i # j => UNCHANGED <<status[i], stage[i], seen[i]>>
    BY <1>0, <1>2 DEF RowInv, Placed, TypeOK, Succeed, Fail, End, To, Waits
  <2>2. \A i \in Jobs : Waits(i) => Waits(i)'
    BY <2>1 DEF Waits
  <2>3. Sent \subseteq Jobs /\ Sent' = Sent
    BY <1>0, EventsAssumption DEF TypeOK, Sent, Jobs, EventsAssumption
  <2>4. FullWaits => FullWaits'
    BY <1>0, <2>2, <2>3 DEF FullWaits
  <2>5. ASSUME NEW stages, "finished" \notin stages, Refreshes(stages)
        PROVE  FullWaits' \/ Refreshes(stages)'
    BY <1>0, <1>2, <2>1, <2>3, <2>5 DEF FullWaits, Refreshes
  <2>6. \A i \in Jobs : HoldsCommits(i)' => i # j /\ HoldsCommits(i) /\ seen'[i] = seen[i]
    BY <2>1 DEF HoldsCommits
  <2>7. CommitsInv'
    BY <1>0, <2>3, <2>4, <2>5, <2>6 DEF CommitsInv, Full, Readings
  <2>8. ReviewsInv'
    BY <1>0, <1>2, <2>1, <2>2 DEF ReviewsInv, Readings
  <2> QED BY <2>7, <2>8
<1> QED BY <1>1, <1>2

\* A handler step disturbs only what is said of its own job: the others are at rest.
LEMMA HandleFrame ==
    ASSUME RowInv, Exclusive, NEW j \in Jobs, Handle(j)
    PROVE  /\ TypeOK /\ Sent' = Sent /\ Sent \subseteq Jobs
           /\ stage \in [Jobs -> Stages]
           /\ seen \in [Jobs -> [pull : Pulls \cup {None}, commits : Nat, reviews : Nat]]
           /\ seen[j] \in [pull : Pulls \cup {None}, commits : Nat, reviews : Nat]
           /\ UNCHANGED <<remote, event, status>>
           /\ \A i \in Jobs : i # j => stage[i] = "none" /\ stage'[i] = "none"
           /\ \A i \in Jobs : Waits(i)' <=> Waits(i)
           /\ FullWaits' <=> FullWaits
           /\ Full' <=> Full
<1>1. TypeOK /\ UNCHANGED <<remote, event, status>>
  BY DEF RowInv, Handle, ReadPull, ReadCommits, ReadReviews, UpsertRow, ReplaceCommits,
         ReplaceReviews, Score, Measure, Processed, Reading, Writing, provider
<1>2. stage[j] # "none" /\ \A i \in Jobs : i # j => stage'[i] = stage[i]
  BY <1>1 DEF TypeOK, Handle, ReadPull, ReadCommits, ReadReviews, UpsertRow, ReplaceCommits,
         ReplaceReviews, Score, Measure, Processed, Reading, Writing, To
<1>3. \A i \in Jobs : i # j => stage[i] = "none" /\ stage'[i] = "none"
  BY <1>2 DEF Exclusive
<1>4. Sent \subseteq Jobs /\ Sent' = Sent
  BY <1>1, EventsAssumption DEF TypeOK, Sent, Jobs, EventsAssumption
<1>5. \A i \in Jobs : Waits(i)' <=> Waits(i)
  BY <1>1 DEF Waits
<1>6. /\ stage \in [Jobs -> Stages]
      /\ seen \in [Jobs -> [pull : Pulls \cup {None}, commits : Nat, reviews : Nat]]
  BY <1>1 DEF TypeOK
<1> QED BY <1>1, <1>3, <1>4, <1>5, <1>6 DEF FullWaits, Full

\* The reviews a handler stores are those it read; a review since then has its own job.
LEMMA HandleReviews ==
    ASSUME RowInv, Exclusive, ReviewsInv, NEW j \in Jobs, Handle(j)
    PROVE  ReviewsInv'
<1> USE DEF mirror, children
<1>0. /\ stage \in [Jobs -> Stages]
      /\ seen \in [Jobs -> [pull : Pulls \cup {None}, commits : Nat, reviews : Nat]]
      /\ seen[j] \in [pull : Pulls \cup {None}, commits : Nat, reviews : Nat]
  BY HandleFrame
<1>1. /\ TypeOK /\ UNCHANGED remote /\ stage[j] # "none"
      /\ \A i \in Jobs : i # j => stage'[i] = "none"
      /\ \A i \in Jobs : Waits(i)' <=> Waits(i)
  BY HandleFrame
  DEF Handle, ReadPull, ReadCommits, ReadReviews, UpsertRow, ReplaceCommits,
      ReplaceReviews, Score, Measure, Processed, Reading, Writing
<1>2. \A i \in Jobs : i # j => stage[i] = "none"
  BY HandleFrame
<1>3. CASE ReadPull(j) \/ ReadCommits(j)
  <2>1. stage'[j] \in {"commits", "reviews"}
    BY <1>0, <1>3 DEF ReadPull, ReadCommits, Reading, To
  <2> QED BY <1>1, <2>1 DEF ReviewsInv, Readings
<1>4. CASE ReadReviews(j)
  <2>1. stage'[j] \in {"row", "replace reviews"} /\ seen'[j].reviews = remote.reviews
    BY <1>0, <1>4 DEF ReadReviews, Reading, To
  <2> QED BY <1>1, <2>1 DEF ReviewsInv, Readings
<1>5. CASE UpsertRow(j) \/ ReplaceCommits(j)
  <2>1. stage[j] \in {"row", "replace commits"} /\ seen' = seen
        /\ stage'[j] \in {"replace commits", "replace reviews"}
    BY <1>0, <1>5 DEF UpsertRow, ReplaceCommits, Writing, To
  <2> QED BY <1>1, <2>1 DEF ReviewsInv
<1>6. CASE ReplaceReviews(j)
  <2>1. stage[j] = "replace reviews" /\ reviews' = seen[j].reviews
        /\ stage'[j] \in {"score", "measure"}
    BY <1>0, <1>6 DEF ReplaceReviews, Writing, To
  <2> QED BY <1>1, <2>1 DEF ReviewsInv
<1>7. CASE Score(j) \/ Measure(j) \/ Processed(j)
  <2>1. stage[j] \in {"score", "measure", "done"} /\ reviews' = reviews
        /\ stage'[j] \in {"measure", "done", "finished"}
    BY <1>0, <1>7 DEF Score, Measure, Processed, Writing, To
  <2> QED BY <1>1, <1>2, <2>1 DEF ReviewsInv, Readings
<1> QED BY <1>3, <1>4, <1>5, <1>6, <1>7 DEF Handle

\* So are the commits, and the prediction while the pull request is open.
LEMMA HandleCommits ==
    ASSUME RowInv, Exclusive, CommitsInv, NEW j \in Jobs, Handle(j)
    PROVE  CommitsInv'
<1> USE DEF mirror, children
<1>0. /\ stage \in [Jobs -> Stages]
      /\ seen \in [Jobs -> [pull : Pulls \cup {None}, commits : Nat, reviews : Nat]]
      /\ seen[j] \in [pull : Pulls \cup {None}, commits : Nat, reviews : Nat]
  BY HandleFrame
<1>1. /\ TypeOK /\ UNCHANGED <<remote, event>>
      /\ Sent' = Sent /\ Sent \subseteq Jobs
      /\ \A i \in Jobs : i # j => stage[i] = "none" /\ stage'[i] = "none"
      /\ (FullWaits' <=> FullWaits) /\ (Full' <=> Full)
  BY HandleFrame
<1>2. \A i \in Jobs : i # j => ~HoldsCommits(i) /\ ~HoldsCommits(i)'
  BY <1>1 DEF HoldsCommits
<1>3. ASSUME NEW stages, "none" \notin stages
      PROVE  /\ Refreshes(stages) <=>
                   j \in Sent /\ event[j].kind # "review" /\ stage[j] \in stages
             /\ Refreshes(stages)' <=>
                   j \in Sent /\ event[j].kind # "review" /\ stage'[j] \in stages
  BY <1>1, <1>3 DEF Refreshes
<1> DEFINE A == {"dispatched", "replace commits"} \cup Readings
           B == {"dispatched", "replace commits", "replace reviews", "score"} \cup Readings
           Own == j \in Sent /\ event[j].kind # "review"
<1>4. /\ Refreshes(A) <=> Own /\ stage[j] \in A
      /\ Refreshes(B) <=> Own /\ stage[j] \in B
      /\ Refreshes(A)' <=> Own /\ stage'[j] \in A
      /\ Refreshes(B)' <=> Own /\ stage'[j] \in B
  BY <1>3 DEF Readings
<1>5. SUFFICES
      /\ Full => commits' = remote.commits \/ FullWaits \/ (Own /\ stage'[j] \in A)
      /\ Full /\ remote.state = "OPEN" =>
            \/ prediction' = [commits |-> remote.commits, files |-> remote.commits]
            \/ FullWaits \/ (Own /\ stage'[j] \in B)
      /\ HoldsCommits(j)' => seen'[j].commits = remote.commits \/ FullWaits
  BY <1>1, <1>2, <1>4 DEF CommitsInv
<1>6. /\ Full => commits = remote.commits \/ FullWaits \/ (Own /\ stage[j] \in A)
      /\ Full /\ remote.state = "OPEN" =>
            \/ prediction = [commits |-> remote.commits, files |-> remote.commits]
            \/ FullWaits \/ (Own /\ stage[j] \in B)
      /\ HoldsCommits(j) => seen[j].commits = remote.commits \/ FullWaits
  BY <1>4 DEF CommitsInv
<1> HIDE DEF Own
<1> USE DEF Readings, HoldsCommits
<1>7. CASE ReadPull(j) \/ ReadCommits(j)
  <2>1. /\ stage[j] \in A /\ stage'[j] \in A /\ stage[j] \in B /\ stage'[j] \in B
        /\ \/ stage'[j] = "commits"
           \/ stage'[j] = "reviews" /\ seen'[j].commits = remote.commits
        /\ UNCHANGED <<commits, prediction>>
    BY <1>0, <1>7 DEF ReadPull, ReadCommits, Reading, To
  <2> QED BY <1>6, <2>1
<1>8. CASE ReadReviews(j)
  <2>1. /\ \/ stage[j] = "reviews" /\ stage'[j] = "row"
           \/ /\ stage[j] = "dispatched" /\ stage'[j] = "replace reviews"
              /\ event[j].kind = "review"
        /\ seen'[j].commits = seen[j].commits /\ seen'[j].pull = seen[j].pull
        /\ UNCHANGED <<commits, prediction>>
    BY <1>0, <1>8 DEF ReadReviews, Reading, To, ReviewsOnly
  <2>2. stage[j] = "dispatched" => seen[j].pull = None
    BY DEF RowInv, Informed
  <2> QED BY <1>6, <2>1, <2>2 DEF Own
<1>9. CASE UpsertRow(j)
  <2>1. stage[j] = "row" /\ stage'[j] = "replace commits" /\ UNCHANGED <<seen, commits, prediction>>
    BY <1>0, <1>9 DEF UpsertRow, Writing, To
  <2> QED BY <1>6, <2>1
<1>10. CASE ReplaceCommits(j)
  <2>1. stage[j] = "replace commits" /\ stage'[j] = "replace reviews"
        /\ commits' = seen[j].commits /\ UNCHANGED <<seen, prediction>>
    BY <1>0, <1>10 DEF ReplaceCommits, Writing, To
  <2> QED BY <1>6, <2>1
<1>11. CASE ReplaceReviews(j)
  <2>1. /\ stage[j] = "replace reviews" /\ UNCHANGED <<seen, commits, prediction>>
        /\ stage'[j] = IF seen[j].pull # None /\ seen[j].pull.state = "OPEN"
                       THEN "score" ELSE "measure"
    BY <1>0, <1>11 DEF ReplaceReviews, Writing, To
  <2>2. Own => seen[j].pull # None
    BY <2>1 DEF RowInv, Informed, Own
  <2>3. seen[j].pull # None /\ remote.state = "OPEN" => seen[j].pull.state = "OPEN"
    BY <1>1 DEF RowInv, Reads, TypeOK, Pulls
  <2> QED BY <1>6, <2>1, <2>2, <2>3
<1>12. CASE Score(j)
  <2>1. /\ stage[j] = "score" /\ stage'[j] = "measure" /\ UNCHANGED <<seen, commits>>
        /\ prediction' = [commits |-> seen[j].commits, files |-> remote.commits]
    BY <1>0, <1>12 DEF Score, Writing, To
  <2> QED BY <1>6, <2>1
<1>13. CASE Measure(j) \/ Processed(j)
  <2>1. /\ stage[j] \in {"measure", "done"} /\ stage'[j] \in {"done", "finished"}
        /\ UNCHANGED <<commits, prediction>>
    BY <1>0, <1>13 DEF Measure, Processed, To
  <2> QED BY <1>6, <2>1
<1> QED BY <1>7, <1>8, <1>9, <1>10, <1>11, <1>12, <1>13 DEF Handle

\* While no session has been lost, what is owed of the lists stays owed until it is paid.
LEMMA ListsStep == RowInv /\ ListsInv /\ [Next]_vars => ListsInv'
<1> SUFFICES ASSUME RowInv, ListsInv, [Next]_vars, ~lost' PROVE ListsInv'
  BY DEF ListsInv
<1>1. ~lost
  BY DEF RowInv, Next, GithubStep, Push, ConvertToDraft, MarkReady, Merge, Review, Redeliver,
         Changed, Deliver, Untrack, Start, Handle, Succeed, Fail, LoseSession, vars, leases,
         ReadPull, ReadCommits, ReadReviews, UpsertRow, ReplaceCommits,
         ReplaceReviews, Score, Measure, Processed, Reading, Writing
<1>2. Exclusive /\ Exclusive'
  BY <1>1, ExclusiveStep DEF ListsInv
<1> SUFFICES ASSUME tracked' PROVE ReviewsInv' /\ CommitsInv'
  BY <1>2 DEF ListsInv
<1>3. tracked
  BY DEF RowInv, Next, GithubStep, Push, ConvertToDraft, MarkReady, Merge, Review, Redeliver,
         Changed, Deliver, Untrack, Start, Handle, Succeed, Fail, LoseSession, vars,
         ReadPull, ReadCommits, ReadReviews, UpsertRow, ReplaceCommits,
         ReplaceReviews, Score, Measure, Processed, Reading, Writing
<1>4. ReviewsInv /\ CommitsInv
  BY <1>1, <1>3 DEF ListsInv
<1>5. CASE GithubStep
  BY <1>4, <1>5, GithubSends, GithubLists DEF RowInv
<1>6. ASSUME NEW j \in Jobs, Start(j) \/ Succeed(j) \/ Fail(j) PROVE ReviewsInv' /\ CommitsInv'
  BY <1>2, <1>3, <1>4, <1>6, JobLists
<1>7. ASSUME NEW j \in Jobs, Handle(j) PROVE ReviewsInv' /\ CommitsInv'
  BY <1>2, <1>4, <1>7, HandleReviews, HandleCommits
<1>8. CASE Untrack \/ LoseSession \/ UNCHANGED vars
  <2>1. UNCHANGED <<remote, event, status, stage, seen, commits, reviews, prediction>>
    BY <1>8 DEF Untrack, LoseSession, vars, provider, mirror, children
  <2> QED BY <1>4, <2>1 DEF ReviewsInv, CommitsInv, Waits, FullWaits, Refreshes, Full, Sent,
                            HoldsCommits
<1> QED BY <1>5, <1>6, <1>7, <1>8 DEF Next

\* The lists are replaced without a guard; that one handler works at a time is enough.
THEOREM ListsFollow == Spec => []ListsConverge
<1>1. Init => ListsInv
  <2> SUFFICES ASSUME Init PROVE ListsInv
    OBVIOUS
  <2>1. Len(event) = 0 /\ reviews = remote.reviews /\ \A j \in Jobs : stage[j] = "none"
    BY DEF Init
  <2>2. ~Full
    BY <2>1 DEF Full, Sent
  <2>3. Exclusive /\ \A j \in Jobs : ~HoldsCommits(j)
    BY <2>1 DEF Exclusive, HoldsCommits
  <2>4. ReviewsInv
    BY <2>1 DEF ReviewsInv
  <2> QED BY <2>2, <2>3, <2>4 DEF ListsInv, CommitsInv
<1>2. RowInv /\ ListsInv => ListsConverge
  <2> SUFFICES ASSUME RowInv, ListsInv, Settled, ~lost
               PROVE  /\ reviews = remote.reviews
                      /\ Full => /\ commits = remote.commits
                                 /\ remote.state = "OPEN" =>
                                      prediction = [commits |-> remote.commits,
                                                    files |-> remote.commits]
    BY DEF ListsConverge, Full, Sent
  <2>1. /\ \A j \in Jobs : stage[j] = "none" /\ ~Waits(j)
        /\ Sent \subseteq Jobs
    BY SettledMirrors DEF Waits
  <2>2. ~FullWaits /\ \A stages : "none" \notin stages => ~Refreshes(stages)
    BY <2>1 DEF FullWaits, Refreshes
  <2>3. ReviewsInv /\ CommitsInv
    BY DEF ListsInv, Settled
  <2> QED BY <2>1, <2>2, <2>3 DEF ReviewsInv, CommitsInv, Readings
<1> QED BY <1>1, <1>2, RowInvariance, ListsStep, PTL DEF Spec
=============================================================================
