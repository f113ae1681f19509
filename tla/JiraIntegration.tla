---------------------------- MODULE JiraIntegration ----------------------------
(***************************************************************************)
(* One Jira integration: its credentials, its webhook and its catalogue of *)
(* projects.  Two jobs use them, the periodic renewal of the webhook and a *)
(* synchronisation of the catalogue, page by page; a user may reconnect    *)
(* the integration, revoke it at Atlassian, or track a project meanwhile.  *)
(*                                                                         *)
(* The jobs share the workspace's lease, so two handlers only run together *)
(* once a session is lost.  The provider takes a refresh token once.       *)
(***************************************************************************)
EXTENDS Naturals, FiniteSets

CONSTANTS
    Projects,        \* naturals, in the order of Jira's listing
    ListedAtStart,   \* sets of projects there may be at first
    PageSize,
    MaxAttempts,     \* of a job
    MaxEvents,       \* bound: what users, Atlassian and time do
    MaxFaults,       \* bound: failed calls and commits, crashes, lost sessions
    None

ASSUME JiraAssumption ==
    /\ Projects \subseteq Nat /\ IsFiniteSet(Projects)
    /\ ListedAtStart \subseteq SUBSET Projects
    /\ {PageSize, MaxAttempts} \subseteq Nat \ {0}
    /\ {MaxEvents, MaxFaults} \subseteq Nat
    /\ None \notin {"renew", "catalogue"} /\ None \notin Nat
    /\ None \notin [tracked : BOOLEAN, synced : Nat]

Jobs == {"renew", "catalogue"}

VARIABLES
    theirs,      \* the refresh token Atlassian will take, 0 once revoked
    live,        \* the webhook registered there, 0 for none
    listed,      \* the projects there
    row,         \* jira_integrations
    project,     \* [Projects -> row of jira_projects, or None]
    status, attempts,
    stage, seen, \* where a handler is, and what it has read
    locker,      \* who has the integration's row FOR UPDATE
    holder,      \* who holds the workspace's lease
    cursor, started,   \* payload of the catalogue job; started is None at first
    clock,
    refused,     \* a refresh token was refused
    lostAnswer,  \* a rotated token did not reach the database
    orphaned,    \* the renewal ends, or will, though nobody is told to reconnect
    owed, kept, gone, drifted,  \* projects listed, tracked, or not listed, since the
                                \* catalogue job began; one changed pages under it
    events, faults

atlassian == <<theirs, live, listed>>
queue == <<status, attempts, cursor, started>>
handler == <<stage, seen>>
tokenGhosts == <<refused, lostAnswer>>
catalogueGhosts == <<owed, kept, gone, drifted>>
ghosts == <<tokenGhosts, orphaned, catalogueGhosts>>
bounds == <<events, faults>>
vars == <<atlassian, row, project, queue, handler, locker, holder, clock, ghosts, bounds>>

NothingSeen == [refresh |-> 0, fresh |-> FALSE, webhook |-> 0, sync |-> 0,
                items |-> {}, last |-> FALSE]
Tracked(p) == project[p] # None /\ project[p].tracked

Init ==
    /\ theirs = 1 /\ live = 1
    /\ listed \in ListedAtStart
    /\ row \in [status : {"ACTIVE"}, refresh : {1}, fresh : BOOLEAN, webhook : {0, 1},
                renewed : {FALSE}]
    /\ \E known \in {None, [tracked |-> TRUE, synced |-> 0]} : project = [p \in Projects |-> known]
    /\ status = [j \in Jobs |-> "PENDING"] /\ attempts = [j \in Jobs |-> 0]
    /\ stage = [j \in Jobs |-> "none"] /\ seen = [j \in Jobs |-> NothingSeen]
    /\ locker = None /\ holder = None
    /\ cursor = 0 /\ started = None /\ clock = 1
    /\ refused = FALSE /\ lostAnswer = FALSE /\ orphaned = FALSE
    /\ owed = {} /\ kept = {} /\ gone = {} /\ drifted = FALSE
    /\ events = 0 /\ faults = 0

-----------------------------------------------------------------------------
(* Users, Atlassian and time. *)

Event ==
    /\ events < MaxEvents
    /\ events' = events + 1
    /\ UNCHANGED <<handler, locker, holder, tokenGhosts, faults>>

\* The access token comes within five minutes of its end, or the webhook near its own.
Expire ==
    /\ \E field \in {"fresh", "renewed"} : row[field] /\ row' = [row EXCEPT ![field] = FALSE]
    /\ Event
    /\ UNCHANGED <<atlassian, project, queue, clock, catalogueGhosts, orphaned>>

Revoke ==
    /\ theirs # 0
    /\ theirs' = 0 /\ live' = 0
    /\ Event
    /\ UNCHANGED <<listed, row, project, queue, clock, catalogueGhosts, orphaned>>

\* adept-api stores new credentials and a new webhook, and queues a renewal when there is
\* none: there is one row of it.  A renewal that has failed, and whose end is not recorded,
\* is one.
Reconnect ==
    /\ locker = None
    /\ theirs' = theirs + row.refresh + 1
    /\ live' = row.webhook + 1
    /\ row' = [status |-> "ACTIVE", refresh |-> theirs', fresh |-> TRUE, webhook |-> live',
               renewed |-> TRUE]
    /\ IF status["renew"] \in {"SUCCEEDED", "DEAD"}
       THEN /\ status' = [status EXCEPT !["renew"] = "PENDING"]
            /\ attempts' = [attempts EXCEPT !["renew"] = 0]
            /\ orphaned' = FALSE
       ELSE /\ orphaned' = (orphaned \/ stage["renew"] = "failed")
            /\ UNCHANGED <<status, attempts>>
    /\ Event
    /\ UNCHANGED <<listed, project, cursor, started, clock, catalogueGhosts>>

Rank(p, S) == Cardinality({q \in S : q < p})
ToCome(at) == {p \in listed : Rank(p, listed) >= at}

\* A project changes pages under a job that is at, or would be back at, this offset.
Moved(at) == ~(ToCome(at) \cap listed' \subseteq ToCome(at)')

ChangeProject ==
    /\ \E p \in Projects :
        \/ p \in listed /\ listed' = listed \ {p}
        \/ p \notin listed /\ listed' = listed \cup {p}
    /\ Event
    /\ owed' = owed \cap listed' /\ kept' = kept \cap listed' /\ gone' = gone \ listed'
    /\ UNCHANGED <<theirs, live, row, project, queue, clock, orphaned>>
    /\ drifted' = (drifted \/ Moved(cursor) \/ Moved(cursor + Cardinality(seen["catalogue"].items)))

Track ==
    /\ \E p \in Projects :
        /\ project[p] # None /\ ~project[p].tracked
        /\ project' = [project EXCEPT ![p].tracked = TRUE]
        /\ gone' = gone \ {p}
    /\ Event
    /\ UNCHANGED <<atlassian, row, queue, clock, owed, kept, drifted, orphaned>>

\* A user asks for the catalogue again.
RequestSync ==
    /\ status["catalogue"] \in {"SUCCEEDED", "DEAD"}
    /\ status' = [status EXCEPT !["catalogue"] = "PENDING"]
    /\ attempts' = [attempts EXCEPT !["catalogue"] = 0]
    /\ cursor' = 0 /\ started' = None
    /\ Event
    /\ UNCHANGED <<atlassian, row, project, clock, catalogueGhosts, orphaned>>

-----------------------------------------------------------------------------
(* The job. *)

To(j, at) == stage' = [stage EXCEPT ![j] = at]

Fault == faults < MaxFaults /\ faults' = faults + 1

End(j, outcome) ==
    /\ status' = [status EXCEPT ![j] = outcome]
    /\ To(j, "none")
    /\ seen' = [seen EXCEPT ![j] = NothingSeen]
    /\ holder' = IF holder = j THEN None ELSE holder

Start(j) ==
    /\ status[j] \in {"PENDING", "FAILED"} /\ attempts[j] < MaxAttempts
    /\ stage[j] = "none"
    /\ holder = None
    /\ holder' = j
    /\ status' = [status EXCEPT ![j] = "RUNNING"]
    /\ attempts' = [attempts EXCEPT ![j] = @ + 1]
    /\ To(j, "load")
    /\ UNCHANGED <<atlassian, row, project, cursor, started, seen, locker, clock, ghosts, bounds>>

\* A crash gives the attempt back to the queue, or was the last one.
Crash(j) ==
    /\ stage[j] # "none"
    /\ Fault
    /\ End(j, IF attempts[j] < MaxAttempts THEN "FAILED" ELSE "DEAD")
    /\ locker' = IF locker = j THEN None ELSE locker
    /\ lostAnswer' = (lostAnswer \/ stage[j] = "commit")
    /\ orphaned' = (orphaned \/ (j = "renew" /\ status'[j] = "DEAD"))
    /\ UNCHANGED <<atlassian, row, project, attempts, cursor, started, clock, refused,
                   catalogueGhosts, events>>

LoseSession ==
    /\ holder # None
    /\ Fault
    /\ holder' = None
    /\ UNCHANGED <<atlassian, row, project, queue, handler, locker, clock, ghosts, events>>

-----------------------------------------------------------------------------
(* The handlers: load_jira_integration, get_valid_jira_access_token, a call. *)

See(j, what) == seen' = [seen EXCEPT ![j] = what]

\* A step that touches neither the queue nor the world.
Step(j, from) ==
    /\ stage[j] = from
    /\ UNCHANGED <<listed, queue, holder, orphaned, events>>

\* A permanent error, or one after the last attempt, marks the integration; another is
\* retried.
FailTransient(j) ==
    IF attempts[j] < MaxAttempts THEN End(j, "FAILED")
    ELSE To(j, "mark") /\ UNCHANGED <<seen, status, holder>>

\* An integration that is not ACTIVE is an error; a renewal needs a webhook.  The token
\* loaded is used when it lasts.
Load(j) ==
    /\ stage[j] = "load"
    /\ IF row.status # "ACTIVE" THEN To(j, "failed") /\ UNCHANGED seen
       ELSE /\ To(j, CASE j = "renew" /\ row.webhook = 0 -> "mark"
                       [] row.fresh -> "call"
                       [] OTHER -> "lock")
            /\ See(j, [NothingSeen EXCEPT !.refresh = row.refresh, !.fresh = row.fresh,
                                          !.webhook = row.webhook,
                                          !.sync = IF started = None THEN clock + 1 ELSE started])
    /\ IF j = "catalogue" /\ started = None
       THEN /\ clock' = clock + 1
            /\ owed' = listed /\ gone' = Projects \ listed
            /\ kept' = {p \in listed : Tracked(p)}
            /\ drifted' = FALSE
       ELSE UNCHANGED <<clock, catalogueGhosts>>
    /\ UNCHANGED <<atlassian, row, project, queue, holder, locker, tokenGhosts, orphaned,
                   bounds>>

\* Variant: the integration is the one loaded before the lock.
LockedUnread(j) == [row EXCEPT !.refresh = seen[j].refresh, !.fresh = seen[j].fresh]

\* The row as it is read under the lock.
Locked(j) == row

\* SELECT ... FOR UPDATE: another handler may have refreshed the token meanwhile.
Lock(j) ==
    LET read == Locked(j) IN
    /\ Step(j, "lock")
    /\ locker = None
    /\ IF read.status # "ACTIVE" THEN To(j, "mark") /\ UNCHANGED <<seen, locker>>
       ELSE /\ See(j, [seen[j] EXCEPT !.refresh = read.refresh, !.fresh = read.fresh])
            /\ To(j, IF read.fresh THEN "call" ELSE "refresh")
            /\ locker' = IF read.fresh THEN None ELSE j
    /\ UNCHANGED <<theirs, live, row, project, status, clock, tokenGhosts, catalogueGhosts, faults>>

\* Atlassian takes the token it issued last, once, and issues another.
Refresh(j) ==
    /\ Step(j, "refresh")
    /\ IF theirs = seen[j].refresh
       THEN /\ theirs' = theirs + 1
            /\ See(j, [seen[j] EXCEPT !.refresh = theirs', !.fresh = TRUE])
            /\ To(j, "commit")
            /\ UNCHANGED <<locker, refused>>
       ELSE /\ refused' = (refused \/ theirs # 0)
            /\ locker' = None
            /\ To(j, "mark")
            /\ UNCHANGED <<theirs, seen>>
    /\ UNCHANGED <<live, row, project, clock, lostAnswer, catalogueGhosts, faults>>

\* Variant: the refresh token is kept, only the access token stored.
NewCredentialsAccessOnly(j) == [row EXCEPT !.fresh = TRUE]

NewCredentials(j) == [row EXCEPT !.refresh = seen[j].refresh, !.fresh = TRUE]

Commit(j) ==
    /\ Step(j, "commit")
    /\ row' = NewCredentials(j)
    /\ locker' = None
    /\ To(j, "call")
    /\ UNCHANGED <<atlassian, project, seen, clock, tokenGhosts, catalogueGhosts, faults>>

\* The refresh or its commit fails, the answer lost if there was one.
FailRefresh(j) ==
    /\ stage[j] \in {"refresh", "commit"}
    /\ Fault
    /\ \/ stage[j] = "refresh" /\ theirs = seen[j].refresh /\ theirs' = theirs + 1 /\ lostAnswer' = TRUE
       \/ stage[j] = "refresh" /\ UNCHANGED <<theirs, lostAnswer>>
       \/ stage[j] = "commit" /\ lostAnswer' = TRUE /\ UNCHANGED theirs
    /\ locker' = None
    /\ FailTransient(j)
    /\ UNCHANGED <<live, listed, row, project, attempts, cursor, started, clock, refused, orphaned,
                   catalogueGhosts, events>>

Page == {p \in listed : Rank(p, listed) \in cursor .. cursor + PageSize - 1}
LastPage == cursor + Cardinality(Page) >= Cardinality(listed)

\* The call is refused once the integration is revoked, or the webhook is another one.
Call(j) ==
    /\ Step(j, "call")
    /\ IF theirs = 0 \/ (j = "renew" /\ live # seen[j].webhook)
       THEN To(j, "mark") /\ UNCHANGED seen
       ELSE /\ To(j, "store")
            /\ See(j, [seen[j] EXCEPT !.items = Page, !.last = LastPage])
    /\ UNCHANGED <<theirs, live, row, project, locker, clock, tokenGhosts, catalogueGhosts, faults>>

FailCall(j) ==
    /\ stage[j] = "call"
    /\ Fault
    /\ FailTransient(j)
    /\ UNCHANGED <<atlassian, row, project, attempts, cursor, started, locker, clock, ghosts,
                   events>>

-----------------------------------------------------------------------------
(* What the handlers store, and how they end. *)

\* Only if the webhook is still the one that was renewed.  This error leaves no mark.  An
\* UPDATE waits for the row.
StoreRenewal ==
    /\ stage["renew"] = "store"
    /\ locker = None
    /\ IF row.status = "ACTIVE" /\ row.webhook = seen["renew"].webhook
       THEN /\ row' = [row EXCEPT !.renewed = TRUE]
            /\ To("renew", "finish")
            /\ UNCHANGED orphaned
       ELSE /\ To("renew", "failed")
            /\ orphaned' = (orphaned \/ row.status = "ACTIVE")
            /\ UNCHANGED row
    /\ UNCHANGED <<atlassian, project, queue, seen, holder, locker, clock, tokenGhosts,
                   catalogueGhosts, bounds>>

\* Variant: the attempts are not given back.
AttemptsKept == attempts["renew"]

\* reset_attempts.
AttemptsAgain == 0

\* Variant: the job is over.
RenewedDone == "SUCCEEDED"

Renewed == "PENDING"

\* The renewal is the same row again, with all its attempts.
RequeueRenewal ==
    /\ stage["renew"] = "finish"
    /\ End("renew", Renewed)
    /\ attempts' = [attempts EXCEPT !["renew"] = AttemptsAgain]
    /\ UNCHANGED <<atlassian, row, project, cursor, started, locker, clock, ghosts, bounds>>

\* The items of a page are upserted, new projects untracked.
Upserted(items, sync) ==
    [p \in Projects |->
        IF p \in items THEN [tracked |-> Tracked(p), synced |-> sync] ELSE project[p]]

\* On the last page, a project no page of this synchronisation listed is untracked.
Sweep(rows, sync) ==
    [p \in Projects |->
        IF rows[p] # None /\ rows[p].synced < sync THEN [rows[p] EXCEPT !.tracked = FALSE]
        ELSE rows[p]]

StorePage ==
    LET read == seen["catalogue"]
        rows == Upserted(read.items, read.sync)
    IN  /\ Step("catalogue", "store")
        /\ read.last => locker = None
        /\ project' = IF read.last THEN Sweep(rows, read.sync) ELSE rows
        /\ To("catalogue", "finish")
        /\ UNCHANGED <<theirs, live, row, seen, locker, clock, tokenGhosts, catalogueGhosts, faults>>

\* Variant: the time of the synchronisation is not kept.
KeptStart == None

KeptSync == seen["catalogue"].sync

\* Another page is a requeue, which gives the attempt back.
FinishPage ==
    LET read == seen["catalogue"] IN
    /\ stage["catalogue"] = "finish"
    /\ IF read.last
       THEN End("catalogue", "SUCCEEDED") /\ UNCHANGED <<attempts, cursor, started>>
       ELSE /\ End("catalogue", "PENDING")
            /\ attempts' = [attempts EXCEPT !["catalogue"] = @ - 1]
            /\ cursor' = cursor + Cardinality(read.items)
            /\ started' = KeptSync
    /\ UNCHANGED <<atlassian, row, project, locker, clock, ghosts, bounds>>

\* mark_jira_integration_error, then the error is raised.
Mark(j) ==
    /\ stage[j] = "mark"
    /\ locker = None
    /\ row' = IF row.status = "ACTIVE" THEN [row EXCEPT !.status = "ERROR"] ELSE row
    /\ To(j, "failed")
    /\ UNCHANGED <<atlassian, project, queue, seen, holder, locker, clock, ghosts, bounds>>

\* The dispatcher records the permanent error, in a transaction of its own.
GiveUp(j) ==
    /\ stage[j] = "failed"
    /\ End(j, "DEAD")
    /\ UNCHANGED <<atlassian, row, project, attempts, cursor, started, locker, clock, ghosts,
                   bounds>>

Proceed(j) ==
    \/ Start(j) \/ Load(j) \/ Lock(j) \/ Refresh(j) \/ Commit(j) \/ Call(j) \/ Mark(j) \/ GiveUp(j)
    \/ j = "renew" /\ (StoreRenewal \/ RequeueRenewal)
    \/ j = "catalogue" /\ (StorePage \/ FinishPage)

Next ==
    \/ Expire \/ Revoke \/ Reconnect \/ ChangeProject \/ Track \/ RequestSync
    \/ \E j \in Jobs : Proceed(j) \/ Crash(j) \/ FailRefresh(j) \/ FailCall(j)
    \/ LoseSession

Spec == Init /\ [][Next]_vars

\* A handler goes on, and a job that stays claimable is claimed.
FairSpec == Spec /\ \A j \in Jobs : WF_vars(Proceed(j))

-----------------------------------------------------------------------------
\* "concurrent jobs never submit the same one-time refresh token" (provider_support.py:202):
\* Atlassian refuses a token only after the answer to it was lost, whatever sessions are
\* lost and whoever reconnects.
TokenSubmittedOnce == refused => lostAnswer

\* The token stored is the one Atlassian will take, unless an answer was lost or the
\* integration revoked (:245).
StoredTokenGood ==
    row.status = "ACTIVE" /\ locker = None /\ ~lostAnswer /\ theirs # 0 => row.refresh = theirs

\* The single renewal row outlives crashes and failures (renew_jira_webhook.py:86): an
\* ACTIVE integration has a renewal to come, through reconnections too.  What ends it under
\* an ACTIVE integration is a crash that takes its last attempt, and a reconnection either
\* while the call renews the webhook it replaces, or between a failure and its record.
RenewalKept ==
    row.status = "ACTIVE" /\ ~orphaned => status["renew"] \in {"PENDING", "RUNNING", "FAILED"}

\* A synchronisation that succeeds has every project listed throughout, keeps those that
\* were tracked and untracks those that were not listed (sync_jira_projects.py:75), unless
\* the listing moved under it.
CatalogueMatches ==
    status["catalogue"] = "SUCCEEDED" /\ ~drifted =>
        /\ \A p \in owed : project[p] # None
        /\ \A p \in kept : Tracked(p)
        /\ \A p \in gone : ~Tracked(p)

\* A webhook near its end is renewed, or the integration says that it is not.
WebhookRenewed ==
    ~row.renewed ~> row.renewed \/ row.status # "ACTIVE" \/ orphaned
=============================================================================
