------------------------- MODULE JiraIntegrationProofs -------------------------
(***************************************************************************)
(* Proofs about JiraIntegration, for every number of projects, pages,      *)
(* attempts, events and faults: a refresh token is submitted once and the  *)
(* one stored is the one Atlassian takes; the renewal outlives what it     *)
(* should; a synchronisation that succeeds has seen the whole catalogue.   *)
(*                                                                         *)
(* The tokens are safe because of the row lock: the handler that has       *)
(* it, and no other, is between reading the token and storing the next.    *)
(* While the rotated token is only in its hands, it is Atlassian's; at any *)
(* other time the row's is.                                                *)
(***************************************************************************)
EXTENDS JiraIntegration, FiniteSetTheorems, TLAPS

Stages == {"none", "load", "lock", "refresh", "commit", "call", "store", "finish", "mark",
           "failed"}

Readings == [refresh : Nat, fresh : BOOLEAN, webhook : Nat, sync : Nat, items : SUBSET Projects,
             last : BOOLEAN]

CredentialTypes ==
    /\ theirs \in Nat /\ clock \in Nat /\ started \in Nat \cup {None}
    /\ listed \in SUBSET Projects
    /\ row \in [status : {"ACTIVE", "ERROR"}, refresh : Nat, fresh : BOOLEAN, webhook : Nat,
                renewed : BOOLEAN]
    /\ stage \in [Jobs -> Stages]
    /\ seen \in [Jobs -> Readings]
    /\ refused \in BOOLEAN /\ lostAnswer \in BOOLEAN

\* Who is between reading the token and storing the next has the row, and no other.
LockHeld == \A j \in Jobs : stage[j] \in {"refresh", "commit"} <=> locker = j

\* What it read is still there.
ReadingHolds == \A j \in Jobs : stage[j] = "refresh" => seen[j].refresh = row.refresh

\* Where Atlassian's token is: with the handler that rotated it, or in the row.
TokenKnown ==
    ~lostAnswer /\ theirs # 0 =>
        /\ \A j \in Jobs : stage[j] = "commit" => seen[j].refresh = theirs
        /\ (\A j \in Jobs : stage[j] # "commit") => row.refresh = theirs

CredentialsInv ==
    CredentialTypes /\ LockHeld /\ ReadingHolds /\ TokenKnown /\ TokenSubmittedOnce

\* What a step leaves alone when it moves no handler into or out of the lock, and
\* changes neither tokens nor ghosts.
Aside ==
    /\ UNCHANGED <<theirs, locker, refused, lostAnswer>>
    /\ row'.refresh = row.refresh
    /\ \A j \in Jobs :
        \/ stage'[j] = stage[j] /\ seen'[j].refresh = seen[j].refresh
        \/ stage[j] \notin {"refresh", "commit"} /\ stage'[j] \notin {"refresh", "commit"}

\* At first no handler runs and the row has the token.
LEMMA CredentialsInit == Init => CredentialsInv
<1> SUFFICES ASSUME Init PROVE CredentialsInv
  OBVIOUS
<1>1. None \notin Jobs
  BY JiraAssumption DEF Jobs
<1>2. NothingSeen \in Readings
  BY DEF NothingSeen, Readings
<1>3. /\ row.refresh = 1
      /\ row \in [status : {"ACTIVE", "ERROR"}, refresh : Nat, fresh : BOOLEAN, webhook : Nat,
                  renewed : BOOLEAN]
  <2>1. row \in [status : {"ACTIVE"}, refresh : {1}, fresh : BOOLEAN, webhook : {0, 1},
                 renewed : {FALSE}]
    BY DEF Init
  <2>2. PICK f \in BOOLEAN, w \in {0, 1} :
            row = [status |-> "ACTIVE", refresh |-> 1, fresh |-> f, webhook |-> w,
                   renewed |-> FALSE]
    BY <2>1
  <2> QED
    BY <2>2
<1>4. CredentialTypes
  BY <1>2, <1>3, JiraAssumption DEF Init, CredentialTypes, Stages
<1> QED
  BY <1>1, <1>3, <1>4
  DEF Init, CredentialsInv, LockHeld, ReadingHolds, TokenKnown, TokenSubmittedOnce

\* A step aside keeps what the invariant says of tokens.
LEMMA AsideKeeps ==
    ASSUME CredentialsInv, Aside, CredentialTypes'
    PROVE  CredentialsInv'
<1>1. LockHeld'
  BY DEF CredentialsInv, Aside, LockHeld
<1>2. ReadingHolds'
  BY DEF CredentialsInv, Aside, ReadingHolds
<1>3. TokenKnown'
  BY DEF CredentialsInv, Aside, TokenKnown
<1>4. TokenSubmittedOnce'
  BY DEF CredentialsInv, Aside, TokenSubmittedOnce
<1> QED
  BY <1>1, <1>2, <1>3, <1>4 DEF CredentialsInv

\* What the end of an attempt, successful or not, does to the handler.
LEMMA EndTyped ==
    ASSUME CredentialTypes, NEW j \in Jobs, NEW outcome, End(j, outcome)
    PROVE  /\ stage' = [stage EXCEPT ![j] = "none"]
           /\ stage' \in [Jobs -> Stages] /\ seen' \in [Jobs -> Readings]
           /\ \A k \in Jobs \ {j} : stage'[k] = stage[k] /\ seen'[k] = seen[k]
<1>1. NothingSeen \in Readings
  BY DEF NothingSeen, Readings
<1> QED
  BY <1>1 DEF CredentialTypes, End, To, Stages

\* Users, Atlassian and time: a reconnection is between two handlers that have the row.
LEMMA EventKeeps ==
    ASSUME CredentialsInv,
           Expire \/ Revoke \/ Reconnect \/ ChangeProject \/ Track \/ RequestSync
    PROVE  CredentialsInv'
<1> USE DEF Event, handler, tokenGhosts, atlassian, queue, catalogueGhosts
<1>1. CASE Expire
  <2>1. CredentialTypes'
    BY <1>1 DEF CredentialsInv, CredentialTypes, Expire
  <2>2. row'.refresh = row.refresh
    BY <1>1 DEF CredentialsInv, CredentialTypes, Expire
  <2> QED
    BY <1>1, <2>1, <2>2, AsideKeeps DEF Expire, Aside
<1>2. CASE Revoke
  <2>1. CredentialTypes'
    BY <1>2 DEF CredentialsInv, CredentialTypes, Revoke
  <2> QED
    BY <1>2, <2>1
    DEF Revoke, CredentialsInv, LockHeld, ReadingHolds, TokenKnown, TokenSubmittedOnce
<1>3. CASE Reconnect
  <2>1. theirs' \in Nat /\ live' \in Nat /\ row'.refresh = theirs'
    BY <1>3 DEF Reconnect, CredentialsInv, CredentialTypes
  <2>2. CredentialTypes'
    BY <1>3, <2>1 DEF CredentialsInv, CredentialTypes, Reconnect
  <2>3. \A j \in Jobs : stage[j] \notin {"refresh", "commit"}
    BY <1>3, JiraAssumption DEF Reconnect, CredentialsInv, LockHeld, Jobs
  <2> QED
    BY <1>3, <2>1, <2>2, <2>3
    DEF Reconnect, CredentialsInv, LockHeld, ReadingHolds, TokenKnown, TokenSubmittedOnce
<1>4. CASE ChangeProject
  <2>1. CredentialTypes'
    BY <1>4 DEF CredentialsInv, CredentialTypes, ChangeProject
  <2> QED
    BY <1>4, <2>1, AsideKeeps DEF ChangeProject, Aside
<1>5. CASE Track \/ RequestSync
  <2>1. CredentialTypes'
    BY <1>5 DEF CredentialsInv, CredentialTypes, Track, RequestSync
  <2> QED
    BY <1>5, <2>1, AsideKeeps DEF Track, RequestSync, Aside
<1> QED
  BY <1>1, <1>2, <1>3, <1>4, <1>5

\* The steps under the row lock, where the token is spent and replaced.
LEMMA RefreshKeeps ==
    ASSUME CredentialsInv, NEW j \in Jobs,
           Lock(j) \/ Refresh(j) \/ Commit(j) \/ FailRefresh(j) \/ Crash(j)
    PROVE  CredentialsInv'
<1> USE DEF Step, To, See, tokenGhosts, atlassian, queue, catalogueGhosts
<1>1. None \notin Jobs
  BY JiraAssumption DEF Jobs
<1>2. CASE Lock(j)
  <2>1. /\ row.refresh \in Nat /\ row.fresh \in BOOLEAN
        /\ [seen[j] EXCEPT !.refresh = row.refresh, !.fresh = row.fresh] \in Readings
    BY DEF CredentialsInv, CredentialTypes, Readings
  <2>2. CredentialTypes'
    BY <1>2, <2>1 DEF Lock, Locked, CredentialsInv, CredentialTypes, Stages
  <2>3. \A k \in Jobs : stage[k] \notin {"refresh", "commit"}
    BY <1>1, <1>2 DEF Lock, CredentialsInv, LockHeld
  <2>4. LockHeld'
    BY <1>1, <1>2, <2>3 DEF Lock, CredentialsInv, CredentialTypes, LockHeld
  <2>5. ReadingHolds'
    <3>1. row' = row
      BY <1>2 DEF Lock
    <3>2. \A k \in Jobs \ {j} : stage'[k] # "refresh"
      BY <1>2, <2>3 DEF Lock, CredentialsInv, CredentialTypes
    <3>3. stage'[j] = "refresh" => seen' = [seen EXCEPT ![j] =
              [seen[j] EXCEPT !.refresh = row.refresh, !.fresh = row.fresh]]
      BY <1>2 DEF Lock, Locked, CredentialsInv, CredentialTypes
    <3>4. seen[j] \in Readings /\ seen \in [Jobs -> Readings]
      BY DEF CredentialsInv, CredentialTypes
    <3>5. stage'[j] = "refresh" => seen'[j].refresh = row.refresh
      BY <3>3, <3>4 DEF Readings
    <3> QED
      BY <3>1, <3>2, <3>5 DEF ReadingHolds
  <2>6. TokenKnown'
    BY <1>2, <2>3 DEF Lock, CredentialsInv, CredentialTypes, TokenKnown
  <2> QED
    BY <1>2, <2>2, <2>4, <2>5, <2>6 DEF Lock, CredentialsInv, TokenSubmittedOnce
<1>3. CASE Refresh(j)
  <2>1. /\ locker = j /\ seen[j].refresh = row.refresh
        /\ \A k \in Jobs : stage[k] # "commit"
        /\ \A k \in Jobs \ {j} : stage[k] # "refresh"
    BY <1>3 DEF Refresh, CredentialsInv, LockHeld, ReadingHolds
  <2>2. [seen[j] EXCEPT !.refresh = theirs + 1, !.fresh = TRUE] \in Readings
    <3>1. theirs + 1 \in Nat /\ seen[j] \in Readings
      BY DEF CredentialsInv, CredentialTypes
    <3> QED
      BY <3>1 DEF Readings
  <2>3. CredentialTypes'
    <3>1. theirs' \in Nat
      BY <1>3 DEF Refresh, CredentialsInv, CredentialTypes
    <3>2. seen' \in [Jobs -> Readings]
      <4>1. CASE theirs = seen[j].refresh
        <5>1. seen' = [seen EXCEPT ![j] = [seen[j] EXCEPT !.refresh = theirs + 1, !.fresh = TRUE]]
          BY <1>3, <4>1 DEF Refresh
        <5> QED
          BY <5>1, <2>2 DEF CredentialsInv, CredentialTypes
      <4>2. CASE theirs # seen[j].refresh
        BY <1>3, <4>2 DEF Refresh, CredentialsInv, CredentialTypes
      <4> QED
        BY <4>1, <4>2
    <3>3. stage' \in [Jobs -> Stages]
      BY <1>3 DEF Refresh, CredentialsInv, CredentialTypes, Stages
    <3>4. refused' \in BOOLEAN
      BY <1>3 DEF Refresh, CredentialsInv, CredentialTypes
    <3> QED
      BY <1>3, <3>1, <3>2, <3>3, <3>4 DEF Refresh, CredentialsInv, CredentialTypes
  <2>4. LockHeld'
    BY <1>1, <1>3, <2>1 DEF Refresh, CredentialsInv, CredentialTypes, LockHeld
  <2>5. ReadingHolds'
    BY <1>3, <2>1 DEF Refresh, CredentialsInv, CredentialTypes, ReadingHolds
  <2>6. TokenKnown' /\ TokenSubmittedOnce'
    <3>1. CASE theirs = seen[j].refresh
      BY <1>3, <2>1, <3>1
      DEF Refresh, CredentialsInv, CredentialTypes, TokenKnown, TokenSubmittedOnce, Readings
    <3>2. CASE theirs # seen[j].refresh
      BY <1>3, <2>1, <3>2
      DEF Refresh, CredentialsInv, CredentialTypes, TokenKnown, TokenSubmittedOnce
    <3> QED
      BY <3>1, <3>2
  <2> QED
    BY <2>3, <2>4, <2>5, <2>6 DEF CredentialsInv
<1>4. CASE Commit(j)
  <2>1. /\ locker = j /\ \A k \in Jobs \ {j} : stage[k] \notin {"refresh", "commit"}
    BY <1>4 DEF Commit, CredentialsInv, LockHeld
  <2>2. /\ row'.refresh = seen[j].refresh
        /\ row' \in [status : {"ACTIVE", "ERROR"}, refresh : Nat, fresh : BOOLEAN,
                     webhook : Nat, renewed : BOOLEAN]
    BY <1>4 DEF Commit, NewCredentials, CredentialsInv, CredentialTypes, Readings
  <2>3. CredentialTypes'
    BY <1>4, <2>2 DEF Commit, CredentialsInv, CredentialTypes, Stages
  <2>4. LockHeld'
    BY <1>1, <1>4, <2>1 DEF Commit, CredentialsInv, CredentialTypes, LockHeld
  <2>5. ReadingHolds'
    BY <1>4, <2>1 DEF Commit, CredentialsInv, CredentialTypes, ReadingHolds
  <2>6. TokenKnown'
    BY <1>4, <2>1, <2>2 DEF Commit, CredentialsInv, CredentialTypes, TokenKnown
  <2> QED
    BY <1>4, <2>3, <2>4, <2>5, <2>6 DEF Commit, CredentialsInv, TokenSubmittedOnce
<1>5. CASE FailRefresh(j)
  <2>1. /\ locker = j /\ \A k \in Jobs \ {j} : stage[k] \notin {"refresh", "commit"}
    BY <1>5 DEF FailRefresh, CredentialsInv, LockHeld
  <2>2. /\ stage' \in [Jobs -> Stages] /\ seen' \in [Jobs -> Readings]
        /\ stage'[j] \in {"none", "mark"}
        /\ \A k \in Jobs \ {j} : stage'[k] = stage[k]
    <3>1. CASE End(j, "FAILED")
      BY <3>1, EndTyped DEF CredentialsInv, CredentialTypes
    <3>2. CASE To(j, "mark") /\ UNCHANGED seen
      BY <3>2 DEF CredentialsInv, CredentialTypes, Stages
    <3> QED
      BY <1>5, <3>1, <3>2 DEF FailRefresh, FailTransient
  <2>3. /\ theirs' \in Nat /\ lostAnswer' \in BOOLEAN /\ refused' = refused
        /\ lostAnswer => lostAnswer'
    <3>1. lostAnswer' = TRUE \/ lostAnswer' = lostAnswer
      BY <1>5, Zenon DEF FailRefresh
    <3>2. theirs' \in Nat
      BY <1>5 DEF FailRefresh, CredentialsInv, CredentialTypes
    <3>3. refused' = refused
      BY <1>5 DEF FailRefresh
    <3> QED
      BY <3>1, <3>2, <3>3 DEF CredentialsInv, CredentialTypes
  <2>4. CredentialTypes'
    BY <1>5, <2>2, <2>3 DEF FailRefresh, CredentialsInv, CredentialTypes
  <2>5. LockHeld'
    BY <1>1, <1>5, <2>1, <2>2 DEF FailRefresh, LockHeld
  <2>6. ReadingHolds'
    BY <2>1, <2>2 DEF ReadingHolds
  <2>7. TokenKnown'
    BY <1>5, <2>1, <2>2 DEF FailRefresh, CredentialsInv, TokenKnown
  <2>8. TokenSubmittedOnce'
    BY <2>3 DEF CredentialsInv, TokenSubmittedOnce
  <2> QED
    BY <2>4, <2>5, <2>6, <2>7, <2>8 DEF CredentialsInv
<1>6. CASE Crash(j)
  <2>1. /\ stage' \in [Jobs -> Stages] /\ seen' \in [Jobs -> Readings]
        /\ stage'[j] = "none"
        /\ \A k \in Jobs \ {j} : stage'[k] = stage[k] /\ seen'[k] = seen[k]
    BY <1>6, EndTyped DEF Crash, CredentialsInv, CredentialTypes
  <2>2. CredentialTypes'
    BY <1>6, <2>1 DEF Crash, CredentialsInv, CredentialTypes
  <2>3. LockHeld'
    BY <1>1, <1>6, <2>1 DEF Crash, CredentialsInv, LockHeld
  <2>4. ReadingHolds'
    BY <1>6, <2>1 DEF Crash, CredentialsInv, ReadingHolds
  <2>5. TokenKnown'
    BY <1>6, <2>1 DEF Crash, CredentialsInv, TokenKnown
  <2>6. TokenSubmittedOnce'
    BY <1>6 DEF Crash, CredentialsInv, TokenSubmittedOnce
  <2> QED
    BY <2>2, <2>3, <2>4, <2>5, <2>6 DEF CredentialsInv
<1> QED
  BY <1>2, <1>3, <1>4, <1>5, <1>6

\* Every other step of a handler, and a lost session, is aside.
LEMMA HandlerKeeps ==
    ASSUME CredentialsInv, NEW j \in Jobs,
           \/ Start(j) \/ Load(j) \/ Call(j) \/ Mark(j) \/ GiveUp(j)
           \/ FailCall(j) \/ LoseSession
           \/ (j = "renew" /\ (StoreRenewal \/ RequeueRenewal))
           \/ (j = "catalogue" /\ (StorePage \/ FinishPage))
    PROVE  CredentialsInv'
<1> USE DEF atlassian, queue, handler, tokenGhosts, catalogueGhosts, ghosts
<1>1. CASE Start(j)
  <2>1. CredentialTypes'
    BY <1>1 DEF Start, To, CredentialsInv, CredentialTypes, Stages
  <2> QED
    BY <1>1, <2>1, AsideKeeps DEF Start, To, Aside, CredentialsInv, CredentialTypes
<1>2. CASE Load(j)
  <2>1. CASE To(j, "failed") /\ UNCHANGED seen
    <3>1. CredentialTypes'
      BY <1>2, <2>1 DEF Load, To, CredentialsInv, CredentialTypes, Stages
    <3> QED
      BY <1>2, <2>1, <3>1, AsideKeeps DEF Load, To, Aside, CredentialsInv, CredentialTypes
  <2>2. CASE row.status = "ACTIVE"
    <3> DEFINE sync == IF started = None THEN clock + 1 ELSE started
               what == [NothingSeen EXCEPT !.refresh = row.refresh, !.fresh = row.fresh,
                                           !.webhook = row.webhook, !.sync = sync]
    <3>1. sync \in Nat
      BY DEF CredentialsInv, CredentialTypes
    <3>2. row.refresh \in Nat /\ row.fresh \in BOOLEAN /\ row.webhook \in Nat
      BY DEF CredentialsInv, CredentialTypes
    <3>3. what \in Readings
      <4> HIDE DEF sync
      <4> QED
        BY <3>1, <3>2 DEF NothingSeen, Readings
    <3>4. seen' = [seen EXCEPT ![j] = what]
      BY <1>2, <2>2 DEF Load, See
    <3>5. /\ stage' \in [Jobs -> Stages] /\ stage'[j] \in {"mark", "call", "lock"}
          /\ \A k \in Jobs \ {j} : stage'[k] = stage[k]
      BY <1>2, <2>2 DEF Load, To, CredentialsInv, CredentialTypes, Stages
    <3>6. seen' \in [Jobs -> Readings] /\ \A k \in Jobs \ {j} : seen'[k] = seen[k]
      <4> HIDE DEF what
      <4> QED
        BY <3>3, <3>4 DEF CredentialsInv, CredentialTypes
    <3>7. clock' \in Nat
      BY <1>2 DEF Load, CredentialsInv, CredentialTypes
    <3>8. CredentialTypes'
      BY <1>2, <3>5, <3>6, <3>7 DEF Load, CredentialsInv, CredentialTypes
    <3> QED
      BY <1>2, <3>5, <3>6, <3>8, AsideKeeps DEF Load, Aside
  <2> QED
    BY <1>2, <2>1, <2>2 DEF Load
<1>3. CASE Call(j)
  <2>1. /\ stage' \in [Jobs -> Stages] /\ stage'[j] \in {"mark", "store"}
        /\ \A k \in Jobs \ {j} : stage'[k] = stage[k]
    BY <1>3 DEF Call, Step, To, CredentialsInv, CredentialTypes, Stages
  <2>2. seen' \in [Jobs -> Readings] /\ \A k \in Jobs \ {j} : seen'[k] = seen[k]
    <3>1. Page \in SUBSET Projects /\ LastPage \in BOOLEAN
      BY DEF Page, LastPage, CredentialsInv, CredentialTypes
    <3>2. [seen[j] EXCEPT !.items = Page, !.last = LastPage] \in Readings
      BY <3>1 DEF CredentialsInv, CredentialTypes, Readings
    <3> QED
      BY <1>3, <3>2 DEF Call, See, CredentialsInv, CredentialTypes
  <2>3. CredentialTypes'
    BY <1>3, <2>1, <2>2 DEF Call, Step, CredentialsInv, CredentialTypes
  <2> QED
    BY <1>3, <2>1, <2>2, <2>3, AsideKeeps DEF Call, Step, Aside
<1>4. CASE Mark(j)
  <2>1. /\ row'.refresh = row.refresh
        /\ row' \in [status : {"ACTIVE", "ERROR"}, refresh : Nat, fresh : BOOLEAN,
                     webhook : Nat, renewed : BOOLEAN]
    BY <1>4 DEF Mark, CredentialsInv, CredentialTypes
  <2>2. CredentialTypes'
    BY <1>4, <2>1 DEF Mark, To, CredentialsInv, CredentialTypes, Stages
  <2> QED
    BY <1>4, <2>1, <2>2, AsideKeeps DEF Mark, To, Aside, CredentialsInv, CredentialTypes
<1>5. CASE FailCall(j)
  <2>1. CASE End(j, "FAILED")
    <3>1. CredentialTypes'
      BY <1>5, <2>1, EndTyped DEF FailCall, CredentialsInv, CredentialTypes
    <3> QED
      BY <1>5, <2>1, <3>1, EndTyped, AsideKeeps
      DEF FailCall, Aside, CredentialsInv, CredentialTypes
  <2>2. CASE To(j, "mark") /\ UNCHANGED seen
    <3>1. CredentialTypes'
      BY <1>5, <2>2 DEF FailCall, To, CredentialsInv, CredentialTypes, Stages
    <3> QED
      BY <1>5, <2>2, <3>1, AsideKeeps DEF FailCall, To, Aside, CredentialsInv, CredentialTypes
  <2> QED
    BY <1>5, <2>1, <2>2 DEF FailCall, FailTransient
<1>6. CASE LoseSession
  <2>1. CredentialTypes'
    BY <1>6 DEF LoseSession, CredentialsInv, CredentialTypes
  <2> QED
    BY <1>6, <2>1, AsideKeeps DEF LoseSession, Aside
<1>7. CASE j = "renew" /\ StoreRenewal
  <2>1. CASE To(j, "finish") /\ UNCHANGED seen /\ row' = [row EXCEPT !.renewed = TRUE]
    <3>1. row'.refresh = row.refresh
      BY <2>1 DEF CredentialsInv, CredentialTypes
    <3>2. CredentialTypes'
      BY <1>7, <2>1 DEF StoreRenewal, To, CredentialsInv, CredentialTypes, Stages
    <3> QED
      BY <1>7, <2>1, <3>1, <3>2, AsideKeeps
      DEF StoreRenewal, To, Aside, CredentialsInv, CredentialTypes
  <2>2. CASE To(j, "failed") /\ UNCHANGED row
    <3>1. CredentialTypes'
      BY <1>7, <2>2 DEF StoreRenewal, To, CredentialsInv, CredentialTypes, Stages
    <3> QED
      BY <1>7, <2>2, <3>1, AsideKeeps
      DEF StoreRenewal, To, Aside, CredentialsInv, CredentialTypes
  <2> QED
    BY <1>7, <2>1, <2>2 DEF StoreRenewal
<1>8. CASE j = "renew" /\ RequeueRenewal
  <2>1. End(j, Renewed)
    BY <1>8 DEF RequeueRenewal
  <2>2. CredentialTypes'
    BY <1>8, <2>1, EndTyped DEF RequeueRenewal, CredentialsInv, CredentialTypes
  <2> QED
    BY <1>8, <2>1, <2>2, EndTyped, AsideKeeps
    DEF RequeueRenewal, Aside, CredentialsInv, CredentialTypes
<1>9. CASE j = "catalogue" /\ StorePage
  <2>1. CredentialTypes'
    BY <1>9 DEF StorePage, Step, To, CredentialsInv, CredentialTypes, Stages
  <2> QED
    BY <1>9, <2>1, AsideKeeps DEF StorePage, Step, To, Aside, CredentialsInv, CredentialTypes
<1>10. CASE j = "catalogue" /\ FinishPage
  <2>1. End(j, "SUCCEEDED") \/ End(j, "PENDING")
    BY <1>10 DEF FinishPage
  <2>2. started' \in Nat \cup {None}
    BY <1>10 DEF FinishPage, KeptSync, CredentialsInv, CredentialTypes, Readings
  <2>3. CredentialTypes'
    BY <1>10, <2>1, <2>2, EndTyped DEF FinishPage, CredentialsInv, CredentialTypes
  <2> QED
    BY <1>10, <2>1, <2>3, EndTyped, AsideKeeps
    DEF FinishPage, Aside, CredentialsInv, CredentialTypes
<1>11. CASE GiveUp(j)
  <2>1. CredentialTypes'
    BY <1>11, EndTyped DEF GiveUp, CredentialsInv, CredentialTypes
  <2> QED
    BY <1>11, <2>1, EndTyped, AsideKeeps DEF GiveUp, Aside, CredentialsInv, CredentialTypes
<1> QED
  BY <1>1, <1>2, <1>3, <1>4, <1>5, <1>6, <1>7, <1>8, <1>9, <1>10, <1>11

\* Every step keeps the invariant.
LEMMA CredentialsStep == CredentialsInv /\ [Next]_vars => CredentialsInv'
<1> SUFFICES ASSUME CredentialsInv, [Next]_vars PROVE CredentialsInv'
  OBVIOUS
<1>1. CASE UNCHANGED vars
  BY <1>1
  DEF vars, atlassian, queue, handler, ghosts, tokenGhosts, CredentialsInv, CredentialTypes,
      LockHeld, ReadingHolds, TokenKnown, TokenSubmittedOnce
<1>2. CASE Expire \/ Revoke \/ Reconnect \/ ChangeProject \/ Track \/ RequestSync
  BY <1>2, EventKeeps
<1>3. CASE \E j \in Jobs : Proceed(j) \/ Crash(j) \/ FailRefresh(j) \/ FailCall(j)
  <2> PICK j \in Jobs : Proceed(j) \/ Crash(j) \/ FailRefresh(j) \/ FailCall(j)
    BY <1>3
  <2> QED
    BY RefreshKeeps, HandlerKeeps DEF Proceed
<1>4. CASE LoseSession
  <2>1. "renew" \in Jobs
    BY DEF Jobs
  <2> QED
    BY <1>4, <2>1, HandlerKeeps
<1> QED
  BY <1>1, <1>2, <1>3, <1>4 DEF Next

\* The row lock keeps the token known in every behaviour.
THEOREM CredentialsInvariance == Spec => []CredentialsInv
<1> QED
  BY CredentialsInit, CredentialsStep, PTL DEF Spec

\* "concurrent jobs never submit the same one-time refresh token" (provider_support.py:202),
\* with any number of lost sessions, crashes and reconnections.
THEOREM TokensSubmittedOnce == Spec => []TokenSubmittedOnce
<1>1. CredentialsInv => TokenSubmittedOnce
  BY DEF CredentialsInv
<1> QED
  BY <1>1, CredentialsInvariance, PTL

\* The stored refresh token stays the one Atlassian will take, as long as no answer is lost
\* and the integration is not revoked.
THEOREM StoredTokensGood == Spec => []StoredTokenGood
<1>1. CredentialsInv => StoredTokenGood
  <2> SUFFICES ASSUME CredentialsInv, locker = None, ~lostAnswer, theirs # 0
               PROVE  row.refresh = theirs
    BY DEF StoredTokenGood
  <2>1. \A j \in Jobs : stage[j] # "commit"
    BY JiraAssumption DEF CredentialsInv, LockHeld, Jobs
  <2> QED
    BY <2>1 DEF CredentialsInv, TokenKnown
<1> QED
  BY <1>1, CredentialsInvariance, PTL

-----------------------------------------------------------------------------
(* The renewal.  Its row is RUNNING under a handler and no other time.     *)

Statuses == {"PENDING", "RUNNING", "FAILED", "SUCCEEDED", "DEAD"}

JobInv ==
    /\ status \in [Jobs -> Statuses]
    /\ stage \in [Jobs -> Stages]
    /\ \A j \in Jobs : stage[j] # "none" <=> status[j] = "RUNNING"

\* A renewal that has failed cannot be kept: the integration is marked, or was reconnected
\* before its end is recorded.
FailedMarked == stage["renew"] = "failed" /\ ~orphaned => row.status # "ACTIVE"

RenewalInv == JobInv /\ RenewalKept /\ FailedMarked

\* A handler goes on, ends its job, or its job waits for another attempt.
LEMMA JobStep == CredentialsInv /\ JobInv /\ [Next]_vars => JobInv'
<1> SUFFICES ASSUME CredentialsInv, JobInv, [Next]_vars PROVE JobInv'
  OBVIOUS
<1> USE DEF atlassian, queue, handler, tokenGhosts, catalogueGhosts, ghosts
<1>1. stage' \in [Jobs -> Stages]
  BY CredentialsStep DEF CredentialsInv, CredentialTypes
<1>2. ASSUME NEW j \in Jobs, NEW outcome \in Statuses \ {"RUNNING"}, End(j, outcome) PROVE JobInv'
  BY <1>1, <1>2 DEF JobInv, End, To
<1>3. ASSUME NEW j \in Jobs, NEW at \in Stages \ {"none"}, stage[j] # "none",
             To(j, at), status' = status
      PROVE  JobInv'
  BY <1>1, <1>3 DEF JobInv, To
<1>4. CASE Expire \/ Revoke \/ ChangeProject \/ Track \/ LoseSession \/ UNCHANGED vars
  BY <1>1, <1>4 DEF JobInv, Expire, Revoke, ChangeProject, Track, LoseSession, Event, vars
<1>5. CASE Reconnect
  BY <1>1, <1>5 DEF JobInv, Reconnect, Event, Jobs, Statuses
<1>6. CASE RequestSync
  BY <1>1, <1>6 DEF JobInv, RequestSync, Event, Jobs, Statuses
<1>7. ASSUME NEW j \in Jobs, Start(j) PROVE JobInv'
  BY <1>1, <1>7 DEF JobInv, Start, To, Statuses
<1>8. ASSUME NEW j \in Jobs, Load(j) PROVE JobInv'
  BY <1>3, <1>8 DEF Load, Stages
<1>9. ASSUME NEW j \in Jobs, Lock(j) \/ Refresh(j) \/ Commit(j) \/ Call(j) PROVE JobInv'
  BY <1>3, <1>9 DEF Lock, Refresh, Commit, Call, Step, Stages
<1>10. ASSUME NEW j \in Jobs, FailRefresh(j) \/ FailCall(j) PROVE JobInv'
  BY <1>2, <1>3, <1>10 DEF FailRefresh, FailCall, FailTransient, Stages, Statuses
<1>11. ASSUME NEW j \in Jobs, Mark(j) \/ GiveUp(j) \/ Crash(j) PROVE JobInv'
  BY <1>2, <1>3, <1>11 DEF Mark, GiveUp, Crash, Stages, Statuses
<1>12. CASE StoreRenewal \/ RequeueRenewal
  BY <1>2, <1>3, <1>12 DEF StoreRenewal, RequeueRenewal, Renewed, Jobs, Stages, Statuses
<1>13. CASE StorePage \/ FinishPage
  BY <1>2, <1>3, <1>13 DEF StorePage, FinishPage, Step, Jobs, Stages, Statuses
<1> QED BY <1>4, <1>5, <1>6, <1>7, <1>8, <1>9, <1>10, <1>11, <1>12, <1>13 DEF Next, Proceed

\* A renewal fails when the integration is not ACTIVE, when it marks it, or as an orphan;
\* and whoever makes the integration ACTIVE queues it again, unless it has failed and is
\* still RUNNING.
LEMMA RenewalStep == CredentialsInv /\ RenewalInv /\ [Next]_vars => RenewalInv'
<1> SUFFICES ASSUME CredentialsInv, RenewalInv, [Next]_vars PROVE RenewalKept' /\ FailedMarked'
  BY JobStep DEF RenewalInv
<1> USE DEF atlassian, queue, handler, tokenGhosts, catalogueGhosts, ghosts
<1> DEFINE Kept == RenewalKept' /\ FailedMarked'
<1>0. /\ JobInv /\ RenewalKept /\ FailedMarked
      /\ status \in [Jobs -> Statuses] /\ status' \in [Jobs -> Statuses] /\ "renew" \in Jobs
      /\ stage \in [Jobs -> Stages]
      /\ row \in [status : {"ACTIVE", "ERROR"}, refresh : Nat, fresh : BOOLEAN, webhook : Nat,
                  renewed : BOOLEAN]
  BY JobStep DEF RenewalInv, JobInv, Jobs, CredentialsInv, CredentialTypes
<1>1. ASSUME row'.status = row.status, UNCHANGED <<status, orphaned>>,
             stage'["renew"] \in {stage["renew"]} \cup (Stages \ {"failed"})
      PROVE  Kept
  BY <1>0, <1>1 DEF RenewalKept, FailedMarked
<1>2. CASE Revoke \/ ChangeProject \/ Track \/ LoseSession \/ UNCHANGED vars
  BY <1>0, <1>1, <1>2 DEF Revoke, ChangeProject, Track, LoseSession, Event, vars
<1>3. CASE Expire
  <2>1. row'.status = row.status
    BY <1>0, <1>3 DEF Expire
  <2> QED BY <1>1, <1>3, <2>1 DEF Expire, Event
<1>4. CASE Reconnect
  BY <1>0, <1>4 DEF Reconnect, Event, RenewalKept, FailedMarked, JobInv, Statuses
<1>5. CASE RequestSync
  BY <1>0, <1>5 DEF RequestSync, RenewalKept, FailedMarked, JobInv, Event
<1>6. ASSUME NEW j \in Jobs, Start(j) PROVE Kept
  BY <1>0, <1>6 DEF Start, To, RenewalKept, FailedMarked, JobInv
<1>7. ASSUME NEW j \in Jobs, NEW outcome, End(j, outcome), row' = row, orphaned' = orphaned,
             j = "renew" => \/ outcome \in {"PENDING", "FAILED"}
                            \/ ~orphaned => row.status # "ACTIVE"
      PROVE  Kept
  BY <1>0, <1>7 DEF End, To, RenewalKept, FailedMarked, JobInv
<1>8. ASSUME NEW j \in Jobs, NEW at \in Stages, To(j, at), UNCHANGED <<status, orphaned>>,
             row'.status = row.status,
             j = "renew" /\ at = "failed" => row.status # "ACTIVE"
      PROVE  Kept
  <2>1. stage'["renew"] = IF j = "renew" THEN at ELSE stage["renew"]
    BY <1>0, <1>8 DEF To
  <2> QED BY <1>0, <1>8, <2>1 DEF RenewalKept, FailedMarked
<1> SUFFICES Kept
  OBVIOUS
<1> HIDE DEF Kept
<1>9. ASSUME NEW j \in Jobs, Load(j) PROVE Kept
  BY <1>8, <1>9 DEF Load, Stages
<1>10. ASSUME NEW j \in Jobs, Lock(j) \/ Refresh(j) \/ Call(j) PROVE Kept
  BY <1>8, <1>10 DEF Lock, Refresh, Call, Step, Stages
<1>11. ASSUME NEW j \in Jobs, Commit(j) PROVE Kept
  <2>1. row'.status = row.status
    BY <1>0, <1>11 DEF Commit, NewCredentials
  <2> QED BY <1>8, <1>11, <2>1 DEF Commit, Step, Stages
<1>12. ASSUME NEW j \in Jobs, FailRefresh(j) \/ FailCall(j) PROVE Kept
  BY <1>7, <1>8, <1>12 DEF FailRefresh, FailCall, FailTransient, Stages
<1>13. ASSUME NEW j \in Jobs, Mark(j) PROVE Kept
  <2>1. row'.status # "ACTIVE"
    BY <1>0, <1>13 DEF Mark
  <2> QED BY <1>0, <2>1 DEF Kept, RenewalKept, FailedMarked
<1>14. ASSUME NEW j \in Jobs, GiveUp(j) PROVE Kept
  BY <1>0, <1>7, <1>14 DEF GiveUp, FailedMarked
<1>15. ASSUME NEW j \in Jobs, Crash(j) PROVE Kept
  BY <1>0, <1>15 DEF Kept, Crash, End, To, RenewalKept, FailedMarked, JobInv
<1>16. CASE StoreRenewal
  <2>1. CASE To("renew", "finish") /\ row' = [row EXCEPT !.renewed = TRUE] /\ UNCHANGED orphaned
    <3>1. row'.status = row.status
      BY <1>0, <2>1
    <3> QED BY <1>0, <1>8, <1>16, <2>1, <3>1 DEF StoreRenewal, Stages
  <2>2. CASE orphaned' = (orphaned \/ row.status = "ACTIVE") /\ UNCHANGED row
    BY <1>0, <1>16, <2>2 DEF StoreRenewal, Kept, RenewalKept, FailedMarked
  <2> QED BY <1>16, <2>1, <2>2 DEF StoreRenewal
<1>17. CASE RequeueRenewal
  BY <1>0, <1>7, <1>17 DEF RequeueRenewal, Renewed
<1>18. CASE StorePage
  BY <1>8, <1>18 DEF StorePage, Step, Jobs, Stages
<1>19. CASE FinishPage
  BY <1>7, <1>19 DEF FinishPage, Jobs
<1> QED BY <1>2, <1>3, <1>4, <1>5, <1>6, <1>9, <1>10, <1>11, <1>12, <1>13, <1>14, <1>15, <1>16,
           <1>17, <1>18, <1>19 DEF Next, Proceed, Kept

\* An ACTIVE integration has a renewal to come (renew_jira_webhook.py:86), whatever crashes
\* and whoever reconnects, except in the two gaps of the code and after a last crash.
THEOREM RenewalsKept == Spec => []RenewalKept
<1>1. Init => RenewalInv
  BY DEF Init, RenewalInv, JobInv, RenewalKept, FailedMarked, Statuses, Stages, Jobs
<1>2. RenewalInv => RenewalKept
  BY DEF RenewalInv
<1> QED BY <1>1, <1>2, CredentialsInvariance, RenewalStep, PTL DEF Spec

-----------------------------------------------------------------------------
(* The catalogue.  A page takes what has the next ranks of the listing.    *)

\* A listed project has less before it than are listed.
LEMMA RankBound ==
    ASSUME NEW S \in SUBSET Projects, NEW p
    PROVE  /\ IsFiniteSet(S) /\ Rank(p, S) \in Nat /\ Cardinality(S) \in Nat
           /\ p \in S => Rank(p, S) < Cardinality(S)
<1> DEFINE Before == {q \in S : q < p}
<1>1. IsFiniteSet(S) /\ Cardinality(S) \in Nat
  BY JiraAssumption, FS_Subset, FS_CardinalityType
<1>2. IsFiniteSet(Before) /\ Cardinality(Before) \in Nat
  BY <1>1, FS_Subset, FS_CardinalityType
<1>3. ASSUME p \in S PROVE Cardinality(Before) < Cardinality(S)
  <2>1. IsFiniteSet(S \ {p}) /\ Cardinality(S \ {p}) = Cardinality(S) - 1
    BY <1>1, <1>3, FS_RemoveElement
  <2>2. Before \in SUBSET (S \ {p})
    BY <1>3, JiraAssumption
  <2>3. Cardinality(Before) <= Cardinality(S \ {p})
    BY <2>1, <2>2, FS_Subset
  <2> HIDE DEF Before
  <2> QED BY <1>1, <1>2, <2>1, <2>3
<1> QED BY <1>1, <1>2, <1>3 DEF Rank

\* Of two listed projects the later has the higher rank.
LEMMA RankIncreases ==
    ASSUME NEW S \in SUBSET Projects, NEW p \in S, NEW q \in S, p < q
    PROVE  Rank(p, S) < Rank(q, S)
<1> DEFINE Before == {r \in S : r < p}
           Later == {r \in S : r < q}
<1>1. IsFiniteSet(Later) /\ Cardinality(Later) \in Nat
  BY RankBound, FS_Subset, FS_CardinalityType
<1>2. p \in Later /\ Before \in SUBSET (Later \ {p})
  <2>1. p \in Nat /\ q \in Nat /\ \A r \in S : r \in Nat
    BY JiraAssumption
  <2>2. \A r \in S : r < p => r < q /\ r # p
    BY <2>1
  <2> QED BY <2>2
<1>3. IsFiniteSet(Later \ {p}) /\ Cardinality(Later \ {p}) = Cardinality(Later) - 1
  BY <1>1, <1>2, FS_RemoveElement
<1>4. Cardinality(Before) <= Cardinality(Later \ {p}) /\ Cardinality(Before) \in Nat
  BY <1>2, <1>3, FS_Subset, FS_CardinalityType
<1> HIDE DEF Before, Later
<1>5. Cardinality(Before) < Cardinality(Later)
  BY <1>1, <1>3, <1>4
<1> QED BY <1>5 DEF Rank, Before, Later

\* A page is no longer than PageSize.
LEMMA PageBound ==
    ASSUME listed \in SUBSET Projects, cursor \in Nat
    PROVE  /\ Page \in SUBSET listed
           /\ Cardinality(Page) \in Nat /\ Cardinality(Page) <= PageSize
<1>1. Page \in SUBSET listed /\ PageSize \in Nat \ {0}
  BY JiraAssumption DEF Page
<1> DEFINE ranks == cursor .. cursor + PageSize - 1
           f == [p \in Page |-> Rank(p, listed)]
<1>2. IsFiniteSet(ranks) /\ Cardinality(ranks) = PageSize
  <2>1. IsFiniteSet(ranks) /\ Cardinality(ranks) =
            IF cursor > cursor + PageSize - 1 THEN 0 ELSE (cursor + PageSize - 1) - cursor + 1
    BY <1>1, FS_Interval
  <2> QED BY <1>1, <2>1
<1>3. f \in [Page -> ranks]
  BY DEF Page
<1>4. ASSUME NEW p \in Page, NEW q \in Page, f[p] = f[q] PROVE p = q
  <2>1. p \in listed /\ q \in listed /\ p \in Nat /\ q \in Nat
    BY <1>1, JiraAssumption
  <2>2. Rank(p, listed) = Rank(q, listed) /\ Rank(p, listed) \in Nat
    BY <1>4, RankBound
  <2>3. ~(p < q) /\ ~(q < p)
    BY <2>1, <2>2, RankBound, RankIncreases
  <2> QED BY <2>1, <2>3
<1>5. f \in Injection(Page, ranks)
  BY <1>3, <1>4 DEF Injection, IsInjective
<1>6. IsFiniteSet(Page) /\ Cardinality(Page) <= Cardinality(ranks)
  BY <1>2, <1>5, FS_Injection
<1> QED BY <1>1, <1>2, <1>6, FS_CardinalityType

\* What is to come at the cursor is in the page, or to come after it; with the last page
\* nothing is.
LEMMA PageTakes ==
    ASSUME listed \in SUBSET Projects, cursor \in Nat, NEW p \in ToCome(cursor)
    PROVE  p \in Page \/ (~LastPage /\ p \in ToCome(cursor + Cardinality(Page)))
<1>1. p \in listed /\ Rank(p, listed) \in Nat /\ Rank(p, listed) >= cursor
      /\ Rank(p, listed) < Cardinality(listed) /\ Cardinality(listed) \in Nat
  BY RankBound DEF ToCome
<1>2. Cardinality(Page) \in Nat /\ Cardinality(Page) <= PageSize /\ PageSize \in Nat
  BY PageBound, JiraAssumption
<1>3. CASE Rank(p, listed) <= cursor + PageSize - 1
  BY <1>1, <1>2, <1>3 DEF Page
<1>4. CASE Rank(p, listed) > cursor + PageSize - 1
  <2>1. Rank(p, listed) >= cursor + Cardinality(Page)
    BY <1>1, <1>2, <1>4
  <2> QED BY <1>1, <1>2, <2>1 DEF LastPage, ToCome
<1> QED BY <1>1, <1>2, <1>3, <1>4

-----------------------------------------------------------------------------
(* A synchronisation is dated by the clock, and a project it has stored    *)
(* carries that date.  What was listed when it began is stored, or still   *)
(* to come at the cursor it would go on from.                              *)

Rows == [tracked : BOOLEAN, synced : Nat]

Done(p) == project[p] # None /\ project[p].synced = clock

Loaded == stage["catalogue"] \notin {"none", "load", "failed"}
Underway == started # None \/ Loaded \/ status["catalogue"] = "SUCCEEDED"

Items == seen["catalogue"].items
Last == seen["catalogue"].last

CatalogueTypes ==
    /\ project \in [Projects -> Rows \cup {None}]
    /\ cursor \in Nat
    /\ owed \in SUBSET Projects /\ kept \in SUBSET Projects /\ gone \in SUBSET Projects

\* No row is dated after the clock, and the job under way is dated by it.
Dates ==
    /\ \A p \in Projects : project[p] # None => project[p].synced <= clock
    /\ started # None => started = clock
    /\ started = None => cursor = 0
    /\ Loaded => seen["catalogue"].sync = clock
    /\ stage["catalogue"] \notin {"store", "finish"} => Items = {}

\* What was not listed is stored by no page, and untracked by the last.
GoneInv ==
    Underway =>
        /\ \A p \in gone : p \notin listed /\ p \notin Items
        /\ \A p \in gone : project[p] # None => project[p].synced < clock
        /\ (stage["catalogue"] = "finish" /\ Last) \/ status["catalogue"] = "SUCCEEDED" =>
              \A p \in gone : ~Tracked(p)

\* Where the next page begins once this one is stored.
NextCursor == cursor + Cardinality(Items)

OwedInv ==
    Underway /\ ~drifted =>
        /\ \A p \in kept : p \in owed /\ Tracked(p)
        /\ \A p \in owed : p \in listed
        /\ \A p \in owed : Done(p) \/ p \in ToCome(cursor)
        /\ stage["catalogue"] = "store" =>
              \A p \in owed : Done(p) \/ p \in Items \/ (~Last /\ p \in ToCome(NextCursor))
        /\ stage["catalogue"] = "finish" =>
              \A p \in owed : Done(p) \/ (~Last /\ p \in ToCome(NextCursor))
        /\ status["catalogue"] = "SUCCEEDED" => \A p \in owed : Done(p)

CatalogueInv == CatalogueTypes /\ Dates /\ GoneInv /\ OwedInv

\* What the rest of the model does does not reach the catalogue.
Elsewhere ==
    /\ UNCHANGED <<listed, project, cursor, started, clock, catalogueGhosts>>
    /\ UNCHANGED <<status["catalogue"], stage["catalogue"], seen["catalogue"]>>

\* So it keeps the invariant.
LEMMA ElsewhereKeeps == ASSUME CatalogueInv, Elsewhere PROVE CatalogueInv'
BY DEF CatalogueInv, Elsewhere, CatalogueTypes, Dates, GoneInv, OwedInv, catalogueGhosts, Done,
       Loaded, Underway, Items, Last, NextCursor, Tracked, ToCome

\* A step of the catalogue's handler that reads and stores no page: it goes on, or its
\* attempt is over.
Between ==
    /\ UNCHANGED <<listed, project, cursor, started, clock, catalogueGhosts>>
    /\ status'["catalogue"] # "SUCCEEDED"
    /\ \/ /\ Loaded /\ seen'["catalogue"].sync = seen["catalogue"].sync
          /\ stage'["catalogue"] \notin {"store", "finish"}
          /\ Items' = Items /\ stage["catalogue"] \notin {"store", "finish"}
       \/ stage'["catalogue"] \in {"none", "load", "failed"} /\ Items' = {}

\* It keeps the invariant.
LEMMA BetweenKeeps == ASSUME CatalogueInv, JobInv, Between PROVE CatalogueInv'
<1>1. CatalogueTypes'
  BY DEF CatalogueInv, CatalogueTypes, Between, catalogueGhosts
<1>2. Dates'
  BY DEF CatalogueInv, Dates, Between, Loaded, Items
<1>3. Underway' => Underway
  BY DEF Between, Underway, Loaded
<1>4. GoneInv'
  BY <1>3 DEF CatalogueInv, GoneInv, Between, catalogueGhosts, Tracked
<1>5. OwedInv'
  BY <1>3 DEF CatalogueInv, OwedInv, Between, catalogueGhosts, Tracked, Done, ToCome
<1> QED BY <1>1, <1>2, <1>4, <1>5 DEF CatalogueInv

\* Users, Atlassian and time: a listing that moves under the job is noticed, a project that
\* is tracked need not be untracked, and a new synchronisation begins at the first page.
LEMMA EventCatalogue ==
    ASSUME CredentialsInv, JobInv, CatalogueInv,
           \/ Expire \/ Revoke \/ Reconnect \/ ChangeProject \/ Track \/ RequestSync
           \/ LoseSession \/ UNCHANGED vars
    PROVE  CatalogueInv'
<1> USE DEF Event, atlassian, queue, handler, ghosts, tokenGhosts, catalogueGhosts
<1>1. CASE Expire \/ Revoke \/ LoseSession \/ UNCHANGED vars
  BY <1>1, ElsewhereKeeps DEF Expire, Revoke, LoseSession, vars, Elsewhere
<1>2. CASE Reconnect
  <2>1. status'["catalogue"] = status["catalogue"]
    BY <1>2 DEF Reconnect, JobInv, Jobs
  <2> QED BY <1>2, <2>1, ElsewhereKeeps DEF Reconnect, Elsewhere
<1>3. CASE ChangeProject
  <2>1. /\ owed' = owed \cap listed' /\ kept' = kept \cap listed' /\ gone' = gone \ listed'
        /\ UNCHANGED <<project, status, cursor, started, clock, stage, seen>>
        /\ ~drifted' => ~drifted /\ ~Moved(cursor) /\ ~Moved(NextCursor)
    BY <1>3 DEF ChangeProject, NextCursor, Items
  <2>2. \A at, p : ~Moved(at) /\ p \in ToCome(at) /\ p \in listed' => p \in ToCome(at)'
    BY DEF Moved
  <2>3. CatalogueTypes' /\ Dates'
    BY <2>1 DEF CatalogueInv, CatalogueTypes, Dates, Loaded, Items
  <2>4. GoneInv'
    BY <2>1 DEF CatalogueInv, GoneInv, Underway, Loaded, Items, Last, Tracked
  <2>5. ASSUME ~drifted' PROVE \A p : p \in listed' =>
             /\ p \in ToCome(cursor) => p \in ToCome(cursor)'
             /\ p \in ToCome(NextCursor) => p \in ToCome(NextCursor)'
    <3>1. cursor' = cursor /\ NextCursor' = NextCursor
      BY <2>1 DEF NextCursor, Items
    <3>2. ~Moved(cursor) /\ ~Moved(NextCursor)
      BY <2>1, <2>5
    <3>3. \A p : p \in listed' /\ p \in ToCome(cursor) => p \in ToCome(cursor)'
      BY <3>1, <3>2 DEF Moved
    <3>4. \A p : p \in listed' /\ p \in ToCome(NextCursor) => p \in ToCome(NextCursor)'
      BY <3>1, <3>2 DEF Moved
    <3> QED BY <3>3, <3>4
  <2>6. OwedInv'
    BY <2>1, <2>5 DEF CatalogueInv, OwedInv, Underway, Loaded, Items, Last, Tracked, Done
  <2> QED BY <2>3, <2>4, <2>6 DEF CatalogueInv
<1>4. CASE Track
  <2>1. PICK p \in Projects :
          /\ project[p] # None /\ project' = [project EXCEPT ![p].tracked = TRUE]
          /\ gone' = gone \ {p}
          /\ UNCHANGED <<listed, status, cursor, started, clock, stage, seen, owed, kept, drifted>>
    BY <1>4 DEF Track
  <2>2. project' \in [Projects -> Rows \cup {None}] /\ project'[p] # None
        /\ project'[p].synced = project[p].synced /\ project'[p].tracked
        /\ \A q \in Projects : q # p => project'[q] = project[q]
    <3>1. project[p] \in Rows
      BY <2>1 DEF CatalogueInv, CatalogueTypes
    <3>2. [project[p] EXCEPT !.tracked = TRUE] \in Rows
          /\ [project[p] EXCEPT !.tracked = TRUE].synced = project[p].synced
          /\ [project[p] EXCEPT !.tracked = TRUE].tracked
      BY <3>1 DEF Rows
    <3>3. project'[p] = [project[p] EXCEPT !.tracked = TRUE]
      BY <2>1 DEF CatalogueInv, CatalogueTypes
    <3>4. project'[p] # None
      BY <3>2, <3>3, JiraAssumption DEF Rows
    <3> QED BY <2>1, <3>2, <3>3, <3>4 DEF CatalogueInv, CatalogueTypes
  <2>3. CatalogueTypes' /\ Dates'
    BY <2>1, <2>2 DEF CatalogueInv, CatalogueTypes, Dates, Loaded, Items
  <2>4. \A q \in Projects : (Done(q) => Done(q)') /\ (Tracked(q) => Tracked(q)')
    BY <2>1, <2>2 DEF Done, Tracked
  <2>5. GoneInv'
    BY <2>1, <2>2 DEF CatalogueInv, CatalogueTypes, GoneInv, Underway, Loaded, Items, Last, Tracked
  <2>6. OwedInv'
    <3>1. /\ Underway' => Underway
          /\ ToCome(cursor)' = ToCome(cursor) /\ ToCome(NextCursor)' = ToCome(NextCursor)
          /\ UNCHANGED <<Last, Items>>
      BY <2>1 DEF Underway, Loaded, Last, Items, NextCursor, ToCome
    <3>2. \A q : q \in owed \/ q \in kept => q \in Projects
      BY DEF CatalogueInv, CatalogueTypes
    <3>3. /\ \A q \in owed : Done(q) => Done(q)'
          /\ \A q \in kept : Tracked(q) => Tracked(q)'
      BY <2>4, <3>2
    <3> QED BY <2>1, <3>1, <3>3 DEF CatalogueInv, OwedInv
  <2> QED BY <2>3, <2>5, <2>6 DEF CatalogueInv
<1>5. CASE RequestSync
  <2>1. /\ status'["catalogue"] = "PENDING" /\ stage["catalogue"] = "none"
        /\ cursor' = 0 /\ started' = None
        /\ UNCHANGED <<project, clock, stage, seen, owed, kept, gone>>
    BY <1>5 DEF RequestSync, JobInv, Jobs
  <2>2. ~Underway'
    BY <2>1 DEF Underway, Loaded
  <2> QED BY <2>1, <2>2 DEF CatalogueInv, CatalogueTypes, Dates, GoneInv, OwedInv, Loaded, Items
<1> QED BY <1>1, <1>2, <1>3, <1>4, <1>5

\* The renewal has no part in the catalogue.
LEMMA RenewalElsewhere ==
    ASSUME CredentialsInv, JobInv, CatalogueInv,
           Proceed("renew") \/ Crash("renew") \/ FailRefresh("renew") \/ FailCall("renew")
    PROVE  CatalogueInv'
<1> USE DEF atlassian, queue, handler, ghosts, tokenGhosts, catalogueGhosts
<1> DEFINE Apart == UNCHANGED <<status["catalogue"], stage["catalogue"], seen["catalogue"]>>
<1>0. /\ status \in [Jobs -> Statuses] /\ stage \in [Jobs -> Stages] /\ seen \in [Jobs -> Readings]
      /\ "renew" # "catalogue" /\ "renew" \in Jobs /\ "catalogue" \in Jobs
  BY DEF JobInv, CredentialsInv, CredentialTypes, Jobs
<1>1. ASSUME NEW outcome, End("renew", outcome) PROVE Apart
  BY <1>0, <1>1 DEF End, To
<1>2. ASSUME NEW at, To("renew", at), UNCHANGED <<status, seen>> PROVE Apart
  BY <1>0, <1>2 DEF To
<1>3. ASSUME NEW at, NEW what, To("renew", at), See("renew", what), UNCHANGED status PROVE Apart
  BY <1>0, <1>3 DEF To, See
<1> HIDE DEF Apart
<1>4. SUFFICES Apart /\ UNCHANGED <<listed, project, cursor, started, clock, catalogueGhosts>>
  BY ElsewhereKeeps DEF Elsewhere, Apart
<1>5. CASE Start("renew")
  BY <1>0, <1>5 DEF Start, To, Apart
<1>6. CASE Load("renew")
  BY <1>0, <1>2, <1>3, <1>6 DEF Load
<1>7. CASE Lock("renew") \/ Refresh("renew") \/ Commit("renew") \/ Call("renew")
  BY <1>2, <1>3, <1>7 DEF Lock, Refresh, Commit, Call, Step
<1>8. CASE FailRefresh("renew") \/ FailCall("renew")
  BY <1>1, <1>2, <1>8 DEF FailRefresh, FailCall, FailTransient
<1>9. CASE Mark("renew") \/ GiveUp("renew") \/ Crash("renew")
  BY <1>1, <1>2, <1>9 DEF Mark, GiveUp, Crash
<1>10. CASE StoreRenewal \/ RequeueRenewal
  BY <1>1, <1>2, <1>10 DEF StoreRenewal, RequeueRenewal
<1> QED BY <1>0, <1>5, <1>6, <1>7, <1>8, <1>9, <1>10 DEF Proceed

\* The steps of the catalogue's handler that have no page, and its failures.
LEMMA HandlerBetween ==
    ASSUME CredentialsInv, JobInv, CatalogueInv, NEW c, c = "catalogue",
           \/ Start(c) \/ Lock(c) \/ Refresh(c) \/ Commit(c) \/ Mark(c)
           \/ GiveUp(c) \/ Crash(c) \/ FailRefresh(c) \/ FailCall(c)
    PROVE  CatalogueInv'
<1> USE DEF atlassian, queue, handler, ghosts, tokenGhosts, catalogueGhosts
<1>0. /\ status \in [Jobs -> Statuses] /\ stage \in [Jobs -> Stages] /\ seen \in [Jobs -> Readings]
      /\ c \in Jobs
      /\ stage[c] # "none" => status[c] = "RUNNING"
      /\ stage[c] \notin {"store", "finish"} => Items = {}
      /\ seen[c] \in Readings
  BY DEF JobInv, CredentialsInv, CredentialTypes, Jobs, CatalogueInv, Dates
<1>1. ASSUME NEW outcome, End(c, outcome)
      PROVE  status'[c] = outcome /\ stage'[c] = "none" /\ Items' = {}
  BY <1>0, <1>1 DEF End, To, NothingSeen, Items
<1>2. CASE Start(c)
  <2>1. status'[c] = "RUNNING" /\ stage'[c] = "load" /\ seen' = seen /\ stage[c] = "none"
    BY <1>0, <1>2 DEF Start, To
  <2>2. Between
    BY <1>0, <1>2, <2>1 DEF Between, Start, Items
  <2> QED BY <2>2, BetweenKeeps
<1>3. CASE GiveUp(c) \/ Crash(c)
  <2>1. PICK outcome : End(c, outcome) /\ outcome # "SUCCEEDED"
    BY <1>3 DEF GiveUp, Crash
  <2>2. Between
    BY <1>1, <1>3, <2>1 DEF Between, GiveUp, Crash
  <2> QED BY <2>2, BetweenKeeps
<1>4. ASSUME NEW at \in Stages \ {"none", "load", "failed", "store", "finish"}, To(c, at), status' = status,
             stage[c] \in Stages \ {"none", "load", "failed", "store", "finish"},
             seen'[c].sync = seen[c].sync, seen'[c].items = seen[c].items,
             UNCHANGED <<listed, project, cursor, started, clock, catalogueGhosts>>
      PROVE  CatalogueInv'
  <2>1. stage'[c] = at
    BY <1>0, <1>4 DEF To
  <2>2. Between
    BY <1>0, <1>4, <2>1 DEF Between, Loaded, Items
  <2> QED BY <2>2, BetweenKeeps
<1>5. CASE Lock(c)
  <2>1. PICK at \in {"mark", "call", "refresh"} : To(c, at)
    BY <1>5 DEF Lock
  <2>2. seen'[c].sync = seen[c].sync /\ seen'[c].items = seen[c].items
    <3> DEFINE read == [seen[c] EXCEPT !.refresh = row.refresh, !.fresh = row.fresh]
    <3>1. seen' = seen \/ seen' = [seen EXCEPT ![c] = read]
      BY <1>5 DEF Lock, Locked, See
    <3>2. read.sync = seen[c].sync /\ read.items = seen[c].items
      BY <1>0 DEF Readings
    <3> HIDE DEF read
    <3>3. seen'[c] = seen[c] \/ seen'[c] = read
      BY <1>0, <3>1
    <3> QED BY <3>2, <3>3
  <2> QED BY <1>4, <1>5, <2>1, <2>2 DEF Lock, Step, Stages
<1>6. CASE Refresh(c)
  <2>1. PICK at \in {"mark", "commit"} : To(c, at)
    BY <1>6 DEF Refresh
  <2>2. seen'[c].sync = seen[c].sync /\ seen'[c].items = seen[c].items
    <3> DEFINE read == [seen[c] EXCEPT !.refresh = theirs', !.fresh = TRUE]
    <3>1. seen' = seen \/ seen' = [seen EXCEPT ![c] = read]
      BY <1>6 DEF Refresh, See
    <3>2. read.sync = seen[c].sync /\ read.items = seen[c].items
      BY <1>0 DEF Readings
    <3> HIDE DEF read
    <3>3. seen'[c] = seen[c] \/ seen'[c] = read
      BY <1>0, <3>1
    <3> QED BY <3>2, <3>3
  <2> QED BY <1>4, <1>6, <2>1, <2>2 DEF Refresh, Step, Stages
<1>7. CASE Commit(c)
  BY <1>4, <1>7 DEF Commit, Step, Stages
<1>8. CASE FailRefresh(c) \/ FailCall(c)
  <2>1. stage[c] \in {"refresh", "commit", "call"} /\ FailTransient(c)
        /\ UNCHANGED <<listed, project, cursor, started, clock, catalogueGhosts>>
    BY <1>8 DEF FailRefresh, FailCall
  <2>2. CASE End(c, "FAILED")
    <3>1. Between
      BY <1>1, <2>1, <2>2 DEF Between
    <3> QED BY <3>1, BetweenKeeps
  <2>3. CASE To(c, "mark") /\ UNCHANGED <<seen, status, holder>>
    BY <1>4, <2>1, <2>3 DEF Stages
  <2> QED BY <2>1, <2>2, <2>3 DEF FailTransient
<1>9. CASE Mark(c)
  <2>1. stage'[c] = "failed" /\ Items' = {}
    BY <1>0, <1>9 DEF Mark, To, Items
  <2>2. Between
    BY <1>0, <1>9, <2>1 DEF Between, Mark
  <2> QED BY <2>2, BetweenKeeps
<1> QED BY <1>2, <1>3, <1>5, <1>6, <1>7, <1>8, <1>9

\* The first page's attempt begins the synchronisation: what is listed is owed and to come,
\* and every row is older.  A later one goes on with the date of the payload.
LEMMA LoadCatalogue ==
    ASSUME CredentialsInv, JobInv, CatalogueInv, NEW c, c = "catalogue", Load(c)
    PROVE  CatalogueInv'
<1> USE DEF queue, catalogueGhosts
<1>0. /\ status \in [Jobs -> Statuses] /\ stage \in [Jobs -> Stages] /\ seen \in [Jobs -> Readings]
      /\ c \in Jobs /\ stage[c] = "load" /\ status[c] = "RUNNING" /\ clock \in Nat
      /\ listed \in SUBSET Projects
      /\ UNCHANGED <<listed, project, cursor, started>>
  BY DEF JobInv, CredentialsInv, CredentialTypes, Jobs, Load, atlassian
<1> DEFINE sync == IF started = None THEN clock + 1 ELSE started
<1>1. \/ status'[c] = "RUNNING" /\ stage'[c] = "failed" /\ Items' = {}
      \/ /\ status'[c] = "RUNNING" /\ stage'[c] \in {"call", "lock"}
         /\ Items' = {} /\ seen'[c].sync = sync
  <2>1. CASE row.status # "ACTIVE"
    BY <1>0, <2>1 DEF Load, To, CatalogueInv, Dates, Items
  <2>2. CASE row.status = "ACTIVE"
    <3>1. stage'[c] \in {"call", "lock"} /\ status' = status
      BY <1>0, <2>2 DEF Load, To
    <3>2. seen' = [seen EXCEPT ![c] = [NothingSeen EXCEPT !.refresh = row.refresh,
                        !.fresh = row.fresh, !.webhook = row.webhook, !.sync = sync]]
      BY <2>2 DEF Load, See
    <3>3. seen'[c].items = {} /\ seen'[c].sync = sync
      BY <1>0, <3>2 DEF NothingSeen
    <3> QED BY <1>0, <3>1, <3>3 DEF Items
  <2> QED BY <2>1, <2>2
<1>2. CASE started # None
  <2>1. UNCHANGED <<clock, owed, gone, kept, drifted>>
    BY <1>2 DEF Load
  <2>2. CatalogueTypes' /\ Dates'
    BY <1>0, <1>1, <1>2, <2>1 DEF CatalogueInv, CatalogueTypes, Dates, Loaded
  <2>3. Underway /\ \A p \in gone : p \notin Items'
    BY <1>1, <1>2 DEF Underway
  <2>4. GoneInv'
    BY <1>0, <1>1, <2>1, <2>3 DEF CatalogueInv, GoneInv, Tracked
  <2>5. OwedInv'
    BY <1>0, <1>1, <2>1, <2>3 DEF CatalogueInv, OwedInv, Tracked, Done, ToCome
  <2> QED BY <2>2, <2>4, <2>5 DEF CatalogueInv
<1>3. CASE started = None
  <2>1. /\ clock' = clock + 1 /\ owed' = listed /\ gone' = Projects \ listed
        /\ kept' = {p \in listed : Tracked(p)} /\ ~drifted'
    BY <1>3 DEF Load
  <2>2. cursor = 0 /\ \A p \in Projects : project[p] # None => project[p].synced <= clock
                                            /\ project[p].synced \in Nat
    BY <1>3 DEF CatalogueInv, CatalogueTypes, Dates, Rows
  <2>3. CatalogueTypes'
    BY <1>0, <2>1 DEF CatalogueInv, CatalogueTypes
  <2>4. Dates'
    BY <1>0, <1>1, <1>3, <2>1, <2>2 DEF Dates, Loaded
  <2>5. GoneInv'
    BY <1>0, <1>1, <2>1, <2>2 DEF GoneInv, Tracked
  <2>6. \A p \in listed : p \in ToCome(0)
    BY <1>0, RankBound DEF ToCome
  <2>7. OwedInv'
    BY <1>0, <1>1, <2>1, <2>2, <2>6 DEF OwedInv, Tracked, ToCome
  <2> QED BY <2>3, <2>4, <2>5, <2>7 DEF CatalogueInv
<1> QED BY <1>2, <1>3

\* A page is read: what was to come is in it, or to come after it.
LEMMA CallCatalogue ==
    ASSUME CredentialsInv, JobInv, CatalogueInv, NEW c, c = "catalogue", Call(c)
    PROVE  CatalogueInv'
<1>0. /\ stage \in [Jobs -> Stages] /\ seen \in [Jobs -> Readings] /\ seen[c] \in Readings
      /\ c \in Jobs /\ stage[c] = "call" /\ listed \in SUBSET Projects /\ cursor \in Nat
      /\ UNCHANGED <<listed, project, status, cursor, started, clock, owed, kept, gone, drifted>>
      /\ status[c] = "RUNNING" /\ Items = {}
  BY DEF JobInv, CredentialsInv, CredentialTypes, CatalogueInv, CatalogueTypes, Dates, Jobs, Call,
         Step, queue, catalogueGhosts
<1>1. CASE To(c, "mark") /\ UNCHANGED seen
  <2>1. stage'[c] = "mark"
    BY <1>0, <1>1 DEF To
  <2>2. Between
    BY <1>0, <1>1, <2>1 DEF Between, Loaded, Items, catalogueGhosts
  <2> QED BY <2>2, BetweenKeeps
<1>2. CASE To(c, "store") /\ See(c, [seen[c] EXCEPT !.items = Page, !.last = LastPage])
  <2> DEFINE read == [seen[c] EXCEPT !.items = Page, !.last = LastPage]
  <2>1. read.items = Page /\ read.last = LastPage /\ read.sync = seen[c].sync
    BY <1>0 DEF Readings
  <2>2. seen'[c] = read /\ stage'[c] = "store"
    BY <1>0, <1>2 DEF To, See
  <2> HIDE DEF read
  <2>3. Items' = Page /\ Last' = LastPage /\ seen'[c].sync = seen[c].sync
        /\ stage'[c] = "store"
    BY <2>1, <2>2 DEF Items, Last
  <2>4. Loaded /\ Underway /\ Page \in SUBSET listed
    BY <1>0, PageBound DEF Loaded, Underway
  <2>5. CatalogueTypes' /\ Dates'
    BY <1>0, <2>3, <2>4 DEF CatalogueInv, CatalogueTypes, Dates, Loaded
  <2>6. GoneInv'
    BY <1>0, <2>3, <2>4 DEF CatalogueInv, GoneInv, Tracked
  <2>7. ToCome(NextCursor)' = ToCome(cursor + Cardinality(Page))
    BY <1>0, <2>3 DEF NextCursor, ToCome
  <2>8. \A p \in ToCome(cursor) :
            p \in Page \/ (~LastPage /\ p \in ToCome(cursor + Cardinality(Page)))
    BY <1>0, PageTakes
  <2>9. OwedInv'
    <3>1. ASSUME ~drifted PROVE \A p \in owed :
              Done(p) \/ p \in Items' \/ (~Last' /\ p \in ToCome(NextCursor)')
      BY <2>3, <2>4, <2>7, <2>8, <3>1 DEF CatalogueInv, OwedInv
    <3> QED BY <1>0, <2>3, <2>4, <3>1 DEF CatalogueInv, OwedInv, Done, Tracked, ToCome
  <2> QED BY <2>5, <2>6, <2>9 DEF CatalogueInv
<1> QED BY <1>1, <1>2 DEF Call

\* What a page makes of a project: its items carry the job's date and stay tracked or
\* untracked; on the last page what does not carry the date is untracked.
LEMMA StoredPage ==
    ASSUME CredentialsInv, JobInv, CatalogueInv, StorePage, NEW p \in Projects
    PROVE  /\ project'[p] \in Rows \cup {None}
           /\ project[p] # None \/ p \in Items <=> project'[p] # None
           /\ p \in Items => project'[p].synced = clock /\ (Tracked(p)' <=> Tracked(p))
           /\ p \notin Items /\ project[p] # None => project'[p].synced = project[p].synced
           /\ p \notin Items /\ Tracked(p)' => Tracked(p)
           /\ Last /\ p \notin Items /\ project[p] # None /\ project[p].synced < clock => ~Tracked(p)'
           /\ p \notin Items /\ (Last => Done(p)) => (Tracked(p)' <=> Tracked(p))
<1> DEFINE rows == Upserted(Items, clock)
<1>0. /\ stage["catalogue"] = "store" /\ seen["catalogue"].sync = clock /\ clock \in Nat
      /\ project[p] \in Rows \cup {None} /\ project \in [Projects -> Rows \cup {None}]
      /\ Items \in SUBSET Projects
  BY DEF StorePage, Step, CatalogueInv, CatalogueTypes, Dates, Loaded, CredentialsInv,
         CredentialTypes, Readings, Items, Jobs
<1>1. project' = IF Last THEN Sweep(rows, clock) ELSE rows
  BY <1>0 DEF StorePage, Items, Last
<1>2. rows[p] = IF p \in Items THEN [tracked |-> Tracked(p), synced |-> clock] ELSE project[p]
  BY DEF Upserted
<1>3. \A r \in Rows : r # None /\ r.synced \in Nat /\ r.tracked \in BOOLEAN
                     /\ [r EXCEPT !.tracked = FALSE] \in Rows
                     /\ [r EXCEPT !.tracked = FALSE].synced = r.synced
                     /\ ~[r EXCEPT !.tracked = FALSE].tracked
  BY JiraAssumption DEF Rows
<1>4. Tracked(p) \in BOOLEAN
  BY <1>0, <1>3 DEF Tracked
<1>5. rows[p] \in Rows \cup {None}
  BY <1>0, <1>2, <1>4 DEF Rows
<1> HIDE DEF rows
<1>6. project'[p] = IF Last /\ rows[p] # None /\ rows[p].synced < clock
                    THEN [rows[p] EXCEPT !.tracked = FALSE] ELSE rows[p]
  BY <1>1 DEF Sweep
<1>7. project'[p] \in Rows \cup {None}
  BY <1>3, <1>5, <1>6
<1>8. CASE p \in Items
  <2>1. rows[p] # None /\ rows[p].synced = clock /\ rows[p].tracked = Tracked(p)
    <3>1. rows[p] = [tracked |-> Tracked(p), synced |-> clock]
      BY <1>2, <1>8
    <3>2. rows[p] \in Rows
      BY <1>0, <1>4, <3>1 DEF Rows
    <3>3. rows[p] # None
      BY <1>3, <3>2
    <3>4. rows[p].synced = clock
      BY <3>1
    <3>5. rows[p].tracked = Tracked(p)
      <4>1. PICK was \in BOOLEAN : was = Tracked(p)
        BY <1>4
      <4>2. rows[p] = [tracked |-> was, synced |-> clock]
        BY <3>1, <4>1
      <4>3. rows[p].tracked = was
        BY <4>2
      <4> QED BY <4>1, <4>3
    <3> QED BY <3>3, <3>4, <3>5
  <2>2. project'[p] = rows[p]
    BY <1>0, <1>6, <2>1
  <2> QED BY <1>7, <1>8, <2>1, <2>2 DEF Tracked
<1>9. CASE p \notin Items
  <2>1. rows[p] = project[p]
    BY <1>2, <1>9
  <2>2. CASE Last /\ project[p] # None /\ project[p].synced < clock
    BY <1>0, <1>3, <1>6, <1>7, <1>9, <2>1, <2>2 DEF Tracked, Done
  <2>3. CASE ~(Last /\ project[p] # None /\ project[p].synced < clock)
    BY <1>0, <1>3, <1>6, <1>7, <1>9, <2>1, <2>3 DEF Tracked, Done
  <2> QED BY <2>2, <2>3
<1> QED BY <1>8, <1>9

\* A page is stored: its items are done, and nothing that is owed is swept.
LEMMA PageStored ==
    ASSUME CredentialsInv, JobInv, CatalogueInv, StorePage
    PROVE  CatalogueInv'
<1>0. /\ stage["catalogue"] = "store" /\ stage'["catalogue"] = "finish"
      /\ UNCHANGED <<listed, status, cursor, started, clock, seen, owed, kept, gone, drifted>>
      /\ Loaded /\ Underway /\ Items \in SUBSET Projects /\ status["catalogue"] = "RUNNING"
      /\ clock \in Nat
  BY DEF StorePage, Step, To, queue, catalogueGhosts, JobInv, CredentialsInv, CredentialTypes,
         Readings, Jobs, Items, Loaded, Underway
<1>1. UNCHANGED <<Items, Last, NextCursor>>
  BY <1>0 DEF Items, Last, NextCursor
<1>2. project' \in [Projects -> Rows \cup {None}]
  <2>1. \A p \in Projects : project'[p] \in Rows \cup {None}
    BY StoredPage
  <2>2. project' = [p \in Projects |-> project'[p]]
    BY DEF StorePage, Upserted, Sweep
  <2> QED BY <2>1, <2>2
<1>3. CatalogueTypes'
  BY <1>0, <1>2 DEF CatalogueInv, CatalogueTypes
<1>4. \A p \in Projects : /\ project[p] # None => project[p].synced <= clock
                         /\ project[p] # None => project[p].synced \in Nat
  BY DEF CatalogueInv, CatalogueTypes, Dates, Rows
<1>5. Dates'
  BY <1>0, <1>1, <1>4, StoredPage DEF CatalogueInv, Dates, Loaded
<1>6. /\ \A p \in gone : p \notin listed /\ p \notin Items /\ p \in Projects
      /\ \A p \in gone : project[p] # None => project[p].synced < clock
  BY <1>0 DEF CatalogueInv, CatalogueTypes, GoneInv
<1>7. \A p \in gone : Last => ~Tracked(p)'
  BY <1>6, StoredPage DEF Tracked
<1>8. \A p \in gone : project'[p] # None => project'[p].synced < clock
  BY <1>6, StoredPage
<1>9. GoneInv'
  BY <1>0, <1>1, <1>6, <1>7, <1>8 DEF GoneInv
<1>10. \A p \in Projects : Done(p) \/ p \in Items => Done(p)'
  BY <1>0, StoredPage DEF Done
<1>11. ASSUME ~drifted PROVE OwedInv'
  <2>1. /\ \A p \in kept : p \in owed /\ Tracked(p) /\ p \in Projects
        /\ \A p \in owed : p \in listed /\ p \in Projects
        /\ \A p \in owed : Done(p) \/ p \in ToCome(cursor)
        /\ \A p \in owed : Done(p) \/ p \in Items \/ (~Last /\ p \in ToCome(NextCursor))
    BY <1>0, <1>11 DEF CatalogueInv, CatalogueTypes, OwedInv
  <2>2. ToCome(cursor)' = ToCome(cursor) /\ ToCome(NextCursor)' = ToCome(NextCursor)
    BY <1>0, <1>1 DEF ToCome
  <2>3. \A p \in kept : Tracked(p)'
    BY <2>1, StoredPage
  <2> QED BY <1>0, <1>1, <1>10, <2>1, <2>2, <2>3 DEF OwedInv
<1>12. OwedInv'
  BY <1>0, <1>11 DEF OwedInv
<1> QED BY <1>3, <1>5, <1>9, <1>12 DEF CatalogueInv

\* The next page begins where this one ended; after the last one all that is owed is done.
LEMMA PageFinished ==
    ASSUME CredentialsInv, JobInv, CatalogueInv, FinishPage
    PROVE  CatalogueInv'
<1> USE DEF ghosts, catalogueGhosts, atlassian
<1>0. /\ stage["catalogue"] = "finish" /\ Loaded /\ Underway
      /\ UNCHANGED <<listed, project, clock, owed, kept, gone, drifted>>
      /\ seen["catalogue"].sync = clock /\ clock \in Nat /\ "catalogue" \in Jobs
      /\ listed \in SUBSET Projects
      /\ Items \in SUBSET Projects /\ status \in [Jobs -> Statuses]
      /\ seen \in [Jobs -> Readings] /\ stage \in [Jobs -> Stages]
  BY DEF FinishPage, JobInv, CredentialsInv, CredentialTypes, CatalogueInv, Dates,
         Readings, Jobs, Items, Loaded, Underway
<1>1. ASSUME NEW outcome, End("catalogue", outcome)
      PROVE  status'["catalogue"] = outcome /\ stage'["catalogue"] = "none" /\ Items' = {}
  BY <1>0, <1>1 DEF End, To, NothingSeen, Items
<1>2. /\ \A p \in Projects : Done(p)' <=> Done(p)
      /\ \A p \in Projects : Tracked(p)' <=> Tracked(p)
      /\ \A p : p \in owed \/ p \in kept \/ p \in gone => p \in Projects
  BY <1>0 DEF Done, Tracked, CatalogueInv, CatalogueTypes
<1>3. CASE Last
  <2>1. End("catalogue", "SUCCEEDED") /\ UNCHANGED <<cursor, started>>
    BY <1>3 DEF FinishPage, Last
  <2>2. CatalogueTypes' /\ Dates'
    BY <1>0, <1>1, <2>1 DEF CatalogueInv, CatalogueTypes, Dates, Loaded
  <2>3. GoneInv'
    BY <1>0, <1>1, <1>2, <1>3, <2>1 DEF CatalogueInv, GoneInv
  <2>4. OwedInv'
    BY <1>0, <1>1, <1>2, <1>3, <2>1 DEF CatalogueInv, OwedInv
  <2> QED BY <2>2, <2>3, <2>4 DEF CatalogueInv
<1>4. CASE ~Last
  <2>1. End("catalogue", "PENDING") /\ cursor' = NextCursor /\ started' = clock
    BY <1>0, <1>4 DEF FinishPage, Last, NextCursor, Items, KeptSync
  <2>2. cursor' \in Nat /\ started' # None
    BY <1>0, <2>1, RankBound, JiraAssumption DEF CatalogueInv, CatalogueTypes, NextCursor
  <2>3. CatalogueTypes' /\ Dates'
    BY <1>0, <1>1, <2>1, <2>2 DEF CatalogueInv, CatalogueTypes, Dates, Loaded
  <2>4. GoneInv'
    BY <1>0, <1>1, <1>2, <2>1 DEF CatalogueInv, GoneInv
  <2>5. ToCome(cursor)' = ToCome(NextCursor)
    BY <1>0, <2>1 DEF ToCome
  <2>6. OwedInv'
    BY <1>0, <1>1, <1>2, <1>4, <2>1, <2>5 DEF CatalogueInv, OwedInv
  <2> QED BY <2>3, <2>4, <2>6 DEF CatalogueInv
<1> QED BY <1>3, <1>4

\* The catalogue's invariant is inductive.
LEMMA CatalogueStep == CredentialsInv /\ JobInv /\ CatalogueInv /\ [Next]_vars => CatalogueInv'
<1> SUFFICES ASSUME CredentialsInv, JobInv, CatalogueInv, [Next]_vars PROVE CatalogueInv'
  OBVIOUS
<1>1. ASSUME NEW j \in Jobs, Proceed(j) \/ Crash(j) \/ FailRefresh(j) \/ FailCall(j)
      PROVE  CatalogueInv'
  <2>1. CASE j = "renew"
    BY <1>1, <2>1, RenewalElsewhere
  <2>2. CASE j = "catalogue"
    BY <1>1, <2>2, HandlerBetween, LoadCatalogue, CallCatalogue, PageStored, PageFinished
    DEF Proceed
  <2> QED BY <2>1, <2>2 DEF Jobs
<1> QED BY <1>1, EventCatalogue DEF Next

\* Job and catalogue together, for the theorem.
THEOREM CatalogueInvariance == Spec => [](JobInv /\ CatalogueInv)
<1>1. Init => JobInv /\ CatalogueInv
  <2> SUFFICES ASSUME Init PROVE JobInv /\ CatalogueInv
    OBVIOUS
  <2>1. JobInv
    BY DEF Init, JobInv, Statuses, Stages, Jobs
  <2>2. project \in [Projects -> Rows \cup {None}]
        /\ \A p \in Projects : project[p] # None => project[p].synced = 0
    <3>1. PICK known \in {None, [tracked |-> TRUE, synced |-> 0]} :
              project = [p \in Projects |-> known]
      BY DEF Init
    <3>2. known \in Rows \cup {None}
      <4>1. CASE known = None
        BY <4>1
      <4>2. CASE known = [tracked |-> TRUE, synced |-> 0]
        BY <4>2 DEF Rows
      <4> QED BY <4>1, <4>2
    <3>3. known # None => known.synced = 0
      OBVIOUS
    <3> QED BY <3>1, <3>2, <3>3
  <2>3. /\ cursor = 0 /\ owed = {} /\ kept = {} /\ gone = {} /\ started = None /\ clock = 1
        /\ stage["catalogue"] = "none" /\ status["catalogue"] = "PENDING" /\ Items = {}
    BY DEF Init, Jobs, Items, NothingSeen
  <2>4. CatalogueTypes /\ Dates
    BY <2>2, <2>3 DEF CatalogueTypes, Dates, Loaded
  <2>5. GoneInv /\ OwedInv
    BY <2>3 DEF GoneInv, OwedInv, Underway, Loaded
  <2> QED BY <2>1, <2>4, <2>5 DEF CatalogueInv
<1> QED BY <1>1, CredentialsInvariance, JobStep, CatalogueStep, PTL DEF Spec

\* sync_jira_projects.py:75, for every listing and page size, whatever fails and is retried.
THEOREM CataloguesMatch == Spec => []CatalogueMatches
<1>1. JobInv /\ CatalogueInv => CatalogueMatches
  <2> SUFFICES ASSUME CatalogueInv, status["catalogue"] = "SUCCEEDED", ~drifted
               PROVE  /\ \A p \in owed : project[p] # None
                      /\ \A p \in kept : Tracked(p)
                      /\ \A p \in gone : ~Tracked(p)
    BY DEF CatalogueMatches
  <2> QED BY DEF CatalogueInv, Underway, OwedInv, GoneInv, Done
<1> QED BY <1>1, CatalogueInvariance, PTL
=============================================================================
