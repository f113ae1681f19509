------------------------------ MODULE JobQueue ------------------------------
(***************************************************************************)
(* What the job queue of adept-engine promises about each row, whatever    *)
(* the worker processes do: at-least-once execution by one worker at a     *)
(* time within a budget of attempts.  A step of the system may move any    *)
(* number of rows, each by one legal step of its own.                      *)
(***************************************************************************)
EXTENDS Naturals

CONSTANTS Jobs, Workers, MaxAttempts

VARIABLES
    state,    \* absent, waiting, claimed, succeeded or dead
    used,     \* attempts that ended in failure or abandonment
    running   \* the workers inside the job's handler

queueVars == <<state, used, running>>

States == {"absent", "waiting", "claimed", "succeeded", "dead"}

QueueInit ==
    /\ state = [j \in Jobs |-> "absent"]
    /\ used = [j \in Jobs |-> 0]
    /\ running = [j \in Jobs |-> {}]

Idle(j) == running[j] = {} /\ running'[j] = {}
Ends(j) == running[j] # {} /\ running'[j] = {}

Moves(j, from, to) == state[j] = from /\ state'[j] = to

Submit(j) == Moves(j, "absent", "waiting") /\ Idle(j) /\ used'[j] = used[j]

Take(j) == Moves(j, "waiting", "claimed") /\ Idle(j) /\ used'[j] = used[j]

Run(j) ==
    /\ Moves(j, "claimed", "claimed")
    /\ running[j] = {}
    /\ \E w \in Workers : running'[j] = {w}
    /\ used'[j] = used[j]

\* A deferral costs nothing; only a claim whose handler never started is deferred.
HandBack(j) == Moves(j, "claimed", "waiting") /\ Idle(j) /\ used'[j] = used[j]

\* A continuation costs nothing and may restore the whole budget.
Proceed(j) == Moves(j, "claimed", "waiting") /\ Ends(j) /\ used'[j] \in {used[j], 0}

Complete(j) == Moves(j, "claimed", "succeeded") /\ Ends(j) /\ used'[j] = used[j]

\* A failed run: retried within the budget, dead when it is spent or never to be retried.
FailRun(j) ==
    /\ Ends(j)
    /\ used'[j] = used[j] + 1
    /\ \/ Moves(j, "claimed", "waiting") /\ used'[j] < MaxAttempts
       \/ Moves(j, "claimed", "dead")

\* The worker disappears, or cannot write the outcome, and the claim outlives it.
Halt(j) == Moves(j, state[j], state[j]) /\ Ends(j) /\ used'[j] = used[j]

\* Recovery of a claim nobody executes; the recovering step may claim it again.
Abandon(j) ==
    /\ Idle(j)
    /\ used'[j] = used[j] + 1
    /\ \/ used'[j] < MaxAttempts /\ \E s \in {"waiting", "claimed"} : Moves(j, "claimed", s)
       \/ used'[j] = MaxAttempts /\ Moves(j, "claimed", "dead")

Stay(j) == state'[j] = state[j] /\ used'[j] = used[j] /\ running'[j] = running[j]

JobStep(j) ==
    \/ Submit(j) \/ Take(j) \/ Run(j) \/ HandBack(j) \/ Proceed(j) \/ Complete(j)
    \/ FailRun(j) \/ Halt(j) \/ Abandon(j) \/ Stay(j)

QueueNext ==
    /\ state' \in [Jobs -> States]
    /\ used' \in [Jobs -> 0 .. MaxAttempts]
    /\ running' \in [Jobs -> SUBSET Workers]
    /\ \A j \in Jobs : JobStep(j)

QueueSpec == QueueInit /\ [][QueueNext]_queueVars
=============================================================================
