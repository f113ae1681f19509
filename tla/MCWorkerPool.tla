---------------------------- MODULE MCWorkerPool ----------------------------
(* Small instances of WorkerPool for TLC. *)
EXTENDS WorkerPool, TLC

CONSTANTS b1, b2, c1, c2, c3, j1, j2, j3, w1, r1

\* b1 has two consumer threads, b2 (its restart, or a second container) has one.
MCBootOf == c1 :> b1 @@ c2 :> b1 @@ c3 :> b2

\* One job of one repository.
MCOneRepository == j1 :> r1
MCOneRank == j1 :> 1

\* One consumer in each of two processes.
MCBootOfEach == c1 :> b1 @@ c3 :> b2

\* Two jobs of one repository and the deletion of its workspace, which goes first.
MCRepository == j1 :> r1 @@ j2 :> r1 @@ j3 :> None
MCRank == j1 :> 2 @@ j2 :> 3 @@ j3 :> 1

MCWorkspace == [j \in Jobs |-> w1]
=============================================================================
