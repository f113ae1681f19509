---------------------------- MODULE MCGithubEvents ----------------------------
(* Small instances of GithubEvents for TLC. *)
EXTENDS GithubEvents
=============================================================================
