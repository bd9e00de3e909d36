----------------------------- MODULE MCDBWorker -----------------------------
(* Two runs of one user, so that one may call the other. *)
EXTENDS DBWorker

OneUser == [r \in Runs |-> "user"]
=============================================================================
