------------------------------ MODULE MCLogin ------------------------------
(* All requests are for one key, where they meet each other. *)
EXTENDS Login, TLC

CONSTANT key

MCKeyOf == [r \in Requests |-> key]

Symmetry == Permutations(Requests) \cup Permutations(Semaphores) \cup Permutations(Passwords)
=============================================================================
