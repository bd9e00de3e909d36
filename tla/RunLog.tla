------------------------------- MODULE RunLog -------------------------------
(***************************************************************************)
(* What the server promises of the record of a flow run: the events of the *)
(* run are published one after the other; the rows in the database are     *)
(* some of these events, in the same order; and whoever waits for the run  *)
(* is answered when the record is complete, after which it never changes.  *)
(***************************************************************************)
EXTENDS Naturals, Sequences

CONSTANTS Events, Clients

VARIABLES
  published,  \* The events, as every subscriber sees them.
  record,     \* The rows that were written.
  complete,   \* Nothing more is written.
  answered    \* The clients that were told so.

vars == <<published, record, complete, answered>>

Init == published = <<>> /\ record = <<>> /\ complete = FALSE /\ answered = {}

\* An event is never published twice.
Publish ==
  /\ \E e \in Events :
       /\ \A i \in 1..Len(published) : published[i] # e
       /\ published' = Append(published, e)
  /\ UNCHANGED <<record, complete, answered>>

\* An event is written that was published after all those that are there.
Write ==
  /\ ~complete
  /\ \E i \in 1..Len(published) :
       /\ \A j \in i..Len(published), k \in 1..Len(record) : record[k] # published[j]
       /\ record' = Append(record, published[i])
  /\ UNCHANGED <<published, complete, answered>>

\* The record is complete; those who waited are told at once.
Complete ==
  /\ ~complete /\ complete' = TRUE
  /\ answered' \in SUBSET Clients
  /\ UNCHANGED <<published, record>>

Next == Publish \/ Write \/ Complete

Spec == Init /\ [][Next]_vars
=============================================================================
