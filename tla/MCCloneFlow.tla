----------------------------- MODULE MCCloneFlow -----------------------------
(* Flows that call each other in a circle, one with a wallet node, and users   *)
(* that have a wallet in common with the owner, or none at all.                *)
EXTENDS CloneFlow

MCWalletsOf == "owner" :> <<1, 2>> @@ "guest" :> <<3, 4>> @@ "poor" :> <<>>
MCPublicKey == 1 :> "A" @@ 2 :> "B" @@ 3 :> "C" @@ 4 :> "B"

Interflow(f) == [kind |-> "interflow", ref |-> f, key |-> "none"]
Wallet(w) == [kind |-> "wallet", ref |-> w, key |-> MCPublicKey[w]]

MCStored ==
  1 :> [owner |-> "owner", public |-> TRUE, nodes |-> <<Interflow(2), Wallet(2), Interflow(2)>>] @@
  2 :> [owner |-> "owner", public |-> TRUE, nodes |-> <<Wallet(1), Interflow(1)>>] @@
  3 :> [owner |-> "owner", public |-> FALSE, nodes |-> <<>>]

MCEdits == {Interflow(3), Interflow(0)}
=============================================================================
