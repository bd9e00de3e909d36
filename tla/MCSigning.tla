----------------------------- MODULE MCSigning -----------------------------
(***************************************************************************)
(* Three transactions are signed at the same time: one by a user who pays   *)
(* and others, one as a Solana action and one by the server alone.          *)
(***************************************************************************)
EXTENDS Signing

MCBuilds == {"tx", "action", "own"}
MCWallets == {"payer", "alice", "bob", "server", "key"}
MCSigners == [b \in MCBuilds |->
    CASE b = "tx" -> {"payer", "alice", "key"}
      [] b = "action" -> {"alice", "bob"}
      [] b = "own" -> {"key", "server"}]
MCLead == [b \in MCBuilds |->
    CASE b = "tx" -> "payer" [] b = "action" -> "bob" [] b = "own" -> "key"]
MCActions == {"action"}
MCKind == [w \in MCWallets |->
    CASE w \in {"payer", "alice", "bob"} -> "user"
      [] w = "server" -> "keypair" [] w = "key" -> "local"]
\* What the instructions are given, and what a wallet may rewrite it to: a
\* shorter list, a longer one, one with another account.
MCLists == {<<"vault", "mint">>, <<"vault">>, <<"other">>}
MCInputs == [b \in MCBuilds |-> IF b = "tx" THEN <<"vault", "mint">> ELSE <<"vault">>]
=============================================================================
