------------------------------ MODULE MCWsConn ------------------------------
(* Two sessions and one run of their user. *)
EXTENDS WsConn

MCClients == {"c1", "c2"}
MCRuns == {"r1"}
=============================================================================
