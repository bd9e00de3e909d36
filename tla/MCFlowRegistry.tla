--------------------------- MODULE MCFlowRegistry ---------------------------
(***************************************************************************)
(* Flows that call each other and themselves.                              *)
(***************************************************************************)
EXTENDS FlowRegistry, TLC

\* b calls c twice, so that c is loaded twice; c calls itself, until an edit makes it call
\* d instead, which nobody calls before.
MCVersions ==
  "a" :> << <<"b">> >> @@ "b" :> << <<"c", "c">> >>
  @@ "c" :> << <<"c">>, <<"d">> >> @@ "d" :> << <<>> >>
=============================================================================
