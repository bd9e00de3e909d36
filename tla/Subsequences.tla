---------------------------- MODULE Subsequences ----------------------------
(* Subsequences, defined so that they can be reasoned about. *)
EXTENDS Naturals, Sequences

\* The elements of a sequence that are in T, in their order: SelectSeq, with a set in the
\* place of an operator.
Keep(s, T) ==
  LET kept[n \in 0..Len(s)] ==
        IF n = 0 THEN <<>>
        ELSE IF s[n] \in T THEN Append(kept[n - 1], s[n]) ELSE kept[n - 1]
  IN  kept[Len(s)]
=============================================================================
