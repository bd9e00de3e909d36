---------------------------- MODULE Transactions ----------------------------
(***************************************************************************)
(* The static part of a FlowGraph: nodes, edges and the partition of its    *)
(* instruction nodes into Solana transactions (FlowGraph::sort_transactions)*)
(*                                                                         *)
(* A flow f is a record:                                                    *)
(*   nodes    the node ids                                                  *)
(*   edges    records [src, from, dst, to, req, opt]: output port `from' of *)
(*            src feeds input port `to' of dst; req is is_required_input,   *)
(*            opt is is_optional_output                                     *)
(*            (a partial run has edges from a fake node, which is not one of *)
(*            the nodes: they supply the values of the runs before)         *)
(*   order    the nodes by graph index                                      *)
(*   topo     the nodes in the topological order petgraph gives             *)
(*   info     the nodes whose command has an instruction_info               *)
(*   before   for each node, its outputs that are known before execution    *)
(*   after    for each node, the ones that are not, the signature included  *)
(***************************************************************************)
EXTENDS Naturals, Sequences, FiniteSets

InEdges(f, n) == {e \in f.edges : e.dst = n}
OutEdges(f, n) == {e \in f.edges : e.src = n}
FakeNode == "fake"
FakeEdges(f) == OutEdges(f, FakeNode)

\* One pass over the nodes that are not visited yet, in topological order: a
\* node is visited once all its incoming edges are; it then opens its outgoing
\* edges, or only its `before' edges when it has instructions to hand over.
Visit(f, r, n) ==
    LET spread == {e \in OutEdges(f, n) : n \in f.info => e.from \in f.before[n]}
    IN  IF n \in r.nodes \/ ~(InEdges(f, n) \subseteq r.edges)
        THEN r
        ELSE [nodes |-> r.nodes \cup {n},
              edges |-> r.edges \cup spread,
              tx    |-> IF n \in f.info THEN Append(r.tx, n) ELSE r.tx]

Pass(f, visited, opened) ==
    LET P[i \in 0 .. Len(f.topo)] ==
            IF i = 0
            THEN [nodes |-> visited, edges |-> opened, tx |-> <<>>]
            ELSE Visit(f, P[i - 1], f.topo[i])
    IN  P[Len(f.topo)]

\* Edges a transaction opens once it was executed: `signature' and `after'.
AfterEdges(f, tx) ==
    {e \in f.edges : (\E i \in 1 .. Len(tx) : e.src = tx[i]) /\ e.from \in f.after[e.src]}

\* What a pass adds; one that met instruction nodes makes them a transaction.
NextPass(f, s) ==
    LET p == Pass(f, s.nodes, s.edges)
    IN  [nodes |-> p.nodes,
         edges |-> p.edges \cup AfterEdges(f, p.tx),
         txs   |-> IF p.tx = <<>> THEN s.txs ELSE Append(s.txs, p.tx)]

\* FlowGraph::sort_transactions: passes until nothing new is visited.  The edges of
\* the fake node are added later, so they hold nothing back.
sort_transactions(f) ==
    LET S[k \in 0 .. Cardinality(f.nodes)] ==
            IF k = 0
            THEN [nodes |-> {}, edges |-> FakeEdges(f), txs |-> <<>>]
            ELSE NextPass(f, S[k - 1])
    IN  S[Cardinality(f.nodes)].txs
=============================================================================
