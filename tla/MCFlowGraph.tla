---------------------------- MODULE MCFlowGraph ----------------------------
(***************************************************************************)
(* Small flows on which FlowGraph is model-checked.                         *)
(***************************************************************************)
EXTENDS FlowGraph

\* An edge with a required input from an output that is not optional, one with
\* an optional input, and one from an optional output.
Edge(src, from, dst, to) ==
    [src |-> src, from |-> from, dst |-> dst, to |-> to, req |-> TRUE, opt |-> FALSE]
ToOptional(e) == [e EXCEPT !.req = FALSE]
FromOptional(e) == [e EXCEPT !.opt = TRUE]

\* A flow of plain nodes that take no part in transactions; the flows below
\* change what they need.
PlainFlow(order, edges) ==
    LET ns == {order[i] : i \in 1 .. Len(order)}
        ports == [n \in ns |-> {e.from : e \in {d \in edges : d.src = n}}]
    IN  [nodes |-> ns, edges |-> edges, order |-> order, topo |-> order,
         info |-> {}, before |-> [n \in ns |-> {}], after |-> [n \in ns |-> ports[n]],
         kind |-> [n \in ns |-> "plain"], ports |-> ports, must |-> ports,
         unroll |-> {}, execs |-> {}, payer |-> [n \in ns |-> "p"], panics |-> {}, hangs |-> {},
         mode |-> "Automatic", interflow |-> FALSE, invalid |-> FALSE, shared |-> FALSE]

\* for each x in an array: a(x), then b(a(x), x), then collect the results
LoopFlow ==
    [PlainFlow(<<"f", "a", "b", "c">>,
        {Edge("f", "element", "a", "x"), Edge("f", "element", "b", "x"),
         Edge("a", "y", "b", "y"), ToOptional(Edge("b", "z", "c", "element"))})
     EXCEPT !.kind = [@ EXCEPT !["f"] = "foreach", !["c"] = "collect"]]

\* a foreach in a foreach; nodes are numbered against the flow of data
NestedFlow ==
    [PlainFlow(<<"c", "g", "f">>,
        {Edge("f", "element", "g", "array"), ToOptional(Edge("g", "element", "c", "element"))})
     EXCEPT !.topo = <<"f", "g", "c">>,
            !.kind = [@ EXCEPT !["f"] = "foreach", !["g"] = "foreach", !["c"] = "collect"]]

\* an output that may be missing, for a required and for an optional input
OptionalFlow ==
    [PlainFlow(<<"a", "b", "c">>,
        {FromOptional(Edge("a", "y", "b", "x")),
         ToOptional(FromOptional(Edge("a", "y", "c", "x"))), Edge("a", "z", "c", "z")})
     EXCEPT !.must = [@ EXCEPT !["a"] = {"z"}], !.panics = {"b"}]
InvalidFlow == [OptionalFlow EXCEPT !.invalid = TRUE]

\* a partial run: the foreach before a and the node before b ran earlier
PartialFlow ==
    LET x == Edge(FakeNode, "foreach/element", "a", "x")
    IN  [PlainFlow(<<"a", "b">>,
            {x, ToOptional(Edge(FakeNode, "node/w", "b", "w")), Edge("a", "y", "b", "y")})
         EXCEPT !.unroll = {x}]

LoopFlows == {LoopFlow, NestedFlow, OptionalFlow, InvalidFlow, PartialFlow}

\* x and y share a transaction: y needs what x knows before it is executed.  z
\* needs x's signature, so it is in the next one.  s may keep y out.
BundleFlow ==
    [PlainFlow(<<"s", "x", "y", "z">>,
        {Edge("x", "mint", "y", "mint"), Edge("x", "signature", "z", "signature"),
         ToOptional(Edge("s", "v", "y", "submit"))})
     EXCEPT !.info = {"x", "y", "z"}, !.execs = {"x", "y", "z"},
            !.before = [@ EXCEPT !["x"] = {"mint"}],
            !.after = [@ EXCEPT !["x"] = {"signature"}],
            !.shared = TRUE]
\* the same with two fee payers, which makes two Solana transactions of one
TwoPayersFlow == [BundleFlow EXCEPT !.payer = [@ EXCEPT !["y"] = "q"], !.shared = FALSE]
InterflowFlow == [BundleFlow EXCEPT !.interflow = TRUE, !.shared = FALSE]
NoBundlingFlow == [BundleFlow EXCEPT !.mode = "Off"]

\* instructions in a loop
LoopedBundleFlow ==
    [PlainFlow(<<"f", "x", "y">>,
        {Edge("f", "element", "x", "in"), Edge("x", "mint", "y", "mint")})
     EXCEPT !.kind = [@ EXCEPT !["f"] = "foreach"],
            !.info = {"x", "y"}, !.execs = {"x", "y"},
            !.before = [@ EXCEPT !["x"] = {"mint"}], !.after = [@ EXCEPT !["x"] = {}]]

\* u calls execute without declaring an instruction_info, h may hang, and both
\* run beside an instruction node
HangFlow ==
    [PlainFlow(<<"h", "u", "x">>, {ToOptional(Edge("u", "v", "h", "in"))})
     EXCEPT !.topo = <<"u", "h", "x">>, !.execs = {"u", "x"}, !.info = {"x"}, !.hangs = {"h"}, !.panics = {"h"}]

BundleFlows == {BundleFlow, TwoPayersFlow, InterflowFlow, NoBundlingFlow, LoopedBundleFlow, HangFlow}

CheckedFlows == LoopFlows \cup BundleFlows
\* What the theorems about loops ask of a flow: these have it, SkippingFlow does not.
ASSUME LoopsAssumption ==
    \A f \in CheckedFlows : SkipsAreRequired(f) /\ LoopsAreRequired(f) /\ (f # NestedFlow => OneLevel(f))

\* for each x in an array: a outputs y for some of them, b takes y if it is there
SkippingFlow ==
    [PlainFlow(<<"f", "a", "b">>,
        {Edge("f", "element", "a", "x"), ToOptional(FromOptional(Edge("a", "y", "b", "x")))})
     EXCEPT !.kind = [@ EXCEPT !["f"] = "foreach"], !.must = [@ EXCEPT !["a"] = {}]]
SkippingFlows == {SkippingFlow}
=============================================================================
