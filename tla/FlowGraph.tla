----------------------------- MODULE FlowGraph -----------------------------
(***************************************************************************)
(* FlowGraph::run: the loop that starts the nodes of a flow whose inputs are*)
(* ready, collects what the spawned commands output, bundles the            *)
(* instructions of the nodes that wait for a transaction and executes them. *)
(*                                                                         *)
(* Three kinds of processes interleave: the loop (one task), the commands   *)
(* (one spawned task per running node) and whoever stops the flow.          *)
(*                                                                         *)
(* On top of what Transactions says, a flow f has                           *)
(*   kind     "plain", "foreach" or "collect" for each node                 *)
(*   ports    the outputs of each node; must: the ones that are not optional*)
(*   execs    nodes whose command calls ctx.execute                         *)
(*   payer    the fee payer of each node's instructions                     *)
(*   panics   nodes whose command may panic                                 *)
(*   mode     the BundlingMode                                              *)
(*   interflow  output_instructions: the run is an interflow-instructions   *)
(*   invalid  it has a cycle, or a partial run lacks a previous value       *)
(*   shared   the run is shared with users other than the flow's owner      *)
(*   hangs    nodes whose command may never end by itself                   *)
(*   unroll   the edges from the fake node of a partial run whose previous  *)
(*            values are the array of a foreach that is not run again       *)
(***************************************************************************)
EXTENDS Transactions, Subsequences

CONSTANTS
    Flows,      \* the flows that are run
    MaxArray    \* bound: elements of an array that a foreach unrolls

\* What FlowGraph::from_cfg leaves of a flow.  One that is not invalid is acyclic:
\* toposort lists its nodes once, in the order of its edges.  An output of a node
\* with an instruction_info is known before or after the transaction.
ASSUME FlowsAssumption ==
    \A f \in Flows :
        /\ IsFiniteSet(f.nodes) /\ FakeNode \notin f.nodes
        /\ \A e \in f.edges : e.src \in f.nodes \cup {FakeNode} /\ e.dst \in f.nodes
        /\ f.order \in Seq(f.nodes)
        /\ f.invalid \in BOOLEAN /\ f.kind \in [f.nodes -> {"plain", "foreach", "collect"}]
        /\ ~f.invalid =>
              /\ f.topo \in Seq(f.nodes) /\ Len(f.topo) = Cardinality(f.nodes)
              /\ \A n \in f.nodes : \E i \in 1 .. Len(f.topo) : f.topo[i] = n
              /\ \A e \in f.edges : \A i, j \in 1 .. Len(f.topo) :
                    f.topo[i] = e.src /\ f.topo[j] = e.dst => i < j
              /\ \A e \in f.edges : e.src \in f.info => e.from \in f.before[e.src] \cup f.after[e.src]
ASSUME MaxArrayAssumption == MaxArray \in Nat

VARIABLES
    flow,
    sorted,      \* the transactions of the flow, computed when the run starts
    \* FlowGraph
    nodes,       \* keys of self.nodes: the nodes that are not running
    queue,       \* Edge::values
    \* State
    ran,         \* how often each node was started (times + 1)
    running,     \* nodes whose JoinHandle is in `running'
    info,        \* keys of running_info
    tracker,     \* RunningNodeInfo::tracker
    waiting,     \* nodes with RunningNodeInfo::waiting
    outputs,     \* ports in result.node_outputs for the node's last run
    errors,      \* nodes with an entry in result.node_errors
    out,         \* out_tx/out_rx: the PartialOutputs in the channel
    stop, stop_shared,
    \* the loop
    pc, pos, started, outs, fins, txs, bundle, group,
    \* the spawned commands
    task

loopVars == <<pc, pos, started, outs, fins, txs, bundle, group>>
vars == <<flow, sorted, nodes, queue, ran, running, info, tracker, waiting, outputs, errors,
          out, stop, stop_shared, pc, pos, started, outs, fins, txs, bundle, group, task>>

----------------------------------------------------------------------------
(* Edge values.  A TrackEdgeValue is the set of <<foreach node, position>>  *)
(* it was unrolled from: {} is None, zip and nest are union, and the shape  *)
(* of the nesting, which nothing looks at, is left out.                     *)

is_array(t) == t # {}
Value(v, t) == [value |-> v, tracker |-> t]
HasFront(e) == queue[e] # <<>>
Front(e) == Head(queue[e])
HasValue(e) == HasFront(e) /\ Front(e).value # "none"

submit_is_false(n) ==
    \E e \in InEdges(flow, n) : e.to = "submit" /\ HasFront(e) /\ Front(e).value = "false"

\* finished(n): node n will not output again.  finished_recursive follows the
\* required inputs that have no value; on these acyclic graphs that is the
\* least set of nodes closed under its rules.
Blocked(n) == {e \in InEdges(flow, n) : e.req /\ ~HasValue(e)}
\* Seeded fault: elements that are still queued are not looked at.
Settled_IgnoresArrays(n) == n \in nodes /\ ran[n] > 0 /\ Blocked(n) = {}
Settled(n) ==
    /\ n \in nodes
    /\ ran[n] > 0
    /\ Blocked(n) = {}
    /\ \A e \in InEdges(flow, n) : ~(HasValue(e) /\ is_array(Front(e).tracker))
finished(n) ==
    LET F[k \in 0 .. Cardinality(flow.nodes)] ==
            IF k = 0
            THEN {m \in flow.nodes : Settled(m)}
            ELSE F[k - 1] \cup {m \in nodes : \E e \in Blocked(m) : e.src \in F[k - 1]}
    IN  n \in F[Cardinality(flow.nodes)]

CollectReady(n) ==
    \/ InEdges(flow, n) = {}
    \/ ran[n] = 0 /\ \A e \in InEdges(flow, n) : finished(e.src)

Filled(e) ==
    IF HasFront(e) THEN HasValue(e) \/ ~e.req ELSE ~e.req /\ finished(e.src)

\* Seeded fault: a node whose inputs are filled runs, whether it ran before or not.
ready_Again(n) ==
    IF flow.kind[n] = "collect" THEN CollectReady(n)
    ELSE \A e \in InEdges(flow, n) : Filled(e)

ready(n) ==
    /\ ~(n \in flow.info /\ submit_is_false(n))
    /\ IF flow.kind[n] = "collect"
       THEN CollectReady(n)
       ELSE /\ \A e \in InEdges(flow, n) : Filled(e)
            /\ ran[n] > 0 =>
                  \E e \in InEdges(flow, n) : HasFront(e) /\ is_array(Front(e).tracker)

\* take_inputs and, for collect, collect_array_input.
TakenTracker(n) ==
    IF flow.kind[n] = "collect" THEN {}
    ELSE UNION {Front(e).tracker : e \in {d \in InEdges(flow, n) : HasValue(d)}}
\* Seeded fault: only one of the inputs that come from an array is popped.
TakenQueue_PopsOne(n) ==
    LET arrays == {e \in InEdges(flow, n) : HasValue(e) /\ is_array(Front(e).tracker)}
    IN  [e \in flow.edges |->
            IF e.dst = n /\ flow.kind[n] = "collect" THEN <<>>
            ELSE IF arrays # {} /\ e = CHOOSE d \in arrays : TRUE THEN Tail(queue[e])
            ELSE queue[e]]
TakenQueue(n) ==
    [e \in flow.edges |->
        IF e.dst # n THEN queue[e]
        ELSE IF flow.kind[n] = "collect" THEN <<>>
        ELSE IF HasValue(e) /\ is_array(Front(e).tracker) THEN Tail(queue[e])
        ELSE queue[e]]
----------------------------------------------------------------------------
(* What is left alone by whole groups of actions. *)

graphVars == <<nodes, queue, ran, tracker, outputs, errors>>
stateVars == <<running, info, waiting, out>>
waitVars == <<outs, fins>>
execVars == <<txs, bundle, group>>
scanVars == <<pos, started>>
stopVars == <<stop, stop_shared>>

\* supply_partial_run_values: what the runs before left for an edge of the
\* fake node, nothing, one value or the elements of an array.
Supplied ==
    {<<>>, <<Value("some", {})>>}
    \cup {[i \in 1 .. k |-> Value("some", {<<FakeNode, i>>})] : k \in 1 .. MaxArray}

Init ==
    /\ flow \in Flows
    /\ sorted = sort_transactions(flow)
    /\ nodes = flow.nodes
    /\ \E s \in [FakeEdges(flow) -> Supplied] :
          /\ \A e \in flow.unroll : \A i \in 1 .. Len(s[e]) : is_array(s[e][i].tracker)
          /\ queue = [e \in flow.edges |-> IF e \in FakeEdges(flow) THEN s[e] ELSE <<>>]
    /\ ran = [n \in flow.nodes |-> 0]
    /\ running = {} /\ info = {} /\ waiting = {} /\ errors = {}
    /\ tracker = [n \in flow.nodes |-> {}]
    /\ outputs = [n \in flow.nodes |-> {}]
    /\ out = <<>>
    /\ stop = flow.invalid /\ stop_shared = FALSE
    /\ pc = "top" /\ pos = 1 /\ started = FALSE
    /\ outs = <<>> /\ fins = {}
    /\ txs = <<>> /\ bundle = <<>> /\ group = <<>>
    /\ task = [n \in flow.nodes |-> "none"]

----------------------------------------------------------------------------
(* One round of the loop: start what is ready, in the order of the graph.   *)

RoundTop ==
    /\ pc = "top"
    /\ pc' = IF stop THEN "end" ELSE "scan"
    /\ pos' = 1 /\ started' = FALSE
    /\ UNCHANGED <<flow, sorted, graphVars, stateVars, stopVars, waitVars, execVars, task>>

start_node(n) ==
    /\ nodes' = nodes \ {n}
    /\ ran' = [ran EXCEPT ![n] = @ + 1]
    /\ queue' = TakenQueue(n)
    /\ tracker' = [tracker EXCEPT ![n] = TakenTracker(n)]
    /\ outputs' = [outputs EXCEPT ![n] = {}]
    /\ info' = info \cup {n}
    /\ running' = running \cup {n}
    /\ task' = [task EXCEPT ![n] = "spawned"]

StartNode ==
    /\ pc = "scan" /\ pos <= Len(flow.order)
    /\ LET n == flow.order[pos] IN n \in nodes /\ ready(n) /\ start_node(n)
    /\ pos' = pos + 1 /\ started' = TRUE
    /\ UNCHANGED <<flow, sorted, errors, waiting, out, stopVars, pc, waitVars, execVars>>

SkipNode ==
    /\ pc = "scan" /\ pos <= Len(flow.order)
    /\ LET n == flow.order[pos] IN ~(n \in nodes /\ ready(n))
    /\ pos' = pos + 1
    /\ UNCHANGED <<flow, sorted, graphVars, stateVars, stopVars, started, pc, waitVars, execVars, task>>

\* Seeded fault: the loop waits although every running node waits for it.
ScanEnd_NeverCollects ==
    /\ pc = "scan" /\ pos > Len(flow.order)
    /\ pc' = IF running = {} THEN "end" ELSE "wait"
    /\ UNCHANGED <<flow, sorted, graphVars, stateVars, stopVars, scanVars, waitVars, execVars, task>>

ScanEnd ==
    /\ pc = "scan" /\ pos > Len(flow.order)
    /\ pc' = IF running = {} THEN "end"
             ELSE IF ~started /\ info \subseteq waiting THEN "collect"
             ELSE "wait"
    /\ UNCHANGED <<flow, sorted, graphVars, stateVars, stopVars, scanVars, waitVars, execVars, task>>

----------------------------------------------------------------------------
(* State::wait: the partial outputs in the channel, at most as many as there *)
(* are running nodes, and the join handles that are ready.  The loop and the *)
(* commands share the server's current-thread runtime, so both are polled in *)
(* one step; it is taken when either has something.                          *)

Done(n) == task[n] \in {"ok", "err", "panicked"}
ReadyHandles == {n \in running : Done(n)}
ChunkSize == IF Len(out) < Cardinality(running) THEN Len(out) ELSE Cardinality(running)

wait ==
    /\ pc = "wait"
    /\ out # <<>> \/ ReadyHandles # {}
    /\ outs' = SubSeq(out, 1, ChunkSize)
    /\ out' = SubSeq(out, ChunkSize + 1, Len(out))
    /\ fins' = ReadyHandles
    /\ running' = running \ ReadyHandles
    /\ pc' = "save"
    /\ UNCHANGED <<flow, sorted, graphVars, info, waiting, stopVars, scanVars, execVars, task>>

----------------------------------------------------------------------------
(* save_outputs and node_finished.  What a command outputs is chosen when   *)
(* the loop reads it: the set of ports, the length of an array, the value   *)
(* of a submit flag.  Values passed through from the inputs are among them. *)

Pushed(n, e, k, flag) ==
    IF flow.kind[n] = "foreach"
    THEN [i \in 1 .. k |-> Value("some", tracker[n] \cup {<<n, i>>})]
    ELSE <<Value(IF e.to = "submit" THEN flag ELSE "some", tracker[n])>>

\* Every out edge of an output port gets the value, and after the node's last
\* output the optional ports it never output get a missing value.
SaveValues(n, ps, k, flag, missing) ==
    /\ queue' = [e \in flow.edges |->
                    IF e.src = n /\ e.from \in ps THEN queue[e] \o Pushed(n, e, k, flag)
                    ELSE IF e.src = n /\ e.opt /\ e.from \in missing
                    THEN Append(queue[e], Value("none", tracker[n]))
                    ELSE queue[e]]
    /\ outputs' = [outputs EXCEPT ![n] = @ \cup ps]

\* A foreach or a collect that returns Ok outputs its one port.
LastOutputs(n) ==
    IF flow.kind[n] = "plain" THEN SUBSET (flow.ports[n] \ outputs[n]) ELSE {flow.ports[n]}
Lengths(n) == IF flow.kind[n] = "foreach" THEN 0 .. MaxArray ELSE {1}
Flags(n) == IF \E e \in OutEdges(flow, n) : e.to = "submit" THEN {"some", "false"} ELSE {"some"}

\* The answer of the loop to the nodes in ns.  A command that gave up waiting
\* does not hear it; without bundling the command has executed its
\* instructions before ("posted") and goes on whatever the answer is.
Tell(ns, reply) ==
    task' = [n \in flow.nodes |->
                IF n \in ns /\ task[n] = "sent" THEN reply
                ELSE IF n \in ns /\ task[n] = "posted" THEN "acked"
                ELSE task[n]]

\* A PartialOutput carries the outputs that come before the transaction.  The
\* node then waits for it, or is refused when it has no instruction_info.
SaveOutputs ==
    /\ pc = "save" /\ outs # <<>>
    /\ LET n == Head(outs).node IN
       /\ \E ps \in SUBSET (flow.ports[n] \cap flow.before[n]), k \in Lengths(n), flag \in Flags(n) :
             SaveValues(n, ps, k, flag, {})
       /\ IF n \in flow.info
          THEN /\ waiting' = waiting \cup {n}
               /\ UNCHANGED <<errors, task>>
          ELSE /\ errors' = errors \cup {n}
               /\ Tell({n}, "denied")
               /\ UNCHANGED waiting
    /\ outs' = Tail(outs)
    /\ UNCHANGED <<flow, sorted, nodes, ran, running, info, tracker, out, stopVars, pc, scanVars, fins, execVars>>

FinishNode(n) ==
    /\ fins' = fins \ {n}
    /\ info' = info \ {n}
    /\ waiting' = waiting \ {n}
    /\ nodes' = nodes \cup {n}
    /\ task' = [task EXCEPT ![n] = "none"]
    /\ UNCHANGED <<flow, sorted, ran, running, tracker, out, stopVars, pc, scanVars, outs, execVars>>

\* node_finished with Ok: the remaining outputs are saved; an output that is
\* neither there nor optional is an error of the node.
NodeFinishedOk(n) ==
    /\ pc = "save" /\ outs = <<>> /\ n \in fins
    /\ task[n] = "ok"
    /\ \E ps \in LastOutputs(n), k \in Lengths(n), flag \in Flags(n) :
          /\ SaveValues(n, ps, k, flag, flow.ports[n] \ (outputs[n] \cup ps))
          /\ errors' = IF flow.must[n] \subseteq outputs[n] \cup ps THEN errors ELSE errors \cup {n}
    /\ FinishNode(n)

\* Seeded fault: results are processed before the partial outputs.
NodeFinishedErr_First(n) ==
    /\ pc = "save" /\ n \in fins
    /\ task[n] = "err"
    /\ SaveValues(n, {}, 1, "some", flow.ports[n] \ outputs[n])
    /\ errors' = errors \cup {n}
    /\ FinishNode(n)

\* node_finished with Err: the node failed, its optional outputs are missing.
NodeFinishedErr(n) ==
    /\ pc = "save" /\ outs = <<>> /\ n \in fins
    /\ task[n] = "err"
    /\ SaveValues(n, {}, 1, "some", flow.ports[n] \ outputs[n])
    /\ errors' = errors \cup {n}
    /\ FinishNode(n)

\* A JoinError ends the loop at once; the other results are dropped.
NodePanicked(n) ==
    /\ pc = "save" /\ outs = <<>> /\ n \in fins
    /\ task[n] = "panicked"
    /\ pc' = "end"
    /\ fins' = {}
    /\ UNCHANGED <<flow, sorted, graphVars, stateVars, stopVars, scanVars, outs, execVars, task>>

RoundEnd ==
    /\ pc = "save" /\ outs = <<>> /\ fins = {}
    /\ pc' = "top"
    /\ UNCHANGED <<flow, sorted, graphVars, stateVars, stopVars, scanVars, waitVars, execVars, task>>

----------------------------------------------------------------------------
(* collect_and_execute_instructions: every running node waits. *)

CollectInstructions ==
    /\ pc = "collect"
    /\ txs' = sorted
    /\ bundle' = <<>>
    /\ pc' = "exec"
    /\ UNCHANGED <<flow, sorted, graphVars, stateVars, stopVars, scanVars, waitVars, group, task>>

Members(tx) == {tx[i] : i \in 1 .. Len(tx)}

Answer(ns, reply) ==
    /\ Tell(ns, reply)
    /\ waiting' = waiting \ ns

\* Seeded fault: one node with instructions is enough.
is_complete_Any(tx) == \E n \in Members(tx) : n \in waiting

is_complete(tx) ==
    \A n \in Members(tx) : IF n \in nodes THEN submit_is_false(n) ELSE n \in waiting

\* Some nodes did not output their instructions: the others get TxIncomplete.
TxIncomplete ==
    /\ pc = "exec" /\ bundle = <<>> /\ txs # <<>>
    /\ ~is_complete(Head(txs))
    /\ Answer(Members(Head(txs)), "denied")
    /\ txs' = Tail(txs)
    /\ UNCHANGED <<flow, sorted, graphVars, running, info, out, stopVars, pc, scanVars, waitVars, bundle, group>>

TxComplete ==
    /\ pc = "exec" /\ bundle = <<>> /\ txs # <<>>
    /\ is_complete(Head(txs))
    /\ bundle' = Keep(Head(txs), waiting)
    /\ txs' = Tail(txs)
    /\ UNCHANGED <<flow, sorted, graphVars, stateVars, stopVars, pc, scanVars, waitVars, group, task>>

\* Instructions::combine joins the next nodes' instructions for as long as the
\* fee payer stays the same.
Joined(k) == \A i \in 1 .. k : flow.payer[bundle[i]] = flow.payer[bundle[1]]
GroupSize == CHOOSE k \in 1 .. Len(bundle) :
                Joined(k) /\ (k < Len(bundle) => ~Joined(k + 1))
NextGroup ==
    /\ pc = "exec" /\ bundle # <<>> /\ ~flow.interflow
    /\ group' = SubSeq(bundle, 1, GroupSize)
    /\ bundle' = SubSeq(bundle, GroupSize + 1, Len(bundle))
    /\ pc' = "execute"
    /\ UNCHANGED <<flow, sorted, graphVars, stateVars, stopVars, scanVars, waitVars, txs, task>>

\* An interflow-instructions run hands its first group to the caller and stops;
\* every node that waits is answered or finds its sender dropped.
OutputInstructions ==
    /\ pc = "exec" /\ bundle # <<>> /\ flow.interflow
    /\ Answer(info, "denied")
    /\ stop' = TRUE
    /\ txs' = <<>> /\ bundle' = <<>>
    /\ pc' = "top"
    /\ UNCHANGED <<flow, sorted, graphVars, running, info, out, stop_shared, scanVars, waitVars, group>>

Stopping == stop \/ stop_shared

\* The transaction is sent unless the flow is being stopped already, and the
\* stop signals are raced against it.
ExecuteStart ==
    /\ pc = "execute" /\ ~Stopping
    /\ pc' = "executing"
    /\ UNCHANGED <<flow, sorted, graphVars, stateVars, stopVars, scanVars, waitVars, execVars, task>>

ExecuteOk ==
    /\ pc = "executing"
    /\ Answer(Members(group), "acked")
    /\ group' = <<>>
    /\ pc' = "exec"
    /\ UNCHANGED <<flow, sorted, graphVars, running, info, out, stopVars, scanVars, waitVars, txs, bundle>>

\* An error answers the group and what is left of the transaction.
ExecuteErr ==
    /\ pc = "executing" \/ (pc = "execute" /\ Stopping)
    /\ Answer(Members(group) \cup Members(bundle), "denied")
    /\ group' = <<>> /\ bundle' = <<>>
    /\ pc' = "exec"
    /\ UNCHANGED <<flow, sorted, graphVars, running, info, out, stopVars, scanVars, waitVars, txs>>

ExecuteEnd ==
    /\ pc = "exec" /\ bundle = <<>> /\ txs = <<>>
    /\ pc' = "wait"
    /\ UNCHANGED <<flow, sorted, graphVars, stateVars, stopVars, scanVars, waitVars, execVars, task>>

\* After the loop: not_run, the flow output and FlowFinish; State is dropped,
\* the channel and every sender in it with it, and the commands go on alone.
FlowFinish ==
    /\ pc = "end"
    /\ pc' = "done"
    /\ out' = <<>>
    /\ running' = {} /\ info' = {} /\ waiting' = {}
    /\ UNCHANGED <<flow, sorted, graphVars, stopVars, scanVars, waitVars, execVars, task>>

Loop ==
    \/ RoundTop \/ StartNode \/ SkipNode \/ ScanEnd
    \/ wait
    \/ SaveOutputs \/ RoundEnd
    \/ \E n \in flow.nodes : NodeFinishedOk(n) \/ NodeFinishedErr(n) \/ NodePanicked(n)
    \/ CollectInstructions \/ TxIncomplete \/ TxComplete \/ NextGroup \/ OutputInstructions
    \/ ExecuteStart \/ ExecuteOk \/ ExecuteErr \/ ExecuteEnd
    \/ FlowFinish

----------------------------------------------------------------------------
(* The spawned commands: run_command, and the execute service they get.     *)

TaskChange(n, s) ==
    /\ task' = [task EXCEPT ![n] = s]
    /\ UNCHANGED <<flow, sorted, graphVars, running, info, waiting, stopVars, loopVars>>

Send(n) == out' = Append(out, [node |-> n, times |-> ran[n]])

\* NodeStart is sent and the command starts to run.
TaskStart(n) ==
    /\ task[n] = "spawned"
    /\ TaskChange(n, "run")
    /\ UNCHANGED out

\* ExecuteWithBundling: the instructions go to the loop, which answers; once
\* the loop is gone the request fails.
ExecuteWithBundling(n) ==
    /\ task[n] = "run" /\ n \in flow.execs /\ flow.mode = "Automatic"
    /\ IF pc = "done"
       THEN TaskChange(n, "denied") /\ UNCHANGED out
       ELSE TaskChange(n, "sent") /\ Send(n)

\* ExecuteNoBundling: the command executes its own transaction first, unless
\* the people the flow is shared with stopped it, and posts its outputs after.
ExecuteNoBundling(n) ==
    /\ task[n] = "run" /\ n \in flow.execs /\ flow.mode = "Off"
    /\ TaskChange(n, IF stop_shared THEN "denied" ELSE "submitted")
    /\ UNCHANGED out

SubmittedOk(n) ==
    /\ task[n] = "submitted"
    /\ IF pc = "done"
       THEN TaskChange(n, "acked") /\ UNCHANGED out
       ELSE TaskChange(n, "posted") /\ Send(n)

SubmittedErr(n) ==
    /\ task[n] = "submitted"
    /\ TaskChange(n, "denied")
    /\ UNCHANGED out

\* stop_shared.race around ExecuteNoBundling.
SharedStopCancels(n) ==
    /\ task[n] \in {"submitted", "posted"} /\ stop_shared
    /\ TaskChange(n, "denied")
    /\ UNCHANGED out

\* The loop is gone: the sender of the answer was dropped.
AnswerDropped(n) ==
    /\ pc = "done" /\ task[n] \in {"sent", "posted"}
    /\ TaskChange(n, IF task[n] = "sent" THEN "denied" ELSE "acked")
    /\ UNCHANGED out

CommandOk(n) ==
    /\ task[n] \in {"run", "acked", "denied"}
    /\ TaskChange(n, "ok")
    /\ UNCHANGED out

CommandErr(n) ==
    /\ task[n] \in {"run", "acked", "denied"}
    /\ TaskChange(n, "err")
    /\ UNCHANGED out

CommandPanics(n) ==
    /\ task[n] \in {"run", "acked", "denied"} /\ n \in flow.panics
    /\ TaskChange(n, "panicked")
    /\ UNCHANGED out

\* Seeded fault: the stop signal only reaches commands that wait for an answer.
StopCancels_Waiting(n) ==
    /\ stop
    /\ task[n] \in {"sent", "posted"}
    /\ TaskChange(n, "err")
    /\ UNCHANGED out

\* stop.race around the command: at once, or when the time it is given is over.
StopCancels(n) ==
    /\ stop
    /\ task[n] \in {"run", "sent", "submitted", "posted", "acked", "denied"}
    /\ TaskChange(n, "err")
    /\ UNCHANGED out

Command(n) ==
    \/ TaskStart(n)
    \/ ExecuteWithBundling(n)
    \/ ExecuteNoBundling(n) \/ SubmittedOk(n) \/ SubmittedErr(n) \/ SharedStopCancels(n)
    \/ AnswerDropped(n)
    \/ CommandOk(n) \/ CommandErr(n) \/ CommandPanics(n)
    \/ StopCancels(n)

\* StopSignal::stop, by the owner of the flow or by those it is shared with;
\* only the first call counts.  The time it grants running commands only
\* delays StopCancels.
Stop ==
    /\ pc # "done" /\ ~stop /\ stop' = TRUE
    /\ UNCHANGED <<flow, sorted, graphVars, stateVars, stop_shared, loopVars, task>>

StopShared ==
    /\ pc # "done" /\ flow.shared /\ ~stop_shared /\ stop_shared' = TRUE
    /\ UNCHANGED <<flow, sorted, graphVars, stateVars, stop, loopVars, task>>

\* The run returned and every command came to its end.
Terminated ==
    /\ pc = "done"
    /\ \A n \in flow.nodes : task[n] = "none" \/ Done(n)
    /\ UNCHANGED vars

Next ==
    \/ Loop
    \/ \E n \in flow.nodes : Command(n)
    \/ Stop \/ StopShared
    \/ Terminated

\* The runtime polls the loop and the spawned tasks.  That a command comes to
\* an end, be it with an error, is an assumption about it, made only for the
\* nodes that are not in `hangs'; the race against the stop signal is ours.
Fairness ==
    /\ WF_vars(Loop)
    /\ \A n \in UNION {f.nodes : f \in Flows} :
          /\ WF_vars(n \in flow.nodes \ flow.hangs /\ Command(n))
          /\ WF_vars(n \in flow.nodes /\ (TaskStart(n) \/ StopCancels(n)))

Spec == Init /\ [][Next]_vars
FairSpec == Spec /\ Fairness

----------------------------------------------------------------------------
(* Properties *)

Trackers == SUBSET ((flow.nodes \cup {FakeNode}) \X Nat)
EdgeValues == [value : {"none", "some", "false"}, tracker : Trackers]
Messages == [node : flow.nodes, times : Nat]
TaskStates == {"none", "spawned", "run", "sent", "submitted", "posted", "acked", "denied",
               "ok", "err", "panicked"}
LoopStates == {"top", "scan", "wait", "save",
               "collect", "exec", "execute", "executing", "end", "done"}

TypeOK ==
    /\ flow \in Flows
    /\ nodes \subseteq flow.nodes
    /\ queue \in [flow.edges -> Seq(EdgeValues)]
    /\ ran \in [flow.nodes -> Nat]
    /\ running \subseteq flow.nodes /\ info \subseteq flow.nodes
    /\ waiting \subseteq flow.nodes /\ errors \subseteq flow.nodes
    /\ tracker \in [flow.nodes -> Trackers]
    /\ DOMAIN outputs = flow.nodes /\ \A n \in flow.nodes : outputs[n] \subseteq flow.ports[n]
    /\ out \in Seq(Messages) /\ outs \in Seq(Messages)
    /\ stop \in BOOLEAN /\ stop_shared \in BOOLEAN
    /\ pc \in LoopStates /\ pos \in 1 .. Len(flow.order) + 1 /\ started \in BOOLEAN
    /\ fins \subseteq flow.nodes
    /\ bundle \in Seq(flow.nodes) /\ group \in Seq(flow.nodes)
    /\ task \in [flow.nodes -> TaskStates]

\* The bookkeeping of the loop never contradicts itself, whatever the commands
\* and the stop signals do: each expect() and unreachable!() of save_outputs,
\* wait and collect_and_execute_instructions holds when it is reached.
LoopNeverPanics ==
    /\ TypeOK
    /\ pc = "save" /\ outs # <<>> =>
          Head(outs).node \in info /\ Head(outs).times = ran[Head(outs).node]
    /\ pc = "wait" => running # {}
    /\ fins \subseteq info
    /\ pc = "collect" =>
          /\ info \subseteq waiting
          /\ \A n \in info : \E i \in DOMAIN sorted :
                n \in Members(sorted[i])

\* The loop never waits for commands that all wait for the loop: one of the
\* running nodes still has something to send or to return.
NoStuckWait ==
    pc = "wait" =>
        \E n \in running \ waiting :
            task[n] \in {"sent", "posted"} => \E i \in 1 .. Len(out) : out[i].node = n

\* A transaction is sent only when every node in it handed over its
\* instructions, or is kept out of it by a false `submit' input; this still
\* holds when it is sent in several parts because the fee payers differ.
BundleIsWhole ==
    pc = "executing" =>
        \A i \in DOMAIN sorted :
            LET tx == Members(sorted[i])
            IN  Members(group) \cap tx # {} =>
                    \A n \in tx : n \in info \/ submit_is_false(n)

\* The elements a node gets together from one foreach are the same element of
\* its array, as long as no node of the flow failed.
ElementsAligned ==
    errors = {} =>
        \A n \in info : \A a, b \in tracker[n] : a[1] = b[1] => a[2] = b[2]

\* Once a collect node has run nothing more arrives for it: it collected all.
CollectIsComplete ==
    \A e \in flow.edges :
        flow.kind[e.dst] = "collect" /\ ran[e.dst] > 0 => queue[e] = <<>>

\* A node that runs again uses up an element of an array: "must have at least 1
\* input from an array".
RerunsUseElements ==
    [][\A n \in flow.nodes : ran[n] > 0 /\ ran'[n] > ran[n] =>
          \E e \in InEdges(flow, n) : Len(queue'[e]) < Len(queue[e])]_vars

\* Every run ends when its commands do; a run with a command that hangs ends
\* when it is stopped.
Terminates == (flow.hangs = {} \/ stop) ~> pc = "done"

----------------------------------------------------------------------------
(* The inductive invariant *)

Ended == {"end", "done"}
Executing == {"exec", "execute", "executing"}
\* What a command does before it has sent its instructions.
Early == {"none", "spawned", "run", "submitted"}

InTx(n, ts) == \E i \in 1 .. Len(ts) : n \in Members(ts[i])

\* The transactions of the flow: an instruction node is in one of them.
SortedInv ==
    ~flow.invalid =>
        /\ sorted \in Seq(Seq(flow.nodes))
        /\ \A n \in flow.info \cap flow.nodes : InTx(n, sorted)
        /\ \A i, j \in 1 .. Len(sorted) : \A n \in Members(sorted[i]) \cap Members(sorted[j]) : i = j

\* An invalid flow does not run.
InvalidInv == flow.invalid => stop /\ pc \in {"top"} \cup Ended

\* A node is idle, running or finished; the loop does not wait for itself.
NodesInv ==
    /\ pc # "save" => fins = {} /\ outs = <<>>
    /\ pc \notin Ended =>
          /\ info = running \cup fins
          /\ running \cap fins = {}
          /\ nodes = flow.nodes \ info
    /\ waiting \subseteq info \cap flow.info
    /\ (pc = "scan" /\ started) \/ pc = "wait" => \E n \in running : n \notin waiting
    /\ pc = "collect" => info \subseteq waiting
    /\ pc \in {"collect"} \cup Executing => running # {}

\* An idle node has no command, a finished one has returned.
TaskInv ==
    /\ \A n \in nodes : task[n] = "none"
    /\ \A n \in fins : Done(n)

\* There is one message at most of a node that runs, sent in this run of it, and a
\* command that waits for an answer sent it or is known to wait.
Sent(n, ms) == \E i \in 1 .. Len(ms) : ms[i].node = n
ChannelInv ==
    pc \notin Ended =>
        /\ \A i \in 1 .. Len(out) :
              /\ out[i].node \in running
              /\ out[i].times = ran[out[i].node]
              /\ task[out[i].node] \notin Early
        /\ \A i, j \in 1 .. Len(out) : out[i].node = out[j].node => i = j
        /\ \A i \in 1 .. Len(outs) : outs[i].node \in info /\ outs[i].times = ran[outs[i].node]
        /\ \A n \in running : task[n] \in {"sent", "posted"} =>
              n \in waiting \/ Sent(n, out) \/ Sent(n, outs)

\* While transactions are executed, the nodes that wait are in those that are left.
ExecInv ==
    /\ pc \notin {"execute", "executing"} => group = <<>>
    /\ pc \in Executing =>
          /\ txs \in Seq(Seq(flow.nodes))
          /\ \A i \in 1 .. Len(txs) : \E j \in 1 .. Len(sorted) : txs[i] = sorted[j]
          /\ \A n \in waiting : n \in Members(bundle) \/ n \in Members(group) \/ InTx(n, txs)
          /\ \A i \in 1 .. Len(sorted) :
                (\E n \in Members(sorted[i]) : n \in Members(bundle) \/ n \in Members(group)) =>
                    \A n \in Members(sorted[i]) : n \in info \/ submit_is_false(n)

Inv == TypeOK /\ SortedInv /\ InvalidInv /\ NodesInv /\ TaskInv /\ ChannelInv /\ ExecInv
----------------------------------------------------------------------------
(* The loops of a flow *)

\* A node that a foreach or the fake node feeds runs for each element, and so does
\* what it feeds, up to the next collect.  InLoop(f) is the least such set.
Repeats(f, L, n) == n = FakeNode \/ n \in L \/ f.kind[n] = "foreach"
Loops(f, L) ==
    \A e \in f.edges : Repeats(f, L, e.src) /\ f.kind[e.dst] # "collect" => e.dst \in L
InLoop(f) == {n \in f.nodes : \A L \in SUBSET f.nodes : Loops(f, L) => n \in L}

\* A collect node gets its elements from somewhere, and runs without them, too.
CollectsFed(f) ==
    /\ \A n \in f.nodes : f.kind[n] = "collect" => InEdges(f, n) # {}
    /\ \A e \in f.edges : f.kind[e.dst] = "collect" => ~e.req

\* What a node outputs only for some elements of a loop is required where it goes.
SkipsAreRequired(f) ==
    /\ CollectsFed(f)
    /\ \A e \in f.edges : e.src \in InLoop(f) /\ e.opt /\ f.kind[e.dst] # "collect" => e.req

\* All that a loop gives to a node is required.
LoopsAreRequired(f) ==
    /\ CollectsFed(f)
    /\ \A e \in f.edges :
          e.src # FakeNode /\ Repeats(f, InLoop(f), e.src) /\ f.kind[e.dst] # "collect" => e.req

\* Elements of arrays are where loops are, and a missing one is required.
LoopInv ==
    /\ \A n \in flow.nodes : is_array(tracker[n]) => n \in InLoop(flow)
    /\ \A e \in flow.edges : \A i \in 1 .. Len(queue[e]) :
          is_array(queue[e][i].tracker) =>
             /\ Repeats(flow, InLoop(flow), e.src)
             /\ queue[e][i].value = "none" => e.src \in InLoop(flow) /\ e.opt

\* Nodes that do not run again: each has all it needs and is done with it, or misses
\* what another of them will not give.
Quiet(D) ==
    \A m \in D : m \in nodes /\ (Settled(m) \/ \E e \in Blocked(m) : e.src \in D)

\* What feeds a collect node that ran has come to rest.
CollectInv ==
    \A e \in flow.edges :
        flow.kind[e.dst] = "collect" /\ ran[e.dst] > 0 =>
            /\ queue[e] = <<>>
            /\ \E D \in SUBSET flow.nodes : e.src \in D /\ Quiet(D)
----------------------------------------------------------------------------
(* The elements of loops *)

\* Loops that are not nested.  Only what a node must output is not optional.
OneLevel(f) ==
    /\ LoopsAreRequired(f)
    /\ \A n \in f.nodes : f.kind[n] = "foreach" => n \notin InLoop(f) \cup f.info
    /\ \A e \in f.edges :
          e.src # FakeNode => e.from \in f.ports[e.src] /\ (e.opt \/ e.from \in f.must[e.src])

\* A node whose instructions are under way has output nothing yet in this run.
OutputsInv ==
    pc \notin Ended =>
        /\ \A i \in 1 .. Len(outs) : outputs[outs[i].node] = {}
        /\ \A i, j \in 1 .. Len(outs) : outs[i].node = outs[j].node => i = j
        /\ \A i \in 1 .. Len(out) : outputs[out[i].node] = {} /\ ~Sent(out[i].node, outs)
        /\ \A n \in info : task[n] \in Early => outputs[n] = {} /\ ~Sent(n, outs)

\* The run of a node and what it has not output yet.
Pending(e) == e.src \notin nodes /\ e.from \notin outputs[e.src]

\* The nodes: what a node works on is as many elements along as it has runs.
NodeInv ==
    \A n \in flow.nodes :
        /\ \A a \in tracker[n] : a[2] = ran[n]
        /\ flow.kind[n] = "collect" => tracker[n] = {}
        /\ n \notin nodes => ran[n] > 0 /\ (flow.kind[n] = "foreach" => outputs[n] = {})

\* The values of an edge are elements of arrays, or none is.
UniformInv ==
    \A e \in flow.edges : \A i, j \in 1 .. Len(queue[e]) :
        /\ is_array(queue[e][i].tracker) => is_array(queue[e][j].tracker)
        /\ e.src # FakeNode =>
              (is_array(queue[e][i].tracker) <=> flow.kind[e.src] = "foreach" \/ is_array(tracker[e.src]))

\* A node that ran without elements gets none.
SingleInv ==
    \A e \in flow.edges :
        flow.kind[e.dst] # "collect" /\ ran[e.dst] > 0 /\ tracker[e.dst] = {} =>
            /\ \A i \in 1 .. Len(queue[e]) : ~is_array(queue[e][i].tracker)
            /\ e.req => queue[e] # <<>>

\* Each run of a node takes the element after the one before.
PlaceInv ==
    \A e \in flow.edges : flow.kind[e.dst] # "collect" =>
        \A i \in 1 .. Len(queue[e]) : \A a \in queue[e][i].tracker : a[2] = ran[e.dst] + i

\* What a node has output in a loop was taken or is on the edge; before it outputs
\* anything nothing is there.
CountInv ==
    \A e \in flow.edges : e.src # FakeNode =>
        /\ flow.kind[e.dst] # "collect" /\ flow.kind[e.src] # "foreach" /\ tracker[e.src] # {} =>
              ran[e.dst] + Len(queue[e]) + (IF Pending(e) THEN 1 ELSE 0) = ran[e.src]
        /\ ran[e.src] = 0 \/ (flow.kind[e.src] = "foreach" /\ Pending(e)) =>
              queue[e] = <<>> /\ (e.req => ran[e.dst] = 0)

AlignInv == errors = {} => NodeInv /\ UniformInv /\ SingleInv /\ PlaceInv /\ CountInv
=============================================================================
