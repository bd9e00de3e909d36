-------------------------- MODULE FlowGraphProofs --------------------------
(***************************************************************************)
(* What is proved of FlowGraph, for any flow that toposort accepts or that  *)
(* is refused, any number of nodes and any length of the arrays.            *)
(***************************************************************************)
EXTENDS FlowGraph, SequenceLemmas, FiniteSetTheorems, TLAPS

-----------------------------------------------------------------------------
(* Consequences of the invariant *)

\* The members of a sequence are its range.
LEMMA MembersRange ==
  ASSUME NEW S, NEW s \in Seq(S)
  PROVE  Members(s) = Range(s)
  BY DEF Members, Range

\* What is assumed of the flow that runs.
LEMMA FlowFacts ==
  ASSUME TypeOK
  PROVE  /\ IsFiniteSet(flow.nodes) /\ FakeNode \notin flow.nodes
         /\ \A e \in flow.edges : e.src \in flow.nodes \cup {FakeNode} /\ e.dst \in flow.nodes
         /\ flow.order \in Seq(flow.nodes)
         /\ flow.invalid \in BOOLEAN
  BY FlowsAssumption DEF TypeOK

\* The bookkeeping of the loop is sound.
LEMMA InvLoopNeverPanics == Inv => LoopNeverPanics
<1> SUFFICES ASSUME Inv PROVE LoopNeverPanics
  OBVIOUS
<1>1. ASSUME pc = "save", outs # <<>>
      PROVE  Head(outs).node \in info /\ Head(outs).times = ran[Head(outs).node]
  <2>1. Len(outs) \in Nat /\ Len(outs) > 0 /\ Head(outs) = outs[1]
    BY <1>1 DEF Inv, TypeOK
  <2>2. 1 \in 1 .. Len(outs)
    BY <2>1
  <2> QED
    BY <1>1, <2>1, <2>2 DEF Inv, ChannelInv, Ended
<1>2. pc = "wait" => running # {}
  BY DEF Inv, NodesInv
<1>3. fins \subseteq info
  BY DEF Inv, NodesInv, Ended
<1>4. ASSUME pc = "collect"
      PROVE  info \subseteq waiting /\ \A n \in info : \E i \in DOMAIN sorted : n \in Members(sorted[i])
  <2>1. ~flow.invalid
    BY <1>4 DEF Inv, InvalidInv, Ended
  <2>2. info \subseteq waiting /\ waiting \subseteq flow.info /\ info \subseteq flow.nodes
    BY <1>4 DEF Inv, NodesInv, TypeOK
  <2>3. sorted \in Seq(Seq(flow.nodes)) /\ \A n \in flow.info \cap flow.nodes : InTx(n, sorted)
    BY <2>1 DEF Inv, SortedInv
  <2>4. DOMAIN sorted = 1 .. Len(sorted)
    BY <2>3
  <2> QED
    BY <2>2, <2>3, <2>4 DEF InTx
<1> QED
  BY <1>1, <1>2, <1>3, <1>4 DEF LoopNeverPanics, Inv

\* A node that runs and is not known to wait has something to send or to return.
LEMMA InvNoStuckWait == Inv => NoStuckWait
<1> SUFFICES ASSUME Inv, pc = "wait"
             PROVE  \E n \in running \ waiting :
                      task[n] \in {"sent", "posted"} => \E i \in 1 .. Len(out) : out[i].node = n
  BY DEF NoStuckWait
<1>1. PICK n \in running : n \notin waiting
  BY DEF Inv, NodesInv
<1>2. outs = <<>>
  BY DEF Inv, NodesInv
<1>3. task[n] \in {"sent", "posted"} => n \in waiting \/ Sent(n, out) \/ Sent(n, outs)
  BY DEF Inv, ChannelInv, Ended
<1>4. ~ Sent(n, outs)
  BY <1>2 DEF Sent
<1> QED
  BY <1>1, <1>3, <1>4 DEF Sent

\* What is executed is part of a transaction that is whole.
LEMMA InvBundleIsWhole == Inv => BundleIsWhole
<1> SUFFICES ASSUME Inv, pc = "executing", NEW i \in DOMAIN sorted,
                    Members(group) \cap Members(sorted[i]) # {},
                    NEW n \in Members(sorted[i])
             PROVE  n \in info \/ submit_is_false(n)
  BY DEF BundleIsWhole
<1>1. sorted \in Seq(Seq(flow.nodes))
  BY DEF Inv, SortedInv, InvalidInv, Ended
<1>2. i \in 1 .. Len(sorted)
  BY <1>1
<1> QED
  BY <1>2 DEF Inv, ExecInv, Executing

-----------------------------------------------------------------------------
(* What a step leaves alone *)

\* The transactions are computed once.
LEMMA SortedFrame ==
  ASSUME SortedInv, UNCHANGED <<flow, sorted>>
  PROVE  SortedInv'
  BY DEF SortedInv, InTx, Members

\* An input of a node stays as it is while the values of the edges do.
LEMMA SubmitFrame ==
  ASSUME UNCHANGED <<flow, queue>>
  PROVE  \A n : submit_is_false(n)' <=> submit_is_false(n)
  BY DEF submit_is_false, HasFront, Front, InEdges

\* A step that does not concern the execution of transactions.
LEMMA ExecFrame ==
  ASSUME ExecInv, UNCHANGED <<flow, sorted, queue, info, waiting, pc, txs, bundle, group>>
  PROVE  ExecInv'
<1>1. \A n : submit_is_false(n)' <=> submit_is_false(n)
  BY SubmitFrame
<1>2. ASSUME pc \in Executing, NEW i \in 1 .. Len(sorted), NEW n \in Members(sorted[i]),
             \E m \in Members(sorted[i]) : m \in Members(bundle) \/ m \in Members(group)
      PROVE  n \in info \/ submit_is_false(n)'
  BY <1>1, <1>2 DEF ExecInv
<1>3. (pc \in Executing => \A i \in 1 .. Len(sorted) :
                (\E n \in Members(sorted[i]) : n \in Members(bundle) \/ n \in Members(group)) =>
                    \A n \in Members(sorted[i]) : n \in info \/ submit_is_false(n))'
  <2> SUFFICES ASSUME pc' \in Executing, NEW i \in 1 .. Len(sorted'), NEW n \in Members(sorted'[i]),
                      \E m \in Members(sorted'[i]) : m \in Members(bundle') \/ m \in Members(group')
               PROVE  n \in info' \/ submit_is_false(n)'
    BY DEF Members
  <2> QED
    BY <1>2
<1>4. (/\ pc \notin {"execute", "executing"} => group = <<>>
       /\ pc \in Executing =>
          /\ txs \in Seq(Seq(flow.nodes))
          /\ \A i \in 1 .. Len(txs) : \E j \in 1 .. Len(sorted) : txs[i] = sorted[j]
          /\ \A n \in waiting : n \in Members(bundle) \/ n \in Members(group) \/ InTx(n, txs))'
  BY DEF ExecInv, Members, InTx
<1> QED
  BY <1>3, <1>4 DEF ExecInv

\* Outside of collect_and_execute_instructions.
LEMMA ExecIdle ==
  ASSUME pc' \notin Executing, group' = <<>>
  PROVE  ExecInv'
  BY DEF ExecInv, Executing

\* A step that leaves the commands alone.
LEMMA TaskFrame ==
  ASSUME TaskInv, UNCHANGED <<nodes, fins, task>>
  PROVE  TaskInv'
  BY DEF TaskInv, Done

\* A step that leaves the channel, the commands and the nodes alone.
LEMMA ChannelFrame ==
  ASSUME ChannelInv, pc' \notin Ended => pc \notin Ended,
         UNCHANGED <<ran, running, info, waiting, out, outs, task>>
  PROVE  ChannelInv'
  BY DEF ChannelInv, Sent

\* The types of what is not the loop's position.
LEMMA TypeFrame ==
  ASSUME TypeOK, UNCHANGED <<flow, nodes, queue, ran, running, info, waiting, errors, tracker, outputs>>,
         UNCHANGED <<out, outs, fins, task>>,
         stop' \in BOOLEAN, stop_shared' \in BOOLEAN,
         pc' \in LoopStates, pos' \in 1 .. Len(flow.order) + 1, started' \in BOOLEAN,
         bundle' \in Seq(flow.nodes), group' \in Seq(flow.nodes)
  PROVE  TypeOK'
  BY DEF TypeOK, EdgeValues, Trackers, Messages

-----------------------------------------------------------------------------
(* The commands *)

\* What a step of a command does: it goes on from a state that is not its last, and
\* only one that has not sent its instructions may send them.
LEMMA CommandFacts ==
  ASSUME Inv, NEW n \in flow.nodes, Command(n)
  PROVE  \E s \in TaskStates \ {"none", "spawned"} :
           /\ TaskChange(n, s)
           /\ task[n] # "none" /\ ~Done(n)
           /\ task[n] \notin Early => s \notin Early
           /\ \/ out' = out /\ s \notin {"sent", "posted"}
              \/ /\ pc # "done" /\ task[n] \in {"run", "submitted"} /\ s \in {"sent", "posted"}
                 /\ Send(n)
<1> USE DEF TaskStates, Early, Done
<1>1. CASE TaskStart(n)
  BY <1>1 DEF TaskStart
<1>2. CASE ExecuteWithBundling(n)
  BY <1>2 DEF ExecuteWithBundling
<1>3. CASE ExecuteNoBundling(n)
  BY <1>3 DEF ExecuteNoBundling
<1>4. CASE SubmittedOk(n)
  BY <1>4 DEF SubmittedOk
<1>5. CASE SubmittedErr(n)
  BY <1>5 DEF SubmittedErr
<1>6. CASE SharedStopCancels(n)
  BY <1>6 DEF SharedStopCancels
<1>7. CASE AnswerDropped(n)
  BY <1>7 DEF AnswerDropped
<1>8. CASE CommandOk(n)
  BY <1>8 DEF CommandOk
<1>9. CASE CommandErr(n)
  BY <1>9 DEF CommandErr
<1>10. CASE CommandPanics(n)
  BY <1>10 DEF CommandPanics
<1>11. CASE StopCancels(n)
  BY <1>11 DEF StopCancels
<1> QED
  BY <1>1, <1>2, <1>3, <1>4, <1>5, <1>6, <1>7, <1>8, <1>9, <1>10, <1>11 DEF Command

\* A step of a command keeps the invariant: what it sends is the one message of a node
\* that runs.
LEMMA CommandInv ==
  ASSUME Inv, NEW n \in flow.nodes, Command(n)
  PROVE  Inv'
<1>1. PICK s \in TaskStates \ {"none", "spawned"} :
           /\ TaskChange(n, s)
           /\ task[n] # "none" /\ ~Done(n)
           /\ task[n] \notin Early => s \notin Early
           /\ \/ out' = out /\ s \notin {"sent", "posted"}
              \/ /\ pc # "done" /\ task[n] \in {"run", "submitted"} /\ s \in {"sent", "posted"}
                 /\ Send(n)
  BY CommandFacts
<1>2. /\ UNCHANGED <<flow, sorted, nodes, queue, ran, tracker, outputs, errors>>
      /\ UNCHANGED <<running, info, waiting, stop, stop_shared>>
      /\ UNCHANGED <<pc, pos, started, outs, fins, txs, bundle, group>>
  BY <1>1 DEF TaskChange, graphVars, stopVars, loopVars
<1>3. task \in [flow.nodes -> TaskStates] /\ task' = [task EXCEPT ![n] = s]
  BY <1>1 DEF TaskChange, Inv, TypeOK
<1>4. task' \in [flow.nodes -> TaskStates] /\ task'[n] = s /\ \A m \in flow.nodes : m # n => task'[m] = task[m]
  BY <1>3, <1>1
<1>5. n \notin nodes /\ n \notin fins
  BY <1>1 DEF Inv, TaskInv
<1>6. pc \notin Ended => n \in running
  BY <1>5 DEF Inv, NodesInv, TypeOK
<1>7. out' \in Seq(Messages)
  <2>1. CASE out' = out
    BY <2>1 DEF Inv, TypeOK
  <2>2. CASE Send(n)
    <3>1. [node |-> n, times |-> ran[n]] \in Messages
      BY DEF Inv, TypeOK, Messages
    <3> QED
      BY <2>2, <3>1, AppendFacts DEF Send, Inv, TypeOK
  <2> QED
    BY <1>1, <2>1, <2>2
<1>8. TypeOK'
  BY <1>2, <1>4, <1>7 DEF Inv, TypeOK, EdgeValues, Trackers, Messages
<1>9. SortedInv' /\ InvalidInv' /\ NodesInv' /\ ExecInv'
  <2>1. SortedInv' /\ ExecInv'
    BY <1>2, SortedFrame, ExecFrame DEF Inv
  <2>2. InvalidInv' /\ NodesInv'
    BY <1>2 DEF Inv, InvalidInv, NodesInv
  <2> QED
    BY <2>1, <2>2
<1>10. TaskInv'
  BY <1>2, <1>4, <1>5 DEF Inv, TaskInv, Done, TypeOK
<1>11. ChannelInv'
  <2> SUFFICES ASSUME pc \notin Ended PROVE ChannelInv'
    BY <1>2 DEF ChannelInv
  <2>a. /\ \A i \in 1 .. Len(out) :
             /\ out[i].node \in running /\ out[i].node \in flow.nodes
             /\ out[i].times = ran[out[i].node]
             /\ task[out[i].node] \notin Early
        /\ \A i, j \in 1 .. Len(out) : out[i].node = out[j].node => i = j
        /\ \A i \in 1 .. Len(outs) : outs[i].node \in info /\ outs[i].times = ran[outs[i].node]
        /\ \A m \in running : m \in flow.nodes /\ (task[m] \in {"sent", "posted"} =>
             m \in waiting \/ Sent(m, out) \/ Sent(m, outs))
    BY DEF Inv, ChannelInv, TypeOK
  <2>b. \A i \in 1 .. Len(out) : task'[out[i].node] \notin Early
    BY <2>a, <1>4, <1>1
  <2>1. CASE out' = out /\ s \notin {"sent", "posted"}
    <3>1. \A m \in running : task'[m] \in {"sent", "posted"} => m \in waiting \/ Sent(m, out) \/ Sent(m, outs)
      BY <2>a, <2>1, <1>4
    <3> QED
      BY <2>1, <2>a, <2>b, <3>1, <1>2 DEF ChannelInv, Sent
  <2>2. CASE task[n] \in {"run", "submitted"} /\ s \in {"sent", "posted"} /\ Send(n)
    <3> DEFINE e == [node |-> n, times |-> ran[n]]
    <3>1. /\ out \in Seq(Messages) /\ e \in Messages /\ out' = Append(out, e)
          /\ e.node = n /\ e.times = ran[n]
      BY <2>2 DEF Send, Inv, TypeOK, Messages
    <3> HIDE DEF e
    <3>2. /\ Len(out) \in Nat /\ Len(out') = Len(out) + 1
          /\ \A i \in 1 .. Len(out) : out'[i] = out[i]
          /\ out'[Len(out) + 1] = e
      BY <3>1, AppendFacts
    <3>3. \A i \in 1 .. Len(out') : i \in 1 .. Len(out) \/ i = Len(out) + 1
      BY <3>2
    <3>4. \A i \in 1 .. Len(out) : out[i].node # n
      BY <2>a, <2>2 DEF Early
    <3>5. s \notin Early
      BY <2>2 DEF Early
    <3>6. /\ \A i \in 1 .. Len(out') :
               /\ out'[i].node \in running
               /\ out'[i].times = ran[out'[i].node]
               /\ task'[out'[i].node] \notin Early
      BY <2>a, <2>b, <3>1, <3>2, <3>3, <3>5, <1>4, <1>6
    <3>7. \A i, j \in 1 .. Len(out') : out'[i].node = out'[j].node => i = j
      BY <2>a, <3>1, <3>2, <3>3, <3>4
    <3>8. Sent(n, out') /\ \A m : Sent(m, out) => Sent(m, out')
      BY <3>1, <3>2 DEF Sent
    <3>9. \A m \in running : task'[m] \in {"sent", "posted"} => m \in waiting \/ Sent(m, out') \/ Sent(m, outs)
      BY <2>a, <3>8, <1>4
    <3> QED
      BY <2>a, <3>6, <3>7, <3>9, <1>2 DEF ChannelInv, Sent
  <2> QED
    BY <1>1, <2>1, <2>2
<1> QED
  BY <1>8, <1>9, <1>10, <1>11 DEF Inv

-----------------------------------------------------------------------------
(* The round and the stop signals *)

\* The parts of the invariant for a step that only moves the loop.
LEMMA MoveInv ==
  ASSUME Inv, UNCHANGED <<flow, sorted, nodes, queue, ran, tracker, outputs, errors>>,
         UNCHANGED <<running, info, waiting, out, outs, fins, txs, bundle, task>>,
         group' = group, group = <<>>,
         stop' \in BOOLEAN, stop_shared' \in BOOLEAN, stop => stop',
         pc' \in LoopStates \ Executing, pos' \in 1 .. Len(flow.order) + 1, started' \in BOOLEAN,
         pc' \notin Ended => pc \notin Ended,
         InvalidInv', NodesInv'
  PROVE  Inv'
<1>1. TypeOK'
  BY TypeFrame DEF Inv, TypeOK
<1>2. SortedInv' /\ ExecInv'
  BY SortedFrame, ExecIdle DEF Inv
<1>3. TaskInv' /\ ChannelInv'
  BY TaskFrame, ChannelFrame DEF Inv
<1> QED
  BY <1>1, <1>2, <1>3 DEF Inv

\* The beginning of a round.
LEMMA RoundTopInv ==
  ASSUME Inv, RoundTop
  PROVE  Inv'
<1>1. /\ UNCHANGED <<flow, sorted, nodes, queue, ran, tracker, outputs, errors>>
      /\ UNCHANGED <<running, info, waiting, out, outs, fins, txs, bundle, group, task, stop, stop_shared>>
      /\ pc = "top" /\ pc' = IF stop THEN "end" ELSE "scan"
      /\ pos' = 1 /\ started' = FALSE
  BY DEF RoundTop, graphVars, stateVars, stopVars, waitVars, execVars
<1>2. pc' \in LoopStates \ Executing /\ group = <<>> /\ pc \notin Ended
  BY <1>1 DEF LoopStates, Executing, Inv, ExecInv, Ended
<1>3. 1 \in 1 .. Len(flow.order) + 1
  BY FlowFacts DEF Inv
<1>4. InvalidInv'
  BY <1>1 DEF Inv, InvalidInv, Ended
<1>5. NodesInv'
  BY <1>1, <1>2 DEF Inv, NodesInv, Ended, Executing
<1> QED
  BY <1>1, <1>2, <1>3, <1>4, <1>5, MoveInv DEF Inv, TypeOK

\* A node that is not ready.
LEMMA SkipNodeInv ==
  ASSUME Inv, SkipNode
  PROVE  Inv'
<1>1. /\ UNCHANGED <<flow, sorted, nodes, queue, ran, tracker, outputs, errors>>
      /\ UNCHANGED <<running, info, waiting, out, outs, fins, txs, bundle, group, task, stop, stop_shared>>
      /\ pc = "scan" /\ pc' = pc /\ pos <= Len(flow.order)
      /\ pos' = pos + 1 /\ started' = started
  BY DEF SkipNode, graphVars, stateVars, stopVars, waitVars, execVars
<1>2. pc' \in LoopStates \ Executing /\ group = <<>> /\ pc \notin Ended
  BY <1>1 DEF LoopStates, Executing, Inv, ExecInv, Ended
<1>3. pos' \in 1 .. Len(flow.order) + 1
  BY <1>1, FlowFacts DEF Inv, TypeOK
<1>4. InvalidInv'
  BY <1>1 DEF Inv, InvalidInv, Ended
<1>5. NodesInv'
  BY <1>1, <1>2 DEF Inv, NodesInv, Ended, Executing
<1> QED
  BY <1>1, <1>2, <1>3, <1>4, <1>5, MoveInv DEF Inv, TypeOK

\* All nodes were looked at: the loop waits for one that runs and does not wait for it.
LEMMA ScanEndInv ==
  ASSUME Inv, ScanEnd
  PROVE  Inv'
<1>1. /\ UNCHANGED <<flow, sorted, nodes, queue, ran, tracker, outputs, errors>>
      /\ UNCHANGED <<running, info, waiting, out, outs, fins, txs, bundle, group, task, stop, stop_shared>>
      /\ pc = "scan" /\ pos' = pos /\ started' = started
      /\ pc' = IF running = {} THEN "end"
               ELSE IF ~started /\ info \subseteq waiting THEN "collect"
               ELSE "wait"
  BY DEF ScanEnd, graphVars, stateVars, stopVars, waitVars, execVars, scanVars
<1>2. pc' \in LoopStates \ Executing /\ group = <<>> /\ pc \notin Ended
  BY <1>1 DEF LoopStates, Executing, Inv, ExecInv, Ended
<1>4. InvalidInv'
  BY <1>1 DEF Inv, InvalidInv, Ended
<1>5. NodesInv'
  <2>1. info = running
    BY <1>1 DEF Inv, NodesInv, Ended
  <2>2. pc' = "wait" => \E n \in running : n \notin waiting
    BY <1>1, <2>1 DEF Inv, NodesInv, TypeOK
  <2> QED
    BY <1>1, <1>2, <2>1, <2>2 DEF Inv, NodesInv, Ended, Executing
<1> QED
  BY <1>1, <1>2, <1>4, <1>5, MoveInv DEF Inv, TypeOK

\* The end of a round.
LEMMA RoundEndInv ==
  ASSUME Inv, RoundEnd
  PROVE  Inv'
<1>1. /\ UNCHANGED <<flow, sorted, nodes, queue, ran, tracker, outputs, errors>>
      /\ UNCHANGED <<running, info, waiting, out, outs, fins, txs, bundle, group, task, stop, stop_shared>>
      /\ pc = "save" /\ pc' = "top" /\ outs = <<>> /\ fins = {}
      /\ pos' = pos /\ started' = started
  BY DEF RoundEnd, graphVars, stateVars, stopVars, waitVars, execVars, scanVars
<1>2. pc' \in LoopStates \ Executing /\ group = <<>> /\ pc \notin Ended
  BY <1>1 DEF LoopStates, Executing, Inv, ExecInv, Ended
<1>4. InvalidInv'
  BY <1>1 DEF Inv, InvalidInv, Ended
<1>5. NodesInv'
  BY <1>1, <1>2 DEF Inv, NodesInv, Ended, Executing
<1> QED
  BY <1>1, <1>2, <1>4, <1>5, MoveInv DEF Inv, TypeOK

\* A stop signal changes nothing else.
LEMMA StopInv ==
  ASSUME Inv, Stop \/ StopShared
  PROVE  Inv'
<1>1. /\ UNCHANGED <<flow, sorted, nodes, queue, ran, tracker, outputs, errors>>
      /\ UNCHANGED <<running, info, waiting, out, outs, fins, txs, bundle, group, task>>
      /\ UNCHANGED <<pc, pos, started>>
      /\ stop' \in BOOLEAN /\ stop_shared' \in BOOLEAN /\ (stop => stop')
  BY DEF Stop, StopShared, graphVars, stateVars, loopVars, Inv, TypeOK
<1>2. TypeOK'
  BY <1>1, TypeFrame DEF Inv, TypeOK
<1>3. SortedInv' /\ ExecInv' /\ TaskInv' /\ ChannelInv'
  BY <1>1, SortedFrame, ExecFrame, TaskFrame, ChannelFrame DEF Inv
<1>4. InvalidInv' /\ NodesInv'
  BY <1>1 DEF Inv, InvalidInv, NodesInv
<1> QED
  BY <1>2, <1>3, <1>4 DEF Inv

-----------------------------------------------------------------------------
(* The start of a node *)

\* What the first value of an edge is.
LEMMA FrontFacts ==
  ASSUME TypeOK, NEW e \in flow.edges, HasFront(e)
  PROVE  Front(e) \in EdgeValues /\ Tail(queue[e]) \in Seq(EdgeValues)
  BY TailFacts DEF TypeOK, HasFront, Front

\* The inputs that a node takes leave values on its edges and give it a tracker.
LEMMA TakenTypes ==
  ASSUME TypeOK, NEW n \in flow.nodes
  PROVE  TakenQueue(n) \in [flow.edges -> Seq(EdgeValues)] /\ TakenTracker(n) \in Trackers
<1>1. TakenQueue(n) \in [flow.edges -> Seq(EdgeValues)]
  <2>1. \A e \in flow.edges : queue[e] \in Seq(EdgeValues)
    BY DEF TypeOK
  <2>2. \A e \in flow.edges : HasValue(e) => Tail(queue[e]) \in Seq(EdgeValues)
    BY FrontFacts DEF HasValue
  <2> QED
    BY <2>1, <2>2, EmptyFacts DEF TakenQueue
<1>2. TakenTracker(n) \in Trackers
  <2>1. \A e \in {d \in InEdges(flow, n) : HasValue(d)} : Front(e).tracker \in Trackers
    BY FrontFacts DEF HasValue, InEdges, EdgeValues
  <2> QED
    BY <2>1 DEF TakenTracker, Trackers
<1> QED
  BY <1>1, <1>2

\* A node that is started runs and does not wait.
LEMMA StartNodeInv ==
  ASSUME Inv, StartNode
  PROVE  Inv'
<1>a. pc = "scan" /\ pos \in 1 .. Len(flow.order) /\ flow.order \in Seq(flow.nodes)
  BY FlowFacts DEF StartNode, Inv, TypeOK
<1>1. PICK n \in flow.nodes : n = flow.order[pos]
  BY <1>a
<1>2. /\ n \in nodes /\ start_node(n)
      /\ UNCHANGED <<flow, sorted, errors, waiting, out, stop, stop_shared, pc>>
      /\ UNCHANGED <<outs, fins, txs, bundle, group>>
      /\ pos' = pos + 1 /\ started' = TRUE
  BY <1>1 DEF StartNode, stopVars, waitVars, execVars
<1>3. /\ nodes' = nodes \ {n} /\ info' = info \cup {n} /\ running' = running \cup {n}
      /\ ran' = [ran EXCEPT ![n] = @ + 1]
      /\ task' = [task EXCEPT ![n] = "spawned"]
      /\ queue' = TakenQueue(n)
      /\ tracker' = [tracker EXCEPT ![n] = TakenTracker(n)]
      /\ outputs' = [outputs EXCEPT ![n] = {}]
  BY <1>2 DEF start_node
<1>4. /\ nodes \subseteq flow.nodes /\ info \subseteq flow.nodes /\ running \subseteq flow.nodes
      /\ ran \in [flow.nodes -> Nat] /\ task \in [flow.nodes -> TaskStates]
      /\ tracker \in [flow.nodes -> Trackers]
      /\ DOMAIN outputs = flow.nodes /\ \A m \in flow.nodes : outputs[m] \subseteq flow.ports[m]
  BY DEF Inv, TypeOK
<1>5. /\ ran' \in [flow.nodes -> Nat] /\ \A m \in flow.nodes : m # n => ran'[m] = ran[m]
  BY <1>3, <1>4
<1>6. /\ task' \in [flow.nodes -> TaskStates] /\ task'[n] = "spawned"
      /\ \A m \in flow.nodes : m # n => task'[m] = task[m]
  BY <1>3, <1>4 DEF TaskStates
<1>7. DOMAIN outputs' = flow.nodes /\ \A m \in flow.nodes : outputs'[m] \subseteq flow.ports[m]
  BY <1>3, <1>4
<1>8. queue' \in [flow.edges -> Seq(EdgeValues)] /\ tracker' \in [flow.nodes -> Trackers]
  BY <1>3, <1>4, TakenTypes DEF Inv
<1>9. pos' \in 1 .. Len(flow.order) + 1
  BY <1>2, <1>a
<1>10. TypeOK'
  <2>1. /\ flow' \in Flows /\ nodes' \subseteq flow'.nodes
        /\ running' \subseteq flow'.nodes /\ info' \subseteq flow'.nodes
        /\ waiting' \subseteq flow'.nodes /\ errors' \subseteq flow'.nodes
        /\ stop' \in BOOLEAN /\ stop_shared' \in BOOLEAN
        /\ pc' \in LoopStates /\ fins' \subseteq flow'.nodes /\ started' \in BOOLEAN
        /\ bundle' \in Seq(flow'.nodes) /\ group' \in Seq(flow'.nodes)
    BY <1>2, <1>3, <1>4 DEF Inv, TypeOK
  <2>2. out' \in Seq(Messages) /\ outs' \in Seq(Messages)
    BY <1>2 DEF Inv, TypeOK
  <2> QED
    BY <1>2, <1>5, <1>6, <1>7, <1>8, <1>9, <2>1, <2>2 DEF TypeOK, EdgeValues, Trackers, Messages
<1>11. /\ info = running \cup fins /\ running \cap fins = {} /\ nodes = flow.nodes \ info
       /\ fins = {} /\ outs = <<>> /\ waiting \subseteq info \cap flow.info
       /\ n \notin running /\ n \notin waiting /\ group = <<>>
  BY <1>a, <1>2 DEF Inv, NodesInv, Ended, ExecInv
<1>12. NodesInv'
  BY <1>a, <1>2, <1>3, <1>11 DEF NodesInv, Executing
<1>13. SortedInv' /\ ExecInv' /\ InvalidInv'
  BY <1>a, <1>2, <1>11, SortedFrame, ExecIdle DEF Inv, InvalidInv, Executing, Ended
<1>14. TaskInv'
  BY <1>2, <1>3, <1>4, <1>6, <1>11 DEF Inv, TaskInv, Done
<1>15. ChannelInv'
  <2>a. /\ \A i \in 1 .. Len(out) :
             /\ out[i].node \in running
             /\ out[i].times = ran[out[i].node]
             /\ task[out[i].node] \notin Early
        /\ \A i, j \in 1 .. Len(out) : out[i].node = out[j].node => i = j
        /\ \A m \in running : task[m] \in {"sent", "posted"} =>
             m \in waiting \/ Sent(m, out) \/ Sent(m, outs)
    BY <1>a DEF Inv, ChannelInv, Ended
  <2>1. \A i \in 1 .. Len(out) :
             /\ out[i].node \in running'
             /\ out[i].times = ran'[out[i].node]
             /\ task'[out[i].node] \notin Early
    BY <2>a, <1>3, <1>4, <1>5, <1>6, <1>11
  <2>2. \A m \in running' : task'[m] \in {"sent", "posted"} =>
             m \in waiting \/ Sent(m, out) \/ Sent(m, outs)
    BY <2>a, <1>3, <1>4, <1>6
  <2>3. \A i \in 1 .. Len(outs) : FALSE
    BY <1>11
  <2> QED
    BY <2>a, <2>1, <2>2, <2>3, <1>2 DEF ChannelInv, Sent
<1> QED
  BY <1>10, <1>12, <1>13, <1>14, <1>15 DEF Inv

-----------------------------------------------------------------------------
(* The loop waits, and saves what it gets *)

\* Every message is of a node of its own: `wait' takes all of them.
LEMMA ChunkIsAll ==
  ASSUME Inv, pc = "wait"
  PROVE  ChunkSize = Len(out)
<1>1. out \in Seq(Messages) /\ Len(out) \in Nat /\ IsFiniteSet(running)
  <2>1. IsFiniteSet(flow.nodes) /\ running \in SUBSET flow.nodes
    BY FlowFacts DEF Inv, TypeOK
  <2> QED
    BY <2>1, FS_Subset DEF Inv, TypeOK
<1> DEFINE f == [i \in 1 .. Len(out) |-> out[i].node]
<1>2. /\ \A i \in 1 .. Len(out) : out[i].node \in running
      /\ \A i, j \in 1 .. Len(out) : out[i].node = out[j].node => i = j
  BY DEF Inv, ChannelInv, Ended
<1>3. f \in Injection(1 .. Len(out), running)
  BY <1>2 DEF Injection, IsInjective
<1>4. Cardinality(1 .. Len(out)) <= Cardinality(running)
  BY <1>1, <1>3, FS_Injection
<1>5. Cardinality(1 .. Len(out)) = Len(out) /\ Cardinality(running) \in Nat
  <2>1. 1 \in Int /\ Len(out) \in Int
    BY <1>1
  <2>2. Cardinality(1 .. Len(out)) = IF 1 > Len(out) THEN 0 ELSE Len(out) - 1 + 1
    BY ONLY <2>1, FS_Interval
  <2>3. Cardinality(running) \in Nat
    BY ONLY <1>1, FS_CardinalityType
  <2> QED
    BY <1>1, <2>2, <2>3
<1> QED
  BY <1>1, <1>4, <1>5 DEF ChunkSize

\* The messages and the results are taken; those of nodes that run on are known to be sent.
LEMMA WaitInv ==
  ASSUME Inv, wait
  PROVE  Inv'
<1>1. /\ UNCHANGED <<flow, sorted, nodes, queue, ran, tracker, outputs, errors>>
      /\ UNCHANGED <<info, waiting, stop, stop_shared, pos, started, txs, bundle, group, task>>
      /\ pc = "wait" /\ pc' = "save"
      /\ outs' = SubSeq(out, 1, ChunkSize) /\ out' = SubSeq(out, ChunkSize + 1, Len(out))
      /\ fins' = ReadyHandles /\ running' = running \ ReadyHandles
  BY DEF wait, graphVars, stopVars, scanVars, execVars
<1>2. out \in Seq(Messages) /\ Len(out) \in Nat /\ ChunkSize \in 0 .. Len(out) /\ ChunkSize = Len(out)
  BY <1>1, ChunkIsAll DEF Inv, TypeOK
<1>3. /\ outs' \in Seq(Messages) /\ Len(outs') = Len(out) /\ \A i \in 1 .. Len(out) : outs'[i] = out[i]
      /\ out' \in Seq(Messages) /\ Len(out') = 0
  BY <1>1, <1>2, SplitFacts
<1>4. ReadyHandles \subseteq running /\ \A n \in ReadyHandles : Done(n)
  BY DEF ReadyHandles
<1>5. /\ info = running /\ nodes = flow.nodes \ info /\ running \subseteq flow.nodes
      /\ waiting \subseteq info \cap flow.info /\ group = <<>>
  BY <1>1 DEF Inv, NodesInv, Ended, TypeOK, ExecInv
<1>6. TypeOK'
  <2>1. pc' \in LoopStates /\ running' \subseteq flow.nodes /\ fins' \subseteq flow.nodes
    BY <1>1, <1>4, <1>5 DEF LoopStates
  <2> QED
    BY <1>1, <1>3, <2>1 DEF Inv, TypeOK, EdgeValues, Trackers, Messages
<1>7. NodesInv'
  BY <1>1, <1>4, <1>5 DEF NodesInv, Executing
<1>8. SortedInv' /\ ExecInv' /\ InvalidInv'
  BY <1>1, <1>5, SortedFrame, ExecIdle DEF Inv, InvalidInv, Executing, Ended
<1>9. TaskInv'
  BY <1>1, <1>4 DEF Inv, TaskInv, Done
<1>10. ChannelInv'
  <2>a. /\ \A i \in 1 .. Len(out) : out[i].node \in running /\ out[i].times = ran[out[i].node]
        /\ \A m \in running : task[m] \in {"sent", "posted"} =>
             m \in waiting \/ Sent(m, out) \/ Sent(m, outs)
        /\ outs = <<>>
    BY <1>1 DEF Inv, ChannelInv, NodesInv, Ended
  <2>1. \A m : (Sent(m, out) => Sent(m, outs')) /\ ~Sent(m, outs)
    BY <2>a, <1>3 DEF Sent
  <2>2. \A m \in running' : task'[m] \in {"sent", "posted"} => m \in waiting' \/ Sent(m, outs')
    BY <2>a, <2>1, <1>1
  <2>3. \A i \in 1 .. Len(outs') : outs'[i].node \in info' /\ outs'[i].times = ran'[outs'[i].node]
    BY <2>a, <1>1, <1>3, <1>5
  <2>4. \A i \in 1 .. Len(out') : FALSE
    BY <1>3
  <2> QED
    BY <2>2, <2>3, <2>4 DEF ChannelInv, Sent
<1> QED
  BY <1>6, <1>7, <1>8, <1>9, <1>10 DEF Inv

\* Values are pushed on the edges of the ports that were output.
LEMMA SaveTypes ==
  ASSUME TypeOK, NEW n \in flow.nodes, NEW ps \in SUBSET flow.ports[n], NEW k \in Lengths(n),
         NEW flag \in {"some", "false"}, NEW missing, SaveValues(n, ps, k, flag, missing)
  PROVE  /\ queue' \in [flow.edges -> Seq(EdgeValues)]
         /\ DOMAIN outputs' = flow.nodes /\ \A m \in flow.nodes : outputs'[m] \subseteq flow.ports[m]
<1>1. DOMAIN outputs' = flow.nodes /\ \A m \in flow.nodes : outputs'[m] \subseteq flow.ports[m]
  BY DEF SaveValues, TypeOK
<1>2. k \in Nat
  BY MaxArrayAssumption DEF Lengths
<1>3. tracker[n] \in Trackers
  BY DEF TypeOK
<1>4. \A i \in 1 .. k : tracker[n] \cup {<<n, i>>} \in Trackers
  BY <1>2, <1>3 DEF Trackers
<1>5. \A v \in {"none", "some", "false"}, t \in Trackers : Value(v, t) \in EdgeValues
  BY DEF Value, EdgeValues
<1>6. \A e : Pushed(n, e, k, flag) \in Seq(EdgeValues)
  <2>1. [i \in 1 .. k |-> Value("some", tracker[n] \cup {<<n, i>>})] \in Seq(EdgeValues)
    BY <1>2, <1>4, <1>5
  <2>2. \A v \in {"some", "false"} : <<Value(v, tracker[n])>> \in Seq(EdgeValues)
    BY <1>3, <1>5
  <2> QED
    BY <2>1, <2>2 DEF Pushed
<1>7. \A e \in flow.edges : queue[e] \in Seq(EdgeValues)
  BY DEF TypeOK
<1>8. \A e \in flow.edges : queue[e] \o Pushed(n, e, k, flag) \in Seq(EdgeValues)
  BY <1>6, <1>7, ConcatFacts
<1>9. \A e \in flow.edges : Append(queue[e], Value("none", tracker[n])) \in Seq(EdgeValues)
  BY <1>3, <1>5, <1>7, AppendFacts
<1> QED
  BY <1>1, <1>7, <1>8, <1>9 DEF SaveValues

\* What the loop answers: no command waits for it any more.
LEMMA TellFacts ==
  ASSUME TypeOK, NEW ns, NEW reply \in {"denied", "acked"}, Tell(ns, reply)
  PROVE  /\ task' \in [flow.nodes -> TaskStates]
         /\ \A n \in flow.nodes :
              /\ n \in ns => task'[n] \notin {"sent", "posted"}
              /\ task'[n] = task[n] \/ (task[n] \in {"sent", "posted"} /\ task'[n] \in {"denied", "acked"})
  BY DEF Tell, TypeOK, TaskStates

\* A part of the invariant about the commands survives an answer.
LEMMA TellTaskInv ==
  ASSUME Inv, NEW ns, NEW reply \in {"denied", "acked"}, Tell(ns, reply), UNCHANGED <<nodes, fins>>
  PROVE  TaskInv'
<1>1. \A n \in flow.nodes :
         task'[n] = task[n] \/ (task[n] \in {"sent", "posted"} /\ task'[n] \in {"denied", "acked"})
  BY TellFacts DEF Inv
<1>2. nodes \subseteq flow.nodes /\ fins \subseteq flow.nodes
  BY DEF Inv, TypeOK
<1> QED
  BY <1>1, <1>2 DEF Inv, TaskInv, Done

\* The answer to a node that is not waited for any more.
LEMMA TellChannelInv ==
  ASSUME Inv, NEW ns, NEW reply \in {"denied", "acked"}, Tell(ns, reply),
         waiting' = waiting \ ns, pc' \notin Ended => pc \notin Ended,
         UNCHANGED <<ran, running, info, out, outs>>
  PROVE  ChannelInv'
<1> SUFFICES ASSUME pc \notin Ended PROVE ChannelInv'
  BY DEF ChannelInv
<1>1. /\ \A n \in flow.nodes :
           /\ n \in ns => task'[n] \notin {"sent", "posted"}
           /\ task'[n] = task[n] \/ (task[n] \in {"sent", "posted"} /\ task'[n] \in {"denied", "acked"})
  BY TellFacts DEF Inv
<1>2. /\ \A i \in 1 .. Len(out) :
           /\ out[i].node \in running
           /\ out[i].times = ran[out[i].node]
           /\ task[out[i].node] \notin Early
      /\ \A i, j \in 1 .. Len(out) : out[i].node = out[j].node => i = j
      /\ \A i \in 1 .. Len(outs) : outs[i].node \in info /\ outs[i].times = ran[outs[i].node]
      /\ \A n \in running : task[n] \in {"sent", "posted"} =>
           n \in waiting \/ Sent(n, out) \/ Sent(n, outs)
      /\ running \subseteq flow.nodes
  BY DEF Inv, ChannelInv, TypeOK
<1>3. \A i \in 1 .. Len(out) : task'[out[i].node] \notin Early
  BY <1>1, <1>2 DEF Early
<1>4. \A n \in running : task'[n] \in {"sent", "posted"} =>
           n \in waiting' \/ Sent(n, out) \/ Sent(n, outs)
  BY <1>1, <1>2
<1> QED
  BY <1>2, <1>3, <1>4 DEF ChannelInv, Sent

\* A message is saved: the node is known to wait from then on, or is refused.
LEMMA SaveOutputsInv ==
  ASSUME Inv, SaveOutputs
  PROVE  Inv'
<1>a. outs \in Seq(Messages) /\ outs # <<>> /\ pc = "save" /\ group = <<>>
  BY DEF SaveOutputs, Inv, TypeOK, ExecInv
<1>b. /\ Tail(outs) \in Seq(Messages) /\ Head(outs) \in Messages /\ Head(outs) = outs[1]
      /\ Len(outs) \in Nat \ {0} /\ Len(Tail(outs)) = Len(outs) - 1
      /\ \A i \in 1 .. Len(outs) - 1 : Tail(outs)[i] = outs[i + 1]
  BY <1>a, TailFacts
<1>1. PICK n \in flow.nodes : n = Head(outs).node
  BY <1>b DEF Messages
<1>2. PICK ps \in SUBSET (flow.ports[n] \cap flow.before[n]), k \in Lengths(n), flag \in Flags(n) :
        SaveValues(n, ps, k, flag, {})
  BY <1>1 DEF SaveOutputs
<1>3. /\ UNCHANGED <<flow, sorted, nodes, ran, running, info, tracker, out, stop, stop_shared>>
      /\ UNCHANGED <<pc, pos, started, fins, txs, bundle, group>>
      /\ outs' = Tail(outs)
  BY DEF SaveOutputs, stopVars, scanVars, execVars
<1>4. \/ n \in flow.info /\ waiting' = waiting \cup {n} /\ UNCHANGED <<errors, task>>
      \/ n \notin flow.info /\ errors' = errors \cup {n} /\ Tell({n}, "denied") /\ UNCHANGED waiting
  BY <1>1 DEF SaveOutputs
<1>5. /\ queue' \in [flow.edges -> Seq(EdgeValues)]
      /\ DOMAIN outputs' = flow.nodes /\ \A m \in flow.nodes : outputs'[m] \subseteq flow.ports[m]
  <2>1. ps \in SUBSET flow.ports[n] /\ flag \in {"some", "false"}
    BY DEF Flags
  <2> QED
    BY <1>2, <2>1, SaveTypes DEF Inv
<1>6. n \in info
  BY <1>a, <1>b, <1>1 DEF Inv, ChannelInv, Ended
<1>7. /\ task' \in [flow.nodes -> TaskStates]
      /\ errors' \subseteq flow.nodes /\ waiting' \subseteq flow.nodes
      /\ waiting' \subseteq info \cap flow.info /\ waiting \subseteq waiting'
  <2>1. task' \in [flow.nodes -> TaskStates]
    BY <1>4, TellFacts DEF Inv, TypeOK
  <2> QED
    BY <1>4, <1>6, <2>1 DEF Inv, TypeOK, NodesInv
<1>8. TypeOK'
  BY <1>3, <1>5, <1>7, <1>b DEF Inv, TypeOK, EdgeValues, Trackers, Messages
<1>9. NodesInv'
  BY <1>a, <1>3, <1>7 DEF Inv, NodesInv, Executing
<1>10. SortedInv' /\ ExecInv' /\ InvalidInv'
  BY <1>a, <1>3, SortedFrame, ExecIdle DEF Inv, InvalidInv, Executing, Ended
<1>11. TaskInv'
  <2>1. CASE UNCHANGED task
    BY <2>1, <1>3, TaskFrame DEF Inv
  <2>2. CASE Tell({n}, "denied")
    BY <2>2, <1>3, TellTaskInv
  <2> QED
    BY <1>4, <2>1, <2>2
<1>12. ChannelInv'
  <2>a. /\ \A i \in 1 .. Len(out) :
             /\ out[i].node \in running
             /\ out[i].times = ran[out[i].node]
             /\ task[out[i].node] \notin Early
        /\ \A i, j \in 1 .. Len(out) : out[i].node = out[j].node => i = j
        /\ \A i \in 1 .. Len(outs) : outs[i].node \in info /\ outs[i].times = ran[outs[i].node]
        /\ \A m \in running : task[m] \in {"sent", "posted"} =>
             m \in waiting \/ Sent(m, out) \/ Sent(m, outs)
        /\ running \subseteq flow.nodes
    BY <1>a DEF Inv, ChannelInv, TypeOK, Ended
  <2>1. \A m : Sent(m, outs) => m = n \/ Sent(m, Tail(outs))
    <3> SUFFICES ASSUME NEW m, NEW i \in 1 .. Len(outs), outs[i].node = m, m # n
                 PROVE  Sent(m, Tail(outs))
      BY DEF Sent
    <3>1. i # 1 /\ i - 1 \in 1 .. Len(outs) - 1 /\ (i - 1) + 1 = i
      BY <1>b, <1>1
    <3> QED
      BY <3>1, <1>b DEF Sent
  <2>2. \A i \in 1 .. Len(outs') : outs'[i].node \in info /\ outs'[i].times = ran[outs'[i].node]
    BY <2>a, <1>b, <1>3
  <2>3. \A m \in flow.nodes : task'[m] = task[m]
             \/ (task[m] \in {"sent", "posted"} /\ task'[m] \in {"denied", "acked"})
    BY <1>4, TellFacts DEF Inv
  <2>4. n \in waiting' \/ task'[n] \notin {"sent", "posted"}
    BY <1>4, TellFacts DEF Inv
  <2>5. \A i \in 1 .. Len(out) : task'[out[i].node] \notin Early
    BY <2>a, <2>3 DEF Early
  <2>6. \A m \in running : task'[m] \in {"sent", "posted"} =>
             m \in waiting' \/ Sent(m, out) \/ Sent(m, outs')
    BY <2>a, <2>1, <2>3, <2>4, <1>3, <1>7
  <2> QED
    BY <2>a, <2>2, <2>5, <2>6, <1>3 DEF ChannelInv, Sent
<1> QED
  BY <1>8, <1>9, <1>10, <1>11, <1>12 DEF Inv

\* A node finishes: it is idle again, and has sent no message that is not saved.
LEMMA FinishInv ==
  ASSUME Inv, NEW n \in flow.nodes, pc = "save", outs = <<>>, n \in fins, FinishNode(n),
         queue' \in [flow.edges -> Seq(EdgeValues)],
         DOMAIN outputs' = flow.nodes, \A m \in flow.nodes : outputs'[m] \subseteq flow.ports[m],
         errors' \subseteq flow.nodes
  PROVE  Inv'
<1>1. /\ UNCHANGED <<flow, sorted, ran, running, tracker, out, stop, stop_shared>>
      /\ UNCHANGED <<pc, pos, started, outs, txs, bundle, group>>
      /\ fins' = fins \ {n} /\ info' = info \ {n} /\ waiting' = waiting \ {n} /\ nodes' = nodes \cup {n}
      /\ task' = [task EXCEPT ![n] = "none"]
  BY DEF FinishNode, stopVars, scanVars, execVars
<1>2. /\ task' \in [flow.nodes -> TaskStates] /\ task'[n] = "none"
      /\ \A m \in flow.nodes : m # n => task'[m] = task[m]
  BY <1>1 DEF Inv, TypeOK, TaskStates
<1>3. /\ nodes \subseteq flow.nodes /\ info \subseteq flow.nodes /\ fins \subseteq flow.nodes
      /\ waiting \subseteq flow.nodes /\ running \subseteq flow.nodes /\ group = <<>>
      /\ info = running \cup fins /\ running \cap fins = {} /\ nodes = flow.nodes \ info
      /\ waiting \subseteq info \cap flow.info
  BY DEF Inv, TypeOK, NodesInv, ExecInv, Ended
<1>4. TypeOK'
  BY <1>1, <1>2, <1>3 DEF Inv, TypeOK, EdgeValues, Trackers, Messages
<1>5. NodesInv'
  BY <1>1, <1>3 DEF NodesInv, Executing
<1>6. SortedInv' /\ ExecInv' /\ InvalidInv'
  BY <1>1, <1>3, SortedFrame, ExecIdle DEF Inv, InvalidInv, Executing, Ended
<1>7. TaskInv'
  BY <1>1, <1>2, <1>3 DEF Inv, TaskInv, Done
<1>8. ChannelInv'
  <2>a. /\ \A i \in 1 .. Len(out) :
             /\ out[i].node \in running
             /\ out[i].times = ran[out[i].node]
             /\ task[out[i].node] \notin Early
        /\ \A i, j \in 1 .. Len(out) : out[i].node = out[j].node => i = j
        /\ \A m \in running : task[m] \in {"sent", "posted"} =>
             m \in waiting \/ Sent(m, out) \/ Sent(m, outs)
    BY DEF Inv, ChannelInv, Ended
  <2>1. \A m \in running : m # n /\ task'[m] = task[m] /\ (m \in waiting => m \in waiting')
    BY <1>1, <1>2, <1>3
  <2>2. \A i \in 1 .. Len(outs') : FALSE
    BY <1>1
  <2>3. \A i \in 1 .. Len(out) : task'[out[i].node] \notin Early
    BY <2>a, <2>1
  <2>4. \A m \in running : task'[m] \in {"sent", "posted"} =>
             m \in waiting' \/ Sent(m, out) \/ Sent(m, outs)
    BY <2>a, <2>1
  <2> QED
    BY <2>a, <2>2, <2>3, <2>4, <1>1 DEF ChannelInv, Sent
<1> QED
  BY <1>4, <1>5, <1>6, <1>7, <1>8 DEF Inv

\* node_finished with Ok or Err.
LEMMA NodeFinishedInv ==
  ASSUME Inv, NEW n \in flow.nodes, NodeFinishedOk(n) \/ NodeFinishedErr(n)
  PROVE  Inv'
<1>1. CASE NodeFinishedOk(n)
  <2>1. PICK ps \in LastOutputs(n), k \in Lengths(n), flag \in Flags(n) :
          /\ SaveValues(n, ps, k, flag, flow.ports[n] \ (outputs[n] \cup ps))
          /\ errors' = IF flow.must[n] \subseteq outputs[n] \cup ps THEN errors ELSE errors \cup {n}
    BY <1>1 DEF NodeFinishedOk
  <2>2. ps \in SUBSET flow.ports[n] /\ flag \in {"some", "false"}
    BY DEF LastOutputs, Flags
  <2>3. /\ queue' \in [flow.edges -> Seq(EdgeValues)]
        /\ DOMAIN outputs' = flow.nodes /\ \A m \in flow.nodes : outputs'[m] \subseteq flow.ports[m]
    BY <2>1, <2>2, SaveTypes DEF Inv
  <2>4. errors' \subseteq flow.nodes
    BY <2>1 DEF Inv, TypeOK
  <2> QED
    BY <1>1, <2>3, <2>4, FinishInv DEF NodeFinishedOk
<1>2. CASE NodeFinishedErr(n)
  <2>1. /\ queue' = [e \in flow.edges |->
                    IF e.src = n /\ e.from \in {} THEN queue[e] \o Pushed(n, e, 1, "some")
                    ELSE IF e.src = n /\ e.opt /\ e.from \in flow.ports[n] \ outputs[n]
                    THEN Append(queue[e], Value("none", tracker[n]))
                    ELSE queue[e]]
        /\ outputs' = [outputs EXCEPT ![n] = @ \cup {}]
    BY <1>2 DEF NodeFinishedErr, SaveValues
  <2>2. tracker[n] \in Trackers /\ \A e \in flow.edges : queue[e] \in Seq(EdgeValues)
    BY DEF Inv, TypeOK
  <2>3. Value("none", tracker[n]) \in EdgeValues
    BY <2>2 DEF Value, EdgeValues
  <2>4. \A e \in flow.edges : Append(queue[e], Value("none", tracker[n])) \in Seq(EdgeValues)
    BY <2>2, <2>3, AppendFacts
  <2>5. queue' \in [flow.edges -> Seq(EdgeValues)]
    BY <2>1, <2>2, <2>4
  <2>6. DOMAIN outputs' = flow.nodes /\ \A m \in flow.nodes : outputs'[m] \subseteq flow.ports[m]
    BY <2>1 DEF Inv, TypeOK
  <2>7. errors' \subseteq flow.nodes
    BY <1>2 DEF NodeFinishedErr, Inv, TypeOK
  <2> QED
    BY <1>2, <2>5, <2>6, <2>7, FinishInv DEF NodeFinishedErr
<1> QED
  BY <1>1, <1>2

\* The loop ends: of what holds until then little is left to keep.
LEMMA EndInv ==
  ASSUME Inv, FlowFinish \/ \E n \in flow.nodes : NodePanicked(n)
  PROVE  Inv'
<1>1. /\ UNCHANGED <<flow, sorted, nodes, queue, ran, tracker, outputs, errors>>
      /\ UNCHANGED <<stop, stop_shared, pos, started, outs, txs, bundle, group, task>>
      /\ pc' \in Ended
      /\ \/ pc = "end" /\ fins' = fins /\ out' = <<>> /\ running' = {} /\ info' = {} /\ waiting' = {}
         \/ pc = "save" /\ outs = <<>> /\ fins' = {} /\ UNCHANGED <<running, info, waiting, out>>
  BY DEF FlowFinish, NodePanicked, graphVars, stateVars, stopVars, scanVars, execVars, waitVars, Ended
<1>2. /\ fins' = {} /\ outs' = <<>> /\ group = <<>>
      /\ waiting' \subseteq info' \cap flow.info
  BY <1>1 DEF Inv, NodesInv, ExecInv
<1>3. TypeOK'
  <2>1. out' \in Seq(Messages) /\ running' \subseteq flow.nodes /\ info' \subseteq flow.nodes
    BY <1>1, EmptyFacts DEF Inv, TypeOK
  <2>2. pc' \in LoopStates /\ fins' \subseteq flow.nodes /\ waiting' \subseteq flow.nodes
    BY <1>1, <1>2, <2>1 DEF Ended, LoopStates
  <2> QED
    BY <1>1, <2>1, <2>2 DEF Inv, TypeOK, EdgeValues, Trackers, Messages
<1>4. NodesInv' /\ InvalidInv'
  BY <1>1, <1>2 DEF Inv, NodesInv, InvalidInv, Ended, Executing
<1>5. SortedInv' /\ ExecInv'
  BY <1>1, <1>2, SortedFrame, ExecIdle DEF Inv, Ended, Executing
<1>6. TaskInv' /\ ChannelInv'
  BY <1>1, <1>2 DEF Inv, TaskInv, ChannelInv, Done
<1> QED
  BY <1>3, <1>4, <1>5, <1>6 DEF Inv

-----------------------------------------------------------------------------
(* collect_and_execute_instructions *)

\* The transactions of a flow that is executed.
LEMMA RunsValid ==
  ASSUME Inv, pc \notin {"top"} \cup Ended
  PROVE  /\ ~flow.invalid
         /\ sorted \in Seq(Seq(flow.nodes)) /\ Len(sorted) \in Nat
         /\ \A n \in flow.info \cap flow.nodes : InTx(n, sorted)
         /\ \A i, j \in 1 .. Len(sorted) : \A n \in Members(sorted[i]) \cap Members(sorted[j]) : i = j
<1>1. ~flow.invalid
  BY DEF Inv, InvalidInv
<1>2. /\ sorted \in Seq(Seq(flow.nodes))
      /\ \A n \in flow.info \cap flow.nodes : InTx(n, sorted)
      /\ \A i, j \in 1 .. Len(sorted) : \A n \in Members(sorted[i]) \cap Members(sorted[j]) : i = j
  BY <1>1 DEF Inv, SortedInv
<1> QED
  BY <1>1, <1>2

\* ExecInv after a step that leaves the edges and the running nodes alone.
LEMMA ExecBuild ==
  ASSUME UNCHANGED <<flow, sorted, queue, info>>, pc' \in Executing,
         pc' = "exec" => group' = <<>>,
         txs' \in Seq(Seq(flow.nodes)),
         \A i \in 1 .. Len(txs') : \E j \in 1 .. Len(sorted) : txs'[i] = sorted[j],
         \A n \in waiting' : n \in Members(bundle') \/ n \in Members(group') \/ InTx(n, txs'),
         \A i \in 1 .. Len(sorted) :
            (\E n \in Members(sorted[i]) : n \in Members(bundle') \/ n \in Members(group')) =>
               \A n \in Members(sorted[i]) : n \in info \/ submit_is_false(n)
  PROVE  ExecInv'
<1>1. \A n : submit_is_false(n)' <=> submit_is_false(n)
  BY SubmitFrame
<1>2. (pc \in Executing => \A i \in 1 .. Len(sorted) :
                (\E n \in Members(sorted[i]) : n \in Members(bundle) \/ n \in Members(group)) =>
                    \A n \in Members(sorted[i]) : n \in info \/ submit_is_false(n))'
  <2> SUFFICES ASSUME pc' \in Executing, NEW i \in 1 .. Len(sorted'), NEW n \in Members(sorted'[i]),
                      \E m \in Members(sorted'[i]) : m \in Members(bundle') \/ m \in Members(group')
               PROVE  n \in info' \/ submit_is_false(n)'
    BY DEF Members
  <2> QED
    BY <1>1
<1>3. (/\ pc \notin {"execute", "executing"} => group = <<>>
       /\ pc \in Executing =>
          /\ txs \in Seq(Seq(flow.nodes))
          /\ \A i \in 1 .. Len(txs) : \E j \in 1 .. Len(sorted) : txs[i] = sorted[j]
          /\ \A n \in waiting : n \in Members(bundle) \/ n \in Members(group) \/ InTx(n, txs))'
  BY DEF Executing, Members, InTx
<1> QED
  BY <1>2, <1>3 DEF ExecInv

\* A step of the loop that changes what is left to execute, and nothing else.
LEMMA ExecMove ==
  ASSUME Inv, UNCHANGED <<flow, sorted, nodes, queue, ran, tracker, outputs, errors>>,
         UNCHANGED <<running, info, waiting, out, outs, fins, task, stop, stop_shared, pos, started>>,
         pc \in {"collect"} \cup Executing, pc' \in Executing,
         bundle' \in Seq(flow.nodes), group' \in Seq(flow.nodes), ExecInv'
  PROVE  Inv'
<1>1. TypeOK'
  <2>1. pc' \in LoopStates
    BY DEF Executing, LoopStates
  <2> QED
    BY <2>1, TypeFrame DEF Inv, TypeOK
<1>2. SortedInv' /\ TaskInv' /\ ChannelInv'
  BY SortedFrame, TaskFrame, ChannelFrame DEF Inv, Ended, Executing
<1>3. NodesInv' /\ InvalidInv'
  BY DEF Inv, NodesInv, InvalidInv, Ended, Executing
<1> QED
  BY <1>1, <1>2, <1>3 DEF Inv

\* All transactions are left, and the nodes that wait are in them.
LEMMA CollectInstructionsInv ==
  ASSUME Inv, CollectInstructions
  PROVE  Inv'
<1>1. /\ UNCHANGED <<flow, sorted, nodes, queue, ran, tracker, outputs, errors>>
      /\ UNCHANGED <<running, info, waiting, out, outs, fins, task, stop, stop_shared, pos, started, group>>
      /\ pc = "collect" /\ pc' = "exec" /\ txs' = sorted /\ bundle' = <<>>
  BY DEF CollectInstructions, graphVars, stateVars, stopVars, scanVars, waitVars
<1>2. /\ sorted \in Seq(Seq(flow.nodes))
      /\ \A n \in flow.info \cap flow.nodes : InTx(n, sorted)
      /\ waiting \subseteq flow.info \cap flow.nodes /\ group = <<>>
  BY <1>1, RunsValid DEF Inv, Ended, NodesInv, TypeOK, ExecInv
<1>3. \A n : n \notin Members(bundle') /\ n \notin Members(group')
  BY <1>1, <1>2 DEF Members
<1>4. ExecInv'
  <2>1. \A n \in waiting' : InTx(n, txs')
    BY <1>1, <1>2
  <2>2. txs' \in Seq(Seq(flow.nodes)) /\ \A i \in 1 .. Len(txs') : \E j \in 1 .. Len(sorted) : txs'[i] = sorted[j]
    BY <1>1, <1>2
  <2>3. group' = <<>> /\ pc' \in Executing
    BY <1>1, <1>2 DEF Executing
  <2> QED
    BY <1>1, <1>3, <2>1, <2>2, <2>3, ExecBuild
<1> QED
  BY <1>1, <1>2, <1>4, ExecMove, EmptyFacts DEF Executing

\* What is left to execute, as the invariant says it.
LEMMA ExecFacts ==
  ASSUME Inv, pc \in Executing
  PROVE  /\ txs \in Seq(Seq(flow.nodes)) /\ Len(txs) \in Nat
         /\ \A i \in 1 .. Len(txs) : \E j \in 1 .. Len(sorted) : txs[i] = sorted[j]
         /\ \A n \in waiting : n \in Members(bundle) \/ n \in Members(group) \/ InTx(n, txs)
         /\ \A i \in 1 .. Len(sorted) :
              (\E n \in Members(sorted[i]) : n \in Members(bundle) \/ n \in Members(group)) =>
                 \A n \in Members(sorted[i]) : n \in info \/ submit_is_false(n)
         /\ pc = "exec" => group = <<>>
         /\ bundle \in Seq(flow.nodes) /\ group \in Seq(flow.nodes)
         /\ running # {} /\ info = running /\ waiting \subseteq info \cap flow.info
         /\ outs = <<>> /\ fins = {}
<1>1. /\ txs \in Seq(Seq(flow.nodes))
      /\ \A i \in 1 .. Len(txs) : \E j \in 1 .. Len(sorted) : txs[i] = sorted[j]
      /\ \A n \in waiting : n \in Members(bundle) \/ n \in Members(group) \/ InTx(n, txs)
      /\ \A i \in 1 .. Len(sorted) :
           (\E n \in Members(sorted[i]) : n \in Members(bundle) \/ n \in Members(group)) =>
              \A n \in Members(sorted[i]) : n \in info \/ submit_is_false(n)
      /\ pc = "exec" => group = <<>>
  BY DEF Inv, ExecInv
<1>2. Len(txs) \in Nat
  BY <1>1
<1>3. bundle \in Seq(flow.nodes) /\ group \in Seq(flow.nodes)
  BY DEF Inv, TypeOK
<1>4. /\ running # {} /\ info = running /\ waiting \subseteq info \cap flow.info
      /\ outs = <<>> /\ fins = {}
  BY DEF Inv, NodesInv, Ended, Executing
<1> QED
  BY <1>1, <1>2, <1>3, <1>4

\* The first transaction and the ones after it.
LEMMA FirstTx ==
  ASSUME Inv, pc \in Executing, txs # <<>>
  PROVE  /\ Tail(txs) \in Seq(Seq(flow.nodes)) /\ Head(txs) \in Seq(flow.nodes)
         /\ \E j \in 1 .. Len(sorted) : Head(txs) = sorted[j]
         /\ \A i \in 1 .. Len(Tail(txs)) : \E j \in 1 .. Len(sorted) : Tail(txs)[i] = sorted[j]
         /\ \A n : InTx(n, txs) => n \in Members(Head(txs)) \/ InTx(n, Tail(txs))
<1>1. /\ txs \in Seq(Seq(flow.nodes)) /\ Len(txs) \in Nat
      /\ \A i \in 1 .. Len(txs) : \E j \in 1 .. Len(sorted) : txs[i] = sorted[j]
  BY ExecFacts
<1>2. /\ Tail(txs) \in Seq(Seq(flow.nodes)) /\ Head(txs) \in Seq(flow.nodes)
      /\ Len(txs) \in Nat \ {0} /\ Len(Tail(txs)) = Len(txs) - 1
      /\ Head(txs) = txs[1]
      /\ \A i \in 1 .. Len(txs) - 1 : Tail(txs)[i] = txs[i + 1]
  BY <1>1, TailFacts
<1>3. 1 \in 1 .. Len(txs) /\ \A i \in 1 .. Len(txs) - 1 : i + 1 \in 1 .. Len(txs)
  BY <1>2
<1>4. ASSUME NEW n, InTx(n, txs) PROVE n \in Members(Head(txs)) \/ InTx(n, Tail(txs))
  <2>1. PICK i \in 1 .. Len(txs) : n \in Members(txs[i])
    BY <1>4 DEF InTx
  <2>2. i = 1 \/ (i - 1 \in 1 .. Len(txs) - 1 /\ (i - 1) + 1 = i)
    BY <1>2
  <2>3. CASE i = 1
    BY <2>1, <2>3, <1>2
  <2>4. CASE i - 1 \in 1 .. Len(txs) - 1 /\ (i - 1) + 1 = i
    <3>1. Tail(txs)[i - 1] = txs[i] /\ i - 1 \in 1 .. Len(Tail(txs))
      BY <2>4, <1>2
    <3> QED
      BY <2>1, <3>1 DEF InTx
  <2> QED
    BY <2>2, <2>3, <2>4
<1>5. \E j \in 1 .. Len(sorted) : Head(txs) = sorted[j]
  BY <1>1, <1>2, <1>3
<1>6. \A i \in 1 .. Len(Tail(txs)) : \E j \in 1 .. Len(sorted) : Tail(txs)[i] = sorted[j]
  BY <1>1, <1>2, <1>3
<1> QED
  BY <1>2, <1>4, <1>5, <1>6

\* A transaction that is complete makes a bundle of the nodes in it that wait.
LEMMA TxCompleteInv ==
  ASSUME Inv, TxComplete
  PROVE  Inv'
<1>1. /\ UNCHANGED <<flow, sorted, nodes, queue, ran, tracker, outputs, errors>>
      /\ UNCHANGED <<running, info, waiting, out, outs, fins, task, stop, stop_shared, pos, started, group>>
      /\ pc = "exec" /\ pc' = pc /\ bundle = <<>> /\ txs # <<>>
      /\ is_complete(Head(txs))
      /\ bundle' = Keep(Head(txs), waiting) /\ txs' = Tail(txs)
  BY DEF TxComplete, graphVars, stateVars, stopVars, scanVars, waitVars
<1>2. pc \in Executing /\ pc' \in Executing /\ pc \notin {"top"} \cup Ended
  BY <1>1 DEF Executing, Ended
<1>3. /\ Tail(txs) \in Seq(Seq(flow.nodes)) /\ Head(txs) \in Seq(flow.nodes)
      /\ \E j \in 1 .. Len(sorted) : Head(txs) = sorted[j]
      /\ \A i \in 1 .. Len(Tail(txs)) : \E j \in 1 .. Len(sorted) : Tail(txs)[i] = sorted[j]
      /\ \A n : InTx(n, txs) => n \in Members(Head(txs)) \/ InTx(n, Tail(txs))
  BY <1>1, <1>2, FirstTx
<1>4. PICK j \in 1 .. Len(sorted) : Head(txs) = sorted[j]
  BY <1>3
<1>5. Keep(Head(txs), waiting) \in Seq(flow.nodes)
      /\ Range(Keep(Head(txs), waiting)) = Range(Head(txs)) \cap waiting
  BY <1>3, KeepRange
<1>6. bundle' \in Seq(flow.nodes) /\ Members(bundle') = Members(sorted[j]) \cap waiting
  BY <1>1, <1>3, <1>4, <1>5, MembersRange
<1>7. group = <<>> /\ \A n : n \notin Members(group) /\ n \notin Members(bundle)
  BY <1>1, <1>2, ExecFacts DEF Members
<1>8. \A n \in waiting' : n \in Members(bundle') \/ n \in Members(group') \/ InTx(n, txs')
  <2>1. \A n \in waiting : InTx(n, txs)
    BY <1>2, <1>7, ExecFacts
  <2> QED
    BY <1>1, <1>3, <1>4, <1>6, <2>1
<1>9. ASSUME NEW i \in 1 .. Len(sorted), NEW m \in Members(sorted[i]), m \in Members(bundle') \/ m \in Members(group'),
             NEW n \in Members(sorted[i])
      PROVE  n \in info \/ submit_is_false(n)
  <2>1. m \in Members(sorted[j])
    BY <1>1, <1>6, <1>7, <1>9
  <2>2. i = j
    BY <2>1, <1>2, RunsValid
  <2>3. IF n \in nodes THEN submit_is_false(n) ELSE n \in waiting
    BY <1>1, <1>4, <2>2 DEF is_complete
  <2> QED
    BY <2>3, <1>2, ExecFacts
<1>10. ExecInv'
  BY <1>1, <1>2, <1>3, <1>7, <1>8, <1>9, ExecBuild
<1>11. group' \in Seq(flow.nodes)
  BY <1>1, <1>7, EmptyFacts
<1> QED
  BY <1>1, <1>2, <1>6, <1>10, <1>11, ExecMove

\* Instructions::combine joins a first part of the bundle, which is not empty.
LEMMA GroupSizeFacts ==
  ASSUME Inv, bundle # <<>>
  PROVE  GroupSize \in 1 .. Len(bundle)
<1>1. Len(bundle) \in Nat \ {0}
  BY DEF Inv, TypeOK
<1> DEFINE Ends == {k \in 1 .. Len(bundle) : k = Len(bundle) \/ ~Joined(k + 1)}
<1>2. Ends \subseteq Nat /\ Len(bundle) \in Ends
  BY <1>1
<1>3. PICK k \in Ends : \A i \in Ends : k <= i
  BY <1>2, LeastElement
<1>4. k \in 1 .. Len(bundle) /\ k \in Nat /\ (k < Len(bundle) => ~Joined(k + 1))
  BY <1>1, <1>3
<1>5. Joined(k)
  <2>1. CASE k = 1
    BY <2>1 DEF Joined
  <2>2. CASE k # 1
    <3>1. k - 1 \in 1 .. Len(bundle) /\ k - 1 # Len(bundle) /\ (k - 1) + 1 = k /\ ~(k <= k - 1)
      BY <1>1, <1>4, <2>2
    <3>2. k - 1 \notin Ends
      BY <1>3, <3>1
    <3> QED
      BY <3>1, <3>2
  <2> QED
    BY <2>1, <2>2
<1> QED
  BY <1>4, <1>5 DEF GroupSize

\* The bundle is divided.
LEMMA NextGroupInv ==
  ASSUME Inv, NextGroup
  PROVE  Inv'
<1>1. /\ UNCHANGED <<flow, sorted, nodes, queue, ran, tracker, outputs, errors>>
      /\ UNCHANGED <<running, info, waiting, out, outs, fins, task, stop, stop_shared, pos, started, txs>>
      /\ pc = "exec" /\ pc' = "execute" /\ bundle # <<>>
  BY DEF NextGroup, graphVars, stateVars, stopVars, scanVars, waitVars
<1>2. PICK k : k = GroupSize
  OBVIOUS
<1>3. k \in 0 .. Len(bundle) /\ group' = SubSeq(bundle, 1, k) /\ bundle' = SubSeq(bundle, k + 1, Len(bundle))
  <2>1. bundle \in Seq(flow.nodes) /\ k \in 1 .. Len(bundle)
    BY <1>1, <1>2, GroupSizeFacts DEF Inv, TypeOK
  <2> QED
    BY <2>1, <1>2 DEF NextGroup
<1>4. pc \in Executing /\ pc' \in Executing /\ bundle \in Seq(flow.nodes)
  BY <1>1 DEF Executing, Inv, TypeOK
<1>5. group' \in Seq(flow.nodes) /\ bundle' \in Seq(flow.nodes)
  BY <1>3, <1>4, SplitFacts
<1>6. Range(bundle) = Range(group') \cup Range(bundle')
  BY <1>3, <1>4, RangeSplit
<1>7. Members(bundle) = Members(group') \cup Members(bundle')
  BY <1>4, <1>5, <1>6, MembersRange
<1>8. group = <<>> /\ \A n : n \notin Members(group)
  BY <1>1, <1>4, ExecFacts DEF Members
<1>9. \A n \in waiting' : n \in Members(bundle') \/ n \in Members(group') \/ InTx(n, txs')
  BY <1>1, <1>4, <1>7, <1>8, ExecFacts
<1>10. \A i \in 1 .. Len(sorted) :
         (\E n \in Members(sorted[i]) : n \in Members(bundle') \/ n \in Members(group')) =>
            \A n \in Members(sorted[i]) : n \in info \/ submit_is_false(n)
  BY <1>4, <1>7, ExecFacts
<1>11. ExecInv'
  <2>1. txs' \in Seq(Seq(flow.nodes)) /\ \A i \in 1 .. Len(txs') : \E j \in 1 .. Len(sorted) : txs'[i] = sorted[j]
    BY <1>1, <1>4, ExecFacts
  <2> QED
    BY <1>1, <1>4, <1>9, <1>10, <2>1, ExecBuild
<1> QED
  BY <1>1, <1>4, <1>5, <1>11, ExecMove

\* The stop signals are looked at before the transaction is sent.
LEMMA ExecuteStartInv ==
  ASSUME Inv, ExecuteStart
  PROVE  Inv'
<1>1. /\ UNCHANGED <<flow, sorted, nodes, queue, ran, tracker, outputs, errors>>
      /\ UNCHANGED <<running, info, waiting, out, outs, fins, task, stop, stop_shared, pos, started>>
      /\ UNCHANGED <<txs, bundle, group>>
      /\ pc = "execute" /\ pc' = "executing"
  BY DEF ExecuteStart, graphVars, stateVars, stopVars, scanVars, waitVars, execVars
<1>2. pc \in Executing /\ pc' \in Executing
  BY <1>1 DEF Executing
<1>3. ExecInv'
  <2>1. /\ txs' \in Seq(Seq(flow.nodes))
        /\ \A i \in 1 .. Len(txs') : \E j \in 1 .. Len(sorted) : txs'[i] = sorted[j]
    BY <1>1, <1>2, ExecFacts
  <2>2. \A n \in waiting' : n \in Members(bundle') \/ n \in Members(group') \/ InTx(n, txs')
    BY <1>1, <1>2, ExecFacts
  <2>3. \A i \in 1 .. Len(sorted) :
          (\E n \in Members(sorted[i]) : n \in Members(bundle') \/ n \in Members(group')) =>
             \A n \in Members(sorted[i]) : n \in info \/ submit_is_false(n)
    BY <1>1, <1>2, ExecFacts
  <2> QED
    BY <1>1, <1>2, <2>1, <2>2, <2>3, ExecBuild
<1>4. bundle' \in Seq(flow.nodes) /\ group' \in Seq(flow.nodes)
  BY <1>1, <1>2, ExecFacts
<1> QED
  BY <1>1, <1>2, <1>3, <1>4, ExecMove

\* The parts of the invariant that do not concern the execution survive an answer of the loop.
LEMMA AnswerInv ==
  ASSUME Inv, NEW ns, NEW reply \in {"denied", "acked"}, Answer(ns, reply),
         UNCHANGED <<flow, sorted, nodes, queue, ran, tracker, outputs, errors>>,
         UNCHANGED <<running, info, out, outs, fins, stop_shared, pos, started>>,
         stop' \in BOOLEAN, stop => stop',
         pc \in Executing, pc' \in Executing \cup {"top"},
         bundle' \in Seq(flow.nodes), group' \in Seq(flow.nodes), ExecInv'
  PROVE  Inv'
<1>1. Tell(ns, reply) /\ waiting' = waiting \ ns
  BY DEF Answer
<1>2. TypeOK'
  <2>1. task' \in [flow.nodes -> TaskStates]
    BY <1>1, TellFacts DEF Inv
  <2>2. pc' \in LoopStates /\ waiting' \subseteq flow.nodes
    BY <1>1 DEF Executing, LoopStates, Inv, TypeOK
  <2> QED
    BY <2>1, <2>2 DEF Inv, TypeOK, EdgeValues, Trackers, Messages
<1>3. SortedInv' /\ TaskInv' /\ ChannelInv'
  BY <1>1, SortedFrame, TellTaskInv, TellChannelInv DEF Inv, Executing, Ended
<1>4. NodesInv' /\ InvalidInv'
  BY <1>1 DEF Inv, NodesInv, InvalidInv, Executing, Ended
<1> QED
  BY <1>2, <1>3, <1>4 DEF Inv

\* Some node of a transaction handed over nothing: the others are refused.
LEMMA TxIncompleteInv ==
  ASSUME Inv, TxIncomplete
  PROVE  Inv'
<1>1. /\ UNCHANGED <<flow, sorted, nodes, queue, ran, tracker, outputs, errors>>
      /\ UNCHANGED <<running, info, out, outs, fins, stop, stop_shared, pos, started, bundle, group>>
      /\ pc = "exec" /\ pc' = pc /\ bundle = <<>> /\ txs # <<>>
      /\ Answer(Members(Head(txs)), "denied") /\ txs' = Tail(txs)
  BY DEF TxIncomplete, graphVars, stopVars, scanVars, waitVars
<1>2. pc \in Executing /\ pc' \in Executing
  BY <1>1 DEF Executing
<1>3. /\ Tail(txs) \in Seq(Seq(flow.nodes))
      /\ \A i \in 1 .. Len(Tail(txs)) : \E j \in 1 .. Len(sorted) : Tail(txs)[i] = sorted[j]
      /\ \A n : InTx(n, txs) => n \in Members(Head(txs)) \/ InTx(n, Tail(txs))
  BY <1>1, <1>2, FirstTx
<1>4. group = <<>> /\ \A n : n \notin Members(group) /\ n \notin Members(bundle)
  BY <1>1, <1>2, ExecFacts DEF Members
<1>5. \A n \in waiting' : InTx(n, txs')
  BY <1>1, <1>2, <1>3, <1>4, ExecFacts DEF Answer
<1>6. bundle' \in Seq(flow.nodes) /\ group' \in Seq(flow.nodes)
  BY <1>1, <1>2, ExecFacts
<1>7. ExecInv'
  BY <1>1, <1>2, <1>3, <1>4, <1>5, ExecBuild
<1>8. stop' \in BOOLEAN /\ (stop => stop')
  BY <1>1 DEF Inv, TypeOK
<1> QED
  BY <1>1, <1>2, <1>6, <1>7, <1>8, AnswerInv

\* The answers to a group, or to all that is left of a transaction.
LEMMA ExecutedInv ==
  ASSUME Inv, ExecuteOk \/ ExecuteErr
  PROVE  Inv'
<1>1. /\ UNCHANGED <<flow, sorted, nodes, queue, ran, tracker, outputs, errors>>
      /\ UNCHANGED <<running, info, out, outs, fins, stop, stop_shared, pos, started, txs>>
      /\ pc \in {"execute", "executing"} /\ pc' = "exec" /\ group' = <<>>
      /\ \/ Answer(Members(group), "acked") /\ bundle' = bundle
         \/ Answer(Members(group) \cup Members(bundle), "denied") /\ bundle' = <<>>
  BY DEF ExecuteOk, ExecuteErr, graphVars, stopVars, scanVars, waitVars
<1>2. pc \in Executing /\ pc' \in Executing
  BY <1>1 DEF Executing
<1>3. \A n : n \notin Members(group') /\ (bundle' = bundle \/ n \notin Members(bundle'))
  BY <1>1 DEF Members
<1>4. \A n \in waiting' : n \in Members(bundle') \/ n \in Members(group') \/ InTx(n, txs')
  BY <1>1, <1>2, ExecFacts DEF Answer
<1>5. \A i \in 1 .. Len(sorted) :
         (\E n \in Members(sorted[i]) : n \in Members(bundle') \/ n \in Members(group')) =>
            \A n \in Members(sorted[i]) : n \in info \/ submit_is_false(n)
  BY <1>2, <1>3, ExecFacts
<1>6. bundle' \in Seq(flow.nodes) /\ group' \in Seq(flow.nodes)
  BY <1>1, <1>2, ExecFacts, EmptyFacts
<1>7. ExecInv'
  <2>1. txs' \in Seq(Seq(flow.nodes)) /\ \A i \in 1 .. Len(txs') : \E j \in 1 .. Len(sorted) : txs'[i] = sorted[j]
    BY <1>1, <1>2, ExecFacts
  <2> QED
    BY <1>1, <1>2, <1>4, <1>5, <2>1, ExecBuild
<1>8. stop' \in BOOLEAN /\ (stop => stop')
  BY <1>1 DEF Inv, TypeOK
<1>9. \E ns, reply : Answer(ns, reply) /\ reply \in {"denied", "acked"}
  BY <1>1
<1> QED
  BY <1>1, <1>2, <1>6, <1>7, <1>8, <1>9, AnswerInv

\* An interflow-instructions run stops.
LEMMA OutputInstructionsInv ==
  ASSUME Inv, OutputInstructions
  PROVE  Inv'
<1>1. /\ UNCHANGED <<flow, sorted, nodes, queue, ran, tracker, outputs, errors>>
      /\ UNCHANGED <<running, info, out, outs, fins, stop_shared, pos, started, group>>
      /\ pc = "exec" /\ pc' = "top" /\ bundle' = <<>> /\ stop' = TRUE
      /\ Answer(info, "denied")
  BY DEF OutputInstructions, graphVars, scanVars, waitVars
<1>2. pc \in Executing /\ pc' \in Executing \cup {"top"} /\ pc' \notin Executing
  BY <1>1 DEF Executing
<1>3. group' = <<>> /\ bundle' \in Seq(flow.nodes) /\ group' \in Seq(flow.nodes)
  BY <1>1, <1>2, ExecFacts, EmptyFacts
<1>4. ExecInv'
  BY <1>2, <1>3, ExecIdle
<1> QED
  BY <1>1, <1>2, <1>3, <1>4, AnswerInv

\* Nothing is left to execute: no node waits for the loop any more.
LEMMA ExecuteEndInv ==
  ASSUME Inv, ExecuteEnd
  PROVE  Inv'
<1>1. /\ UNCHANGED <<flow, sorted, nodes, queue, ran, tracker, outputs, errors>>
      /\ UNCHANGED <<running, info, waiting, out, outs, fins, txs, bundle, group, task, stop, stop_shared>>
      /\ pc = "exec" /\ pc' = "wait" /\ bundle = <<>> /\ txs = <<>>
      /\ pos' = pos /\ started' = started
  BY DEF ExecuteEnd, graphVars, stateVars, stopVars, waitVars, execVars, scanVars
<1>2. pc' \in LoopStates \ Executing /\ pc \notin Ended /\ pc \in Executing
  BY <1>1 DEF LoopStates, Executing, Ended
<1>3. /\ group = <<>> /\ \A n : n \notin Members(bundle) /\ n \notin Members(group) /\ ~InTx(n, txs)
  BY <1>1, <1>2, ExecFacts DEF Members, InTx
<1>4. waiting = {} /\ running # {}
  BY <1>2, <1>3, ExecFacts
<1>5. InvalidInv'
  BY <1>1 DEF Inv, InvalidInv, Ended
<1>6. NodesInv'
  BY <1>1, <1>2, <1>4 DEF Inv, NodesInv, Ended, Executing
<1> QED
  BY <1>1, <1>2, <1>3, <1>5, <1>6, MoveInv DEF Inv, TypeOK

-----------------------------------------------------------------------------
(* sort_transactions *)

\* The function h starts with a and goes on with what G makes of its last value.
Iterates(h, N, X, a, G) ==
  h \in [0 .. N -> X] /\ h[0] = a /\ \A i \in 1 .. N : h[i] = G[i][h[i - 1]]

\* A function that is defined by recursion over 0 .. N exists.
LEMMA RecursionExists ==
  ASSUME NEW N \in Nat, NEW X, NEW a \in X, NEW G \in [1 .. N -> [X -> X]]
  PROVE  \E h : Iterates(h, N, X, a, G)
<1> DEFINE Good(k) == \E h \in [0 .. k -> X] : h[0] = a /\ \A i \in 1 .. k : h[i] = G[i][h[i - 1]]
           Bad == {k \in 0 .. N : ~Good(k)}
<1> SUFFICES ASSUME Bad # {} PROVE FALSE
  <2>1. Bad = {} => Good(N)
    OBVIOUS
  <2> QED
    BY <2>1 DEF Iterates
<1>1. PICK m \in Bad : \A k \in Bad : m <= k
  <2>1. Bad \subseteq Nat
    OBVIOUS
  <2> QED
    BY <2>1, LeastElement
<1>2. m \in 0 .. N /\ ~Good(m)
  BY <1>1
<1>3. m # 0
  <2> DEFINE g == [i \in 0 .. 0 |-> a]
  <2>1. g \in [0 .. 0 -> X] /\ g[0] = a
    OBVIOUS
  <2>2. \A i \in 1 .. 0 : g[i] = G[i][g[i - 1]]
    OBVIOUS
  <2> HIDE DEF g
  <2>3. \E h \in [0 .. 0 -> X] : h[0] = a /\ \A i \in 1 .. 0 : h[i] = G[i][h[i - 1]]
    BY <2>1, <2>2
  <2>4. Good(0)
    BY <2>3
  <2> QED
    BY <1>2, <2>4
<1>4. m - 1 \in 0 .. N /\ m \in 1 .. N /\ m \in Nat
  BY <1>2, <1>3
<1>5. Good(m - 1)
  <2>1. m - 1 \notin Bad
    <3> HIDE DEF Bad
    <3> QED
      BY <1>1, <1>4
  <2> QED
    BY <2>1, <1>4
<1>6. PICK h \in [0 .. m - 1 -> X] : h[0] = a /\ \A i \in 1 .. m - 1 : h[i] = G[i][h[i - 1]]
  BY <1>5
<1> DEFINE g == [i \in 0 .. m |-> IF i = m THEN G[m][h[m - 1]] ELSE h[i]]
<1>7. h[m - 1] \in X /\ G[m] \in [X -> X]
  BY <1>4, <1>6
<1>8. g \in [0 .. m -> X]
  BY <1>4, <1>6, <1>7
<1>9. g[0] = a /\ \A i \in 1 .. m : g[i] = G[i][g[i - 1]]
  BY <1>4, <1>6, <1>3
<1>10. Good(m)
  BY <1>8, <1>9
<1> QED
  BY <1>2, <1>10

Passes(f) == [nodes : SUBSET f.nodes, edges : SUBSET f.edges, tx : Seq(f.nodes)]
PassStep(f, v, o, P, i) ==
  IF i = 0 THEN [nodes |-> v, edges |-> o, tx |-> <<>>] ELSE Visit(f, P[i - 1], f.topo[i])

\* A node that is visited stays in the types of the pass.
LEMMA VisitTypes ==
  ASSUME NEW f, NEW r \in Passes(f), NEW n \in f.nodes
  PROVE  Visit(f, r, n) \in Passes(f)
<1>1. r.tx \in Seq(f.nodes) /\ Append(r.tx, n) \in Seq(f.nodes)
  BY AppendFacts DEF Passes
<1>2. r.nodes \cup {n} \in SUBSET f.nodes
      /\ r.edges \cup {e \in OutEdges(f, n) : n \in f.info => e.from \in f.before[n]} \in SUBSET f.edges
  BY DEF Passes, OutEdges
<1> QED
  BY <1>1, <1>2 DEF Visit, Passes

\* A pass, as a sequence of visits.
LEMMA PassDef ==
  ASSUME NEW f, f.topo \in Seq(f.nodes), NEW v \in SUBSET f.nodes, NEW o \in SUBSET f.edges
  PROVE  \E P :
           /\ P[0] = [nodes |-> v, edges |-> o, tx |-> <<>>]
           /\ \A i \in 1 .. Len(f.topo) : P[i] = Visit(f, P[i - 1], f.topo[i])
           /\ Pass(f, v, o) = P[Len(f.topo)]
<1> DEFINE N == Len(f.topo)
           a == [nodes |-> v, edges |-> o, tx |-> <<>>]
           G == [i \in 1 .. N |-> [r \in Passes(f) |-> Visit(f, r, f.topo[i])]]
           H == CHOOSE P : P = [i \in 0 .. N |-> PassStep(f, v, o, P, i)]
<1>1. N \in Nat /\ a \in Passes(f)
  BY EmptyFacts DEF Passes
<1>2. \A i \in 1 .. N : f.topo[i] \in f.nodes
  OBVIOUS
<1>3. \A i \in 1 .. N : \A r \in Passes(f) : Visit(f, r, f.topo[i]) \in Passes(f)
  BY <1>2, VisitTypes
<1>4. G \in [1 .. N -> [Passes(f) -> Passes(f)]]
  BY <1>3
<1>5. PICK h \in [0 .. N -> Passes(f)] : h[0] = a /\ \A i \in 1 .. N : h[i] = G[i][h[i - 1]]
  <2> DEFINE X == Passes(f)
  <2>1. N \in Nat /\ a \in X /\ G \in [1 .. N -> [X -> X]]
    BY <1>1, <1>4
  <2> HIDE DEF G, N, a, X
  <2>2. \E h : Iterates(h, N, X, a, G)
    BY ONLY <2>1, RecursionExists
  <2> QED
    BY <2>2 DEF X, Iterates
<1>6. \A i \in 1 .. N : i - 1 \in 0 .. N /\ i # 0
  BY <1>1
<1>7. \A i \in 0 .. N : h[i] = PassStep(f, v, o, h, i)
  <2> SUFFICES ASSUME NEW i \in 0 .. N PROVE h[i] = PassStep(f, v, o, h, i)
    OBVIOUS
  <2>1. CASE i = 0
    BY <2>1, <1>5 DEF PassStep
  <2>2. CASE i # 0
    <3>1. i \in 1 .. N /\ h[i - 1] \in Passes(f)
      BY <2>2, <1>1, <1>6
    <3> QED
      BY <2>2, <3>1, <1>5 DEF PassStep
  <2> QED
    BY <2>1, <2>2
<1>8. h = [i \in 0 .. N |-> PassStep(f, v, o, h, i)]
  BY <1>7
<1>9. H = [i \in 0 .. N |-> PassStep(f, v, o, H, i)]
  BY <1>8
<1>10. Pass(f, v, o) = H[N]
  BY DEF Pass, PassStep
<1>11. ASSUME NEW i \in 0 .. N PROVE H[i] = PassStep(f, v, o, H, i)
  <2> HIDE DEF H
  <2> QED
    BY <1>9
<1>12. H[0] = a
  BY <1>1, <1>11 DEF PassStep
<1>13. ASSUME NEW i \in 1 .. N PROVE H[i] = Visit(f, H[i - 1], f.topo[i])
  <2>1. i \in 0 .. N /\ i # 0
    BY <1>1
  <2> QED
    BY <2>1, <1>11 DEF PassStep
<1> HIDE DEF H
<1> QED
  BY <1>10, <1>12, <1>13

\* What a pass has done after its first i visits.
PassInv(f, v, o, r, i) ==
  /\ r \in Passes(f)
  /\ v \subseteq r.nodes /\ o \subseteq r.edges
  /\ \A n : n \in Members(r.tx) <=> n \in r.nodes /\ n \notin v /\ n \in f.info
  /\ \A e \in f.edges :
       e.src \in r.nodes /\ e.src \notin v /\ (e.src \in f.info => e.from \in f.before[e.src]) =>
          e \in r.edges
  /\ \A j \in 1 .. i : InEdges(f, f.topo[j]) \subseteq o => f.topo[j] \in r.nodes

\* One more visit.
LEMMA VisitInv ==
  ASSUME NEW f, f.topo \in Seq(f.nodes), NEW v, NEW o, NEW r, NEW i \in Nat,
         i + 1 \in 1 .. Len(f.topo), PassInv(f, v, o, r, i)
  PROVE  PassInv(f, v, o, Visit(f, r, f.topo[i + 1]), i + 1)
<1>1. PICK n \in f.nodes : n = f.topo[i + 1]
  OBVIOUS
<1> DEFINE q == Visit(f, r, n)
           spread == {e \in OutEdges(f, n) : n \in f.info => e.from \in f.before[n]}
<1>2. /\ r \in Passes(f)
      /\ v \subseteq r.nodes /\ o \subseteq r.edges
      /\ \A m : m \in Members(r.tx) <=> m \in r.nodes /\ m \notin v /\ m \in f.info
      /\ \A e \in f.edges :
           e.src \in r.nodes /\ e.src \notin v /\ (e.src \in f.info => e.from \in f.before[e.src]) =>
              e \in r.edges
      /\ \A j \in 1 .. i : InEdges(f, f.topo[j]) \subseteq o => f.topo[j] \in r.nodes
  BY DEF PassInv
<1>3. q \in Passes(f) /\ r.tx \in Seq(f.nodes)
  BY <1>2, VisitTypes DEF Passes
<1>4. \/ q = r /\ (n \in r.nodes \/ ~(InEdges(f, n) \subseteq r.edges))
      \/ /\ n \notin r.nodes
         /\ q.nodes = r.nodes \cup {n} /\ q.edges = r.edges \cup spread
         /\ q.tx = IF n \in f.info THEN Append(r.tx, n) ELSE r.tx
  BY DEF Visit
<1>5. Members(Append(r.tx, n)) = Members(r.tx) \cup {n}
  <2>1. Append(r.tx, n) \in Seq(f.nodes)
    BY <1>3, AppendFacts
  <2>2. Range(Append(r.tx, n)) = Range(r.tx) \cup {n}
    BY ONLY <1>3, RangeAppend, n \in f.nodes
  <2> QED
    BY <1>3, <2>1, <2>2, MembersRange
<1>6. \A e \in f.edges : e \in spread <=> e.src = n /\ (e.src \in f.info => e.from \in f.before[e.src])
  BY DEF OutEdges
<1> HIDE DEF q, spread
<1>7. v \subseteq q.nodes /\ o \subseteq q.edges /\ r.nodes \subseteq q.nodes
  BY <1>2, <1>4
<1>8. \A m : m \in Members(q.tx) <=> m \in q.nodes /\ m \notin v /\ m \in f.info
  BY <1>2, <1>4, <1>5
<1>9. \A e \in f.edges :
       e.src \in q.nodes /\ e.src \notin v /\ (e.src \in f.info => e.from \in f.before[e.src]) =>
          e \in q.edges
  BY <1>2, <1>4, <1>6
<1>10. \A j \in 1 .. i + 1 : InEdges(f, f.topo[j]) \subseteq o => f.topo[j] \in q.nodes
  <2>1. \A j \in 1 .. i + 1 : j \in 1 .. i \/ j = i + 1
    OBVIOUS
  <2>2. InEdges(f, n) \subseteq o => n \in q.nodes
    BY <1>2, <1>4
  <2> QED
    BY <1>1, <1>2, <1>7, <2>1, <2>2
<1>11. PassInv(f, v, o, q, i + 1)
  BY <1>3, <1>7, <1>8, <1>9, <1>10 DEF PassInv
<1> QED
  BY <1>1, <1>11 DEF q

\* What a pass does.
LEMMA PassFacts ==
  ASSUME NEW f, f.topo \in Seq(f.nodes), NEW v \in SUBSET f.nodes, NEW o \in SUBSET f.edges
  PROVE  PassInv(f, v, o, Pass(f, v, o), Len(f.topo))
<1>1. PICK P : /\ P[0] = [nodes |-> v, edges |-> o, tx |-> <<>>]
               /\ \A i \in 1 .. Len(f.topo) : P[i] = Visit(f, P[i - 1], f.topo[i])
               /\ Pass(f, v, o) = P[Len(f.topo)]
  BY PassDef
<1>2. Len(f.topo) \in Nat
  OBVIOUS
<1> DEFINE Bad == {i \in 0 .. Len(f.topo) : ~PassInv(f, v, o, P[i], i)}
<1> SUFFICES ASSUME Bad # {} PROVE FALSE
  BY <1>1, <1>2
<1>3. PICK m \in Bad : \A k \in Bad : m <= k
  <2>1. Bad \subseteq Nat
    OBVIOUS
  <2> QED
    BY <2>1, LeastElement
<1>4. m \in 0 .. Len(f.topo) /\ ~PassInv(f, v, o, P[m], m)
  BY <1>3
<1>5. m # 0
  <2>1. P[0] \in Passes(f) /\ P[0].nodes = v /\ P[0].edges = o /\ P[0].tx = <<>>
    BY <1>1, EmptyFacts DEF Passes
  <2>2. \A n : n \notin Members(<<>>)
    BY DEF Members
  <2>3. PassInv(f, v, o, P[0], 0)
    BY <2>1, <2>2 DEF PassInv
  <2> QED
    BY <1>4, <2>3
<1>6. m - 1 \in Nat /\ m \in 1 .. Len(f.topo) /\ (m - 1) + 1 = m /\ m - 1 \in 0 .. Len(f.topo) /\ ~(m <= m - 1)
  BY <1>2, <1>4, <1>5
<1>7. PassInv(f, v, o, P[m - 1], m - 1)
  BY <1>3, <1>6
<1>8. PassInv(f, v, o, Visit(f, P[m - 1], f.topo[(m - 1) + 1]), (m - 1) + 1)
  <2> DEFINE k == m - 1
  <2>1. k \in Nat /\ k + 1 \in 1 .. Len(f.topo) /\ PassInv(f, v, o, P[k], k)
    BY <1>6, <1>7
  <2> HIDE DEF k
  <2>2. PassInv(f, v, o, Visit(f, P[k], f.topo[k + 1]), k + 1)
    BY <2>1, VisitInv
  <2> QED
    BY <2>2 DEF k
<1>9. P[m] = Visit(f, P[m - 1], f.topo[m])
  BY <1>1, <1>6
<1> QED
  BY <1>4, <1>6, <1>8, <1>9

Sorts(f) == [nodes : SUBSET f.nodes, edges : SUBSET f.edges, txs : Seq(Seq(f.nodes))]
SortStep(f, S, k) ==
  IF k = 0 THEN [nodes |-> {}, edges |-> FakeEdges(f), txs |-> <<>>] ELSE NextPass(f, S[k - 1])

\* A pass keeps the types.
LEMMA NextPassTypes ==
  ASSUME NEW f, f.topo \in Seq(f.nodes), NEW s \in Sorts(f)
  PROVE  NextPass(f, s) \in Sorts(f)
<1> DEFINE p == Pass(f, s.nodes, s.edges)
<1>1. s.nodes \in SUBSET f.nodes /\ s.edges \in SUBSET f.edges /\ s.txs \in Seq(Seq(f.nodes))
  BY DEF Sorts
<1>2. p \in Passes(f)
  BY <1>1, PassFacts DEF PassInv
<1>3. p.nodes \in SUBSET f.nodes /\ p.edges \cup AfterEdges(f, p.tx) \in SUBSET f.edges /\ p.tx \in Seq(f.nodes)
  BY <1>2 DEF Passes, AfterEdges
<1>4. Append(s.txs, p.tx) \in Seq(Seq(f.nodes))
  BY <1>1, <1>3, AppendFacts
<1>5. NextPass(f, s) = [nodes |-> p.nodes, edges |-> p.edges \cup AfterEdges(f, p.tx),
                        txs |-> IF p.tx = <<>> THEN s.txs ELSE Append(s.txs, p.tx)]
  BY DEF NextPass
<1> HIDE DEF p
<1> QED
  BY <1>1, <1>3, <1>4, <1>5 DEF Sorts

\* sort_transactions, as a sequence of passes.
LEMMA SortDef ==
  ASSUME NEW f, f.topo \in Seq(f.nodes), Cardinality(f.nodes) \in Nat
  PROVE  \E S : /\ S[0] = [nodes |-> {}, edges |-> FakeEdges(f), txs |-> <<>>]
                /\ \A k \in 1 .. Cardinality(f.nodes) : S[k] = NextPass(f, S[k - 1])
                /\ sort_transactions(f) = S[Cardinality(f.nodes)].txs
<1> DEFINE N == Cardinality(f.nodes)
           a == [nodes |-> {}, edges |-> FakeEdges(f), txs |-> <<>>]
           G == [i \in 1 .. N |-> [r \in Sorts(f) |-> NextPass(f, r)]]
           H == CHOOSE S : S = [i \in 0 .. N |-> SortStep(f, S, i)]
<1>1. N \in Nat /\ a \in Sorts(f)
  BY EmptyFacts DEF Sorts, FakeEdges, OutEdges
<1>2. \A r \in Sorts(f) : NextPass(f, r) \in Sorts(f)
  BY NextPassTypes
<1>3. G \in [1 .. N -> [Sorts(f) -> Sorts(f)]]
  BY <1>2
<1>4. PICK h \in [0 .. N -> Sorts(f)] : h[0] = a /\ \A i \in 1 .. N : h[i] = G[i][h[i - 1]]
  <2> DEFINE X == Sorts(f)
  <2>1. N \in Nat /\ a \in X /\ G \in [1 .. N -> [X -> X]]
    BY <1>1, <1>3
  <2> HIDE DEF G, N, a, X
  <2>2. \E h : Iterates(h, N, X, a, G)
    BY ONLY <2>1, RecursionExists
  <2> QED
    BY <2>2 DEF X, Iterates
<1>5. \A i \in 0 .. N : h[i] = SortStep(f, h, i)
  <2> SUFFICES ASSUME NEW i \in 0 .. N PROVE h[i] = SortStep(f, h, i)
    OBVIOUS
  <2>1. CASE i = 0
    BY <2>1, <1>4 DEF SortStep
  <2>2. CASE i # 0
    <3>1. i \in 1 .. N /\ i - 1 \in 0 .. N
      BY <2>2, <1>1
    <3> QED
      BY <2>2, <3>1, <1>4 DEF SortStep
  <2> QED
    BY <2>1, <2>2
<1>6. h = [i \in 0 .. N |-> SortStep(f, h, i)]
  BY <1>5
<1>7. H = [i \in 0 .. N |-> SortStep(f, H, i)]
  BY <1>6
<1>8. sort_transactions(f) = H[N].txs
  BY DEF sort_transactions, SortStep
<1>9. ASSUME NEW i \in 0 .. N PROVE H[i] = SortStep(f, H, i)
  <2> HIDE DEF H
  <2> QED
    BY <1>7
<1>10. H[0] = a
  <2>1. 0 \in 0 .. N
    BY <1>1
  <2>2. H[0] = SortStep(f, H, 0)
    BY <2>1, <1>9
  <2> HIDE DEF H
  <2> QED
    BY <2>2 DEF SortStep
<1>11. ASSUME NEW i \in 1 .. N PROVE H[i] = NextPass(f, H[i - 1])
  <2>1. i \in 0 .. N /\ i # 0
    BY <1>1
  <2> QED
    BY <2>1, <1>9 DEF SortStep
<1> HIDE DEF H
<1> QED
  BY <1>8, <1>10, <1>11

\* The instruction nodes that were visited are in one transaction each; their edges and
\* those of all other nodes that were visited are open; k passes visit the first k nodes.
Partition(ns, ts) ==
  /\ \A n : InTx(n, ts) <=> n \in ns
  /\ \A i, j \in 1 .. Len(ts) : \A n \in Members(ts[i]) \cap Members(ts[j]) : i = j
SortInv(f, s, k) ==
  /\ s \in Sorts(f)
  /\ \A e \in f.edges : e.src = FakeNode \/ e.src \in s.nodes => e \in s.edges
  /\ \A j \in 1 .. k : f.topo[j] \in s.nodes
  /\ Partition(s.nodes \cap f.info, s.txs)

\* A partition with one more part.
LEMMA PartitionAppend ==
  ASSUME NEW S, NEW ts \in Seq(Seq(S)), NEW t \in Seq(S), NEW ns, Partition(ns, ts),
         \A n \in Members(t) : n \notin ns
  PROVE  Partition(ns \cup Members(t), Append(ts, t))
<1> DEFINE us == Append(ts, t)
<1>1. /\ Len(ts) \in Nat /\ Len(us) = Len(ts) + 1
      /\ \A i \in 1 .. Len(ts) : us[i] = ts[i]
      /\ us[Len(ts) + 1] = t
  BY AppendFacts
<1>2. \A i \in 1 .. Len(us) : i \in 1 .. Len(ts) \/ i = Len(ts) + 1
  BY <1>1
<1>3. \A i \in 1 .. Len(ts) : i \in 1 .. Len(us)
  BY <1>1
<1>4. Len(ts) + 1 \in 1 .. Len(us)
  BY <1>1
<1> HIDE DEF us
<1>5. /\ \A n : (\E i \in 1 .. Len(ts) : n \in Members(ts[i])) <=> n \in ns
      /\ \A i, j \in 1 .. Len(ts) : \A n \in Members(ts[i]) \cap Members(ts[j]) : i = j
  BY DEF Partition, InTx
<1>6. \A n : (\E i \in 1 .. Len(us) : n \in Members(us[i])) <=> n \in ns \cup Members(t)
  BY <1>1, <1>2, <1>3, <1>4, <1>5
<1>7. \A i, j \in 1 .. Len(us) : \A n \in Members(us[i]) \cap Members(us[j]) : i = j
  BY <1>1, <1>2, <1>5
<1>8. Partition(ns \cup Members(t), us)
  BY <1>6, <1>7 DEF Partition, InTx
<1> QED
  BY <1>8 DEF us

\* One more pass visits at least one more node.
LEMMA NextPassInv ==
  ASSUME NEW f \in Flows, ~f.invalid, NEW k \in Nat, k + 1 \in 1 .. Len(f.topo), NEW s, SortInv(f, s, k)
  PROVE  SortInv(f, NextPass(f, s), k + 1)
<1>a. /\ f.topo \in Seq(f.nodes)
      /\ \A n \in f.nodes : \E i \in 1 .. Len(f.topo) : f.topo[i] = n
      /\ \A e \in f.edges : \A i, j \in 1 .. Len(f.topo) :
            f.topo[i] = e.src /\ f.topo[j] = e.dst => i < j
      /\ \A e \in f.edges : e.src \in f.info => e.from \in f.before[e.src] \cup f.after[e.src]
      /\ \A e \in f.edges : e.src \in f.nodes \cup {FakeNode} /\ e.dst \in f.nodes
      /\ FakeNode \notin f.nodes
  BY FlowsAssumption
<1>b. /\ s \in Sorts(f)
      /\ \A e \in f.edges : e.src = FakeNode \/ e.src \in s.nodes => e \in s.edges
      /\ \A j \in 1 .. k : f.topo[j] \in s.nodes
      /\ Partition(s.nodes \cap f.info, s.txs)
  BY DEF SortInv
<1>c. s.nodes \in SUBSET f.nodes /\ s.edges \in SUBSET f.edges /\ s.txs \in Seq(Seq(f.nodes))
  BY <1>b DEF Sorts
<1> DEFINE p == Pass(f, s.nodes, s.edges)
           q == NextPass(f, s)
<1>1. PassInv(f, s.nodes, s.edges, p, Len(f.topo))
  BY <1>a, <1>c, PassFacts
<1>2. /\ q \in Sorts(f)
      /\ q.nodes = p.nodes /\ q.edges = p.edges \cup AfterEdges(f, p.tx)
      /\ q.txs = IF p.tx = <<>> THEN s.txs ELSE Append(s.txs, p.tx)
  BY <1>a, <1>b, NextPassTypes DEF NextPass
<1> HIDE DEF p, q
<1>3. /\ p \in Passes(f)
      /\ s.nodes \subseteq p.nodes /\ s.edges \subseteq p.edges
      /\ \A n : n \in Members(p.tx) <=> n \in p.nodes /\ n \notin s.nodes /\ n \in f.info
      /\ \A e \in f.edges :
           e.src \in p.nodes /\ e.src \notin s.nodes /\ (e.src \in f.info => e.from \in f.before[e.src]) =>
              e \in p.edges
      /\ \A j \in 1 .. Len(f.topo) : InEdges(f, f.topo[j]) \subseteq s.edges => f.topo[j] \in p.nodes
  BY <1>1 DEF PassInv
<1>4. p.nodes \in SUBSET f.nodes /\ p.tx \in Seq(f.nodes)
  BY <1>3 DEF Passes
<1>5. ASSUME NEW e \in f.edges, e.src = FakeNode \/ e.src \in q.nodes PROVE e \in q.edges
  <2>1. CASE e.src = FakeNode \/ e.src \in s.nodes
    BY <2>1, <1>b, <1>2, <1>3
  <2>2. CASE e.src \in p.nodes /\ e.src \notin s.nodes
    <3>1. CASE e.src \in f.info => e.from \in f.before[e.src]
      BY <2>2, <3>1, <1>2, <1>3
    <3>2. CASE e.src \in f.info /\ e.from \in f.after[e.src]
      <4>1. e.src \in Members(p.tx)
        BY <2>2, <3>2, <1>3
      <4>2. e \in AfterEdges(f, p.tx)
        BY <4>1, <3>2 DEF AfterEdges, Members
      <4> QED
        BY <4>2, <1>2
    <3> QED
      BY <3>1, <3>2, <1>a
  <2> QED
    BY <1>2, <1>5, <2>1, <2>2
<1>6. ASSUME NEW j \in 1 .. k + 1 PROVE f.topo[j] \in q.nodes
  <2>1. CASE j \in 1 .. k
    BY <2>1, <1>b, <1>2, <1>3
  <2>2. CASE j = k + 1
    <3>1. ASSUME NEW e \in InEdges(f, f.topo[j]) PROVE e \in s.edges
      <4>1. e \in f.edges /\ e.dst = f.topo[j]
        BY DEF InEdges
      <4>2. CASE e.src = FakeNode
        BY <4>1, <4>2, <1>b
      <4>3. CASE e.src \in f.nodes
        <5>1. PICK i \in 1 .. Len(f.topo) : f.topo[i] = e.src
          BY <4>3, <1>a
        <5>2. i < k + 1
          BY <4>1, <5>1, <2>2, <1>a
        <5>3. i \in 1 .. k
          BY <5>2
        <5> QED
          BY <4>1, <5>1, <5>3, <1>b
      <4> QED
        BY <4>1, <4>2, <4>3, <1>a
    <3> QED
      BY <2>2, <3>1, <1>2, <1>3
  <2> QED
    BY <2>1, <2>2
<1>7. Partition(q.nodes \cap f.info, q.txs)
  <2>1. q.nodes \cap f.info = (s.nodes \cap f.info) \cup Members(p.tx)
    BY <1>2, <1>3
  <2>2. CASE p.tx = <<>>
    <3>1. \A n : n \notin Members(p.tx)
      BY <2>2 DEF Members
    <3>2. q.nodes \cap f.info = s.nodes \cap f.info /\ q.txs = s.txs
      BY <2>1, <2>2, <3>1, <1>2
    <3> QED
      BY <3>2, <1>b
  <2>3. CASE p.tx # <<>>
    <3> DEFINE ns == s.nodes \cap f.info
    <3>1. Partition(ns, s.txs) /\ \A n \in Members(p.tx) : n \notin ns
      BY <1>b, <1>3
    <3> HIDE DEF ns
    <3>2. Partition(ns \cup Members(p.tx), Append(s.txs, p.tx))
      BY ONLY <3>1, <1>c, <1>4, PartitionAppend
    <3> QED
      BY <2>1, <2>3, <3>2, <1>2 DEF ns
  <2> QED
    BY <2>2, <2>3
<1>8. SortInv(f, q, k + 1)
  BY <1>2, <1>5, <1>6, <1>7 DEF SortInv
<1> QED
  BY <1>8 DEF q

\* sort_transactions puts each instruction node of a flow into one transaction.
LEMMA SortFacts ==
  ASSUME NEW f \in Flows, ~f.invalid
  PROVE  /\ sort_transactions(f) \in Seq(Seq(f.nodes))
         /\ Partition(f.nodes \cap f.info, sort_transactions(f))
<1>a. /\ f.topo \in Seq(f.nodes) /\ IsFiniteSet(f.nodes) /\ Len(f.topo) = Cardinality(f.nodes)
      /\ \A n \in f.nodes : \E i \in 1 .. Len(f.topo) : f.topo[i] = n
      /\ FakeNode \notin f.nodes
  BY FlowsAssumption
<1> DEFINE N == Cardinality(f.nodes)
<1>1. N \in Nat
  BY <1>a, FS_CardinalityType
<1>2. PICK S : /\ S[0] = [nodes |-> {}, edges |-> FakeEdges(f), txs |-> <<>>]
               /\ \A k \in 1 .. N : S[k] = NextPass(f, S[k - 1])
               /\ sort_transactions(f) = S[N].txs
  BY <1>a, <1>1, SortDef
<1> DEFINE Bad == {k \in 0 .. N : ~SortInv(f, S[k], k)}
<1>3. Bad = {}
  <2> SUFFICES ASSUME Bad # {} PROVE FALSE
    OBVIOUS
  <2>1. Bad \subseteq Nat
    OBVIOUS
  <2>2. PICK m \in Bad : \A k \in Bad : m <= k
    BY <2>1, LeastElement
  <2>3. m \in 0 .. N /\ ~SortInv(f, S[m], m)
    BY <2>2
  <2>4. m # 0
    <3>1. S[0] \in Sorts(f) /\ S[0].nodes = {} /\ S[0].edges = FakeEdges(f) /\ S[0].txs = <<>>
      BY <1>2, EmptyFacts DEF Sorts, FakeEdges, OutEdges
    <3>2. Partition({} \cap f.info, <<>>)
      BY DEF Partition, InTx
    <3>3. SortInv(f, S[0], 0)
      BY <3>1, <3>2 DEF SortInv, FakeEdges, OutEdges
    <3> QED
      BY <2>3, <3>3
  <2>5. m - 1 \in Nat /\ m \in 1 .. N /\ (m - 1) + 1 = m /\ m - 1 \in 0 .. N /\ ~(m <= m - 1)
    BY <1>1, <2>3, <2>4
  <2>6. SortInv(f, S[m - 1], m - 1)
    BY <2>2, <2>5
  <2>7. SortInv(f, NextPass(f, S[m - 1]), m)
    <3> DEFINE k == m - 1
    <3>1. k \in Nat /\ k + 1 \in 1 .. Len(f.topo) /\ SortInv(f, S[k], k) /\ k + 1 = m
      BY <1>a, <2>5, <2>6
    <3> HIDE DEF k
    <3>2. SortInv(f, NextPass(f, S[k]), k + 1)
      BY <3>1, NextPassInv
    <3> QED
      BY <3>1, <3>2 DEF k
  <2>8. S[m] = NextPass(f, S[m - 1])
    BY <1>2, <2>5
  <2> QED
    BY <2>3, <2>7, <2>8
<1>4. SortInv(f, S[N], N)
  BY <1>1, <1>3
<1>5. /\ S[N] \in Sorts(f) /\ \A j \in 1 .. Len(f.topo) : f.topo[j] \in S[N].nodes
      /\ Partition(S[N].nodes \cap f.info, S[N].txs)
  BY <1>4, <1>a DEF SortInv
<1>6. S[N].nodes = f.nodes /\ S[N].txs \in Seq(Seq(f.nodes))
  <2>1. PICK s : s = S[N]
    OBVIOUS
  <2>2. s \in Sorts(f) /\ \A j \in 1 .. Len(f.topo) : f.topo[j] \in s.nodes
    BY <2>1, <1>5
  <2>3. s.nodes \in SUBSET f.nodes /\ s.txs \in Seq(Seq(f.nodes))
    BY <2>2 DEF Sorts
  <2>4. f.nodes \subseteq s.nodes
    BY <2>2, <1>a
  <2> QED
    BY <2>1, <2>3, <2>4
<1> QED
  BY <1>2, <1>5, <1>6

-----------------------------------------------------------------------------
(* The theorems *)

\* A run starts with all nodes idle.
LEMMA InitInv == Init => Inv
<1> SUFFICES ASSUME Init PROVE Inv
  OBVIOUS
<1>1. /\ flow \in Flows /\ sorted = sort_transactions(flow) /\ nodes = flow.nodes
      /\ ran = [n \in flow.nodes |-> 0]
      /\ running = {} /\ info = {} /\ waiting = {} /\ errors = {}
      /\ tracker = [n \in flow.nodes |-> {}]
      /\ outputs = [n \in flow.nodes |-> {}]
      /\ out = <<>>
      /\ stop = flow.invalid /\ stop_shared = FALSE
      /\ pc = "top" /\ pos = 1 /\ started = FALSE
      /\ outs = <<>> /\ fins = {}
      /\ txs = <<>> /\ bundle = <<>> /\ group = <<>>
      /\ task = [n \in flow.nodes |-> "none"]
  BY DEF Init
<1>2. flow.order \in Seq(flow.nodes) /\ flow.invalid \in BOOLEAN
  BY <1>1, FlowsAssumption
<1>3. queue \in [flow.edges -> Seq(EdgeValues)]
  <2>1. PICK s \in [FakeEdges(flow) -> Supplied] :
          queue = [e \in flow.edges |-> IF e \in FakeEdges(flow) THEN s[e] ELSE <<>>]
    BY DEF Init
  <2>2. \A v \in {"none", "some", "false"}, t \in Trackers : Value(v, t) \in EdgeValues
    BY DEF Value, EdgeValues
  <2>3. {} \in Trackers /\ \A i \in Nat : {<<FakeNode, i>>} \in Trackers
    BY DEF Trackers
  <2>4. \A k \in 1 .. MaxArray : [i \in 1 .. k |-> Value("some", {<<FakeNode, i>>})] \in Seq(EdgeValues)
    BY <2>2, <2>3, MaxArrayAssumption
  <2>5. <<Value("some", {})>> \in Seq(EdgeValues) /\ <<>> \in Seq(EdgeValues)
    BY <2>2, <2>3, EmptyFacts
  <2>6. Supplied \subseteq Seq(EdgeValues)
    BY <2>4, <2>5 DEF Supplied
  <2> QED
    BY <2>1, <2>5, <2>6
<1>4. TypeOK
  <2>1. \A n \in flow.nodes : outputs[n] \subseteq flow.ports[n]
    BY <1>1
  <2>2. tracker \in [flow.nodes -> Trackers]
    BY <1>1 DEF Trackers
  <2>3. task \in [flow.nodes -> TaskStates] /\ ran \in [flow.nodes -> Nat] /\ DOMAIN outputs = flow.nodes
    BY <1>1 DEF TaskStates
  <2>4. pos \in 1 .. Len(flow.order) + 1 /\ pc \in LoopStates
    BY <1>1, <1>2 DEF LoopStates
  <2> QED
    BY <1>1, <1>2, <1>3, <2>1, <2>2, <2>3, <2>4, EmptyFacts DEF TypeOK
<1>5. SortedInv
  BY <1>1, SortFacts DEF SortedInv, Partition
<1>6. InvalidInv /\ NodesInv /\ TaskInv
  BY <1>1 DEF InvalidInv, NodesInv, TaskInv, Ended, Executing
<1>7. ChannelInv /\ ExecInv
  BY <1>1 DEF ChannelInv, ExecInv, Ended, Executing
<1> QED
  BY <1>4, <1>5, <1>6, <1>7 DEF Inv

\* A step that changes nothing.
LEMMA StutterInv ==
  ASSUME Inv, UNCHANGED vars
  PROVE  Inv'
<1>1. /\ UNCHANGED <<flow, sorted, nodes, queue, ran, tracker, outputs, errors>>
      /\ UNCHANGED <<running, info, waiting, out, outs, fins, txs, bundle, group, task>>
      /\ UNCHANGED <<stop, stop_shared, pc, pos, started>>
  BY DEF vars
<1>2. TypeOK'
  BY <1>1, TypeFrame DEF Inv, TypeOK
<1>3. SortedInv' /\ ExecInv' /\ TaskInv' /\ ChannelInv'
  BY <1>1, SortedFrame, ExecFrame, TaskFrame, ChannelFrame DEF Inv
<1>4. InvalidInv' /\ NodesInv'
  BY <1>1 DEF Inv, InvalidInv, NodesInv
<1> QED
  BY <1>2, <1>3, <1>4 DEF Inv

\* Every step keeps the invariant.
LEMMA NextInv == Inv /\ [Next]_vars => Inv'
<1> SUFFICES ASSUME Inv, [Next]_vars PROVE Inv'
  OBVIOUS
<1>1. CASE Loop
  BY <1>1, RoundTopInv, StartNodeInv, SkipNodeInv, ScanEndInv, WaitInv, SaveOutputsInv, RoundEndInv,
     NodeFinishedInv, EndInv, CollectInstructionsInv, TxIncompleteInv, TxCompleteInv, NextGroupInv,
     OutputInstructionsInv, ExecuteStartInv, ExecutedInv, ExecuteEndInv DEF Loop
<1>2. ASSUME NEW n \in flow.nodes, Command(n) PROVE Inv'
  BY <1>2, CommandInv
<1>3. CASE Stop \/ StopShared
  BY <1>3, StopInv
<1>4. CASE Terminated \/ UNCHANGED vars
  BY <1>4, StutterInv DEF Terminated
<1> QED
  BY <1>1, <1>2, <1>3, <1>4 DEF Next

\* The inductive invariant holds in every reachable state.
THEOREM InvHolds == Spec => []Inv
  BY InitInv, NextInv, PTL DEF Spec

\* The types of the loop, of the graph and of the commands.
THEOREM TypeCorrect == Spec => []TypeOK
<1>1. Inv => TypeOK
  BY DEF Inv
<1> QED
  BY <1>1, InvHolds, PTL

\* No expect() and no unreachable!() of the loop fails, for any flow.
THEOREM LoopNeverPanicsHolds == Spec => []LoopNeverPanics
  BY InvHolds, InvLoopNeverPanics, PTL

\* The loop never waits for commands that all wait for the loop, for any flow.
THEOREM NoStuckWaitHolds == Spec => []NoStuckWait
  BY InvHolds, InvNoStuckWait, PTL

\* No transaction is sent in which a node is missing, for any flow.
THEOREM BundleIsWholeHolds == Spec => []BundleIsWhole
  BY InvHolds, InvBundleIsWhole, PTL

\* sort_transactions puts every instruction node of a flow into exactly one transaction.
THEOREM SortIsPartition ==
  ASSUME NEW f \in Flows, ~f.invalid
  PROVE  \A n \in f.nodes \cap f.info :
           \E i \in 1 .. Len(sort_transactions(f)) :
             /\ n \in Members(sort_transactions(f)[i])
             /\ \A j \in 1 .. Len(sort_transactions(f)) : n \in Members(sort_transactions(f)[j]) => j = i
<1> DEFINE ts == sort_transactions(f)
<1>1. Partition(f.nodes \cap f.info, ts)
  BY SortFacts
<1> HIDE DEF ts
<1>2. \A n \in f.nodes \cap f.info : \E i \in 1 .. Len(ts) :
        n \in Members(ts[i]) /\ \A j \in 1 .. Len(ts) : n \in Members(ts[j]) => j = i
  BY <1>1 DEF Partition, InTx
<1> QED
  BY <1>2 DEF ts

-----------------------------------------------------------------------------
(* What a step does to the graph *)

\* No value and no node changes.
Rests == UNCHANGED <<nodes, queue, ran, tracker, outputs, errors>>

\* A node starts.
Starts(n) ==
  /\ pc = "scan" /\ n \in nodes /\ ready(n)
  /\ nodes' = nodes \ {n} /\ ran' = [ran EXCEPT ![n] = @ + 1]
  /\ queue' = TakenQueue(n) /\ tracker' = [tracker EXCEPT ![n] = TakenTracker(n)]
  /\ outputs' = [outputs EXCEPT ![n] = {}] /\ errors' = errors

\* A node outputs something while it runs.
Saves(n, ps, k, flag) ==
  /\ pc = "save" /\ outs # <<>> /\ n = Head(outs).node /\ n \in info
  /\ SaveValues(n, ps, k, flag, {})
  /\ UNCHANGED <<nodes, ran, tracker>>
  /\ errors \subseteq errors' /\ (n \notin flow.info => errors' # {})

\* A node ends, with an error or with the outputs that it must have.
Ends(n, ps, k, flag) ==
  /\ pc = "save" /\ outs = <<>> /\ n \in info
  /\ SaveValues(n, ps, k, flag, flow.ports[n] \ (outputs[n] \cup ps))
  /\ nodes' = nodes \cup {n} /\ UNCHANGED <<ran, tracker>>
  /\ errors \subseteq errors'
  /\ errors' = {} => ps \in LastOutputs(n) /\ flow.must[n] \subseteq outputs[n] \cup ps

\* Every step is one of these.
LEMMA GraphStep ==
  ASSUME Inv, [Next]_vars
  PROVE  /\ flow' = flow
         /\ \/ Rests
            \/ \E n \in flow.nodes : Starts(n)
            \/ \E n \in flow.nodes : \E ps \in SUBSET flow.ports[n], k \in Lengths(n), flag \in {"some", "false"} :
                 Saves(n, ps, k, flag) \/ Ends(n, ps, k, flag)
<1> DEFINE Goal ==
      /\ flow' = flow
      /\ \/ Rests
         \/ \E n \in flow.nodes : Starts(n)
         \/ \E n \in flow.nodes : \E ps \in SUBSET flow.ports[n], k \in Lengths(n), flag \in {"some", "false"} :
              Saves(n, ps, k, flag) \/ Ends(n, ps, k, flag)
<1>1. CASE RoundTop \/ SkipNode \/ ScanEnd \/ wait \/ RoundEnd \/ \E n \in flow.nodes : NodePanicked(n)
  BY <1>1 DEF RoundTop, SkipNode, ScanEnd, wait, RoundEnd, NodePanicked, graphVars, Rests
<1>2. CASE CollectInstructions \/ TxIncomplete \/ TxComplete \/ NextGroup \/ OutputInstructions
  BY <1>2 DEF CollectInstructions, TxIncomplete, TxComplete, NextGroup, OutputInstructions, graphVars, Rests
<1>3. CASE ExecuteStart \/ ExecuteOk \/ ExecuteErr \/ ExecuteEnd \/ FlowFinish
  BY <1>3 DEF ExecuteStart, ExecuteOk, ExecuteErr, ExecuteEnd, FlowFinish, graphVars, Rests
<1>4. CASE StartNode
  <2>1. pc = "scan" /\ pos \in 1 .. Len(flow.order) /\ flow.order \in Seq(flow.nodes)
    BY <1>4, FlowFacts DEF StartNode, Inv, TypeOK
  <2>2. PICK n \in flow.nodes : n = flow.order[pos]
    BY <2>1
  <2>3. n \in nodes /\ ready(n) /\ start_node(n) /\ flow' = flow /\ errors' = errors
    BY <1>4, <2>2 DEF StartNode
  <2>4. Starts(n)
    BY <2>1, <2>3 DEF start_node, Starts
  <2> QED
    BY <2>3, <2>4
<1>5. CASE SaveOutputs
  <2>1. pc = "save" /\ outs # <<>> /\ flow' = flow /\ UNCHANGED <<nodes, ran, tracker>>
    BY <1>5 DEF SaveOutputs
  <2>2. Head(outs).node \in info /\ info \subseteq flow.nodes
    BY <2>1, InvLoopNeverPanics DEF LoopNeverPanics, TypeOK
  <2>3. PICK n \in flow.nodes : n = Head(outs).node
    BY <2>2
  <2>4. PICK ps \in SUBSET (flow.ports[n] \cap flow.before[n]), k \in Lengths(n), flag \in Flags(n) :
          SaveValues(n, ps, k, flag, {})
    BY <1>5, <2>3 DEF SaveOutputs
  <2>5. errors \subseteq errors' /\ (n \notin flow.info => errors' # {})
    BY <1>5, <2>3 DEF SaveOutputs
  <2>6. flag \in {"some", "false"} /\ ps \in SUBSET flow.ports[n]
    BY <2>4 DEF Flags
  <2>7. Saves(n, ps, k, flag)
    BY <2>1, <2>2, <2>3, <2>4, <2>5 DEF Saves
  <2> QED
    BY <2>1, <2>6, <2>7
<1>6. ASSUME NEW n \in flow.nodes, NodeFinishedOk(n) PROVE Goal
  <2>1. /\ pc = "save" /\ outs = <<>> /\ n \in fins /\ flow' = flow
        /\ nodes' = nodes \cup {n} /\ UNCHANGED <<ran, tracker>>
    BY <1>6 DEF NodeFinishedOk, FinishNode
  <2>2. n \in info
    BY <2>1, InvLoopNeverPanics DEF LoopNeverPanics
  <2>3. PICK ps \in LastOutputs(n), k \in Lengths(n), flag \in Flags(n) :
          /\ SaveValues(n, ps, k, flag, flow.ports[n] \ (outputs[n] \cup ps))
          /\ errors' = IF flow.must[n] \subseteq outputs[n] \cup ps THEN errors ELSE errors \cup {n}
    BY <1>6 DEF NodeFinishedOk
  <2>4. flag \in {"some", "false"} /\ ps \in SUBSET flow.ports[n]
    BY <2>3 DEF Flags, LastOutputs
  <2>5. Ends(n, ps, k, flag)
    BY <2>1, <2>2, <2>3 DEF Ends
  <2> QED
    BY <2>1, <2>4, <2>5
<1>7. ASSUME NEW n \in flow.nodes, NodeFinishedErr(n) PROVE Goal
  <2>1. /\ pc = "save" /\ outs = <<>> /\ n \in fins /\ flow' = flow
        /\ nodes' = nodes \cup {n} /\ UNCHANGED <<ran, tracker>>
        /\ SaveValues(n, {}, 1, "some", flow.ports[n] \ outputs[n])
        /\ errors' = errors \cup {n}
    BY <1>7 DEF NodeFinishedErr, FinishNode
  <2>2. n \in info
    BY <2>1, InvLoopNeverPanics DEF LoopNeverPanics
  <2>3. \A k : SaveValues(n, {}, k, "some", flow.ports[n] \ (outputs[n] \cup {}))
    BY <2>1 DEF SaveValues
  <2>4. PICK k \in Lengths(n) : TRUE
    BY MaxArrayAssumption DEF Lengths
  <2>5. Ends(n, {}, k, "some")
    BY <2>1, <2>2, <2>3 DEF Ends
  <2> QED
    BY <2>1, <2>5
<1>8. ASSUME NEW n \in flow.nodes, Command(n) PROVE Goal
  BY <1>8, CommandFacts DEF TaskChange, graphVars, Rests
<1>9. CASE Stop \/ StopShared \/ Terminated \/ UNCHANGED vars
  BY <1>9 DEF Stop, StopShared, Terminated, vars, graphVars, Rests
<1> HIDE DEF Goal
<1>10. Goal
  BY <1>1, <1>2, <1>3, <1>4, <1>5, <1>6, <1>7, <1>8, <1>9 DEF Next, Loop, Goal
<1> QED
  BY <1>10 DEF Goal

\* The first value of an edge is taken off.
Popped(e) ==
  /\ Len(queue[e]) \in Nat \ {0} /\ Len(queue'[e]) = Len(queue[e]) - 1
  /\ \A i \in 1 .. Len(queue'[e]) : i + 1 \in 1 .. Len(queue[e]) /\ queue'[e][i] = queue[e][i + 1]

\* What starting a node does to its incoming edges, and to no other edge.
LEMMA StartFacts ==
  ASSUME TypeOK, NEW n \in flow.nodes, Starts(n)
  PROVE  /\ ran'[n] = ran[n] + 1 /\ tracker'[n] = TakenTracker(n)
         /\ \A m \in flow.nodes : m # n => ran'[m] = ran[m] /\ tracker'[m] = tracker[m]
         /\ \A e \in flow.edges : e.dst # n => queue'[e] = queue[e]
         /\ \A e \in flow.edges : e.dst = n /\ flow.kind[n] = "collect" => queue'[e] = <<>>
         /\ \A e \in flow.edges : e.dst = n /\ flow.kind[n] # "collect" =>
              /\ HasValue(e) /\ is_array(Front(e).tracker) => Popped(e)
              /\ ~(HasValue(e) /\ is_array(Front(e).tracker)) => queue'[e] = queue[e]
<1>1. ran'[n] = ran[n] + 1 /\ \A m \in flow.nodes : m # n => ran'[m] = ran[m]
  BY DEF Starts, TypeOK
<1>2. tracker'[n] = TakenTracker(n) /\ \A m \in flow.nodes : m # n => tracker'[m] = tracker[m]
  BY DEF Starts, TypeOK
<1>3. \A e \in flow.edges : queue'[e] =
        IF e.dst # n THEN queue[e]
        ELSE IF flow.kind[n] = "collect" THEN <<>>
        ELSE IF HasValue(e) /\ is_array(Front(e).tracker) THEN Tail(queue[e])
        ELSE queue[e]
  BY DEF Starts, TakenQueue
<1>4. ASSUME NEW e \in flow.edges, HasValue(e)
      PROVE  /\ Len(queue[e]) \in Nat \ {0} /\ Len(Tail(queue[e])) = Len(queue[e]) - 1
             /\ \A i \in 1 .. Len(Tail(queue[e])) :
                  i + 1 \in 1 .. Len(queue[e]) /\ Tail(queue[e])[i] = queue[e][i + 1]
  <2>1. queue[e] \in Seq(EdgeValues) /\ queue[e] # <<>>
    BY <1>4 DEF TypeOK, HasValue, HasFront
  <2> QED
    BY <2>1, TailFacts
<1>5. ASSUME NEW e \in flow.edges, e.dst = n, flow.kind[n] # "collect", HasValue(e), is_array(Front(e).tracker)
      PROVE  Popped(e)
  <2>1. queue'[e] = Tail(queue[e])
    BY <1>3, <1>5
  <2> QED
    BY <1>4, <1>5, <2>1 DEF Popped
<1>6. ASSUME NEW e \in flow.edges, e.dst = n, flow.kind[n] # "collect", ~(HasValue(e) /\ is_array(Front(e).tracker))
      PROVE  queue'[e] = queue[e]
  BY <1>3, <1>6
<1>7. \A e \in flow.edges : e.dst # n => queue'[e] = queue[e]
  BY <1>3
<1>8. \A e \in flow.edges : e.dst = n /\ flow.kind[n] = "collect" => queue'[e] = <<>>
  BY <1>3
<1> QED
  BY <1>1, <1>2, <1>5, <1>6, <1>7, <1>8, Zenon

\* A value that node n has pushed on its edge e as the i-th.
NewValue(n, ps, missing, e, i) ==
  \/ /\ flow.kind[n] = "foreach" /\ e.from \in ps
     /\ queue'[e][i].value = "some"
     /\ queue'[e][i].tracker = tracker[n] \cup {<<n, i - Len(queue[e])>>}
  \/ /\ flow.kind[n] # "foreach" /\ e.from \in ps
     /\ queue'[e][i].value # "none" /\ queue'[e][i].tracker = tracker[n]
  \/ /\ e.opt /\ e.from \in missing /\ e.from \notin ps
     /\ queue'[e][i].value = "none" /\ queue'[e][i].tracker = tracker[n]
Grown(n, ps, k, missing, e) ==
  /\ e.src # n => queue'[e] = queue[e]
  /\ Len(queue[e]) \in Nat /\ Len(queue'[e]) \in Nat /\ Len(queue[e]) <= Len(queue'[e])
  /\ \A i \in 1 .. Len(queue[e]) : queue'[e][i] = queue[e][i]
  /\ \A i \in Len(queue[e]) + 1 .. Len(queue'[e]) : NewValue(n, ps, missing, e, i)
  /\ e.src = n /\ e.from \in ps =>
       Len(queue'[e]) = Len(queue[e]) + (IF flow.kind[n] = "foreach" THEN k ELSE 1)
  /\ e.src = n /\ e.from \notin ps /\ e.opt /\ e.from \in missing => Len(queue'[e]) = Len(queue[e]) + 1
  /\ e.src = n /\ e.from \notin ps /\ ~(e.opt /\ e.from \in missing) => queue'[e] = queue[e]

\* What the values are that a node pushes on its outgoing edges; other edges stay as they are.
LEMMA SaveFacts ==
  ASSUME TypeOK, NEW n \in flow.nodes, NEW ps \in SUBSET flow.ports[n], NEW k \in Lengths(n),
         NEW flag \in {"some", "false"}, NEW missing, SaveValues(n, ps, k, flag, missing)
  PROVE  \A e \in flow.edges : Grown(n, ps, k, missing, e)
<1>1. k \in Nat
  BY MaxArrayAssumption DEF Lengths
<1>2. \A e \in flow.edges : queue[e] \in Seq(EdgeValues)
  BY DEF TypeOK
<1>3. \A e \in flow.edges : queue'[e] =
        IF e.src = n /\ e.from \in ps THEN queue[e] \o Pushed(n, e, k, flag)
        ELSE IF e.src = n /\ e.opt /\ e.from \in missing THEN Append(queue[e], Value("none", tracker[n]))
        ELSE queue[e]
  BY DEF SaveValues
<1>4. tracker[n] \in Trackers
  BY DEF TypeOK
<1>5. \A v \in {"none", "some", "false"}, t \in Trackers :
        Value(v, t) \in EdgeValues /\ Value(v, t).value = v /\ Value(v, t).tracker = t
  BY DEF Value, EdgeValues
<1>6. \A i \in 1 .. k : tracker[n] \cup {<<n, i>>} \in Trackers
  BY <1>1, <1>4 DEF Trackers
<1> SUFFICES ASSUME NEW e \in flow.edges PROVE Grown(n, ps, k, missing, e)
  OBVIOUS
<1>7. PICK q \in Seq(EdgeValues) : q = queue[e]
  BY <1>2
<1>8. CASE e.src # n
  <2>1. queue'[e] = q /\ Len(q) \in Nat
    BY <1>3, <1>7, <1>8
  <2> QED
    BY <1>7, <1>8, <2>1 DEF Grown
<1>9. CASE e.src = n /\ e.from \in ps /\ flow.kind[n] = "foreach"
  <2> DEFINE t == [i \in 1 .. k |-> Value("some", tracker[n] \cup {<<n, i>>})]
  <2>1. t \in Seq(EdgeValues) /\ Len(t) = k
    BY <1>1, <1>5, <1>6
  <2>2. \A i \in 1 .. k : t[i].value = "some" /\ t[i].tracker = tracker[n] \cup {<<n, i>>}
    BY <1>5, <1>6
  <2>3. queue'[e] = q \o t
    BY <1>3, <1>7, <1>9 DEF Pushed
  <2> HIDE DEF t
  <2>4. /\ Len(q) \in Nat /\ Len(queue'[e]) = Len(q) + k
        /\ \A i \in 1 .. Len(q) : queue'[e][i] = q[i]
        /\ \A i \in 1 .. Len(t) : queue'[e][Len(q) + i] = t[i]
    <3>1. q \o t \in Seq(EdgeValues) /\ Len(q) \in Nat /\ Len(q \o t) = Len(q) + Len(t)
      BY <2>1, ConcatFacts
    <3>2. \A i \in 1 .. Len(q) : (q \o t)[i] = q[i]
      BY <2>1, ConcatFacts
    <3>3. \A i \in 1 .. Len(t) : (q \o t)[Len(q) + i] = t[i]
      BY <2>1, ConcatFacts
    <3> QED
      BY <2>1, <2>3, <3>1, <3>2, <3>3
  <2>5. \A i \in Len(q) + 1 .. Len(queue'[e]) : i - Len(q) \in 1 .. k /\ Len(q) + (i - Len(q)) = i
    BY <2>4, <1>1
  <2>6. \A i \in Len(q) + 1 .. Len(queue'[e]) : queue'[e][i] = t[i - Len(q)]
    BY <2>1, <2>4, <2>5
  <2>7. \A i \in Len(q) + 1 .. Len(queue'[e]) :
          queue'[e][i].value = "some" /\ queue'[e][i].tracker = tracker[n] \cup {<<n, i - Len(q)>>}
    BY <2>2, <2>5, <2>6
  <2> QED
    BY <1>1, <1>7, <1>9, <2>4, <2>7 DEF Grown, NewValue
<1>10. CASE e.src = n /\ e.from \in ps /\ flow.kind[n] # "foreach"
  <2>1. PICK v \in {"some", "false"} : queue'[e] = q \o <<Value(v, tracker[n])>>
    BY <1>3, <1>7, <1>10 DEF Pushed
  <2>2. PICK x \in EdgeValues : x = Value(v, tracker[n]) /\ x.value # "none" /\ x.tracker = tracker[n]
    BY <1>4, <1>5
  <2>3. queue'[e] = Append(q, x)
    BY <2>1, <2>2
  <2>4. /\ Len(q) \in Nat /\ Len(queue'[e]) = Len(q) + 1 /\ queue'[e][Len(q) + 1] = x
        /\ \A i \in 1 .. Len(q) : queue'[e][i] = q[i]
    BY <2>3, AppendFacts
  <2>5. \A i \in Len(q) + 1 .. Len(queue'[e]) : queue'[e][i] = x
    BY <2>4
  <2> QED
    BY <1>7, <1>10, <2>2, <2>4, <2>5 DEF Grown, NewValue
<1>11. CASE e.src = n /\ e.from \notin ps /\ e.opt /\ e.from \in missing
  <2>1. PICK x \in EdgeValues : x = Value("none", tracker[n]) /\ x.value = "none" /\ x.tracker = tracker[n]
    BY <1>4, <1>5
  <2>3. queue'[e] = Append(q, x)
    BY <1>3, <1>7, <1>11, <2>1
  <2>4. /\ Len(q) \in Nat /\ Len(queue'[e]) = Len(q) + 1 /\ queue'[e][Len(q) + 1] = x
        /\ \A i \in 1 .. Len(q) : queue'[e][i] = q[i]
    BY <2>3, AppendFacts
  <2>5. \A i \in Len(q) + 1 .. Len(queue'[e]) : queue'[e][i] = x
    BY <2>4
  <2> QED
    BY <1>7, <1>11, <2>1, <2>4, <2>5 DEF Grown, NewValue
<1>12. CASE e.src = n /\ e.from \notin ps /\ ~(e.opt /\ e.from \in missing)
  <2>1. queue'[e] = q /\ Len(q) \in Nat
    BY <1>3, <1>7, <1>12
  <2> QED
    BY <1>7, <1>12, <2>1 DEF Grown
<1>13. \/ e.src # n
       \/ e.src = n /\ e.from \in ps /\ flow.kind[n] = "foreach"
       \/ e.src = n /\ e.from \in ps /\ flow.kind[n] # "foreach"
       \/ e.src = n /\ e.from \notin ps /\ e.opt /\ e.from \in missing
       \/ e.src = n /\ e.from \notin ps /\ ~(e.opt /\ e.from \in missing)
  BY Zenon
<1> QED
  BY <1>8, <1>9, <1>10, <1>11, <1>12, <1>13, Zenon

-----------------------------------------------------------------------------
(* Loops *)

\* The nodes of loops are closed: what they feed is one of them or a collect node.
LEMMA LoopClosed ==
  ASSUME TypeOK, NEW e \in flow.edges, Repeats(flow, InLoop(flow), e.src), flow.kind[e.dst] # "collect"
  PROVE  e.dst \in InLoop(flow)
<1>1. e.dst \in flow.nodes
  BY FlowFacts
<1>2. ASSUME NEW L \in SUBSET flow.nodes, Loops(flow, L)
      PROVE  e.dst \in L
  <2>1. Repeats(flow, L, e.src)
    BY <1>2 DEF Repeats, InLoop
  <2> QED
    BY <1>2, <2>1 DEF Loops
<1> QED
  BY <1>1, <1>2 DEF InLoop

\* The first value of an edge.
LEMMA FrontIsFirst ==
  ASSUME TypeOK, NEW e \in flow.edges, HasFront(e)
  PROVE  /\ 1 \in 1 .. Len(queue[e]) /\ Front(e) = queue[e][1]
         /\ Front(e).tracker \in Trackers
<1>1. queue[e] \in Seq(EdgeValues) /\ queue[e] # <<>>
  BY DEF TypeOK, HasFront
<1>2. Len(queue[e]) \in Nat \ {0} /\ Head(queue[e]) = queue[e][1] /\ Head(queue[e]) \in EdgeValues
  BY <1>1, TailFacts
<1> QED
  BY <1>2 DEF Front, EdgeValues

LoopValue(e, v) ==
  is_array(v.tracker) =>
    /\ Repeats(flow, InLoop(flow), e.src)
    /\ v.value = "none" => e.src \in InLoop(flow) /\ e.opt

\* Before the first step only the fake node has given something.
LEMMA InitLoop == Init => LoopInv
<1> SUFFICES ASSUME Init PROVE LoopInv
  OBVIOUS
<1>1. tracker = [n \in flow.nodes |-> {}]
  BY DEF Init
<1>2. PICK s \in [FakeEdges(flow) -> Supplied] :
        queue = [e \in flow.edges |-> IF e \in FakeEdges(flow) THEN s[e] ELSE <<>>]
  BY DEF Init
<1>3. \A v \in {"none", "some", "false"} : \A t : Value(v, t).value = v
  BY DEF Value
<1>4. ASSUME NEW e \in flow.edges, NEW i \in 1 .. Len(queue[e])
      PROVE  e.src = FakeNode /\ queue[e][i].value = "some"
  <2>1. CASE e \in FakeEdges(flow)
    <3>1. e.src = FakeNode /\ queue[e] \in Supplied
      BY <1>2, <2>1 DEF FakeEdges, OutEdges
    <3>2. CASE queue[e] = <<>>
      BY <3>2
    <3>3. CASE queue[e] = <<Value("some", {})>>
      BY <3>1, <3>3, <1>3
    <3>4. ASSUME NEW k \in 1 .. MaxArray, queue[e] = [j \in 1 .. k |-> Value("some", {<<FakeNode, j>>})]
          PROVE  queue[e][i].value = "some"
      <4>1. i \in 1 .. k
        BY <3>4, MaxArrayAssumption
      <4>2. queue[e][i] = Value("some", {<<FakeNode, i>>})
        BY <3>4, <4>1
      <4> QED
        BY <4>2, <1>3
    <3> QED
      BY <3>1, <3>2, <3>3, <3>4 DEF Supplied
  <2>2. CASE e \notin FakeEdges(flow)
    <3>1. queue[e] = <<>>
      BY <1>2, <2>2
    <3> QED
      BY <3>1
  <2> QED
    BY <2>1, <2>2
<1> QED
  BY <1>1, <1>4 DEF LoopInv, Repeats, is_array

\* Elements of arrays stay in the loops.
LEMMA NextLoop == Inv /\ LoopInv /\ [Next]_vars => LoopInv'
<1> SUFFICES ASSUME Inv, LoopInv, [Next]_vars PROVE LoopInv'
  OBVIOUS
<1>0. flow' = flow /\ TypeOK
  BY GraphStep DEF Inv
<1>1. /\ \A n \in flow.nodes : is_array(tracker[n]) => n \in InLoop(flow)
      /\ \A e \in flow.edges : \A i \in 1 .. Len(queue[e]) : LoopValue(e, queue[e][i])
  BY DEF LoopInv, LoopValue
<1> SUFFICES /\ \A n \in flow.nodes : is_array(tracker'[n]) => n \in InLoop(flow)
             /\ \A e \in flow.edges : \A i \in 1 .. Len(queue'[e]) : LoopValue(e, queue'[e][i])
  BY <1>0 DEF LoopInv, LoopValue, is_array, Repeats
<1>2. CASE Rests
  BY <1>1, <1>2 DEF Rests
<1>3. ASSUME NEW n \in flow.nodes, Starts(n)
      PROVE  /\ \A m \in flow.nodes : is_array(tracker'[m]) => m \in InLoop(flow)
             /\ \A e \in flow.edges : \A i \in 1 .. Len(queue'[e]) : LoopValue(e, queue'[e][i])
  <2>1. ASSUME is_array(TakenTracker(n)) PROVE n \in InLoop(flow)
    <3>1. flow.kind[n] # "collect"
      BY <2>1 DEF TakenTracker, is_array
    <3>2. PICK e \in InEdges(flow, n) : HasValue(e) /\ is_array(Front(e).tracker)
      BY <2>1, <3>1 DEF TakenTracker, is_array
    <3>3. e \in flow.edges /\ e.dst = n /\ HasFront(e)
      BY <3>2 DEF InEdges, HasValue
    <3>4. Repeats(flow, InLoop(flow), e.src)
      BY <1>0, <1>1, <3>2, <3>3, FrontIsFirst DEF LoopValue
    <3> QED
      BY <1>0, <3>1, <3>3, <3>4, LoopClosed
  <2>2. /\ tracker'[n] = TakenTracker(n) /\ \A m \in flow.nodes : m # n => tracker'[m] = tracker[m]
        /\ \A e \in flow.edges : queue'[e] = queue[e] \/ queue'[e] = <<>> \/ Popped(e)
    BY <1>0, <1>3, StartFacts
  <2>3. ASSUME NEW e \in flow.edges, NEW i \in 1 .. Len(queue'[e])
        PROVE  \E j \in 1 .. Len(queue[e]) : queue'[e][i] = queue[e][j]
    <3>1. CASE queue'[e] = queue[e]
      BY <3>1
    <3>2. CASE queue'[e] = <<>>
      BY <3>2
    <3>3. CASE Popped(e)
      BY <3>3 DEF Popped
    <3> QED
      BY <2>2, <3>1, <3>2, <3>3
  <2> QED
    BY <1>1, <2>1, <2>2, <2>3
<1>4. ASSUME NEW n \in flow.nodes, NEW ps \in SUBSET flow.ports[n], NEW k \in Lengths(n), NEW flag \in {"some", "false"},
             NEW missing, SaveValues(n, ps, k, flag, missing), tracker' = tracker
      PROVE  /\ \A m \in flow.nodes : is_array(tracker'[m]) => m \in InLoop(flow)
             /\ \A e \in flow.edges : \A i \in 1 .. Len(queue'[e]) : LoopValue(e, queue'[e][i])
  <2>1. \A e \in flow.edges : Grown(n, ps, k, missing, e)
    BY <1>0, <1>4, SaveFacts
  <2>2. ASSUME NEW e \in flow.edges, NEW i \in 1 .. Len(queue'[e])
        PROVE  LoopValue(e, queue'[e][i])
    <3>1. Grown(n, ps, k, missing, e)
      BY <2>1
    <3>2. CASE i \in 1 .. Len(queue[e])
      BY <1>1, <3>1, <3>2 DEF Grown
    <3>3. CASE i \notin 1 .. Len(queue[e])
      <4>1. i \in Len(queue[e]) + 1 .. Len(queue'[e])
        BY <3>1, <3>3 DEF Grown
      <4>2. NewValue(n, ps, missing, e, i) /\ e.src = n
        BY <3>1, <3>3, <4>1 DEF Grown
      <4>3. CASE flow.kind[n] = "foreach" /\ queue'[e][i].value = "some"
        BY <4>2, <4>3 DEF LoopValue, Repeats
      <4>4. CASE queue'[e][i].tracker = tracker[n] /\ queue'[e][i].value # "none"
        BY <1>1, <4>2, <4>4 DEF LoopValue, Repeats
      <4>5. CASE queue'[e][i].tracker = tracker[n] /\ e.opt
        BY <1>1, <4>2, <4>5 DEF LoopValue, Repeats
      <4> QED
        BY <4>2, <4>3, <4>4, <4>5 DEF NewValue
    <3> QED
      BY <3>2, <3>3
  <2> QED
    BY <1>1, <1>4, <2>2
<1>5. ASSUME NEW n \in flow.nodes, NEW ps \in SUBSET flow.ports[n], NEW k \in Lengths(n), NEW flag \in {"some", "false"},
             Saves(n, ps, k, flag) \/ Ends(n, ps, k, flag)
      PROVE  /\ \A m \in flow.nodes : is_array(tracker'[m]) => m \in InLoop(flow)
             /\ \A e \in flow.edges : \A i \in 1 .. Len(queue'[e]) : LoopValue(e, queue'[e][i])
  <2>1. tracker' = tracker /\ \E missing : SaveValues(n, ps, k, flag, missing)
    BY <1>5 DEF Saves, Ends
  <2> QED
    BY <1>4, <2>1
<1> QED
  BY <1>2, <1>3, <1>5, GraphStep

\* A missing element does not make a node ready.
LEMMA ArrayIsThere ==
  ASSUME TypeOK, LoopInv, SkipsAreRequired(flow), NEW n \in flow.nodes, flow.kind[n] # "collect",
         NEW e \in InEdges(flow, n), HasFront(e), is_array(Front(e).tracker), Filled(e)
  PROVE  HasValue(e)
<1> SUFFICES ASSUME ~HasValue(e) PROVE FALSE
  OBVIOUS
<1>1. e \in flow.edges /\ e.dst = n /\ Front(e).value = "none"
  BY DEF HasValue, InEdges
<1>2. ~e.req
  BY DEF Filled
<1>3. e.src \in InLoop(flow) /\ e.opt
  BY <1>1, FrontIsFirst DEF LoopInv
<1> QED
  BY <1>1, <1>2, <1>3 DEF SkipsAreRequired

\* A node that runs again uses up an element, in every flow in which what a loop may
\* leave out is required where it goes.
LEMMA NextReruns ==
  ASSUME SkipsAreRequired(flow), Inv, LoopInv, [Next]_vars
  PROVE  \A n \in flow.nodes : ran[n] > 0 /\ ran'[n] > ran[n] =>
           \E e \in InEdges(flow, n) : Len(queue'[e]) < Len(queue[e])
<1>0. TypeOK /\ SkipsAreRequired(flow)
  BY DEF Inv, TypeOK
<1> SUFFICES ASSUME NEW n \in flow.nodes, ran[n] > 0, ran'[n] > ran[n]
             PROVE  \E e \in InEdges(flow, n) : Len(queue'[e]) < Len(queue[e])
  OBVIOUS
<1>1. ran[n] \in Nat
  BY <1>0 DEF TypeOK
<1>2. ~(ran'[n] = ran[n])
  BY <1>1
<1>3. PICK m \in flow.nodes : Starts(m)
  BY <1>2, GraphStep DEF Rests, Saves, Ends
<1>4. m = n /\ ready(n)
  BY <1>0, <1>2, <1>3, StartFacts DEF Starts
<1>5. flow.kind[n] # "collect"
  BY <1>0, <1>1, <1>4 DEF ready, CollectReady, SkipsAreRequired, CollectsFed
<1>6. PICK e \in InEdges(flow, n) : HasFront(e) /\ is_array(Front(e).tracker)
  BY <1>4, <1>5 DEF ready
<1>7. Filled(e) /\ e \in flow.edges /\ e.dst = n
  BY <1>4, <1>5 DEF ready, InEdges
<1>8. HasValue(e)
  BY <1>0, <1>5, <1>6, <1>7, ArrayIsThere
<1>9. Popped(e)
  BY <1>0, <1>3, <1>4, <1>5, <1>6, <1>7, <1>8, StartFacts
<1> QED
  BY <1>9 DEF Popped

\* A node that runs again uses up an element of an array, in every flow in which what the
\* nodes of a loop may leave out is required where it goes: "must have at least 1 input
\* from an array".  The run flow_skipped_output shows that the hypothesis is needed.
THEOREM RerunsUseElementsHolds == Spec /\ SkipsAreRequired(flow) => RerunsUseElements
<1>1. Init => LoopInv
  BY InitLoop
<1>2. Inv /\ LoopInv /\ SkipsAreRequired(flow) /\ [Next]_vars => LoopInv' /\ SkipsAreRequired(flow)'
  BY NextLoop, GraphStep
<1>3. Inv /\ LoopInv /\ SkipsAreRequired(flow) /\ [Next]_vars =>
        [\A n \in flow.nodes : ran[n] > 0 /\ ran'[n] > ran[n] =>
           \E e \in InEdges(flow, n) : Len(queue'[e]) < Len(queue[e])]_vars
  BY NextReruns
<1> QED
  BY <1>1, <1>2, <1>3, InvHolds, PTL DEF Spec, RerunsUseElements

-----------------------------------------------------------------------------
(* What a collect node waits for *)

FinishedStep(F, k) ==
  IF k = 0 THEN {m \in flow.nodes : Settled(m)}
  ELSE F[k - 1] \cup {m \in nodes : \E e \in Blocked(m) : e.src \in F[k - 1]}

\* The nodes that `finished' follows are at rest.
LEMMA FinishedIsQuiet ==
  ASSUME TypeOK, NEW n, finished(n)
  PROVE  \E D \in SUBSET flow.nodes : n \in D /\ Quiet(D)
<1> DEFINE N == Cardinality(flow.nodes)
           X == SUBSET flow.nodes
           a == {m \in flow.nodes : Settled(m)}
           Step(S) == S \cup {m \in nodes : \E e \in Blocked(m) : e.src \in S}
           G == [i \in 1 .. N |-> [S \in X |-> Step(S)]]
           H == CHOOSE F : F = [k \in 0 .. N |-> FinishedStep(F, k)]
<1>1. N \in Nat
  BY FlowFacts, FS_CardinalityType
<1>2. nodes \subseteq flow.nodes
  BY DEF TypeOK
<1>3. a \in X /\ \A S \in X : Step(S) \in X
  BY <1>2
<1>4. G \in [1 .. N -> [X -> X]]
  BY <1>3
<1>5. PICK h \in [0 .. N -> X] : h[0] = a /\ \A i \in 1 .. N : h[i] = G[i][h[i - 1]]
  <2>1. N \in Nat /\ a \in X /\ G \in [1 .. N -> [X -> X]]
    BY <1>1, <1>3, <1>4
  <2> HIDE DEF G, N, a, X
  <2>2. \E h : Iterates(h, N, X, a, G)
    BY ONLY <2>1, RecursionExists
  <2> QED
    BY <2>2 DEF Iterates
<1>6. \A i \in 1 .. N : i - 1 \in 0 .. N /\ i # 0
  BY <1>1
<1>7. \A i \in 1 .. N : h[i - 1] \in X /\ h[i] = Step(h[i - 1])
  BY <1>5, <1>6
<1>8. \A i \in 0 .. N : h[i] = FinishedStep(h, i)
  <2> SUFFICES ASSUME NEW i \in 0 .. N PROVE h[i] = FinishedStep(h, i)
    OBVIOUS
  <2>1. CASE i = 0
    BY <2>1, <1>5 DEF FinishedStep
  <2>2. CASE i # 0
    <3>1. i \in 1 .. N
      BY <2>2, <1>1
    <3> QED
      BY <2>2, <3>1, <1>7 DEF FinishedStep
  <2> QED
    BY <2>1, <2>2
<1>9. h = [k \in 0 .. N |-> FinishedStep(h, k)]
  BY <1>5, <1>8
<1>10. H = [k \in 0 .. N |-> FinishedStep(H, k)]
  BY <1>9
<1>11. n \in H[N]
  BY DEF finished, FinishedStep
<1>12. ASSUME NEW i \in 0 .. N PROVE H[i] = FinishedStep(H, i)
  <2> HIDE DEF H
  <2> QED
    BY <1>10
<1> HIDE DEF H
<1> DEFINE Bad == {k \in 0 .. N : ~(H[k] \subseteq flow.nodes /\ Quiet(H[k]))}
<1>13. Bad = {}
  <2> SUFFICES ASSUME Bad # {} PROVE FALSE
    OBVIOUS
  <2>1. PICK k \in Bad : \A j \in Bad : k <= j
    <3>1. Bad \subseteq Nat
      OBVIOUS
    <3> QED
      BY <3>1, LeastElement
  <2>2. k \in 0 .. N
    OBVIOUS
  <2>3. CASE k = 0
    <3>1. H[k] = {m \in flow.nodes : Settled(m)}
      BY <2>2, <2>3, <1>12 DEF FinishedStep
    <3>2. Quiet(H[k])
      BY <3>1 DEF Quiet, Settled
    <3> QED
      BY <3>1, <3>2
  <2>4. CASE k # 0
    <3>1. k - 1 \in 0 .. N /\ ~(k <= k - 1)
      BY <2>2, <2>4, <1>1
    <3>2. k - 1 \notin Bad
      <4> HIDE DEF Bad
      <4> QED
        BY <2>1, <3>1
    <3>3. H[k - 1] \subseteq flow.nodes /\ Quiet(H[k - 1])
      BY <3>1, <3>2
    <3>4. H[k] = Step(H[k - 1])
      BY <2>2, <2>4, <1>12 DEF FinishedStep
    <3>5. H[k] \subseteq flow.nodes
      BY <1>2, <3>3, <3>4
    <3>6. Quiet(H[k])
      BY <3>3, <3>4 DEF Quiet
    <3> QED
      BY <3>5, <3>6
  <2> QED
    BY <2>3, <2>4
<1>14. H[N] \subseteq flow.nodes /\ Quiet(H[N])
  BY <1>1, <1>13
<1> QED
  BY <1>11, <1>14

\* A settled node is not ready, and neither is one that misses what it needs.
LEMMA QuietNotReady ==
  ASSUME TypeOK, LoopInv, LoopsAreRequired(flow), NEW n \in flow.nodes, ready(n),
         Settled(n) \/ Blocked(n) # {}
  PROVE  FALSE
<1>1. \A e \in Blocked(n) : e \in flow.edges /\ e \in InEdges(flow, n) /\ e.dst = n /\ e.req /\ ~HasValue(e)
  BY DEF Blocked, InEdges
<1>2. CASE flow.kind[n] = "collect"
  <2>1. Blocked(n) = {}
    BY <1>1, <1>2 DEF LoopsAreRequired, CollectsFed
  <2>2. ran[n] > 0 /\ ran[n] \in Nat
    BY <2>1 DEF Settled, TypeOK
  <2> QED
    BY <1>2, <2>2 DEF ready, CollectReady, LoopsAreRequired, CollectsFed
<1>3. CASE flow.kind[n] # "collect"
  <2>1. \A e \in InEdges(flow, n) : Filled(e)
    BY <1>3 DEF ready
  <2>2. Blocked(n) = {}
    BY <1>1, <2>1 DEF Filled
  <2>3. Settled(n)
    BY <2>2
  <2>4. PICK e \in InEdges(flow, n) : HasFront(e) /\ is_array(Front(e).tracker)
    BY <1>3, <2>3 DEF ready, Settled
  <2>5. SkipsAreRequired(flow)
    <3>1. \A d \in flow.edges : d.src \in InLoop(flow) => d.src # FakeNode
      BY FlowFacts DEF InLoop
    <3> QED
      BY <3>1 DEF LoopsAreRequired, SkipsAreRequired, Repeats
  <2>6. HasValue(e)
    BY <1>3, <2>1, <2>4, <2>5, ArrayIsThere
  <2> QED
    BY <2>3, <2>4, <2>6 DEF Settled
<1> QED
  BY <1>2, <1>3

\* Nodes at rest stay at rest when another one starts.
LEMMA QuietStart ==
  ASSUME TypeOK, LoopInv, LoopsAreRequired(flow), NEW n \in flow.nodes, Starts(n), flow' = flow,
         NEW D \in SUBSET flow.nodes, Quiet(D)
  PROVE  n \notin D /\ Quiet(D)'
<1>1. n \notin D
  BY QuietNotReady DEF Starts, Quiet
<1>2. ASSUME NEW m \in D PROVE m \in nodes' /\ (Settled(m)' \/ \E e \in Blocked(m)' : e.src \in D)
  <2>1. m \in nodes /\ m # n /\ m \in flow.nodes
    BY <1>1 DEF Quiet
  <2>2. ran'[m] = ran[m] /\ m \in nodes'
    BY <2>1, StartFacts DEF Starts
  <2>3. \A e \in InEdges(flow, m) : queue'[e] = queue[e]
    BY <2>1, StartFacts DEF InEdges
  <2>4. InEdges(flow, m)' = InEdges(flow, m)
    BY DEF InEdges
  <2>5. Blocked(m)' = Blocked(m)
    BY <2>3, <2>4 DEF Blocked, HasValue, HasFront, Front
  <2>6. Settled(m) => Settled(m)'
    BY <2>2, <2>3, <2>4, <2>5 DEF Settled, HasValue, HasFront, Front
  <2> QED
    BY <2>2, <2>5, <2>6 DEF Quiet
<1> QED
  BY <1>1, <1>2 DEF Quiet

\* A value that is pushed comes behind the first one.
LEMMA FrontStays ==
  ASSUME TypeOK, NEW e \in flow.edges, HasFront(e),
         NEW n, NEW ps, NEW k, NEW missing, Grown(n, ps, k, missing, e), queue' \in [flow.edges -> Seq(EdgeValues)]
  PROVE  HasFront(e)' /\ Front(e)' = Front(e)
<1>1. 1 \in 1 .. Len(queue[e]) /\ Front(e) = queue[e][1]
  BY FrontIsFirst
<1>2. Len(queue[e]) \in Nat /\ Len(queue'[e]) \in Nat /\ Len(queue[e]) <= Len(queue'[e]) /\ queue'[e][1] = queue[e][1]
  BY <1>1 DEF Grown
<1>3. Len(queue'[e]) # 0
  BY <1>1, <1>2
<1>4. queue'[e] \in Seq(EdgeValues) /\ queue'[e] # <<>>
  BY <1>3, EmptyFacts
<1>5. Head(queue'[e]) = queue'[e][1]
  BY <1>4, TailFacts
<1> QED
  BY <1>1, <1>2, <1>4, <1>5 DEF HasFront, Front

\* Nodes at rest stay at rest when another one outputs something.
LEMMA QuietSave ==
  ASSUME Inv, LoopInv, LoopsAreRequired(flow), CollectInv, pc = "save",
         NEW n \in info, NEW ps \in SUBSET flow.ports[n], NEW k \in Lengths(n), NEW flag \in {"some", "false"},
         NEW missing, SaveValues(n, ps, k, flag, missing), ran' = ran, nodes \subseteq nodes', flow' = flow,
         NEW D \in SUBSET flow.nodes, Quiet(D)
  PROVE  n \notin D /\ Quiet(D)'
<1>1. TypeOK /\ n \in flow.nodes /\ n \notin nodes
  BY DEF Inv, TypeOK, NodesInv, Ended
<1>2. n \notin D
  BY <1>1 DEF Quiet
<1>3. \A e \in flow.edges : Grown(n, ps, k, missing, e)
  BY <1>1, SaveFacts
<1>4. queue' \in [flow.edges -> Seq(EdgeValues)]
  BY <1>1, SaveTypes
<1>5. \A e \in flow.edges : e.src # n => queue'[e] = queue[e]
  BY <1>3 DEF Grown
<1>6. ASSUME NEW m \in D PROVE m \in nodes' /\ (Settled(m)' \/ \E e \in Blocked(m)' : e.src \in D)
  <2>1. m \in nodes /\ m \in flow.nodes /\ InEdges(flow, m)' = InEdges(flow, m)
    BY DEF Quiet, InEdges
  <2>2. ASSUME NEW e \in Blocked(m), e.src \in D PROVE e \in Blocked(m)'
    <3>1. e \in flow.edges /\ queue'[e] = queue[e]
      BY <1>2, <1>5, <2>2 DEF Blocked, InEdges
    <3> QED
      BY <2>1, <3>1 DEF Blocked, HasValue, HasFront, Front
  <2>3. ASSUME Settled(m) PROVE Settled(m)'
    <3>1. \A e \in InEdges(flow, m) : HasFront(e) => HasFront(e)' /\ Front(e)' = Front(e)
      BY <1>1, <1>3, <1>4, FrontStays DEF InEdges
    <3>2. Blocked(m)' = {}
      BY <2>1, <2>3, <3>1 DEF Settled, Blocked, HasValue
    <3>3. ASSUME NEW e \in InEdges(flow, m), HasValue(e)', is_array(Front(e).tracker)' PROVE FALSE
      <4>1. e \in flow.edges /\ e.dst = m
        BY DEF InEdges
      <4>2. CASE HasFront(e)
        BY <2>3, <3>1, <3>3, <4>2 DEF Settled, HasValue, is_array
      <4>3. CASE ~HasFront(e)
        <5>1. queue[e] = <<>> /\ ~HasValue(e)
          BY <4>3 DEF HasFront, HasValue
        <5>2. ~e.req
          BY <2>3, <5>1 DEF Settled, Blocked
        <5>3. e.src = n
          BY <1>5, <3>3, <4>1, <5>1 DEF HasValue, HasFront
        <5>4. flow.kind[m] # "collect"
          <6> SUFFICES ASSUME flow.kind[m] = "collect" PROVE FALSE
            OBVIOUS
          <6>1. ran[m] > 0
            BY <2>3 DEF Settled
          <6>2. \E C \in SUBSET flow.nodes : e.src \in C /\ Quiet(C)
            BY <4>1, <6>1 DEF CollectInv
          <6> QED
            BY <1>1, <5>3, <6>2 DEF Quiet
        <5>5. 1 \in Len(queue[e]) + 1 .. Len(queue'[e]) /\ Front(e)' = queue'[e][1]
          <6>1. queue'[e] \in Seq(EdgeValues) /\ queue'[e] # <<>>
            BY <1>4, <3>3, <4>1 DEF HasValue, HasFront
          <6>2. Len(queue'[e]) \in Nat \ {0} /\ Head(queue'[e]) = queue'[e][1]
            BY <6>1, TailFacts
          <6> QED
            BY <5>1, <6>2, EmptyFacts DEF Front
        <5>6. NewValue(n, ps, missing, e, 1)
          BY <1>3, <4>1, <5>5 DEF Grown
        <5>7. flow.kind[n] = "foreach" \/ is_array(tracker[n])
          BY <3>3, <5>5, <5>6 DEF NewValue, is_array
        <5>8. Repeats(flow, InLoop(flow), e.src)
          BY <1>1, <5>3, <5>7 DEF LoopInv, Repeats
        <5>9. e.src # FakeNode
          BY <1>1, <5>3, FlowFacts
        <5> QED
          BY <4>1, <5>2, <5>4, <5>8, <5>9 DEF LoopsAreRequired
      <4> QED
        BY <4>2, <4>3
    <3> QED
      BY <2>1, <2>3, <3>2, <3>3 DEF Settled
  <2> QED
    BY <2>1, <2>2, <2>3 DEF Quiet
<1> QED
  BY <1>2, <1>6 DEF Quiet

\* What feeds a collect node that ran stays at rest.
LEMMA NextCollect ==
  ASSUME LoopsAreRequired(flow), Inv, LoopInv, CollectInv, [Next]_vars
  PROVE  CollectInv'
<1>0. flow' = flow /\ TypeOK /\ LoopsAreRequired(flow)
  BY GraphStep DEF Inv, TypeOK
<1> SUFFICES ASSUME NEW e \in flow.edges, flow.kind[e.dst] = "collect", ran'[e.dst] > 0
             PROVE  queue'[e] = <<>> /\ \E D \in SUBSET flow.nodes : e.src \in D /\ Quiet(D)'
  BY <1>0 DEF CollectInv
<1>1. e.dst \in flow.nodes
  BY <1>0, FlowFacts
<1>2. CASE Rests
  <2>1. queue[e] = <<>> /\ \E D \in SUBSET flow.nodes : e.src \in D /\ Quiet(D)
    BY <1>2 DEF Rests, CollectInv
  <2>2. \A D : Quiet(D)' <=> Quiet(D)
    BY <1>0, <1>2 DEF Rests, Quiet, Settled, Blocked, InEdges, HasValue, HasFront, Front
  <2> QED
    BY <1>2, <2>1, <2>2 DEF Rests
<1>3. ASSUME NEW n \in flow.nodes, Starts(n)
      PROVE  queue'[e] = <<>> /\ \E D \in SUBSET flow.nodes : e.src \in D /\ Quiet(D)'
  <2>1. queue'[e] = <<>> /\ \E D \in SUBSET flow.nodes : e.src \in D /\ Quiet(D)
    <3>1. CASE e.dst # n
      BY <1>0, <1>1, <1>3, <3>1, StartFacts DEF CollectInv
    <3>2. CASE e.dst = n
      <4>1. queue'[e] = <<>>
        BY <1>0, <1>3, <3>2, StartFacts
      <4>2. finished(e.src)
        <5>1. e \in InEdges(flow, n) /\ CollectReady(n)
          BY <1>3, <3>2 DEF InEdges, Starts, ready
        <5> QED
          BY <5>1 DEF CollectReady
      <4> QED
        BY <1>0, <4>1, <4>2, FinishedIsQuiet
    <3> QED
      BY <3>1, <3>2
  <2>2. \A D \in SUBSET flow.nodes : Quiet(D) => Quiet(D)'
    BY <1>0, <1>3, QuietStart
  <2> QED
    BY <2>1, <2>2
<1>4. ASSUME NEW n \in flow.nodes, NEW ps \in SUBSET flow.ports[n], NEW k \in Lengths(n), NEW flag \in {"some", "false"},
             Saves(n, ps, k, flag) \/ Ends(n, ps, k, flag)
      PROVE  queue'[e] = <<>> /\ \E D \in SUBSET flow.nodes : e.src \in D /\ Quiet(D)'
  <2>1. /\ pc = "save" /\ n \in info /\ ran' = ran /\ nodes \subseteq nodes'
        /\ \E missing : SaveValues(n, ps, k, flag, missing)
    BY <1>4 DEF Saves, Ends
  <2>2. PICK missing : SaveValues(n, ps, k, flag, missing)
    BY <2>1
  <2>3. PICK D \in SUBSET flow.nodes : e.src \in D /\ Quiet(D) /\ queue[e] = <<>>
    BY <2>1 DEF CollectInv
  <2>4. n \notin D /\ Quiet(D)'
    BY <1>0, <2>1, <2>2, <2>3, QuietSave
  <2>5. Grown(n, ps, k, missing, e)
    BY <1>0, <2>2, SaveFacts
  <2> QED
    BY <2>3, <2>4, <2>5 DEF Grown
<1> QED
  BY <1>2, <1>3, <1>4, GraphStep

\* A collect node gets everything: nothing arrives after it ran, in every flow in which
\* what a loop gives to a node is required.
THEOREM CollectIsCompleteHolds == Spec /\ LoopsAreRequired(flow) => []CollectIsComplete
<1>1. Init => LoopInv /\ CollectInv
  <2>1. Init => CollectInv
    <3> SUFFICES ASSUME Init PROVE CollectInv
      OBVIOUS
    <3>1. flow \in Flows /\ ran = [n \in flow.nodes |-> 0]
      BY DEF Init
    <3>2. \A e \in flow.edges : e.dst \in flow.nodes
      BY <3>1, FlowsAssumption
    <3> QED
      BY <3>1, <3>2 DEF CollectInv
  <2> QED
    BY <2>1, InitLoop
<1>2. Inv /\ LoopInv /\ CollectInv /\ LoopsAreRequired(flow) /\ [Next]_vars =>
        LoopInv' /\ CollectInv' /\ LoopsAreRequired(flow)'
  BY NextLoop, NextCollect, GraphStep
<1>3. CollectInv => CollectIsComplete
  BY DEF CollectInv, CollectIsComplete
<1> QED
  BY <1>1, <1>2, <1>3, InvHolds, PTL DEF Spec

-----------------------------------------------------------------------------
(* What a node has output in its run *)

\* A step that only changes commands that have sent their instructions.
LEMMA OutputsFrame ==
  ASSUME OutputsInv, UNCHANGED <<out, outs, outputs>>, info' \subseteq info,
         pc' \notin Ended => pc \notin Ended,
         \A n \in info : task'[n] \in Early => task[n] \in Early
  PROVE  OutputsInv'
  BY DEF OutputsInv, Sent

\* The loop's answers and its steps between two rounds.
LEMMA OutputsLoop ==
  ASSUME Inv, OutputsInv,
         \/ RoundTop \/ SkipNode \/ ScanEnd \/ RoundEnd \/ (\E n \in flow.nodes : NodePanicked(n))
         \/ CollectInstructions \/ TxIncomplete \/ TxComplete \/ NextGroup \/ OutputInstructions
         \/ ExecuteStart \/ ExecuteOk \/ ExecuteErr \/ ExecuteEnd \/ FlowFinish
         \/ Stop \/ StopShared \/ Terminated \/ UNCHANGED vars
  PROVE  OutputsInv'
<1>1. CASE (\E n \in flow.nodes : NodePanicked(n)) \/ FlowFinish
  <2>1. pc' \in Ended
    BY <1>1 DEF NodePanicked, FlowFinish, Ended
  <2> QED
    BY <2>1 DEF OutputsInv
<1>2. CASE RoundTop \/ SkipNode \/ ScanEnd \/ RoundEnd
  <2>1. UNCHANGED <<out, outs, outputs, info, task>> /\ pc \notin Ended
    BY <1>2 DEF RoundTop, SkipNode, ScanEnd, RoundEnd, graphVars, stateVars, waitVars, Ended
  <2> QED
    BY <2>1, OutputsFrame
<1>3. CASE CollectInstructions \/ TxComplete \/ NextGroup \/ ExecuteStart \/ ExecuteEnd
  <2>1. UNCHANGED <<out, outs, outputs, info, task>> /\ pc \notin Ended
    BY <1>3 DEF CollectInstructions, TxComplete, NextGroup, ExecuteStart, ExecuteEnd, graphVars, stateVars, waitVars, Ended
  <2> QED
    BY <2>1, OutputsFrame
<1>4. CASE TxIncomplete \/ OutputInstructions \/ ExecuteOk \/ ExecuteErr
  <2>1. UNCHANGED <<out, outs, outputs, info>> /\ pc \notin Ended
    BY <1>4 DEF TxIncomplete, OutputInstructions, ExecuteOk, ExecuteErr, graphVars, waitVars, Ended
  <2>2. \E ns : \E reply \in {"denied", "acked"} : Tell(ns, reply)
    BY <1>4 DEF TxIncomplete, OutputInstructions, ExecuteOk, ExecuteErr, Answer
  <2>3. \A n \in flow.nodes : task'[n] = task[n] \/ task'[n] \in {"denied", "acked"}
    BY <2>2, TellFacts DEF Inv
  <2>4. \A n \in info : task'[n] \in Early => task[n] \in Early
    BY <2>3 DEF Early, Inv, TypeOK
  <2> QED
    BY <2>1, <2>4, OutputsFrame
<1>5. CASE Stop \/ StopShared \/ Terminated \/ UNCHANGED vars
  <2>1. UNCHANGED <<out, outs, outputs, info, task, pc>>
    BY <1>5 DEF Stop, StopShared, Terminated, vars, graphVars, stateVars, loopVars
  <2> QED
    BY <2>1, OutputsFrame
<1> QED
  BY <1>1, <1>2, <1>3, <1>4, <1>5

\* A command sends its instructions before it outputs anything.
LEMMA OutputsCommand ==
  ASSUME Inv, OutputsInv, NEW n \in flow.nodes, Command(n)
  PROVE  OutputsInv'
<1>1. PICK s \in TaskStates :
        /\ TaskChange(n, s) /\ task[n] # "none"
        /\ task[n] \notin Early => s \notin Early
        /\ out' = out \/ (task[n] \in {"run", "submitted"} /\ s \in {"sent", "posted"} /\ Send(n))
  BY CommandFacts
<1>2. UNCHANGED <<outs, outputs, info, pc>> /\ task' = [task EXCEPT ![n] = s]
  BY <1>1 DEF TaskChange, graphVars, loopVars
<1>3. \A m \in info : task'[m] \in Early => task[m] \in Early
  BY <1>1, <1>2 DEF Inv, TypeOK
<1>4. CASE out' = out
  BY <1>2, <1>3, <1>4, OutputsFrame
<1>5. CASE task[n] \in {"run", "submitted"} /\ s \in {"sent", "posted"} /\ Send(n)
  <2> SUFFICES ASSUME pc \notin Ended PROVE OutputsInv'
    BY <1>2 DEF OutputsInv
  <2>1. n \in info
    BY <1>1 DEF Inv, NodesInv, TaskInv
  <2>2. outputs[n] = {} /\ ~Sent(n, outs)
    BY <1>5, <2>1 DEF OutputsInv, Early
  <2>3. ran[n] \in Nat /\ out \in Seq(Messages)
    BY DEF Inv, TypeOK
  <2>4. [node |-> n, times |-> ran[n]] \in Messages
    BY <2>3 DEF Messages
  <2>5. /\ Len(out) \in Nat /\ Len(out') = Len(out) + 1 /\ out'[Len(out) + 1].node = n
        /\ \A i \in 1 .. Len(out) : out'[i] = out[i]
    BY <1>5, <2>3, <2>4, AppendFacts DEF Send
  <2>6. \A i \in 1 .. Len(out') : outputs[out'[i].node] = {} /\ ~Sent(out'[i].node, outs)
    <3> SUFFICES ASSUME NEW i \in 1 .. Len(out') PROVE outputs[out'[i].node] = {} /\ ~Sent(out'[i].node, outs)
      OBVIOUS
    <3>1. i \in 1 .. Len(out) \/ i = Len(out) + 1
      BY <2>5
    <3> QED
      BY <2>2, <2>5, <3>1 DEF OutputsInv
  <2> QED
    BY <1>2, <1>3, <2>6 DEF OutputsInv, Sent
<1> QED
  BY <1>1, <1>4, <1>5

\* `wait' takes all the messages there are.
LEMMA OutputsWait ==
  ASSUME Inv, OutputsInv, wait
  PROVE  OutputsInv'
<1>1. /\ UNCHANGED <<outputs, info, task>> /\ pc = "wait" /\ pc' = "save"
      /\ outs' = SubSeq(out, 1, ChunkSize) /\ out' = SubSeq(out, ChunkSize + 1, Len(out))
  BY DEF wait, graphVars
<1>2. out \in Seq(Messages) /\ Len(out) \in Nat /\ ChunkSize \in 0 .. Len(out) /\ ChunkSize = Len(out)
  BY <1>1, ChunkIsAll DEF Inv, TypeOK
<1>3. /\ Len(outs') = Len(out) /\ \A i \in 1 .. Len(out) : outs'[i] = out[i]
      /\ Len(out') = 0
  BY <1>1, <1>2, SplitFacts
<1>4. /\ \A i \in 1 .. Len(out) : task[out[i].node] \notin Early
      /\ \A i, j \in 1 .. Len(out) : out[i].node = out[j].node => i = j
  BY <1>1 DEF Inv, ChannelInv, Ended
<1>5. /\ \A i \in 1 .. Len(out) : outputs[out[i].node] = {}
      /\ \A n \in info : task[n] \in Early => outputs[n] = {}
  BY <1>1 DEF OutputsInv, Ended
<1>6. \A n \in info : task[n] \in Early => ~Sent(n, outs')
  BY <1>3, <1>4 DEF Sent
<1>7. \A i \in 1 .. Len(outs') : outputs[outs'[i].node] = {}
  BY <1>3, <1>5
<1>8. \A i, j \in 1 .. Len(outs') : outs'[i].node = outs'[j].node => i = j
  BY <1>3, <1>4
<1>9. \A i \in 1 .. Len(out') : FALSE
  BY <1>3
<1> QED
  BY <1>1, <1>5, <1>6, <1>7, <1>8, <1>9 DEF OutputsInv

\* A message is saved: no other one is of the same node.
LEMMA OutputsSave ==
  ASSUME Inv, OutputsInv, SaveOutputs
  PROVE  OutputsInv'
<1>1. /\ pc = "save" /\ outs # <<>> /\ outs' = Tail(outs) /\ UNCHANGED <<out, info, pc>>
  BY DEF SaveOutputs
<1>2. /\ outs \in Seq(Messages) /\ Len(outs) \in Nat \ {0} /\ Len(outs') = Len(outs) - 1
      /\ \A i \in 1 .. Len(outs') : i + 1 \in 1 .. Len(outs) /\ outs'[i] = outs[i + 1]
      /\ Head(outs) = outs[1] /\ Head(outs) \in Messages
  BY <1>1, TailFacts DEF Inv, TypeOK
<1>3. PICK n \in flow.nodes : n = outs[1].node
  BY <1>2 DEF Messages
<1>4. \E ps : outputs' = [outputs EXCEPT ![n] = @ \cup ps]
  BY <1>2, <1>3 DEF SaveOutputs, SaveValues
<1>5. \A m : m # n => outputs'[m] = outputs[m]
  BY <1>4
<1>6. \A m \in flow.nodes : task'[m] = task[m] \/ task'[m] \in {"denied", "acked"}
  <2>1. task' = task \/ Tell({n}, "denied")
    BY <1>2, <1>3 DEF SaveOutputs
  <2> QED
    BY <2>1, TellFacts DEF Inv
<1>7. /\ \A i \in 1 .. Len(outs) : outputs[outs[i].node] = {}
      /\ \A i, j \in 1 .. Len(outs) : outs[i].node = outs[j].node => i = j
      /\ \A i \in 1 .. Len(out) : outputs[out[i].node] = {} /\ ~Sent(out[i].node, outs)
      /\ \A m \in info : task[m] \in Early => outputs[m] = {} /\ ~Sent(m, outs)
  BY <1>1 DEF OutputsInv, Ended
<1>8. \A m : Sent(m, outs') => Sent(m, outs)
  BY <1>2 DEF Sent
<1>9. Sent(n, outs)
  BY <1>2, <1>3 DEF Sent
<1>10. \A i \in 1 .. Len(outs') : outputs'[outs'[i].node] = {}
  <2> SUFFICES ASSUME NEW i \in 1 .. Len(outs') PROVE outputs'[outs'[i].node] = {}
    OBVIOUS
  <2>1. i + 1 \in 1 .. Len(outs) /\ outs'[i] = outs[i + 1] /\ 1 \in 1 .. Len(outs) /\ i + 1 # 1
    BY <1>2
  <2>2. outs'[i].node # n
    BY <2>1, <1>3, <1>7
  <2> QED
    BY <2>1, <2>2, <1>5, <1>7
<1>11. \A i, j \in 1 .. Len(outs') : outs'[i].node = outs'[j].node => i = j
  BY <1>2, <1>7
<1>12. \A i \in 1 .. Len(out) : outputs'[out[i].node] = {} /\ ~Sent(out[i].node, outs')
  BY <1>5, <1>7, <1>8, <1>9
<1>13. \A m \in info : task'[m] \in Early => outputs'[m] = {} /\ ~Sent(m, outs')
  <2> SUFFICES ASSUME NEW m \in info, task'[m] \in Early PROVE outputs'[m] = {} /\ ~Sent(m, outs')
    OBVIOUS
  <2>1. m \in flow.nodes /\ task[m] \in Early
    BY <1>6 DEF Early, Inv, TypeOK
  <2> QED
    BY <2>1, <1>5, <1>7, <1>8, <1>9
<1> QED
  BY <1>1, <1>10, <1>11, <1>12, <1>13 DEF OutputsInv

\* A node that is done has no message left.
LEMMA OutputsFinish ==
  ASSUME Inv, OutputsInv, NEW n \in flow.nodes, NodeFinishedOk(n) \/ NodeFinishedErr(n)
  PROVE  OutputsInv'
<1>1. /\ pc = "save" /\ outs = <<>> /\ n \in fins /\ UNCHANGED <<out, outs, pc>>
      /\ info' = info \ {n} /\ task' = [task EXCEPT ![n] = "none"]
  BY DEF NodeFinishedOk, NodeFinishedErr, FinishNode
<1>2. \A m : m # n => outputs'[m] = outputs[m]
  <2>1. \E ps : outputs' = [outputs EXCEPT ![n] = @ \cup ps]
    BY DEF NodeFinishedOk, NodeFinishedErr, SaveValues
  <2> QED
    BY <2>1
<1>3. \A i \in 1 .. Len(out) : out[i].node # n
  BY <1>1 DEF Inv, ChannelInv, NodesInv, Ended
<1>4. /\ \A i \in 1 .. Len(out) : outputs[out[i].node] = {}
      /\ \A m \in info : task[m] \in Early => outputs[m] = {}
  BY <1>1 DEF OutputsInv, Ended
<1>5. \A m : ~Sent(m, outs)
  BY <1>1 DEF Sent
<1>6. \A m \in info' : task'[m] \in Early => task[m] \in Early /\ m # n
  BY <1>1 DEF Inv, TypeOK
<1> QED
  BY <1>1, <1>2, <1>3, <1>4, <1>5, <1>6 DEF OutputsInv

\* A node starts without outputs.
LEMMA OutputsStart ==
  ASSUME Inv, OutputsInv, StartNode
  PROVE  OutputsInv'
<1>1. pc = "scan" /\ pos \in 1 .. Len(flow.order) /\ flow.order \in Seq(flow.nodes) /\ UNCHANGED <<pc, out, outs>>
  BY FlowFacts DEF StartNode, Inv, TypeOK, waitVars
<1>2. PICK n \in flow.nodes : n = flow.order[pos]
  BY <1>1
<1>3. /\ info' = info \cup {n} /\ task' = [task EXCEPT ![n] = "spawned"]
      /\ outputs' = [outputs EXCEPT ![n] = {}]
  BY <1>2 DEF StartNode, start_node
<1>4. /\ \A m : m # n => outputs'[m] = outputs[m]
      /\ outputs'[n] = {}
  BY <1>3 DEF Inv, TypeOK
<1>5. \A m \in info' : m # n => m \in info /\ task'[m] = task[m]
  BY <1>3 DEF Inv, TypeOK
<1>6. outs = <<>>
  BY <1>1 DEF Inv, NodesInv
<1>7. \A m : ~Sent(m, outs)
  BY <1>6 DEF Sent
<1>8. /\ \A i \in 1 .. Len(out) : outputs[out[i].node] = {}
      /\ \A m \in info : task[m] \in Early => outputs[m] = {}
  BY <1>1 DEF OutputsInv, Ended
<1> QED
  BY <1>1, <1>4, <1>5, <1>6, <1>7, <1>8 DEF OutputsInv

\* The instructions of a node come before anything else it outputs.
LEMMA NextOutputs == Inv /\ OutputsInv /\ [Next]_vars => OutputsInv'
<1> SUFFICES ASSUME Inv, OutputsInv, [Next]_vars PROVE OutputsInv'
  OBVIOUS
<1> QED
  BY OutputsLoop, OutputsCommand, OutputsWait, OutputsSave, OutputsFinish, OutputsStart DEF Next, Loop

-----------------------------------------------------------------------------
(* The elements of loops *)

\* A flow that runs has no edge from a node to itself.
LEMMA NoSelfLoop ==
  ASSUME Inv, pc \notin {"top"} \cup Ended, NEW e \in flow.edges
  PROVE  e.src # e.dst
<1>1. flow \in Flows /\ ~flow.invalid
  BY RunsValid DEF Inv, TypeOK
<1>2. e.dst \in flow.nodes
  BY <1>1, FlowsAssumption
<1>3. PICK i \in 1 .. Len(flow.topo) : flow.topo[i] = e.dst
  BY <1>1, <1>2, FlowsAssumption
<1>4. e.src = e.dst => i < i
  BY <1>1, <1>3, FlowsAssumption
<1>5. flow.topo \in Seq(flow.nodes)
  BY <1>1, FlowsAssumption
<1>6. i \in Nat
  BY <1>5
<1> QED
  BY <1>4, <1>6

\* What a node takes when it starts: the next element of each of its arrays.
LEMMA StartElements ==
  ASSUME TypeOK, LoopInv, LoopInv', OneLevel(flow), flow' = flow, UniformInv, SingleInv, PlaceInv,
         NEW n \in flow.nodes, Starts(n)
  PROVE  /\ flow.kind[n] = "collect" => ran[n] = 0 /\ tracker'[n] = {}
         /\ ran[n] > 0 => tracker[n] # {} /\ tracker'[n] # {}
         /\ flow.kind[n] = "foreach" => tracker'[n] = {}
         /\ \A a \in tracker'[n] : a[2] = ran'[n]
         /\ \A e \in flow.edges : e.dst = n /\ flow.kind[n] # "collect" =>
              /\ e.req => queue[e] # <<>>
              /\ \/ Popped(e) /\ tracker'[n] # {}
                 \/ /\ queue'[e] = queue[e]
                    /\ \A i \in 1 .. Len(queue[e]) : ~is_array(queue[e][i].tracker)
<1>0. LoopsAreRequired(flow) /\ CollectsFed(flow) /\ SkipsAreRequired(flow)
  <2>1. LoopsAreRequired(flow) /\ CollectsFed(flow)
    BY DEF OneLevel, LoopsAreRequired
  <2>2. \A d \in flow.edges : d.src \in InLoop(flow) => d.src # FakeNode
    BY FlowFacts DEF InLoop
  <2> QED
    BY <2>1, <2>2 DEF LoopsAreRequired, SkipsAreRequired, Repeats
<1>1. ready(n) /\ ran[n] \in Nat /\ ran'[n] = ran[n] + 1 /\ tracker'[n] = TakenTracker(n)
  BY StartFacts DEF Starts, TypeOK
<1>2. flow.kind[n] = "collect" => ran[n] = 0 /\ tracker'[n] = {}
  BY <1>0, <1>1 DEF ready, CollectReady, CollectsFed, TakenTracker
<1>3. flow.kind[n] = "foreach" => tracker'[n] = {}
  BY DEF LoopInv, OneLevel, is_array
<1>4. ASSUME flow.kind[n] # "collect", NEW e \in flow.edges, e.dst = n
      PROVE  e \in InEdges(flow, n) /\ Filled(e) /\ (e.req => HasValue(e) /\ queue[e] # <<>>)
  BY <1>1, <1>4 DEF ready, InEdges, Filled, HasValue, HasFront
<1>5. ASSUME flow.kind[n] # "collect", NEW e \in flow.edges, e.dst = n, HasFront(e), is_array(Front(e).tracker)
      PROVE  HasValue(e) /\ Popped(e) /\ tracker'[n] # {}
  <2>1. e \in InEdges(flow, n) /\ Filled(e)
    BY <1>4, <1>5
  <2>2. HasValue(e)
    BY <1>0, <1>5, <2>1, ArrayIsThere
  <2>3. Popped(e)
    BY <1>5, <2>2, StartFacts
  <2>4. TakenTracker(n) # {}
    BY <1>5, <2>1, <2>2 DEF TakenTracker, is_array
  <2> QED
    BY <1>1, <2>2, <2>3, <2>4
<1>6. ASSUME flow.kind[n] # "collect", NEW e \in flow.edges, e.dst = n, ~(HasFront(e) /\ is_array(Front(e).tracker))
      PROVE  /\ queue'[e] = queue[e]
             /\ \A i \in 1 .. Len(queue[e]) : ~is_array(queue[e][i].tracker)
  <2>1. queue'[e] = queue[e]
    BY <1>6, StartFacts DEF HasValue
  <2>2. ASSUME NEW i \in 1 .. Len(queue[e]), is_array(queue[e][i].tracker)
        PROVE  FALSE
    <3>1. queue[e] \in Seq(EdgeValues)
      BY DEF TypeOK
    <3>2. HasFront(e)
      BY <3>1, <2>2 DEF HasFront
    <3>3. 1 \in 1 .. Len(queue[e]) /\ Front(e) = queue[e][1]
      BY <3>2, FrontIsFirst
    <3> QED
      BY <1>6, <2>2, <3>2, <3>3 DEF UniformInv
  <2> QED
    BY <2>1, <2>2
<1>7. ASSUME ran[n] > 0 PROVE tracker[n] # {} /\ tracker'[n] # {}
  <2>1. flow.kind[n] # "collect"
    BY <1>1, <1>2, <1>7
  <2>2. PICK e \in InEdges(flow, n) : HasFront(e) /\ is_array(Front(e).tracker)
    BY <1>1, <1>7, <2>1 DEF ready
  <2>3. e \in flow.edges /\ e.dst = n
    BY DEF InEdges
  <2>4. 1 \in 1 .. Len(queue[e]) /\ Front(e) = queue[e][1]
    BY <2>2, <2>3, FrontIsFirst
  <2>5. tracker[n] # {}
    BY <1>7, <2>1, <2>2, <2>3, <2>4 DEF SingleInv
  <2> QED
    BY <1>5, <2>1, <2>2, <2>3, <2>5
<1>8. ASSUME NEW a \in tracker'[n] PROVE a[2] = ran'[n]
  <2>1. flow.kind[n] # "collect"
    BY <1>2
  <2>2. PICK e \in InEdges(flow, n) : HasValue(e) /\ a \in Front(e).tracker
    BY <1>1, <1>8, <2>1 DEF TakenTracker
  <2>3. e \in flow.edges /\ e.dst = n /\ HasFront(e)
    BY <2>2 DEF InEdges, HasValue
  <2>4. 1 \in 1 .. Len(queue[e]) /\ Front(e) = queue[e][1]
    BY <2>3, FrontIsFirst
  <2> QED
    BY <1>1, <2>1, <2>2, <2>3, <2>4 DEF PlaceInv
<1>9. ASSUME NEW e \in flow.edges, e.dst = n, flow.kind[n] # "collect"
      PROVE  /\ e.req => queue[e] # <<>>
             /\ \/ Popped(e) /\ tracker'[n] # {}
                \/ /\ queue'[e] = queue[e]
                   /\ \A i \in 1 .. Len(queue[e]) : ~is_array(queue[e][i].tracker)
  BY <1>4, <1>5, <1>6, <1>9
<1> QED
  BY <1>2, <1>3, <1>7, <1>8, <1>9

\* A node starts: the parts of the invariant about nodes and values.
LEMMA StartValues ==
  ASSUME Inv, LoopInv, LoopInv', OneLevel(flow), flow' = flow, NEW n \in flow.nodes, Starts(n),
         NodeInv, UniformInv, SingleInv, PlaceInv, CountInv
  PROVE  NodeInv' /\ UniformInv' /\ SingleInv' /\ PlaceInv'
<1>0. TypeOK /\ pc = "scan" /\ n \in nodes
  BY DEF Inv, Starts
<1>1. \A e \in flow.edges : e.src # e.dst /\ e.dst \in flow.nodes /\ (e.src # FakeNode => e.src \in flow.nodes)
  BY <1>0, NoSelfLoop, FlowFacts DEF Ended
<1>2. /\ ran'[n] = ran[n] + 1
      /\ \A m \in flow.nodes : m # n => ran'[m] = ran[m] /\ tracker'[m] = tracker[m]
      /\ \A e \in flow.edges : e.dst # n => queue'[e] = queue[e]
      /\ \A e \in flow.edges : e.dst = n /\ flow.kind[n] = "collect" => queue'[e] = <<>>
  BY <1>0, StartFacts
<1>3. /\ flow.kind[n] = "collect" => ran[n] = 0 /\ tracker'[n] = {}
      /\ ran[n] > 0 => tracker[n] # {} /\ tracker'[n] # {}
      /\ \A a \in tracker'[n] : a[2] = ran'[n]
  BY <1>0, StartElements
<1>4. \A e \in flow.edges : e.dst = n /\ flow.kind[n] # "collect" =>
         /\ e.req => queue[e] # <<>>
         /\ \/ Popped(e) /\ tracker'[n] # {}
            \/ /\ queue'[e] = queue[e]
               /\ \A i \in 1 .. Len(queue[e]) : ~is_array(queue[e][i].tracker)
  BY <1>0, StartElements
<1>5. /\ \A m \in flow.nodes : ran[m] \in Nat
      /\ \A e \in flow.edges : queue[e] \in Seq(EdgeValues) /\ Len(queue[e]) \in Nat
  BY <1>0 DEF TypeOK
<1>6. /\ nodes' = nodes \ {n} /\ outputs'[n] = {}
      /\ \A m \in flow.nodes : m # n => outputs'[m] = outputs[m]
  BY <1>0 DEF Starts, TypeOK
<1>7. NodeInv'
  <2> SUFFICES ASSUME NEW m \in flow.nodes
               PROVE  /\ \A a \in tracker'[m] : a[2] = ran'[m]
                      /\ flow.kind[m] = "collect" => tracker'[m] = {}
                      /\ m \notin nodes' => ran'[m] > 0 /\ (flow.kind[m] = "foreach" => outputs'[m] = {})
    BY DEF NodeInv
  <2>1. CASE m = n
    BY <2>1, <1>2, <1>3, <1>5, <1>6
  <2>2. CASE m # n
    <3>1. ran'[m] = ran[m] /\ tracker'[m] = tracker[m] /\ outputs'[m] = outputs[m] /\ (m \notin nodes' => m \notin nodes)
      BY <2>2, <1>2, <1>6
    <3> QED
      BY <3>1 DEF NodeInv
  <2> QED
    BY <2>1, <2>2
<1>8. UniformInv'
  <2> SUFFICES ASSUME NEW e \in flow.edges, NEW i \in 1 .. Len(queue'[e]), NEW j \in 1 .. Len(queue'[e])
               PROVE  /\ is_array(queue'[e][i].tracker) => is_array(queue'[e][j].tracker)
                      /\ e.src # FakeNode =>
                           (is_array(queue'[e][i].tracker) <=> flow.kind[e.src] = "foreach" \/ is_array(tracker'[e.src]))
    BY DEF UniformInv, is_array
  <2>1. CASE e.dst = n
    <3>1. \E a, b \in 1 .. Len(queue[e]) : queue'[e][i] = queue[e][a] /\ queue'[e][j] = queue[e][b]
      <4>1. flow.kind[n] # "collect"
        BY <2>1, <1>2
      <4>2. CASE Popped(e)
        BY <4>2 DEF Popped
      <4>3. CASE queue'[e] = queue[e]
        BY <4>3
      <4> QED
        BY <1>4, <2>1, <4>1, <4>2, <4>3
    <3>2. e.src # FakeNode => tracker'[e.src] = tracker[e.src]
      BY <1>1, <1>2, <2>1
    <3> QED
      BY <3>1, <3>2 DEF UniformInv
  <2>2. CASE e.dst # n /\ e.src # n
    <3>1. queue'[e] = queue[e] /\ (e.src # FakeNode => tracker'[e.src] = tracker[e.src])
      BY <1>1, <1>2, <2>2
    <3> QED
      BY <3>1 DEF UniformInv
  <2>3. CASE e.src = n
    <3>1. queue'[e] = queue[e] /\ e.src # FakeNode
      BY <1>0, <1>1, <1>2, <2>3, FlowFacts
    <3>2. ran[n] > 0
      <4>1. queue[e] # <<>>
        BY <3>1, <1>5
      <4> QED
        BY <4>1, <3>1, <2>3, <1>5 DEF CountInv
    <3>3. is_array(tracker[n]) /\ is_array(tracker'[n])
      BY <3>2, <1>3 DEF is_array
    <3> QED
      BY <2>3, <3>1, <3>3 DEF UniformInv
  <2> QED
    BY <2>1, <2>2, <2>3
<1>9. SingleInv'
  <2> SUFFICES ASSUME NEW e \in flow.edges, flow.kind[e.dst] # "collect", ran'[e.dst] > 0, tracker'[e.dst] = {}
               PROVE  /\ \A i \in 1 .. Len(queue'[e]) : ~is_array(queue'[e][i].tracker)
                      /\ e.req => queue'[e] # <<>>
    BY DEF SingleInv, is_array
  <2>1. CASE e.dst = n
    BY <2>1, <1>4
  <2>2. CASE e.dst # n
    <3>1. queue'[e] = queue[e] /\ ran'[e.dst] = ran[e.dst] /\ tracker'[e.dst] = tracker[e.dst]
      BY <1>1, <1>2, <2>2
    <3> QED
      BY <3>1 DEF SingleInv
  <2> QED
    BY <2>1, <2>2
<1>10. PlaceInv'
  <2> SUFFICES ASSUME NEW e \in flow.edges, flow.kind[e.dst] # "collect", NEW i \in 1 .. Len(queue'[e]),
                      NEW a \in queue'[e][i].tracker
               PROVE  a[2] = ran'[e.dst] + i
    BY DEF PlaceInv
  <2>1. CASE e.dst # n
    BY <1>1, <1>2, <2>1 DEF PlaceInv
  <2>2. CASE e.dst = n /\ Popped(e)
    <3>1. i \in Nat /\ i + 1 \in 1 .. Len(queue[e]) /\ queue'[e][i] = queue[e][i + 1]
      BY <2>2, <1>5 DEF Popped
    <3>2. a[2] = ran[n] + (i + 1)
      BY <2>2, <3>1 DEF PlaceInv
    <3>3. ran'[e.dst] = ran[n] + 1 /\ ran[n] \in Nat
      BY <2>2, <1>2, <1>5
    <3>4. PICK r \in Nat : r = ran[n]
      BY <3>3
    <3>5. r + (i + 1) = (r + 1) + i
      BY <3>1
    <3> QED
      BY <3>2, <3>3, <3>4, <3>5
  <2>3. CASE e.dst = n /\ ~Popped(e)
    BY <2>3, <1>4 DEF is_array
  <2> QED
    BY <2>1, <2>2, <2>3
<1> QED
  BY <1>7, <1>8, <1>9, <1>10

\* A node starts: what it takes is one of what it was given, and it will give one.
LEMMA StartCount ==
  ASSUME Inv, LoopInv, LoopInv', OneLevel(flow), flow' = flow, NEW n \in flow.nodes, Starts(n),
         UniformInv, SingleInv, PlaceInv, CountInv
  PROVE  CountInv'
<1>0. TypeOK /\ pc = "scan" /\ n \in nodes /\ LoopsAreRequired(flow)
  BY DEF Inv, Starts, OneLevel
<1>1. \A e \in flow.edges : e.src # e.dst /\ e.dst \in flow.nodes /\ (e.src # FakeNode => e.src \in flow.nodes)
  BY <1>0, NoSelfLoop, FlowFacts DEF Ended
<1>2. /\ ran'[n] = ran[n] + 1
      /\ \A m \in flow.nodes : m # n => ran'[m] = ran[m] /\ tracker'[m] = tracker[m]
      /\ \A e \in flow.edges : e.dst # n => queue'[e] = queue[e]
      /\ \A e \in flow.edges : e.dst = n /\ flow.kind[n] = "collect" => queue'[e] = <<>>
  BY <1>0, StartFacts
<1>3. /\ ran[n] > 0 => tracker[n] # {} /\ tracker'[n] # {}
      /\ flow.kind[n] = "foreach" => tracker'[n] = {}
  BY <1>0, StartElements
<1>4. \A e \in flow.edges : e.dst = n /\ flow.kind[n] # "collect" =>
         /\ e.req => queue[e] # <<>>
         /\ \/ Popped(e) /\ tracker'[n] # {}
            \/ /\ queue'[e] = queue[e]
               /\ \A i \in 1 .. Len(queue[e]) : ~is_array(queue[e][i].tracker)
  BY <1>0, StartElements
<1>5. /\ \A m \in flow.nodes : ran[m] \in Nat
      /\ \A e \in flow.edges : queue[e] \in Seq(EdgeValues) /\ Len(queue[e]) \in Nat
  BY <1>0 DEF TypeOK
<1>6. /\ nodes' = nodes \ {n} /\ outputs'[n] = {}
      /\ \A m \in flow.nodes : m # n => outputs'[m] = outputs[m]
  BY <1>0 DEF Starts, TypeOK
<1>7. \A e \in flow.edges : e.src # FakeNode /\ e.src # n => (Pending(e)' <=> Pending(e))
  BY <1>1, <1>6 DEF Pending
<1>8. \A e \in flow.edges : e.src = n => Pending(e)' /\ ~Pending(e)
  BY <1>0, <1>6 DEF Pending
<1>9. \A e \in flow.edges :
         e.src # FakeNode /\ (tracker[e.src] # {} \/ tracker'[e.src] # {}) /\ flow.kind[e.dst] # "collect" => e.req
  BY <1>0, <1>1 DEF LoopInv, LoopsAreRequired, Repeats, is_array
<1> SUFFICES ASSUME NEW e \in flow.edges, e.src # FakeNode
             PROVE  /\ flow.kind[e.dst] # "collect" /\ flow.kind[e.src] # "foreach" /\ tracker'[e.src] # {} =>
                         ran'[e.dst] + Len(queue'[e]) + (IF Pending(e)' THEN 1 ELSE 0) = ran'[e.src]
                    /\ ran'[e.src] = 0 \/ (flow.kind[e.src] = "foreach" /\ Pending(e)') =>
                         queue'[e] = <<>> /\ (e.req => ran'[e.dst] = 0)
  BY DEF CountInv
<1>10. /\ flow.kind[e.dst] # "collect" /\ flow.kind[e.src] # "foreach" /\ tracker[e.src] # {} =>
            ran[e.dst] + Len(queue[e]) + (IF Pending(e) THEN 1 ELSE 0) = ran[e.src]
       /\ ran[e.src] = 0 \/ (flow.kind[e.src] = "foreach" /\ Pending(e)) =>
            queue[e] = <<>> /\ (e.req => ran[e.dst] = 0)
  BY DEF CountInv
<1>11. CASE e.src # n /\ e.dst # n
  <2>1. /\ ran'[e.dst] = ran[e.dst] /\ queue'[e] = queue[e] /\ (Pending(e)' <=> Pending(e))
        /\ ran'[e.src] = ran[e.src] /\ tracker'[e.src] = tracker[e.src]
    BY <1>1, <1>2, <1>7, <1>11
  <2> QED
    BY <1>10, <2>1
<1>12. CASE e.dst = n /\ flow.kind[n] = "collect"
  <2>1. queue'[e] = <<>> /\ ~e.req
    BY <1>0, <1>2, <1>12 DEF LoopsAreRequired, CollectsFed
  <2> QED
    BY <1>12, <2>1
<1>13. CASE e.dst = n /\ flow.kind[n] # "collect"
  <2>1. /\ e.src # n /\ (Pending(e)' <=> Pending(e))
        /\ ran'[e.src] = ran[e.src] /\ tracker'[e.src] = tracker[e.src]
    BY <1>1, <1>2, <1>7, <1>13
  <2>2. ASSUME flow.kind[e.src] # "foreach", tracker[e.src] # {}
        PROVE  ran'[n] + Len(queue'[e]) = ran[n] + Len(queue[e])
    <3>1. e.req
      BY <1>9, <1>13, <2>2
    <3>2. queue[e] # <<>> /\ HasFront(e)
      BY <1>4, <1>13, <3>1 DEF HasFront
    <3>3. 1 \in 1 .. Len(queue[e])
      BY <1>0, <3>2, FrontIsFirst
    <3>4. is_array(queue[e][1].tracker)
      BY <2>2, <3>3 DEF UniformInv, is_array
    <3>5. Popped(e)
      BY <1>4, <1>13, <3>3, <3>4
    <3>6. /\ ran'[n] = ran[n] + 1 /\ ran[n] \in Nat
          /\ Len(queue[e]) \in Nat /\ Len(queue'[e]) = Len(queue[e]) - 1
      BY <1>2, <1>5, <3>5 DEF Popped
    <3> QED
      BY ONLY <3>6
  <2>3. ASSUME ran[e.src] = 0 \/ (flow.kind[e.src] = "foreach" /\ Pending(e))
        PROVE  queue'[e] = <<>> /\ ~e.req
    <3>1. queue[e] = <<>> /\ Len(queue[e]) = 0
      BY <1>10, <2>3
    <3>2. ~Popped(e)
      BY <3>1 DEF Popped
    <3> QED
      BY <1>4, <1>13, <3>1, <3>2
  <2>4. ran[n] \in Nat /\ ran'[n] \in Nat /\ Len(queue[e]) \in Nat /\ Len(queue'[e]) \in Nat /\ ran[e.src] \in Nat
    BY <1>1, <1>2, <1>4, <1>5, <1>13 DEF Popped
  <2> QED
    BY <1>10, <1>13, <2>1, <2>2, <2>3, <2>4
<1>14. CASE e.src = n
  <2>1. e.dst # n /\ queue'[e] = queue[e] /\ ran'[e.dst] = ran[e.dst] /\ Pending(e)' /\ ~Pending(e)
    BY <1>1, <1>2, <1>8, <1>14
  <2>2. ran[n] \in Nat /\ ran[e.dst] \in Nat /\ Len(queue[e]) \in Nat /\ ran'[n] = ran[n] + 1
    BY <1>1, <1>2, <1>5
  <2>3. ASSUME flow.kind[e.dst] # "collect", flow.kind[n] # "foreach", tracker'[n] # {}
        PROVE  ran[e.dst] + Len(queue[e]) + 1 = ran[n] + 1
    <3>1. CASE ran[n] > 0
      <4>1. tracker[n] # {}
        BY <1>3, <3>1
      <4>2. ran[e.dst] + Len(queue[e]) + 0 = ran[n]
        BY <1>10, <1>14, <2>1, <2>3, <4>1
      <4> QED
        BY <2>2, <4>2
    <3>2. CASE ran[n] = 0
      <4>1. queue[e] = <<>> /\ ran[e.dst] = 0
        BY <1>9, <1>10, <1>14, <2>3, <3>2
      <4> QED
        BY <3>2, <4>1
    <3> QED
      BY <2>2, <3>1, <3>2
  <2>4. ASSUME flow.kind[n] = "foreach" PROVE queue[e] = <<>> /\ (e.req => ran[e.dst] = 0)
    <3>1. ran[n] = 0
      BY <1>3, <2>2, <2>4
    <3> QED
      BY <1>10, <1>14, <3>1
  <2> QED
    BY <1>14, <2>1, <2>2, <2>3, <2>4
<1> QED
  BY <1>11, <1>12, <1>13, <1>14

\* What a node that works on an element gives to its edge e: its one value of this run,
\* or nothing, and then it has given it or will.
GivesOne(e) ==
  \/ Len(queue'[e]) = Len(queue[e]) /\ (Pending(e)' <=> Pending(e))
  \/ Len(queue'[e]) = Len(queue[e]) + 1 /\ Pending(e) /\ ~Pending(e)'
\* What is new on the edge e of node n.
Emitted(n, e) ==
  /\ Len(queue[e]) \in Nat /\ Len(queue'[e]) \in Nat /\ Len(queue[e]) <= Len(queue'[e])
  /\ \A i \in 1 .. Len(queue[e]) : queue'[e][i] = queue[e][i]
  /\ \A i \in Len(queue[e]) + 1 .. Len(queue'[e]) :
       /\ flow.kind[n] = "foreach" => Pending(e) /\ queue'[e][i].tracker = {<<n, i - Len(queue[e])>>}
       /\ flow.kind[n] # "foreach" => queue'[e][i].tracker = tracker[n]
  /\ flow.kind[n] # "foreach" /\ tracker[n] # {} => GivesOne(e)

\* A node outputs something and no node has failed.
Emits(n, ps, k, flag) ==
  /\ n \in flow.nodes /\ ps \in SUBSET flow.ports[n] /\ k \in Lengths(n) /\ flag \in {"some", "false"}
  /\ Saves(n, ps, k, flag) \/ Ends(n, ps, k, flag)
  /\ errors' = {}

\* The node that outputs runs, and no other node changes.
LEMMA EmitNodes ==
  ASSUME Inv, LoopInv, OneLevel(flow), NodeInv, NEW n, NEW ps, NEW k, NEW flag,
         Emits(n, ps, k, flag)
  PROVE  /\ n \notin nodes /\ ran' = ran /\ tracker' = tracker /\ ran[n] > 0
         /\ outputs'[n] = outputs[n] \cup ps
         /\ \A m \in flow.nodes : m # n => (m \in nodes' <=> m \in nodes) /\ outputs'[m] = outputs[m]
         /\ flow.kind[n] = "foreach" => Ends(n, ps, k, flag) /\ n \in nodes' /\ tracker[n] = {} /\ outputs[n] = {}
         /\ \A e \in flow.edges : e.src # n => queue'[e] = queue[e]
<1>a. /\ n \in flow.nodes /\ ps \in SUBSET flow.ports[n] /\ k \in Lengths(n) /\ flag \in {"some", "false"}
      /\ Saves(n, ps, k, flag) \/ Ends(n, ps, k, flag)
      /\ errors' = {}
  BY DEF Emits
<1>0. TypeOK /\ n \in info /\ pc = "save"
  BY <1>a DEF Inv, Saves, Ends
<1>1. n \notin nodes
  BY <1>0 DEF Inv, NodesInv, Ended
<1>2. ran' = ran /\ tracker' = tracker
  BY <1>a DEF Saves, Ends
<1>3. ran[n] > 0 /\ (flow.kind[n] = "foreach" => outputs[n] = {})
  BY <1>a, <1>1 DEF NodeInv
<1>4. \E missing : SaveValues(n, ps, k, flag, missing)
  BY <1>a DEF Saves, Ends
<1>5. outputs'[n] = outputs[n] \cup ps /\ \A m \in flow.nodes : m # n => outputs'[m] = outputs[m]
  BY <1>a, <1>0, <1>4 DEF SaveValues, TypeOK
<1>6. \A m \in flow.nodes : m # n => (m \in nodes' <=> m \in nodes)
  BY <1>a DEF Saves, Ends
<1>7. ASSUME flow.kind[n] = "foreach" PROVE Ends(n, ps, k, flag) /\ n \in nodes' /\ tracker[n] = {}
  <2>1. n \notin flow.info /\ n \notin InLoop(flow)
    BY <1>a, <1>7 DEF OneLevel
  <2>2. Ends(n, ps, k, flag)
    BY <1>a, <2>1 DEF Saves
  <2> QED
    BY <1>a, <2>1, <2>2 DEF Ends, LoopInv, is_array
<1>8. \A e \in flow.edges : e.src # n => queue'[e] = queue[e]
  <2>1. PICK missing : SaveValues(n, ps, k, flag, missing)
    BY <1>4
  <2>2. \A e \in flow.edges : Grown(n, ps, k, missing, e)
    BY <1>0, <2>1, <1>a, SaveFacts
  <2> QED
    BY <2>2 DEF Grown
<1> QED
  BY <1>1, <1>2, <1>3, <1>5, <1>6, <1>7, <1>8

\* Each run of a node gives each of its edges one value at most, and one in the end.
LEMMA EmitEdges ==
  ASSUME Inv, OutputsInv, LoopInv, OneLevel(flow), NodeInv, NEW n, NEW ps, NEW k, NEW flag,
         Emits(n, ps, k, flag),
         NEW e \in flow.edges, e.src = n
  PROVE  Emitted(n, e)
<1>a. /\ n \in flow.nodes /\ ps \in SUBSET flow.ports[n] /\ k \in Lengths(n) /\ flag \in {"some", "false"}
      /\ Saves(n, ps, k, flag) \/ Ends(n, ps, k, flag)
      /\ errors' = {}
  BY DEF Emits
<1>0. TypeOK /\ n \in info /\ pc = "save"
  BY <1>a DEF Inv, Saves, Ends
<1>1. /\ n \notin nodes /\ outputs'[n] = outputs[n] \cup ps
      /\ flow.kind[n] = "foreach" => Ends(n, ps, k, flag) /\ n \in nodes' /\ tracker[n] = {} /\ outputs[n] = {}
      /\ flow.kind[n] = "collect" => tracker[n] = {}
  <2>1. flow.kind[n] = "collect" => tracker[n] = {}
    BY <1>a DEF NodeInv
  <2> QED
    BY <2>1, EmitNodes
<1>2. e.from \in flow.ports[n] /\ (e.opt \/ e.from \in flow.must[n])
  BY <1>a, <1>0, FlowFacts DEF OneLevel
<1>3. PICK missing :
        /\ SaveValues(n, ps, k, flag, missing)
        /\ \/ Saves(n, ps, k, flag) /\ missing = {}
           \/ Ends(n, ps, k, flag) /\ missing = flow.ports[n] \ (outputs[n] \cup ps)
  BY <1>a DEF Saves, Ends
<1>4. Grown(n, ps, k, missing, e)
  BY <1>0, <1>3, <1>a, SaveFacts
<1>5. /\ Len(queue[e]) \in Nat /\ Len(queue'[e]) \in Nat /\ Len(queue[e]) <= Len(queue'[e])
      /\ \A i \in 1 .. Len(queue[e]) : queue'[e][i] = queue[e][i]
      /\ \A i \in Len(queue[e]) + 1 .. Len(queue'[e]) : NewValue(n, ps, missing, e, i)
  BY <1>4 DEF Grown
<1>6. ASSUME flow.kind[n] # "foreach", NEW i \in Len(queue[e]) + 1 .. Len(queue'[e])
      PROVE  queue'[e][i].tracker = tracker[n]
  BY <1>5, <1>6 DEF NewValue
<1>7. ASSUME flow.kind[n] = "foreach", NEW i \in Len(queue[e]) + 1 .. Len(queue'[e])
      PROVE  Pending(e) /\ queue'[e][i].tracker = {<<n, i - Len(queue[e])>>}
  <2>1. ps = flow.ports[n]
    BY <1>a, <1>1, <1>7 DEF Ends, LastOutputs
  <2>2. queue'[e][i].tracker = tracker[n] \cup {<<n, i - Len(queue[e])>>}
    BY <1>2, <1>5, <1>7, <2>1 DEF NewValue
  <2> QED
    BY <1>1, <1>7, <2>2 DEF Pending
<1>8. ASSUME flow.kind[n] # "foreach", tracker[n] # {} PROVE GivesOne(e)
  <2>1. flow.kind[n] = "plain"
    BY <1>a, <1>0, <1>1, <1>8, FlowsAssumption DEF TypeOK
  <2>2. Pending(e) <=> e.from \notin outputs[n]
    BY <1>1 DEF Pending
  <2>3. CASE e.from \in ps
    <3>1. e.from \notin outputs[n]
      <4>1. CASE Saves(n, ps, k, flag)
        <5>1. outs \in Seq(Messages) /\ outs # <<>> /\ n = Head(outs).node
          BY <1>0, <4>1 DEF Saves, TypeOK
        <5>2. 1 \in 1 .. Len(outs) /\ n = outs[1].node
          BY <5>1, TailFacts
        <5> QED
          BY <1>0, <5>2 DEF OutputsInv, Ended
      <4>2. CASE Ends(n, ps, k, flag)
        BY <1>a, <2>1, <2>3, <4>2 DEF Ends, LastOutputs
      <4> QED
        BY <1>a, <4>1, <4>2
    <3>2. ~Pending(e)'
      BY <1>1, <2>3 DEF Pending
    <3>3. Len(queue'[e]) = Len(queue[e]) + 1
      BY <1>4, <1>8, <2>3 DEF Grown
    <3> QED
      BY <2>2, <3>1, <3>2, <3>3 DEF GivesOne
  <2>4. CASE e.from \notin ps /\ Saves(n, ps, k, flag)
    <3>1. (n \notin nodes' /\ missing = {}) \/ Ends(n, ps, k, flag)
      BY <1>1, <1>3, <2>4 DEF Saves
    <3>2. nodes' = nodes
      BY <2>4 DEF Saves
    <3>3. missing = {}
      BY <1>1, <3>1, <3>2 DEF Ends
    <3>4. queue'[e] = queue[e]
      BY <1>4, <2>4, <3>3 DEF Grown
    <3>5. Pending(e)' <=> Pending(e)
      BY <1>1, <2>2, <2>4, <3>2 DEF Pending
    <3> QED
      BY <3>4, <3>5 DEF GivesOne
  <2>5. CASE e.from \notin ps /\ Ends(n, ps, k, flag)
    <3>1. ~Pending(e)' /\ flow.must[n] \subseteq outputs[n] \cup ps
      BY <1>a, <2>5 DEF Ends, Pending
    <3>2. missing = flow.ports[n] \ (outputs[n] \cup ps)
      BY <1>1, <1>3, <2>5 DEF Saves, Ends
    <3>3. CASE e.from \in outputs[n]
      <4>1. queue'[e] = queue[e]
        BY <1>4, <2>5, <3>2, <3>3 DEF Grown
      <4> QED
        BY <2>2, <3>1, <3>3, <4>1 DEF GivesOne
    <3>4. CASE e.from \notin outputs[n]
      <4>1. e.opt /\ e.from \in missing
        BY <1>2, <2>5, <3>1, <3>2, <3>4
      <4>2. Len(queue'[e]) = Len(queue[e]) + 1
        BY <1>4, <2>5, <4>1 DEF Grown
      <4> QED
        BY <2>2, <3>1, <3>4, <4>2 DEF GivesOne
    <3> QED
      BY <3>3, <3>4
  <2> QED
    BY <1>a, <2>3, <2>4, <2>5
<1> QED
  BY <1>5, <1>6, <1>7, <1>8 DEF Emitted

\* A node outputs something: each part of the invariant is kept.
LEMMA EmitAlign ==
  ASSUME Inv, OutputsInv, LoopInv, OneLevel(flow), flow' = flow, NEW n, NEW ps, NEW k, NEW flag,
         Emits(n, ps, k, flag),
         NodeInv, UniformInv, SingleInv, PlaceInv, CountInv
  PROVE  NodeInv' /\ UniformInv' /\ SingleInv' /\ PlaceInv' /\ CountInv'
<1>a. n \in flow.nodes
  BY DEF Emits
<1>0. TypeOK /\ LoopsAreRequired(flow)
  BY DEF Inv, OneLevel
<1>1. /\ n \notin nodes /\ ran' = ran /\ tracker' = tracker /\ ran[n] > 0
      /\ \A m \in flow.nodes : m # n => (m \in nodes' <=> m \in nodes) /\ outputs'[m] = outputs[m]
      /\ flow.kind[n] = "foreach" => n \in nodes' /\ tracker[n] = {}
      /\ \A e \in flow.edges : e.src # n => queue'[e] = queue[e]
  BY EmitNodes
<1>2. \A e \in flow.edges : e.src = n => Emitted(n, e)
  BY EmitEdges
<1>3. \A e \in flow.edges : e.dst \in flow.nodes /\ (e.src # FakeNode => e.src \in flow.nodes) /\ n # FakeNode
  BY <1>a, <1>0, FlowFacts
<1>4. \A m \in flow.nodes : ran[m] \in Nat
  BY <1>0 DEF TypeOK
\* A node of a loop, or a foreach, is required where it goes.
<1>5. \A e \in flow.edges :
        e.src = n /\ (tracker[n] # {} \/ flow.kind[n] = "foreach") /\ flow.kind[e.dst] # "collect" => e.req
  BY <1>0, <1>3 DEF LoopInv, LoopsAreRequired, Repeats, is_array
<1>6. ASSUME NEW e \in flow.edges, e.src = n, flow.kind[n] = "foreach", Pending(e)
      PROVE  queue[e] = <<>> /\ (flow.kind[e.dst] # "collect" => ran[e.dst] = 0)
  BY <1>3, <1>5, <1>6 DEF CountInv
<1>7. NodeInv'
  BY <1>a, <1>1 DEF NodeInv
<1>8. UniformInv'
  <2>1. ASSUME NEW e \in flow.edges, e.src = n, NEW i \in 1 .. Len(queue'[e])
        PROVE  is_array(queue'[e][i].tracker) <=> flow.kind[n] = "foreach" \/ is_array(tracker[n])
    <3>1. Emitted(n, e)
      BY <1>2, <2>1
    <3>2. CASE i \in 1 .. Len(queue[e])
      <4>1. queue'[e][i] = queue[e][i]
        BY <3>1, <3>2 DEF Emitted
      <4> QED
        BY <1>3, <2>1, <3>2, <4>1 DEF UniformInv
    <3>3. CASE i \notin 1 .. Len(queue[e])
      <4>1. i \in Len(queue[e]) + 1 .. Len(queue'[e])
        BY <3>1, <3>3 DEF Emitted
      <4>2. flow.kind[n] = "foreach" => queue'[e][i].tracker = {<<n, i - Len(queue[e])>>}
        BY <3>1, <4>1 DEF Emitted
      <4>3. flow.kind[n] # "foreach" => queue'[e][i].tracker = tracker[n]
        BY <3>1, <4>1 DEF Emitted
      <4> QED
        BY <4>2, <4>3 DEF is_array
    <3> QED
      BY <3>2, <3>3
  <2> SUFFICES ASSUME NEW e \in flow.edges, NEW i \in 1 .. Len(queue'[e]), NEW j \in 1 .. Len(queue'[e])
               PROVE  /\ is_array(queue'[e][i].tracker) => is_array(queue'[e][j].tracker)
                      /\ e.src # FakeNode =>
                           (is_array(queue'[e][i].tracker) <=> flow.kind[e.src] = "foreach" \/ is_array(tracker'[e.src]))
    BY DEF UniformInv, is_array
  <2>2. CASE e.src = n
    BY <1>1, <2>1, <2>2
  <2>3. CASE e.src # n
    BY <1>1, <2>3 DEF UniformInv
  <2> QED
    BY <2>2, <2>3
<1>9. SingleInv'
  <2> SUFFICES ASSUME NEW e \in flow.edges, flow.kind[e.dst] # "collect", ran[e.dst] > 0, tracker[e.dst] = {}
               PROVE  /\ \A i \in 1 .. Len(queue'[e]) : ~is_array(queue'[e][i].tracker)
                      /\ e.req => queue'[e] # <<>>
    BY <1>1 DEF SingleInv, is_array
  <2>1. /\ \A i \in 1 .. Len(queue[e]) : ~is_array(queue[e][i].tracker)
        /\ e.req => queue[e] # <<>>
    BY DEF SingleInv
  <2>2. CASE e.src # n
    BY <1>1, <2>1, <2>2
  <2>3. CASE e.src = n
    <3>1. Emitted(n, e)
      BY <1>2, <2>3
    <3>2. queue[e] \in Seq(EdgeValues)
      BY <1>0 DEF TypeOK
    <3>3. tracker[n] = {} \/ flow.kind[n] = "foreach"
      <4> SUFFICES ASSUME tracker[n] # {}, flow.kind[n] # "foreach" PROVE FALSE
        OBVIOUS
      <4>1. queue[e] # <<>>
        BY <1>5, <2>1, <2>3
      <4>2. 1 \in 1 .. Len(queue[e])
        BY <3>2, <4>1
      <4> QED
        BY <1>3, <2>1, <2>3, <4>2 DEF UniformInv, is_array
    <3>4. ASSUME NEW i \in 1 .. Len(queue'[e]), i \notin 1 .. Len(queue[e])
          PROVE  ~is_array(queue'[e][i].tracker)
      <4>1. i \in Len(queue[e]) + 1 .. Len(queue'[e])
        BY <3>1, <3>4 DEF Emitted
      <4>2. CASE flow.kind[n] = "foreach"
        <5>1. Pending(e)
          BY <3>1, <4>1, <4>2 DEF Emitted
        <5> QED
          BY <1>4, <1>6, <2>3, <4>2, <5>1
      <4>3. CASE flow.kind[n] # "foreach"
        BY <3>1, <3>3, <4>1, <4>3 DEF Emitted, is_array
      <4> QED
        BY <4>2, <4>3
    <3>5. \A i \in 1 .. Len(queue'[e]) : ~is_array(queue'[e][i].tracker)
      BY <2>1, <3>1, <3>4 DEF Emitted
    <3>6. ASSUME queue[e] # <<>> PROVE queue'[e] # <<>>
      <4>1. Len(queue[e]) # 0 /\ Len(queue[e]) \in Nat
        BY <3>2, <3>6
      <4>2. Len(queue'[e]) # 0
        BY <3>1, <4>1 DEF Emitted
      <4> QED
        BY <4>2
    <3> QED
      BY <2>1, <3>5, <3>6
  <2> QED
    BY <2>2, <2>3
<1>10. PlaceInv'
  <2> SUFFICES ASSUME NEW e \in flow.edges, flow.kind[e.dst] # "collect", NEW i \in 1 .. Len(queue'[e]),
                      NEW a \in queue'[e][i].tracker
               PROVE  a[2] = ran[e.dst] + i
    BY <1>1 DEF PlaceInv
  <2>1. CASE e.src # n
    BY <1>1, <2>1 DEF PlaceInv
  <2>2. CASE e.src = n /\ i \in 1 .. Len(queue[e])
    <3>1. queue'[e][i] = queue[e][i]
      BY <1>2, <2>2 DEF Emitted
    <3> QED
      BY <2>2, <3>1 DEF PlaceInv
  <2>3. CASE e.src = n /\ i \notin 1 .. Len(queue[e])
    <3>1. Emitted(n, e)
      BY <1>2, <2>3
    <3>2. /\ i \in Len(queue[e]) + 1 .. Len(queue'[e]) /\ i \in Nat
          /\ Len(queue[e]) \in Nat /\ Len(queue'[e]) \in Nat
      BY <2>3, <3>1 DEF Emitted
    <3>3. CASE flow.kind[n] = "foreach"
      <4>1. Pending(e) /\ a \in {<<n, i - Len(queue[e])>>}
        BY <3>1, <3>2, <3>3 DEF Emitted
      <4>2. queue[e] = <<>> /\ ran[e.dst] = 0
        BY <1>6, <2>3, <3>3, <4>1
      <4>3. a[2] = i - Len(queue[e]) /\ Len(queue[e]) = 0
        BY <4>1, <4>2
      <4> QED
        BY <3>2, <4>2, <4>3
    <3>4. CASE flow.kind[n] # "foreach"
      <4>1. a \in tracker[n] /\ GivesOne(e)
        BY <3>1, <3>2, <3>4 DEF Emitted
      <4>2. a[2] = ran[n]
        BY <1>a, <4>1 DEF NodeInv
      <4>3. Len(queue'[e]) = Len(queue[e]) + 1 /\ Pending(e)
        BY <3>2, <4>1 DEF GivesOne
      <4>4. i = Len(queue[e]) + 1
        BY <3>2, <4>3
      <4>5. ran[e.dst] + Len(queue[e]) + 1 = ran[n]
        BY <1>3, <2>3, <3>4, <4>1, <4>3 DEF CountInv
      <4>6. ran[e.dst] \in Nat
        BY <1>3, <1>4
      <4>7. ran[e.dst] + Len(queue[e]) + 1 = ran[e.dst] + (Len(queue[e]) + 1)
        BY <3>2, <4>6
      <4> QED
        BY <4>2, <4>4, <4>5, <4>7
    <3> QED
      BY <3>3, <3>4
  <2> QED
    BY <2>1, <2>2, <2>3
<1>11. CountInv'
  <2> SUFFICES ASSUME NEW e \in flow.edges, e.src # FakeNode
               PROVE  /\ flow.kind[e.dst] # "collect" /\ flow.kind[e.src] # "foreach" /\ tracker[e.src] # {} =>
                           ran[e.dst] + Len(queue'[e]) + (IF Pending(e)' THEN 1 ELSE 0) = ran[e.src]
                      /\ ran[e.src] = 0 \/ (flow.kind[e.src] = "foreach" /\ Pending(e)') =>
                           queue'[e] = <<>> /\ (e.req => ran[e.dst] = 0)
    BY <1>1 DEF CountInv
  <2>1. CASE e.src # n
    <3>1. queue'[e] = queue[e] /\ (Pending(e)' <=> Pending(e))
      BY <1>1, <1>3, <2>1 DEF Pending
    <3> QED
      BY <3>1 DEF CountInv
  <2>2. CASE e.src = n
    <3>1. Emitted(n, e) /\ ran[e.dst] \in Nat /\ ran[n] \in Nat
      BY <1>a, <1>2, <1>3, <1>4, <2>2
    <3>2. ran[n] # 0 /\ (flow.kind[n] = "foreach" => ~Pending(e)')
      BY <1>1, <2>2, <3>1 DEF Pending
    <3>3. ASSUME flow.kind[e.dst] # "collect", flow.kind[n] # "foreach", tracker[n] # {}
          PROVE  ran[e.dst] + Len(queue'[e]) + (IF Pending(e)' THEN 1 ELSE 0) = ran[n]
      <4>1. ran[e.dst] + Len(queue[e]) + (IF Pending(e) THEN 1 ELSE 0) = ran[n]
        BY <2>2, <3>3 DEF CountInv
      <4>2. Len(queue[e]) \in Nat /\ Len(queue'[e]) \in Nat /\ GivesOne(e)
        BY <3>1, <3>3 DEF Emitted
      <4>3. CASE Len(queue'[e]) = Len(queue[e]) /\ (Pending(e)' <=> Pending(e))
        BY <4>1, <4>3
      <4>4. CASE Len(queue'[e]) = Len(queue[e]) + 1 /\ Pending(e) /\ ~Pending(e)'
        <5>1. ran[e.dst] + Len(queue[e]) + 1 = ran[n]
          BY <4>1, <4>4
        <5>2. ran[e.dst] + Len(queue'[e]) + 0 = ran[n]
          BY <3>1, <4>2, <4>4, <5>1
        <5> QED
          BY <4>4, <5>2
      <4> QED
        BY <4>2, <4>3, <4>4 DEF GivesOne
    <3> QED
      BY <2>2, <3>2, <3>3
  <2> QED
    BY <2>1, <2>2
<1> QED
  BY <1>7, <1>8, <1>9, <1>10, <1>11

\* Before the first step only the fake node has given something, the elements in order.
LEMMA InitAlign == Init => OutputsInv /\ AlignInv
<1> SUFFICES ASSUME Init PROVE OutputsInv /\ AlignInv
  OBVIOUS
<1>0. /\ flow \in Flows /\ nodes = flow.nodes /\ info = {} /\ out = <<>> /\ outs = <<>>
      /\ ran = [n \in flow.nodes |-> 0] /\ tracker = [n \in flow.nodes |-> {}]
  BY DEF Init
<1>1. PICK s \in [FakeEdges(flow) -> Supplied] :
        queue = [e \in flow.edges |-> IF e \in FakeEdges(flow) THEN s[e] ELSE <<>>]
  BY DEF Init
<1>2. OutputsInv
  BY <1>0 DEF OutputsInv
<1>3. NodeInv
  BY <1>0 DEF NodeInv
<1>4. \A e \in flow.edges : e.dst \in flow.nodes /\ (e.src # FakeNode => e.src \in flow.nodes)
  BY <1>0, FlowsAssumption
<1>5. SingleInv
  BY <1>0, <1>4 DEF SingleInv
<1>6. \A e \in flow.edges : e.src # FakeNode => queue[e] = <<>>
  BY <1>1 DEF FakeEdges, OutEdges
<1>7. CountInv
  BY <1>0, <1>4, <1>6 DEF CountInv
<1>8. \A v, t : Value(v, t).tracker = t
  BY DEF Value
<1>9. ASSUME NEW e \in flow.edges
      PROVE  \/ \A i \in 1 .. Len(queue[e]) : queue[e][i].tracker = {}
             \/ \A i \in 1 .. Len(queue[e]) : queue[e][i].tracker = {<<FakeNode, i>>} /\ i \in Nat
  <2>1. CASE queue[e] = <<>>
    BY <2>1
  <2>2. CASE queue[e] = <<Value("some", {})>>
    BY <1>8, <2>2
  <2>3. ASSUME NEW k \in 1 .. MaxArray, queue[e] = [j \in 1 .. k |-> Value("some", {<<FakeNode, j>>})]
        PROVE  \A i \in 1 .. Len(queue[e]) : queue[e][i].tracker = {<<FakeNode, i>>} /\ i \in Nat
    <3> SUFFICES ASSUME NEW i \in 1 .. Len(queue[e]) PROVE queue[e][i].tracker = {<<FakeNode, i>>} /\ i \in Nat
      OBVIOUS
    <3>1. i \in 1 .. k /\ i \in Nat
      BY <2>3, MaxArrayAssumption
    <3>2. queue[e][i] = Value("some", {<<FakeNode, i>>})
      BY <2>3, <3>1
    <3> QED
      BY <1>8, <3>1, <3>2
  <2>4. queue[e] = <<>> \/ queue[e] \in Supplied
    BY <1>1
  <2> QED
    BY <2>1, <2>2, <2>3, <2>4 DEF Supplied
<1>10. UniformInv
  <2> SUFFICES ASSUME NEW e \in flow.edges, NEW i \in 1 .. Len(queue[e]), NEW j \in 1 .. Len(queue[e])
               PROVE  /\ is_array(queue[e][i].tracker) => is_array(queue[e][j].tracker)
                      /\ e.src = FakeNode
    BY DEF UniformInv
  <2>1. e.src = FakeNode
    BY <1>6
  <2> QED
    BY <1>9, <2>1 DEF is_array
<1>11. PlaceInv
  <2> SUFFICES ASSUME NEW e \in flow.edges, NEW i \in 1 .. Len(queue[e]), NEW a \in queue[e][i].tracker
               PROVE  a[2] = ran[e.dst] + i
    BY DEF PlaceInv
  <2>1. a[2] = i /\ i \in Nat /\ ran[e.dst] = 0
    BY <1>0, <1>4, <1>9
  <2> QED
    BY <2>1
<1> QED
  BY <1>2, <1>3, <1>5, <1>7, <1>10, <1>11 DEF AlignInv

\* Elements stay in step while no node fails.
LEMMA NextAlign ==
  ASSUME OneLevel(flow), Inv, LoopInv, OutputsInv, AlignInv, [Next]_vars
  PROVE  AlignInv'
<1>0. flow' = flow /\ TypeOK /\ OneLevel(flow) /\ LoopInv'
  BY GraphStep, NextLoop DEF Inv, TypeOK
<1> SUFFICES ASSUME errors' = {} PROVE NodeInv' /\ UniformInv' /\ SingleInv' /\ PlaceInv' /\ CountInv'
  BY DEF AlignInv
<1>1. errors = {}
  <2>1. errors \subseteq errors'
    BY GraphStep DEF Rests, Starts, Saves, Ends
  <2> QED
    BY <2>1
<1>2. NodeInv /\ UniformInv /\ SingleInv /\ PlaceInv /\ CountInv
  BY <1>1 DEF AlignInv
<1>3. CASE Rests
  <2>1. UNCHANGED <<flow, nodes, queue, ran, tracker, outputs>>
    BY <1>0, <1>3 DEF Rests
  <2>2. NodeInv' /\ SingleInv' /\ PlaceInv'
    BY <1>2, <2>1 DEF NodeInv, SingleInv, PlaceInv, is_array
  <2>3. UniformInv'
    BY <1>2, <2>1 DEF UniformInv, is_array
  <2>4. CountInv'
    BY <1>2, <2>1 DEF CountInv, Pending
  <2> QED
    BY <2>2, <2>3, <2>4
<1>4. CASE \E n \in flow.nodes : Starts(n)
  <2>1. PICK n \in flow.nodes : Starts(n)
    BY <1>4
  <2> QED
    BY <1>0, <1>2, <2>1, StartValues, StartCount
<1>5. CASE \E n \in flow.nodes : \E ps \in SUBSET flow.ports[n], k \in Lengths(n), flag \in {"some", "false"} :
             Saves(n, ps, k, flag) \/ Ends(n, ps, k, flag)
  <2>1. \E n, ps, k, flag : Emits(n, ps, k, flag)
    BY <1>5 DEF Emits
  <2>2. PICK n, ps, k, flag : Emits(n, ps, k, flag)
    BY <2>1
  <2> QED
    BY <1>0, <1>2, <2>2, EmitAlign
<1> QED
  BY <1>3, <1>4, <1>5, GraphStep

\* What a node gets together from one foreach is the same element of its array, in every
\* flow whose loops are not nested and in which what a loop gives to a node is required,
\* as long as no node failed.
THEOREM ElementsAlignedHolds == Spec /\ OneLevel(flow) => []ElementsAligned
<1>1. Init => LoopInv /\ OutputsInv /\ AlignInv
  BY InitLoop, InitAlign
<1>2. Inv /\ LoopInv /\ OutputsInv /\ AlignInv /\ OneLevel(flow) /\ [Next]_vars =>
        LoopInv' /\ OutputsInv' /\ AlignInv' /\ OneLevel(flow)'
  BY NextLoop, NextOutputs, NextAlign, GraphStep
<1>3. Inv /\ AlignInv => ElementsAligned
  <2> SUFFICES ASSUME Inv, AlignInv, errors = {}, NEW n \in info, NEW a \in tracker[n], NEW b \in tracker[n]
               PROVE  a[2] = b[2]
    BY DEF ElementsAligned
  <2>1. n \in flow.nodes
    BY DEF Inv, TypeOK
  <2> QED
    BY <2>1 DEF AlignInv, NodeInv
<1> QED
  BY <1>1, <1>2, <1>3, InvHolds, PTL DEF Spec
=============================================================================
