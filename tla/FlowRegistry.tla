---------------------------- MODULE FlowRegistry ----------------------------
(***************************************************************************)
(* FlowRegistry: the flows that run together, because one calls another    *)
(* with an interflow node.  get_all_flows loads the flow that is started   *)
(* and all that it may call, while their owner edits them; it reads each   *)
(* through a cache that is never told of an edit.  FlowRegistry::start     *)
(* makes a run of one of them: the UserWorker records it and starts its    *)
(* FlowRunWorker before the graph is built, and when that succeeds the run *)
(* is a task of its own.  The command of an interflow node waits for it.   *)
(*                                                                         *)
(* A run is named by the calls that lead to it: << >> is the run that the  *)
(* user started, <<i>> the one of its i-th interflow node, and so on.  The *)
(* length of the name is the `depth' of the registry that starts it.       *)
(***************************************************************************)
EXTENDS Naturals, Sequences, SequencesExt, Subsequences

CONSTANTS
  Flows,       \* The flows of the user.
  Entrypoint,  \* The one that is started.
  Versions,    \* Versions[f][v]: the flow of each interflow node of f, after v - 1 edits.
  MaxDepth     \* MAX_CALL_DEPTH

ASSUME CallsAssumption ==
  /\ Entrypoint \in Flows
  /\ Versions \in [Flows -> Seq(Seq(Flows))] /\ \A f \in Flows : Versions[f] # <<>>
  /\ MaxDepth \in Nat \ {0}

VARIABLES
  phase,   \* The registry: "loading", "ready" or "failed".
  queue,   \* get_all_flows: the flows to load.
  current, \* current[f]: the version of f in the database.
  recent,  \* recent[f]: the earlier ones that may be in the cache, or be put there.
  flows,   \* The flows that were loaded, each with what it calls.
  run,     \* The runs that were started: their flow, state, result and calls.
  stopped, \* The runs whose stop signal was raised.
  panicked \* The runs that the panic of a command has ended.

dbVars == <<current, recent>>
vars == <<phase, queue, dbVars, flows, run, stopped, panicked>>

Names == DOMAIN run
Nodes(q) == DOMAIN run[q].call
Caller(q) == Front(q)

HasEnd(q) == run[q].state = "ended"

Empty == [ n \in {} |-> n ]
With(f, x, y) == [ n \in DOMAIN f \cup {x} |-> IF n = x THEN y ELSE f[n] ]

-----------------------------------------------------------------------------
(* get_all_flows *)

Init ==
  /\ phase = "loading" /\ queue = <<Entrypoint>> /\ flows = Empty
  /\ current = [ f \in Flows |-> 1 ] /\ recent = [ f \in Flows |-> {} ]
  /\ run = Empty /\ stopped = {} /\ panicked = {}

\* get_flow_config: from the cache, or from the database.  Nothing is removed from
\* the cache before its time, and who has read before an edit may put it there after.
Readable(f) == { Versions[f][v] : v \in {current[f]} \cup recent[f] }

\* The owner saves a flow.  Edits that come later do not concern this registry.
Edit(f) ==
  /\ phase = "loading" /\ current[f] < Len(Versions[f])
  /\ current' = [ current EXCEPT ![f] = @ + 1 ]
  /\ recent' = [ recent EXCEPT ![f] = @ \cup {current[f]} ]
  /\ UNCHANGED <<phase, queue, flows, run, stopped, panicked>>

\* get_cache: an entry has expired.
Expire(f) ==
  /\ phase = "loading" /\ recent[f] # {}
  /\ recent' = [ recent EXCEPT ![f] = {} ]
  /\ UNCHANGED <<phase, queue, current, flows, run, stopped, panicked>>

NotLoaded(f, calls) == Keep(calls, Flows \ (DOMAIN flows \cup {f}))

\* Seeded fault: a flow that was loaded meanwhile is loaded again, and what it calls
\* is left out.
Load_LoadedOnce(f) ==
  /\ phase = "loading" /\ queue # <<>> /\ f = Last(queue)
  /\ \E calls \in Readable(f) :
       /\ queue' = Front(queue) \o (IF f \in DOMAIN flows THEN <<>> ELSE NotLoaded(f, calls))
       /\ flows' = With(flows, f, calls)
  /\ UNCHANGED <<phase, dbVars, run, stopped, panicked>>

\* A flow is taken from the end of the queue; those that it calls and that are
\* not loaded yet are put there, perhaps once more.  The last version that is read is
\* the one that runs.
Load(f) ==
  /\ phase = "loading" /\ queue # <<>> /\ f = Last(queue)
  /\ \E calls \in Readable(f) :
       /\ queue' = Front(queue) \o NotLoaded(f, calls)
       /\ flows' = With(flows, f, calls)
  /\ UNCHANGED <<phase, dbVars, run, stopped, panicked>>

\* A flow cannot be read, or belongs to somebody else.
LoadFails ==
  /\ phase = "loading" /\ queue # <<>>
  /\ phase' = "failed"
  /\ UNCHANGED <<queue, dbVars, flows, run, stopped, panicked>>

\* The graphs of the flows that bundle are built to learn what their interflow
\* nodes give before they send instructions.
Loaded ==
  /\ phase = "loading" /\ queue = <<>>
  /\ phase' \in {"ready", "failed"}
  /\ UNCHANGED <<queue, dbVars, flows, run, stopped, panicked>>

-----------------------------------------------------------------------------
(* FlowRegistry::start *)

NewRun(f) == [ flow |-> f, state |-> "new", result |-> "none",
               call |-> [ i \in 1..Len(flows[f]) |-> "idle" ] ]

\* What the caller of q sees: the node of a run that is still running.
Answer(runs, q, res) ==
  IF q = <<>> THEN runs
  ELSE [ runs EXCEPT ![Caller(q)].call[Last(q)] = IF @ = "waiting" THEN res ELSE @ ]

StartFlow ==
  /\ phase = "ready" /\ Names = {}
  /\ run' = With(run, <<>>, NewRun(Entrypoint))
  /\ UNCHANGED <<phase, queue, dbVars, flows, stopped, panicked>>

\* The node of an interflow starts: its command calls start, which checks the
\* depth before the run is recorded.  A run that a panic has ended leaves the tasks of
\* its nodes behind; they call as before, for nobody.
Call(p, i) ==
  /\ run[p].state = "running" \/ p \in panicked
  /\ p \notin stopped /\ run[p].call[i] = "idle"
  /\ LET f == flows[run[p].flow][i]
         q == Append(p, i)
         Seen(c) == IF p \in panicked THEN "dropped" ELSE c
     IN  IF f \notin DOMAIN flows \/ Len(q) >= MaxDepth
           THEN run' = [ run EXCEPT ![p].call[i] = Seen("error") ]
           ELSE run' = [ With(run, q, NewRun(f)) EXCEPT ![p].call[i] = Seen("waiting") ]
  /\ UNCHANGED <<phase, queue, dbVars, flows, stopped, panicked>>

SetState(q, from, to) ==
  /\ run[q].state = from
  /\ run' = [ run EXCEPT ![q].state = to ]
  /\ UNCHANGED <<phase, queue, dbVars, flows, stopped, panicked>>

\* UserWorker's new_flow_run: the row of the run, its FlowRunWorker, and its logs.
Record(q) == SetState(q, "new", "recorded")
StartWorker(q) == SetState(q, "recorded", "watched")

\* The graph is built, and the values of earlier runs are read.
Build(q) == SetState(q, "watched", "running")

\* Seeded fault: the caller is not told that the start failed.
StartFails_Silent(q) ==
  /\ run[q].state \in {"new", "recorded", "watched"}
  /\ run' = Answer([ run EXCEPT ![q].state =
                       IF @ = "new" THEN "not recorded" ELSE "failed" ], <<>>, "error")
  /\ UNCHANGED <<phase, queue, dbVars, flows, stopped, panicked>>

\* Each of these steps may fail.  What was recorded stays.
StartFails(q) ==
  /\ run[q].state \in {"new", "recorded", "watched"}
  /\ run' = Answer([ run EXCEPT ![q].state =
                       IF @ = "new" THEN "not recorded" ELSE "failed" ], q, "error")
  /\ UNCHANGED <<phase, queue, dbVars, flows, stopped, panicked>>

-----------------------------------------------------------------------------
(* The runs *)

\* The user stops one run, by its FlowRunWorker, which is there as long as a task that
\* a panic left behind.
Stop(q) ==
  /\ run[q].state \in {"watched", "running"} \/ q \in panicked
  /\ q \notin stopped
  /\ stopped' = stopped \cup {q}
  /\ UNCHANGED <<phase, queue, dbVars, flows, run, panicked>>

\* FlowGraph::run returns: whoever waits has its result, the tasks of the nodes that
\* still wait for a call are left behind.
Ended(q, res) ==
  run' = Answer([ run EXCEPT ![q].state = "ended", ![q].result = res,
                             ![q].call = [ i \in Nodes(q) |->
                                IF run[q].call[i] = "waiting" THEN "dropped" ELSE run[q].call[i] ] ],
                q, res)

\* Seeded fault: the errors of nodes do not make the run fail.
End_IgnoresErrors(q, res) ==
  /\ run[q].state = "running"
  /\ (\A i \in Nodes(q) : run[q].call[i] # "waiting") \/ q \in stopped
  /\ Ended(q, res)
  /\ UNCHANGED <<phase, queue, dbVars, flows, stopped, panicked>>

\* Seeded fault: a run does not wait for what it called.
End_DoesNotWait(q, res) ==
  /\ run[q].state = "running"
  /\ ((\E i \in Nodes(q) : run[q].call[i] = "error") => res = "error") \/ q \in stopped
  /\ Ended(q, res)
  /\ UNCHANGED <<phase, queue, dbVars, flows, stopped, panicked>>

\* The loop ends: no node is running, or the run was stopped.  A failed node makes
\* the run fail.
End(q, res) ==
  /\ run[q].state = "running"
  /\ \/ /\ \A i \in Nodes(q) : run[q].call[i] # "waiting"
        /\ (\E i \in Nodes(q) : run[q].call[i] = "error") => res = "error"
     \/ q \in stopped
  /\ Ended(q, res)
  /\ UNCHANGED <<phase, queue, dbVars, flows, stopped, panicked>>

\* node_finished: the task of a command has panicked, and the loop breaks at once.
Panics(q) ==
  /\ run[q].state = "running"
  /\ panicked' = panicked \cup {q}
  /\ Ended(q, "error")
  /\ UNCHANGED <<phase, queue, dbVars, flows, stopped>>

\* All that the registry itself does; a node that fails before it calls is one
\* that ends the run with an error.
Step(q) ==
  \/ Record(q) \/ StartWorker(q) \/ Build(q) \/ StartFails(q)
  \/ \E res \in {"ok", "error"} : End(q, res)
  \/ \E i \in Nodes(q) : Call(q, i)

Registry ==
  \/ LoadFails \/ Loaded \/ StartFlow
  \/ \E f \in Flows : Load(f)
  \/ \E q \in Names : Step(q)

Next ==
  \/ Registry
  \/ \E f \in Flows : Edit(f) \/ Expire(f)
  \/ \E q \in Names : Stop(q) \/ Panics(q)

\* Tasks are polled and the database answers.
Spec == Init /\ [][Next]_vars /\ WF_vars(Registry)

-----------------------------------------------------------------------------
(* Properties *)

\* Whatever was edited while the flows were loaded, each of the versions that will run
\* finds all that it calls: `start' never fails to find the flow of a call.  Nothing else
\* is loaded than what some version that could be read leads to.
AnyVersion(f) == UNION { Range(Versions[f][v]) : v \in 1..current[f] }
LoadsWhatIsCalled ==
  phase = "ready" =>
    /\ Entrypoint \in DOMAIN flows
    /\ \A f \in DOMAIN flows : Range(flows[f]) \subseteq DOMAIN flows
    /\ \A S \in SUBSET Flows :
         Entrypoint \in S /\ (\A f \in S : AnyVersion(f) \subseteq S) => DOMAIN flows \subseteq S

\* The error of a call reaches the user: a run in which one failed has failed, and
\* so has its caller, unless the user stopped one of them.
ErrorsReachTheTop ==
  \A q \in Names :
    HasEnd(q) /\ run[q].result = "ok" /\ q \notin stopped =>
      \A i \in Nodes(q) :
        run[q].call[i] # "idle" =>
          Append(q, i) \in Names /\ run[Append(q, i)].result = "ok"

\* A run that ended has no running calls, unless it was stopped or one of its commands
\* panicked: neither ends the runs that it started.
Live(q) == run[q].state \in {"new", "recorded", "watched", "running"}
Cut(q) == q \in stopped \cup panicked
OnlyCutRunsLeaveCalls ==
  \A q \in Names \ {<<>>} : Live(q) /\ HasEnd(Caller(q)) => Cut(Caller(q))

\* Every start comes to an end, also of flows that call themselves.
EveryRunEnds ==
  <>[](\A q \in Names : run[q].state \in {"not recorded", "failed", "ended"})

-----------------------------------------------------------------------------
(* The inductive invariant *)

CallStates == {"idle", "waiting", "ok", "error", "dropped"}
RunRecord ==
  [ flow : Flows,
    state : {"new", "recorded", "watched", "running", "not recorded", "failed", "ended"},
    result : {"none", "ok", "error"},
    call : Seq(CallStates) ]

\* Types.
TypeOK ==
  /\ phase \in {"loading", "ready", "failed"} /\ queue \in Seq(Flows)
  /\ current \in [Flows -> Nat] /\ recent \in [Flows -> SUBSET Nat]
  /\ DOMAIN flows \subseteq Flows /\ flows \in [DOMAIN flows -> Seq(Flows)]
  /\ Names \subseteq Seq(Nat) /\ run \in [Names -> RunRecord]
  /\ stopped \subseteq Names /\ panicked \subseteq Names

\* What may be read was in the database.
Cached ==
  \A f \in Flows : current[f] \in 1..Len(Versions[f]) /\ recent[f] \subseteq 1..current[f]

\* What is called was loaded or will be, and nothing else.
Found == DOMAIN flows \cup Range(queue)
Closed ==
  /\ Entrypoint \in Found
  /\ \A f \in DOMAIN flows : Range(flows[f]) \subseteq Found
  /\ \A S \in SUBSET Flows :
       Entrypoint \in S /\ (\A f \in S : AnyVersion(f) \subseteq S) => Found \subseteq S
  /\ phase = "ready" => queue = <<>>

\* A run has a caller that waits for it, or was cut off before it had an answer.
Called ==
  \A q \in Names \ {<<>>} :
    /\ Caller(q) \in Names /\ Last(q) \in Nodes(Caller(q))
    /\ Live(q) => run[Caller(q)].call[Last(q)] \in {"waiting", "dropped"}

\* What the state of a call says about the two runs.
Answered ==
  \A q \in Names :
    /\ run[q].result = "ok" => HasEnd(q)
    /\ q \in panicked => HasEnd(q) /\ run[q].result = "error"
    /\ \A i \in Nodes(q) :
         LET c == run[q].call[i]
         IN  /\ c = "idle" => Append(q, i) \notin Names
             /\ c = "waiting" => run[q].state = "running"
             /\ c = "ok" => Append(q, i) \in Names /\ run[Append(q, i)].result = "ok"
             /\ c = "dropped" => Cut(q)
             /\ c = "error" /\ HasEnd(q) /\ q \notin stopped => run[q].result = "error"

Inv == TypeOK /\ Cached /\ Closed /\ Called /\ Answered

=============================================================================
