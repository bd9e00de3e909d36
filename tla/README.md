# A TLA+ development for flow-backend

flow-backend runs *flows*: graphs of nodes, each with a command, in which values
travel along edges. This directory models the parts of the server whose
correctness depends on the order of events (the loop that runs a flow, the
collection of signatures for its transactions, the worker that owns a run and
its events, the start and the shutdown of runs, access tokens, sign-ins,
websocket sessions and the cloning of flows) and the contract between the
commands and the loop that runs them. TLC checks small instances, TLAPS proves
part of the results for every instance.

`PROJECT.json` says which definition stands for which lines, which run checks
which property, and which hazards the properties are for.

## 1. Inventory of the system

A process has one `DBWorker` actor (actix) that finds or starts the others by id
(`AddressBook`), and HTTP and websocket endpoints that send messages to them.

| component | state | operations | what makes it correct |
|---|---|---|---|
| **FlowGraph** `crates/flow/src/flow_graph.rs` | nodes, a queue per edge, running nodes, results, an output channel, two stop signals | the loop of `run`: start ready nodes, wait for outputs and ends, bundle instructions, execute them; one spawned task per node | values of one array element stay together; collect gets all; a transaction is sent whole; the loop never waits for itself; it ends; its `expect`s hold |
| **sort_transactions** (same file) | none | instruction nodes to an order of transactions | nodes connected by values known before execution share one; order follows the rest |
| **Instructions::execute** `lib/flow-lib/src/solana.rs` | message, signatures | build a message, ask the fee payer, then the others; or for a Solana action the others, then its signer | all signatures are over one message, which does what was asked for |
| **SignerWorker** `db_worker/signer.rs` | table of keys | sign, or forward to the owner | each request goes to who can sign |
| **UserWorker** `db_worker/user_worker.rs` | `sigreg`, timers, subscriptions | SignatureRequest, SubmitSignature, new_flow_run, clone_flow, subscriptions | a request ends by an answer or by its timer, not by a wrong submission |
| **FlowRunWorker** `db_worker/flow_run_worker.rs` | events, subscribers, the channel to `save_to_db`, `done_tx` | events, SubscribeEvents, WaitFinish, StopFlow, SystemShutdown | subscribers see all events in order; nothing is written after the result; waiters and the shutdown are answered |
| **TokenWorker** `db_worker/token_worker.rs` | JWT, or a list of callers while one is fetched; local storage | get_jwt, claim, refresh | one request at a time; every caller is answered; no flow run sees that a stored refresh token was stale |
| **DBWorker** `db_worker/mod.rs`, `utils/src/address_book.rs` | weak addresses, log channel | find/start actors, CopyIn, SubmitSignature, SystemShutdown | at most one actor per id; shutdown loses no log |
| **FlowRegistry** `crates/flow/src/flow_registry.rs`, `command/interflow.rs` | loaded flows, depth | load a flow and those it calls, start a run or an interflow | what is called is loaded; depth is bounded; a start that fails answers its caller; errors reach the top |
| **Commands** `crates/cmds-*`, `lib/flow-lib/src/command`, node definitions | none | read inputs, build instructions, hand them to `execute`, return outputs | the definition of a node, the fields of `Input`, the accounts of the instructions, the keys and the outputs agree |
| **Websocket** `flow-server/src/ws.rs` | sessions, tokens, streams | authenticate, subscribe to a run or to signature requests | requests are answered in order; no signature request is missed |
| **SupabaseAuth** `flow-server/src/user.rs` | a semaphore per key in use | sign in, find or create an account, claim a token | at most one request creates an account; nobody fails because of another request; semaphores are removed |
| **clone_flow** `crates/db/src/connection/conn_impl.rs` | one transaction | copy a flow and those it calls | copies refer to each other and to the user's wallets only |
| **Flow logs, HTTP API** | spans | routing, validation | each log line reaches its run |
| **srpc, Deno commands** | services by id | a child process calls back | a service is there while its process lives |
| **Database, flow-value, hosts of user code, clients** | – | SQL, conversions, I/O | out of scope, see §7 |

Interactions: FlowRegistry asks UserWorker for a run (`new_flow_run`), which
starts a FlowRunWorker; FlowGraph sends events into its stream and gets its stop
signals from it. Commands call `ctx.execute`; FlowGraph bundles these calls and
hands them to `Instructions::execute`, which asks SignerWorker, which asks
UserWorker, which waits for SubmitSignature from the API by way of DBWorker.
Commands get their token from TokenWorker. An interflow node asks the registry
of its run for another run and waits for its result. Websocket sessions ask
DBWorker for a user's or a run's worker and subscribe to it. The shutdown of the server asks every FlowRunWorker that DBWorker
finds, and then waits for the log channel.

What is hard about it: commands, the loop and the stop signals interleave;
transactions wait for several commands that wait for the loop; wallets answer
late, wrongly, with a different message, or never; timers race submissions;
database writes fail; events arrive after the end of the run; a broadcast that
fires once has late listeners; a crash separates the auth server from the
disk; weak addresses die between two messages; clients go away in the middle of a
sign-in; flows are edited while they are copied; and the declaration of a node,
the fields its command reads and the keys its instructions need are kept in
three places by hand.

## 2. Modules

| module | models | used by |
|---|---|---|
| `Transactions` | `sort_transactions` and the graph it works on, as operators | FlowGraph, `FlowGraphProofs` |
| `FlowGraph` | `FlowGraph::run`, `run_command`, `ExecuteWithBundling`, `ExecuteNoBundling`, the stop signals | `MCFlowGraph`, `FlowGraphProofs` |
| `Signing` | `build_and_sign_tx`, `execute_solana_action`, SignerWorker, UserWorker's `sigreg`, SubmitSignature | `MCSigning`, `UserProofs` |
| `TokenWorker` | TokenWorker, the auth server, local storage, the callers' RetryPolicy | `UserProofs` |
| `FlowRunWorker` | FlowRunWorker, `save_to_db`, the senders and clients of a run | `FlowRunWorkerProofs` |
| `RunLog` | what a run's record promises: an abstract specification | FlowRunWorker implements it |
| `DBWorker` | the log writer, and the shutdown of the server over several runs | `MCDBWorker`, `DBWorkerProofs` |
| `FlowRegistry` | loading flows while they are edited, starting runs and interflows, the call depth | `MCFlowRegistry`, `FlowRegistryProofs` |
| `WsConn` | websocket sessions, the user's worker they subscribe to, its weak address | `MCWsConn`, `WsConnProofs` |
| `Login` | SupabaseAuth: semaphores, the account server, passwords | `MCLogin`, `UserProofs` |
| `CloneFlow` | `clone_flow` statement by statement, with an editor beside it | `MCCloneFlow`, `UserProofs` |
| `CommandDefs`, `GovernanceCommands`, `TokenCommands`, `AccountCommands`, `NftCommands`, `WormholeCommands`, `StdCommands` | catalogues: one operator per command | `CommandRun` |
| `GovernanceProgram` | the documentation of the instructions, as in `governance/mod.rs` | `CommandRun` |
| `CommandRun` | one node that runs one command | `CommandRunProofs` |
| `Subsequences` | `Keep`: the elements of a sequence that are in a set (`filter`) | DBWorker, FlowRegistry, WsConn, FlowGraph, CloneFlow |
| `SequenceLemmas` | facts about sequences, in no component | the proofs |

Definitions whose comment begins with "Seeded fault" are variants of the
definition they precede. No specification uses them; they show that a property
notices the fault.

**FlowGraph.** Three kinds of processes: the loop (`pc`), a command per node
(`task`) and whoever stops the flow. `queue` is `Edge::values`; `nodes`,
`running`, `info`, `waiting` are the maps of `FlowGraph` and `State`; `out` is
the channel of partial outputs. One round of the loop is `RoundTop`, then
`StartNode`/`SkipNode` for each node in order, `ScanEnd`, `wait` (as many
outputs as there are running nodes, and the commands that have ended), `SaveOutputs`/`NodeFinished…`, and, when
every running node waits and none was started, `CollectInstructions` … `ExecuteEnd`.
A value is "none", "some" or "false" (for `submit`) with the set of
array positions it came from (`TrackEdgeValue`). Assumptions on commands: one
calls `execute` at most once and outputs a port once. The runtime is the
current-thread one (`#[actix::main]`): a task cannot send and end between two
polls that `wait` makes in one step.

**Signing.** Any number of builds at once. A message is its programs and data (`logic`),
the accounts of its instructions, and how many of them are read-only. A wallet may submit any other;
`is_same_message_logic` accepts one with the same logic, no more read-only accounts, and accounts that agree pairwise
as far as both lists go: the code zips them and does not compare their number. A request is
identified by build and wallet; `sigreg`, `timers` and `saving` are the state of
the owners' workers. `SubmitSignature` takes the
request out, checks it, and puts it back or answers it. Left out: notifications
of subscribers, the identity memo of an action, fee estimation, and what happens
on chain.

**TokenWorker.** A JWT is a number. The auth server accepts each refresh token
once. The actor may stop when idle and start again from the disk; the process
may crash between any two steps; a write may be lost. The service that `FlowRegistry::from_actix` makes for a
run tries once more when a refresh token was refused; the services of `token_from_apikeys`, which
`ProxiedUserConn` uses, do not: their callers are `Direct`, and `Retries` tells the two apart.

**FlowRunWorker.** An event is "row" (written to the database), "log", "finish"
or "sigreq" (which comes from UserWorker, past the stream). `senders` tells who
still holds the stream: the run, and commands that outlive it. `save_to_db` runs
in steps (take a chunk, connect or drop it, write each event or fail, hand over
the logs) between which anything else may happen. An actor that has nothing left to poll and whose address
nobody holds (`Kept` is false) stops in the poll in which its stream or `save_to_db` ends; `Idle` is for one that was
held, and is let go later.

`FlowRunWorker` implements `RunLog`: `published` is what subscribers were shown,
`record` the rows of the database; a step of `RunLog` publishes, records an event
that is published, after all that were recorded, completes, or answers a client of
a complete record. The mapping takes `complete` to "save_to_db has returned".

**DBWorker.** A run is absent, active, finished, lingering (saved, but its worker is held by commands that are
left behind or by a client) or saved; FlowRunWorker says what
is behind these steps. A worker that lingers is found by the shutdown like any other. Once its handler has run (`Told`), it
waits for a broadcast that was sent before, and nothing ends it: `ShutdownEnds` says that the server stops, or waits for
ever for such a worker, and for nothing else. Rows go by mailbox, channel and chunk; the shutdown asks
the runs it finds (`asked`), and those that an interflow starts later are `late`.

**FlowRegistry.** A run is named by the path of calls that led to it. The state
of a run follows `start`: recorded, watched by a worker, failed or running, ended;
each step may fail. A panic of a command (`Panics`) breaks the loop at once: the run ends with an error, and its tasks go on. Stopping a run, or a panic in it, leaves what it called, and a task that is left behind may still call (`OnlyCutRunsLeaveCalls`). While flows are
loaded their owner may edit them. They are read through `FlowConfigCache`, from which only time removes
an entry, and where a slow reader may put what it read before the edit; so whoever reads gets the current
version or one of `recent`, and a flow that is read twice may get older.

**WsConn.** A session handles one request at a time (`wait` of the future), and
events of its streams in between. The user's worker is found by a weak address:
it stops when nobody holds it and nobody listens. Runs come, ask for signatures
and go.

**Login.** Threads run in parallel, so each critical section of the map is a
step, and so are acquiring, releasing and dropping. A client may go away at any
`await`; the account server may then still create the account (`lost`).

**CloneFlow.** One transaction at READ COMMITTED: each statement is a step, and sees
edits committed before it. A node is plain, a wallet or an interflow; replacing a
reference that is not in the map makes a NULL node, as `jsonb_set` does.

**Commands.** A command is a record of what the loop can tell of it, as a function
of the inputs it was given and of facts it learns: its ports (from the node
definition), the inputs that deserializing `Input` insists on, instructions with
the accounts that must sign, keys, early and final outputs, and whether it
refuses, asks or panics. Where the sources document the accounts of an
instruction (governance, record, token metadata) or derive the same address in
several commands (wormhole), accounts and seeds are there, too. `CommandRun` runs one of them through
`CmdBuilder`, `Context::execute` and `node_finished`.

## 3. Runs

| run | states | shows |
|---|---|---|
| `flow_graph` | 143 k | ElementsAligned, CollectIsComplete, RerunsUseElements, LoopNeverPanics (with the types), NoStuckWait, BundleIsWhole, Terminates: loops with two paths, nested, with optional outputs and inputs, a cyclic flow, a partial run; bundles over two transactions, with two fee payers, as an interflow, without bundling, in a loop; failures, panics, a command that hangs, both stop signals |
| `signing` | 302 k | SignedOverOneMessage, LogicIsKept, RequestsOutliveWrongSubmissions, SignedMessageIsFixed, EverythingEnds: a user's transaction, a Solana action and one of the server's own, at the same time |
| `token_worker` | 184 k | SingleFlight, StaleRefreshIsHidden, EveryCallerAnswered: two callers with a retry, one without and one that names another user |
| `flow_run` | 587 k | SubscribersSeeTheRun, FinishIsLastRow, ResultIsFinal, ImplementsRunLog, WaitersAnswered |
| `db_worker` | 150 k | RowsInOrder, ShutdownKeepsRows, ShutdownEnds: two runs, one of which may be started by the other during the shutdown, and workers that outlive their run |
| `flow_registry` | 606 k | LoadsWhatIsCalled, ErrorsReachTheTop, OnlyCutRunsLeaveCalls, EveryRunEnds: four flows, one of them called twice and calling itself, until it is edited and calls another, which nobody called before |
| `ws_conn` | 400 k | ResponsesInOrder, NoRequestMissed, EveryRequestAnswered: two sessions of a user and runs that come and go |
| `login` | 127 k | OneInside, NoConflict, NoSemaphoreLeft: three requests for one key |
| `clone_flow` | 63 k | CloneIsFaithful, CloneStandsAlone, CloneEnds: flows that call each other, two edits, three users |
| `commands` | 20 k | RunsAsDeclared, KeysSuffice, DependentsCanJoin, InstructionsAgree: every command that is compiled |
| `flow_skipped_output` | violation | finding 1 |
| `flow_run_shutdown` | violation | finding 2 |

**Bounds.** Flows have up to four nodes. Arrays have up to three elements,
enough for one element to be queued, one in work and one done at
the same node. In `Signing` an
instruction has one or two accounts, and a wallet may submit a list that is shorter, longer or different, with
more or fewer read-only accounts (`ReadOnly` = 1), which is all a comparison can tell apart.
`MaxJwt` = 3 allows a claim and two refreshes, so that a stored token is stale
twice over, with one crash and four callers, one of whom has no retry and one of whom names the wrong user.
`FlowRunWorker` has two events and FlowFinish, with chunks of two: an event
comes before and after FlowFinish, and the last chunk may or may not be full.
Nothing depends on the size of a chunk beyond that (`CHUNK_SIZE` is 16).
`DBWorker` has two runs with two rows each and chunks of two, so that runs
share a chunk and one of them is late. `FlowRegistry` has `MaxDepth` = 3
(32 in the code): a cycle is cut off, and is cut off below a run that
could go on. One edit is enough: what matters is whether a second reading differs from the first. `WsConn` has two requests for each session and two signature
requests, enough for one before and one after a worker was replaced. `Login` has
three requests, for one key: one inside, one that waits, and one that meets
the entry while it is removed; requests for different keys share nothing but the
map. `CloneFlow` has two edits: one to add a call and one to change the flow it leads to.
`CommandRun` gives each command all sets of at most, or all but at most,
`MaxChoices` = 2 of its optional inputs and facts: what unwraps one input because of another is
reached; three that matter only together are left to the theorems of `CommandRunProofs`.

**Deadlock** is checked for FlowGraph, Signing, TokenWorker and CommandRun; their
`Terminated` steps (where there are any) say when they may stop. It is not
checked where everything really ends: FlowRunWorker, DBWorker and FlowRegistry when all runs
are over, WsConn and Login when the requests are used up, CloneFlow when the transaction is.

**Fairness.** The runtime polls each task and actor that can make a step, hence
weak fairness of the loop, of each command, of the actors' handlers, futures and
timers. Assumed of the environment: the auth server and the database answer,
possibly with an error, and a command ends unless the flow says that it may hang.
A command that hangs ends only by the stop signal, which `run_command` races it
against (`StopCancels`). Clients are never assumed to do anything: nobody has to
submit a signature, stop a flow or leave. FlowRunWorker assumes of its run what
FlowGraph shows (`Terminates`): it ends when it is stopped; DBWorker assumes so much of
its runs after their time is up, and nothing before. FlowRegistry assumes that a run ends once
its calls are answered. `Login` has no fairness and no liveness property: its HTTP
client has no timeout, so a request to the account server may take for ever,
and with it everybody who waits for that key.

## 4. Proofs

Ten components are proved with TLAPS, for every value of their constants that
meets the named assumptions (`SignersAssumption`, `KindAssumption`,
`InputsAssumption`; `CallersAssumption`, `BoundsAssumption`;
`SubscribersAssumption`, `SizeAssumption`; `LoginAssumption`; `ChunkAssumption`,
`ModeAssumption`; `WsAssumption`; `CallsAssumption`; `FlowsAssumption`,
`MaxArrayAssumption`; `WalletsAssumption`, `StoredAssumption`, `EditsAssumption`,
`MaxEditsAssumption`; `CommandsExist`, `BoundIsNumber`). These say of the constants
what they are: sizes are numbers, a request has a key, a flow has a version, the order of a
valid flow is topological. Each
component has an inductive invariant `Inv` (`TokenInv`, `SignInv`, `CloneInv` in the modules that `UserProofs`
extends together with Login), stated in its module, which TLC found to hold on the
instance of its run before it was proved. A proof has lemmas that say what
an action changes, lemmas that it keeps each part of `Inv`, and the theorems.

* `UserProofs`, TokenWorker: `TokenTypeCorrect`, `SingleFlightHolds`, `StaleRefreshHidden`.
  `StaleRefreshIsHidden` is not inductive: nothing in it keeps the second
  attempt of a caller from being refused. `TokenInv` adds `SecondAttemptIsSafe` (while
  a caller is in its second attempt, what the worker holds or refreshes can still
  be refreshed), `GrantedIsUsable`, and `NewRequestHasRetry`. Callers without a retry take part in the run, and
  are told of refusals; the theorem speaks of the others. The argument: a
  refusal sends the worker to None, where the next attempt claims a new JWT; a
  JWT that was just granted has an unused refresh token; a worker with callers does
  not stop, and a crash takes its callers along.
* `UserProofs`, Signing: `SignTypeCorrect`, `SignedOverOneMessageHolds`, `LogicIsKeptHolds`,
  `RequestsOutliveHolds`, `SignedMessageStaysFixed`. `SignInv` adds `LeadSignsFirst`
  (after the first phase the fee payer's signature is over the current message), `NotRewrittenYet` (before it the message is
  the one that was built: `is_same_message_logic` is not transitive, so that `LogicIsKept` needs that a message is rewritten once),
  `NoEarlySignature` (before it, nobody has signed) and `NotRegisteredYet` (a
  request that was not made or not inserted has no entry and no timer). One lemma
  per action shows that it keeps `SignInv`; `FailInv` and `AskKeepsRegister` hold
  what several of them share. The action property follows from `NoEarlySignature`:
  the only step that changes a message is taken when nobody has signed.
* `FlowRunWorkerProofs`: `TypeCorrect`, `SubscribersSeeTheRunHolds`,
  `FinishIsLastRowHolds`, `ResultStaysFinal`, `RunLogIsImplemented`. `FinishIsLastRow` speaks of the rows
  only; an event gets there through stream, tx and chunk, so `InOrder` orders the
  four of them and each before the next, leaving out signature requests, which
  overtake the stream, and `FinishClosesTx` says that FlowFinish is the last of
  tx, chunk and rows, with nothing behind it in the other two and the channel
  closed. `Bookkeeping` bounds the events and says that a waiter that was answered
  implies that `save_to_db` returned, from which `ResultIsFinal` follows. The
  refinement of `RunLog` needs `Listed` beside them: what is on its way to the database
  has been published, so a row that is written is one that `RunLog` may record. Each
  action is then a step of `RunLog` or leaves its variables alone.
* `UserProofs`, Login: `TypeCorrect`, `OneInsideHolds`, `NoConflictHolds`, `NoSemaphoreLeftHolds`.
  A permit excludes those that hold the same semaphore; what must be
  shown is that two requests for a key do hold the same, although entries of the map come
  and go. `RefsOwnEntry` says so: the entry of a key stays while anybody refers to it.
  `PermitsDiffer` and `InsideWithPermit` then give `OneInside`. `NoConflict` needs
  `CreationsAwaited` (until a client leaves a creation, the account is not there while
  one is under way) and `PasswordsAgree`; `NoSemaphoreLeft` needs `EntriesHaveUsers`.
* `DBWorkerProofs`: `TypeCorrect`, `RowsInOrderHolds`, `ShutdownKeepsRowsHolds`. `InOrder` is that of
  the rows of each run in mailbox, channel, chunk and database; `Awaited` says that a run
  waits for the row that is in the mailbox, so that it is not saved, and the channel not
  closed, with a row on its way; `NoRowVanishes` that a row is in one of these
  places or was lost or failed; `Staged` that only a closed channel loses rows, and that
  it is closed after the runs that were asked are gone.
* `WsConnProofs`: `TypeCorrect`, `ResponsesInOrderHolds`, `NoRequestMissedHolds`. `Numbered` gives the
  requests of a session their numbers from the answers to the inbox, `Named` says that an
  event's stream was named before, and `Subscribed` that there is at most one worker, the one in
  the address book, which lives while it is held and to which every open stream is
  subscribed: without it a request could go to a new worker that has no subscribers.
* `FlowRegistryProofs`: `TypeCorrect`, `LoadsWhatIsCalledHolds`, `ErrorsReachTheTopHolds`,
  `OnlyCutRunsLeaveCallsHolds`. `Closed` says that what a loaded flow calls is loaded or queued, and that every
  set of flows that holds the entrypoint and all that its members called in any version so far
  holds what is loaded or queued: the least such set is reached without induction. `Called` and `Answered` relate a call to
  the run that it started: one that lives is waited for or was left by a caller that was stopped or had a panic, one that is
  "ok" has succeeded, and an idle call has no run, so none is overwritten.
* `FlowGraphProofs`: `TypeCorrect`, `LoopNeverPanicsHolds`, `NoStuckWaitHolds`, `BundleIsWholeHolds`,
  `SortIsPartition`, `RerunsUseElementsHolds`, `CollectIsCompleteHolds`, `ElementsAlignedHolds`.
  `FlowsAssumption` is what `from_cfg` leaves of a flow: edges join its nodes, a flow without a cycle
  has a topological order, and an instruction node's outputs are known to come before or after its
  transaction (`InstructionInfo::simple`). `Inv` has six parts: `SortedInv` (the transactions divide the
  instruction nodes), `InvalidInv` (an invalid flow is stopped before anything starts), `NodesInv` (a node is idle, running or
  finished, and in the maps that go with it), `TaskInv` (an idle node has no command, a finished one has returned), `ChannelInv` (a
  message in the channel is of a node that runs and of its current run; who waits for the loop has a message there or is known to wait) and
  `ExecInv` (every node that waits is in a transaction that is left, and the one that is sent is whole). `LoopNeverPanics`
  follows from the nodes and the channel, `NoStuckWait` from the tasks, `BundleIsWhole` from `ExecInv`.
  `SortIsPartition` is about `sort_transactions`: its passes visit every node of an acyclic flow before they run out, by a
  first node, in topological order, that none visits.
  The three theorems about loops have a hypothesis on the flow that runs, each stated in `FlowGraph` and evaluated by TLC for
  every flow that is checked (`LoopsAssumption` in `MCFlowGraph`). `InLoop` is the least set of nodes that a foreach
  feeds, up to the next collect. A node runs again only with an element (`RerunsUseElements`) when
  what may be skipped in a loop is required where it goes (`SkipsAreRequired`; finding 1 is a flow without it);
  `LoopInv` says that elements are found only in loops. A collect node has all elements (`CollectIsComplete`) when all
  that a loop gives is required (`LoopsAreRequired`); `CollectInv` says that what feeds a collect node that
  ran belongs to a set of nodes that are all at rest (`Quiet`), each done or missing what another of the set would have to give, and
  every action is shown to start none of them. The elements of
  one array meet their own (`ElementsAligned`) when, besides, loops are not nested and outputs that are not optional
  are given (`OneLevel`); `AlignInv` counts: a node has run as often as it took elements
  (`NodeInv`), the queue of an edge holds the next ones in order (`PlaceInv`), and what a node has output was taken or is still
  queued (`CountInv`), while no node failed.
* `UserProofs`, CloneFlow: `CloneTypeCorrect`, `CloneStandsAloneHolds`, `CloneIsFaithfulHolds`. `CopiesApart` says that the
  copies belong to the user and have new ids; `WalkInv` how far the walk over the flows is: the root is visited or queued, and at the end
  the queue is empty and each visited flow has its copy; `BegunInv` that a flow which was not edited is still as the transaction found it;
  `CallsInv` that what a visited flow calls is visited or queued; `DraftInv` that the copy of a flow which was not edited has its nodes.
* `CommandRunProofs`: `RunsAsDeclaredHolds`, `KeysSufficeHolds`, `DependentsCanJoinHolds`.
  TLC gives a command few or nearly all of its optional inputs and facts; the lemmas of the catalogues speak of every
  combination, with one step per command. `XDeclared` says that the definition does not depend on the inputs (`Fixed`), that what is read
  is required (`Reads`), that there is no panic and no token without permission (`Calm`), that every output is given (`Gives`), and
  early enough (`Joins`); `XSigns` that the keys suffice. Each conclusion leaves out the commands of one list of section 5.
  `Inv` carries this to the machine: `InputsInv` (the node has
  what its definition requires), `ProgressInv` (what was passed on the way: submit, the inputs, no refusal), `SavedInv` (the first
  outputs are there) and `RunsAsDeclared`. `MaxChoices` only bounds which choices there are: the lemmas do not use it.
* `SequenceLemmas`: `Append`, `Tail`, `SubSeq`, `\o` and `Range`, and `Keep`: what is kept is what
  is in the set, in its order (`KeepFacts`), and appending an element keeps it or not (`KeepAppend`).
  The models say `Keep(s, T)` where the code filters, for `SelectSeq` takes an operator, about which
  the provers cannot reason. The induction theorems of the library
  take one, too; the lemmas use `LeastElement` in their place: a set of numbers that is not empty has a
  least element (from `WFMin`), so a first counterexample is looked for.

TLC checks the properties on the same specifications (`TypeOK` is
only proved). Only model-checked are: liveness (`EveryCallerAnswered`, `EverythingEnds`, `Terminates`,
`WaitersAnswered`, `EveryRunEnds`, `ShutdownEnds`, `EveryRequestAnswered`, `CloneEnds`), because TLAPS
has no rules for fairness here; and `InstructionsAgree`, which compares the accounts with a table put together with `@@` and
filtered with `SelectSeq`, operators that the provers do not know: it is the one property of the commands for which TLC's
choices are all there is.

## 5. Findings and deviations

Findings, each with a run that shows it:

1. `flow_skipped_output`: in a loop, a missing value at the front of an
   optional input makes its node ready, and is not popped when the node takes its
   inputs; the node runs again on the same entry.
2. `flow_run_shutdown`: `SystemShutdown` subscribes to `done_tx` after it may
   have fired, when a command that is left behind still holds the stream of a run that was saved; then the handler waits for ever after it has logged "force stopping
   FlowRunWorker", and so does the shutdown of the server.

Deviations that the passing runs exclude by name. Definitions in `CommandRun` list
the commands; the properties hold for all the others, and fail for each of these
when it is taken off its list:

* `Misdeclared` (30): `Input` insists on a field that the definition calls optional or does
  not have, as `lock_id` in `governance/set_token_owner_record_locks.rs:35`, whose definition
  has `lock_ids`.
* `Incomplete` (6): a required output is never given, as `vote_record_address` of
  `governance/finalize_vote.rs:103`: the node fails after its transaction was confirmed.
* `Panicking` (33): an unwrap, index or overflow that some inputs or answers reach, as
  `beneficiary.unwrap()` in `governance/relinquish_vote.rs:87`. A panic ends the whole run. Among them are
  `find_program_address` with a seed of more than 32 bytes that a user wrote (`find_pda.rs:131`,
  `governance/create_realm.rs:102`, and `vaa_hash` in seven commands of wormhole, as in `wormhole/post_vaa.rs:54`), a name of more than 64 bytes
  (`streamflow/mod.rs:189`), a power of ten that is no `Decimal` for 29 decimals or more (`utils.rs:55`, from `mint_token` and
  `transfer_token`), the arithmetic of `range` (`std/range.rs:36`), and answers of other servers that are
  unwrapped (`nft/core/fetch_assets.rs:71`, `wormhole/verify_signatures.rs:56`).
* `Unsigned` (7): an account is marked as a signer whose key is not sent, as in
  `governance/add_signatory.rs:75` ("TODO add as signer").
* `Late` (8): outputs are given only after the transaction, although the instruction info says
  that they come before it (`compression/mint_v1.rs:79`, `flow-lib/src/command/mod.rs:152`): a node
  that needs one is put in the same transaction and cannot start before it is sent.
* `Undocumented` (3 instructions): accounts or signers differ from the documentation, as in
  `record/write_to_record.rs:56` against `record/mod.rs:43`.

Others:

* `is_same_message_logic` (`flow-lib/src/solana.rs:125`) zips the accounts of two instructions: a rewritten message with fewer or
  more of them is accepted. `LogicIsKept` says what remains: the accounts agree as far as both lists go.
* A caller of a service of `token_from_apikeys` (`token_worker.rs:409`) does see that a stored refresh token was refused;
  the next call claims a new one. `StaleRefreshIsHidden` speaks of the callers that have a retry.
* A rewritten message for a transaction that others have signed is refused and its request dropped (`user_worker.rs:423`), while other wrong
  submissions leave theirs in place. `RequestsOutliveWrongSubmissions` exempts just this.
* A run that ends by a panic leaves the runs that its nodes called, as one that is stopped does (`flow_graph.rs:1391`).
* A collect node with no incoming edge is ready again after each of its runs
  (`flow_graph.rs:719`), although a comment three lines below says that collect can only
  run once. No flow of `MCFlowGraph` has one.
* A node in a loop whose inputs are all optional counts as finished between two elements
  (`finished_recursive`, `flow_graph.rs:1755`), so a collect node after it may run before all
  elements have come. `CollectIsCompleteHolds` excludes it (`LoopsAreRequired`); no flow of `MCFlowGraph` has one.
* Where a node in a nested loop takes elements of the outer loop, too, it takes one of each per run, although
  the inner loop has several for each of the outer one. `ElementsAlignedHolds` excludes nested loops (`OneLevel`).
* With a proxied database a chunk with the rows of two users is sent with the token of the first
  (`db_worker/mod.rs:367`); the other server drops the rest (`api/db_push_logs.rs:21`). `ShutdownKeepsRows`
  excludes it (`MayMix`), and `MCDBWorker` has one user.
* A request that is cancelled does not call `cleanup_semaphore` (`user.rs:315`): its entry stays until the
  next request for this key. `NoSemaphoreLeft` excludes it.
* A flow that is edited between two statements of `clone_flow` may get NULL nodes in its copy
  (`conn_impl.rs:526`). `CloneIsFaithful` speaks of flows that were not edited.

`WaitersAnswered` says what does hold beside finding 2: a request that comes before the run is saved is
answered.

## 6. Plan

Done: Transactions, FlowGraph, Signing, TokenWorker, FlowRunWorker with RunLog, DBWorker,
FlowRegistry, WsConn, Login, CloneFlow, the commands; proofs of all of these (the commands without `InstructionsAgree`), and of
FlowRunWorker's refinement of RunLog. What is left, in this order:

1. An abstract bundler (each execute call is answered once, in whole
   transactions) that FlowGraph implements.
2. The srpc server with a Deno process.

## 7. Not modelled

* Building the graph from its configuration (`FlowGraph::from_cfg`): the flows of `MCFlowGraph` are
  what it gives.
* What commands compute, the data of their instructions and their effects on chain. Commands that
  are not compiled (clockwork, xnft, metaboss, proxy_authority, the older commands of `nft`).
* The attribute tables of `pdg-common`, flow-value's conversions, WASM and Rhai hosts, the
  renderer's protocol: data, or pure computation.
* SQL statements that read or write one row; their callers' models have the outcomes. The caches of wallets,
  flow info and user ids: a change is seen ten seconds (user ids: two minutes) late.
* Who may start a flow (`start_shared`, `start_unverified`): one comparison of the cached flow info, after which the
  run is started as by its owner, with the starter's signers, too.
* The HTTP routes that check a token and forward one message; fee estimation; the table of spans of the tracing layer.
* srpc and the Deno child processes (planned, §6); client libraries and the command line tool, which are not part
  of the server.
