--------------------------- MODULE FlowRunWorker ---------------------------
(***************************************************************************)
(* The FlowRunWorker actor: one per flow run.  It gets the events of the    *)
(* run as a stream, keeps them for those who subscribe later, passes them   *)
(* to its subscribers and to save_to_db, a future of its own that writes    *)
(* them to the database, and tells whoever waits for the run that it ended. *)
(*                                                                         *)
(* The stream lasts as long as somebody can send to it: the run itself, and *)
(* its commands, which a run that is stopped or ended by a panic leaves     *)
(* behind.  Nobody keeps the address of the actor, so it stops when it has  *)
(* nothing to poll, unless a request that waits for it holds its address.   *)
(***************************************************************************)
EXTENDS Naturals, Sequences, FiniteSets

CONSTANTS
    Subscribers,
    Readers,    \* the subscribers that may read the run
    Holders,    \* the ones that hold the actor's address (get_signature_request)
    Waiters,    \* users of get_flow_output
    ChunkSize,  \* CHUNK_SIZE of save_to_db
    MaxEvents   \* bound: events of the run before FlowFinish

ASSUME SubscribersAssumption == Readers \subseteq Subscribers /\ Holders \subseteq Subscribers
ASSUME SizeAssumption == ChunkSize \in Nat \ {0} /\ MaxEvents \in Nat

\* "row": an event that save_to_db writes (FlowStart, NodeStart, NodeOutput,
\* ...), "log": a FlowLog or NodeLog, "finish": FlowFinish, "sigreq": a
\* SignatureRequest, which comes from the UserWorker and not from the stream.
Kinds == {"row", "log", "finish", "sigreq"}
Event == [kind : Kinds, no : 1 .. MaxEvents + 1]

VARIABLES
    senders,    \* who can send to the stream
    emitted,    \* how many events there were
    stream,     \* events the actor has not handled
    ended,      \* the stream ended: StreamHandler::finished was called
    stop,       \* stop_signal
    actor,      \* "on" or "off"
    all_events,
    sub,        \* what became of each subscriber
    got,        \* the events it was sent
    tx,         \* the channel to save_to_db
    open,       \* it is not closed
    saver,      \* save_to_db
    chunk,      \* the events it took and did not write yet
    logs,       \* the log lines among them
    rows,       \* database: what was written
    copied,     \* the log lines handed to DBWorker
    waiter,     \* what became of each WaitFinish
    shutdown    \* SystemShutdown

runVars == <<senders, emitted, stream, ended, stop>>
actorVars == <<actor, all_events, tx, open>>
subVars == <<sub, got>>
saverVars == <<saver, chunk, logs, rows, copied>>
vars == <<runVars, actorVars, subVars, saverVars, waiter, shutdown>>

SubStates == {"none", "refused", "subscribed", "closed", "left"}
SaverStates == {"idle", "connect", "write", "done"}
WaiterStates == {"none", "waiting", "ok", "closed", "left"}
ShutdownStates == {"no", "grace", "forced", "finishing"}

TypeOK ==
    /\ senders \subseteq {"run", "commands"}
    /\ emitted \in 0 .. MaxEvents + 1
    /\ stream \in Seq(Event)
    /\ ended \in BOOLEAN /\ stop \in BOOLEAN /\ open \in BOOLEAN
    /\ actor \in {"on", "off"}
    /\ all_events \in Seq(Event)
    /\ sub \in [Subscribers -> SubStates]
    /\ got \in [Subscribers -> Seq(Event)]
    /\ tx \in Seq(Event)
    /\ saver \in SaverStates
    /\ chunk \in Seq(Event) /\ logs \in Seq(Event)
    /\ rows \in Seq(Event) /\ copied \in Seq(Event)
    /\ waiter \in [Waiters -> WaiterStates]
    /\ shutdown \in ShutdownStates
    /\ saver \in {"idle", "done"} => chunk = <<>> /\ logs = <<>>

\* UserWorker's new_flow_run starts the actor, before the run starts.
Init ==
    /\ senders = {"run", "commands"} /\ emitted = 0 /\ stream = <<>> /\ ended = FALSE
    /\ stop = FALSE
    /\ actor = "on" /\ all_events = <<>> /\ tx = <<>> /\ open = TRUE
    /\ sub = [s \in Subscribers |-> "none"] /\ got = [s \in Subscribers |-> <<>>]
    /\ saver = "idle" /\ chunk = <<>> /\ logs = <<>> /\ rows = <<>> /\ copied = <<>>
    /\ waiter = [w \in Waiters |-> "none"]
    /\ shutdown = "no"

----------------------------------------------------------------------------
(* The run.  A sender that finds the actor gone is ignored.                 *)

New(kind) == [kind |-> kind, no |-> emitted + 1]

Emit(kind) ==
    /\ senders # {} /\ emitted < MaxEvents
    /\ kind \in {"row", "log"}
    /\ emitted' = emitted + 1
    /\ stream' = Append(stream, New(kind))
    /\ UNCHANGED <<senders, ended, stop, actorVars, subVars, saverVars, waiter, shutdown>>

\* FlowFinish is the last the run sends.  Its commands may go on: it was
\* stopped, or one of them panicked.
RunFinish ==
    /\ "run" \in senders
    /\ emitted' = emitted + 1
    /\ stream' = Append(stream, New("finish"))
    /\ senders' = senders \ {"run"}
    /\ UNCHANGED <<ended, stop, actorVars, subVars, saverVars, waiter, shutdown>>

\* The graph could not be built: FlowRegistry::start drops the sender, and
\* there is no FlowStart nor FlowFinish.
RunAborts ==
    /\ "run" \in senders /\ \A i \in 1 .. Len(stream) : stream[i].kind # "row"
    /\ \A i \in 1 .. Len(all_events) : all_events[i].kind # "row"
    /\ senders' = {}
    /\ UNCHANGED <<emitted, stream, ended, stop, actorVars, subVars, saverVars, waiter, shutdown>>

CommandsEnd ==
    /\ "commands" \in senders
    /\ senders' = senders \ {"commands"}
    /\ UNCHANGED <<emitted, stream, ended, stop, actorVars, subVars, saverVars, waiter, shutdown>>

----------------------------------------------------------------------------
(* The actor *)

Subscribed(s) == sub[s] = "subscribed"

\* Seeded fault: FlowFinish does not close the channel to save_to_db.
Handle_KeepsOpen(e) ==
    /\ all_events' = Append(all_events, e)
    /\ tx' = IF open THEN Append(tx, e) ELSE tx
    /\ open' = open
    /\ got' = [s \in Subscribers |-> IF Subscribed(s) THEN Append(got[s], e) ELSE got[s]]
    /\ sub' = [s \in Subscribers |->
                 IF Subscribed(s) /\ e.kind = "finish" THEN "closed" ELSE sub[s]]

\* StreamHandler::handle: to save_to_db, to the subscribers, and to the list.
Handle(e) ==
    /\ all_events' = Append(all_events, e)
    /\ tx' = IF open THEN Append(tx, e) ELSE tx
    /\ open' = (open /\ e.kind # "finish")
    /\ got' = [s \in Subscribers |-> IF Subscribed(s) THEN Append(got[s], e) ELSE got[s]]
    /\ sub' = [s \in Subscribers |->
                 IF Subscribed(s) /\ e.kind = "finish" THEN "closed" ELSE sub[s]]

HandleEvent ==
    /\ actor = "on" /\ stream # <<>>
    /\ stream' = Tail(stream)
    /\ Handle(Head(stream))
    /\ UNCHANGED <<senders, emitted, ended, stop, actor, saverVars, waiter, shutdown>>

\* Handler<SigReqEvent>: a command of the run asked for a signature.
SigReqEvent ==
    /\ actor = "on" /\ senders # {} /\ emitted < MaxEvents
    /\ emitted' = emitted + 1
    /\ Handle(New("sigreq"))
    /\ UNCHANGED <<senders, stream, ended, stop, actor, saverVars, waiter, shutdown>>

\* The actor has more to poll, or somebody holds its address.
Kept ==
    \/ shutdown # "no"
    \/ \E w \in Waiters : waiter[w] = "waiting"
    \/ \E s \in Holders : Subscribed(s)

\* It is gone with its senders; Actor::stopped stops the run.
Gone ==
    /\ actor' = "off"
    /\ stop' = TRUE
    /\ sub' = [s \in Subscribers |-> IF Subscribed(s) THEN "closed" ELSE sub[s]]

\* Nobody can send any more, and everything was handled.
Drained == stream = <<>> /\ senders = {}

\* StreamHandler::finished.  When this was the last it had to poll, the actor
\* stops in the same poll.
StreamFinished ==
    /\ actor = "on" /\ Drained /\ ~ended
    /\ ended' = TRUE
    /\ open' = FALSE
    /\ \/ (saver # "done" \/ Kept) /\ UNCHANGED <<actor, stop, sub>>
       \/ saver = "done" /\ ~Kept /\ Gone
    /\ UNCHANGED <<senders, emitted, stream, all_events, tx, got, saverVars, waiter, shutdown>>

\* Seeded fault: a late subscriber only gets what comes next.
SubscribeEvents_NoReplay(s) ==
    /\ actor = "on" /\ sub[s] = "none"
    /\ sub' = [sub EXCEPT ![s] = IF s \in Readers THEN "subscribed" ELSE "refused"]
    /\ UNCHANGED <<runVars, actorVars, got, saverVars, waiter, shutdown>>

\* Handler<SubscribeEvents>: the events so far, then the ones to come.
SubscribeEvents(s) ==
    /\ actor = "on" /\ sub[s] = "none"
    /\ IF s \in Readers
       THEN /\ sub' = [sub EXCEPT ![s] = "subscribed"]
            /\ got' = [got EXCEPT ![s] = all_events]
       ELSE /\ sub' = [sub EXCEPT ![s] = "refused"]
            /\ UNCHANGED got
    /\ UNCHANGED <<runVars, actorVars, saverVars, waiter, shutdown>>

\* The receiver is dropped; the actor notices with the next event.
Leave(s) ==
    /\ Subscribed(s)
    /\ sub' = [sub EXCEPT ![s] = "left"]
    /\ UNCHANGED <<runVars, actorVars, got, saverVars, waiter, shutdown>>

\* Handler<WaitFinish>: subscribe to done_tx, which fires once.
WaitFinish(w) ==
    /\ actor = "on" /\ waiter[w] = "none"
    /\ waiter' = [waiter EXCEPT ![w] = "waiting"]
    /\ UNCHANGED <<runVars, actorVars, subVars, saverVars, shutdown>>

WaiterLeaves(w) ==
    /\ waiter[w] = "waiting"
    /\ waiter' = [waiter EXCEPT ![w] = "left"]
    /\ UNCHANGED <<runVars, actorVars, subVars, saverVars, shutdown>>

\* Handler<StopFlow>, by the owner of the run.
StopFlow ==
    /\ actor = "on" /\ ~stop
    /\ stop' = TRUE
    /\ UNCHANGED <<senders, emitted, stream, ended, actorVars, subVars, saverVars, waiter, shutdown>>

\* Handler<SystemShutdown>: subscribe to done_tx, and wait for it.
SystemShutdown ==
    /\ actor = "on" /\ shutdown = "no"
    /\ shutdown' = "grace"
    /\ UNCHANGED <<runVars, actorVars, subVars, saverVars, waiter>>

\* "force stopping FlowRunWorker", then it waits for done_tx again.
ShutdownTimeout ==
    /\ actor = "on" /\ shutdown = "grace"
    /\ shutdown' = "forced"
    /\ stop' = TRUE
    /\ UNCHANGED <<senders, emitted, stream, ended, actorVars, subVars, saverVars, waiter>>

\* It is gone with its futures and done_tx.
TurnOff ==
    /\ Gone
    /\ waiter' = [w \in Waiters |-> IF waiter[w] = "waiting" THEN "closed" ELSE waiter[w]]
    /\ UNCHANGED <<senders, emitted, stream, ended, all_events, tx, open, got, saverVars, shutdown>>

ShutdownStops ==
    /\ actor = "on" /\ shutdown = "finishing"
    /\ TurnOff

\* The last one who held its address went away, and there is nothing to poll.
Idle ==
    /\ actor = "on" /\ ended /\ saver = "done" /\ ~Kept
    /\ TurnOff

----------------------------------------------------------------------------
(* save_to_db, a future of the actor *)

Taken == IF Len(tx) < ChunkSize THEN Len(tx) ELSE ChunkSize

TakeChunk ==
    /\ actor = "on" /\ saver = "idle" /\ tx # <<>>
    /\ chunk' = SubSeq(tx, 1, Taken)
    /\ tx' = SubSeq(tx, Taken + 1, Len(tx))
    /\ saver' = "connect"
    /\ UNCHANGED <<runVars, actor, all_events, open, subVars, logs, rows, copied, waiter, shutdown>>

Connected ==
    /\ actor = "on" /\ saver = "connect"
    /\ saver' = "write"
    /\ UNCHANGED <<runVars, actorVars, subVars, chunk, logs, rows, copied, waiter, shutdown>>

\* "could not get DB connection, dropping events"
NotConnected ==
    /\ actor = "on" /\ saver = "connect"
    /\ saver' = "idle" /\ chunk' = <<>>
    /\ UNCHANGED <<runVars, actorVars, subVars, logs, rows, copied, waiter, shutdown>>

\* One event is written, or dropped because of an error.
Write ==
    LET e == Head(chunk) IN
    /\ actor = "on" /\ saver = "write" /\ chunk # <<>>
    /\ chunk' = Tail(chunk)
    /\ logs' = IF e.kind = "log" THEN Append(logs, e) ELSE logs
    /\ rows' \in IF e.kind \in {"row", "finish"} THEN {rows, Append(rows, e)} ELSE {rows}
    /\ UNCHANGED <<runVars, actorVars, subVars, saver, copied, waiter, shutdown>>

\* The log lines go to DBWorker, if it still runs.
CopyIn ==
    /\ actor = "on" /\ saver = "write" /\ chunk = <<>>
    /\ copied' \in {copied, copied \o logs}
    /\ logs' = <<>>
    /\ saver' = "idle"
    /\ UNCHANGED <<runVars, actorVars, subVars, chunk, rows, waiter, shutdown>>

\* done_tx.send
Fire ==
    /\ waiter' = [w \in Waiters |-> IF waiter[w] = "waiting" THEN "ok" ELSE waiter[w]]
    /\ shutdown' = IF shutdown \in {"grace", "forced"} THEN "finishing" ELSE shutdown

\* Seeded fault: done_tx fires as soon as everything was taken.
SaverEnds_Early ==
    /\ actor = "on" /\ saver \in {"idle", "write"} /\ tx = <<>> /\ ~open
    /\ saver' = IF saver = "idle" THEN "done" ELSE "write"
    /\ Fire
    /\ UNCHANGED <<runVars, actorVars, subVars, chunk, logs, rows, copied>>

\* The channel is closed and empty: save_to_db returns.  An actor with nothing
\* else to poll, its stream included, stops in the same poll, unless its address
\* is held.
SaverEnds ==
    /\ actor = "on" /\ saver = "idle" /\ tx = <<>> /\ ~open
    /\ saver' = "done"
    /\ Fire
    /\ \/ (~Drained \/ Kept) /\ UNCHANGED <<ended, actor, stop, sub>>
       \/ Drained /\ ~Kept /\ ended' = TRUE /\ Gone
    /\ UNCHANGED <<senders, emitted, stream, all_events, tx, open, got,
                   chunk, logs, rows, copied>>

----------------------------------------------------------------------------
Save == TakeChunk \/ Connected \/ NotConnected \/ Write \/ CopyIn \/ SaverEnds

Work == HandleEvent \/ StreamFinished \/ Save \/ ShutdownTimeout \/ ShutdownStops \/ Idle

Run == (\E k \in Kinds : Emit(k)) \/ RunFinish \/ RunAborts \/ CommandsEnd

Client ==
    \/ SigReqEvent \/ StopFlow \/ SystemShutdown
    \/ \E s \in Subscribers : SubscribeEvents(s) \/ Leave(s)
    \/ \E w \in Waiters : WaitFinish(w) \/ WaiterLeaves(w)

Next == Work \/ Run \/ Client

\* The runtime polls the actor, its stream and its futures, and the database
\* answers, be it with an error.  A run that is stopped ends and so do its
\* commands (FlowGraph: Terminates); clients need not do anything.
Fairness ==
    /\ WF_vars(HandleEvent) /\ WF_vars(StreamFinished) /\ WF_vars(Save)
    /\ WF_vars(ShutdownTimeout) /\ WF_vars(ShutdownStops) /\ WF_vars(Idle)
    /\ WF_vars(stop /\ RunFinish) /\ WF_vars(stop /\ CommandsEnd)

Spec == Init /\ [][Next]_vars
FairSpec == Spec /\ Fairness

----------------------------------------------------------------------------
(* Properties *)

Prefix(s, t) == Len(s) <= Len(t) /\ \A i \in 1 .. Len(s) : s[i] = t[i]

\* A subscriber is sent all events of the run from the first on, in the order
\* in which the actor got them and each once, no matter when it subscribed;
\* what it got when it was closed ends with FlowFinish, or the actor is gone.
SubscribersSeeTheRun ==
    \A s \in Subscribers :
        /\ Subscribed(s) => got[s] = all_events
        /\ sub[s] = "closed" =>
              /\ Prefix(got[s], all_events)
              /\ actor = "on" => got[s] # <<>> /\ got[s][Len(got[s])].kind = "finish"

\* The database gets the events in order, and nothing after FlowFinish, also
\* when commands that were left behind go on to send.
FinishIsLastRow ==
    \A i, j \in 1 .. Len(rows) : i < j => rows[i].no < rows[j].no /\ rows[i].kind # "finish"

\* What makes these inductive.  Only the last event of the run can exceed the
\* bound, log lines are gathered only while a chunk is written, and waiters
\* are answered when save_to_db has returned.
Bookkeeping ==
    /\ "run" \in senders => emitted <= MaxEvents
    /\ saver = "connect" => logs = <<>>
    /\ \A w \in Waiters : waiter[w] = "ok" => saver = "done"
\* FlowFinish is the last event that save_to_db gets ...
LastOf(s) == \A i \in 1 .. Len(s) : s[i].kind = "finish" => i = Len(s) /\ ~open
FinishClosesTx ==
    /\ LastOf(tx) /\ LastOf(chunk) /\ LastOf(rows)
    /\ (\E i \in 1 .. Len(chunk) : chunk[i].kind = "finish") => tx = <<>>
    /\ (\E i \in 1 .. Len(rows) : rows[i].kind = "finish") => tx = <<>> /\ chunk = <<>>
\* ... and the events stay in the order in which they were sent, but for the
\* signature requests, which overtake the stream.
Sent(e) == e.kind # "sigreq"
Ordered(s) ==
    \A i, j \in 1 .. Len(s) : i < j /\ Sent(s[i]) /\ Sent(s[j]) => s[i].no < s[j].no
Before(s, t) ==
    \A i \in 1 .. Len(s), j \in 1 .. Len(t) : Sent(s[i]) /\ Sent(t[j]) => s[i].no < t[j].no
Old(s) == \A i \in 1 .. Len(s) : s[i].no <= emitted
InOrder ==
    /\ Ordered(rows) /\ Ordered(chunk) /\ Ordered(tx) /\ Ordered(stream)
    /\ Before(rows, chunk) /\ Before(rows, tx) /\ Before(rows, stream)
    /\ Before(chunk, tx) /\ Before(chunk, stream) /\ Before(tx, stream)
    /\ Old(rows) /\ Old(chunk) /\ Old(tx) /\ Old(stream)
    /\ \A i \in 1 .. Len(rows) : Sent(rows[i])

\* The inductive invariant.
Inv == TypeOK /\ Bookkeeping /\ SubscribersSeeTheRun /\ FinishClosesTx /\ InOrder

\* What the list of the actor has to do with the others: it is in the same order, an
\* event enters it once, and what save_to_db has got is on it.
From(s, t) == \A i \in 1 .. Len(s) : \E j \in 1 .. Len(t) : s[i] = t[j]
Listed ==
    /\ Ordered(all_events) /\ Before(all_events, stream) /\ Old(all_events)
    /\ \A i \in 1 .. Len(stream) : Sent(stream[i])
    /\ \A i \in 1 .. Len(all_events), j \in 1 .. Len(stream) : all_events[i].no # stream[j].no
    /\ From(tx, all_events) /\ From(chunk, all_events)

\* Once WaitFinish was answered the database does not change: get_flow_output
\* reads a final result.
ResultIsFinal ==
    [][(\E w \in Waiters : waiter[w] = "ok") => rows' = rows /\ copied' = copied]_vars

\* Who waits for a run before it is saved is answered once the run is over,
\* even if commands of it are left behind and hang.
WaitersAnswered ==
    \A w \in Waiters :
        waiter[w] = "waiting" /\ saver # "done" /\ "run" \notin senders ~> waiter[w] # "waiting"

\* A shutdown ends: "force stopping FlowRunWorker".
ShutdownEnds == shutdown = "grace" ~> actor = "off"

\* What the worker is for: the record of the run is what subscribers saw, in the
\* same order, and is complete when those who wait for the run are answered.
TheLog == INSTANCE RunLog WITH
    Events <- Event,
    Clients <- Waiters,
    published <- all_events,
    record <- rows,
    complete <- (saver = "done"),
    answered <- {w \in Waiters : waiter[w] = "ok"}
ImplementsRunLog == TheLog!Spec

=============================================================================
