------------------------- MODULE FlowRunWorkerProofs -------------------------
(***************************************************************************)
(* What is proved of FlowRunWorker, for any number of subscribers, waiters  *)
(* and events and any size of a chunk.                                      *)
(***************************************************************************)
EXTENDS FlowRunWorker, SequenceLemmas

----------------------------------------------------------------------------
(* Type correctness *)

\* The initial state satisfies the invariant.
LEMMA InitInv == Init => Inv
  <1> SUFFICES ASSUME Init PROVE Inv
    OBVIOUS
  <1> USE DEF Init
  <1>1. TypeOK
    <2>1. <<>> \in Seq(Event)
      OBVIOUS
    <2>2. 0 \in 0 .. MaxEvents + 1
      BY SizeAssumption
    <2>3. got \in [Subscribers -> Seq(Event)]
      BY <2>1
    <2>4. /\ sub \in [Subscribers -> SubStates] /\ waiter \in [Waiters -> WaiterStates]
          /\ saver \in SaverStates /\ shutdown \in ShutdownStates
      BY DEF SubStates, SaverStates, WaiterStates, ShutdownStates
    <2>5. QED
      BY <2>1, <2>2, <2>3, <2>4 DEF TypeOK
  <1>2. Bookkeeping
    BY SizeAssumption DEF Bookkeeping
  <1>3. SubscribersSeeTheRun
    BY DEF SubscribersSeeTheRun, Subscribed
  <1>4. FinishClosesTx
    BY DEF FinishClosesTx, LastOf
  <1>5. InOrder
    BY DEF InOrder, Ordered, Before, Old
  <1>6. QED
    BY <1>1, <1>2, <1>3, <1>4, <1>5 DEF Inv

\* A new event is one, as long as the run may send it.
LEMMA NewFacts ==
    ASSUME TypeOK, emitted <= MaxEvents, NEW k \in Kinds
    PROVE  /\ New(k) \in Event /\ New(k).kind = k /\ New(k).no = emitted + 1
           /\ emitted \in Nat /\ emitted + 1 \in 0 .. MaxEvents + 1
  BY SizeAssumption DEF TypeOK, New, Event

\* Handling an event keeps the types of what it changes.
LEMMA HandleTypes ==
    ASSUME TypeOK, NEW e \in Event, Handle(e)
    PROVE  /\ all_events' \in Seq(Event) /\ tx' \in Seq(Event) /\ open' \in BOOLEAN
           /\ got' \in [Subscribers -> Seq(Event)] /\ sub' \in [Subscribers -> SubStates]
  <1>1. \A s \in Seq(Event) : Append(s, e) \in Seq(Event)
    BY AppendFacts
  <1>2. QED
    BY <1>1 DEF TypeOK, Handle, Subscribed, SubStates

\* Every step keeps the types, given the bookkeeping of the actor.
LEMMA NextTypeOK == TypeOK /\ Bookkeeping /\ [Next]_vars => TypeOK'
  <1> SUFFICES ASSUME TypeOK, Bookkeeping, [Next]_vars
               PROVE  TypeOK'
    OBVIOUS
  <1> USE EmptyFacts DEF runVars, actorVars, subVars, saverVars
  <1>1. ASSUME NEW k \in Kinds, Emit(k) PROVE TypeOK'
    <2>1. emitted <= MaxEvents
      BY <1>1, SizeAssumption DEF Emit, TypeOK
    <2>2. stream' \in Seq(Event) /\ emitted' \in 0 .. MaxEvents + 1
      BY <1>1, <2>1, NewFacts, AppendFacts DEF Emit, TypeOK
    <2>3. QED
      BY <1>1, <2>2 DEF Emit, TypeOK
  <1>2. CASE RunFinish
    <2>1. "finish" \in Kinds /\ emitted <= MaxEvents
      BY <1>2 DEF RunFinish, Bookkeeping, Kinds
    <2>2. stream' \in Seq(Event) /\ emitted' \in 0 .. MaxEvents + 1
      BY <1>2, <2>1, NewFacts, AppendFacts DEF RunFinish, TypeOK
    <2>3. QED
      BY <1>2, <2>2 DEF RunFinish, TypeOK
  <1>3. CASE RunAborts
    BY <1>3 DEF RunAborts, TypeOK
  <1>4. CASE CommandsEnd
    BY <1>4 DEF CommandsEnd, TypeOK
  <1>5. CASE HandleEvent
    <2>1. Head(stream) \in Event /\ stream' \in Seq(Event)
      BY <1>5, TailFacts DEF HandleEvent, TypeOK
    <2>2. QED
      BY <1>5, <2>1, HandleTypes DEF HandleEvent, TypeOK
  <1>6. CASE SigReqEvent
    <2>1. "sigreq" \in Kinds /\ emitted <= MaxEvents
      BY <1>6, SizeAssumption DEF SigReqEvent, TypeOK, Kinds
    <2>2. New("sigreq") \in Event /\ emitted' \in 0 .. MaxEvents + 1
      BY <1>6, <2>1, NewFacts DEF SigReqEvent
    <2>3. QED
      BY <1>6, <2>2, HandleTypes DEF SigReqEvent, TypeOK
  <1>7. CASE StreamFinished
    BY <1>7 DEF StreamFinished, Gone, TypeOK, SubStates
  <1>8. ASSUME NEW s \in Subscribers, SubscribeEvents(s) PROVE TypeOK'
    BY <1>8 DEF SubscribeEvents, TypeOK, SubStates
  <1>9. ASSUME NEW s \in Subscribers, Leave(s) PROVE TypeOK'
    BY <1>9 DEF Leave, TypeOK, SubStates
  <1>10. ASSUME NEW w \in Waiters, WaitFinish(w) PROVE TypeOK'
    BY <1>10 DEF WaitFinish, TypeOK, WaiterStates
  <1>11. ASSUME NEW w \in Waiters, WaiterLeaves(w) PROVE TypeOK'
    BY <1>11 DEF WaiterLeaves, TypeOK, WaiterStates
  <1>12. CASE StopFlow
    BY <1>12 DEF StopFlow, TypeOK
  <1>13. CASE SystemShutdown
    BY <1>13 DEF SystemShutdown, TypeOK, ShutdownStates
  <1>14. CASE ShutdownTimeout
    BY <1>14 DEF ShutdownTimeout, TypeOK, ShutdownStates
  <1>15. CASE TurnOff
    BY <1>15 DEF TurnOff, Gone, TypeOK, SubStates, WaiterStates
  <1>16. CASE TakeChunk
    <2>1. Taken \in 0 .. Len(tx)
      BY SizeAssumption DEF Taken, TypeOK
    <2>2. chunk' \in Seq(Event) /\ tx' \in Seq(Event)
      BY <1>16, <2>1, SplitFacts DEF TakeChunk, TypeOK
    <2>3. QED
      BY <1>16, <2>2 DEF TakeChunk, TypeOK, SaverStates
  <1>17. CASE Connected
    BY <1>17 DEF Connected, TypeOK, SaverStates
  <1>18. CASE NotConnected
    BY <1>18 DEF NotConnected, TypeOK, Bookkeeping, SaverStates
  <1>19. CASE Write
    <2>1. Head(chunk) \in Event /\ Tail(chunk) \in Seq(Event)
      BY <1>19, TailFacts DEF Write, TypeOK
    <2>2. Append(logs, Head(chunk)) \in Seq(Event) /\ Append(rows, Head(chunk)) \in Seq(Event)
      BY <2>1, AppendFacts DEF TypeOK
    <2>3. chunk' \in Seq(Event) /\ logs' \in Seq(Event) /\ rows' \in Seq(Event)
      BY <1>19, <2>1, <2>2 DEF Write, TypeOK
    <2>4. QED
      BY <1>19, <2>3 DEF Write, TypeOK
  <1>20. CASE CopyIn
    <2>1. copied \o logs \in Seq(Event)
      BY DEF TypeOK
    <2>2. QED
      BY <1>20, <2>1 DEF CopyIn, TypeOK, SaverStates
  <1>21. CASE SaverEnds
    BY <1>21 DEF SaverEnds, Gone, Fire, TypeOK, SubStates, SaverStates, WaiterStates, ShutdownStates
  <1>22. CASE UNCHANGED vars
    BY <1>22 DEF vars, TypeOK
  <1>23. QED
    BY <1>1, <1>2, <1>3, <1>4, <1>5, <1>6, <1>7, <1>8, <1>9, <1>10, <1>11, <1>12, <1>13,
       <1>14, <1>15, <1>16, <1>17, <1>18, <1>19, <1>20, <1>21, <1>22
    DEF Next, Work, Run, Client, Save, ShutdownStops, Idle

\* Every step keeps the bookkeeping.
LEMMA NextBookkeeping == TypeOK /\ Bookkeeping /\ [Next]_vars => Bookkeeping'
  <1> SUFFICES ASSUME TypeOK, Bookkeeping, [Next]_vars
               PROVE  Bookkeeping'
    OBVIOUS
  <1> USE DEF runVars, actorVars, subVars, saverVars
  <1>1. ASSUME NEW k \in Kinds, Emit(k) PROVE Bookkeeping'
    BY <1>1, SizeAssumption DEF Emit, Bookkeeping, TypeOK
  <1>2. CASE RunFinish \/ RunAborts \/ CommandsEnd
    BY <1>2 DEF RunFinish, RunAborts, CommandsEnd, Bookkeeping
  <1>3. CASE HandleEvent \/ StreamFinished
    BY <1>3 DEF HandleEvent, StreamFinished, Bookkeeping
  <1>4. CASE SigReqEvent
    BY <1>4, SizeAssumption DEF SigReqEvent, Bookkeeping, TypeOK
  <1>5. ASSUME NEW s \in Subscribers, SubscribeEvents(s) \/ Leave(s) PROVE Bookkeeping'
    BY <1>5 DEF SubscribeEvents, Leave, Bookkeeping
  <1>6. ASSUME NEW w \in Waiters, WaitFinish(w) \/ WaiterLeaves(w) PROVE Bookkeeping'
    BY <1>6 DEF WaitFinish, WaiterLeaves, Bookkeeping, TypeOK
  <1>7. CASE StopFlow \/ SystemShutdown \/ ShutdownTimeout
    BY <1>7 DEF StopFlow, SystemShutdown, ShutdownTimeout, Bookkeeping
  <1>8. CASE TurnOff
    BY <1>8 DEF TurnOff, Bookkeeping, TypeOK
  <1>9. CASE TakeChunk \/ Connected \/ NotConnected
    BY <1>9 DEF TakeChunk, Connected, NotConnected, Bookkeeping, TypeOK
  <1>10. CASE Write \/ CopyIn
    BY <1>10 DEF Write, CopyIn, Bookkeeping
  <1>11. CASE SaverEnds
    BY <1>11 DEF SaverEnds, Fire, Bookkeeping, TypeOK
  <1>12. CASE UNCHANGED vars
    BY <1>12 DEF vars, Bookkeeping
  <1>13. QED
    BY <1>1, <1>2, <1>3, <1>4, <1>5, <1>6, <1>7, <1>8, <1>9, <1>10, <1>11, <1>12
    DEF Next, Work, Run, Client, Save, ShutdownStops, Idle

----------------------------------------------------------------------------
(* Subscribers *)

\* Handling an event sends it to the subscribers, and FlowFinish closes them.
LEMMA HandleSubscribers ==
    ASSUME TypeOK, SubscribersSeeTheRun, NEW e \in Event, Handle(e), UNCHANGED actor
    PROVE  SubscribersSeeTheRun'
  <1> SUFFICES ASSUME NEW s \in Subscribers
               PROVE  /\ Subscribed(s)' => got'[s] = all_events'
                      /\ sub'[s] = "closed" =>
                            /\ Prefix(got'[s], all_events')
                            /\ actor' = "on" =>
                                  got'[s] # <<>> /\ got'[s][Len(got'[s])].kind = "finish"
    BY DEF SubscribersSeeTheRun
  <1>1. /\ all_events \in Seq(Event) /\ got[s] \in Seq(Event)
        /\ all_events' = Append(all_events, e)
        /\ got'[s] = IF Subscribed(s) THEN Append(got[s], e) ELSE got[s]
        /\ sub'[s] = IF Subscribed(s) /\ e.kind = "finish" THEN "closed" ELSE sub[s]
    BY DEF TypeOK, Handle
  <1>2. /\ Len(all_events') = Len(all_events) + 1 /\ all_events'[Len(all_events')] = e
        /\ \A i \in 1 .. Len(all_events) : all_events'[i] = all_events[i]
        /\ Len(all_events) \in Nat /\ all_events' # <<>>
    BY <1>1, AppendFacts, EmptyFacts
  <1>3. CASE Subscribed(s)
    <2>1. got'[s] = all_events'
      BY <1>1, <1>3 DEF SubscribersSeeTheRun
    <2>2. Prefix(got'[s], all_events')
      BY <1>2, <2>1 DEF Prefix
    <2>3. sub'[s] = "closed" => e.kind = "finish"
      BY <1>1, <1>3 DEF Subscribed
    <2>4. QED
      BY <1>2, <2>1, <2>2, <2>3
  <1>4. CASE ~Subscribed(s)
    <2>1. sub'[s] = sub[s] /\ got'[s] = got[s]
      BY <1>1, <1>4
    <2>2. Prefix(got[s], all_events) => Prefix(got[s], all_events')
      BY <1>1, <1>2 DEF Prefix
    <2>3. QED
      BY <1>4, <2>1, <2>2 DEF SubscribersSeeTheRun, Subscribed
  <1>5. QED
    BY <1>3, <1>4

\* Every step keeps what the subscribers have seen.
LEMMA NextSubscribers ==
    TypeOK /\ Bookkeeping /\ SubscribersSeeTheRun /\ [Next]_vars => SubscribersSeeTheRun'
  <1> SUFFICES ASSUME TypeOK, Bookkeeping, SubscribersSeeTheRun, [Next]_vars
               PROVE  SubscribersSeeTheRun'
    OBVIOUS
  <1> USE DEF runVars, actorVars, subVars, saverVars
  <1>1. CASE UNCHANGED <<all_events, actor, sub, got>>
    BY <1>1 DEF SubscribersSeeTheRun, Subscribed
  <1>2. CASE HandleEvent
    <2>1. Head(stream) \in Event
      BY <1>2, TailFacts DEF HandleEvent, TypeOK
    <2>2. QED
      BY <1>2, <2>1, HandleSubscribers DEF HandleEvent
  <1>3. CASE SigReqEvent
    <2>1. "sigreq" \in Kinds /\ emitted <= MaxEvents
      BY <1>3, SizeAssumption DEF SigReqEvent, TypeOK, Kinds
    <2>2. QED
      BY <1>3, <2>1, NewFacts, HandleSubscribers DEF SigReqEvent
  <1>4. ASSUME NEW s \in Subscribers, SubscribeEvents(s) PROVE SubscribersSeeTheRun'
    BY <1>4 DEF SubscribeEvents, SubscribersSeeTheRun, Subscribed, TypeOK
  <1>5. ASSUME NEW s \in Subscribers, Leave(s) PROVE SubscribersSeeTheRun'
    BY <1>5 DEF Leave, SubscribersSeeTheRun, Subscribed, TypeOK
  <1>6. ASSUME Gone, UNCHANGED <<all_events, got>> PROVE SubscribersSeeTheRun'
    <2>1. all_events \in Seq(Event) /\ Prefix(all_events, all_events)
      BY DEF TypeOK, Prefix
    <2>2. /\ actor' = "off" /\ all_events' = all_events /\ got' = got
          /\ \A s \in Subscribers : sub'[s] = IF Subscribed(s) THEN "closed" ELSE sub[s]
      BY <1>6 DEF Gone
    <2>3. QED
      BY <2>1, <2>2 DEF SubscribersSeeTheRun, Subscribed
  <1>8. CASE StreamFinished \/ SaverEnds
    <2>1. CASE Gone
      BY <1>6, <1>8, <2>1 DEF StreamFinished, SaverEnds
    <2>2. CASE ~Gone
      <3>1. UNCHANGED <<actor, sub, got, all_events>>
        BY <1>8, <2>2 DEF StreamFinished, SaverEnds
      <3>2. QED
        BY <3>1 DEF SubscribersSeeTheRun, Subscribed
    <2>3. QED
      BY <2>1, <2>2
  <1>7. QED
    BY <1>1, <1>2, <1>3, <1>4, <1>5, <1>6, <1>8
    DEF Next, Work, Run, Client, Save, ShutdownStops, Idle, TurnOff, Emit, RunFinish, RunAborts,
        CommandsEnd, WaitFinish, WaiterLeaves, StopFlow, SystemShutdown, ShutdownTimeout,
        TakeChunk, Connected, NotConnected, Write, CopyIn, vars

----------------------------------------------------------------------------
(* What save_to_db gets *)

\* The variables that the order of events is about.
queues == <<emitted, stream, all_events, tx, open, chunk, rows>>

\* The steps that change them, and the others.
LEMMA QueueSteps ==
    ASSUME [Next]_vars
    PROVE  \/ UNCHANGED queues
           \/ \E k \in Kinds : Emit(k)
           \/ RunFinish \/ HandleEvent \/ SigReqEvent \/ StreamFinished
           \/ TakeChunk \/ NotConnected \/ Write
  BY DEF queues, Next, Work, Run, Client, Save, ShutdownStops, ShutdownTimeout, Idle, TurnOff,
         RunAborts, CommandsEnd, SubscribeEvents, Leave, WaitFinish, WaiterLeaves, StopFlow,
         SystemShutdown, Connected, CopyIn, SaverEnds, vars, runVars, actorVars, saverVars

\* Handling an event appends it to tx, or drops it when tx is closed.
LEMMA HandleTx ==
    ASSUME TypeOK, FinishClosesTx, NEW e \in Event, Handle(e), UNCHANGED <<chunk, rows>>
    PROVE  FinishClosesTx'
  <1>1. CASE open
    <2>1. tx \in Seq(Event) /\ tx' = Append(tx, e)
      BY <1>1 DEF Handle, TypeOK
    <2>2. e.kind = "finish" => ~open'
      BY DEF Handle
    <2>3. /\ Len(tx) \in Nat /\ Len(tx') = Len(tx) + 1 /\ tx'[Len(tx) + 1] = e
          /\ \A i \in 1 .. Len(tx) : tx'[i] = tx[i]
      BY <2>1, AppendFacts
    <2>4. /\ \A i \in 1 .. Len(tx) : tx[i].kind # "finish"
          /\ \A i \in 1 .. Len(chunk) : chunk[i].kind # "finish"
          /\ \A i \in 1 .. Len(rows) : rows[i].kind # "finish"
      BY <1>1 DEF FinishClosesTx, LastOf
    <2>5. LastOf(tx)'
      <3>1. \A i \in 1 .. Len(tx') : tx'[i].kind = "finish" => i = Len(tx')
        BY <2>3, <2>4
      <3>2. \A i \in 1 .. Len(tx') : tx'[i].kind = "finish" => ~open'
        BY <2>2, <2>3, <2>4, <3>1
      <3>3. QED
        BY <3>1, <3>2 DEF LastOf
    <2>6. QED
      BY <2>4, <2>5 DEF FinishClosesTx, LastOf
  <1>2. CASE ~open
    <2>1. tx' = tx /\ open' = FALSE
      BY <1>2 DEF Handle
    <2>2. QED
      BY <1>2, <2>1 DEF FinishClosesTx, LastOf
  <1>3. QED
    BY <1>1, <1>2

\* The chunk is the front of tx.
LEMMA TakeChunkFacts ==
    ASSUME TypeOK, TakeChunk
    PROVE  \E k \in 1 .. Len(tx) :
              /\ chunk = <<>> /\ Len(tx) \in Nat
              /\ Len(chunk') = k /\ Len(tx') = Len(tx) - k
              /\ \A i \in 1 .. k : chunk'[i] = tx[i]
              /\ \A i \in 1 .. Len(tx) - k : tx'[i] = tx[k + i]
              /\ tx' \in Seq(Event)
              /\ UNCHANGED <<emitted, stream, open, rows>>
  <1>1. tx \in Seq(Event) /\ Len(tx) # 0 /\ Len(tx) \in Nat
    BY EmptyFacts DEF TypeOK, TakeChunk
  <1>2. Taken \in 1 .. Len(tx)
    BY <1>1, SizeAssumption DEF Taken
  <1>3. chunk' = SubSeq(tx, 1, Taken) /\ tx' = SubSeq(tx, Taken + 1, Len(tx)) /\ chunk = <<>>
    BY DEF TakeChunk, TypeOK
  <1>4. Taken \in 0 .. Len(tx)
    BY <1>1, <1>2
  <1>5. QED
    BY <1>1, <1>2, <1>3, <1>4, SplitFacts DEF TakeChunk, runVars

\* Write takes the first event of the chunk, and perhaps appends it to the rows.
LEMMA WriteFacts ==
    ASSUME TypeOK, Write
    PROVE  /\ Len(chunk) \in Nat \ {0} /\ Len(chunk') = Len(chunk) - 1
           /\ \A i \in 1 .. Len(chunk) - 1 : chunk'[i] = chunk[i + 1]
           /\ chunk' \in Seq(Event)
           /\ Len(rows) \in Nat
           /\ \/ rows' = rows
              \/ /\ chunk[1].kind \in {"row", "finish"}
                 /\ Len(rows') = Len(rows) + 1 /\ rows'[Len(rows) + 1] = chunk[1]
                 /\ \A i \in 1 .. Len(rows) : rows'[i] = rows[i]
           /\ UNCHANGED <<emitted, stream, tx, open>>
  <1>1. chunk \in Seq(Event) /\ chunk # <<>> /\ chunk' = Tail(chunk) /\ rows \in Seq(Event)
    BY DEF Write, TypeOK
  <1>2. /\ Len(chunk) \in Nat \ {0} /\ Len(chunk') = Len(chunk) - 1
        /\ \A i \in 1 .. Len(chunk) - 1 : chunk'[i] = chunk[i + 1]
        /\ chunk' \in Seq(Event) /\ Head(chunk) = chunk[1] /\ Head(chunk) \in Event
    BY <1>1, TailFacts
  <1>3. \/ rows' = rows
        \/ Head(chunk).kind \in {"row", "finish"} /\ rows' = Append(rows, Head(chunk))
    BY DEF Write
  <1>4. Len(rows) \in Nat
    BY <1>1
  <1>5. LET r == Append(rows, Head(chunk)) IN
        /\ Len(r) = Len(rows) + 1 /\ r[Len(rows) + 1] = Head(chunk)
        /\ \A i \in 1 .. Len(rows) : r[i] = rows[i]
    BY <1>1, <1>2, AppendFacts
  <1>6. UNCHANGED <<emitted, stream, tx, open>>
    BY DEF Write, runVars, actorVars
  <1>7. QED
    BY <1>2, <1>3, <1>4, <1>5, <1>6

\* FlowFinish remains the last event that save_to_db gets.
LEMMA NextFinishClosesTx ==
    TypeOK /\ Bookkeeping /\ FinishClosesTx /\ [Next]_vars => FinishClosesTx'
  <1> SUFFICES ASSUME TypeOK, Bookkeeping, FinishClosesTx, [Next]_vars
               PROVE  FinishClosesTx'
    OBVIOUS
  <1> USE DEF runVars, actorVars, subVars, saverVars
  <1>1. CASE UNCHANGED <<tx, open, chunk, rows>>
    BY <1>1 DEF FinishClosesTx, LastOf
  <1>2. CASE HandleEvent
    <2>1. Head(stream) \in Event
      BY <1>2, TailFacts DEF HandleEvent, TypeOK
    <2>2. QED
      BY <1>2, <2>1, HandleTx DEF HandleEvent
  <1>3. CASE SigReqEvent
    <2>1. "sigreq" \in Kinds /\ emitted <= MaxEvents
      BY <1>3, SizeAssumption DEF SigReqEvent, TypeOK, Kinds
    <2>2. QED
      BY <1>3, <2>1, NewFacts, HandleTx DEF SigReqEvent
  <1>4. CASE StreamFinished
    BY <1>4 DEF StreamFinished, FinishClosesTx, LastOf
  <1>5. CASE TakeChunk
    <2>1. PICK k \in 1 .. Len(tx) :
              /\ chunk = <<>> /\ Len(tx) \in Nat
              /\ Len(chunk') = k /\ Len(tx') = Len(tx) - k
              /\ \A i \in 1 .. k : chunk'[i] = tx[i]
              /\ \A i \in 1 .. Len(tx) - k : tx'[i] = tx[k + i]
              /\ tx' \in Seq(Event)
              /\ UNCHANGED <<emitted, stream, open, rows>>
      BY <1>5, TakeChunkFacts
    <2>2. \A i \in 1 .. Len(tx) : tx[i].kind = "finish" => i = Len(tx) /\ ~open
      BY DEF FinishClosesTx, LastOf
    <2>3. LastOf(chunk)' /\ LastOf(tx)' /\ LastOf(rows)'
      <3>1. LastOf(chunk)'
        BY <2>1, <2>2 DEF LastOf
      <3>2. LastOf(tx)'
        <4> SUFFICES ASSUME NEW i \in 1 .. Len(tx'), tx'[i].kind = "finish"
                     PROVE  i = Len(tx') /\ ~open'
          BY DEF LastOf
        <4>1. k + i \in 1 .. Len(tx) /\ tx'[i] = tx[k + i]
          BY <2>1
        <4>2. k + i = Len(tx) /\ ~open
          BY <2>2, <4>1
        <4>3. QED
          BY <2>1, <4>2
      <3>3. LastOf(rows)'
        BY <2>1 DEF FinishClosesTx, LastOf
      <3>4. QED
        BY <3>1, <3>2, <3>3
    <2>4. (\E i \in 1 .. Len(chunk') : chunk'[i].kind = "finish") => tx' = <<>>
      <3>1. (\E i \in 1 .. Len(chunk') : chunk'[i].kind = "finish") => Len(tx') = 0
        BY <2>1, <2>2
      <3>2. QED
        BY <2>1, <3>1, EmptyFacts
    <2>5. \A i \in 1 .. Len(rows') : rows'[i].kind # "finish"
      BY <1>5, <2>1 DEF FinishClosesTx, TakeChunk
    <2>6. QED
      BY <2>3, <2>4, <2>5 DEF FinishClosesTx
  <1>6. CASE NotConnected
    BY <1>6, EmptyFacts DEF NotConnected, FinishClosesTx, LastOf
  <1>7. CASE Write
    <2>1. LastOf(chunk)' /\ LastOf(tx)'
      <3>1. /\ Len(chunk) \in Nat \ {0} /\ Len(chunk') = Len(chunk) - 1
            /\ \A i \in 1 .. Len(chunk) - 1 : chunk'[i] = chunk[i + 1]
            /\ UNCHANGED <<tx, open>>
        BY <1>7, WriteFacts
      <3>2. LastOf(chunk) /\ LastOf(tx)
        BY DEF FinishClosesTx
      <3>3. QED
        BY <3>1, <3>2 DEF LastOf
    <2>2. (\E i \in 1 .. Len(chunk') : chunk'[i].kind = "finish") => tx' = <<>>
      BY <1>7, WriteFacts DEF FinishClosesTx
    <2>3. \A i \in 1 .. Len(rows) : rows[i].kind # "finish"
      BY <1>7 DEF FinishClosesTx, Write
    <2>4. CASE rows' = rows
      BY <2>1, <2>2, <2>3, <2>4 DEF FinishClosesTx, LastOf
    <2>5. CASE rows' # rows
      <3>1. /\ Len(rows') = Len(rows) + 1 /\ rows'[Len(rows) + 1] = chunk[1]
            /\ Len(rows) \in Nat
            /\ \A i \in 1 .. Len(rows) : rows'[i] = rows[i]
        BY <1>7, <2>5, WriteFacts
      <3>2. chunk[1].kind = "finish" => ~open' /\ tx' = <<>> /\ chunk' = <<>>
        BY <1>7, WriteFacts, EmptyFacts DEF FinishClosesTx, LastOf
      <3>3. \A i \in 1 .. Len(rows') : rows'[i].kind = "finish" =>
                i = Len(rows') /\ chunk[1].kind = "finish"
        BY <2>3, <3>1
      <3>4. QED
        BY <2>1, <2>2, <3>2, <3>3 DEF FinishClosesTx, LastOf
    <2>6. QED
      BY <2>4, <2>5
  <1>8. QED
    BY <1>1, <1>2, <1>3, <1>4, <1>5, <1>6, <1>7, QueueSteps DEF queues, Emit, RunFinish

----------------------------------------------------------------------------
(* The order of events *)

\* An event that comes after all of s may be appended to it, and to what
\* comes after s.
LEMMA AppendOrder ==
    ASSUME NEW s \in Seq(Event), NEW t \in Seq(Event), NEW e \in Event,
           \A i \in 1 .. Len(s) : Sent(s[i]) /\ Sent(e) => s[i].no < e.no
    PROVE  /\ Ordered(s) => Ordered(Append(s, e))
           /\ Before(s, t) => Before(s, Append(t, e))
  <1>1. /\ Len(s) \in Nat /\ Len(Append(s, e)) = Len(s) + 1
        /\ \A i \in 1 .. Len(s) : Append(s, e)[i] = s[i]
        /\ Append(s, e)[Len(s) + 1] = e
    BY AppendFacts
  <1>2. /\ Len(t) \in Nat /\ Len(Append(t, e)) = Len(t) + 1
        /\ \A i \in 1 .. Len(t) : Append(t, e)[i] = t[i]
        /\ Append(t, e)[Len(t) + 1] = e
    BY AppendFacts
  <1>3. ASSUME Ordered(s) PROVE Ordered(Append(s, e))
    <2> SUFFICES ASSUME NEW i \in 1 .. Len(s) + 1, NEW j \in 1 .. Len(s) + 1, i < j,
                        Sent(Append(s, e)[i]), Sent(Append(s, e)[j])
                 PROVE  Append(s, e)[i].no < Append(s, e)[j].no
      BY <1>1 DEF Ordered
    <2>1. i \in 1 .. Len(s) /\ Append(s, e)[i] = s[i]
      BY <1>1
    <2>2. CASE j = Len(s) + 1
      BY <1>1, <2>1, <2>2
    <2>3. CASE j # Len(s) + 1
      <3>1. j \in 1 .. Len(s) /\ Append(s, e)[j] = s[j]
        BY <1>1, <2>3
      <3>2. QED
        BY <1>3, <2>1, <3>1 DEF Ordered
    <2>4. QED
      BY <2>2, <2>3
  <1>4. ASSUME Before(s, t) PROVE Before(s, Append(t, e))
    <2> SUFFICES ASSUME NEW i \in 1 .. Len(s), NEW j \in 1 .. Len(t) + 1,
                        Sent(s[i]), Sent(Append(t, e)[j])
                 PROVE  s[i].no < Append(t, e)[j].no
      BY <1>2 DEF Before
    <2>1. CASE j = Len(t) + 1
      BY <1>2, <2>1
    <2>2. CASE j # Len(t) + 1
      <3>1. j \in 1 .. Len(t) /\ Append(t, e)[j] = t[j]
        BY <1>2, <2>2
      <3>2. QED
        BY <1>4, <3>1 DEF Before
    <2>3. QED
      BY <2>1, <2>2
  <1>5. QED
    BY <1>3, <1>4

\* An event that comes before all of t may be appended to what comes before t.
LEMMA AppendBefore ==
    ASSUME NEW s \in Seq(Event), NEW t \in Seq(Event), NEW e \in Event, Before(s, t),
           \A j \in 1 .. Len(t) : Sent(e) /\ Sent(t[j]) => e.no < t[j].no
    PROVE  Before(Append(s, e), t)
  <1>1. /\ Len(s) \in Nat /\ Len(Append(s, e)) = Len(s) + 1
        /\ \A i \in 1 .. Len(s) : Append(s, e)[i] = s[i]
        /\ Append(s, e)[Len(s) + 1] = e
    BY AppendFacts
  <1> SUFFICES ASSUME NEW i \in 1 .. Len(s) + 1, NEW j \in 1 .. Len(t),
                      Sent(Append(s, e)[i]), Sent(t[j])
               PROVE  Append(s, e)[i].no < t[j].no
    BY <1>1 DEF Before
  <1>2. CASE i = Len(s) + 1
    BY <1>1, <1>2
  <1>3. CASE i # Len(s) + 1
    <2>1. i \in 1 .. Len(s) /\ Append(s, e)[i] = s[i]
      BY <1>1, <1>3
    <2>2. QED
      BY <2>1 DEF Before
  <1>4. QED
    BY <1>2, <1>3

\* The tail of a sequence keeps its order, and the head comes before it.
LEMMA TailOrder ==
    ASSUME NEW s \in Seq(Event), s # <<>>, NEW t \in Seq(Event)
    PROVE  /\ Ordered(s) => Ordered(Tail(s))
           /\ Ordered(s) =>
                 \A i \in 1 .. Len(Tail(s)) :
                    Sent(Head(s)) /\ Sent(Tail(s)[i]) => Head(s).no < Tail(s)[i].no
           /\ Before(s, t) => Before(Tail(s), t)
           /\ Before(t, s) => Before(t, Tail(s))
           /\ Before(t, s) =>
                 \A i \in 1 .. Len(t) : Sent(t[i]) /\ Sent(Head(s)) => t[i].no < Head(s).no
           /\ Before(s, t) =>
                 \A i \in 1 .. Len(t) : Sent(Head(s)) /\ Sent(t[i]) => Head(s).no < t[i].no
  <1>1. /\ Len(s) \in Nat \ {0} /\ Len(Tail(s)) = Len(s) - 1 /\ Head(s) = s[1]
        /\ 1 \in 1 .. Len(s)
    BY TailFacts
  <1>2. \A i \in 1 .. Len(Tail(s)) : i + 1 \in 2 .. Len(s) /\ Tail(s)[i] = s[i + 1]
    BY <1>1, TailFacts
  <1>3. Ordered(s) => Ordered(Tail(s))
    BY <1>1, <1>2 DEF Ordered
  <1>4. Ordered(s) =>
            \A i \in 1 .. Len(Tail(s)) :
               Sent(Head(s)) /\ Sent(Tail(s)[i]) => Head(s).no < Tail(s)[i].no
    BY <1>1, <1>2 DEF Ordered
  <1>5. (Before(s, t) => Before(Tail(s), t)) /\ (Before(t, s) => Before(t, Tail(s)))
    BY <1>1, <1>2 DEF Before
  <1>6. Before(t, s) =>
            \A i \in 1 .. Len(t) : Sent(t[i]) /\ Sent(Head(s)) => t[i].no < Head(s).no
    BY <1>1 DEF Before
  <1>7. Before(s, t) =>
            \A i \in 1 .. Len(t) : Sent(Head(s)) /\ Sent(t[i]) => Head(s).no < t[i].no
    BY <1>1 DEF Before
  <1>8. QED
    BY <1>3, <1>4, <1>5, <1>6, <1>7

\* A new event comes after all the ones there are.
LEMMA NewIsLast ==
    ASSUME TypeOK, emitted <= MaxEvents, NEW k \in Kinds, NEW s \in Seq(Event), Old(s)
    PROVE  \A i \in 1 .. Len(s) : s[i].no < New(k).no
  <1>1. \A i \in 1 .. Len(s) : s[i] \in Event
    OBVIOUS
  <1>2. \A i \in 1 .. Len(s) : s[i].no \in Nat /\ s[i].no <= emitted
    BY <1>1, SizeAssumption DEF Event, Old
  <1>3. New(k).no = emitted + 1 /\ emitted \in Nat
    BY NewFacts
  <1>4. QED
    BY <1>2, <1>3

\* The old events stay old, and the new one is old in the next state.
LEMMA OldGrows ==
    ASSUME TypeOK, emitted <= MaxEvents, NEW s \in Seq(Event), Old(s), emitted' = emitted + 1
    PROVE  /\ \A i \in 1 .. Len(s) : s[i].no <= emitted'
           /\ \A k \in Kinds :
                 \A i \in 1 .. Len(Append(s, New(k))) : Append(s, New(k))[i].no <= emitted'
  <1>0. \A i \in 1 .. Len(s) : s[i] \in Event
    OBVIOUS
  <1>1. \A i \in 1 .. Len(s) : s[i].no \in Nat /\ s[i].no <= emitted
    BY <1>0, SizeAssumption DEF Event, Old
  <1>2. emitted \in Nat
    BY DEF TypeOK
  <1>3. \A i \in 1 .. Len(s) : s[i].no <= emitted'
    BY <1>1, <1>2
  <1>4. ASSUME NEW k \in Kinds, NEW i \in 1 .. Len(Append(s, New(k)))
        PROVE  Append(s, New(k))[i].no <= emitted'
    <2>1. /\ Len(Append(s, New(k))) = Len(s) + 1 /\ Len(s) \in Nat
          /\ Append(s, New(k))[Len(s) + 1].no = emitted + 1
          /\ \A j \in 1 .. Len(s) : Append(s, New(k))[j] = s[j]
      BY NewFacts, AppendFacts
    <2>2. CASE i = Len(s) + 1
      BY <1>2, <2>1, <2>2
    <2>3. CASE i # Len(s) + 1
      <3>1. i \in 1 .. Len(s) /\ Append(s, New(k))[i] = s[i]
        BY <2>1, <2>3
      <3>2. QED
        BY <1>3, <3>1
    <2>4. QED
      BY <2>2, <2>3
  <1>5. QED
    BY <1>3, <1>4

\* Sending an event to the stream keeps the order.
LEMMA SendInOrder ==
    ASSUME TypeOK, InOrder, NEW k \in Kinds, emitted <= MaxEvents,
           emitted' = emitted + 1, stream' = Append(stream, New(k)), UNCHANGED <<rows, chunk, tx>>
    PROVE  InOrder'
  <1>1. /\ rows \in Seq(Event) /\ chunk \in Seq(Event) /\ tx \in Seq(Event)
        /\ stream \in Seq(Event) /\ New(k) \in Event
    BY NewFacts DEF TypeOK
  <1>2. /\ \A i \in 1 .. Len(rows) : rows[i].no < New(k).no
        /\ \A i \in 1 .. Len(chunk) : chunk[i].no < New(k).no
        /\ \A i \in 1 .. Len(tx) : tx[i].no < New(k).no
        /\ \A i \in 1 .. Len(stream) : stream[i].no < New(k).no
    BY <1>1, NewIsLast DEF InOrder
  <1>3. Ordered(stream')
    BY <1>1, <1>2, AppendOrder DEF InOrder
  <1>4. Before(rows, stream') /\ Before(chunk, stream') /\ Before(tx, stream')
    BY <1>1, <1>2, AppendOrder DEF InOrder
  <1>5. /\ \A i \in 1 .. Len(rows) : rows[i].no <= emitted'
        /\ \A i \in 1 .. Len(chunk) : chunk[i].no <= emitted'
        /\ \A i \in 1 .. Len(tx) : tx[i].no <= emitted'
        /\ \A i \in 1 .. Len(stream') : stream'[i].no <= emitted'
    BY <1>1, OldGrows DEF InOrder
  <1>6. Old(rows)' /\ Old(chunk)' /\ Old(tx)' /\ Old(stream)'
    BY <1>5 DEF Old
  <1>7. /\ Ordered(rows)' /\ Ordered(chunk)' /\ Ordered(tx)'
        /\ Before(rows, chunk)' /\ Before(rows, tx)' /\ Before(chunk, tx)'
        /\ \A i \in 1 .. Len(rows') : Sent(rows'[i])
    BY DEF InOrder, Ordered, Before, Sent
  <1>8. Ordered(stream)' /\ Before(rows, stream)' /\ Before(chunk, stream)' /\ Before(tx, stream)'
    BY <1>3, <1>4 DEF Ordered, Before, Sent
  <1>9. QED
    BY <1>6, <1>7, <1>8 DEF InOrder

\* An event that moves from the stream to tx stays in order.
LEMMA HandleEventInOrder ==
    ASSUME TypeOK, InOrder, HandleEvent
    PROVE  InOrder'
  <1> DEFINE e == Head(stream)
  <1>1. /\ rows \in Seq(Event) /\ chunk \in Seq(Event) /\ tx \in Seq(Event)
        /\ stream \in Seq(Event) /\ stream # <<>> /\ stream' = Tail(stream)
        /\ UNCHANGED <<rows, chunk, emitted>>
    BY DEF TypeOK, HandleEvent, saverVars
  <1>2. e \in Event /\ Tail(stream) \in Seq(Event)
    BY <1>1, TailFacts
  <1>3. tx' = Append(tx, e) \/ tx' = tx
    BY DEF HandleEvent, Handle
  <1>4. /\ Ordered(stream') /\ Before(rows, stream') /\ Before(chunk, stream') /\ Before(tx, stream')
        /\ \A i \in 1 .. Len(stream') : Sent(e) /\ Sent(stream'[i]) => e.no < stream'[i].no
        /\ \A i \in 1 .. Len(rows) : Sent(rows[i]) /\ Sent(e) => rows[i].no < e.no
        /\ \A i \in 1 .. Len(chunk) : Sent(chunk[i]) /\ Sent(e) => chunk[i].no < e.no
        /\ \A i \in 1 .. Len(tx) : Sent(tx[i]) /\ Sent(e) => tx[i].no < e.no
    BY <1>1, TailOrder DEF InOrder
  <1>5. /\ Ordered(tx') /\ Before(rows, tx') /\ Before(chunk, tx') /\ Before(tx', stream')
    <2>1. CASE tx' = tx
      BY <1>4, <2>1 DEF InOrder
    <2>2. CASE tx' = Append(tx, e)
      <3>1. Ordered(tx') /\ Before(rows, tx') /\ Before(chunk, tx')
        BY <1>1, <1>2, <1>4, <2>2, AppendOrder DEF InOrder
      <3>2. Before(tx', stream')
        BY <1>1, <1>2, <1>4, <2>2, AppendBefore
      <3>3. QED
        BY <3>1, <3>2
    <2>3. QED
      BY <1>3, <2>1, <2>2
  <1>6. Old(stream)' /\ Old(rows)' /\ Old(chunk)'
    <2>1. /\ Len(stream) \in Nat \ {0} /\ Len(stream') = Len(stream) - 1
          /\ \A i \in 1 .. Len(stream') : stream'[i] = stream[i + 1]
      BY <1>1, TailFacts
    <2>2. QED
      BY <1>1, <2>1 DEF InOrder, Old
  <1>7. Old(tx)'
    <2>1. e.no <= emitted
      BY <1>1, TailFacts DEF InOrder, Old
    <2>2. CASE tx' = Append(tx, e)
      <3>1. /\ Len(tx) \in Nat /\ Len(tx') = Len(tx) + 1 /\ tx'[Len(tx) + 1] = e
            /\ \A i \in 1 .. Len(tx) : tx'[i] = tx[i]
        BY <1>1, <1>2, <2>2, AppendFacts
      <3>2. \A i \in 1 .. Len(tx) + 1 : i \in 1 .. Len(tx) \/ i = Len(tx) + 1
        BY <3>1
      <3>3. QED
        BY <1>1, <2>1, <3>1, <3>2 DEF InOrder, Old
    <2>3. CASE tx' = tx
      BY <1>1, <2>3 DEF InOrder, Old
    <2>4. QED
      BY <1>3, <2>2, <2>3
  <1>8. /\ Ordered(stream)' /\ Before(rows, stream)' /\ Before(chunk, stream)' /\ Before(tx, stream)'
        /\ Ordered(tx)' /\ Before(rows, tx)' /\ Before(chunk, tx)'
    BY <1>1, <1>4, <1>5 DEF Ordered, Before, Sent
  <1>9. /\ Ordered(rows)' /\ Ordered(chunk)' /\ Before(rows, chunk)'
        /\ \A i \in 1 .. Len(rows') : Sent(rows'[i])
    BY <1>1 DEF InOrder, Ordered, Before, Sent
  <1>10. QED
    BY <1>6, <1>7, <1>8, <1>9 DEF InOrder

\* A signature request has no place in the order.
LEMMA SigReqInOrder ==
    ASSUME TypeOK, InOrder, SigReqEvent
    PROVE  InOrder'
  <1> DEFINE e == New("sigreq")
  <1>1. /\ rows \in Seq(Event) /\ chunk \in Seq(Event) /\ tx \in Seq(Event)
        /\ stream \in Seq(Event) /\ emitted' = emitted + 1 /\ UNCHANGED <<rows, chunk, stream>>
        /\ "sigreq" \in Kinds /\ emitted <= MaxEvents
    BY SizeAssumption DEF TypeOK, SigReqEvent, saverVars, Kinds
  <1>2. e \in Event /\ ~Sent(e)
    BY <1>1, NewFacts DEF Sent
  <1>3. tx' = Append(tx, e) \/ tx' = tx
    BY DEF SigReqEvent, Handle
  <1>4. Ordered(tx') /\ Before(rows, tx') /\ Before(chunk, tx') /\ Before(tx', stream)
    <2>1. CASE tx' = tx
      BY <2>1 DEF InOrder
    <2>2. CASE tx' = Append(tx, e)
      <3>1. Ordered(tx') /\ Before(rows, tx') /\ Before(chunk, tx')
        BY <1>1, <1>2, <2>2, AppendOrder DEF InOrder
      <3>2. Before(tx', stream)
        BY <1>1, <1>2, <2>2, AppendBefore DEF InOrder
      <3>3. QED
        BY <3>1, <3>2
    <2>3. QED
      BY <1>3, <2>1, <2>2
  <1>5. /\ \A i \in 1 .. Len(rows) : rows[i].no <= emitted'
        /\ \A i \in 1 .. Len(chunk) : chunk[i].no <= emitted'
        /\ \A i \in 1 .. Len(stream) : stream[i].no <= emitted'
        /\ \A i \in 1 .. Len(tx') : tx'[i].no <= emitted'
    BY <1>1, <1>3, OldGrows DEF InOrder
  <1>6. Old(rows)' /\ Old(chunk)' /\ Old(tx)' /\ Old(stream)'
    BY <1>1, <1>5 DEF Old
  <1>7. Ordered(tx)' /\ Before(rows, tx)' /\ Before(chunk, tx)' /\ Before(tx, stream)'
    BY <1>1, <1>4 DEF Ordered, Before, Sent
  <1>8. /\ Ordered(rows)' /\ Ordered(chunk)' /\ Ordered(stream)' /\ Before(rows, chunk)'
        /\ Before(rows, stream)' /\ Before(chunk, stream)'
        /\ \A i \in 1 .. Len(rows') : Sent(rows'[i])
    BY <1>1 DEF InOrder, Ordered, Before, Sent
  <1>9. QED
    BY <1>6, <1>7, <1>8 DEF InOrder

\* Splitting tx into a chunk and the rest keeps the order.
LEMMA TakeChunkInOrder ==
    ASSUME TypeOK, InOrder, TakeChunk
    PROVE  InOrder'
  <1>1. PICK k \in 1 .. Len(tx) :
            /\ chunk = <<>> /\ Len(tx) \in Nat
            /\ Len(chunk') = k /\ Len(tx') = Len(tx) - k
            /\ \A i \in 1 .. k : chunk'[i] = tx[i]
            /\ \A i \in 1 .. Len(tx) - k : tx'[i] = tx[k + i]
            /\ tx' \in Seq(Event)
            /\ UNCHANGED <<emitted, stream, open, rows>>
    BY TakeChunkFacts
  <1>2. /\ \A i \in 1 .. Len(chunk') : i \in 1 .. Len(tx) /\ chunk'[i] = tx[i]
        /\ \A i \in 1 .. Len(tx') : k + i \in 1 .. Len(tx) /\ tx'[i] = tx[k + i]
        /\ \A i \in 1 .. Len(chunk'), j \in 1 .. Len(tx') : i < k + j
        /\ \A i, j \in 1 .. Len(tx') : i < j => k + i < k + j
    BY <1>1
  <1>3. Ordered(chunk)' /\ Ordered(tx)' /\ Before(chunk, tx)'
    <2>1. Ordered(tx)
      BY DEF InOrder
    <2>2. Ordered(chunk')
      BY <1>2, <2>1 DEF Ordered
    <2>3. Ordered(tx')
      BY <1>2, <2>1 DEF Ordered
    <2>4. Before(chunk', tx')
      <3> SUFFICES ASSUME NEW i \in 1 .. Len(chunk'), NEW j \in 1 .. Len(tx'),
                          Sent(chunk'[i]), Sent(tx'[j])
                   PROVE  chunk'[i].no < tx'[j].no
        BY DEF Before
      <3>1. chunk'[i] = tx[i] /\ tx'[j] = tx[k + j] /\ i < k + j
        BY <1>2
      <3>2. i \in 1 .. Len(tx) /\ k + j \in 1 .. Len(tx)
        BY <1>2
      <3>3. QED
        BY <2>1, <3>1, <3>2 DEF Ordered
    <2>5. QED
      BY <2>2, <2>3, <2>4 DEF Ordered, Before, Sent
  <1>4. /\ Before(rows, chunk)' /\ Before(rows, tx)'
        /\ Before(chunk, stream)' /\ Before(tx, stream)'
    <2>1. Before(rows, tx) /\ Before(tx, stream)
      BY DEF InOrder
    <2>2. Before(rows, chunk') /\ Before(rows, tx')
      BY <1>2, <2>1 DEF Before
    <2>3. Before(chunk', stream) /\ Before(tx', stream)
      BY <1>2, <2>1 DEF Before
    <2>4. QED
      BY <1>1, <2>2, <2>3 DEF Before, Sent
  <1>5. Old(rows)' /\ Old(chunk)' /\ Old(tx)' /\ Old(stream)'
    BY <1>1, <1>2 DEF InOrder, Old
  <1>6. /\ Ordered(rows)' /\ Ordered(stream)' /\ Before(rows, stream)'
        /\ \A i \in 1 .. Len(rows') : Sent(rows'[i])
    BY <1>1 DEF InOrder, Ordered, Before, Sent
  <1>7. QED
    BY <1>3, <1>4, <1>5, <1>6 DEF InOrder

\* Writing the first event of the chunk, or dropping it, keeps the order.
LEMMA WriteInOrder ==
    ASSUME TypeOK, InOrder, Write
    PROVE  InOrder'
  <1> DEFINE e == Head(chunk)
  <1>1. /\ rows \in Seq(Event) /\ chunk \in Seq(Event) /\ tx \in Seq(Event)
        /\ stream \in Seq(Event) /\ chunk # <<>> /\ chunk' = Tail(chunk)
        /\ UNCHANGED <<emitted, tx, stream>>
    BY DEF TypeOK, Write, runVars, actorVars
  <1>2. e \in Event /\ Tail(chunk) \in Seq(Event)
    BY <1>1, TailFacts
  <1>3. (rows' = Append(rows, e) /\ Sent(e)) \/ rows' = rows
    BY DEF Write, Sent
  <1>4. /\ Ordered(chunk') /\ Before(rows, chunk') /\ Before(chunk', tx) /\ Before(chunk', stream)
        /\ \A i \in 1 .. Len(chunk') : Sent(e) /\ Sent(chunk'[i]) => e.no < chunk'[i].no
        /\ \A i \in 1 .. Len(rows) : Sent(rows[i]) /\ Sent(e) => rows[i].no < e.no
        /\ \A i \in 1 .. Len(tx) : Sent(e) /\ Sent(tx[i]) => e.no < tx[i].no
        /\ \A i \in 1 .. Len(stream) : Sent(e) /\ Sent(stream[i]) => e.no < stream[i].no
    BY <1>1, TailOrder DEF InOrder
  <1>5. Old(chunk)' /\ e.no <= emitted
    <2>1. /\ Len(chunk) \in Nat \ {0} /\ Len(chunk') = Len(chunk) - 1 /\ e = chunk[1]
          /\ \A i \in 1 .. Len(chunk') : chunk'[i] = chunk[i + 1]
      BY <1>1, TailFacts
    <2>2. QED
      BY <1>1, <2>1 DEF InOrder, Old
  <1>6. /\ Ordered(rows') /\ Before(rows', chunk') /\ Before(rows', tx) /\ Before(rows', stream)
        /\ \A i \in 1 .. Len(rows') : rows'[i].no <= emitted /\ Sent(rows'[i])
    <2>1. CASE rows' = rows
      BY <1>4, <2>1 DEF InOrder, Old
    <2>2. CASE rows' = Append(rows, e) /\ Sent(e)
      <3>1. Ordered(rows')
        BY <1>1, <1>2, <1>4, <2>2, AppendOrder DEF InOrder
      <3>2. Before(rows', chunk')
        BY <1>1, <1>2, <1>4, <2>2, AppendBefore DEF InOrder
      <3>3. Before(rows', tx) /\ Before(rows', stream)
        BY <1>1, <1>2, <1>4, <2>2, AppendBefore DEF InOrder
      <3>4. /\ Len(rows) \in Nat /\ Len(rows') = Len(rows) + 1 /\ rows'[Len(rows) + 1] = e
            /\ \A i \in 1 .. Len(rows) : rows'[i] = rows[i]
        BY <1>1, <1>2, <2>2, AppendFacts
      <3>5. \A i \in 1 .. Len(rows) + 1 : i \in 1 .. Len(rows) \/ i = Len(rows) + 1
        BY <3>4
      <3>6. \A i \in 1 .. Len(rows') : rows'[i].no <= emitted /\ Sent(rows'[i])
        BY <1>5, <2>2, <3>4, <3>5 DEF InOrder, Old
      <3>7. QED
        BY <3>1, <3>2, <3>3, <3>6
    <2>3. QED
      BY <1>3, <2>1, <2>2
  <1>7. /\ Ordered(chunk)' /\ Before(chunk, tx)' /\ Before(chunk, stream)'
        /\ Ordered(rows)' /\ Before(rows, chunk)' /\ Before(rows, tx)' /\ Before(rows, stream)'
    BY <1>1, <1>4, <1>6 DEF Ordered, Before, Sent
  <1>8. /\ Ordered(tx)' /\ Ordered(stream)' /\ Before(tx, stream)' /\ Old(tx)' /\ Old(stream)'
    BY <1>1 DEF InOrder, Ordered, Before, Sent, Old
  <1>9. Old(rows)' /\ \A i \in 1 .. Len(rows') : Sent(rows'[i])
    BY <1>1, <1>6 DEF Old
  <1>10. QED
    BY <1>5, <1>7, <1>8, <1>9 DEF InOrder

\* Every step keeps the events in order.
LEMMA NextInOrder == TypeOK /\ Bookkeeping /\ InOrder /\ [Next]_vars => InOrder'
  <1> SUFFICES ASSUME TypeOK, Bookkeeping, InOrder, [Next]_vars
               PROVE  InOrder'
    OBVIOUS
  <1>1. CASE UNCHANGED <<emitted, stream, tx, chunk, rows>>
    BY <1>1 DEF InOrder, Ordered, Before, Sent, Old
  <1>2. ASSUME NEW k \in Kinds, Emit(k) PROVE InOrder'
    <2>1. emitted <= MaxEvents
      BY <1>2, SizeAssumption DEF Emit, TypeOK
    <2>2. QED
      BY <1>2, <2>1, SendInOrder DEF Emit, actorVars, saverVars
  <1>3. CASE RunFinish
    <2>1. "finish" \in Kinds /\ emitted <= MaxEvents
      BY <1>3 DEF RunFinish, Bookkeeping, Kinds
    <2>2. QED
      BY <1>3, <2>1, SendInOrder DEF RunFinish, actorVars, saverVars
  <1>4. CASE NotConnected
    <2>1. chunk' = <<>> /\ UNCHANGED <<emitted, stream, tx, rows>>
      BY <1>4 DEF NotConnected, runVars, actorVars
    <2>2. QED
      BY <2>1, EmptyFacts DEF InOrder, Ordered, Before, Sent, Old
  <1>5. QED
    BY <1>1, <1>2, <1>3, <1>4, HandleEventInOrder, SigReqInOrder, TakeChunkInOrder, WriteInOrder,
       QueueSteps
    DEF queues, StreamFinished, runVars, actorVars, saverVars

----------------------------------------------------------------------------
(* The record of the run *)

\* What has a source keeps it when the source grows, and an event that is added
\* to both has one.
LEMMA FromGrows ==
    ASSUME NEW s \in Seq(Event), NEW t \in Seq(Event), NEW e \in Event, From(s, t)
    PROVE  From(s, Append(t, e)) /\ From(Append(s, e), Append(t, e))
  <1>1. /\ Len(t) \in Nat /\ Len(Append(t, e)) = Len(t) + 1
        /\ \A j \in 1 .. Len(t) : j \in 1 .. Len(Append(t, e)) /\ Append(t, e)[j] = t[j]
        /\ Len(t) + 1 \in 1 .. Len(Append(t, e)) /\ Append(t, e)[Len(t) + 1] = e
    BY AppendFacts
  <1>2. /\ Len(s) \in Nat /\ Len(Append(s, e)) = Len(s) + 1
        /\ \A i \in 1 .. Len(s) : Append(s, e)[i] = s[i]
        /\ Append(s, e)[Len(s) + 1] = e
    BY AppendFacts
  <1>3. From(s, Append(t, e))
    BY <1>1 DEF From
  <1>4. From(Append(s, e), Append(t, e))
    <2> SUFFICES ASSUME NEW i \in 1 .. Len(s) + 1
                 PROVE  \E j \in 1 .. Len(Append(t, e)) : Append(s, e)[i] = Append(t, e)[j]
      BY <1>2 DEF From
    <2>1. CASE i = Len(s) + 1
      BY <1>1, <1>2, <2>1
    <2>2. CASE i # Len(s) + 1
      <3>1. i \in 1 .. Len(s)
        BY <1>2, <2>2
      <3>2. QED
        BY <1>2, <1>3, <3>1 DEF From
    <2>3. QED
      BY <2>1, <2>2
  <1>5. QED
    BY <1>3, <1>4

\* A part of a sequence has the sources of the whole.
LEMMA SourceKept ==
    ASSUME NEW s, NEW t, NEW u, From(s, t),
           \A i \in 1 .. Len(u) : \E j \in 1 .. Len(s) : u[i] = s[j]
    PROVE  From(u, t)
  BY DEF From

\* An event that is sent to the stream is a new one.
LEMMA SendListed ==
    ASSUME TypeOK, InOrder, Listed, NEW k \in Kinds, k # "sigreq", emitted <= MaxEvents,
           emitted' = emitted + 1, stream' = Append(stream, New(k)),
           UNCHANGED <<all_events, tx, chunk>>
    PROVE  Listed'
  <1>1. stream \in Seq(Event) /\ all_events \in Seq(Event) /\ New(k) \in Event /\ Sent(New(k))
    BY NewFacts DEF TypeOK, Sent
  <1>2. \A i \in 1 .. Len(all_events) : all_events[i].no < New(k).no
    BY <1>1, NewIsLast DEF Listed
  <1>3. Before(all_events, stream')
    BY <1>1, <1>2, AppendOrder DEF Listed
  <1>4. \A i \in 1 .. Len(all_events) : all_events[i].no <= emitted'
    BY <1>1, OldGrows DEF Listed
  <1>5. /\ Len(stream) \in Nat /\ Len(stream') = Len(stream) + 1 /\ stream'[Len(stream) + 1] = New(k)
        /\ \A i \in 1 .. Len(stream) : stream'[i] = stream[i]
    BY <1>1, AppendFacts
  <1>6. \A j \in 1 .. Len(stream') : j \in 1 .. Len(stream) \/ j = Len(stream) + 1
    BY <1>5
  <1>7. \A i \in 1 .. Len(stream') : Sent(stream'[i])
    BY <1>1, <1>5, <1>6 DEF Listed
  <1>8. \A i \in 1 .. Len(all_events) : all_events[i].no # New(k).no
    <2>1. \A i \in 1 .. Len(all_events) : all_events[i] \in Event
      BY <1>1
    <2>2. QED
      BY <1>1, <1>2, <2>1, SizeAssumption DEF Event
  <1>9. \A i \in 1 .. Len(all_events), j \in 1 .. Len(stream') : all_events[i].no # stream'[j].no
    BY <1>5, <1>6, <1>8 DEF Listed
  <1>10. Ordered(all_events)' /\ Before(all_events, stream)' /\ Old(all_events)'
    BY <1>3, <1>4 DEF Listed, Ordered, Before, Old, Sent
  <1>11. From(tx, all_events)' /\ From(chunk, all_events)'
    BY DEF Listed, From
  <1>12. (\A i \in 1 .. Len(stream) : Sent(stream[i]))'
    BY <1>7 DEF Sent
  <1>13. QED
    BY <1>9, <1>10, <1>11, <1>12 DEF Listed

\* An event that the actor handles goes to its list, and with it to save_to_db.
LEMMA HandleListed ==
    ASSUME TypeOK, Listed, NEW e \in Event, Handle(e), chunk' = chunk,
           stream' \in Seq(Event), e.no <= emitted', emitted' \in Nat, emitted <= emitted',
           \A i \in 1 .. Len(stream') : Sent(stream'[i]),
           Before(all_events, stream'),
           \A i \in 1 .. Len(all_events), j \in 1 .. Len(stream') : all_events[i].no # stream'[j].no,
           \A i \in 1 .. Len(all_events) : Sent(all_events[i]) /\ Sent(e) => all_events[i].no < e.no,
           \A j \in 1 .. Len(stream') : Sent(e) => e.no < stream'[j].no,
           \A j \in 1 .. Len(stream') : e.no # stream'[j].no
    PROVE  Listed'
  <1>1. /\ all_events \in Seq(Event) /\ tx \in Seq(Event) /\ chunk \in Seq(Event)
        /\ all_events' = Append(all_events, e) /\ (tx' = tx \/ tx' = Append(tx, e))
        /\ emitted \in Nat
    BY DEF TypeOK, Handle
  <1>2. Ordered(all_events')
    BY <1>1, AppendOrder DEF Listed
  <1>3. Before(all_events', stream')
    BY <1>1, AppendBefore
  <1>4. From(tx', all_events') /\ From(chunk', all_events')
    BY <1>1, FromGrows DEF Listed
  <1>5. /\ Len(all_events) \in Nat /\ Len(all_events') = Len(all_events) + 1
        /\ all_events'[Len(all_events) + 1] = e
        /\ \A i \in 1 .. Len(all_events) : all_events'[i] = all_events[i] /\ all_events[i] \in Event
    BY <1>1, AppendFacts
  <1>6. \A i \in 1 .. Len(all_events') : i \in 1 .. Len(all_events) \/ i = Len(all_events) + 1
    BY <1>5
  <1>7. \A i \in 1 .. Len(all_events') : all_events'[i].no <= emitted'
    <2>1. \A i \in 1 .. Len(all_events) : all_events[i].no \in Nat /\ all_events[i].no <= emitted
      BY <1>5, SizeAssumption DEF Listed, Old, Event
    <2>2. \A n \in Nat : n <= emitted => n <= emitted'
      <3>1. emitted \in Nat /\ emitted' \in Nat /\ emitted <= emitted'
        BY <1>1
      <3>2. QED
        BY <3>1
    <2>3. \A i \in 1 .. Len(all_events) : all_events[i].no <= emitted'
      BY <2>1, <2>2
    <2>4. QED
      BY <1>5, <1>6, <2>3
  <1>8. \A i \in 1 .. Len(all_events'), j \in 1 .. Len(stream') : all_events'[i].no # stream'[j].no
    BY <1>5, <1>6
  <1>9. Ordered(all_events)' /\ Before(all_events, stream)' /\ Old(all_events)'
    BY <1>2, <1>3, <1>7 DEF Ordered, Before, Old, Sent
  <1>10. From(tx, all_events)' /\ From(chunk, all_events)'
    BY <1>4 DEF From
  <1>11. (\A i \in 1 .. Len(stream) : Sent(stream[i]))'
    BY DEF Sent
  <1>12. QED
    BY <1>8, <1>9, <1>10, <1>11 DEF Listed

\* The next event of the stream is not on the list, and comes after all that are.
LEMMA HandleEventListed ==
    ASSUME TypeOK, InOrder, Listed, HandleEvent
    PROVE  Listed'
  <1> DEFINE e == Head(stream)
  <1>1. /\ stream \in Seq(Event) /\ stream # <<>> /\ stream' = Tail(stream) /\ Handle(e)
        /\ all_events \in Seq(Event) /\ UNCHANGED <<chunk, emitted>> /\ emitted \in Nat
    BY DEF TypeOK, HandleEvent, saverVars
  <1>2. /\ e \in Event /\ stream' \in Seq(Event) /\ Len(stream) \in Nat \ {0} /\ e = stream[1]
        /\ Len(stream') = Len(stream) - 1
        /\ \A i \in 1 .. Len(stream') : stream'[i] = stream[i + 1] /\ i + 1 \in 1 .. Len(stream)
    BY <1>1, TailFacts
  <1>3. 1 \in 1 .. Len(stream)
    BY <1>2
  <1>4. Sent(e) /\ e.no <= emitted /\ \A i \in 1 .. Len(stream') : Sent(stream'[i])
    BY <1>2, <1>3 DEF Listed, InOrder, Old
  <1>5. /\ Before(all_events, stream')
        /\ \A i \in 1 .. Len(all_events) : Sent(all_events[i]) /\ Sent(e) => all_events[i].no < e.no
    BY <1>1, TailOrder DEF Listed
  <1>6. \A j \in 1 .. Len(stream') : e.no < stream'[j].no
    BY <1>1, <1>4, TailOrder DEF InOrder
  <1>7. \A j \in 1 .. Len(stream') : e.no # stream'[j].no
    <2>1. \A j \in 1 .. Len(stream') : stream'[j] \in Event
      BY <1>2
    <2>2. QED
      BY <1>2, <1>6, <2>1, SizeAssumption DEF Event
  <1>8. \A i \in 1 .. Len(all_events), j \in 1 .. Len(stream') : all_events[i].no # stream'[j].no
    BY <1>2 DEF Listed
  <1>9. emitted' \in Nat /\ emitted <= emitted' /\ e.no <= emitted' /\ chunk' = chunk
    BY <1>1, <1>4
  <1> HIDE DEF e
  <1>10. QED
    BY <1>1, <1>2, <1>4, <1>5, <1>6, <1>7, <1>8, <1>9, HandleListed

\* A signature request has a number of its own.
LEMMA SigReqListed ==
    ASSUME TypeOK, InOrder, Listed, SigReqEvent
    PROVE  Listed'
  <1> DEFINE e == New("sigreq")
  <1>1. /\ stream \in Seq(Event) /\ all_events \in Seq(Event) /\ Handle(e)
        /\ emitted' = emitted + 1 /\ UNCHANGED <<chunk, stream>>
        /\ "sigreq" \in Kinds /\ emitted <= MaxEvents
    BY SizeAssumption DEF TypeOK, SigReqEvent, saverVars, Kinds
  <1>2. e \in Event /\ ~Sent(e) /\ e.no = emitted + 1 /\ emitted \in Nat
    BY <1>1, NewFacts DEF Sent
  <1>3. \A j \in 1 .. Len(stream) : stream[j].no < e.no
    BY <1>1, NewIsLast DEF InOrder
  <1>4. \A j \in 1 .. Len(stream) : e.no # stream[j].no
    <2>1. \A j \in 1 .. Len(stream) : stream[j] \in Event
      BY <1>1
    <2>2. QED
      BY <1>2, <1>3, <2>1, SizeAssumption DEF Event
  <1>5. e.no <= emitted' /\ emitted' \in Nat /\ emitted <= emitted'
    BY <1>1, <1>2
  <1>6. /\ \A i \in 1 .. Len(stream') : Sent(stream'[i])
        /\ Before(all_events, stream')
        /\ \A i \in 1 .. Len(all_events), j \in 1 .. Len(stream') : all_events[i].no # stream'[j].no
        /\ \A j \in 1 .. Len(stream') : e.no # stream'[j].no
        /\ stream' \in Seq(Event) /\ chunk' = chunk
    BY <1>1, <1>4 DEF Listed
  <1> HIDE DEF e
  <1>7. QED
    BY <1>1, <1>2, <1>5, <1>6, HandleListed

\* What save_to_db takes or has written was handed to it.
LEMMA SaverListed ==
    ASSUME TypeOK, Listed, TakeChunk \/ NotConnected \/ Write
    PROVE  Listed'
  <1>1. UNCHANGED <<emitted, stream, all_events>>
    BY DEF TakeChunk, NotConnected, Write, runVars, actorVars
  <1>2. From(tx', all_events) /\ From(chunk', all_events)
    <2>1. CASE TakeChunk
      <3>1. PICK k \in 1 .. Len(tx) :
                /\ Len(tx) \in Nat
                /\ Len(chunk') = k /\ Len(tx') = Len(tx) - k
                /\ \A i \in 1 .. k : chunk'[i] = tx[i]
                /\ \A i \in 1 .. Len(tx) - k : tx'[i] = tx[k + i]
        BY <2>1, TakeChunkFacts
      <3>2. /\ \A i \in 1 .. Len(chunk') : i \in 1 .. Len(tx) /\ chunk'[i] = tx[i]
            /\ \A i \in 1 .. Len(tx') : k + i \in 1 .. Len(tx) /\ tx'[i] = tx[k + i]
        BY <3>1
      <3>3. From(tx, all_events)
        BY DEF Listed
      <3>4. From(chunk', all_events) /\ From(tx', all_events)
        BY <3>2, <3>3, SourceKept DEF From
      <3>5. QED
        BY <3>4
    <2>2. CASE NotConnected
      BY <2>2, EmptyFacts DEF NotConnected, actorVars, Listed, From
    <2>3. CASE Write
      <3>1. chunk \in Seq(Event) /\ chunk # <<>> /\ chunk' = Tail(chunk) /\ tx' = tx
        BY <2>3 DEF Write, TypeOK, actorVars
      <3>2. \A i \in 1 .. Len(chunk') : i + 1 \in 1 .. Len(chunk) /\ chunk'[i] = chunk[i + 1]
        BY <3>1, TailFacts
      <3>3. From(tx, all_events) /\ From(chunk, all_events)
        BY DEF Listed
      <3>4. From(chunk', all_events)
        BY <3>2, <3>3, SourceKept DEF From
      <3>5. QED
        BY <3>1, <3>3, <3>4
    <2>4. QED
      BY <2>1, <2>2, <2>3
  <1>3. From(tx, all_events)' /\ From(chunk, all_events)'
    BY <1>1, <1>2 DEF From
  <1>4. QED
    BY <1>1, <1>3 DEF Listed, Ordered, Before, Old, Sent

\* Every step keeps the list as the others need it.
LEMMA NextListed == Inv /\ Listed /\ [Next]_vars => Listed'
  <1> SUFFICES ASSUME Inv, Listed, [Next]_vars PROVE Listed'
    OBVIOUS
  <1>0. TypeOK /\ Bookkeeping /\ InOrder
    BY DEF Inv
  <1>1. CASE UNCHANGED <<emitted, stream, all_events, tx, chunk>>
    BY <1>1 DEF Listed, Ordered, Before, Old, Sent, From
  <1>2. ASSUME NEW k \in Kinds, Emit(k) PROVE Listed'
    <2>1. emitted <= MaxEvents /\ k # "sigreq"
      BY <1>0, <1>2, SizeAssumption DEF Emit, TypeOK
    <2>2. QED
      BY <1>0, <1>2, <2>1, SendListed DEF Emit, actorVars, saverVars
  <1>3. CASE RunFinish
    <2>1. "finish" \in Kinds /\ emitted <= MaxEvents
      BY <1>0, <1>3 DEF RunFinish, Bookkeeping, Kinds
    <2>2. QED
      BY <1>0, <1>3, <2>1, SendListed DEF RunFinish, actorVars, saverVars
  <1>4. QED
    BY <1>0, <1>1, <1>2, <1>3, HandleEventListed, SigReqListed, SaverListed, QueueSteps
    DEF queues, StreamFinished, runVars, actorVars, saverVars

\* The event that is handled is published for the first time.
LEMMA HandlePublishes ==
    ASSUME Inv, Listed, HandleEvent \/ SigReqEvent
    PROVE  TheLog!Publish
  <1>1. PICK e \in Event :
            Handle(e) /\ \A i \in 1 .. Len(all_events) : all_events[i].no # e.no
    <2>1. CASE HandleEvent
      <3>1. stream \in Seq(Event) /\ stream # <<>>
        BY <2>1 DEF HandleEvent, Inv, TypeOK
      <3>2. Head(stream) \in Event /\ Head(stream) = stream[1] /\ 1 \in 1 .. Len(stream)
        BY <3>1, TailFacts
      <3>3. Handle(Head(stream)) /\ \A i \in 1 .. Len(all_events) : all_events[i].no # Head(stream).no
        BY <2>1, <3>2 DEF HandleEvent, Listed
      <3>4. QED
        BY <3>2, <3>3
    <2>2. CASE SigReqEvent
      <3>1. /\ TypeOK /\ emitted <= MaxEvents /\ "sigreq" \in Kinds /\ Handle(New("sigreq"))
            /\ all_events \in Seq(Event)
        BY <2>2, SizeAssumption DEF SigReqEvent, Inv, TypeOK, Kinds
      <3>2. New("sigreq") \in Event /\ New("sigreq").no = emitted + 1
        BY <3>1, NewFacts
      <3>3. \A i \in 1 .. Len(all_events) : all_events[i].no < New("sigreq").no
        BY <3>1, NewIsLast DEF Listed
      <3>4. \A i \in 1 .. Len(all_events) : all_events[i] \in Event
        BY <3>1
      <3>5. \A i \in 1 .. Len(all_events) : all_events[i].no # New("sigreq").no
        BY <3>2, <3>3, <3>4, SizeAssumption DEF Event
      <3>6. QED
        BY <3>1, <3>2, <3>5
    <2>3. QED
      BY <2>1, <2>2
  <1>2. all_events' = Append(all_events, e) /\ \A i \in 1 .. Len(all_events) : all_events[i] # e
    BY <1>1 DEF Handle
  <1>3. UNCHANGED <<rows, saver, waiter>>
    BY DEF HandleEvent, SigReqEvent, saverVars
  <1>4. QED
    BY <1>2, <1>3 DEF TheLog!Publish

\* A row is an event that was published after all those that were written.
LEMMA WriteRecords ==
    ASSUME Inv, Listed, Write, rows' # rows
    PROVE  TheLog!Write
  <1> DEFINE e == Head(chunk)
  <1>1. /\ chunk \in Seq(Event) /\ chunk # <<>> /\ rows' = Append(rows, e) /\ Sent(e)
        /\ UNCHANGED <<all_events, saver, waiter>> /\ saver = "write"
        /\ rows \in Seq(Event) /\ all_events \in Seq(Event)
    BY DEF Write, Inv, TypeOK, Sent, actorVars
  <1>2. e \in Event /\ e = chunk[1] /\ 1 \in 1 .. Len(chunk)
    BY <1>1, TailFacts
  <1>3. PICK i \in 1 .. Len(all_events) : all_events[i] = e
    BY <1>2 DEF Listed, From
  <1>4. ASSUME NEW j \in i .. Len(all_events), NEW k \in 1 .. Len(rows), rows[k] = all_events[j]
        PROVE  FALSE
    <2>1. j \in 1 .. Len(all_events) /\ (j = i \/ i < j)
      BY <1>1
    <2>2. Sent(rows[k]) /\ rows[k].no < e.no
      BY <1>1, <1>2 DEF Inv, InOrder, Before
    <2>3. j # i => e.no < rows[k].no
      BY <1>1, <1>3, <1>4, <2>1, <2>2 DEF Listed, Ordered
    <2>4. rows[k] \in Event
      BY <1>1
    <2>5. rows[k].no \in Nat /\ e.no \in Nat
      BY <1>2, <2>4, SizeAssumption DEF Event
    <2>6. QED
      BY <1>3, <1>4, <2>2, <2>3, <2>5
  <1>5. \A j \in i .. Len(all_events), k \in 1 .. Len(rows) : rows[k] # all_events[j]
    BY <1>4
  <1>6. rows' = Append(rows, all_events[i])
    BY <1>1, <1>3
  <1>7. QED
    BY <1>1, <1>5, <1>6 DEF TheLog!Write

\* Every step of the worker is a step of the log, or none.
LEMMA NextRefines == Inv /\ Listed /\ [Next]_vars => [TheLog!Next]_TheLog!vars
  <1> SUFFICES ASSUME Inv, Listed, [Next]_vars PROVE [TheLog!Next]_TheLog!vars
    OBVIOUS
  <1> DEFINE told == {w \in Waiters : waiter[w] = "ok"}
  <1>1. CASE HandleEvent \/ SigReqEvent
    BY <1>1, HandlePublishes DEF TheLog!Next
  <1>2. CASE Write
    <2>1. CASE rows' # rows
      BY <1>2, <2>1, WriteRecords DEF TheLog!Next
    <2>2. CASE rows' = rows
      BY <1>2, <2>2 DEF Write, TheLog!vars, actorVars
    <2>3. QED
      BY <2>1, <2>2
  <1>3. CASE SaverEnds
    <2>1. saver = "idle" /\ saver' = "done" /\ UNCHANGED <<all_events, rows>>
      BY <1>3 DEF SaverEnds, actorVars
    <2>2. QED
      BY <2>1 DEF TheLog!Next, TheLog!Complete
  <1>4. ASSUME UNCHANGED <<all_events, rows>>, (saver' = "done") = (saver = "done"),
               \A w \in Waiters : (waiter'[w] = "ok") = (waiter[w] = "ok")
        PROVE  UNCHANGED TheLog!vars
    BY <1>4 DEF TheLog!vars
  <1>5. waiter \in [Waiters -> WaiterStates]
    BY DEF Inv, TypeOK
  <1>6. CASE TakeChunk \/ Connected \/ NotConnected \/ CopyIn
    BY <1>4, <1>6 DEF TakeChunk, Connected, NotConnected, CopyIn, actorVars, saverVars
  <1>7. CASE ShutdownStops \/ Idle
    <2>1. UNCHANGED <<all_events, saverVars>>
          /\ waiter' = [w \in Waiters |-> IF waiter[w] = "waiting" THEN "closed" ELSE waiter[w]]
      BY <1>7 DEF ShutdownStops, Idle, TurnOff
    <2>2. QED
      BY <1>4, <2>1 DEF saverVars
  <1>8. ASSUME NEW w \in Waiters, WaitFinish(w) \/ WaiterLeaves(w) PROVE UNCHANGED TheLog!vars
    <2>1. /\ UNCHANGED <<all_events, saverVars>> /\ waiter[w] # "ok"
          /\ \E x \in {"waiting", "left"} : waiter' = [waiter EXCEPT ![w] = x]
      BY <1>8 DEF WaitFinish, WaiterLeaves, actorVars
    <2>2. \A v \in Waiters : (waiter'[v] = "ok") = (waiter[v] = "ok")
      BY <1>5, <2>1
    <2>3. QED
      BY <1>4, <2>1, <2>2 DEF saverVars
  <1>9. CASE UNCHANGED <<all_events, rows, saver, waiter>>
    BY <1>4, <1>9
  <1>10. Next => \/ HandleEvent \/ SigReqEvent \/ Write \/ SaverEnds
                 \/ TakeChunk \/ Connected \/ NotConnected \/ CopyIn \/ ShutdownStops \/ Idle
                 \/ \E w \in Waiters : WaitFinish(w) \/ WaiterLeaves(w)
                 \/ UNCHANGED <<all_events, rows, saver, waiter>>
    BY DEF Next, Work, Run, Client, Save, ShutdownTimeout, Emit, RunFinish, RunAborts, CommandsEnd,
           StreamFinished, SubscribeEvents, Leave, StopFlow, SystemShutdown, actorVars, saverVars
  <1>11. QED
    BY <1>1, <1>2, <1>3, <1>6, <1>7, <1>8, <1>9, <1>10 DEF vars, actorVars, saverVars

----------------------------------------------------------------------------
(* Theorems *)

\* The invariant of the actor, its stream and save_to_db.
THEOREM InvHolds == Spec => []Inv
  <1>1. Inv /\ [Next]_vars => Inv'
    BY NextTypeOK, NextBookkeeping, NextSubscribers, NextFinishClosesTx, NextInOrder DEF Inv
  <1>2. QED
    BY InitInv, <1>1, PTL DEF Spec

\* The state of the actor and of save_to_db is type correct.
THEOREM TypeCorrect == Spec => []TypeOK
  <1>1. Inv => TypeOK
    BY DEF Inv
  <1>2. QED
    BY InvHolds, <1>1, PTL

\* Each subscriber is sent all events of the run in their order, whenever it
\* subscribes: SubscribeEvents replays, StreamHandler::handle goes on.
THEOREM SubscribersSeeTheRunHolds == Spec => []SubscribersSeeTheRun
  <1>1. Inv => SubscribersSeeTheRun
    BY DEF Inv
  <1>2. QED
    BY InvHolds, <1>1, PTL

\* save_to_db writes the events in order and nothing after FlowFinish, whoever
\* goes on to send and whatever fails.
THEOREM FinishIsLastRowHolds == Spec => []FinishIsLastRow
  <1>1. Inv => FinishIsLastRow
    <2> SUFFICES ASSUME Inv, NEW i \in 1 .. Len(rows), NEW j \in 1 .. Len(rows), i < j
                 PROVE  rows[i].no < rows[j].no /\ rows[i].kind # "finish"
      BY DEF FinishIsLastRow
    <2>1. rows[i].no < rows[j].no
      BY DEF Inv, InOrder, Ordered
    <2>2. Len(rows) \in Nat /\ i # Len(rows)
      BY DEF Inv, TypeOK
    <2>3. rows[i].kind # "finish"
      BY <2>2 DEF Inv, FinishClosesTx, LastOf
    <2>4. QED
      BY <2>1, <2>3
  <1>2. QED
    BY InvHolds, <1>1, PTL

\* What get_flow_output reads after WaitFinish was answered does not change.
THEOREM ResultStaysFinal == Spec => ResultIsFinal
  <1>1. Inv /\ [Next]_vars =>
            [(\E w \in Waiters : waiter[w] = "ok") => rows' = rows /\ copied' = copied]_vars
    <2> SUFFICES ASSUME Inv, [Next]_vars, NEW w \in Waiters, waiter[w] = "ok"
                 PROVE  rows' = rows /\ copied' = copied
      OBVIOUS
    <2>1. saver = "done"
      BY DEF Inv, Bookkeeping
    <2>2. ~Write /\ ~CopyIn
      BY <2>1 DEF Write, CopyIn
    <2>3. QED
      BY <2>2 DEF Next, Work, Run, Client, Save, ShutdownStops, ShutdownTimeout, Idle, TurnOff,
         Emit, RunFinish, RunAborts, CommandsEnd, HandleEvent, SigReqEvent, StreamFinished,
         SubscribeEvents, Leave, WaitFinish, WaiterLeaves, StopFlow, SystemShutdown,
         TakeChunk, Connected, NotConnected, SaverEnds, vars, runVars, actorVars, subVars, saverVars
  <1>2. QED
    BY InvHolds, <1>1, PTL DEF Spec, ResultIsFinal

\* The list of the actor, the stream and what save_to_db has got agree.
THEOREM ListedHolds == Spec => []Listed
  <1>1. Init => Listed
    BY DEF Init, Listed, Ordered, Before, Old, From
  <1>2. QED
    BY <1>1, NextListed, InvHolds, PTL DEF Spec

\* FlowRunWorker keeps the record that RunLog promises: rows are published events in
\* the order of their publication, and whoever waits is answered when nothing more is
\* written.
THEOREM RunLogIsImplemented == Spec => ImplementsRunLog
  <1>1. Init => TheLog!Init
    BY DEF Init, TheLog!Init
  <1>2. Inv /\ Listed /\ [Next]_vars => [TheLog!Next]_TheLog!vars
    BY NextRefines
  <1>3. QED
    BY <1>1, <1>2, InvHolds, ListedHolds, PTL DEF Spec, ImplementsRunLog, TheLog!Spec
=============================================================================
