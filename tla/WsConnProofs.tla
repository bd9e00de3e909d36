---------------------------- MODULE WsConnProofs ----------------------------
(***************************************************************************)
(* What is proved of WsConn, for any number of sessions, runs, requests    *)
(* and names of workers.                                                   *)
(***************************************************************************)
EXTENDS WsConn, SequenceLemmas

-----------------------------------------------------------------------------
(* The steps of a session *)

\* The streams are numbered, and each has its channel.
LEMMA StreamFacts ==
  ASSUME TypeOK
  PROVE  /\ Len(streams) \in Nat /\ Streams = 1..Len(streams) /\ Streams = 1..Len(channel)
         /\ \A s \in Streams :
              /\ s \in Nat /\ streams[s].session \in Clients /\ streams[s].since \in Nat
              /\ channel[s] \in Seq(Nat)
<1>1. /\ streams \in Seq([session : Clients, since : Nat]) /\ channel \in Seq(Seq(Nat))
      /\ Len(channel) = Len(streams)
  BY DEF TypeOK
<1>2. Len(streams) \in Nat /\ Streams = 1..Len(streams)
  BY <1>1 DEF Streams
<1>3. /\ \A s \in 1..Len(streams) : streams[s] \in [session : Clients, since : Nat]
      /\ \A s \in 1..Len(channel) : channel[s] \in Seq(Nat)
  <2> DEFINE E == [session : Clients, since : Nat]
             F == Seq(Nat)
  <2>1. streams \in Seq(E) /\ channel \in Seq(F)
    BY <1>1
  <2> HIDE DEF E, F
  <2>2. (\A s \in 1..Len(streams) : streams[s] \in E) /\ \A s \in 1..Len(channel) : channel[s] \in F
    BY <2>1
  <2> QED
    BY <2>2 DEF E, F
<1> QED
  BY <1>1, <1>2, <1>3

\* A message is a response or an event of one stream.
LEMMA MessageFacts ==
  ASSUME NEW id \in Nat, NEW s \in Nat
  PROVE  /\ Response(id, s) \in Message /\ Response(id, s) \in Responses
         /\ EventOf(s, id) \in Message /\ EventOf(s, id) \notin Responses
         /\ EventOf(s, id) \in EventsOf(s)
         /\ \A x : Response(id, s) \notin EventsOf(x) /\ (x # s => EventOf(s, id) \notin EventsOf(x))
         /\ Response(id, s).type = "response" /\ Response(id, s).id = id /\ Response(id, s).stream = s
         /\ EventOf(s, id).type = "event" /\ EventOf(s, id).id = id /\ EventOf(s, id).stream = s
  BY DEF Response, EventOf, Message, Responses, EventsOf

\* What Respond does to the messages of one session.
LEMMA RespondFacts ==
  ASSUME TypeOK, NEW c \in Clients, NEW id \in Nat, NEW s \in Nat, Respond(c, id, s)
  PROVE  /\ out' \in [Clients -> Seq(Message)] /\ out'[c] = Append(out[c], Response(id, s))
         /\ \A q \in Clients : q # c => out'[q] = out[q]
<1>1. out \in [Clients -> Seq(Message)]
  BY DEF TypeOK
<1>2. out' = [out EXCEPT ![c] = Append(out[c], Response(id, s))]
  BY DEF Respond
<1>3. out[c] \in Seq(Message) /\ Response(id, s) \in Message
  BY <1>1, MessageFacts
<1>4. Append(out[c], Response(id, s)) \in Seq(Message)
  BY <1>3, AppendFacts
<1> QED
  BY <1>1, <1>2, <1>4

\* A request is taken: it is refused, or the session waits for its answer.
LEMMA HandleFacts ==
  ASSUME TypeOK, NEW c \in Clients, Handle(c)
  PROVE  /\ conn[c] = "open" /\ doing[c] = "none" /\ inbox[c] # <<>>
         /\ inbox[c] \in Seq(Request) /\ Head(inbox[c]).id \in Nat
         /\ inbox' = [inbox EXCEPT ![c] = Tail(inbox[c])]
         /\ current' = [current EXCEPT ![c] = Head(inbox[c]).id]
         /\ \E d \in {"none", "token", "auth", "find", "run"} :
              /\ doing' = [doing EXCEPT ![c] = d]
              /\ d = "none" => Respond(c, Head(inbox[c]).id, 0)
              /\ d # "none" => out' = out
         /\ UNCHANGED <<conn, sent, tokens, workerVars, streamVars>>
<1>1. inbox[c] \in Seq(Request)
  BY DEF TypeOK
<1>2. conn[c] = "open" /\ doing[c] = "none" /\ inbox[c] # <<>>
  BY DEF Handle
<1>3. Head(inbox[c]) \in Request
  BY <1>1, <1>2, TailFacts
<1> DEFINE kind == Head(inbox[c]).kind
           refused == kind = "invalid" \/ (kind = "sig" /\ c \notin tokens)
           d == CASE kind = "auth" -> "auth"
                  [] kind = "run with token" -> "token"
                  [] kind = "run" -> "run"
                  [] refused -> "none"
                  [] OTHER -> "find"
<1>4. kind \in Kinds /\ Head(inbox[c]).id \in Nat
  BY <1>3 DEF Request
<1>5. d \in {"none", "token", "auth", "find", "run"} /\ (d = "none" <=> refused)
  <2> HIDE DEF kind
  <2> QED
    BY <1>4 DEF Kinds
<1>6. /\ doing' = [doing EXCEPT ![c] = d]
      /\ IF refused THEN Respond(c, Head(inbox[c]).id, 0) ELSE UNCHANGED out
      /\ inbox' = [inbox EXCEPT ![c] = Tail(inbox[c])]
      /\ current' = [current EXCEPT ![c] = Head(inbox[c]).id]
      /\ UNCHANGED <<conn, sent, tokens, workerVars, streamVars>>
  BY DEF Handle
<1> HIDE DEF d, refused, kind
<1> QED
  BY <1>1, <1>2, <1>4, <1>5, <1>6

\* The steps that answer a request which the session waits for.
Answers(c, s) ==
  /\ conn[c] = "open" /\ doing[c] # "none" /\ doing' = [doing EXCEPT ![c] = "none"]
  /\ Respond(c, current[c], s)
  /\ UNCHANGED <<conn, inbox, current, sent>>

\* ws_authenticate answers, or a subscription goes on.
LEMMA AuthenticatedFacts ==
  ASSUME NEW c \in Clients, NEW ok \in BOOLEAN, Authenticated(c, ok)
  PROVE  /\ \/ Answers(c, 0)
            \/ /\ conn[c] = "open" /\ doing[c] = "token" /\ doing' = [doing EXCEPT ![c] = "run"]
               /\ UNCHANGED <<conn, inbox, current, sent, out>>
         /\ tokens' \in {tokens, tokens \cup {c}} /\ UNCHANGED <<workerVars, streamVars>>
<1>1. CASE ok /\ doing[c] = "token"
  BY <1>1 DEF Authenticated
<1>2. CASE ~ (ok /\ doing[c] = "token")
  BY <1>2 DEF Authenticated, Answers
<1> QED
  BY <1>1, <1>2

-----------------------------------------------------------------------------
(* Type correctness *)

\* The book is looked up.
LEMMA GetOrStartTypes ==
  ASSUME TypeOK, NEW h \in Clients \cup Runs, GetOrStart(h)
  PROVE  /\ alive' \subseteq Workers /\ book' \in Workers \cup {0}
         /\ holds' \in [Clients \cup Runs -> Workers \cup {0}] /\ subs' \in [Workers -> SUBSET Nat]
<1>1. /\ alive \subseteq Workers /\ book \in Workers \cup {0}
      /\ holds \in [Clients \cup Runs -> Workers \cup {0}] /\ subs \in [Workers -> SUBSET Nat]
  BY DEF TypeOK
<1>2. CASE book \in alive
  BY <1>1, <1>2 DEF GetOrStart
<1>3. CASE book \notin alive
  <2>1. PICK w \in Workers \ alive :
          /\ alive' = alive \cup {w} /\ book' = w
          /\ holds' = [holds EXCEPT ![h] = w] /\ subs' = [subs EXCEPT ![w] = {}]
    BY <1>3 DEF GetOrStart
  <2> QED
    BY <1>1, <2>1
<1> QED
  BY <1>2, <1>3

\* The types of what a session has.
SessionTypes ==
  /\ conn \in [Clients -> {"open", "closed"}] /\ inbox \in [Clients -> Seq(Request)]
  /\ doing \in [Clients -> {"none", "token", "auth", "find", "subscribe", "run"}]
  /\ current \in [Clients -> Nat] /\ sent \in [Clients -> Nat] /\ tokens \subseteq Clients
  /\ out \in [Clients -> Seq(Message)]

\* The types of the rest.
WorkerTypes ==
  /\ alive \subseteq Workers /\ book \in Workers \cup {0}
  /\ holds \in [Clients \cup Runs -> Workers \cup {0}] /\ subs \in [Workers -> SUBSET Nat]
StreamTypes ==
  /\ streams \in Seq([session : Clients, since : Nat])
  /\ channel \in Seq(Seq(Nat)) /\ Len(channel) = Len(streams) /\ sigreqs \in Nat

\* The steps of a session keep its types.
LEMMA SessionTypesNext ==
  ASSUME TypeOK, Next
  PROVE  SessionTypes'
<1>1. SessionTypes
  BY DEF TypeOK, SessionTypes
<1>2. ASSUME NEW c \in Clients, Handle(c) PROVE SessionTypes'
  <2>1. Tail(inbox[c]) \in Seq(Request) /\ Head(inbox[c]).id \in Nat
    BY <1>2, HandleFacts, TailFacts
  <2>2. out' \in [Clients -> Seq(Message)]
    BY <1>1, <1>2, <2>1, HandleFacts, RespondFacts DEF SessionTypes
  <2>3. PICK d \in {"none", "token", "auth", "find", "run"} : doing' = [doing EXCEPT ![c] = d]
    BY <1>2, HandleFacts
  <2>4. /\ inbox' = [inbox EXCEPT ![c] = Tail(inbox[c])]
        /\ current' = [current EXCEPT ![c] = Head(inbox[c]).id]
        /\ UNCHANGED <<conn, sent, tokens>>
    BY <1>2, HandleFacts
  <2> QED
    BY <1>1, <2>1, <2>2, <2>3, <2>4 DEF SessionTypes
<1>3. ASSUME NEW c \in Clients, NEW s \in Nat, Answers(c, s), tokens' \subseteq Clients
      PROVE  SessionTypes'
  <2>1. current[c] \in Nat
    BY <1>1 DEF SessionTypes
  <2>2. out' \in [Clients -> Seq(Message)]
    BY <1>3, <2>1, RespondFacts DEF Answers
  <2> QED
    BY <1>1, <1>3, <2>2 DEF SessionTypes, Answers
<1>4. ASSUME NEW c \in Clients, NEW ok \in BOOLEAN, Authenticated(c, ok) PROVE SessionTypes'
  <2>1. tokens' \subseteq Clients
    BY <1>1, <1>4, AuthenticatedFacts DEF SessionTypes
  <2>2. CASE Answers(c, 0)
    BY <1>3, <2>1, <2>2
  <2>3. CASE doing' = [doing EXCEPT ![c] = "run"] /\ UNCHANGED <<conn, inbox, current, sent, out>>
    BY <1>1, <2>1, <2>3 DEF SessionTypes
  <2> QED
    BY <1>4, <2>2, <2>3, AuthenticatedFacts
<1>5. ASSUME NEW c \in Clients, RunSubscribed(c) PROVE SessionTypes'
  <2>1. Answers(c, 0) /\ tokens' = tokens
    BY <1>5 DEF RunSubscribed, Answers
  <2> QED
    BY <1>1, <1>3, <2>1 DEF SessionTypes
<1>6. ASSUME NEW c \in Clients, SubscribeSigReq(c) PROVE SessionTypes'
  <2>1. Answers(c, Len(streams) + 1) /\ tokens' = tokens
    BY <1>6 DEF SubscribeSigReq, Answers
  <2>2. Len(streams) + 1 \in Nat
    BY DEF TypeOK
  <2> QED
    BY <1>1, <1>3, <2>1, <2>2 DEF SessionTypes
<1>7. ASSUME NEW c \in Clients, GetUserWorker(c) \/ Close(c) PROVE SessionTypes'
  BY <1>1, <1>7 DEF SessionTypes, GetUserWorker, Close
<1>8. ASSUME NEW c \in Clients, NEW kind \in Kinds, Receive(c, kind) PROVE SessionTypes'
  <2> DEFINE e == [id |-> sent[c] + 1, kind |-> kind]
  <2>1. e \in Request /\ inbox[c] \in Seq(Request)
    <3>1. sent[c] + 1 \in Nat /\ inbox[c] \in Seq(Request)
      BY <1>1 DEF SessionTypes
    <3> QED
      BY <3>1 DEF Request
  <2>2. Append(inbox[c], e) \in Seq(Request)
    BY <2>1, AppendFacts
  <2>3. /\ sent' = [sent EXCEPT ![c] = @ + 1] /\ inbox' = [inbox EXCEPT ![c] = Append(inbox[c], e)]
        /\ UNCHANGED <<conn, doing, current, tokens, out>>
    BY <1>8 DEF Receive
  <2> HIDE DEF e
  <2> QED
    BY <1>1, <2>2, <2>3 DEF SessionTypes
<1>9. ASSUME NEW s \in Streams, Forward(s) PROVE SessionTypes'
  <2> DEFINE c == streams[s].session
             e == EventOf(s, Head(channel[s]))
  <2>1. /\ out' = [out EXCEPT ![c] = Append(out[c], e)]
        /\ UNCHANGED <<conn, inbox, doing, current, sent, tokens>> /\ channel[s] # <<>>
    BY <1>9 DEF Forward
  <2>2. s \in Nat /\ c \in Clients /\ channel[s] \in Seq(Nat)
    BY StreamFacts
  <2>3. Head(channel[s]) \in Nat
    BY <2>1, <2>2, TailFacts
  <2>4. e \in Message
    BY <2>2, <2>3, MessageFacts
  <2> HIDE DEF c, e
  <2>5. out[c] \in Seq(Message)
    BY <1>1, <2>2 DEF SessionTypes
  <2>6. Append(out[c], e) \in Seq(Message)
    BY <2>4, <2>5, AppendFacts
  <2> QED
    BY <1>1, <2>1, <2>6 DEF SessionTypes
<1>10. ASSUME \/ \E r \in Runs : RunStarts(r) \/ RunEnds(r) \/ SignatureRequest(r)
              \/ \E w \in Workers : Stopping(w)
       PROVE  SessionTypes'
  <2>1. UNCHANGED sessionVars
    BY <1>10 DEF RunStarts, RunEnds, SignatureRequest, Stopping
  <2> QED
    BY <1>1, <2>1 DEF SessionTypes, sessionVars
<1> QED
  BY <1>2, <1>4, <1>5, <1>6, <1>7, <1>8, <1>9, <1>10 DEF Next, Session

\* The types of the worker and the address book.
LEMMA WorkerTypesNext ==
  ASSUME TypeOK, Next
  PROVE  WorkerTypes'
<1>1. WorkerTypes
  BY DEF TypeOK, WorkerTypes
<1>2. ASSUME NEW c \in Clients, GetUserWorker(c) PROVE WorkerTypes'
  BY <1>2, GetOrStartTypes DEF GetUserWorker, WorkerTypes
<1>3. ASSUME NEW r \in Runs, RunStarts(r) PROVE WorkerTypes'
  BY <1>3, GetOrStartTypes DEF RunStarts, WorkerTypes
<1>4. ASSUME NEW c \in Clients, SubscribeSigReq(c) PROVE WorkerTypes'
  <2>1. Len(streams) + 1 \in Nat
    BY StreamFacts
  <2> QED
    BY <1>1, <1>4, <2>1 DEF SubscribeSigReq, WorkerTypes
<1>5. ASSUME NEW c \in Clients, Close(c) PROVE WorkerTypes'
  BY <1>1, <1>5 DEF Close, WorkerTypes
<1>6. ASSUME NEW r \in Runs, RunEnds(r) \/ SignatureRequest(r) PROVE WorkerTypes'
  BY <1>1, <1>6 DEF RunEnds, SignatureRequest, WorkerTypes
<1>7. ASSUME NEW w \in Workers, Stopping(w) PROVE WorkerTypes'
  BY <1>1, <1>7 DEF Stopping, WorkerTypes
<1>8. ASSUME \/ \E c \in Clients : \/ Handle(c) \/ RunSubscribed(c)
                                  \/ \E ok \in BOOLEAN : Authenticated(c, ok)
                                  \/ \E kind \in Kinds : Receive(c, kind)
             \/ \E s \in Streams : Forward(s)
      PROVE  WorkerTypes'
  <2>1. UNCHANGED workerVars
    BY <1>8 DEF Handle, RunSubscribed, Authenticated, Receive, Forward
  <2> QED
    BY <1>1, <2>1 DEF WorkerTypes, workerVars
<1> QED
  BY <1>2, <1>3, <1>4, <1>5, <1>6, <1>7, <1>8 DEF Next, Session

\* What a signature request does to the channels.
LEMMA SignatureRequestFacts ==
  ASSUME TypeOK, NEW r \in Runs, SignatureRequest(r)
  PROVE  /\ holds[r] # 0 /\ sigreqs' = sigreqs + 1 /\ UNCHANGED streams
         /\ channel' \in Seq(Seq(Nat)) /\ Len(channel') = Len(streams)
         /\ \A s \in Streams :
              channel'[s] = IF s \in subs[holds[r]] /\ Listens(s)
                              THEN Append(channel[s], sigreqs + 1) ELSE channel[s]
<1> DEFINE New(s) == IF s \in subs[holds[r]] /\ Listens(s)
                       THEN Append(channel[s], sigreqs + 1) ELSE channel[s]
<1>1. /\ holds[r] # 0 /\ sigreqs' = sigreqs + 1 /\ UNCHANGED streams
      /\ channel' = [s \in Streams |-> New(s)]
  BY DEF SignatureRequest
<1>2. sigreqs + 1 \in Nat
  BY DEF TypeOK
<1>3. \A s \in Streams : New(s) \in Seq(Nat)
  BY <1>2, StreamFacts, AppendFacts
<1> HIDE DEF New
<1>4. channel' \in [1..Len(streams) -> Seq(Nat)] /\ Len(streams) \in Nat
  BY <1>1, <1>3, StreamFacts
<1>5. channel' \in Seq(Seq(Nat)) /\ Len(channel') = Len(streams)
  BY <1>4
<1> QED
  BY <1>1, <1>5 DEF New

\* What a new stream does.
LEMMA SubscribeFacts ==
  ASSUME TypeOK, NEW c \in Clients, SubscribeSigReq(c)
  PROVE  /\ streams' \in Seq([session : Clients, since : Nat]) /\ channel' \in Seq(Seq(Nat))
         /\ Len(streams') = Len(streams) + 1 /\ Len(channel') = Len(streams) + 1
         /\ Streams' = Streams \cup {Len(streams) + 1} /\ Len(streams) + 1 \notin Streams
         /\ streams'[Len(streams) + 1].session = c /\ streams'[Len(streams) + 1].since = sigreqs
         /\ channel'[Len(streams) + 1] = <<>>
         /\ \A s \in Streams : streams'[s] = streams[s] /\ channel'[s] = channel[s]
<1>1. /\ streams \in Seq([session : Clients, since : Nat]) /\ channel \in Seq(Seq(Nat))
      /\ Len(channel) = Len(streams) /\ sigreqs \in Nat
  BY DEF TypeOK
<1> DEFINE e == [session |-> c, since |-> sigreqs]
<1>2. e \in [session : Clients, since : Nat] /\ e.session = c /\ e.since = sigreqs
  BY <1>1
<1>3. streams' = Append(streams, e) /\ channel' = Append(channel, <<>>)
  BY DEF SubscribeSigReq
<1>4. <<>> \in Seq(Nat)
  BY EmptyFacts
<1> HIDE DEF e
<1>5. /\ streams' \in Seq([session : Clients, since : Nat]) /\ Len(streams) \in Nat
      /\ Len(streams') = Len(streams) + 1
      /\ (\A s \in 1..Len(streams) : streams'[s] = streams[s]) /\ streams'[Len(streams) + 1] = e
  BY <1>1, <1>2, <1>3, AppendFacts
<1>6. /\ channel' \in Seq(Seq(Nat)) /\ Len(channel') = Len(streams) + 1
      /\ (\A s \in 1..Len(streams) : channel'[s] = channel[s]) /\ channel'[Len(streams) + 1] = <<>>
  BY <1>1, <1>3, <1>4, AppendFacts
<1>7. Streams = 1..Len(streams) /\ Streams' = 1..Len(streams')
  BY <1>1, <1>5 DEF Streams
<1>8. Streams' = Streams \cup {Len(streams) + 1} /\ Len(streams) + 1 \notin Streams
  BY <1>5, <1>7
<1> QED
  BY <1>2, <1>5, <1>6, <1>7, <1>8

\* What is forwarded.
LEMMA ForwardFacts ==
  ASSUME TypeOK, NEW s \in Streams, Forward(s)
  PROVE  LET c == streams[s].session
             n == Head(channel[s])
         IN  /\ c \in Clients /\ conn[c] = "open" /\ s \in Nat /\ n \in Nat
             /\ channel[s] \in Seq(Nat) /\ channel[s] # <<>>
             /\ out'[c] = Append(out[c], EventOf(s, n)) /\ out[c] \in Seq(Message)
             /\ \A q \in Clients : q # c => out'[q] = out[q]
             /\ channel' \in Seq(Seq(Nat)) /\ Len(channel') = Len(channel)
             /\ channel'[s] = Tail(channel[s])
             /\ \A q \in Streams : q # s => channel'[q] = channel[q]
             /\ UNCHANGED <<conn, inbox, doing, current, sent, tokens, workerVars, streams, sigreqs>>
<1> DEFINE c == streams[s].session
           n == Head(channel[s])
           e == EventOf(s, n)
           t == Tail(channel[s])
<1>1. /\ out' = [out EXCEPT ![c] = Append(out[c], e)] /\ channel' = [channel EXCEPT ![s] = t]
      /\ conn[c] = "open" /\ channel[s] # <<>>
      /\ UNCHANGED <<conn, inbox, doing, current, sent, tokens, workerVars, streams, sigreqs>>
  BY DEF Forward
<1>2. s \in Nat /\ c \in Clients /\ channel[s] \in Seq(Nat) /\ Streams = 1..Len(channel)
  BY StreamFacts
<1>3. n \in Nat /\ t \in Seq(Nat)
  BY <1>1, <1>2, TailFacts
<1>4. out \in [Clients -> Seq(Message)] /\ channel \in Seq(Seq(Nat))
  BY DEF TypeOK
<1> HIDE DEF c, n, e, t
<1>5. out'[c] = Append(out[c], e) /\ out[c] \in Seq(Message) /\ \A q \in Clients : q # c => out'[q] = out[q]
  BY <1>1, <1>2, <1>4
<1>6. /\ channel' \in Seq(Seq(Nat)) /\ Len(channel') = Len(channel) /\ channel'[s] = t
      /\ \A q \in Streams : q # s => channel'[q] = channel[q]
  BY <1>1, <1>2, <1>3, <1>4
<1> QED
  BY <1>1, <1>2, <1>3, <1>5, <1>6 DEF c, n, e, t

\* The types of the streams.
LEMMA StreamTypesNext ==
  ASSUME TypeOK, Next
  PROVE  StreamTypes'
<1>1. StreamTypes
  BY DEF TypeOK, StreamTypes
<1>2. ASSUME NEW c \in Clients, SubscribeSigReq(c) PROVE StreamTypes'
  <2>1. sigreqs' = sigreqs
    BY <1>2 DEF SubscribeSigReq
  <2> QED
    BY <1>1, <1>2, <2>1, SubscribeFacts DEF StreamTypes
<1>3. ASSUME NEW s \in Streams, Forward(s) PROVE StreamTypes'
  BY <1>1, <1>3, ForwardFacts DEF StreamTypes
<1>4. ASSUME NEW r \in Runs, SignatureRequest(r) PROVE StreamTypes'
  BY <1>1, <1>4, SignatureRequestFacts DEF StreamTypes
<1>5. ASSUME \/ \E c \in Clients : \/ Handle(c) \/ RunSubscribed(c) \/ GetUserWorker(c) \/ Close(c)
                                  \/ \E ok \in BOOLEAN : Authenticated(c, ok)
                                  \/ \E kind \in Kinds : Receive(c, kind)
             \/ \E r \in Runs : RunStarts(r) \/ RunEnds(r)
             \/ \E w \in Workers : Stopping(w)
      PROVE  StreamTypes'
  <2>1. UNCHANGED streamVars
    BY <1>5 DEF Handle, RunSubscribed, GetUserWorker, Close, Authenticated, Receive, RunStarts,
                RunEnds, Stopping
  <2> QED
    BY <1>1, <2>1 DEF StreamTypes, streamVars
<1> QED
  BY <1>2, <1>3, <1>4, <1>5 DEF Next, Session

\* Every variable keeps its type.
LEMMA NextTypeOK ==
  ASSUME TypeOK, Next
  PROVE  TypeOK'
  BY SessionTypesNext, WorkerTypesNext, StreamTypesNext
     DEF TypeOK, SessionTypes, WorkerTypes, StreamTypes

-----------------------------------------------------------------------------
(* The numbers of requests and answers *)

\* The messages of a session, and those of them that are answers.
LEMMA OutFacts ==
  ASSUME TypeOK, NEW c \in Clients
  PROVE  /\ out[c] \in Seq(Message) /\ Len(out[c]) \in Nat
         /\ inbox[c] \in Seq(Request) /\ Len(inbox[c]) \in Nat
         /\ Answered(c) \in Seq(Message) /\ Len(Answered(c)) \in Nat
         /\ Pending(c) \in {0, 1} /\ sent[c] \in Nat /\ current[c] \in Nat
<1>1. out[c] \in Seq(Message) /\ inbox[c] \in Seq(Request) /\ sent[c] \in Nat /\ current[c] \in Nat
  BY DEF TypeOK
<1>2. Answered(c) \in Seq(Message)
  <2>1. PICK h : Selects(h, Keep(out[c], Responses), Message, out[c], Responses, Len(out[c]))
    BY <1>1, KeepFacts
  <2> QED
    BY <2>1 DEF Selects, Answered
<1>3. Len(out[c]) \in Nat /\ Len(inbox[c]) \in Nat /\ Len(Answered(c)) \in Nat
  BY <1>1, <1>2
<1> QED
  BY <1>1, <1>2, <1>3 DEF Pending

\* What does not change for a session.
LEMMA NumberedFrame ==
  ASSUME NEW c \in Clients, NumberedFor(c), out'[c] = out[c],
         conn'[c] = conn[c], doing'[c] = doing[c], current'[c] = current[c], sent'[c] = sent[c],
         inbox'[c] = inbox[c]
  PROVE  NumberedFor(c)'
<1>1. Answered(c)' = Answered(c) /\ Pending(c)' = Pending(c)
  BY DEF Answered, Pending
<1> QED
  BY <1>1 DEF NumberedFor

\* One more answer.
LEMMA AnsweredMore ==
  ASSUME TypeOK, NEW c \in Clients, NumberedFor(c), NEW s \in Nat,
         out'[c] = Append(out[c], Response(Len(Answered(c)) + 1, s))
  PROVE  /\ Len(Answered(c)') = Len(Answered(c)) + 1
         /\ \A i \in 1..Len(Answered(c)') : Answered(c)'[i].id = i
<1> DEFINE a == Answered(c)
           m == Response(Len(a) + 1, s)
<1>1. out[c] \in Seq(Message) /\ a \in Seq(Message) /\ Len(a) \in Nat
  BY OutFacts
<1>2. m \in Message /\ m \in Responses /\ m.id = Len(a) + 1
  BY <1>1, MessageFacts
<1>3. \A i \in 1..Len(a) : a[i].id = i
  BY DEF NumberedFor
<1> HIDE DEF m
<1>4. Answered(c)' = Append(a, m)
  <2>1. Keep(Append(out[c], m), Responses) = Append(Keep(out[c], Responses), m)
    BY <1>1, <1>2, KeepAppend
  <2> QED
    BY <2>1 DEF Answered, m, Responses
<1> HIDE DEF a
<1>5. /\ Len(Append(a, m)) = Len(a) + 1 /\ Append(a, m)[Len(a) + 1] = m
      /\ \A i \in 1..Len(a) : Append(a, m)[i] = a[i]
  BY <1>1, <1>2, AppendFacts
<1>6. \A i \in 1..Len(Append(a, m)) : i \in 1..Len(a) \/ i = Len(a) + 1
  BY <1>1, <1>5
<1>7. \A i \in 1..Len(Append(a, m)) : Append(a, m)[i].id = i
  BY <1>2, <1>3, <1>5, <1>6
<1>8. Len(Answered(c)') = Len(a) + 1 /\ \A i \in 1..Len(Answered(c)') : Answered(c)'[i].id = i
  BY <1>4, <1>5, <1>7
<1> QED
  BY <1>8 DEF a

\* The request that is handled is answered: it has the next number.
LEMMA AnswersNumbered ==
  ASSUME TypeOK, NEW c \in Clients, NumberedFor(c), NEW s \in Nat, Answers(c, s)
  PROVE  NumberedFor(c)'
<1>1. doing \in [Clients -> {"none", "token", "auth", "find", "subscribe", "run"}]
  BY DEF TypeOK
<1>2. /\ conn[c] = "open" /\ doing[c] # "none" /\ doing'[c] = "none"
      /\ Respond(c, current[c], s) /\ UNCHANGED <<conn, inbox, current, sent>>
  BY <1>1 DEF Answers
<1>3. /\ current[c] = Len(Answered(c)) + 1 /\ sent[c] = Len(Answered(c)) + Pending(c) + Len(inbox[c])
      /\ \A k \in 1..Len(inbox[c]) : inbox[c][k].id = Len(Answered(c)) + Pending(c) + k
      /\ Pending(c) = 1 /\ Pending(c)' = 0
  BY <1>2 DEF NumberedFor, Pending
<1>4. /\ Len(Answered(c)) \in Nat /\ Len(inbox[c]) \in Nat /\ current[c] \in Nat
  BY OutFacts
<1>5. out'[c] = Append(out[c], Response(Len(Answered(c)) + 1, s))
  BY <1>2, <1>3, <1>4, RespondFacts
<1>6. /\ Len(Answered(c)') = Len(Answered(c)) + 1
      /\ \A i \in 1..Len(Answered(c)') : Answered(c)'[i].id = i
  BY <1>5, AnsweredMore
<1>7. sent'[c] = Len(Answered(c)') + Pending(c)' + Len(inbox'[c])
  BY <1>2, <1>3, <1>4, <1>6
<1>8. \A k \in 1..Len(inbox'[c]) : inbox'[c][k].id = Len(Answered(c)') + Pending(c)' + k
  BY <1>2, <1>3, <1>4, <1>6
<1> QED
  BY <1>2, <1>6, <1>7, <1>8 DEF NumberedFor

\* The first request of the inbox has the next number.
LEMMA HandleNumbered ==
  ASSUME TypeOK, NEW c \in Clients, NumberedFor(c), Handle(c)
  PROVE  NumberedFor(c)'
<1>1. /\ doing \in [Clients -> {"none", "token", "auth", "find", "subscribe", "run"}]
      /\ inbox \in [Clients -> Seq(Request)] /\ current \in [Clients -> Nat]
  BY DEF TypeOK
<1>2. /\ conn[c] = "open" /\ doing[c] = "none" /\ inbox[c] # <<>>
      /\ inbox[c] \in Seq(Request) /\ Head(inbox[c]).id \in Nat
      /\ inbox'[c] = Tail(inbox[c]) /\ current'[c] = Head(inbox[c]).id
      /\ UNCHANGED <<conn, sent>>
  BY <1>1, HandleFacts
<1>3. /\ sent[c] = Len(Answered(c)) + Len(inbox[c]) /\ Pending(c) = 0
      /\ \A k \in 1..Len(inbox[c]) : inbox[c][k].id = Len(Answered(c)) + k
      /\ \A i \in 1..Len(Answered(c)) : Answered(c)[i].id = i
  <2>1. Len(Answered(c)) \in Nat /\ Len(inbox[c]) \in Nat
    BY OutFacts
  <2> QED
    BY <1>2, <2>1 DEF NumberedFor, Pending
<1>4. /\ Len(inbox[c]) \in Nat \ {0} /\ Len(inbox'[c]) = Len(inbox[c]) - 1 /\ Head(inbox[c]) = inbox[c][1]
      /\ \A i \in 1..Len(inbox[c]) - 1 : inbox'[c][i] = inbox[c][i + 1]
  BY <1>2, TailFacts
<1>5. Len(Answered(c)) \in Nat /\ Head(inbox[c]).id = Len(Answered(c)) + 1
  BY <1>3, <1>4, OutFacts
<1> DEFINE a == Len(Answered(c))
           n == Len(inbox'[c])
<1>6. sent'[c] = a + 1 + n /\ a \in Nat /\ n \in Nat
  <2> DEFINE k == Len(inbox[c])
  <2>1. sent'[c] = a + k /\ n = k - 1 /\ a \in Nat /\ k \in Nat \ {0}
    BY <1>2, <1>3, <1>4, <1>5
  <2> HIDE DEF a, n, k
  <2>2. a + k = a + 1 + n /\ n \in Nat
    BY <2>1
  <2> QED
    BY <2>1, <2>2
<1>7. \A k \in 1..Len(inbox'[c]) : inbox'[c][k].id = Len(Answered(c)) + 1 + k
  <2> SUFFICES ASSUME NEW k \in 1..Len(inbox'[c]) PROVE inbox'[c][k].id = Len(Answered(c)) + 1 + k
    OBVIOUS
  <2>1. k + 1 \in 1..Len(inbox[c]) /\ inbox'[c][k] = inbox[c][k + 1]
    BY <1>4
  <2> QED
    BY <1>3, <1>5, <2>1
<1>8. ASSUME doing'[c] = "none", Respond(c, Head(inbox[c]).id, 0) PROVE NumberedFor(c)'
  <2>1. out'[c] = Append(out[c], Response(Len(Answered(c)) + 1, 0))
    BY <1>2, <1>5, <1>8, RespondFacts
  <2>2. /\ Len(Answered(c)') = Len(Answered(c)) + 1
        /\ \A i \in 1..Len(Answered(c)') : Answered(c)'[i].id = i
    BY <2>1, AnsweredMore
  <2>3. Pending(c)' = 0
    BY <1>8 DEF Pending
  <2>4. sent'[c] = Len(Answered(c)') + Pending(c)' + Len(inbox'[c])
    BY <1>6, <2>2, <2>3
  <2>5. \A k \in 1..Len(inbox'[c]) : inbox'[c][k].id = Len(Answered(c)') + Pending(c)' + k
    BY <1>4, <1>5, <1>7, <2>2, <2>3
  <2> QED
    BY <1>8, <2>2, <2>4, <2>5 DEF NumberedFor
<1>9. ASSUME doing'[c] # "none", out' = out PROVE NumberedFor(c)'
  <2>1. Answered(c)' = Answered(c) /\ Pending(c)' = 1
    BY <1>9 DEF Answered, Pending
  <2>2. current'[c] = Len(Answered(c)') + 1
    BY <1>2, <1>5, <2>1
  <2>3. sent'[c] = Len(Answered(c)') + Pending(c)' + Len(inbox'[c])
    BY <1>6, <2>1
  <2>4. \A k \in 1..Len(inbox'[c]) : inbox'[c][k].id = Len(Answered(c)') + Pending(c)' + k
    BY <1>7, <2>1
  <2> QED
    BY <1>3, <2>1, <2>2, <2>3, <2>4 DEF NumberedFor
<1>10. \/ doing'[c] = "none" /\ Respond(c, Head(inbox[c]).id, 0)
       \/ doing'[c] # "none" /\ out' = out
  BY <1>1, HandleFacts
<1> QED
  BY <1>8, <1>9, <1>10

\* A request that is received has the number after all others.
LEMMA ReceiveNumbered ==
  ASSUME TypeOK, NEW c \in Clients, NumberedFor(c), NEW kind \in Kinds, Receive(c, kind)
  PROVE  NumberedFor(c)'
<1> DEFINE e == [id |-> sent[c] + 1, kind |-> kind]
<1>1. inbox \in [Clients -> Seq(Request)] /\ sent \in [Clients -> Nat]
  BY DEF TypeOK
<1>2. /\ inbox'[c] = Append(inbox[c], e) /\ sent'[c] = sent[c] + 1 /\ conn[c] = "open"
      /\ UNCHANGED <<conn, doing, current, out>>
  BY <1>1 DEF Receive
<1>3. e \in Request /\ e.id = sent[c] + 1
  BY <1>1 DEF Request
<1> HIDE DEF e
<1>4. /\ Len(inbox'[c]) = Len(inbox[c]) + 1 /\ inbox'[c][Len(inbox[c]) + 1] = e
      /\ Len(inbox[c]) \in Nat /\ \A k \in 1..Len(inbox[c]) : inbox'[c][k] = inbox[c][k]
  BY <1>1, <1>2, <1>3, AppendFacts
<1>5. Answered(c)' = Answered(c) /\ Pending(c)' = Pending(c)
  BY <1>2 DEF Answered, Pending
<1>6. Len(Answered(c)) \in Nat /\ Pending(c) \in {0, 1}
  BY OutFacts
<1>7. /\ doing[c] # "none" => current[c] = Len(Answered(c)) + 1
      /\ sent[c] = Len(Answered(c)) + Pending(c) + Len(inbox[c])
      /\ \A k \in 1..Len(inbox[c]) : inbox[c][k].id = Len(Answered(c)) + Pending(c) + k
      /\ \A i \in 1..Len(Answered(c)) : Answered(c)[i].id = i
  BY <1>2 DEF NumberedFor
<1>8. \A k \in 1..Len(inbox'[c]) : k \in 1..Len(inbox[c]) \/ k = Len(inbox[c]) + 1
  BY <1>4
<1> DEFINE a == Len(Answered(c))
           p == Pending(c)
           n == Len(inbox[c])
<1>9. a + p + n + 1 = a + p + (n + 1)
  <2>1. a \in Nat /\ p \in Nat /\ n \in Nat
    BY <1>4, <1>6
  <2> HIDE DEF a, p, n
  <2> QED
    BY <2>1
<1>10. \A k \in 1..Len(inbox'[c]) : inbox'[c][k].id = Len(Answered(c)) + Pending(c) + k
  BY <1>3, <1>4, <1>7, <1>8, <1>9
<1>11. sent'[c] = Len(Answered(c)) + Pending(c) + Len(inbox'[c])
  BY <1>2, <1>4, <1>7, <1>9
<1> QED
  BY <1>2, <1>5, <1>7, <1>10, <1>11 DEF NumberedFor

\* An event is no answer.
LEMMA ForwardNumbered ==
  ASSUME TypeOK, NEW s \in Streams, Forward(s), NEW c \in Clients, NumberedFor(c)
  PROVE  NumberedFor(c)'
<1>1. UNCHANGED <<conn, inbox, doing, current, sent>>
  BY DEF Forward
<1>2. CASE c # streams[s].session
  BY <1>1, <1>2, ForwardFacts, NumberedFrame
<1>3. CASE c = streams[s].session
  <2> DEFINE e == EventOf(s, Head(channel[s]))
  <2>1. /\ out'[c] = Append(out[c], e) /\ out[c] \in Seq(Message) /\ s \in Nat /\ Head(channel[s]) \in Nat
    BY <1>3, ForwardFacts
  <2>2. e \in Message /\ e \notin Responses
    BY <2>1, MessageFacts
  <2> HIDE DEF e
  <2>3. Answered(c)' = Answered(c)
    <3>1. Keep(Append(out[c], e), Responses) = Keep(out[c], Responses)
      BY <2>1, <2>2, KeepAppend
    <3> QED
      BY <2>1, <3>1 DEF Answered, Responses
  <2>4. Pending(c)' = Pending(c)
    BY <1>1 DEF Pending
  <2> QED
    BY <1>1, <2>3, <2>4 DEF NumberedFor
<1> QED
  BY <1>2, <1>3

\* Every step keeps the numbers.
LEMMA NextNumbered ==
  ASSUME TypeOK, Numbered, Next
  PROVE  Numbered'
<1>1. /\ doing \in [Clients -> {"none", "token", "auth", "find", "subscribe", "run"}]
      /\ inbox \in [Clients -> Seq(Request)] /\ current \in [Clients -> Nat] /\ sent \in [Clients -> Nat]
      /\ conn \in [Clients -> {"open", "closed"}]
  BY DEF TypeOK
<1>2. \A c \in Clients : NumberedFor(c)
  BY DEF Numbered
<1>3. ASSUME NEW c \in Clients, Handle(c) PROVE Numbered'
  <2>1. ASSUME NEW q \in Clients, q # c PROVE NumberedFor(q)'
    <3>1. out'[q] = out[q]
      BY <1>3, <2>1, HandleFacts, RespondFacts
    <3>2. /\ conn'[q] = conn[q] /\ doing'[q] = doing[q] /\ current'[q] = current[q]
          /\ sent'[q] = sent[q] /\ inbox'[q] = inbox[q]
      BY <1>1, <1>3, <2>1, HandleFacts
    <3> QED
      BY <1>2, <3>1, <3>2, NumberedFrame
  <2> QED
    BY <1>2, <1>3, <2>1, HandleNumbered DEF Numbered
<1>4. ASSUME NEW c \in Clients, NEW s \in Nat, Answers(c, s) PROVE Numbered'
  <2>1. ASSUME NEW q \in Clients, q # c PROVE NumberedFor(q)'
    <3>1. out'[q] = out[q]
      BY <1>1, <1>4, <2>1, RespondFacts DEF Answers
    <3>2. /\ conn'[q] = conn[q] /\ doing'[q] = doing[q] /\ current'[q] = current[q]
          /\ sent'[q] = sent[q] /\ inbox'[q] = inbox[q]
      BY <1>1, <1>4, <2>1 DEF Answers
    <3> QED
      BY <1>2, <3>1, <3>2, NumberedFrame
  <2> QED
    BY <1>2, <1>4, <2>1, AnswersNumbered DEF Numbered
<1>5. ASSUME NEW c \in Clients, conn[c] = "open", doing[c] # "none",
             NEW d, d # "none", doing' = [doing EXCEPT ![c] = d],
             UNCHANGED <<conn, inbox, current, sent, out>>
      PROVE  Numbered'
  <2>1. \A q \in Clients : Answered(q)' = Answered(q) /\ Pending(q)' = Pending(q)
    BY <1>1, <1>5 DEF Answered, Pending
  <2>2. \A q \in Clients : doing'[q] # "none" => doing[q] # "none"
    BY <1>1, <1>5
  <2> QED
    BY <1>2, <1>5, <2>1, <2>2 DEF Numbered, NumberedFor
<1>6. ASSUME NEW c \in Clients, NEW ok \in BOOLEAN, Authenticated(c, ok) PROVE Numbered'
  <2>1. \/ Answers(c, 0)
        \/ /\ conn[c] = "open" /\ doing[c] = "token" /\ doing' = [doing EXCEPT ![c] = "run"]
           /\ UNCHANGED <<conn, inbox, current, sent, out>>
    BY <1>6, AuthenticatedFacts
  <2> QED
    BY <1>4, <1>5, <2>1
<1>7. ASSUME NEW c \in Clients, RunSubscribed(c) PROVE Numbered'
  <2>1. Answers(c, 0)
    BY <1>7 DEF RunSubscribed, Answers
  <2> QED
    BY <1>4, <2>1
<1>8. ASSUME NEW c \in Clients, SubscribeSigReq(c) PROVE Numbered'
  <2>1. Answers(c, Len(streams) + 1) /\ Len(streams) + 1 \in Nat
    BY <1>8, StreamFacts DEF SubscribeSigReq, Answers
  <2> QED
    BY <1>4, <2>1
<1>9. ASSUME NEW c \in Clients, GetUserWorker(c) PROVE Numbered'
  <2>1. /\ conn[c] = "open" /\ doing[c] = "find" /\ doing' = [doing EXCEPT ![c] = "subscribe"]
        /\ UNCHANGED <<conn, inbox, current, sent, out>>
    BY <1>9 DEF GetUserWorker
  <2> QED
    BY <1>5, <2>1
<1>10. ASSUME NEW c \in Clients, Close(c) PROVE Numbered'
  <2>1. /\ \A q \in Clients : q # c => doing'[q] = doing[q] /\ conn'[q] = conn[q]
        /\ conn'[c] = "closed" /\ UNCHANGED <<inbox, current, sent, out>>
    BY <1>1, <1>10 DEF Close
  <2>2. \A q \in Clients : q # c => NumberedFor(q)'
    BY <1>2, <2>1, NumberedFrame
  <2>3. Answered(c)' = Answered(c)
    BY <2>1 DEF Answered
  <2>4. NumberedFor(c)'
    BY <1>2, <2>1, <2>3 DEF NumberedFor
  <2> QED
    BY <2>2, <2>4 DEF Numbered
<1>11. ASSUME NEW c \in Clients, NEW kind \in Kinds, Receive(c, kind) PROVE Numbered'
  <2>1. /\ \A q \in Clients : q # c => inbox'[q] = inbox[q] /\ sent'[q] = sent[q]
        /\ UNCHANGED <<conn, doing, current, out>>
    BY <1>1, <1>11 DEF Receive
  <2>2. \A q \in Clients : q # c => NumberedFor(q)'
    BY <1>2, <2>1, NumberedFrame
  <2> QED
    BY <1>2, <1>11, <2>2, ReceiveNumbered DEF Numbered
<1>12. ASSUME NEW s \in Streams, Forward(s) PROVE Numbered'
  BY <1>2, <1>12, ForwardNumbered DEF Numbered
<1>13. ASSUME \/ \E r \in Runs : RunStarts(r) \/ RunEnds(r) \/ SignatureRequest(r)
              \/ \E w \in Workers : Stopping(w)
       PROVE  Numbered'
  <2>1. UNCHANGED sessionVars
    BY <1>13 DEF RunStarts, RunEnds, SignatureRequest, Stopping
  <2> QED
    BY <1>2, <2>1, NumberedFrame DEF Numbered, sessionVars
<1> QED
  BY <1>3, <1>6, <1>7, <1>8, <1>9, <1>10, <1>11, <1>12, <1>13 DEF Next, Session

-----------------------------------------------------------------------------
(* The names of streams *)

\* Named, for messages o of a session while there are n streams.
WellNamed(o, n) ==
  \A i \in 1..Len(o) : o[i].stream \in 0..n /\ (o[i].type = "event" => NamedIn(o[i].stream, o, i - 1))

\* One more message, and perhaps one more stream.
LEMMA NamedAppend ==
  ASSUME NEW o \in Seq(Message), NEW m \in Message, NEW n \in Nat, NEW k \in Nat, n <= k,
         WellNamed(o, n), m.stream \in 0..k, m.type = "event" => NamedIn(m.stream, o, Len(o))
  PROVE  /\ WellNamed(Append(o, m), k)
         /\ \A s : NamedIn(s, o, Len(o)) => NamedIn(s, Append(o, m), Len(Append(o, m)))
         /\ m.type = "response" => NamedIn(m.stream, Append(o, m), Len(Append(o, m)))
<1> DEFINE t == Append(o, m)
<1>1. /\ Len(o) \in Nat /\ Len(t) = Len(o) + 1 /\ t[Len(o) + 1] = m
      /\ \A i \in 1..Len(o) : t[i] = o[i]
  BY AppendFacts
<1> HIDE DEF t
<1>2. ASSUME NEW s, NEW i \in 0..Len(o), NamedIn(s, o, i)
      PROVE  NamedIn(s, t, i) /\ NamedIn(s, t, Len(t))
  <2>1. PICK j \in 1..i : o[j].type = "response" /\ o[j].stream = s
    BY <1>2 DEF NamedIn
  <2>2. j \in 1..Len(o) /\ j \in 1..Len(t) /\ t[j] = o[j]
    BY <1>1
  <2> QED
    BY <2>1, <2>2 DEF NamedIn
<1>3. ASSUME NEW i \in 1..Len(t)
      PROVE  t[i].stream \in 0..k /\ (t[i].type = "event" => NamedIn(t[i].stream, t, i - 1))
  <2>1. CASE i \in 1..Len(o)
    <3>1. /\ t[i] = o[i] /\ o[i].stream \in 0..n
          /\ o[i].type = "event" => NamedIn(o[i].stream, o, i - 1)
      BY <1>1, <2>1 DEF WellNamed
    <3>2. i - 1 \in 0..Len(o) /\ 0..n \subseteq 0..k
      BY <1>1, <2>1
    <3> QED
      BY <1>2, <3>1, <3>2
  <2>2. CASE i = Len(o) + 1
    <3>1. i - 1 = Len(o) /\ Len(o) \in 0..Len(o) /\ t[i] = m
      BY <1>1, <2>2
    <3> QED
      BY <1>2, <3>1
  <2> QED
    BY <1>1, <2>1, <2>2
<1>4. m.type = "response" => NamedIn(m.stream, t, Len(t))
  <2>1. Len(t) \in 1..Len(t) /\ t[Len(t)] = m
    BY <1>1
  <2> QED
    BY <2>1 DEF NamedIn
<1>5. Len(o) \in 0..Len(o)
  BY <1>1
<1> QED
  BY <1>2, <1>3, <1>4, <1>5 DEF WellNamed, t

\* Named, by session and by stream.
LEMMA NamedParts ==
  ASSUME TRUE
  PROVE  /\ Named <=> /\ \A c \in Clients : WellNamed(out[c], Len(streams))
                      /\ \A s \in Streams :
                           NamedIn(s, out[streams[s].session], Len(out[streams[s].session]))
         /\ Named' <=> /\ \A c \in Clients : WellNamed(out'[c], Len(streams'))
                       /\ \A s \in Streams' :
                            NamedIn(s, out'[streams'[s].session], Len(out'[streams'[s].session]))
<1>1. Named <=> /\ \A c \in Clients : WellNamed(out[c], Len(streams))
                /\ \A s \in Streams :
                     NamedIn(s, out[streams[s].session], Len(out[streams[s].session]))
  BY DEF Named, WellNamed
<1>2. Named' <=> /\ \A c \in Clients : WellNamed(out'[c], Len(streams'))
                 /\ \A s \in Streams' :
                      NamedIn(s, out'[streams'[s].session], Len(out'[streams'[s].session]))
  BY DEF Named, WellNamed, NamedIn
<1> QED
  BY <1>1, <1>2

\* A message to one session, when no stream is added.
LEMMA MessageNamed ==
  ASSUME TypeOK, Named, NEW c \in Clients, NEW m \in Message, UNCHANGED streams,
         out'[c] = Append(out[c], m), \A q \in Clients : q # c => out'[q] = out[q],
         m.stream \in 0..Len(streams), m.type = "event" => NamedIn(m.stream, out[c], Len(out[c]))
  PROVE  Named'
<1>1. /\ \A q \in Clients : WellNamed(out[q], Len(streams))
      /\ \A s \in Streams : NamedIn(s, out[streams[s].session], Len(out[streams[s].session]))
  BY NamedParts
<1>2. Len(streams) \in Nat /\ Len(streams) <= Len(streams) /\ out[c] \in Seq(Message)
      /\ Streams' = Streams /\ \A s \in Streams : streams[s].session \in Clients
  BY StreamFacts, OutFacts DEF Streams
<1>3. /\ WellNamed(out'[c], Len(streams))
      /\ \A s : NamedIn(s, out[c], Len(out[c])) => NamedIn(s, out'[c], Len(out'[c]))
  BY <1>1, <1>2, NamedAppend
<1>4. \A q \in Clients : WellNamed(out'[q], Len(streams'))
  BY <1>1, <1>3
<1>5. \A s \in Streams' : NamedIn(s, out'[streams'[s].session], Len(out'[streams'[s].session]))
  BY <1>1, <1>2, <1>3
<1> QED
  BY <1>4, <1>5, NamedParts

\* A response that names no stream.
LEMMA RespondNamed ==
  ASSUME TypeOK, Named, NEW c \in Clients, NEW id \in Nat, Respond(c, id, 0), UNCHANGED streams
  PROVE  Named'
<1>1. Response(id, 0) \in Message /\ Response(id, 0).stream = 0 /\ Response(id, 0).type = "response"
  BY MessageFacts
<1>2. out'[c] = Append(out[c], Response(id, 0)) /\ \A q \in Clients : q # c => out'[q] = out[q]
  BY RespondFacts
<1>3. 0 \in 0..Len(streams)
  BY StreamFacts
<1> QED
  BY <1>1, <1>2, <1>3, MessageNamed

\* A subscription is answered with the name of the new stream.
LEMMA SubscribeNamed ==
  ASSUME TypeOK, Named, NEW c \in Clients, SubscribeSigReq(c)
  PROVE  Named'
<1> DEFINE n == Len(streams) + 1
           m == Response(current[c], n)
<1>1. /\ \A q \in Clients : WellNamed(out[q], Len(streams))
      /\ \A s \in Streams : NamedIn(s, out[streams[s].session], Len(out[streams[s].session]))
  BY NamedParts
<1>2. /\ Len(streams) \in Nat /\ n \in Nat /\ Len(streams) <= n /\ n \in 0..n
      /\ \A s \in Streams : streams[s].session \in Clients
  BY StreamFacts
<1>3. current[c] \in Nat /\ out[c] \in Seq(Message) /\ \A q \in Clients : out[q] \in Seq(Message)
  BY OutFacts
<1>4. m \in Message /\ m.stream = n /\ m.type = "response"
  BY <1>2, <1>3, MessageFacts
<1>5. /\ Len(streams') = n /\ Streams' = Streams \cup {n} /\ streams'[n].session = c
      /\ \A s \in Streams : streams'[s] = streams[s]
  BY SubscribeFacts
<1>6. Respond(c, current[c], n)
  BY DEF SubscribeSigReq
<1>7. out'[c] = Append(out[c], m) /\ \A q \in Clients : q # c => out'[q] = out[q]
  BY <1>2, <1>3, <1>6, RespondFacts
<1> HIDE DEF n, m
<1>8. /\ WellNamed(out'[c], n)
      /\ \A s : NamedIn(s, out[c], Len(out[c])) => NamedIn(s, out'[c], Len(out'[c]))
      /\ NamedIn(n, out'[c], Len(out'[c]))
  BY <1>1, <1>2, <1>3, <1>4, <1>7, NamedAppend
<1>9. ASSUME NEW q \in Clients, q # c PROVE WellNamed(out'[q], n)
  <2>1. 0..Len(streams) \subseteq 0..n
    BY <1>2
  <2> QED
    BY <1>1, <1>7, <1>9, <2>1 DEF WellNamed
<1>10. \A q \in Clients : WellNamed(out'[q], Len(streams'))
  BY <1>5, <1>8, <1>9
<1>11. \A s \in Streams' : NamedIn(s, out'[streams'[s].session], Len(out'[streams'[s].session]))
  BY <1>1, <1>2, <1>5, <1>7, <1>8
<1> QED
  BY <1>10, <1>11, NamedParts

\* Every step keeps the names.
LEMMA NextNamed ==
  ASSUME TypeOK, Named, Next
  PROVE  Named'
<1>1. ASSUME UNCHANGED <<out, streams>> PROVE Named'
  BY <1>1 DEF Named, NamedIn, Streams
<1>2. ASSUME NEW c \in Clients, Handle(c) PROVE Named'
  <2>1. UNCHANGED streams /\ Head(inbox[c]).id \in Nat
        /\ (out' = out \/ Respond(c, Head(inbox[c]).id, 0))
    BY <1>2, HandleFacts DEF streamVars
  <2> QED
    BY <1>1, <2>1, RespondNamed
<1>3. ASSUME NEW c \in Clients, NEW ok \in BOOLEAN, Authenticated(c, ok) PROVE Named'
  <2>1. UNCHANGED streams /\ (out' = out \/ Respond(c, current[c], 0))
    BY <1>3, AuthenticatedFacts DEF streamVars, Answers
  <2> QED
    BY <1>1, <2>1, OutFacts, RespondNamed
<1>4. ASSUME NEW c \in Clients, RunSubscribed(c) PROVE Named'
  <2>1. UNCHANGED streams /\ Respond(c, current[c], 0)
    BY <1>4 DEF RunSubscribed, streamVars
  <2> QED
    BY <2>1, OutFacts, RespondNamed
<1>5. ASSUME NEW s \in Streams, Forward(s) PROVE Named'
  <2> DEFINE c == streams[s].session
             m == EventOf(s, Head(channel[s]))
  <2>1. /\ c \in Clients /\ s \in Nat /\ Head(channel[s]) \in Nat /\ UNCHANGED streams
        /\ out'[c] = Append(out[c], m) /\ \A q \in Clients : q # c => out'[q] = out[q]
    BY <1>5, ForwardFacts
  <2>2. m \in Message /\ m.stream = s
    BY <2>1, MessageFacts
  <2>3. s \in 0..Len(streams) /\ NamedIn(s, out[c], Len(out[c]))
    BY StreamFacts DEF Named
  <2> HIDE DEF c, m
  <2> QED
    BY <2>1, <2>2, <2>3, MessageNamed
<1>6. ASSUME \/ \E c \in Clients : GetUserWorker(c) \/ Close(c) \/ \E kind \in Kinds : Receive(c, kind)
             \/ \E r \in Runs : RunStarts(r) \/ RunEnds(r) \/ SignatureRequest(r)
             \/ \E w \in Workers : Stopping(w)
      PROVE  Named'
  <2>1. UNCHANGED <<out, streams>>
    BY <1>6 DEF GetUserWorker, Close, Receive, RunStarts, RunEnds, SignatureRequest, Stopping,
                sessionVars, streamVars
  <2> QED
    BY <1>1, <2>1
<1> QED
  BY <1>2, <1>3, <1>4, <1>5, <1>6, SubscribeNamed DEF Next, Session

-----------------------------------------------------------------------------
(* The worker and its subscribers *)

\* Who asks for the worker gets the one that everybody has, or the first.
LEMMA GetOrStartSubscribed ==
  ASSUME TypeOK, Subscribed, NEW h \in Clients \cup Runs, GetOrStart(h), UNCHANGED <<streams, conn>>,
         \A c \in Clients : doing'[c] = "subscribe" => doing[c] = "subscribe" \/ c = h
  PROVE  Subscribed'
<1>1. /\ alive \subseteq Workers /\ book \in Workers \cup {0}
      /\ holds \in [Clients \cup Runs -> Workers \cup {0}] /\ subs \in [Workers -> SUBSET Nat]
      /\ 0 \notin Workers
  BY WsAssumption DEF TypeOK
<1>2. /\ alive \subseteq {book}
      /\ \A x \in Clients \cup Runs : holds[x] # 0 => holds[x] \in alive
      /\ \A c \in Clients : doing[c] = "subscribe" => holds[c] # 0
      /\ \A w \in Workers : subs[w] \subseteq Streams
      /\ \A s \in Streams : Listens(s) => book \in alive /\ s \in subs[book]
  BY <1>1 DEF Subscribed
<1>3. Streams' = Streams /\ \A s \in Streams : Listens(s)' <=> Listens(s)
  BY DEF Streams, Listens
<1>4. CASE book \in alive
  <2>1. holds' = [holds EXCEPT ![h] = book] /\ UNCHANGED <<alive, book, subs>>
    BY <1>4 DEF GetOrStart
  <2>2. \A x \in Clients \cup Runs : holds'[x] = IF x = h THEN book ELSE holds[x]
    BY <1>1, <2>1
  <2>3. DOMAIN holds' = Clients \cup Runs
    BY <1>1, <2>1
  <2> QED
    BY <1>1, <1>2, <1>3, <1>4, <2>1, <2>2, <2>3 DEF Subscribed
<1>5. CASE book \notin alive
  <2>1. PICK w \in Workers \ alive :
          /\ alive' = alive \cup {w} /\ book' = w
          /\ holds' = [holds EXCEPT ![h] = w] /\ subs' = [subs EXCEPT ![w] = {}]
    BY <1>5 DEF GetOrStart
  <2>2. alive = {} /\ \A s \in Streams : ~ Listens(s)
    BY <1>2, <1>5
  <2>3. /\ \A x \in Clients \cup Runs : holds'[x] = IF x = h THEN w ELSE holds[x]
        /\ DOMAIN holds' = Clients \cup Runs
        /\ \A v \in Workers : subs'[v] = IF v = w THEN {} ELSE subs[v]
    BY <1>1, <2>1
  <2>4. w # 0
    BY <1>1
  <2> QED
    BY <1>2, <1>3, <2>1, <2>2, <2>3, <2>4 DEF Subscribed
<1> QED
  BY <1>4, <1>5

\* A new stream is subscribed to the worker that the session holds.
LEMMA SubscribeSubscribed ==
  ASSUME TypeOK, Subscribed, NEW c \in Clients, SubscribeSigReq(c)
  PROVE  Subscribed'
<1> DEFINE n == Len(streams) + 1
<1>1. /\ alive \subseteq Workers /\ 0 \notin Workers
      /\ holds \in [Clients \cup Runs -> Workers \cup {0}] /\ subs \in [Workers -> SUBSET Nat]
      /\ doing \in [Clients -> {"none", "token", "auth", "find", "subscribe", "run"}]
  BY WsAssumption DEF TypeOK
<1>2. /\ alive \subseteq {book}
      /\ \A x \in Clients \cup Runs : holds[x] # 0 => holds[x] \in alive
      /\ \A q \in Clients : doing[q] = "subscribe" => holds[q] # 0
      /\ \A w \in Workers : subs[w] \subseteq Streams
      /\ \A s \in Streams : Listens(s) => book \in alive /\ s \in subs[book]
  BY <1>1 DEF Subscribed
<1>3. /\ doing[c] = "subscribe" /\ subs' = [subs EXCEPT ![holds[c]] = @ \cup {n}]
      /\ holds' = [holds EXCEPT ![c] = 0] /\ doing' = [doing EXCEPT ![c] = "none"]
      /\ UNCHANGED <<conn, alive, book>>
  BY DEF SubscribeSigReq
<1>4. holds[c] = book /\ book \in alive /\ book \in Workers
  BY <1>1, <1>2, <1>3
<1>5. /\ \A x \in Clients \cup Runs : holds'[x] = IF x = c THEN 0 ELSE holds[x]
      /\ DOMAIN holds' = Clients \cup Runs
      /\ \A v \in Workers : subs'[v] = IF v = book THEN subs[v] \cup {n} ELSE subs[v]
      /\ \A q \in Clients : doing'[q] = IF q = c THEN "none" ELSE doing[q]
  BY <1>1, <1>3, <1>4
<1>6. /\ Streams' = Streams \cup {n} /\ \A s \in Streams : streams'[s] = streams[s]
  BY SubscribeFacts
<1>7. \A s \in Streams : Listens(s)' <=> Listens(s)
  BY <1>3, <1>6 DEF Listens
<1> HIDE DEF n
<1>8. \A w \in Workers : subs'[w] \subseteq Streams'
  BY <1>2, <1>5, <1>6
<1>9. \A s \in Streams' : Listens(s)' => book' \in alive' /\ s \in subs'[book']
  BY <1>2, <1>3, <1>4, <1>5, <1>6, <1>7
<1>10. \A x \in Clients \cup Runs : holds'[x] # 0 => holds'[x] \in alive'
  BY <1>2, <1>3, <1>5
<1>11. \A q \in Clients : doing'[q] = "subscribe" => holds'[q] # 0
  BY <1>2, <1>5
<1> QED
  BY <1>2, <1>3, <1>5, <1>8, <1>9, <1>10, <1>11 DEF Subscribed

\* Every step keeps the worker as long as it is needed.
LEMMA NextSubscribed ==
  ASSUME TypeOK, Subscribed, Next
  PROVE  Subscribed'
<1>1. /\ alive \subseteq Workers /\ 0 \notin Workers /\ Clients \cap Runs = {}
      /\ holds \in [Clients \cup Runs -> Workers \cup {0}] /\ subs \in [Workers -> SUBSET Nat]
      /\ doing \in [Clients -> {"none", "token", "auth", "find", "subscribe", "run"}]
      /\ conn \in [Clients -> {"open", "closed"}]
  BY WsAssumption DEF TypeOK
<1>2. /\ alive \subseteq {book}
      /\ \A x \in Clients \cup Runs : holds[x] # 0 => holds[x] \in alive
      /\ \A q \in Clients : doing[q] = "subscribe" => holds[q] # 0
      /\ \A w \in Workers : subs[w] \subseteq Streams
      /\ \A s \in Streams : Listens(s) => book \in alive /\ s \in subs[book]
  BY <1>1 DEF Subscribed
<1>3. ASSUME UNCHANGED <<workerVars, streams, conn>>,
             \A q \in Clients : doing'[q] = "subscribe" => doing[q] = "subscribe"
      PROVE  Subscribed'
  <2>1. Streams' = Streams /\ \A s \in Streams : Listens(s)' <=> Listens(s)
    BY <1>3 DEF Streams, Listens
  <2> QED
    BY <1>1, <1>2, <1>3, <2>1 DEF Subscribed, workerVars
<1>4. ASSUME NEW c \in Clients, Handle(c) PROVE Subscribed'
  <2>1. UNCHANGED <<workerVars, streams, conn>>
    BY <1>4, HandleFacts DEF streamVars
  <2>2. PICK d \in {"none", "token", "auth", "find", "run"} : doing' = [doing EXCEPT ![c] = d]
    BY <1>4, HandleFacts
  <2> QED
    BY <1>1, <1>3, <2>1, <2>2
<1>5. ASSUME NEW c \in Clients, RunSubscribed(c) \/ \E ok \in BOOLEAN : Authenticated(c, ok)
      PROVE  Subscribed'
  <2>1. UNCHANGED <<workerVars, streams, conn>>
        /\ \E d \in {"none", "run"} : doing' = [doing EXCEPT ![c] = d]
    BY <1>5 DEF RunSubscribed, Authenticated, streamVars
  <2> QED
    BY <1>1, <1>3, <2>1
<1>6. ASSUME NEW c \in Clients, GetUserWorker(c) PROVE Subscribed'
  <2>1. GetOrStart(c) /\ UNCHANGED <<streams, conn>> /\ doing' = [doing EXCEPT ![c] = "subscribe"]
    BY <1>6 DEF GetUserWorker, streamVars
  <2>2. \A q \in Clients : doing'[q] = "subscribe" => doing[q] = "subscribe" \/ q = c
    BY <1>1, <2>1
  <2> QED
    BY <2>1, <2>2, GetOrStartSubscribed
<1>7. ASSUME NEW r \in Runs, RunStarts(r) PROVE Subscribed'
  <2>1. GetOrStart(r) /\ UNCHANGED <<streams, conn, doing>>
    BY <1>7 DEF RunStarts, sessionVars, streamVars
  <2> QED
    BY <2>1, GetOrStartSubscribed
<1>8. ASSUME NEW c \in Clients, Close(c) PROVE Subscribed'
  <2>1. /\ conn' = [conn EXCEPT ![c] = "closed"] /\ doing' = [doing EXCEPT ![c] = "none"]
        /\ holds' = [holds EXCEPT ![c] = 0] /\ UNCHANGED <<alive, book, subs, streams>>
    BY <1>8 DEF Close, streamVars
  <2>2. /\ \A x \in Clients \cup Runs : holds'[x] = IF x = c THEN 0 ELSE holds[x]
        /\ DOMAIN holds' = Clients \cup Runs
        /\ \A q \in Clients : doing'[q] = IF q = c THEN "none" ELSE doing[q]
        /\ \A q \in Clients : conn'[q] = "open" => conn[q] = "open"
    BY <1>1, <2>1
  <2>3. Streams' = Streams /\ \A s \in Streams : Listens(s)' => Listens(s)
    BY <2>1, <2>2, StreamFacts DEF Streams, Listens
  <2> QED
    BY <1>2, <2>1, <2>2, <2>3 DEF Subscribed
<1>9. ASSUME NEW c \in Clients, NEW kind \in Kinds, Receive(c, kind) PROVE Subscribed'
  <2>1. UNCHANGED <<workerVars, streams, conn, doing>>
    BY <1>9 DEF Receive, streamVars
  <2> QED
    BY <1>3, <2>1
<1>10. ASSUME NEW s \in Streams, Forward(s) PROVE Subscribed'
  <2>1. UNCHANGED <<workerVars, streams, conn, doing>>
    BY <1>10 DEF Forward
  <2> QED
    BY <1>3, <2>1
<1>11. ASSUME NEW r \in Runs, RunEnds(r) PROVE Subscribed'
  <2>1. holds' = [holds EXCEPT ![r] = 0] /\ UNCHANGED <<alive, book, subs, streams, conn, doing>>
    BY <1>11 DEF RunEnds, sessionVars, streamVars
  <2>2. /\ \A x \in Clients \cup Runs : holds'[x] = IF x = r THEN 0 ELSE holds[x]
        /\ DOMAIN holds' = Clients \cup Runs /\ \A q \in Clients : q # r
    BY <1>1, <2>1
  <2>3. Streams' = Streams /\ \A s \in Streams : Listens(s)' <=> Listens(s)
    BY <2>1 DEF Streams, Listens
  <2> QED
    BY <1>2, <2>1, <2>2, <2>3 DEF Subscribed
<1>12. ASSUME NEW w \in Workers, UNCHANGED <<book, holds, streams, conn, doing>>,
              subs' = [subs EXCEPT ![w] = {s \in subs[w] : Listens(s)}],
              alive' \subseteq alive, \A v \in alive \ alive' : v = w /\ subs'[w] = {},
              \A h \in DOMAIN holds : holds[h] \in alive => holds[h] \in alive'
       PROVE  Subscribed'
  <2>1. /\ subs'[w] = {s \in subs[w] : Listens(s)} /\ \A v \in Workers : v # w => subs'[v] = subs[v]
        /\ DOMAIN holds = Clients \cup Runs
    BY <1>1, <1>12
  <2>2. Streams' = Streams /\ \A s \in Streams : Listens(s)' <=> Listens(s)
    BY <1>12 DEF Streams, Listens
  <2>3. \A v \in Workers : subs'[v] \subseteq Streams
    BY <1>2, <2>1
  <2>4. \A s \in Streams : Listens(s) => book \in alive' /\ s \in subs'[book]
    BY <1>1, <1>2, <1>12, <2>1
  <2> QED
    BY <1>2, <1>12, <2>1, <2>2, <2>3, <2>4 DEF Subscribed
<1>13. ASSUME NEW w \in Workers, Stopping(w) PROVE Subscribed'
  <2> DEFINE kept == {s \in subs[w] : Listens(s)}
  <2>1. /\ \A h \in DOMAIN holds : holds[h] # w
        /\ subs' = [subs EXCEPT ![w] = kept]
        /\ alive' = IF kept = {} THEN alive \ {w} ELSE alive
        /\ UNCHANGED <<book, holds, streams, conn, doing>>
    BY <1>13 DEF Stopping, sessionVars, streamVars
  <2>2. subs'[w] = kept
    BY <1>1, <2>1
  <2>3. /\ alive' \subseteq alive /\ \A v \in alive \ alive' : v = w /\ subs'[w] = {}
        /\ \A h \in DOMAIN holds : holds[h] \in alive => holds[h] \in alive'
    <3> HIDE DEF kept
    <3> QED
      BY <2>1, <2>2
  <2> QED
    BY <1>12, <2>1, <2>3
<1>14. ASSUME NEW r \in Runs, SignatureRequest(r) PROVE Subscribed'
  <2>1. /\ holds[r] # 0 /\ subs' = [subs EXCEPT ![holds[r]] = {s \in subs[holds[r]] : Listens(s)}]
        /\ UNCHANGED <<alive, book, holds, streams, conn, doing>>
    BY <1>14 DEF SignatureRequest, sessionVars
  <2>2. holds[r] \in Workers
    BY <1>1, <2>1
  <2> QED
    BY <1>12, <2>1, <2>2
<1> QED
  BY <1>4, <1>5, <1>6, <1>7, <1>8, <1>9, <1>10, <1>11, <1>13, <1>14, SubscribeSubscribed DEF Next, Session

-----------------------------------------------------------------------------
(* The signature requests of a stream *)

\* The numbers of the requests that were seen and of those that are on their way.
InSequence(seen, way, since, now) ==
  /\ Len(seen) + Len(way) = now - since
  /\ \A i \in 1..Len(seen) : seen[i].id = since + i
  /\ \A i \in 1..Len(way) : way[i] = since + Len(seen) + i

Seen(s) == Keep(out[streams[s].session], EventsOf(s))

\* NoRequestMissed, by stream.
LEMMA MissedParts ==
  ASSUME TRUE
  PROVE  /\ NoRequestMissed <=>
              \A s \in Streams : Listens(s) => InSequence(Seen(s), channel[s], streams[s].since, sigreqs)
         /\ NoRequestMissed' <=>
              \A s \in Streams' :
                Listens(s)' => InSequence(Seen(s)', channel'[s], streams'[s].since, sigreqs')
<1>1. NoRequestMissed <=>
        \A s \in Streams : Listens(s) => InSequence(Seen(s), channel[s], streams[s].since, sigreqs)
  BY DEF NoRequestMissed, InSequence, Seen, Listens
<1>2. NoRequestMissed' <=>
        \A s \in Streams' :
          Listens(s)' => InSequence(Seen(s)', channel'[s], streams'[s].since, sigreqs')
  BY DEF NoRequestMissed, InSequence, Seen, Listens
<1> QED
  BY <1>1, <1>2

\* What was seen is a sequence of messages.
LEMMA SeenFacts ==
  ASSUME TypeOK, NEW s \in Streams
  PROVE  Seen(s) \in Seq(Message) /\ Len(Seen(s)) \in Nat /\ out[streams[s].session] \in Seq(Message)
<1>1. out[streams[s].session] \in Seq(Message)
  BY StreamFacts, OutFacts
<1> DEFINE o == out[streams[s].session]
<1>2. PICK h : Selects(h, Keep(o, EventsOf(s)), Message, o, EventsOf(s), Len(o))
  BY <1>1, KeepFacts
<1>3. Seen(s) \in Seq(Message)
  BY <1>2 DEF Selects, Seen
<1> QED
  BY <1>1, <1>3

\* What is seen when a message m is sent to a session c.
LEMMA SeenAppend ==
  ASSUME TypeOK, NEW c \in Clients, NEW m \in Message, NEW s \in Streams,
         out'[c] = Append(out[c], m), \A q \in Clients : q # c => out'[q] = out[q],
         streams'[s] = streams[s]
  PROVE  /\ m \notin EventsOf(s) => Seen(s)' = Seen(s)
         /\ m \in EventsOf(s) /\ c = streams[s].session => Seen(s)' = Append(Seen(s), m)
<1>1. Seen(s)' = Keep(out'[streams[s].session], EventsOf(s)) /\ streams[s].session \in Clients
  BY StreamFacts DEF Seen, EventsOf
<1>2. CASE c # streams[s].session
  BY <1>1, <1>2 DEF Seen
<1>3. CASE c = streams[s].session
  <2>1. out[c] \in Seq(Message)
    BY OutFacts
  <2>2. \A T : Keep(Append(out[c], m), T) = IF m \in T THEN Append(Keep(out[c], T), m) ELSE Keep(out[c], T)
    BY <2>1, KeepAppend
  <2> QED
    BY <1>1, <1>3, <2>2 DEF Seen
<1> QED
  BY <1>2, <1>3

\* A request that is on its way is seen.
LEMMA ForwardInSequence ==
  ASSUME NEW seen \in Seq(Message), NEW way \in Seq(Nat), way # <<>>, NEW since \in Nat, NEW now \in Nat,
         NEW m \in Message, m.id = Head(way), InSequence(seen, way, since, now)
  PROVE  InSequence(Append(seen, m), Tail(way), since, now)
<1> DEFINE u == Append(seen, m)
           v == Tail(way)
<1>1. /\ Len(seen) \in Nat /\ Len(u) = Len(seen) + 1 /\ u[Len(seen) + 1] = m
      /\ \A i \in 1..Len(seen) : u[i] = seen[i]
  BY AppendFacts
<1>2. /\ Len(way) \in Nat \ {0} /\ Len(v) = Len(way) - 1 /\ Head(way) = way[1]
      /\ \A i \in 1..Len(way) - 1 : v[i] = way[i + 1]
  BY TailFacts
<1>3. /\ Len(seen) + Len(way) = now - since
      /\ \A i \in 1..Len(seen) : seen[i].id = since + i
      /\ \A i \in 1..Len(way) : way[i] = since + Len(seen) + i
  BY DEF InSequence
<1> HIDE DEF u, v
<1>4. Len(u) + Len(v) = now - since
  BY <1>1, <1>2, <1>3
<1>5. m.id = since + (Len(seen) + 1)
  BY <1>1, <1>2, <1>3
<1>6. \A i \in 1..Len(u) : i \in 1..Len(seen) \/ i = Len(seen) + 1
  BY <1>1
<1>7. \A i \in 1..Len(u) : u[i].id = since + i
  BY <1>1, <1>3, <1>5, <1>6
<1>8. ASSUME NEW i \in 1..Len(v) PROVE v[i] = since + Len(u) + i
  <2>1. i + 1 \in 1..Len(way) /\ v[i] = way[i + 1]
    BY <1>2
  <2>2. way[i + 1] = since + Len(seen) + (i + 1)
    BY <1>3, <2>1
  <2> QED
    BY <1>1, <2>1, <2>2
<1> QED
  BY <1>4, <1>7, <1>8 DEF InSequence, u, v

\* A new request is sent to a stream.
LEMMA SendInSequence ==
  ASSUME NEW seen \in Seq(Message), NEW way \in Seq(Nat), NEW since \in Nat, NEW now \in Nat,
         InSequence(seen, way, since, now)
  PROVE  InSequence(seen, Append(way, now + 1), since, now + 1)
<1> DEFINE v == Append(way, now + 1)
<1>0. now + 1 \in Nat /\ Len(seen) \in Nat
  OBVIOUS
<1>1. /\ Len(way) \in Nat /\ Len(v) = Len(way) + 1 /\ v[Len(way) + 1] = now + 1
      /\ \A i \in 1..Len(way) : v[i] = way[i]
  BY <1>0, AppendFacts
<1>2. /\ Len(seen) + Len(way) = now - since
      /\ \A i \in 1..Len(seen) : seen[i].id = since + i
      /\ \A i \in 1..Len(way) : way[i] = since + Len(seen) + i
  BY DEF InSequence
<1> HIDE DEF v
<1>3. Len(seen) + Len(v) = (now + 1) - since /\ now + 1 = since + Len(seen) + (Len(way) + 1)
  <2> DEFINE a == Len(seen)
             b == Len(way)
  <2>1. a \in Nat /\ b \in Nat /\ a + b = now - since /\ Len(v) = b + 1
    BY <1>0, <1>1, <1>2
  <2> HIDE DEF a, b
  <2>2. a + (b + 1) = (now + 1) - since /\ now + 1 = since + a + (b + 1)
    BY <2>1
  <2> QED
    BY <2>1, <2>2 DEF a, b
<1>4. \A i \in 1..Len(v) : i \in 1..Len(way) \/ i = Len(way) + 1
  BY <1>1
<1>5. \A i \in 1..Len(v) : v[i] = since + Len(seen) + i
  BY <1>1, <1>2, <1>3, <1>4
<1> QED
  BY <1>2, <1>3, <1>5 DEF InSequence, v

\* A response changes nothing for the streams.
LEMMA RespondMissed ==
  ASSUME TypeOK, NoRequestMissed, NEW c \in Clients, NEW id \in Nat, NEW n \in Nat, Respond(c, id, n),
         UNCHANGED <<streams, channel, sigreqs, conn>>
  PROVE  NoRequestMissed'
<1>1. out'[c] = Append(out[c], Response(id, n)) /\ \A q \in Clients : q # c => out'[q] = out[q]
  BY RespondFacts
<1>2. Response(id, n) \in Message /\ \A s : Response(id, n) \notin EventsOf(s)
  BY MessageFacts
<1>3. \A s \in Streams : Seen(s)' = Seen(s)
  BY <1>1, <1>2, SeenAppend
<1>4. Streams' = Streams /\ \A s \in Streams : Listens(s)' <=> Listens(s)
  BY DEF Streams, Listens
<1> QED
  BY <1>3, <1>4, MissedParts

\* A new stream has seen nothing, and nothing is on its way.
LEMMA SubscribeMissed ==
  ASSUME TypeOK, Named, NoRequestMissed, NEW c \in Clients, SubscribeSigReq(c)
  PROVE  NoRequestMissed'
<1>0. PICK n : n = Len(streams) + 1
  OBVIOUS
<1> DEFINE m == Response(current[c], n)
<1>1. n \in Nat /\ Len(streams) \in Nat /\ current[c] \in Nat /\ out[c] \in Seq(Message)
  BY <1>0, StreamFacts, OutFacts
<1>2. Respond(c, current[c], n) /\ UNCHANGED <<conn, sigreqs>> /\ sigreqs \in Nat
  BY <1>0 DEF SubscribeSigReq, TypeOK
<1>3. out'[c] = Append(out[c], m) /\ \A q \in Clients : q # c => out'[q] = out[q]
  BY <1>1, <1>2, RespondFacts
<1>4. m \in Message /\ \A s : m \notin EventsOf(s)
  BY <1>1, MessageFacts
<1>5. /\ Streams' = Streams \cup {n} /\ streams'[n].session = c /\ streams'[n].since = sigreqs
      /\ channel'[n] = <<>> /\ \A s \in Streams : streams'[s] = streams[s] /\ channel'[s] = channel[s]
  BY <1>0, SubscribeFacts
<1> HIDE DEF m
<1>6. ASSUME NEW s \in Streams
      PROVE  Listens(s)' => InSequence(Seen(s)', channel'[s], streams'[s].since, sigreqs')
  <2>1. Seen(s)' = Seen(s) /\ (Listens(s)' <=> Listens(s))
    BY <1>2, <1>3, <1>4, <1>5, SeenAppend DEF Listens
  <2> QED
    BY <1>2, <1>5, <2>1, MissedParts
<1>7. Seen(n)' = <<>>
  <2>1. Keep(Append(out[c], m), EventsOf(n)) = Keep(out[c], EventsOf(n))
    BY <1>1, <1>4, KeepAppend
  <2>2. \A i \in 1..Len(out[c]) : out[c][i].stream \in 0..Len(streams)
    BY DEF Named
  <2>3. \A i \in 1..Len(out[c]) : out[c][i].stream # n
    BY <1>0, <1>1, <2>2
  <2>4. \A i \in 1..Len(out[c]) : out[c][i] \notin EventsOf(n)
    BY <2>3 DEF EventsOf
  <2>5. Keep(out[c], EventsOf(n)) = <<>>
    BY <1>1, <2>4, KeepNothing
  <2>6. Seen(n)' = Keep(out'[c], EventsOf(n))
    BY <1>5 DEF Seen, EventsOf
  <2> QED
    BY <1>3, <2>1, <2>5, <2>6
<1>8. InSequence(Seen(n)', channel'[n], streams'[n].since, sigreqs')
  <2>1. InSequence(<<>>, <<>>, sigreqs, sigreqs)
    BY <1>2, EmptyFacts DEF InSequence
  <2> QED
    BY <1>2, <1>5, <1>7, <2>1
<1> QED
  BY <1>5, <1>6, <1>8, MissedParts

\* An event is seen by its stream alone.
LEMMA ForwardMissed ==
  ASSUME TypeOK, NoRequestMissed, NEW s \in Streams, Forward(s)
  PROVE  NoRequestMissed'
<1> DEFINE c == streams[s].session
           n == Head(channel[s])
           m == EventOf(s, n)
<1>1. /\ c \in Clients /\ s \in Nat /\ n \in Nat /\ channel[s] \in Seq(Nat) /\ channel[s] # <<>>
      /\ out'[c] = Append(out[c], m) /\ \A q \in Clients : q # c => out'[q] = out[q]
      /\ channel'[s] = Tail(channel[s]) /\ \A q \in Streams : q # s => channel'[q] = channel[q]
      /\ UNCHANGED <<conn, streams, sigreqs>>
  BY ForwardFacts
<1>2. m \in Message /\ m.id = n /\ m \in EventsOf(s) /\ \A q : q # s => m \notin EventsOf(q)
  BY <1>1, MessageFacts
<1>3. sigreqs \in Nat /\ streams[s].since \in Nat
  BY StreamFacts DEF TypeOK
<1> HIDE DEF m
<1>4. Streams' = Streams /\ \A q \in Streams : Listens(q)' <=> Listens(q)
  BY <1>1 DEF Streams, Listens
<1>5. ASSUME NEW q \in Streams, q # s, Listens(q)
      PROVE  InSequence(Seen(q)', channel'[q], streams'[q].since, sigreqs')
  <2>1. Seen(q)' = Seen(q)
    BY <1>1, <1>2, <1>5, SeenAppend
  <2> QED
    BY <1>1, <1>5, <2>1, MissedParts
<1>6. ASSUME Listens(s)
      PROVE  InSequence(Seen(s)', channel'[s], streams'[s].since, sigreqs')
  <2>1. Seen(s)' = Append(Seen(s), m)
    BY <1>1, <1>2, SeenAppend
  <2>2. InSequence(Seen(s), channel[s], streams[s].since, sigreqs) /\ Seen(s) \in Seq(Message)
    BY <1>6, MissedParts, SeenFacts
  <2>3. InSequence(Append(Seen(s), m), Tail(channel[s]), streams[s].since, sigreqs)
    BY <1>1, <1>2, <1>3, <2>2, ForwardInSequence
  <2> QED
    BY <1>1, <2>1, <2>3
<1> QED
  BY <1>4, <1>5, <1>6, MissedParts

\* A signature request is sent to every stream that is listened to, whichever run asks.
LEMMA SignatureRequestMissed ==
  ASSUME TypeOK, Subscribed, NoRequestMissed, NEW r \in Runs, SignatureRequest(r)
  PROVE  NoRequestMissed'
<1>1. /\ holds[r] # 0 /\ sigreqs' = sigreqs + 1 /\ UNCHANGED streams
      /\ \A s \in Streams : channel'[s] = IF s \in subs[holds[r]] /\ Listens(s)
                                            THEN Append(channel[s], sigreqs + 1) ELSE channel[s]
  BY SignatureRequestFacts
<1>2. UNCHANGED <<conn, out>>
  BY DEF SignatureRequest, sessionVars
<1>3. holds \in [Clients \cup Runs -> Workers \cup {0}] /\ sigreqs \in Nat
  BY DEF TypeOK
<1>4. holds[r] = book
  BY <1>1, <1>3 DEF Subscribed
<1>5. Streams' = Streams /\ \A s \in Streams : (Listens(s)' <=> Listens(s)) /\ Seen(s)' = Seen(s)
  BY <1>1, <1>2 DEF Streams, Listens, Seen, EventsOf
<1>6. ASSUME NEW s \in Streams, Listens(s)
      PROVE  InSequence(Seen(s)', channel'[s], streams'[s].since, sigreqs')
  <2>1. channel'[s] = Append(channel[s], sigreqs + 1)
    BY <1>1, <1>4, <1>6 DEF Subscribed
  <2>2. InSequence(Seen(s), channel[s], streams[s].since, sigreqs)
    BY <1>6, MissedParts
  <2>3. Seen(s) \in Seq(Message) /\ channel[s] \in Seq(Nat) /\ streams[s].since \in Nat
    BY SeenFacts, StreamFacts
  <2>4. InSequence(Seen(s), Append(channel[s], sigreqs + 1), streams[s].since, sigreqs + 1)
    BY <1>3, <2>2, <2>3, SendInSequence
  <2> QED
    BY <1>1, <1>5, <2>1, <2>4
<1> QED
  BY <1>5, <1>6, MissedParts

\* No step loses a request for who stays.
LEMMA NextMissed ==
  ASSUME TypeOK, Named, Subscribed, NoRequestMissed, Next
  PROVE  NoRequestMissed'
<1>1. ASSUME UNCHANGED <<out, streams, channel, sigreqs>>,
             \A c \in Clients : conn'[c] = "open" => conn[c] = "open"
      PROVE  NoRequestMissed'
  <2>1. Streams' = Streams /\ \A s \in Streams : (Listens(s)' => Listens(s)) /\ Seen(s)' = Seen(s)
    BY <1>1, StreamFacts DEF Streams, Listens, Seen, EventsOf
  <2> QED
    BY <1>1, <2>1, MissedParts
<1>2. ASSUME NEW c \in Clients, Handle(c) PROVE NoRequestMissed'
  <2>1. /\ UNCHANGED <<streams, channel, sigreqs, conn>> /\ Head(inbox[c]).id \in Nat
        /\ (out' = out \/ Respond(c, Head(inbox[c]).id, 0))
    BY <1>2, HandleFacts DEF streamVars
  <2> QED
    BY <1>1, <2>1, RespondMissed
<1>3. ASSUME NEW c \in Clients, NEW ok \in BOOLEAN, Authenticated(c, ok) PROVE NoRequestMissed'
  <2>1. UNCHANGED <<streams, channel, sigreqs, conn>> /\ (out' = out \/ Respond(c, current[c], 0))
    BY <1>3, AuthenticatedFacts DEF streamVars, Answers
  <2> QED
    BY <1>1, <2>1, OutFacts, RespondMissed
<1>4. ASSUME NEW c \in Clients, RunSubscribed(c) PROVE NoRequestMissed'
  <2>1. UNCHANGED <<streams, channel, sigreqs, conn>> /\ Respond(c, current[c], 0)
    BY <1>4 DEF RunSubscribed, streamVars
  <2> QED
    BY <2>1, OutFacts, RespondMissed
<1>5. ASSUME NEW c \in Clients, Close(c) PROVE NoRequestMissed'
  <2>1. UNCHANGED <<out, streams, channel, sigreqs>> /\ conn' = [conn EXCEPT ![c] = "closed"]
        /\ conn \in [Clients -> {"open", "closed"}]
    BY <1>5 DEF Close, streamVars, TypeOK
  <2> QED
    BY <1>1, <2>1
<1>6. ASSUME \/ \E c \in Clients : GetUserWorker(c) \/ \E kind \in Kinds : Receive(c, kind)
             \/ \E r \in Runs : RunStarts(r) \/ RunEnds(r)
             \/ \E w \in Workers : Stopping(w)
      PROVE  NoRequestMissed'
  <2>1. UNCHANGED <<out, streams, channel, sigreqs, conn>>
    BY <1>6 DEF GetUserWorker, Receive, RunStarts, RunEnds, Stopping, sessionVars, streamVars
  <2> QED
    BY <1>1, <2>1
<1> QED
  BY <1>2, <1>3, <1>4, <1>5, <1>6, SubscribeMissed, ForwardMissed, SignatureRequestMissed
     DEF Next, Session

-----------------------------------------------------------------------------
(* The theorems *)

\* Nobody has asked for anything in the first state.
LEMMA InitInv == Init => Inv
<1> SUFFICES ASSUME Init PROVE Inv
  OBVIOUS
<1>1. TypeOK
  <2>1. \A S : <<>> \in Seq(S)
    BY EmptyFacts
  <2> QED
    BY <2>1 DEF Init, TypeOK
<1>2. streams = <<>> /\ \A c \in Clients : out[c] = <<>> /\ inbox[c] = <<>> /\ doing[c] = "none" /\ sent[c] = 0
  BY DEF Init
<1>3. Streams = {} /\ Len(streams) = 0
  BY <1>2 DEF Streams
<1>4. Numbered
  <2> SUFFICES ASSUME NEW c \in Clients PROVE NumberedFor(c)
    BY DEF Numbered
  <2>1. out[c] \in Seq(Message) /\ Len(out[c]) = 0
    BY <1>2, EmptyFacts
  <2>2. Answered(c) = <<>>
    BY <2>1, KeepNothing DEF Answered
  <2>3. Len(Answered(c)) = 0 /\ Len(inbox[c]) = 0 /\ Pending(c) = 0
    BY <1>2, <2>2, EmptyFacts DEF Pending
  <2> QED
    BY <1>2, <2>3 DEF NumberedFor
<1>5. Named
  BY <1>2, <1>3, EmptyFacts DEF Named
<1>6. Subscribed
  BY <1>3 DEF Subscribed, Init
<1>7. NoRequestMissed
  BY <1>3 DEF NoRequestMissed
<1> QED
  BY <1>1, <1>4, <1>5, <1>6, <1>7 DEF Inv

\* A step that changes nothing.
LEMMA StutterInv == Inv /\ UNCHANGED vars => Inv'
<1> SUFFICES ASSUME Inv, UNCHANGED vars PROVE Inv'
  OBVIOUS
<1>1. /\ UNCHANGED <<conn, inbox, doing, current, sent, tokens, out>>
      /\ UNCHANGED <<alive, book, holds, subs, streams, channel, sigreqs>>
  BY DEF vars, sessionVars, workerVars, streamVars
<1>2. TypeOK'
  BY <1>1 DEF Inv, TypeOK
<1>3. Numbered'
  BY <1>1, NumberedFrame DEF Inv, Numbered
<1>4. Named'
  BY <1>1 DEF Inv, Named, NamedIn, Streams
<1>5. Subscribed'
  BY <1>1 DEF Inv, Subscribed, Streams, Listens
<1>6. NoRequestMissed'
  BY <1>1 DEF Inv, NoRequestMissed, EventsOf, Streams
<1> QED
  BY <1>2, <1>3, <1>4, <1>5, <1>6 DEF Inv

\* Inv is inductive: it holds in every state of the sessions and their worker.
THEOREM InvHolds == Spec => []Inv
<1>1. Inv /\ Next => Inv'
  BY NextTypeOK, NextNumbered, NextNamed, NextSubscribed, NextMissed DEF Inv
<1>2. Inv /\ [Next]_vars => Inv'
  BY <1>1, StutterInv
<1> QED
  BY InitInv, <1>2, PTL DEF Spec

\* Every variable keeps its type.
THEOREM TypeCorrect == Spec => []TypeOK
<1>1. Inv => TypeOK
  BY DEF Inv
<1> QED
  BY <1>1, InvHolds, PTL

\* The requests of a session are answered once and in their order, and a stream has no event
\* before the answer that names it, for any number of sessions and requests.
THEOREM ResponsesInOrderHolds == Spec => []ResponsesInOrder
<1>1. Inv => ResponsesInOrder
  BY DEF Inv, Numbered, NumberedFor, Answered, Named, NamedIn, ResponsesInOrder
<1> QED
  BY <1>1, InvHolds, PTL

\* A session that stays gets every signature request since it subscribed, once and in order,
\* however often the runs that hold the worker come and go.
THEOREM NoRequestMissedHolds == Spec => []NoRequestMissed
<1>1. Inv => NoRequestMissed
  BY DEF Inv
<1> QED
  BY <1>1, InvHolds, PTL

=============================================================================
