------------------------------- MODULE WsConn -------------------------------
(***************************************************************************)
(* Websocket sessions and the UserWorker of the user they subscribe to.    *)
(* A session (WsConn) takes one request after the other: it pauses with    *)
(* ctx.wait until the request is answered, and its streams pause too.      *)
(* subscribe_sig asks DBWorker for the UserWorker, which is started when   *)
(* the address book has none that lives; the subscription is an entry of   *)
(* that actor and dies with it.  Runs hold its address while they may ask  *)
(* for signatures.  An actor whose address nobody holds is asked           *)
(* `stopping': UserWorker goes on as long as someone is subscribed.        *)
(*                                                                         *)
(* There is one user.  Events of runs are the subject of FlowRunWorker: a  *)
(* subscription to a run is a request here, without events.                *)
(***************************************************************************)
EXTENDS Naturals, FiniteSets, Sequences, Subsequences

CONSTANTS
  Clients,      \* The sessions.
  Runs,         \* What asks for signatures of the user.
  MaxRequests,  \* Bound: requests of a session.
  MaxSigReqs,   \* Bound: signature requests.
  Workers       \* Names for UserWorkers; one that has stopped is used again.

ASSUME WsAssumption == Clients \cap Runs = {} /\ 0 \notin Workers

VARIABLES
  conn,     \* Each session: "open" or "closed".
  inbox,    \* The requests that were received and not looked at.
  doing,    \* What the session waits for: "none", "token", "auth", "find", "subscribe", "run".
  current,  \* The id of the request that is handled.
  sent,     \* How many requests the client has sent.
  tokens,   \* The sessions that have a token of the user.
  out,      \* What was sent to the client.
  alive,    \* The UserWorkers that live.
  book,     \* The one in the address book, or 0.
  holds,    \* The one whose address a session or a run holds, or 0.
  subs,     \* subs[w]: the streams that are subscribed to w.
  streams,  \* The streams: their session, and the requests before them.
  channel,  \* The signature requests that were sent to a stream.
  sigreqs   \* How many signature requests there were.

sessionVars == <<conn, inbox, doing, current, sent, tokens, out>>
workerVars == <<alive, book, holds, subs>>
streamVars == <<streams, channel, sigreqs>>
vars == <<sessionVars, workerVars, streamVars>>

Kinds == {"auth", "sig", "run", "run with token", "invalid"}
Streams == DOMAIN streams
Response(id, s) == [type |-> "response", id |-> id, stream |-> s]
EventOf(s, n) == [type |-> "event", id |-> n, stream |-> s]

Init ==
  /\ conn = [c \in Clients |-> "open"] /\ inbox = [c \in Clients |-> <<>>]
  /\ doing = [c \in Clients |-> "none"] /\ current = [c \in Clients |-> 0]
  /\ sent = [c \in Clients |-> 0]
  /\ tokens = {} /\ out = [c \in Clients |-> <<>>]
  /\ alive = {} /\ book = 0
  /\ holds = [h \in Clients \cup Runs |-> 0] /\ subs = [w \in Workers |-> {}]
  /\ streams = <<>> /\ channel = <<>> /\ sigreqs = 0

-----------------------------------------------------------------------------
(* The session *)

\* The client sends a request; a client sends the next one without waiting.
Receive(c, kind) ==
  /\ conn[c] = "open" /\ sent[c] < MaxRequests
  /\ sent' = [sent EXCEPT ![c] = @ + 1]
  /\ inbox' = [inbox EXCEPT ![c] = Append(@, [id |-> sent[c] + 1, kind |-> kind])]
  /\ UNCHANGED <<conn, doing, current, tokens, out, workerVars, streamVars>>

\* success_response and error_response
Respond(c, id, s) == out' = [out EXCEPT ![c] = Append(@, Response(id, s))]

\* StreamHandler::handle: a text that is no request is refused at once, and so is
\* subscribe_sig without a token.
Handle(c) ==
  /\ conn[c] = "open" /\ doing[c] = "none" /\ inbox[c] # <<>>
  /\ inbox' = [inbox EXCEPT ![c] = Tail(@)]
  /\ current' = [current EXCEPT ![c] = Head(inbox[c]).id]
  /\ LET kind == Head(inbox[c]).kind
         refused == kind = "invalid" \/ (kind = "sig" /\ c \notin tokens)
     IN  /\ doing' = [doing EXCEPT ![c] =
              CASE kind = "auth" -> "auth"
                [] kind = "run with token" -> "token"
                [] kind = "run" -> "run"
                [] refused -> "none"
                [] OTHER -> "find"]
         /\ IF refused THEN Respond(c, Head(inbox[c]).id, 0) ELSE UNCHANGED out
  /\ UNCHANGED <<conn, sent, tokens, workerVars, streamVars>>

\* Seeded fault: a subscription with a token is answered when the token is known, too.
Authenticated_AnswersTwice(c, ok) ==
  /\ conn[c] = "open" /\ doing[c] \in {"auth", "token"}
  /\ tokens' = IF ok THEN tokens \cup {c} ELSE tokens
  /\ IF ok /\ doing[c] = "token"
       THEN doing' = [doing EXCEPT ![c] = "run"] /\ Respond(c, current[c], 0)
       ELSE doing' = [doing EXCEPT ![c] = "none"] /\ Respond(c, current[c], 0)
  /\ UNCHANGED <<conn, inbox, current, sent, workerVars, streamVars>>

\* ws_authenticate answers.  A subscription to a run that came with a token goes
\* on with it.
Authenticated(c, ok) ==
  /\ conn[c] = "open" /\ doing[c] \in {"auth", "token"}
  /\ tokens' = IF ok THEN tokens \cup {c} ELSE tokens
  /\ IF ok /\ doing[c] = "token"
       THEN doing' = [doing EXCEPT ![c] = "run"] /\ UNCHANGED out
       ELSE doing' = [doing EXCEPT ![c] = "none"] /\ Respond(c, current[c], 0)
  /\ UNCHANGED <<conn, inbox, current, sent, workerVars, streamVars>>

\* Seeded fault: a refused subscription is not answered.
RunSubscribed_OkOnly(c) ==
  /\ conn[c] = "open" /\ doing[c] = "run" /\ c \in tokens
  /\ doing' = [doing EXCEPT ![c] = "none"]
  /\ Respond(c, current[c], 0)
  /\ UNCHANGED <<conn, inbox, current, sent, tokens, workerVars, streamVars>>

\* The run is not found, or it refuses the tokens, or it gives a stream.
RunSubscribed(c) ==
  /\ conn[c] = "open" /\ doing[c] = "run"
  /\ doing' = [doing EXCEPT ![c] = "none"]
  /\ Respond(c, current[c], 0)
  /\ UNCHANGED <<conn, inbox, current, sent, tokens, workerVars, streamVars>>

\* AddressBook::get_or_start
GetOrStart(h) ==
  IF book \in alive
    THEN /\ holds' = [holds EXCEPT ![h] = book]
         /\ UNCHANGED <<alive, book, subs>>
    ELSE \E w \in Workers \ alive :
           /\ alive' = alive \cup {w} /\ book' = w
           /\ holds' = [holds EXCEPT ![h] = w]
           /\ subs' = [subs EXCEPT ![w] = {}]

\* DBWorker's GetUserWorker
GetUserWorker(c) ==
  /\ conn[c] = "open" /\ doing[c] = "find"
  /\ GetOrStart(c)
  /\ doing' = [doing EXCEPT ![c] = "subscribe"]
  /\ UNCHANGED <<conn, inbox, current, sent, tokens, out, streamVars>>

\* UserWorker's SubscribeSigReq, and the answer; the address is dropped.
SubscribeSigReq(c) ==
  LET s == Len(streams) + 1
  IN  /\ conn[c] = "open" /\ doing[c] = "subscribe"
      /\ subs' = [subs EXCEPT ![holds[c]] = @ \cup {s}]
      /\ streams' = Append(streams, [session |-> c, since |-> sigreqs])
      /\ channel' = Append(channel, <<>>)
      /\ holds' = [holds EXCEPT ![c] = 0]
      /\ doing' = [doing EXCEPT ![c] = "none"]
      /\ Respond(c, current[c], s)
      /\ UNCHANGED <<conn, inbox, current, sent, tokens, alive, book, sigreqs>>

\* A stream of the session has an event; streams rest while a request is handled.
Forward(s) ==
  LET c == streams[s].session
  IN  /\ conn[c] = "open" /\ doing[c] = "none" /\ channel[s] # <<>>
      /\ out' = [out EXCEPT ![c] = Append(@, EventOf(s, Head(channel[s])))]
      /\ channel' = [channel EXCEPT ![s] = Tail(@)]
      /\ UNCHANGED <<conn, inbox, doing, current, sent, tokens, workerVars, streams, sigreqs>>

\* The client closes the connection, or it breaks; the actor stops, and what it
\* waited for is dropped with it.
Close(c) ==
  /\ conn[c] = "open"
  /\ conn' = [conn EXCEPT ![c] = "closed"]
  /\ doing' = [doing EXCEPT ![c] = "none"]
  /\ holds' = [holds EXCEPT ![c] = 0]
  /\ UNCHANGED <<inbox, current, sent, tokens, out, alive, book, subs, streamVars>>

-----------------------------------------------------------------------------
(* The user's worker *)

Listens(s) == conn[streams[s].session] = "open"

\* A run of the user is started, and ends.
RunStarts(r) ==
  /\ holds[r] = 0
  /\ GetOrStart(r)
  /\ UNCHANGED <<sessionVars, streamVars>>

RunEnds(r) ==
  /\ holds[r] # 0
  /\ holds' = [holds EXCEPT ![r] = 0]
  /\ UNCHANGED <<sessionVars, alive, book, subs, streamVars>>

\* process_sigreq: those who are subscribed get the request, the others are
\* forgotten.
SignatureRequest(r) ==
  LET w == holds[r]
      to == {s \in subs[w] : Listens(s)}
  IN  /\ w # 0 /\ sigreqs < MaxSigReqs
      /\ sigreqs' = sigreqs + 1
      /\ subs' = [subs EXCEPT ![w] = to]
      /\ channel' = [s \in Streams |->
                       IF s \in to THEN Append(channel[s], sigreqs + 1) ELSE channel[s]]
      /\ UNCHANGED <<sessionVars, alive, book, holds, streams>>

\* Seeded fault: the worker stops although sessions are subscribed.
Stopping_Always(w) ==
  LET kept == {s \in subs[w] : Listens(s)}
  IN  /\ w \in alive /\ \A h \in DOMAIN holds : holds[h] # w
      /\ subs' = [subs EXCEPT ![w] = kept]
      /\ alive' = alive \ {w}
      /\ UNCHANGED <<sessionVars, book, holds, streamVars>>

\* Actor::stopping, when nobody holds the address.
Stopping(w) ==
  LET kept == {s \in subs[w] : Listens(s)}
  IN  /\ w \in alive /\ \A h \in DOMAIN holds : holds[h] # w
      /\ subs' = [subs EXCEPT ![w] = kept]
      /\ alive' = IF kept = {} THEN alive \ {w} ELSE alive
      /\ UNCHANGED <<sessionVars, book, holds, streamVars>>

-----------------------------------------------------------------------------

Session(c) ==
  \/ Handle(c) \/ RunSubscribed(c) \/ GetUserWorker(c) \/ SubscribeSigReq(c)
  \/ \E ok \in BOOLEAN : Authenticated(c, ok)

Next ==
  \/ \E c \in Clients : Session(c) \/ Close(c) \/ \E kind \in Kinds : Receive(c, kind)
  \/ \E s \in Streams : Forward(s)
  \/ \E r \in Runs : RunStarts(r) \/ RunEnds(r) \/ SignatureRequest(r)
  \/ \E w \in Workers : Stopping(w)

\* An actor that was woken is polled, and its futures come to an end.
Spec ==
  /\ Init /\ [][Next]_vars
  /\ \A c \in Clients : WF_vars(Session(c))
  /\ \A s \in 1..(Cardinality(Clients) * MaxRequests) : WF_vars(s \in Streams /\ Forward(s))

-----------------------------------------------------------------------------

\* What a client tells apart.
Responses == [type : {"response"}, id : Nat, stream : Nat]
EventsOf(s) == [type : {"event"}, id : Nat, stream : {s}]

\* Every request is answered once, in the order of the requests, although each
\* waits for other actors; and no event comes of a stream that no answer named before.
ResponsesInOrder ==
  \A c \in Clients :
    LET r == Keep(out[c], Responses)
    IN  /\ \A i \in 1..Len(r) : r[i].id = i
        /\ \A i \in 1..Len(out[c]) :
             out[c][i].type = "event" =>
               \E j \in 1..(i - 1) :
                 out[c][j].type = "response" /\ out[c][j].stream = out[c][i].stream

\* A session that stays gets every signature request of its user since it
\* subscribed, once and in order, no matter how often the user's runs come and go.
NoRequestMissed ==
  \A s \in Streams :
    LET c == streams[s].session
        seen == Keep(out[c], EventsOf(s))
        n == Len(seen)
    IN  conn[c] = "open" =>
          /\ n + Len(channel[s]) = sigreqs - streams[s].since
          /\ \A i \in 1..n : seen[i].id = streams[s].since + i
          /\ \A i \in 1..Len(channel[s]) : channel[s][i] = streams[s].since + n + i

\* Every request is answered, unless the session is closed.
EveryRequestAnswered ==
  \A c \in Clients :
    (conn[c] = "open" /\ inbox[c] # <<>>) ~> 
      (conn[c] = "closed" \/ (inbox[c] = <<>> /\ doing[c] = "none"))

-----------------------------------------------------------------------------
(* The inductive invariant *)

Message == [type : {"response", "event"}, id : Nat, stream : Nat]
Request == [id : Nat, kind : Kinds]

\* Types.
TypeOK ==
  /\ conn \in [Clients -> {"open", "closed"}] /\ inbox \in [Clients -> Seq(Request)]
  /\ doing \in [Clients -> {"none", "token", "auth", "find", "subscribe", "run"}]
  /\ current \in [Clients -> Nat] /\ sent \in [Clients -> Nat] /\ tokens \subseteq Clients
  /\ out \in [Clients -> Seq(Message)]
  /\ alive \subseteq Workers /\ book \in Workers \cup {0}
  /\ holds \in [Clients \cup Runs -> Workers \cup {0}] /\ subs \in [Workers -> SUBSET Nat]
  /\ streams \in Seq([session : Clients, since : Nat])
  /\ channel \in Seq(Seq(Nat)) /\ Len(channel) = Len(streams) /\ sigreqs \in Nat

\* The requests of a session have the numbers after those of the answers: first the one that
\* is handled, then those that wait.
Pending(c) == IF doing[c] = "none" THEN 0 ELSE 1
Answered(c) == Keep(out[c], Responses)
NumberedFor(c) ==
  /\ \A i \in 1..Len(Answered(c)) : Answered(c)[i].id = i
  /\ conn[c] = "open" =>
       /\ doing[c] # "none" => current[c] = Len(Answered(c)) + 1
       /\ sent[c] = Len(Answered(c)) + Pending(c) + Len(inbox[c])
       /\ \A k \in 1..Len(inbox[c]) : inbox[c][k].id = Len(Answered(c)) + Pending(c) + k
Numbered == \A c \in Clients : NumberedFor(c)

\* A stream is named by an answer before it has events.
NamedIn(s, o, n) == \E j \in 1..n : o[j].type = "response" /\ o[j].stream = s
Named ==
  /\ \A c \in Clients : \A i \in 1..Len(out[c]) :
       /\ out[c][i].stream \in 0..Len(streams)
       /\ out[c][i].type = "event" => NamedIn(out[c][i].stream, out[c], i - 1)
  /\ \A s \in Streams :
       NamedIn(s, out[streams[s].session], Len(out[streams[s].session]))

\* There is one worker at most, the one in the address book: it lives as long as somebody
\* holds it, and every stream that is listened to is subscribed to it.
Subscribed ==
  /\ alive \subseteq {book}
  /\ \A h \in DOMAIN holds : holds[h] # 0 => holds[h] \in alive
  /\ \A c \in Clients : doing[c] = "subscribe" => holds[c] # 0
  /\ \A w \in Workers : subs[w] \subseteq Streams
  /\ \A s \in Streams : Listens(s) => book \in alive /\ s \in subs[book]

Inv == TypeOK /\ Numbered /\ Named /\ Subscribed /\ NoRequestMissed

=============================================================================
