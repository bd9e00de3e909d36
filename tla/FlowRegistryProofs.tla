------------------------- MODULE FlowRegistryProofs -------------------------
(***************************************************************************)
(* What is proved of FlowRegistry, for any flows, edits and depth of calls. *)
(***************************************************************************)
EXTENDS FlowRegistry, SequenceLemmas

-----------------------------------------------------------------------------
(* Names of runs *)

\* Two sequences with the same elements are equal.
LEMMA SameElements ==
  ASSUME NEW S, NEW s \in Seq(S), NEW t \in Seq(S), Len(s) = Len(t), \A i \in 1..Len(s) : s[i] = t[i]
  PROVE  s = t
  OBVIOUS

\* What Front and Last return.
LEMMA FrontFacts ==
  ASSUME NEW S, NEW s \in Seq(S), s # <<>>
  PROVE  /\ Front(s) \in Seq(S) /\ Last(s) \in S /\ s = Append(Front(s), Last(s))
         /\ Range(s) = Range(Front(s)) \cup {Last(s)}
<1> DEFINE f == Front(s)
           e == Last(s)
           t == Append(f, e)
<1>1. Len(s) \in Nat \ {0}
  BY TailFacts
<1>2. Len(s) - 1 \in 0..Len(s) /\ Len(s) \in 1..Len(s)
  BY <1>1
<1>3. e = s[Len(s)] /\ e \in S
  BY <1>2 DEF Last
<1>4. f \in Seq(S) /\ Len(f) = Len(s) - 1 /\ \A i \in 1..Len(s) - 1 : f[i] = s[i]
  BY <1>2, SplitFacts DEF Front
<1> HIDE DEF f, e
<1>5. t \in Seq(S) /\ Len(t) = Len(f) + 1 /\ t[Len(f) + 1] = e /\ \A i \in 1..Len(f) : t[i] = f[i]
  BY <1>3, <1>4, AppendFacts
<1> HIDE DEF t
<1>6. \A i \in 1..Len(s) : s[i] = t[i]
  <2> SUFFICES ASSUME NEW i \in 1..Len(s) PROVE s[i] = t[i]
    OBVIOUS
  <2>1. i \in 1..Len(s) - 1 \/ i = Len(s)
    BY <1>1
  <2> QED
    BY <1>1, <1>3, <1>4, <1>5, <2>1
<1>7. s = t
  BY <1>1, <1>4, <1>5, <1>6, SameElements
<1>8. Range(t) = Range(f) \cup {e}
  BY <1>3, <1>4, RangeAppend DEF t
<1> QED
  BY <1>3, <1>4, <1>7, <1>8 DEF f, e, t

\* The caller of a call, and which of its nodes it was.
LEMMA ChildFacts ==
  ASSUME NEW S, NEW p \in Seq(S), NEW i \in S
  PROVE  /\ Append(p, i) \in Seq(S) /\ Append(p, i) # <<>> /\ Append(p, i) # p
         /\ Front(Append(p, i)) = p /\ Last(Append(p, i)) = i
<1> DEFINE q == Append(p, i)
<1>1. /\ q \in Seq(S) /\ Len(p) \in Nat /\ Len(q) = Len(p) + 1 /\ q[Len(p) + 1] = i
      /\ \A j \in 1..Len(p) : q[j] = p[j]
  BY AppendFacts
<1> HIDE DEF q
<1>2. q # <<>> /\ q # p
  BY <1>1, EmptyFacts
<1>3. Last(q) = i
  BY <1>1 DEF Last
<1>4. Front(q) \in Seq(S) /\ Len(Front(q)) = Len(p) /\ \A j \in 1..Len(p) : Front(q)[j] = q[j]
  <2>1. Len(p) \in 0..Len(q) /\ Len(q) - 1 = Len(p)
    BY <1>1
  <2> QED
    BY <1>1, <2>1, SplitFacts DEF Front
<1>5. Front(q) = p
  BY <1>1, <1>4, SameElements
<1> QED
  BY <1>1, <1>2, <1>3, <1>5 DEF q

\* The same for names of runs.
LEMMA NameFacts ==
  ASSUME NEW p \in Seq(Nat), NEW i \in Nat
  PROVE  /\ Append(p, i) \in Seq(Nat) /\ Append(p, i) # <<>> /\ Append(p, i) # p
         /\ Front(Append(p, i)) = p /\ Last(Append(p, i)) = i
<1> DEFINE S == Nat
<1>1. p \in Seq(S) /\ i \in S
  OBVIOUS
<1> HIDE DEF S
<1>2. /\ Append(p, i) \in Seq(S) /\ Append(p, i) # <<>> /\ Append(p, i) # p
      /\ Front(Append(p, i)) = p /\ Last(Append(p, i)) = i
  BY <1>1, ChildFacts
<1> QED
  BY <1>2 DEF S

-----------------------------------------------------------------------------
(* get_all_flows *)

\* What was in the database.
LEMMA VersionFacts ==
  ASSUME TypeOK, Cached, NEW f \in Flows, NEW v \in 1..current[f]
  PROVE  Versions[f][v] \in Seq(Flows) /\ Range(Versions[f][v]) \subseteq AnyVersion(f)
<1>1. Versions[f] \in Seq(Seq(Flows)) /\ current[f] \in 1..Len(Versions[f])
  BY CallsAssumption DEF Cached
<1>2. v \in 1..Len(Versions[f])
  BY <1>1
<1>3. Versions[f][v] \in Seq(Flows)
  <2> DEFINE F == Seq(Flows)
  <2>1. Versions[f] \in Seq(F)
    BY <1>1
  <2> HIDE DEF F
  <2>2. Versions[f][v] \in F
    BY <1>2, <2>1
  <2> QED
    BY <2>2 DEF F
<1> QED
  BY <1>3 DEF AnyVersion

\* A flow is loaded.
LEMMA LoadFacts ==
  ASSUME TypeOK, Cached, NEW f \in Flows, Load(f)
  PROVE  \E calls \in Seq(Flows) :
           /\ Range(calls) \subseteq AnyVersion(f) /\ phase = "loading"
           /\ queue' \in Seq(Flows) /\ f \in Range(queue)
           /\ Range(queue) \subseteq Range(queue') \cup {f}
           /\ Range(calls) \subseteq Range(queue') \cup DOMAIN flows \cup {f}
           /\ Range(queue') \subseteq Range(queue) \cup Range(calls)
           /\ flows' \in [DOMAIN flows \cup {f} -> Seq(Flows)] /\ DOMAIN flows' = DOMAIN flows \cup {f}
           /\ flows'[f] = calls /\ \A g \in DOMAIN flows : g # f => flows'[g] = flows[g]
           /\ UNCHANGED <<phase, dbVars, run, stopped, panicked>>
<1>1. /\ queue \in Seq(Flows) /\ DOMAIN flows \subseteq Flows /\ flows \in [DOMAIN flows -> Seq(Flows)]
      /\ current[f] \in 1..Len(Versions[f]) /\ recent[f] \subseteq 1..current[f]
  BY DEF TypeOK, Cached
<1>2. /\ queue # <<>> /\ f = Last(queue) /\ phase = "loading"
      /\ UNCHANGED <<phase, dbVars, run, stopped, panicked>>
  BY DEF Load
<1>3. PICK calls \in Readable(f) :
        queue' = Front(queue) \o NotLoaded(f, calls) /\ flows' = With(flows, f, calls)
  BY DEF Load
<1>4. calls \in Seq(Flows) /\ Range(calls) \subseteq AnyVersion(f)
  <2>1. PICK v \in {current[f]} \cup recent[f] : calls = Versions[f][v]
    BY <1>3 DEF Readable
  <2>2. v \in 1..current[f]
    BY <1>1, <2>1
  <2> QED
    BY <2>1, <2>2, VersionFacts
<1> DEFINE T == Flows \ (DOMAIN flows \cup {f})
           k == NotLoaded(f, calls)
<1>5. k \in Seq(Flows) /\ Range(k) = Range(calls) \cap T
  BY <1>4, KeepRange DEF NotLoaded
<1>6. Range(calls) \subseteq Flows
  BY <1>4, RangeFacts
<1> HIDE DEF k
<1>7. Front(queue) \in Seq(Flows) /\ Range(queue) = Range(Front(queue)) \cup {f}
  BY <1>1, <1>2, FrontFacts
<1>8. queue' \in Seq(Flows) /\ Range(queue') = Range(Front(queue)) \cup Range(k)
  BY <1>3, <1>5, <1>7, ConcatFacts, RangeConcat DEF k
<1>9. /\ flows' \in [DOMAIN flows \cup {f} -> Seq(Flows)] /\ DOMAIN flows' = DOMAIN flows \cup {f}
      /\ flows'[f] = calls /\ \A g \in DOMAIN flows : g # f => flows'[g] = flows[g]
  <2> DEFINE w == With(flows, f, calls)
  <2>1. w = [n \in DOMAIN flows \cup {f} |-> IF n = f THEN calls ELSE flows[n]]
    BY DEF With
  <2>2. DOMAIN w = DOMAIN flows \cup {f}
    BY <2>1
  <2>3. w[f] = calls
    BY <2>1
  <2>4. \A g \in DOMAIN flows : g # f => w[g] = flows[g]
    BY <2>1
  <2> HIDE DEF w
  <2>5. \A g \in DOMAIN flows \cup {f} : w[g] \in Seq(Flows)
    BY <1>1, <1>4, <2>3, <2>4
  <2>6. w \in [DOMAIN flows \cup {f} -> Seq(Flows)]
    BY <2>1, <2>5
  <2>7. flows' = w
    BY <1>3 DEF w
  <2> QED
    BY <2>2, <2>3, <2>4, <2>6, <2>7
<1>10. /\ f \in Range(queue) /\ Range(queue) \subseteq Range(queue') \cup {f}
       /\ Range(calls) \subseteq Range(queue') \cup DOMAIN flows \cup {f}
       /\ Range(queue') \subseteq Range(queue) \cup Range(calls)
  BY <1>5, <1>6, <1>7, <1>8
<1> QED
  BY <1>2, <1>4, <1>8, <1>9, <1>10

\* What does not change the loaded flows keeps them closed.
LEMMA ClosedFrame ==
  ASSUME Closed, UNCHANGED <<flows, queue, current>>, phase' = "ready" => queue = <<>>
  PROVE  Closed'
<1>1. \A f : AnyVersion(f)' = AnyVersion(f)
  BY DEF AnyVersion
<1>2. Found' = Found
  BY DEF Found
<1> QED
  BY <1>1, <1>2 DEF Closed

\* An edit adds to what may be loaded.
LEMMA EditClosed ==
  ASSUME TypeOK, Cached, Closed, NEW f \in Flows, Edit(f)
  PROVE  Closed' /\ Cached'
<1>1. /\ current \in [Flows -> Nat] /\ recent \in [Flows -> SUBSET Nat]
      /\ current' = [current EXCEPT ![f] = @ + 1] /\ current[f] < Len(Versions[f])
      /\ recent' = [recent EXCEPT ![f] = @ \cup {current[f]}]
      /\ UNCHANGED <<phase, queue, flows>>
  BY DEF TypeOK, Edit
<1>2. \A g \in Flows : /\ current'[g] = IF g = f THEN current[f] + 1 ELSE current[g]
                       /\ recent'[g] = IF g = f THEN recent[f] \cup {current[f]} ELSE recent[g]
                       /\ current[g] \in Nat
  BY <1>1
<1>3. \A g \in Flows : 1..current[g] \subseteq 1..current'[g]
  BY <1>2
<1>4. Found' = Found
  BY <1>1 DEF Found
<1>5. \A g \in Flows : AnyVersion(g) \subseteq AnyVersion(g)'
  BY <1>3 DEF AnyVersion
<1>6. Closed'
  BY <1>1, <1>4, <1>5 DEF Closed
<1>7. ASSUME NEW g \in Flows
      PROVE  current'[g] \in 1..Len(Versions[g]) /\ recent'[g] \subseteq 1..current'[g]
  <2>1. current[g] \in 1..Len(Versions[g]) /\ recent[g] \subseteq 1..current[g] /\ Len(Versions[g]) \in Nat
    BY CallsAssumption DEF Cached
  <2>2. current'[g] \in 1..Len(Versions[g])
    BY <1>1, <1>2, <2>1
  <2>3. current[g] \in 1..current'[g]
    BY <1>2, <2>1
  <2> QED
    BY <1>2, <1>3, <2>1, <2>2, <2>3
<1> QED
  BY <1>6, <1>7 DEF Cached

\* What a loaded flow calls is found, and some version that could be read calls it.
LEMMA LoadClosed ==
  ASSUME TypeOK, Cached, Closed, NEW f \in Flows, Load(f)
  PROVE  Closed'
<1>1. PICK calls \in Seq(Flows) :
        /\ Range(calls) \subseteq AnyVersion(f) /\ phase = "loading"
        /\ f \in Range(queue) /\ Range(queue) \subseteq Range(queue') \cup {f}
        /\ Range(calls) \subseteq Range(queue') \cup DOMAIN flows \cup {f}
        /\ Range(queue') \subseteq Range(queue) \cup Range(calls)
        /\ DOMAIN flows' = DOMAIN flows \cup {f} /\ flows'[f] = calls
        /\ \A g \in DOMAIN flows : g # f => flows'[g] = flows[g]
        /\ UNCHANGED <<phase, dbVars, run, stopped, panicked>>
  BY LoadFacts
<1>2. Found' = Found \cup Range(calls)
  <2>1. Found' = (DOMAIN flows \cup {f}) \cup Range(queue')
    BY <1>1 DEF Found
  <2> QED
    BY <1>1, <2>1 DEF Found
<1>3. \A g : AnyVersion(g)' = AnyVersion(g)
  BY <1>1 DEF AnyVersion, dbVars
<1>4. \A g \in DOMAIN flows' : Range(flows'[g]) \subseteq Found'
  <2> SUFFICES ASSUME NEW g \in DOMAIN flows' PROVE Range(flows'[g]) \subseteq Found'
    OBVIOUS
  <2>1. CASE g = f
    BY <1>1, <1>2, <2>1
  <2>2. CASE g # f
    <3>1. g \in DOMAIN flows /\ flows'[g] = flows[g]
      BY <1>1, <2>2
    <3> QED
      BY <1>2, <3>1 DEF Closed
  <2> QED
    BY <2>1, <2>2
<1>5. ASSUME NEW S \in SUBSET Flows, Entrypoint \in S, \A g \in S : AnyVersion(g) \subseteq S
      PROVE  Found' \subseteq S
  <2>1. Found \subseteq S
    BY <1>5 DEF Closed
  <2>2. f \in S
    BY <1>1, <2>1 DEF Found
  <2> QED
    BY <1>1, <1>2, <1>5, <2>1, <2>2
<1> QED
  BY <1>1, <1>2, <1>3, <1>4, <1>5 DEF Closed

\* The loaded flows stay closed.
LEMMA NextClosed ==
  ASSUME TypeOK, Cached, Closed, Next
  PROVE  Closed' /\ Cached'
<1>1. ASSUME UNCHANGED <<flows, queue, dbVars>>, phase' = "ready" => queue = <<>>
      PROVE  Closed' /\ Cached'
  BY <1>1, ClosedFrame DEF Cached, dbVars
<1>2. ASSUME NEW f \in Flows, Load(f) PROVE Closed' /\ Cached'
  <2>1. UNCHANGED dbVars
    BY <1>2 DEF Load
  <2> QED
    BY <1>2, <2>1, LoadClosed DEF Cached, dbVars
<1>3. ASSUME NEW f \in Flows, Expire(f) PROVE Closed' /\ Cached'
  <2>1. /\ recent \in [Flows -> SUBSET Nat] /\ recent' = [recent EXCEPT ![f] = {}]
        /\ UNCHANGED <<flows, queue, current, phase>>
    BY <1>3 DEF Expire, TypeOK
  <2>2. \A g \in Flows : recent'[g] \subseteq recent[g]
    BY <2>1
  <2>3. Cached'
    BY <2>1, <2>2 DEF Cached
  <2> QED
    BY <2>1, <2>3, ClosedFrame DEF Closed
<1>4. ASSUME LoadFails \/ Loaded PROVE Closed' /\ Cached'
  <2>1. UNCHANGED <<flows, queue, dbVars>> /\ (phase' = "ready" => queue = <<>>)
    BY <1>4 DEF LoadFails, Loaded
  <2> QED
    BY <1>1, <2>1
<1>5. ASSUME StartFlow \/ \E q \in Names : Step(q) \/ Stop(q) \/ Panics(q) PROVE Closed' /\ Cached'
  <2>1. UNCHANGED <<flows, queue, dbVars, phase>>
    BY <1>5 DEF StartFlow, Step, Record, StartWorker, Build, StartFails, SetState, End, Call, Stop, Panics
  <2> QED
    BY <1>1, <2>1 DEF Closed
<1> QED
  BY <1>2, <1>3, <1>4, <1>5, EditClosed DEF Next, Registry

-----------------------------------------------------------------------------
(* The records of runs *)

\* The fields of a record.
LEMMA RecordFacts ==
  ASSUME NEW D, NEW runs \in [D -> RunRecord], NEW p \in D
  PROVE  /\ runs[p] \in RunRecord /\ runs[p].flow \in Flows /\ runs[p].result \in {"none", "ok", "error"}
         /\ runs[p].state \in {"new", "recorded", "watched", "running", "not recorded", "failed", "ended"}
         /\ runs[p].call \in Seq(CallStates) /\ DOMAIN runs[p].call \subseteq Nat
         /\ \A i \in DOMAIN runs[p].call : runs[p].call[i] \in CallStates
<1>1. runs[p] \in RunRecord
  OBVIOUS
<1>2. /\ runs[p].flow \in Flows /\ runs[p].result \in {"none", "ok", "error"}
      /\ runs[p].state \in {"new", "recorded", "watched", "running", "not recorded", "failed", "ended"}
      /\ runs[p].call \in Seq(CallStates)
  BY <1>1 DEF RunRecord
<1> DEFINE s == runs[p].call
<1>3. s \in Seq(CallStates)
  BY <1>2
<1> HIDE DEF s
<1>4. DOMAIN s \subseteq Nat /\ \A i \in DOMAIN s : s[i] \in CallStates
  BY <1>3
<1> QED
  BY <1>1, <1>2, <1>4 DEF s

\* The state of one call changes.
PutCall(runs, p, i, x) == [runs EXCEPT ![p].call[i] = x]

\* Nothing else changes with it.
LEMMA SetCall ==
  ASSUME NEW D, NEW runs \in [D -> RunRecord], NEW p \in D, NEW i \in DOMAIN runs[p].call,
         NEW x \in CallStates, NEW new, new = PutCall(runs, p, i, x)
  PROVE  /\ new \in [D -> RunRecord]
         /\ \A q \in D : /\ new[q].flow = runs[q].flow /\ new[q].state = runs[q].state
                         /\ new[q].result = runs[q].result /\ DOMAIN new[q].call = DOMAIN runs[q].call
         /\ \A q \in D : \A j \in DOMAIN runs[q].call :
              new[q].call[j] = IF q = p /\ j = i THEN x ELSE runs[q].call[j]
<1>1. /\ runs[p] \in RunRecord /\ runs[p].flow \in Flows /\ runs[p].result \in {"none", "ok", "error"}
      /\ runs[p].state \in {"new", "recorded", "watched", "running", "not recorded", "failed", "ended"}
      /\ runs[p].call \in Seq(CallStates)
  BY RecordFacts
<1> DEFINE s == runs[p].call
           t == [s EXCEPT ![i] = x]
           r == [runs[p] EXCEPT !.call = t]
<1>2. /\ t \in Seq(CallStates) /\ DOMAIN t = DOMAIN s
      /\ \A j \in DOMAIN s : t[j] = IF j = i THEN x ELSE s[j]
  <2>1. s \in Seq(CallStates) /\ i \in DOMAIN s
    BY <1>1
  <2> HIDE DEF s
  <2> QED
    BY <2>1
<1>3. new = [runs EXCEPT ![p] = r]
  BY DEF PutCall
<1> HIDE DEF t, s
<1>4. /\ r \in RunRecord /\ r.flow = runs[p].flow /\ r.state = runs[p].state
      /\ r.result = runs[p].result /\ r.call = t
  BY <1>1, <1>2 DEF RunRecord
<1> HIDE DEF r
<1>5. new \in [D -> RunRecord] /\ new[p] = r /\ \A q \in D : q # p => new[q] = runs[q]
  BY <1>3, <1>4
<1>6. \A q \in D : /\ new[q].flow = runs[q].flow /\ new[q].state = runs[q].state
                   /\ new[q].result = runs[q].result /\ DOMAIN new[q].call = DOMAIN runs[q].call
  BY <1>2, <1>4, <1>5 DEF s
<1>7. \A q \in D : \A j \in DOMAIN runs[q].call :
        new[q].call[j] = IF q = p /\ j = i THEN x ELSE runs[q].call[j]
  BY <1>2, <1>4, <1>5 DEF s
<1> QED
  BY <1>5, <1>6, <1>7

\* The caller of q, and it alone, has an answer.
Answers(D, runs, q, new, res) ==
  /\ new \in [D -> RunRecord]
  /\ \A p \in D : /\ new[p].flow = runs[p].flow /\ new[p].state = runs[p].state
                  /\ new[p].result = runs[p].result /\ DOMAIN new[p].call = DOMAIN runs[p].call
  /\ \A p \in D : \A i \in DOMAIN runs[p].call :
       new[p].call[i] = IF Append(p, i) = q /\ runs[p].call[i] = "waiting" THEN res ELSE runs[p].call[i]

\* That is what `Answer' does to the runs.
LEMMA AnswerFacts ==
  ASSUME NEW D, D \subseteq Seq(Nat), NEW runs \in [D -> RunRecord], NEW q \in D, NEW res \in {"ok", "error"},
         q # <<>> => Front(q) \in D /\ Last(q) \in DOMAIN runs[Front(q)].call
  PROVE  Answers(D, runs, q, Answer(runs, q, res), res)
<1> DEFINE new == Answer(runs, q, res)
<1>1. ASSUME NEW p \in D, NEW i \in DOMAIN runs[p].call
      PROVE  /\ Append(p, i) # <<>> /\ i \in Nat
             /\ q # <<>> => (Append(p, i) = q <=> p = Front(q) /\ i = Last(q))
  <2>1. p \in Seq(Nat) /\ i \in Nat
    BY RecordFacts
  <2>2. Append(p, i) # <<>> /\ Front(Append(p, i)) = p /\ Last(Append(p, i)) = i
    BY <2>1, NameFacts
  <2>3. q # <<>> => q = Append(Front(q), Last(q))
    BY FrontFacts
  <2> QED
    BY <2>1, <2>2, <2>3
<1>2. CASE q = <<>>
  <2>1. new = runs
    BY <1>2 DEF Answer
  <2> QED
    BY <1>1, <1>2, <2>1 DEF Answers
<1>3. CASE q # <<>>
  <2> DEFINE c == Front(q)
             l == Last(q)
             x == IF runs[c].call[l] = "waiting" THEN res ELSE runs[c].call[l]
  <2>1. new = PutCall(runs, c, l, x)
    BY <1>3 DEF Answer, Caller, PutCall
  <2>2. c \in D /\ l \in DOMAIN runs[c].call
    BY <1>3
  <2>3. x \in CallStates
    <3>1. runs[c].call[l] \in CallStates
      BY <2>2, RecordFacts
    <3> QED
      BY <3>1 DEF CallStates
  <2>4. \A p \in D : \A i \in DOMAIN runs[p].call : Append(p, i) = q <=> p = c /\ i = l
    BY <1>1, <1>3
  <2>5. (runs[c].call[l] = "waiting" => x = res) /\ (runs[c].call[l] # "waiting" => x = runs[c].call[l])
    OBVIOUS
  <2> HIDE DEF c, l, x, new
  <2>6. runs \in [D -> RunRecord]
    OBVIOUS
  <2>7. /\ new \in [D -> RunRecord]
        /\ \A p \in D : /\ new[p].flow = runs[p].flow /\ new[p].state = runs[p].state
                        /\ new[p].result = runs[p].result /\ DOMAIN new[p].call = DOMAIN runs[p].call
        /\ \A p \in D : \A j \in DOMAIN runs[p].call :
             new[p].call[j] = IF p = c /\ j = l THEN x ELSE runs[p].call[j]
    BY ONLY <2>1, <2>2, <2>3, <2>6, SetCall
  <2>8. \A p \in D : \A i \in DOMAIN runs[p].call :
          new[p].call[i] = IF Append(p, i) = q /\ runs[p].call[i] = "waiting" THEN res ELSE runs[p].call[i]
    BY <2>4, <2>5, <2>7
  <2> QED
    BY <2>7, <2>8 DEF Answers, new
<1> QED
  BY <1>2, <1>3

\* What a step of starting a run changes.
LEMMA SetStateFacts ==
  ASSUME TypeOK, NEW q \in Names, NEW from,
         NEW to \in {"recorded", "watched", "running"}, SetState(q, from, to)
  PROVE  /\ run[q].state = from /\ Names' = Names /\ UNCHANGED <<stopped, panicked>>
         /\ run' \in [Names -> RunRecord]
         /\ \A p \in Names : /\ run'[p].call = run[p].call /\ run'[p].result = run[p].result
                             /\ run'[p].state = IF p = q THEN to ELSE run[p].state
<1> DEFINE r == [run[q] EXCEPT !.state = to]
<1>1. run \in [Names -> RunRecord] /\ run[q] \in RunRecord
  BY DEF TypeOK
<1>2. r \in RunRecord /\ r.call = run[q].call /\ r.result = run[q].result /\ r.state = to
  BY <1>1 DEF RunRecord
<1>3. run' = [run EXCEPT ![q] = r] /\ run[q].state = from /\ UNCHANGED <<stopped, panicked>>
  BY DEF SetState
<1> HIDE DEF r
<1>4. run' \in [Names -> RunRecord] /\ \A p \in Names : run'[p] = IF p = q THEN r ELSE run[p]
  BY ONLY <1>1, <1>2, <1>3, q \in Names
<1>5. Names' = Names
  BY <1>4 DEF Names
<1> QED
  BY <1>2, <1>3, <1>4, <1>5

\* What a failed start changes.
LEMMA StartFailsFacts ==
  ASSUME TypeOK, Called, NEW q \in Names, StartFails(q)
  PROVE  /\ run[q].state \in {"new", "recorded", "watched"} /\ Names' = Names /\ UNCHANGED <<stopped, panicked>>
         /\ run' \in [Names -> RunRecord]
         /\ \A p \in Names : /\ run'[p].result = run[p].result /\ Nodes(p)' = Nodes(p)
                             /\ p # q => run'[p].state = run[p].state
         /\ run'[q].state \in {"not recorded", "failed"}
         /\ \A p \in Names : \A i \in Nodes(p) :
              run'[p].call[i] = IF Append(p, i) = q /\ run[p].call[i] = "waiting" THEN "error" ELSE run[p].call[i]
<1> DEFINE to == IF run[q].state = "new" THEN "not recorded" ELSE "failed"
           r == [run[q] EXCEPT !.state = to]
           mid == [run EXCEPT ![q] = r]
           D == Names
<1>1. run \in [D -> RunRecord] /\ run[q] \in RunRecord /\ q \in D /\ D \subseteq Seq(Nat)
  BY DEF TypeOK
<1>2. r \in RunRecord /\ r.call = run[q].call /\ r.result = run[q].result /\ r.state = to
  BY <1>1 DEF RunRecord
<1>3. /\ run' = Answer(mid, q, "error") /\ run[q].state \in {"new", "recorded", "watched"}
      /\ UNCHANGED <<stopped, panicked>>
  BY DEF StartFails
<1>4. q # <<>> => Front(q) \in D /\ Last(q) \in DOMAIN run[Front(q)].call
  BY DEF Called, Caller, Nodes
<1>5. to \in {"not recorded", "failed"}
  OBVIOUS
<1> HIDE DEF r, to, D
<1>6. mid \in [D -> RunRecord] /\ \A p \in D : mid[p] = IF p = q THEN r ELSE run[p]
  BY ONLY <1>1, <1>2
<1> HIDE DEF mid
<1>7. \A p \in D : /\ mid[p].call = run[p].call /\ mid[p].result = run[p].result
                   /\ p # q => mid[p].state = run[p].state
  BY <1>2, <1>6
<1>8. q # <<>> => Front(q) \in D /\ Last(q) \in DOMAIN mid[Front(q)].call
  BY <1>4, <1>7
<1>9. /\ run' \in [D -> RunRecord]
      /\ \A p \in D : /\ run'[p].flow = mid[p].flow /\ run'[p].state = mid[p].state
                      /\ run'[p].result = mid[p].result /\ DOMAIN run'[p].call = DOMAIN mid[p].call
      /\ \A p \in D : \A i \in DOMAIN mid[p].call :
           run'[p].call[i] = IF Append(p, i) = q /\ mid[p].call[i] = "waiting" THEN "error" ELSE mid[p].call[i]
  <2>1. "error" \in {"ok", "error"}
    OBVIOUS
  <2>2. Answers(D, mid, q, Answer(mid, q, "error"), "error")
    BY ONLY <1>1, <1>6, <1>8, <2>1, AnswerFacts
  <2> QED
    BY ONLY <1>3, <2>2 DEF Answers
<1>10. Names' = Names
  BY <1>9 DEF Names, D
<1>11. \A p \in Names : Nodes(p)' = Nodes(p)
  BY <1>7, <1>9 DEF Nodes, D
<1>12. /\ \A p \in Names : run'[p].result = run[p].result /\ (p # q => run'[p].state = run[p].state)
       /\ run'[q].state \in {"not recorded", "failed"}
  BY <1>1, <1>2, <1>5, <1>6, <1>7, <1>9 DEF D
<1>13. \A p \in Names : \A i \in Nodes(p) :
         run'[p].call[i] = IF Append(p, i) = q /\ run[p].call[i] = "waiting" THEN "error" ELSE run[p].call[i]
  BY <1>7, <1>9 DEF D, Nodes
<1>14. run' \in [Names -> RunRecord]
  BY <1>9 DEF D
<1> QED
  BY <1>3, <1>10, <1>11, <1>12, <1>13, <1>14

\* What the end of a run changes.
LEMMA EndFacts ==
  ASSUME TypeOK, Called, NEW q \in Names, NEW res \in {"ok", "error"}, Ended(q, res)
  PROVE  /\ Names' = Names /\ run' \in [Names -> RunRecord]
         /\ \A p \in Names : Nodes(p)' = Nodes(p)
         /\ \A p \in Names : p # q => run'[p].state = run[p].state /\ run'[p].result = run[p].result
         /\ run'[q].state = "ended" /\ run'[q].result = res
         /\ \A p \in Names : \A i \in Nodes(p) :
              run'[p].call[i] = IF run[p].call[i] # "waiting" THEN run[p].call[i]
                                ELSE IF p = q THEN "dropped"
                                ELSE IF Append(p, i) = q THEN res ELSE "waiting"
<1> DEFINE s == run[q].call
           t == [i \in DOMAIN s |-> IF s[i] = "waiting" THEN "dropped" ELSE s[i]]
           r == [run[q] EXCEPT !.state = "ended", !.result = res, !.call = t]
           mid == [run EXCEPT ![q] = r]
           D == Names
<1>1. run \in [D -> RunRecord] /\ run[q] \in RunRecord /\ q \in D /\ D \subseteq Seq(Nat)
  BY DEF TypeOK
<1>2. s \in Seq(CallStates) /\ \A i \in DOMAIN s : s[i] \in CallStates
  BY ONLY <1>1, RecordFacts
<1>3. run' = Answer(mid, q, res)
  BY DEF Ended, Nodes
<1>4. q # <<>> => Front(q) \in D /\ Last(q) \in DOMAIN run[Front(q)].call
  BY DEF Called, Caller, Nodes
<1>5. /\ t \in Seq(CallStates) /\ DOMAIN t = DOMAIN s
      /\ \A i \in DOMAIN s : t[i] = IF s[i] = "waiting" THEN "dropped" ELSE s[i]
  <2> HIDE DEF s
  <2>1. DOMAIN s = 1..Len(s) /\ Len(s) \in Nat
    BY <1>2
  <2>2. \A i \in DOMAIN s : (IF s[i] = "waiting" THEN "dropped" ELSE s[i]) \in CallStates
    BY <1>2 DEF CallStates
  <2>3. t \in [1..Len(s) -> CallStates]
    BY <2>1, <2>2
  <2>4. t \in Seq(CallStates)
    BY ONLY <2>1, <2>3
  <2> QED
    BY <2>4
<1> HIDE DEF t
<1>6. r \in RunRecord /\ r.call = t /\ r.result = res /\ r.state = "ended"
  BY <1>1, <1>5 DEF RunRecord
<1> HIDE DEF r, D
<1>7. mid \in [D -> RunRecord] /\ \A p \in D : mid[p] = IF p = q THEN r ELSE run[p]
  BY ONLY <1>1, <1>6
<1> HIDE DEF mid
<1>8. \A p \in D : /\ DOMAIN mid[p].call = DOMAIN run[p].call
                   /\ p # q => mid[p].state = run[p].state /\ mid[p].result = run[p].result
                   /\ \A i \in DOMAIN run[p].call :
                        mid[p].call[i] = IF p = q /\ run[p].call[i] = "waiting" THEN "dropped" ELSE run[p].call[i]
  BY <1>5, <1>6, <1>7
<1>9. q # <<>> => Front(q) \in D /\ Last(q) \in DOMAIN mid[Front(q)].call
  BY <1>4, <1>8
<1>10. /\ run' \in [D -> RunRecord]
       /\ \A p \in D : /\ run'[p].flow = mid[p].flow /\ run'[p].state = mid[p].state
                       /\ run'[p].result = mid[p].result /\ DOMAIN run'[p].call = DOMAIN mid[p].call
       /\ \A p \in D : \A i \in DOMAIN mid[p].call :
            run'[p].call[i] = IF Append(p, i) = q /\ mid[p].call[i] = "waiting" THEN res ELSE mid[p].call[i]
  <2>1. res \in {"ok", "error"}
    OBVIOUS
  <2>2. Answers(D, mid, q, Answer(mid, q, res), res)
    BY ONLY <1>1, <1>7, <1>9, <2>1, AnswerFacts
  <2> QED
    BY ONLY <1>3, <2>2 DEF Answers
<1>11. Names' = Names
  BY <1>10 DEF Names, D
<1>12. \A p \in Names : Nodes(p)' = Nodes(p)
  BY <1>8, <1>10 DEF Nodes, D
<1>13. /\ \A p \in Names : p # q => run'[p].state = run[p].state /\ run'[p].result = run[p].result
       /\ run'[q].state = "ended" /\ run'[q].result = res
  BY <1>1, <1>6, <1>7, <1>8, <1>10 DEF D
<1>14. ASSUME NEW p \in Names, NEW i \in Nodes(p)
       PROVE  run'[p].call[i] = IF run[p].call[i] # "waiting" THEN run[p].call[i]
                                ELSE IF p = q THEN "dropped"
                                ELSE IF Append(p, i) = q THEN res ELSE "waiting"
  <2>1. p \in D /\ i \in DOMAIN run[p].call
    BY DEF D, Nodes
  <2>2. mid[p].call[i] = IF p = q /\ run[p].call[i] = "waiting" THEN "dropped" ELSE run[p].call[i]
    BY <1>8, <2>1
  <2>3. run'[p].call[i] = IF Append(p, i) = q /\ mid[p].call[i] = "waiting" THEN res ELSE mid[p].call[i]
    BY <1>8, <1>10, <2>1
  <2> QED
    BY ONLY <2>2, <2>3
<1>15. run' \in [Names -> RunRecord]
  BY <1>10 DEF D
<1> QED
  BY <1>11, <1>12, <1>13, <1>14, <1>15

\* The record of a new run.
LEMMA NewRunFacts ==
  ASSUME TypeOK, NEW f \in DOMAIN flows
  PROVE  /\ NewRun(f) \in RunRecord /\ NewRun(f).state = "new" /\ NewRun(f).result = "none"
         /\ \A i \in DOMAIN NewRun(f).call : NewRun(f).call[i] = "idle"
<1> DEFINE n == Len(flows[f])
           c == [i \in 1..n |-> "idle"]
<1>1. f \in Flows /\ flows[f] \in Seq(Flows)
  BY DEF TypeOK
<1>2. n \in Nat
  BY <1>1
<1>3. NewRun(f) = [flow |-> f, state |-> "new", result |-> "none", call |-> c]
  BY DEF NewRun
<1> HIDE DEF n
<1>4. c \in Seq(CallStates) /\ \A i \in DOMAIN c : c[i] = "idle"
  BY <1>2 DEF CallStates
<1> HIDE DEF c
<1> QED
  BY <1>1, <1>3, <1>4 DEF RunRecord

\* The user starts the entrypoint, which is loaded.
LEMMA StartFlowFacts ==
  ASSUME TypeOK, Closed, StartFlow
  PROVE  /\ Names' = {<<>>} /\ stopped' = {} /\ panicked' = {} /\ run' \in [{<<>>} -> RunRecord]
         /\ run'[<<>>].state = "new" /\ run'[<<>>].result = "none"
         /\ \A i \in Nodes(<<>>)' : run'[<<>>].call[i] = "idle"
<1> DEFINE r == NewRun(Entrypoint)
<1>1. phase = "ready" /\ Names = {} /\ UNCHANGED <<stopped, panicked>> /\ run' = With(run, <<>>, r)
  BY DEF StartFlow
<1>2. Range(queue) = {}
  BY <1>1, RangeEmpty DEF Closed
<1>3. Entrypoint \in DOMAIN flows
  BY <1>2 DEF Closed, Found
<1>4. r \in RunRecord /\ r.state = "new" /\ r.result = "none" /\ \A i \in DOMAIN r.call : r.call[i] = "idle"
  BY <1>3, NewRunFacts
<1> HIDE DEF r
<1>5. run' = [n \in {<<>>} |-> r]
  BY <1>1 DEF With, Names
<1>6. Names' = {<<>>} /\ run'[<<>>] = r /\ run' \in [{<<>>} -> RunRecord]
  BY <1>4, <1>5 DEF Names
<1>7. stopped = {} /\ panicked = {}
  BY <1>1 DEF TypeOK
<1> QED
  BY <1>1, <1>4, <1>6, <1>7 DEF Nodes

\* What a call that `start' refuses changes.
Refused(p, i, c) ==
  /\ Names' = Names /\ run' \in [Names -> RunRecord]
  /\ \A n \in Names : /\ run'[n].state = run[n].state /\ run'[n].result = run[n].result
                      /\ Nodes(n)' = Nodes(n)
  /\ \A n \in Names : \A j \in Nodes(n) :
       run'[n].call[j] = IF n = p /\ j = i THEN c ELSE run[n].call[j]

\* What a call that starts a run changes.
Begun(p, i, c) ==
  /\ Names' = Names \cup {Append(p, i)} /\ run' \in [Names \cup {Append(p, i)} -> RunRecord]
  /\ \A n \in Names : /\ run'[n].state = run[n].state /\ run'[n].result = run[n].result
                      /\ Nodes(n)' = Nodes(n)
  /\ \A n \in Names : \A j \in Nodes(n) :
       run'[n].call[j] = IF n = p /\ j = i THEN c ELSE run[n].call[j]
  /\ run'[Append(p, i)].state = "new" /\ run'[Append(p, i)].result = "none"
  /\ \A j \in Nodes(Append(p, i))' : run'[Append(p, i)].call[j] = "idle"

\* A call is refused, or starts a run that did not exist.
LEMMA CallFacts ==
  ASSUME TypeOK, Answered, NEW p \in Names, NEW i \in Nodes(p), Call(p, i)
  PROVE  /\ run[p].state = "running" \/ p \in panicked
         /\ UNCHANGED <<stopped, panicked>> /\ Append(p, i) \notin Names /\ Append(p, i) \in Seq(Nat)
         /\ \/ /\ p \notin panicked
               /\ Refused(p, i, "error") \/ Begun(p, i, "waiting")
            \/ /\ p \in panicked
               /\ Refused(p, i, "dropped") \/ Begun(p, i, "dropped")
<1> DEFINE f == flows[run[p].flow][i]
           q == Append(p, i)
           D == Names
           E == D \cup {q}
           mid == With(run, q, NewRun(f))
<1>1. /\ run[p].state = "running" \/ p \in panicked
      /\ run[p].call[i] = "idle" /\ UNCHANGED <<stopped, panicked>>
      /\ \/ run' = [run EXCEPT ![p].call[i] = IF p \in panicked THEN "dropped" ELSE "error"]
         \/ /\ f \in DOMAIN flows
            /\ run' = [mid EXCEPT ![p].call[i] = IF p \in panicked THEN "dropped" ELSE "waiting"]
  BY DEF Call
<1>2. run \in [D -> RunRecord] /\ p \in D /\ D \subseteq Seq(Nat) /\ i \in DOMAIN run[p].call
  BY DEF TypeOK, Nodes
<1>3. p \in Seq(Nat) /\ i \in Nat
  BY ONLY <1>2, RecordFacts
<1>4. q \in Seq(Nat) /\ q # <<>> /\ q # p
  BY ONLY <1>3, NameFacts
<1>5. q \notin D
  BY <1>1 DEF Answered
<1>6. ASSUME NEW c \in CallStates, run' = [run EXCEPT ![p].call[i] = c]
      PROVE  Refused(p, i, c)
  <2>1. run' = PutCall(run, p, i, c)
    BY <1>6 DEF PutCall
  <2> HIDE DEF D
  <2>2. /\ run' \in [D -> RunRecord]
        /\ \A n \in D : /\ run'[n].flow = run[n].flow /\ run'[n].state = run[n].state
                        /\ run'[n].result = run[n].result /\ DOMAIN run'[n].call = DOMAIN run[n].call
        /\ \A n \in D : \A j \in DOMAIN run[n].call :
             run'[n].call[j] = IF n = p /\ j = i THEN c ELSE run[n].call[j]
    BY ONLY <1>2, c \in CallStates, <2>1, SetCall
  <2>3. Names' = Names
    BY <2>2 DEF Names, D
  <2> QED
    BY <2>2, <2>3 DEF Refused, Nodes, D
<1>7. ASSUME NEW c \in CallStates, f \in DOMAIN flows, run' = [mid EXCEPT ![p].call[i] = c]
      PROVE  Begun(p, i, c)
  <2> DEFINE r == NewRun(f)
  <2>1. r \in RunRecord /\ r.state = "new" /\ r.result = "none" /\ \A j \in DOMAIN r.call : r.call[j] = "idle"
    BY <1>7, NewRunFacts
  <2>2. mid = [n \in E |-> IF n = q THEN r ELSE run[n]]
    BY DEF With, Names
  <2>3. run' = PutCall(mid, p, i, c)
    BY <1>7 DEF PutCall
  <2> HIDE DEF r, D, q, mid
  <2>4. /\ mid \in [E -> RunRecord] /\ mid[q] = r /\ \A n \in D : mid[n] = run[n]
    BY <1>2, <1>5, <2>1, <2>2
  <2>5. p \in E /\ i \in DOMAIN mid[p].call
    BY <1>2, <2>4
  <2> HIDE DEF E
  <2>6. /\ run' \in [E -> RunRecord]
        /\ \A n \in E : /\ run'[n].flow = mid[n].flow /\ run'[n].state = mid[n].state
                        /\ run'[n].result = mid[n].result /\ DOMAIN run'[n].call = DOMAIN mid[n].call
        /\ \A n \in E : \A j \in DOMAIN mid[n].call :
             run'[n].call[j] = IF n = p /\ j = i THEN c ELSE mid[n].call[j]
    BY ONLY c \in CallStates, <2>3, <2>4, <2>5, SetCall
  <2>7. D \subseteq E /\ q \in E /\ Names' = E
    BY <2>6 DEF E, Names
  <2>8. \A n \in D : /\ run'[n].state = run[n].state /\ run'[n].result = run[n].result
                     /\ DOMAIN run'[n].call = DOMAIN run[n].call
    BY <2>4, <2>6, <2>7
  <2>9. \A n \in D : \A j \in DOMAIN run[n].call :
          run'[n].call[j] = IF n = p /\ j = i THEN c ELSE run[n].call[j]
    BY <2>4, <2>6, <2>7
  <2>10. run'[q].state = "new" /\ run'[q].result = "none" /\ \A j \in DOMAIN run'[q].call : run'[q].call[j] = "idle"
    BY <1>4, <2>1, <2>4, <2>6, <2>7
  <2> QED
    BY <2>6, <2>7, <2>8, <2>9, <2>10 DEF Begun, Nodes, q, D, E
<1>8. "error" \in CallStates /\ "waiting" \in CallStates /\ "dropped" \in CallStates
  BY DEF CallStates
<1> HIDE DEF mid, f
<1>9. CASE p \in panicked
  BY <1>1, <1>4, <1>5, <1>6, <1>7, <1>8, <1>9
<1>10. CASE p \notin panicked
  BY <1>1, <1>4, <1>5, <1>6, <1>7, <1>8, <1>10
<1> QED
  BY <1>9, <1>10

-----------------------------------------------------------------------------
(* Calls and their answers *)

\* Which call leads to which run.
LEMMA CallerFacts ==
  ASSUME TypeOK, Called
  PROVE  /\ \A q \in Names \ {<<>>} :
              Caller(q) \in Names /\ Last(q) \in Nodes(Caller(q)) /\ Append(Caller(q), Last(q)) = q
         /\ \A p \in Names : \A i \in Nodes(p) :
              /\ Append(p, i) # <<>> /\ Append(p, i) # p
              /\ Caller(Append(p, i)) = p /\ Last(Append(p, i)) = i
<1>1. Names \subseteq Seq(Nat) /\ run \in [Names -> RunRecord]
  BY DEF TypeOK
<1>2. ASSUME NEW q \in Names \ {<<>>}
      PROVE  Caller(q) \in Names /\ Last(q) \in Nodes(Caller(q)) /\ Append(Caller(q), Last(q)) = q
  <2>1. Caller(q) \in Names /\ Last(q) \in Nodes(Caller(q))
    BY DEF Called
  <2>2. q \in Seq(Nat) /\ q # <<>>
    BY <1>1
  <2> QED
    BY <2>1, <2>2, FrontFacts DEF Caller
<1>3. ASSUME NEW p \in Names, NEW i \in Nodes(p)
      PROVE  /\ Append(p, i) # <<>> /\ Append(p, i) # p
             /\ Caller(Append(p, i)) = p /\ Last(Append(p, i)) = i
  <2>1. p \in Seq(Nat) /\ i \in Nat
    <3> DEFINE D == Names
    <3>1. run \in [D -> RunRecord] /\ p \in D /\ D \subseteq Seq(Nat) /\ i \in DOMAIN run[p].call
      BY <1>1 DEF Nodes
    <3> HIDE DEF D
    <3> QED
      BY ONLY <3>1, RecordFacts
  <2> QED
    BY ONLY <2>1, NameFacts DEF Caller
<1> QED
  BY <1>2, <1>3

\* A step of starting a run: what is answered does not change.
LEMMA SetStateCalled ==
  ASSUME TypeOK, Called, Answered, NEW q \in Names, NEW from \in {"new", "recorded", "watched"},
         NEW to \in {"recorded", "watched", "running"}, SetState(q, from, to)
  PROVE  Called' /\ Answered'
<1>1. /\ run[q].state = from /\ Names' = Names /\ UNCHANGED <<stopped, panicked>>
      /\ \A p \in Names : /\ run'[p].call = run[p].call /\ run'[p].result = run[p].result
                          /\ run'[p].state = IF p = q THEN to ELSE run[p].state
  BY SetStateFacts
<1>2. \A p \in Names : Nodes(p)' = Nodes(p)
  BY <1>1 DEF Nodes
<1>3. Called'
  <2>1. \A p \in Names : Live(p)' => Live(p)
    BY <1>1 DEF Live
  <2> QED
    BY <1>1, <1>2, <2>1 DEF Called, Caller
<1>4. \A p \in Names : HasEnd(p)' <=> HasEnd(p)
  BY <1>1 DEF HasEnd
<1>5. run[q].state # "running"
  BY <1>1
<1> HIDE DEF Nodes
<1>6. Answered'
  BY <1>1, <1>2, <1>4, <1>5 DEF Answered, Cut
<1> QED
  BY <1>3, <1>6

\* A failed start: the run that waited for it has its answer.
LEMMA StartFailsCalled ==
  ASSUME TypeOK, Called, Answered, NEW q \in Names, StartFails(q)
  PROVE  Called' /\ Answered'
<1>1. /\ run[q].state \in {"new", "recorded", "watched"} /\ Names' = Names /\ UNCHANGED <<stopped, panicked>>
      /\ \A p \in Names : /\ run'[p].result = run[p].result /\ Nodes(p)' = Nodes(p)
                          /\ p # q => run'[p].state = run[p].state
      /\ run'[q].state \in {"not recorded", "failed"}
      /\ \A p \in Names : \A i \in Nodes(p) :
           run'[p].call[i] = IF Append(p, i) = q /\ run[p].call[i] = "waiting" THEN "error" ELSE run[p].call[i]
  BY StartFailsFacts
<1>2. \A n \in Names \ {<<>>} :
        Caller(n) \in Names /\ Last(n) \in Nodes(Caller(n)) /\ Append(Caller(n), Last(n)) = n
  BY CallerFacts
<1>3. Called'
  <2> SUFFICES ASSUME NEW n \in Names \ {<<>>}
               PROVE  /\ Caller(n) \in Names' /\ Last(n) \in Nodes(Caller(n))'
                      /\ Live(n)' => run'[Caller(n)].call[Last(n)] \in {"waiting", "dropped"}
    BY <1>1 DEF Called, Caller
  <2>1. Live(n)' => Live(n) /\ n # q
    BY <1>1 DEF Live
  <2>2. n # q => run'[Caller(n)].call[Last(n)] = run[Caller(n)].call[Last(n)]
    BY <1>1, <1>2
  <2> QED
    BY <1>1, <1>2, <2>1, <2>2 DEF Called
<1>4. \A p \in Names : HasEnd(p)' <=> HasEnd(p)
  BY <1>1 DEF HasEnd
<1>5. \A p \in Names : run[p].state = "running" => run'[p].state = "running" /\ ~HasEnd(p)
  BY <1>1 DEF HasEnd
<1>6. ASSUME NEW p \in Names, NEW i \in Nodes(p)
      PROVE  /\ run'[p].call[i] = "idle" => Append(p, i) \notin Names
             /\ run'[p].call[i] = "waiting" => run'[p].state = "running"
             /\ run'[p].call[i] = "ok" => Append(p, i) \in Names /\ run'[Append(p, i)].result = "ok"
             /\ run'[p].call[i] = "dropped" => p \in stopped \cup panicked
             /\ run'[p].call[i] = "error" /\ HasEnd(p)' /\ p \notin stopped => run'[p].result = "error"
  <2> DEFINE c == run[p].call[i]
             d == run'[p].call[i]
  <2>1. d = IF Append(p, i) = q /\ c = "waiting" THEN "error" ELSE c
    BY <1>1
  <2>2. /\ c = "idle" => Append(p, i) \notin Names
        /\ c = "waiting" => run[p].state = "running"
        /\ c = "ok" => Append(p, i) \in Names /\ run[Append(p, i)].result = "ok"
        /\ c = "dropped" => p \in stopped \cup panicked
        /\ c = "error" /\ HasEnd(p) /\ p \notin stopped => run[p].result = "error"
    BY DEF Answered, Cut
  <2> HIDE DEF c, d
  <2> QED
    BY <1>1, <1>4, <1>5, <2>1, <2>2 DEF d
<1>7. \A p \in Names : /\ run'[p].result = "ok" => HasEnd(p)'
                       /\ p \in panicked => HasEnd(p)' /\ run'[p].result = "error"
  BY <1>1, <1>4 DEF Answered
<1>8. Names' = Names /\ UNCHANGED <<stopped, panicked>> /\ \A p \in Names : Nodes(p)' = Nodes(p)
  BY <1>1
<1>9. Answered'
  BY ONLY <1>6, <1>7, <1>8 DEF Answered, Cut
<1> QED
  BY <1>3, <1>9

\* The end of a run: its answer is what the run returned, and the calls that it leaves
\* behind are those of a run that was stopped, or in which a command panicked.
LEMMA EndCalled ==
  ASSUME TypeOK, Called, Answered, NEW q \in Names, NEW res \in {"ok", "error"},
         End(q, res) \/ (Panics(q) /\ res = "error")
  PROVE  Called' /\ Answered'
<1>1. Ended(q, res)
  BY DEF End, Panics
<1>2. /\ run[q].state = "running" /\ Names' = Names /\ stopped' = stopped
      /\ \/ /\ \A i \in Nodes(q) : run[q].call[i] # "waiting"
            /\ (\E i \in Nodes(q) : run[q].call[i] = "error") => res = "error"
         \/ q \in stopped
         \/ q \in panicked' /\ res = "error"
      /\ panicked' = panicked \/ (panicked' = panicked \cup {q} /\ res = "error")
      /\ \A p \in Names : Nodes(p)' = Nodes(p)
      /\ \A p \in Names : p # q => run'[p].state = run[p].state /\ run'[p].result = run[p].result
      /\ run'[q].state = "ended" /\ run'[q].result = res
      /\ \A p \in Names : \A i \in Nodes(p) :
           run'[p].call[i] = IF run[p].call[i] # "waiting" THEN run[p].call[i]
                             ELSE IF p = q THEN "dropped"
                             ELSE IF Append(p, i) = q THEN res ELSE "waiting"
  <2>1. /\ run[q].state = "running" /\ stopped' = stopped
        /\ \/ /\ \A i \in Nodes(q) : run[q].call[i] # "waiting"
              /\ (\E i \in Nodes(q) : run[q].call[i] = "error") => res = "error"
           \/ q \in stopped
           \/ q \in panicked' /\ res = "error"
        /\ panicked' = panicked \/ (panicked' = panicked \cup {q} /\ res = "error")
    BY DEF End, Panics
  <2> QED
    BY <1>1, <2>1, EndFacts
<1>3. \A n \in Names \ {<<>>} :
        Caller(n) \in Names /\ Last(n) \in Nodes(Caller(n)) /\ Append(Caller(n), Last(n)) = n
  BY CallerFacts
<1>4. Called'
  <2> SUFFICES ASSUME NEW n \in Names \ {<<>>}
               PROVE  /\ Caller(n) \in Names' /\ Last(n) \in Nodes(Caller(n))'
                      /\ Live(n)' => run'[Caller(n)].call[Last(n)] \in {"waiting", "dropped"}
    BY <1>2 DEF Called, Caller
  <2>1. Live(n)' => Live(n) /\ n # q
    BY <1>2 DEF Live
  <2>2. Live(n) => run[Caller(n)].call[Last(n)] \in {"waiting", "dropped"}
    BY DEF Called
  <2> QED
    BY <1>2, <1>3, <2>1, <2>2
<1>5. run[q].result # "ok" /\ \A i \in Nodes(q) : run[q].call[i] = "waiting" => q \in stopped \cup panicked'
  BY <1>2 DEF Answered, Cut, HasEnd
<1>6. ASSUME NEW p \in Names
      PROVE  /\ run'[p].result = "ok" => HasEnd(p)'
             /\ p \in panicked' => HasEnd(p)' /\ run'[p].result = "error"
             /\ p # q => (HasEnd(p)' <=> HasEnd(p))
             /\ run[p].result = "ok" => run'[p].result = "ok"
  BY <1>2, <1>5 DEF Answered, Cut, HasEnd
<1>7. ASSUME NEW p \in Names, NEW i \in Nodes(p)
      PROVE  /\ run'[p].call[i] = "idle" => Append(p, i) \notin Names
             /\ run'[p].call[i] = "waiting" => run'[p].state = "running"
             /\ run'[p].call[i] = "ok" => Append(p, i) \in Names /\ run'[Append(p, i)].result = "ok"
             /\ run'[p].call[i] = "dropped" => p \in stopped \cup panicked'
             /\ run'[p].call[i] = "error" /\ HasEnd(p)' /\ p \notin stopped => run'[p].result = "error"
  <2> DEFINE c == run[p].call[i]
             d == run'[p].call[i]
  <2>1. d = IF c # "waiting" THEN c ELSE IF p = q THEN "dropped" ELSE IF Append(p, i) = q THEN res ELSE "waiting"
    BY <1>2
  <2>2. /\ c = "idle" => Append(p, i) \notin Names
        /\ c = "waiting" => run[p].state = "running"
        /\ c = "ok" => Append(p, i) \in Names /\ run[Append(p, i)].result = "ok"
        /\ c = "dropped" => p \in stopped \cup panicked
        /\ c = "error" /\ HasEnd(p) /\ p \notin stopped => run[p].result = "error"
    BY DEF Answered, Cut
  <2>3. p = q => c # "waiting" \/ q \in stopped \cup panicked'
    BY <1>5
  <2>4. c = "waiting" /\ p # q => ~HasEnd(p)' /\ run'[p].state = "running"
    BY <1>2, <1>6, <2>2 DEF HasEnd
  <2>5. p = q /\ p \notin stopped /\ c = "error" => res = "error"
    BY <1>2
  <2> HIDE DEF c, d
  <2>6. d = "idle" => Append(p, i) \notin Names
    BY <2>1, <2>2
  <2>7. d = "waiting" => run'[p].state = "running"
    BY <2>1, <2>4
  <2>8. d = "ok" => Append(p, i) \in Names /\ run'[Append(p, i)].result = "ok"
    <3>1. CASE c = "ok"
      BY <1>6, <2>2, <3>1
    <3>2. CASE c # "ok"
      BY <1>2, <2>1, <3>2
    <3> QED
      BY <3>1, <3>2
  <2>9. d = "dropped" => p \in stopped \cup panicked'
    BY <1>2, <2>1, <2>2, <2>3
  <2>10. d = "error" /\ HasEnd(p)' /\ p \notin stopped => run'[p].result = "error"
    BY <1>2, <1>6, <2>1, <2>2, <2>3, <2>4, <2>5
  <2> QED
    BY <2>6, <2>7, <2>8, <2>9, <2>10 DEF d
<1>8. Answered'
  BY <1>2, <1>6, <1>7 DEF Answered, Cut
<1> QED
  BY <1>4, <1>8

\* A refused call: its node fails, while the run goes on.
LEMMA RefusedCalled ==
  ASSUME TypeOK, Called, Answered, NEW p \in Names, NEW i \in Nodes(p), Call(p, i),
         NEW r \in {"error", "dropped"}, r = (IF p \in panicked THEN "dropped" ELSE "error"), Refused(p, i, r)
  PROVE  Called' /\ Answered'
<1>1. /\ run[p].state = "running" \/ p \in panicked
      /\ UNCHANGED <<stopped, panicked>> /\ Append(p, i) \notin Names
  BY CallFacts
<1>2. /\ Names' = Names
      /\ \A n \in Names : /\ run'[n].state = run[n].state /\ run'[n].result = run[n].result
                          /\ Nodes(n)' = Nodes(n)
      /\ \A n \in Names : \A j \in Nodes(n) :
           run'[n].call[j] = IF n = p /\ j = i THEN r ELSE run[n].call[j]
  BY DEF Refused
<1>3. \A n \in Names \ {<<>>} :
        Caller(n) \in Names /\ Last(n) \in Nodes(Caller(n)) /\ Append(Caller(n), Last(n)) = n
  BY CallerFacts
<1>4. \A n \in Names : (Live(n)' <=> Live(n)) /\ (HasEnd(n)' <=> HasEnd(n))
  BY <1>2 DEF Live, HasEnd
<1>5. Called'
  <2> SUFFICES ASSUME NEW n \in Names \ {<<>>}
               PROVE  /\ Caller(n) \in Names' /\ Last(n) \in Nodes(Caller(n))'
                      /\ Live(n)' => run'[Caller(n)].call[Last(n)] \in {"waiting", "dropped"}
    BY <1>2 DEF Called, Caller
  <2>1. run'[Caller(n)].call[Last(n)] = run[Caller(n)].call[Last(n)]
    BY <1>1, <1>2, <1>3
  <2> QED
    BY <1>2, <1>3, <1>4, <2>1 DEF Called
<1>6. ASSUME NEW n \in Names, NEW j \in Nodes(n)
      PROVE  /\ run'[n].call[j] = "idle" => Append(n, j) \notin Names
             /\ run'[n].call[j] = "waiting" => run'[n].state = "running"
             /\ run'[n].call[j] = "ok" => Append(n, j) \in Names /\ run'[Append(n, j)].result = "ok"
             /\ run'[n].call[j] = "dropped" => n \in stopped \cup panicked
             /\ run'[n].call[j] = "error" /\ HasEnd(n)' /\ n \notin stopped => run'[n].result = "error"
  <2> DEFINE c == run[n].call[j]
             d == run'[n].call[j]
  <2>1. d = IF n = p /\ j = i THEN r ELSE c
    BY <1>2
  <2>2. /\ c = "idle" => Append(n, j) \notin Names
        /\ c = "waiting" => run[n].state = "running"
        /\ c = "ok" => Append(n, j) \in Names /\ run[Append(n, j)].result = "ok"
        /\ c = "dropped" => n \in stopped \cup panicked
        /\ c = "error" /\ HasEnd(n) /\ n \notin stopped => run[n].result = "error"
    BY DEF Answered, Cut
  <2>3. p \notin panicked => ~HasEnd(p)
    BY <1>1 DEF HasEnd
  <2> HIDE DEF c, d
  <2> QED
    BY <1>2, <1>4, <2>1, <2>2, <2>3 DEF d
<1>7. \A n \in Names : /\ run'[n].result = "ok" => HasEnd(n)'
                       /\ n \in panicked => HasEnd(n)' /\ run'[n].result = "error"
  BY <1>2, <1>4 DEF Answered
<1>8. Names' = Names /\ UNCHANGED <<stopped, panicked>> /\ \A n \in Names : Nodes(n)' = Nodes(n)
  BY <1>1, <1>2
<1>9. Answered'
  BY ONLY <1>6, <1>7, <1>8 DEF Answered, Cut
<1> QED
  BY <1>5, <1>9

\* A call that starts a run: it waits for the new run, which has called nothing.
LEMMA BegunCalled ==
  ASSUME TypeOK, Called, Answered, NEW p \in Names, NEW i \in Nodes(p), Call(p, i),
         NEW r \in {"waiting", "dropped"}, r = (IF p \in panicked THEN "dropped" ELSE "waiting"), Begun(p, i, r)
  PROVE  Called' /\ Answered'
<1> DEFINE q == Append(p, i)
<1>1. /\ run[p].state = "running" \/ p \in panicked
      /\ UNCHANGED <<stopped, panicked>> /\ q \notin Names /\ q \in Seq(Nat)
  BY CallFacts
<1>2. /\ Names' = Names \cup {q}
      /\ \A n \in Names : /\ run'[n].state = run[n].state /\ run'[n].result = run[n].result
                          /\ Nodes(n)' = Nodes(n)
      /\ \A n \in Names : \A j \in Nodes(n) :
           run'[n].call[j] = IF n = p /\ j = i THEN r ELSE run[n].call[j]
      /\ run'[q].state = "new" /\ run'[q].result = "none" /\ \A j \in Nodes(q)' : run'[q].call[j] = "idle"
      /\ run' \in [Names \cup {q} -> RunRecord]
  BY DEF Begun
<1>3. /\ \A n \in Names \ {<<>>} :
           Caller(n) \in Names /\ Last(n) \in Nodes(Caller(n)) /\ Append(Caller(n), Last(n)) = n
      /\ \A n \in Names : \A j \in Nodes(n) : Caller(Append(n, j)) = n /\ Last(Append(n, j)) = j
  BY CallerFacts
<1>4. \A n \in Names : (Live(n)' <=> Live(n)) /\ (HasEnd(n)' <=> HasEnd(n))
  BY <1>2 DEF Live, HasEnd
<1>5. \A j \in Nodes(q)' : Append(q, j) \notin Names \cup {q}
  <2> SUFFICES ASSUME NEW j \in Nodes(q)' PROVE Append(q, j) \notin Names \cup {q}
    OBVIOUS
  <2> DEFINE E == Names \cup {q}
  <2>1. run' \in [E -> RunRecord] /\ q \in E /\ j \in DOMAIN run'[q].call
    BY <1>2 DEF Nodes
  <2> HIDE DEF E, q
  <2>2. j \in Nat
    BY ONLY <2>1, RecordFacts
  <2>3. Append(q, j) # <<>> /\ Append(q, j) # q /\ Caller(Append(q, j)) = q
    BY ONLY <1>1, <2>2, NameFacts DEF Caller
  <2> QED
    BY <1>1, <1>3, <2>3
<1>6. q # <<>> /\ Caller(q) = p /\ Last(q) = i
  BY CallerFacts
<1> HIDE DEF q
<1>7. Called'
  <2>1. ASSUME NEW n \in Names \ {<<>>}
        PROVE  /\ Caller(n) \in Names' /\ Last(n) \in Nodes(Caller(n))'
               /\ Live(n)' => run'[Caller(n)].call[Last(n)] \in {"waiting", "dropped"}
    <3>1. Caller(n) \in Names /\ Last(n) \in Nodes(Caller(n)) /\ Append(Caller(n), Last(n)) = n
      BY <1>3
    <3>2. ~(Caller(n) = p /\ Last(n) = i)
      BY <1>1, <3>1 DEF q
    <3>3. run'[Caller(n)].call[Last(n)] = run[Caller(n)].call[Last(n)]
      BY <1>2, <3>1, <3>2
    <3> QED
      BY <1>2, <1>4, <3>1, <3>3 DEF Called
  <2>2. /\ Caller(q) \in Names' /\ Last(q) \in Nodes(Caller(q))'
        /\ run'[Caller(q)].call[Last(q)] \in {"waiting", "dropped"}
    BY <1>2, <1>6
  <2>3. \A n \in Names' \ {<<>>} :
          /\ Caller(n) \in Names' /\ Last(n) \in Nodes(Caller(n))'
          /\ Live(n)' => run'[Caller(n)].call[Last(n)] \in {"waiting", "dropped"}
    BY <1>2, <2>1, <2>2
  <2> QED
    BY <2>3 DEF Called, Caller
<1>8. ASSUME NEW n \in Names, NEW j \in Nodes(n)
      PROVE  /\ run'[n].call[j] = "idle" => Append(n, j) \notin Names'
             /\ run'[n].call[j] = "waiting" => run'[n].state = "running"
             /\ run'[n].call[j] = "ok" => Append(n, j) \in Names' /\ run'[Append(n, j)].result = "ok"
             /\ run'[n].call[j] = "dropped" => n \in stopped \cup panicked
             /\ run'[n].call[j] = "error" /\ HasEnd(n)' /\ n \notin stopped => run'[n].result = "error"
  <2> DEFINE c == run[n].call[j]
             d == run'[n].call[j]
  <2>1. d = IF n = p /\ j = i THEN r ELSE c
    BY <1>2
  <2>2. /\ c = "idle" => Append(n, j) \notin Names
        /\ c = "waiting" => run[n].state = "running"
        /\ c = "ok" => Append(n, j) \in Names /\ run[Append(n, j)].result = "ok"
        /\ c = "dropped" => n \in stopped \cup panicked
        /\ c = "error" /\ HasEnd(n) /\ n \notin stopped => run[n].result = "error"
    BY DEF Answered, Cut
  <2>3. Append(n, j) = q => n = p /\ j = i
    BY <1>3, <1>6
  <2> HIDE DEF c, d
  <2>4. d = "idle" => Append(n, j) \notin Names'
    BY <1>2, <2>1, <2>2, <2>3
  <2> QED
    BY <1>1, <1>2, <1>4, <2>1, <2>2, <2>4 DEF d
<1>9. \A n \in Names : /\ run'[n].result = "ok" => HasEnd(n)'
                       /\ n \in panicked => HasEnd(n)' /\ run'[n].result = "error"
  BY <1>2, <1>4 DEF Answered
<1>10. Names' = Names \cup {q} /\ UNCHANGED <<stopped, panicked>> /\ \A n \in Names : Nodes(n)' = Nodes(n)
  BY <1>1, <1>2
<1>11. q \notin panicked /\ run'[q].result = "none" /\ \A j \in Nodes(q)' : run'[q].call[j] = "idle" /\ Append(q, j) \notin Names'
  BY <1>1, <1>2, <1>5 DEF TypeOK
<1>12. Answered'
  BY ONLY <1>8, <1>9, <1>10, <1>11 DEF Answered, Cut
<1> QED
  BY <1>7, <1>12

\* The run of the user has no caller and has called nothing.
LEMMA StartFlowCalled ==
  ASSUME TypeOK, Closed, StartFlow
  PROVE  Called' /\ Answered'
<1>1. /\ Names' = {<<>>} /\ run'[<<>>].result = "none" /\ \A i \in Nodes(<<>>)' : run'[<<>>].call[i] = "idle"
      /\ run' \in [{<<>>} -> RunRecord] /\ panicked' = {}
  BY StartFlowFacts
<1>2. Called'
  BY <1>1 DEF Called
<1>3. \A i \in Nodes(<<>>)' : Append(<<>>, i) \notin Names'
  <2> SUFFICES ASSUME NEW i \in Nodes(<<>>)' PROVE Append(<<>>, i) # <<>>
    BY <1>1
  <2> DEFINE E == {<<>>}
  <2>1. run' \in [E -> RunRecord] /\ <<>> \in E /\ i \in DOMAIN run'[<<>>].call
    BY <1>1 DEF Nodes
  <2> HIDE DEF E
  <2>2. i \in Nat
    BY ONLY <2>1, RecordFacts
  <2>3. <<>> \in Seq(Nat)
    OBVIOUS
  <2> QED
    BY ONLY <2>2, <2>3, NameFacts
<1>4. Answered'
  BY ONLY <1>1, <1>3 DEF Answered, Cut
<1> QED
  BY <1>2, <1>4

\* What changes no run keeps its calls; a run stays stopped.
LEMMA SameRuns ==
  ASSUME Called, Answered, run' = run, stopped \subseteq stopped', panicked' = panicked
  PROVE  Called' /\ Answered'
<1>1. Names' = Names /\ \A n \in Names : (Nodes(n)' = Nodes(n)) /\ (Live(n)' <=> Live(n)) /\ (HasEnd(n)' <=> HasEnd(n))
  BY DEF Names, Nodes, Live, HasEnd
<1>2. Called'
  BY <1>1 DEF Called, Caller
<1>3. Answered'
  BY <1>1 DEF Answered, Cut
<1> QED
  BY <1>2, <1>3

\* No step breaks what the calls say of the runs.
LEMMA NextCalled ==
  ASSUME TypeOK, Closed, Called, Answered, Next
  PROVE  Called' /\ Answered'
<1>1. ASSUME NEW q \in Names, Record(q) \/ StartWorker(q) \/ Build(q)
      PROVE  Called' /\ Answered'
  BY <1>1, SetStateCalled DEF Record, StartWorker, Build
<1>2. ASSUME NEW q \in Names, NEW i \in Nodes(q), Call(q, i)
      PROVE  Called' /\ Answered'
  <2>1. CASE q \in panicked
    <3>1. Refused(q, i, "dropped") \/ Begun(q, i, "dropped")
      BY <1>2, <2>1, CallFacts
    <3>2. CASE Refused(q, i, "dropped")
      BY <1>2, <2>1, <3>2, RefusedCalled
    <3>3. CASE Begun(q, i, "dropped")
      BY <1>2, <2>1, <3>3, BegunCalled
    <3> QED
      BY <3>1, <3>2, <3>3
  <2>2. CASE q \notin panicked
    <3>1. Refused(q, i, "error") \/ Begun(q, i, "waiting")
      BY <1>2, <2>2, CallFacts
    <3>2. CASE Refused(q, i, "error")
      BY <1>2, <2>2, <3>2, RefusedCalled
    <3>3. CASE Begun(q, i, "waiting")
      BY <1>2, <2>2, <3>3, BegunCalled
    <3> QED
      BY <3>1, <3>2, <3>3
  <2> QED
    BY <2>1, <2>2
<1>3. ASSUME NEW q \in Names, Step(q)
      PROVE  Called' /\ Answered'
  BY <1>1, <1>2, <1>3, StartFailsCalled, EndCalled DEF Step
<1>4. ASSUME run' = run, stopped \subseteq stopped', panicked' = panicked
      PROVE  Called' /\ Answered'
  BY <1>4, SameRuns
<1>5. ASSUME NEW q \in Names, Stop(q)
      PROVE  Called' /\ Answered'
  BY <1>4, <1>5 DEF Stop
<1>6. ASSUME NEW q \in Names, Panics(q)
      PROVE  Called' /\ Answered'
  BY <1>6, EndCalled
<1>7. ASSUME LoadFails \/ Loaded \/ \E f \in Flows : Load(f) \/ Edit(f) \/ Expire(f)
      PROVE  Called' /\ Answered'
  BY <1>4, <1>7 DEF LoadFails, Loaded, Load, Edit, Expire
<1> QED
  BY <1>3, <1>5, <1>6, <1>7, StartFlowCalled DEF Next, Registry

-----------------------------------------------------------------------------
(* Types *)

\* Every step keeps the types.  The entrypoint is loaded before it is started.
LEMMA NextTypeOK ==
  ASSUME TypeOK, Cached, Closed, Called, Answered, Next
  PROVE  TypeOK'
<1> DEFINE RegistryOK == /\ phase \in {"loading", "ready", "failed"} /\ queue \in Seq(Flows)
                         /\ current \in [Flows -> Nat] /\ recent \in [Flows -> SUBSET Nat]
                         /\ DOMAIN flows \subseteq Flows /\ flows \in [DOMAIN flows -> Seq(Flows)]
           RunsOK == Names \subseteq Seq(Nat) /\ run \in [Names -> RunRecord]
                     /\ stopped \subseteq Names /\ panicked \subseteq Names
<1>1. RegistryOK /\ RunsOK
  BY DEF TypeOK
<1>2. RegistryOK' /\ RunsOK' => TypeOK'
  BY DEF TypeOK
<1>3. ASSUME UNCHANGED <<run, stopped, panicked>> PROVE RunsOK'
  BY <1>1, <1>3 DEF Names
<1>4. ASSUME UNCHANGED <<phase, queue, dbVars, flows>> PROVE RegistryOK'
  BY <1>1, <1>4 DEF dbVars
<1>5. ASSUME Names' = Names, run' \in [Names -> RunRecord], stopped' = stopped,
             panicked' \subseteq Names
      PROVE  RunsOK'
  BY <1>1, <1>5
<1>6. ASSUME NEW f \in Flows, Load(f) PROVE TypeOK'
  <2>1. /\ queue' \in Seq(Flows) /\ flows' \in [DOMAIN flows \cup {f} -> Seq(Flows)]
        /\ DOMAIN flows' = DOMAIN flows \cup {f} /\ UNCHANGED <<phase, dbVars, run, stopped, panicked>>
    BY <1>6, LoadFacts
  <2>2. RegistryOK'
    BY <1>1, <2>1 DEF dbVars
  <2> QED
    BY <1>2, <1>3, <2>1, <2>2
<1>7. ASSUME NEW f \in Flows, Edit(f) \/ Expire(f) PROVE TypeOK'
  <2>1. /\ \/ /\ current' = [current EXCEPT ![f] = @ + 1]
              /\ recent' = [recent EXCEPT ![f] = @ \cup {current[f]}]
           \/ current' = current /\ recent' = [recent EXCEPT ![f] = {}]
        /\ UNCHANGED <<phase, queue, flows, run, stopped, panicked>>
    BY <1>7 DEF Edit, Expire
  <2>2. current' \in [Flows -> Nat] /\ recent' \in [Flows -> SUBSET Nat]
    <3>1. current[f] \in Nat /\ recent[f] \in SUBSET Nat
      BY <1>1
    <3>2. current[f] + 1 \in Nat /\ recent[f] \cup {current[f]} \in SUBSET Nat
      BY <3>1
    <3>3. current' \in [Flows -> Nat]
      BY <1>1, <2>1, <3>2
    <3> DEFINE R == SUBSET Nat
               r == recent[f] \cup {current[f]}
    <3>4. /\ recent \in [Flows -> R] /\ r \in R /\ {} \in R
          /\ recent' = [recent EXCEPT ![f] = r] \/ recent' = [recent EXCEPT ![f] = {}]
      BY <1>1, <2>1, <3>2
    <3> HIDE DEF R, r
    <3>5. recent' \in [Flows -> R]
      BY <3>4
    <3> QED
      BY <3>3, <3>5 DEF R
  <2>3. RegistryOK'
    BY <1>1, <2>1, <2>2
  <2> QED
    BY <1>2, <1>3, <2>1, <2>3
<1>8. ASSUME LoadFails \/ Loaded PROVE TypeOK'
  <2>1. phase' \in {"ready", "failed"} /\ UNCHANGED <<queue, dbVars, flows, run, stopped, panicked>>
    BY <1>8 DEF LoadFails, Loaded
  <2>2. RegistryOK'
    BY <1>1, <2>1 DEF dbVars
  <2> QED
    BY <1>2, <1>3, <2>1, <2>2
<1> HIDE DEF RegistryOK
<1>9. ASSUME StartFlow PROVE TypeOK'
  <2>1. Names' = {<<>>} /\ stopped' = {} /\ panicked' = {} /\ run' \in [{<<>>} -> RunRecord]
    BY <1>9, StartFlowFacts
  <2>2. UNCHANGED <<phase, queue, dbVars, flows>>
    BY <1>9 DEF StartFlow
  <2>3. <<>> \in Seq(Nat)
    OBVIOUS
  <2>4. RunsOK'
    BY <2>1, <2>3
  <2> QED
    BY <1>2, <1>4, <2>2, <2>4
<1>10. ASSUME NEW q \in Names, Stop(q) PROVE TypeOK'
  <2>1. stopped' = stopped \cup {q} /\ UNCHANGED <<phase, queue, dbVars, flows, run, panicked>>
    BY <1>10 DEF Stop
  <2>2. RunsOK'
    BY <1>1, <2>1 DEF Names
  <2> QED
    BY <1>2, <1>4, <2>1, <2>2
<1>11. ASSUME NEW q \in Names, NEW i \in Nodes(q), Call(q, i) PROVE RunsOK'
  <2>1. /\ UNCHANGED <<stopped, panicked>> /\ Append(q, i) \in Seq(Nat)
        /\ \E c \in CallStates : Refused(q, i, c) \/ Begun(q, i, c)
    BY <1>11, CallFacts DEF CallStates
  <2>2. PICK c \in CallStates : Refused(q, i, c) \/ Begun(q, i, c)
    BY <2>1
  <2>3. CASE Refused(q, i, c)
    BY <1>1, <1>5, <2>1, <2>3 DEF Refused
  <2>4. CASE Begun(q, i, c)
    <3>1. Names' = Names \cup {Append(q, i)} /\ run' \in [Names' -> RunRecord]
      BY <2>4 DEF Begun
    <3> QED
      BY <1>1, <2>1, <3>1
  <2> QED
    BY <2>2, <2>3, <2>4
<1>12. ASSUME NEW q \in Names, Record(q) \/ StartWorker(q) \/ Build(q) PROVE RunsOK'
  <2>1. PICK from \in {"new", "recorded", "watched"}, to \in {"recorded", "watched", "running"} :
          SetState(q, from, to)
    BY <1>12 DEF Record, StartWorker, Build
  <2> QED
    BY <1>1, <1>5, <2>1, SetStateFacts
<1>13. ASSUME NEW q \in Names, StartFails(q) PROVE RunsOK'
  BY <1>1, <1>5, <1>13, StartFailsFacts
<1>14. ASSUME NEW q \in Names, NEW res \in {"ok", "error"}, End(q, res) PROVE RunsOK'
  <2>1. Ended(q, res) /\ UNCHANGED <<stopped, panicked>>
    BY <1>14 DEF End
  <2> QED
    BY <1>1, <1>5, <2>1, EndFacts
<1>15. ASSUME NEW q \in Names, Panics(q) PROVE TypeOK'
  <2>1. /\ Ended(q, "error") /\ stopped' = stopped /\ panicked' = panicked \cup {q}
        /\ UNCHANGED <<phase, queue, dbVars, flows>>
    BY <1>15 DEF Panics
  <2>2. RunsOK'
    BY <1>1, <1>5, <2>1, EndFacts
  <2> QED
    BY <1>2, <1>4, <2>1, <2>2
<1> HIDE DEF RunsOK
<1>16. ASSUME NEW q \in Names, Step(q) PROVE TypeOK'
  <2>1. UNCHANGED <<phase, queue, dbVars, flows>>
    BY <1>16 DEF Step, Record, StartWorker, Build, StartFails, SetState, End, Call
  <2>2. RunsOK'
    BY <1>11, <1>12, <1>13, <1>14, <1>16 DEF Step
  <2> QED
    BY <1>2, <1>4, <2>1, <2>2
<1> QED
  BY <1>6, <1>7, <1>8, <1>9, <1>10, <1>15, <1>16 DEF Next, Registry

-----------------------------------------------------------------------------
(* The theorems *)

\* The initial state: only the entrypoint is found, and nothing runs.
LEMMA InitInv == Init => Inv
<1> SUFFICES ASSUME Init PROVE Inv
  OBVIOUS
<1>1. /\ phase = "loading" /\ queue = <<Entrypoint>> /\ flows = Empty
      /\ current = [f \in Flows |-> 1] /\ recent = [f \in Flows |-> {}]
      /\ run = Empty /\ stopped = {} /\ panicked = {}
  BY DEF Init
<1>2. DOMAIN flows = {} /\ Names = {} /\ flows \in [{} -> Seq(Flows)] /\ run \in [{} -> RunRecord]
  BY <1>1 DEF Empty, Names
<1>3. queue \in Seq(Flows) /\ Range(queue) = {Entrypoint}
  <2> DEFINE t == <<>>
  <2>1. Entrypoint \in Flows
    BY CallsAssumption
  <2>2. queue = Append(t, Entrypoint)
    BY <1>1
  <2>3. t \in Seq(Flows) /\ Range(t) = {}
    BY RangeEmpty
  <2> HIDE DEF t
  <2>4. Append(t, Entrypoint) \in Seq(Flows)
    BY <2>1, <2>3
  <2>5. Range(Append(t, Entrypoint)) = Range(t) \cup {Entrypoint}
    BY ONLY <2>1, <2>3, RangeAppend
  <2> QED
    BY <2>2, <2>3, <2>4, <2>5
<1>4. TypeOK
  BY <1>1, <1>2, <1>3 DEF TypeOK
<1>5. Cached
  <2> SUFFICES ASSUME NEW f \in Flows
               PROVE  current[f] \in 1..Len(Versions[f]) /\ recent[f] \subseteq 1..current[f]
    BY DEF Cached
  <2> DEFINE v == Versions[f]
             F == Seq(Flows)
  <2>1. v \in Seq(F) /\ v # <<>>
    BY CallsAssumption
  <2> HIDE DEF v, F
  <2>2. Len(v) \in Nat \ {0}
    BY ONLY <2>1, TailFacts
  <2> QED
    BY <1>1, <2>2 DEF v
<1>6. Closed
  BY <1>1, <1>2, <1>3 DEF Closed, Found
<1>7. Called /\ Answered
  BY <1>2 DEF Called, Answered
<1> QED
  BY <1>4, <1>5, <1>6, <1>7 DEF Inv

\* Every step keeps the inductive invariant.
LEMMA NextInv == Inv /\ [Next]_vars => Inv'
<1> SUFFICES ASSUME Inv, [Next]_vars PROVE Inv'
  OBVIOUS
<1>1. TypeOK /\ Cached /\ Closed /\ Called /\ Answered
  BY DEF Inv
<1>2. CASE Next
  BY <1>1, <1>2, NextTypeOK, NextClosed, NextCalled DEF Inv
<1>3. CASE UNCHANGED vars
  <2>1. UNCHANGED <<phase, queue, current, recent, flows, run, stopped, panicked>>
    BY <1>3 DEF vars, dbVars
  <2>2. TypeOK'
    BY <1>1, <2>1 DEF TypeOK, Names
  <2>3. Cached'
    BY <1>1, <2>1 DEF Cached
  <2>4. Closed'
    BY <1>1, <2>1, ClosedFrame DEF Closed
  <2>5. Called' /\ Answered'
    BY <1>1, <2>1, SameRuns
  <2> QED
    BY <2>2, <2>3, <2>4, <2>5 DEF Inv
<1> QED
  BY <1>2, <1>3

\* The loaded flows are closed under calls, and every call is in the state that its run
\* gave it.
THEOREM InvHolds == Spec => []Inv
<1>1. Init => Inv
  BY InitInv
<1>2. Inv /\ [Next]_vars => Inv'
  BY NextInv
<1> QED
  BY <1>1, <1>2, PTL DEF Spec

\* Every variable keeps its type; a run is started of a flow that was loaded.
THEOREM TypeCorrect == Spec => []TypeOK
<1>1. Inv => TypeOK
  BY DEF Inv
<1> QED
  BY <1>1, InvHolds, PTL

\* get_all_flows: however the flows are edited while they are loaded and whatever the cache
\* still holds, each version that will run finds all that it calls, and nothing is loaded
\* that no version leads to.
THEOREM LoadsWhatIsCalledHolds == Spec => []LoadsWhatIsCalled
<1>1. Inv => LoadsWhatIsCalled
  <2> SUFFICES ASSUME Inv, phase = "ready" PROVE LoadsWhatIsCalled
    BY DEF LoadsWhatIsCalled
  <2>1. Closed
    BY DEF Inv
  <2>2. Range(queue) = {}
    BY <2>1, RangeEmpty DEF Closed
  <2>3. Found = DOMAIN flows
    BY <2>2 DEF Found
  <2> QED
    BY <2>1, <2>3 DEF Closed, LoadsWhatIsCalled
<1> QED
  BY <1>1, InvHolds, PTL

\* FlowRegistry::start: a run that was not stopped and reports success has no call that
\* failed, at any depth and in any order of failures, stops and ends.
THEOREM ErrorsReachTheTopHolds == Spec => []ErrorsReachTheTop
<1>1. Inv => ErrorsReachTheTop
  <2> SUFFICES ASSUME Inv, NEW q \in Names, HasEnd(q), run[q].result = "ok", q \notin stopped,
                      NEW i \in Nodes(q), run[q].call[i] # "idle"
               PROVE  Append(q, i) \in Names /\ run[Append(q, i)].result = "ok"
    BY DEF ErrorsReachTheTop
  <2> DEFINE c == run[q].call[i]
             D == Names
  <2>1. Answered /\ run \in [D -> RunRecord] /\ q \in D /\ i \in DOMAIN run[q].call
    BY DEF Inv, TypeOK, Nodes
  <2>2. /\ c = "waiting" => run[q].state = "running"
        /\ c = "ok" => Append(q, i) \in Names /\ run[Append(q, i)].result = "ok"
        /\ c = "dropped" => q \in stopped \cup panicked
        /\ q \in panicked => run[q].result = "error"
        /\ c = "error" /\ HasEnd(q) /\ q \notin stopped => run[q].result = "error"
    BY <2>1 DEF Answered, Cut
  <2> HIDE DEF D
  <2>3. c \in CallStates
    BY ONLY <2>1, RecordFacts
  <2>4. run[q].state # "running"
    BY DEF HasEnd
  <2> QED
    BY <2>2, <2>3, <2>4 DEF CallStates
<1> QED
  BY <1>1, InvHolds, PTL

\* FlowGraph::run: only a run that was stopped, or in which a command panicked, ends while one
\* that it called still runs.
THEOREM OnlyCutRunsLeaveCallsHolds == Spec => []OnlyCutRunsLeaveCalls
<1>1. Inv => OnlyCutRunsLeaveCalls
  <2> SUFFICES ASSUME Inv, NEW q \in Names \ {<<>>}, Live(q), HasEnd(Caller(q))
               PROVE  Cut(Caller(q))
    BY DEF OnlyCutRunsLeaveCalls
  <2> DEFINE p == Caller(q)
             i == Last(q)
  <2>1. Called /\ Answered
    BY DEF Inv
  <2>2. p \in Names /\ i \in Nodes(p) /\ run[p].call[i] \in {"waiting", "dropped"}
    BY <2>1 DEF Called
  <2>3. run[p].state # "running"
    BY DEF HasEnd
  <2> HIDE DEF p, i
  <2>4. Cut(p)
    BY <2>1, <2>2, <2>3 DEF Answered
  <2> QED
    BY <2>4 DEF p
<1> QED
  BY <1>1, InvHolds, PTL
=============================================================================
