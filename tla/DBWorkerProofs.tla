--------------------------- MODULE DBWorkerProofs ---------------------------
(***************************************************************************)
(* What is proved of DBWorker, for any number of runs, users and rows and  *)
(* any size of a chunk.                                                    *)
(***************************************************************************)
EXTENDS DBWorker, SequenceLemmas

-----------------------------------------------------------------------------
(* The order of rows *)

\* u is a part of s, in the same order.
Embeds(h, u, s) ==
  /\ h \in [1..Len(u) -> 1..Len(s)]
  /\ \A i \in 1..Len(u) : u[i] = s[h[i]]
  /\ \A i, j \in 1..Len(u) : i < j => h[i] < h[j]

\* A part is in order, and where the whole is.
LEMMA PartOrder ==
  ASSUME NEW s, NEW u, NEW h, Embeds(h, u, s), NEW t
  PROVE  /\ Ordered(s) => Ordered(u)
         /\ Before(s, t) => Before(u, t)
         /\ Before(t, s) => Before(t, u)
         /\ Given(s) => Given(u)
<1>1. /\ \A i \in 1..Len(u) : h[i] \in 1..Len(s) /\ u[i] = s[h[i]]
      /\ \A i, j \in 1..Len(u) : i < j => h[i] < h[j]
  BY DEF Embeds
<1>2. Ordered(s) => Ordered(u)
  BY <1>1 DEF Ordered
<1>3. (Before(s, t) => Before(u, t)) /\ (Before(t, s) => Before(t, u))
  BY <1>1 DEF Before
<1>4. Given(s) => Given(u)
  BY <1>1 DEF Given
<1> QED
  BY <1>2, <1>3, <1>4

\* The tail is a part.
LEMMA TailEmbeds ==
  ASSUME NEW S, NEW s \in Seq(S), s # <<>>
  PROVE  \E h : Embeds(h, Tail(s), s)
<1> DEFINE t == Tail(s)
           h == [i \in 1..Len(t) |-> i + 1]
<1>1. /\ t \in Seq(S) /\ Len(s) \in Nat \ {0} /\ Len(t) = Len(s) - 1
      /\ \A i \in 1..Len(s) - 1 : t[i] = s[i + 1]
  BY TailFacts
<1>2. \A i \in 1..Len(t) : i + 1 \in 1..Len(s) /\ t[i] = s[i + 1] /\ h[i] = i + 1
  BY <1>1
<1> HIDE DEF t
<1>3. h \in [1..Len(t) -> 1..Len(s)]
  BY <1>2
<1>4. \A i, j \in 1..Len(t) : i < j => h[i] < h[j]
  BY <1>1, <1>2
<1> HIDE DEF h
<1>5. Embeds(h, t, s)
  BY <1>2, <1>3, <1>4 DEF Embeds
<1> QED
  BY <1>5 DEF t

\* What is taken from the front, and what is left: each a part, one before the other.
LEMMA SplitEmbeds ==
  ASSUME NEW S, NEW s \in Seq(S), NEW k \in 0..Len(s)
  PROVE  /\ \E h : Embeds(h, SubSeq(s, 1, k), s)
         /\ \E h : Embeds(h, SubSeq(s, k + 1, Len(s)), s)
         /\ Ordered(s) => Before(SubSeq(s, 1, k), SubSeq(s, k + 1, Len(s)))
<1> DEFINE a == SubSeq(s, 1, k)
           b == SubSeq(s, k + 1, Len(s))
           f == [i \in 1..Len(a) |-> i]
           g == [i \in 1..Len(b) |-> k + i]
<1>1. /\ a \in Seq(S) /\ Len(a) = k /\ (\A i \in 1..k : a[i] = s[i])
      /\ b \in Seq(S) /\ Len(b) = Len(s) - k /\ (\A i \in 1..Len(s) - k : b[i] = s[k + i])
      /\ Len(s) \in Nat
  BY SplitFacts
<1>2. /\ \A i \in 1..Len(a) : i \in 1..Len(s) /\ a[i] = s[i] /\ f[i] = i
      /\ \A i \in 1..Len(b) : k + i \in 1..Len(s) /\ b[i] = s[k + i] /\ g[i] = k + i
  BY <1>1
<1> HIDE DEF a, b
<1>3. f \in [1..Len(a) -> 1..Len(s)] /\ g \in [1..Len(b) -> 1..Len(s)]
  BY <1>2
<1>4. /\ \A i, j \in 1..Len(a) : i < j => f[i] < f[j]
      /\ \A i, j \in 1..Len(b) : i < j => g[i] < g[j]
  BY <1>1, <1>2
<1> HIDE DEF f, g
<1>5. Embeds(f, a, s) /\ Embeds(g, b, s)
  BY <1>2, <1>3, <1>4 DEF Embeds
<1>6. Ordered(s) => Before(a, b)
  <2> SUFFICES ASSUME Ordered(s), NEW i \in 1..Len(a), NEW j \in 1..Len(b)
               PROVE  Precedes(a[i], b[j])
    BY DEF Before
  <2>1. i < k + j
    BY <1>1
  <2> QED
    BY <1>2, <2>1 DEF Ordered
<1> QED
  BY <1>5, <1>6 DEF a, b

\* A row that comes after all of s may be appended to it, and to what comes after s.
LEMMA AppendOrder ==
  ASSUME NEW s \in Seq(Row), NEW t \in Seq(Row), NEW e \in Row,
         \A i \in 1..Len(s) : Precedes(s[i], e)
  PROVE  /\ Ordered(s) => Ordered(Append(s, e))
         /\ Before(s, t) => Before(s, Append(t, e))
<1> DEFINE u == Append(s, e)
           v == Append(t, e)
<1>1. /\ Len(s) \in Nat /\ Len(u) = Len(s) + 1 /\ u[Len(s) + 1] = e
      /\ \A i \in 1..Len(s) : u[i] = s[i]
  BY AppendFacts
<1>2. /\ Len(t) \in Nat /\ Len(v) = Len(t) + 1 /\ v[Len(t) + 1] = e
      /\ \A i \in 1..Len(t) : v[i] = t[i]
  BY AppendFacts
<1> HIDE DEF u, v
<1>3. ASSUME Ordered(s) PROVE Ordered(u)
  <2> SUFFICES ASSUME NEW i \in 1..Len(u), NEW j \in 1..Len(u), i < j
               PROVE  Precedes(u[i], u[j])
    BY DEF Ordered
  <2>1. i \in 1..Len(s) /\ u[i] = s[i] /\ (j \in 1..Len(s) \/ j = Len(s) + 1)
    BY <1>1
  <2>2. CASE j = Len(s) + 1
    BY <1>1, <2>1, <2>2
  <2>3. CASE j \in 1..Len(s)
    BY <1>1, <1>3, <2>1, <2>3 DEF Ordered
  <2> QED
    BY <2>1, <2>2, <2>3
<1>4. ASSUME Before(s, t) PROVE Before(s, v)
  <2> SUFFICES ASSUME NEW i \in 1..Len(s), NEW j \in 1..Len(v)
               PROVE  Precedes(s[i], v[j])
    BY DEF Before
  <2>1. j \in 1..Len(t) \/ j = Len(t) + 1
    BY <1>2
  <2>2. CASE j = Len(t) + 1
    BY <1>2, <2>2
  <2>3. CASE j \in 1..Len(t)
    BY <1>2, <1>4, <2>3 DEF Before
  <2> QED
    BY <2>1, <2>2, <2>3
<1> QED
  BY <1>3, <1>4 DEF u, v

\* Two sequences that follow each other may be joined.
LEMMA ConcatOrder ==
  ASSUME NEW s \in Seq(Row), NEW t \in Seq(Row), NEW u
  PROVE  /\ Ordered(s) /\ Ordered(t) /\ Before(s, t) => Ordered(s \o t)
         /\ Before(s, u) /\ Before(t, u) => Before(s \o t, u)
         /\ Given(s) /\ Given(t) => Given(s \o t)
<1> DEFINE v == s \o t
<1>1. /\ Len(s) \in Nat /\ Len(t) \in Nat /\ Len(v) = Len(s) + Len(t)
      /\ \A i \in 1..Len(s) : v[i] = s[i]
      /\ \A i \in 1..Len(t) : v[Len(s) + i] = t[i]
      /\ \A i \in 1..Len(v) : i \in 1..Len(s) \/ \E j \in 1..Len(t) : i = Len(s) + j
  BY ConcatFacts
<1> HIDE DEF v
<1>2. ASSUME Ordered(s), Ordered(t), Before(s, t) PROVE Ordered(v)
  <2> SUFFICES ASSUME NEW i \in 1..Len(v), NEW j \in 1..Len(v), i < j
               PROVE  Precedes(v[i], v[j])
    BY DEF Ordered
  <2>1. CASE j \in 1..Len(s)
    <3>1. i \in 1..Len(s)
      BY <1>1, <2>1
    <3> QED
      BY <1>1, <1>2, <2>1, <3>1 DEF Ordered
  <2>2. ASSUME NEW k \in 1..Len(t), j = Len(s) + k, i \in 1..Len(s)
        PROVE  Precedes(v[i], v[j])
    <3>1. v[j] = t[k] /\ v[i] = s[i]
      BY <1>1, <2>2
    <3> QED
      BY <1>2, <2>2, <3>1 DEF Before
  <2>3. ASSUME NEW k \in 1..Len(t), j = Len(s) + k, NEW l \in 1..Len(t), i = Len(s) + l
        PROVE  Precedes(v[i], v[j])
    <3>1. v[j] = t[k] /\ v[i] = t[l] /\ l < k
      BY <1>1, <2>3
    <3> QED
      BY <1>2, <2>3, <3>1 DEF Ordered
  <2> QED
    BY <1>1, <2>1, <2>2, <2>3
<1>3. ASSUME NEW i \in 1..Len(v)
      PROVE  (\E j \in 1..Len(s) : v[i] = s[j]) \/ \E j \in 1..Len(t) : v[i] = t[j]
  <2>1. CASE i \in 1..Len(s)
    BY <1>1, <2>1
  <2>2. ASSUME NEW j \in 1..Len(t), i = Len(s) + j PROVE v[i] = t[j]
    BY <1>1, <2>2
  <2> QED
    BY <1>1, <2>1, <2>2
<1>4. Before(s, u) /\ Before(t, u) => Before(v, u)
  BY <1>3 DEF Before
<1>5. Given(s) /\ Given(t) => Given(v)
  BY <1>3 DEF Given
<1> QED
  BY <1>2, <1>4, <1>5 DEF v

\* A sequence of one row.
LEMMA AppendIsConcat ==
  ASSUME NEW s \in Seq(Row), NEW e \in Row, NEW u
  PROVE  /\ Before(s, u) /\ (\A j \in 1..Len(u) : Precedes(e, u[j])) => Before(Append(s, e), u)
         /\ Given(s) /\ e[2] <= rows[e[1]] => Given(Append(s, e))
<1> DEFINE v == Append(s, e)
<1>1. /\ Len(s) \in Nat /\ Len(v) = Len(s) + 1 /\ v[Len(s) + 1] = e
      /\ \A i \in 1..Len(s) : v[i] = s[i]
  BY AppendFacts
<1>2. \A i \in 1..Len(v) : i \in 1..Len(s) \/ i = Len(s) + 1
  BY <1>1
<1> HIDE DEF v
<1>3. Before(s, u) /\ (\A j \in 1..Len(u) : Precedes(e, u[j])) => Before(v, u)
  BY <1>1, <1>2 DEF Before
<1>4. Given(s) /\ e[2] <= rows[e[1]] => Given(v)
  BY <1>1, <1>2 DEF Given
<1> QED
  BY <1>3, <1>4 DEF v

\* The empty sequence is in order.
LEMMA EmptyOrder ==
  ASSUME NEW s
  PROVE  Ordered(<<>>) /\ Before(<<>>, s) /\ Before(s, <<>>) /\ Given(<<>>)
  BY EmptyFacts DEF Ordered, Before, Given

\* The head comes before the tail, and where the whole comes.
LEMMA HeadOrder ==
  ASSUME NEW s \in Seq(Row), s # <<>>, NEW t
  PROVE  /\ Ordered(s) => \A i \in 1..Len(Tail(s)) : Precedes(Head(s), Tail(s)[i])
         /\ Before(t, s) => \A i \in 1..Len(t) : Precedes(t[i], Head(s))
         /\ Given(s) => Head(s)[2] <= rows[Head(s)[1]]
<1>1. /\ Len(s) \in Nat \ {0} /\ Len(Tail(s)) = Len(s) - 1 /\ Head(s) = s[1] /\ 1 \in 1..Len(s)
      /\ \A i \in 1..Len(s) - 1 : Tail(s)[i] = s[i + 1]
  BY TailFacts
<1>2. \A i \in 1..Len(Tail(s)) : i + 1 \in 1..Len(s) /\ 1 < i + 1 /\ Tail(s)[i] = s[i + 1]
  BY <1>1
<1>3. Ordered(s) => \A i \in 1..Len(Tail(s)) : Precedes(Head(s), Tail(s)[i])
  BY <1>1, <1>2 DEF Ordered
<1>4. Before(t, s) => \A i \in 1..Len(t) : Precedes(t[i], Head(s))
  BY <1>1 DEF Before
<1>5. Given(s) => Head(s)[2] <= rows[Head(s)[1]]
  BY <1>1 DEF Given
<1> QED
  BY <1>3, <1>4, <1>5

-----------------------------------------------------------------------------
(* The steps on rows *)

\* The order does not change with what holds no rows.
LEMMA OrderFrame ==
  ASSUME InOrder, UNCHANGED <<written, chunk, queue, mailbox, rows>>
  PROVE  InOrder'
  BY DEF InOrder, Ordered, Before, Given, Precedes

\* From order of the new values to order in the next state.
LEMMA OrderNext ==
  ASSUME /\ Ordered(written') /\ Ordered(chunk') /\ Ordered(queue') /\ Ordered(mailbox')
         /\ Before(written', chunk') /\ Before(written', queue') /\ Before(written', mailbox')
         /\ Before(chunk', queue') /\ Before(chunk', mailbox') /\ Before(queue', mailbox'),
         Given(written)' /\ Given(chunk)' /\ Given(queue)' /\ Given(mailbox)'
  PROVE  InOrder'
<1>1. Ordered(written)' /\ Ordered(chunk)' /\ Ordered(queue)' /\ Ordered(mailbox)'
  BY DEF Ordered, Precedes
<1>2. /\ Before(written, chunk)' /\ Before(written, queue)' /\ Before(written, mailbox)'
      /\ Before(chunk, queue)' /\ Before(chunk, mailbox)' /\ Before(queue, mailbox)'
  BY DEF Before, Precedes
<1> QED
  BY <1>1, <1>2 DEF InOrder

\* Given, for new values, when no row was handed over.
LEMMA GivenNext ==
  ASSUME rows' = rows, Given(written'), Given(chunk'), Given(queue'), Given(mailbox')
  PROVE  Given(written)' /\ Given(chunk)' /\ Given(queue)' /\ Given(mailbox)'
  BY DEF Given

\* A row that is handed over comes after all others of its run.
LEMMA SendCopyInOrder ==
  ASSUME TypeOK, InOrder, NEW r \in Runs, SendCopyIn(r)
  PROVE  /\ InOrder' /\ <<r, rows[r] + 1>> \in Row
         /\ rows' \in [Runs -> Nat] /\ \A q \in Runs : rows'[q] = IF q = r THEN rows[r] + 1 ELSE rows[q]
<1> DEFINE e == <<r, rows[r] + 1>>
<1>1. /\ written \in Seq(Row) /\ chunk \in Seq(Row) /\ queue \in Seq(Row) /\ mailbox \in Seq(Row)
      /\ rows \in [Runs -> Nat]
  BY DEF TypeOK
<1>2. /\ mailbox' = Append(mailbox, e) /\ rows' = [rows EXCEPT ![r] = rows[r] + 1]
      /\ UNCHANGED <<written, chunk, queue>>
  BY DEF SendCopyIn, chanVars
<1>3. /\ rows' \in [Runs -> Nat]
      /\ \A q \in Runs : rows'[q] = (IF q = r THEN rows[r] + 1 ELSE rows[q]) /\ rows[q] \in Nat
  BY <1>1, <1>2
<1>4. e \in Row /\ e[1] = r /\ e[2] = rows[r] + 1
  BY <1>1 DEF Row
<1>5. ASSUME NEW s \in Seq(Row), Given(s)
      PROVE  (\A i \in 1..Len(s) : Precedes(s[i], e)) /\ \A i \in 1..Len(s) : s[i][2] <= rows'[s[i][1]]
  <2> SUFFICES ASSUME NEW i \in 1..Len(s)
               PROVE  Precedes(s[i], e) /\ s[i][2] <= rows'[s[i][1]]
    OBVIOUS
  <2>1. s[i] \in Row
    OBVIOUS
  <2>2. s[i][1] \in Runs /\ s[i][2] \in Nat /\ s[i][2] <= rows[s[i][1]]
    BY <1>5, <2>1 DEF Given, Row
  <2> HIDE DEF e
  <2>3. Precedes(s[i], e)
    BY <1>3, <1>4, <2>2 DEF Precedes
  <2>4. s[i][2] <= rows'[s[i][1]]
    BY <1>3, <2>2
  <2> QED
    BY <2>3, <2>4
<1> HIDE DEF e
<1>6. /\ Ordered(written) /\ Ordered(chunk) /\ Ordered(queue) /\ Ordered(mailbox)
      /\ Before(written, chunk) /\ Before(written, queue) /\ Before(written, mailbox)
      /\ Before(chunk, queue) /\ Before(chunk, mailbox) /\ Before(queue, mailbox)
      /\ Given(written) /\ Given(chunk) /\ Given(queue) /\ Given(mailbox)
  BY DEF InOrder
<1>7. /\ Ordered(mailbox') /\ Before(written, mailbox') /\ Before(chunk, mailbox') /\ Before(queue, mailbox')
  BY <1>1, <1>2, <1>4, <1>5, <1>6, AppendOrder
<1>8. Given(written)' /\ Given(chunk)' /\ Given(queue)'
  BY <1>1, <1>2, <1>5, <1>6 DEF Given
<1>9. Given(mailbox)'
  <2>1. /\ Len(mailbox) \in Nat /\ Len(mailbox') = Len(mailbox) + 1 /\ mailbox'[Len(mailbox) + 1] = e
        /\ \A i \in 1..Len(mailbox) : mailbox'[i] = mailbox[i]
    BY <1>1, <1>2, <1>4, AppendFacts
  <2>2. \A i \in 1..Len(mailbox') : i \in 1..Len(mailbox) \/ i = Len(mailbox) + 1
    BY <2>1
  <2>3. \A i \in 1..Len(mailbox) : mailbox[i][2] <= rows'[mailbox[i][1]]
    BY <1>1, <1>5, <1>6
  <2>4. e[2] <= rows'[e[1]]
    BY <1>3, <1>4
  <2> QED
    BY <2>1, <2>2, <2>3, <2>4 DEF Given
<1>10. InOrder'
  BY <1>2, <1>6, <1>7, <1>8, <1>9, OrderNext
<1> QED
  BY <1>3, <1>4, <1>10 DEF e

\* CopyIn moves the first row of the mailbox to the end of the channel.
LEMMA CopyInOrder ==
  ASSUME TypeOK, InOrder, CopyIn
  PROVE  InOrder'
<1> DEFINE e == Head(mailbox)
<1>1. /\ written \in Seq(Row) /\ chunk \in Seq(Row) /\ queue \in Seq(Row) /\ mailbox \in Seq(Row)
      /\ mailbox # <<>>
  BY DEF TypeOK, CopyIn
<1>2. /\ mailbox' = Tail(mailbox) /\ (queue' = queue \/ queue' = Append(queue, e))
      /\ UNCHANGED <<rows, written, chunk>>
  BY DEF CopyIn, runVars
<1>3. e \in Row
  BY <1>1, TailFacts
<1>4. /\ Ordered(written) /\ Ordered(chunk) /\ Ordered(queue) /\ Ordered(mailbox)
      /\ Before(written, chunk) /\ Before(written, queue) /\ Before(written, mailbox)
      /\ Before(chunk, queue) /\ Before(chunk, mailbox) /\ Before(queue, mailbox)
      /\ Given(written) /\ Given(chunk) /\ Given(queue) /\ Given(mailbox)
  BY DEF InOrder
<1>5. PICK h : Embeds(h, mailbox', mailbox)
  BY <1>1, <1>2, TailEmbeds
<1>6. /\ Ordered(mailbox') /\ Before(written, mailbox') /\ Before(chunk, mailbox') /\ Before(queue, mailbox')
      /\ Given(mailbox')
  BY <1>4, <1>5, PartOrder
<1>7. /\ \A i \in 1..Len(mailbox') : Precedes(e, mailbox'[i])
      /\ \A i \in 1..Len(written) : Precedes(written[i], e)
      /\ \A i \in 1..Len(chunk) : Precedes(chunk[i], e)
      /\ \A i \in 1..Len(queue) : Precedes(queue[i], e)
      /\ e[2] <= rows[e[1]]
  BY <1>1, <1>2, <1>4, HeadOrder
<1> HIDE DEF e
<1>8. Ordered(queue') /\ Before(written, queue') /\ Before(chunk, queue') /\ Before(queue', mailbox') /\ Given(queue')
  <2>1. CASE queue' = queue
    BY <1>4, <1>6, <2>1
  <2>2. CASE queue' = Append(queue, e)
    <3>1. Ordered(queue') /\ Before(written, queue') /\ Before(chunk, queue')
      BY <1>1, <1>3, <1>4, <1>7, <2>2, AppendOrder
    <3>2. Before(queue', mailbox') /\ Given(queue')
      BY <1>1, <1>3, <1>4, <1>6, <1>7, <2>2, AppendIsConcat
    <3> QED
      BY <3>1, <3>2
  <2> QED
    BY <1>2, <2>1, <2>2
<1>9. Given(written)' /\ Given(chunk)' /\ Given(queue)' /\ Given(mailbox)'
  BY <1>2, <1>4, <1>6, <1>8, GivenNext
<1> QED
  BY <1>2, <1>4, <1>6, <1>8, <1>9, OrderNext

\* How much is taken.
LEMMA TakeChunkFacts ==
  ASSUME TypeOK, TakeChunk
  PROVE  \E n \in 0..Len(queue) :
           /\ chunk = <<>> /\ chunk' = SubSeq(queue, 1, n) /\ queue' = SubSeq(queue, n + 1, Len(queue))
           /\ UNCHANGED <<rows, written, mailbox>>
<1>1. Len(queue) \in Nat
  BY DEF TypeOK
<1> DEFINE n == IF Len(queue) < ChunkSize THEN Len(queue) ELSE ChunkSize
<1>2. n \in 0..Len(queue)
  BY <1>1, ChunkAssumption
<1>3. /\ chunk = <<>> /\ chunk' = SubSeq(queue, 1, n) /\ queue' = SubSeq(queue, n + 1, Len(queue))
      /\ UNCHANGED <<rows, written, mailbox>>
  BY DEF TakeChunk, runVars
<1> HIDE DEF n
<1> QED
  BY <1>2, <1>3

\* A chunk is the front of the channel.
LEMMA TakeChunkOrder ==
  ASSUME TypeOK, InOrder, TakeChunk
  PROVE  InOrder'
<1>1. queue \in Seq(Row)
  BY DEF TypeOK
<1>2. PICK n \in 0..Len(queue) :
        /\ chunk = <<>> /\ chunk' = SubSeq(queue, 1, n) /\ queue' = SubSeq(queue, n + 1, Len(queue))
        /\ UNCHANGED <<rows, written, mailbox>>
  BY TakeChunkFacts
<1>3. /\ Ordered(written) /\ Ordered(queue) /\ Ordered(mailbox)
      /\ Before(written, queue) /\ Before(written, mailbox) /\ Before(queue, mailbox)
      /\ Given(written) /\ Given(queue) /\ Given(mailbox)
  BY DEF InOrder
<1>4. PICK f : Embeds(f, chunk', queue)
  BY <1>1, <1>2, SplitEmbeds
<1>5. PICK g : Embeds(g, queue', queue)
  BY <1>1, <1>2, SplitEmbeds
<1>6. Before(chunk', queue')
  BY <1>1, <1>2, <1>3, SplitEmbeds
<1>7. Ordered(chunk') /\ Before(written, chunk') /\ Before(chunk', mailbox) /\ Given(chunk')
  BY <1>3, <1>4, PartOrder
<1>8. Ordered(queue') /\ Before(written, queue') /\ Before(queue', mailbox) /\ Given(queue')
  BY <1>3, <1>5, PartOrder
<1>9. Given(written)' /\ Given(chunk)' /\ Given(queue)' /\ Given(mailbox)'
  BY <1>2, <1>3, <1>7, <1>8, GivenNext
<1> QED
  BY <1>2, <1>3, <1>6, <1>7, <1>8, <1>9, OrderNext

\* What is accepted is a part of the chunk; all of it, unless users are mixed.
LEMMA AcceptedFacts ==
  ASSUME TypeOK, chunk # <<>>
  PROVE  /\ Accepted \in Seq(Row) /\ \E h : Embeds(h, Accepted, chunk)
         /\ ~MayMix => Range(Accepted) = Range(chunk)
<1> DEFINE T == {row \in Range(chunk) : Proxied => Owner[row[1]] = Owner[chunk[1][1]]}
<1>1. chunk \in Seq(Row) /\ Len(chunk) \in Nat \ {0}
  BY TailFacts DEF TypeOK
<1>2. PICK h : Selects(h, Keep(chunk, T), Row, chunk, T, Len(chunk))
  BY <1>1, KeepFacts
<1>3. Accepted = Keep(chunk, T)
  BY DEF Accepted
<1>4. ~MayMix => T = Range(chunk)
  <2>1. Range(chunk) \subseteq Row /\ chunk[1] \in Row
    BY <1>1, RangeFacts
  <2> QED
    BY <2>1 DEF MayMix, Row
<1> HIDE DEF T
<1>5. /\ Accepted \in Seq(Row) /\ h \in [1..Len(Accepted) -> 1..Len(chunk)]
      /\ \A i \in 1..Len(Accepted) : Accepted[i] = chunk[h[i]]
      /\ \A i, j \in 1..Len(Accepted) : i < j => h[i] < h[j]
      /\ \A k \in 1..Len(chunk) : chunk[k] \in T => \E i \in 1..Len(Accepted) : h[i] = k
  BY <1>2, <1>3 DEF Selects
<1>6. Embeds(h, Accepted, chunk)
  BY <1>5 DEF Embeds
<1>7. ASSUME ~MayMix PROVE Range(Accepted) = Range(chunk)
  <2>1. /\ \A x : x \in Range(Accepted) <=> \E i \in 1..Len(Accepted) : x = Accepted[i]
        /\ \A x : x \in Range(chunk) <=> \E i \in 1..Len(chunk) : x = chunk[i]
    BY <1>1, <1>5, RangeFacts
  <2>2. \A k \in 1..Len(chunk) : \E i \in 1..Len(Accepted) : chunk[k] = Accepted[i]
    BY <1>4, <1>5, <1>7, <2>1
  <2>3. \A i \in 1..Len(Accepted) : \E k \in 1..Len(chunk) : chunk[k] = Accepted[i]
    BY <1>5
  <2> QED
    BY <2>1, <2>2, <2>3
<1> QED
  BY <1>5, <1>6, <1>7

\* A chunk is written after all that was written before, or dropped.
LEMMA InsertOrder ==
  ASSUME TypeOK, InOrder, Insert \/ InsertFails
  PROVE  InOrder'
<1>1. written \in Seq(Row) /\ chunk \in Seq(Row)
  BY DEF TypeOK
<1>2. /\ chunk' = <<>> /\ chunk # <<>> /\ UNCHANGED <<rows, queue, mailbox>>
      /\ (written' = written \/ written' = written \o Accepted)
  BY DEF Insert, InsertFails, runVars
<1>3. /\ Ordered(written) /\ Ordered(chunk) /\ Ordered(queue) /\ Ordered(mailbox)
      /\ Before(written, chunk) /\ Before(written, queue) /\ Before(written, mailbox)
      /\ Before(chunk, queue) /\ Before(chunk, mailbox) /\ Before(queue, mailbox)
      /\ Given(written) /\ Given(chunk) /\ Given(queue) /\ Given(mailbox)
  BY DEF InOrder
<1>4. PICK h : Embeds(h, Accepted, chunk)
  BY <1>2, AcceptedFacts
<1>5. Accepted \in Seq(Row)
  BY <1>2, AcceptedFacts
<1>6. /\ Ordered(Accepted) /\ Before(written, Accepted) /\ Before(Accepted, queue)
      /\ Before(Accepted, mailbox) /\ Given(Accepted)
  BY <1>3, <1>4, PartOrder
<1>7. Ordered(written') /\ Before(written', queue) /\ Before(written', mailbox) /\ Given(written')
  BY <1>1, <1>2, <1>3, <1>5, <1>6, ConcatOrder
<1>8. /\ Ordered(chunk') /\ Before(written', chunk') /\ Before(chunk', queue) /\ Before(chunk', mailbox)
      /\ Given(chunk')
  BY <1>2, EmptyOrder
<1>9. Given(written)' /\ Given(chunk)' /\ Given(queue)' /\ Given(mailbox)'
  BY <1>2, <1>3, <1>7, <1>8, GivenNext
<1> QED
  BY <1>2, <1>3, <1>7, <1>8, <1>9, OrderNext

-----------------------------------------------------------------------------
(* The other parts of the invariant *)

\* The types of what carries rows.
LEMMA RowTypes ==
  ASSUME TypeOK, Next
  PROVE  /\ mailbox' \in Seq(Row) /\ queue' \in Seq(Row) /\ chunk' \in Seq(Row)
         /\ written' \in Seq(Row) /\ failed' \subseteq Row /\ lost' \subseteq Row
         /\ rows' \in [Runs -> Nat]
<1>1. /\ mailbox \in Seq(Row) /\ queue \in Seq(Row) /\ chunk \in Seq(Row) /\ written \in Seq(Row)
      /\ failed \subseteq Row /\ lost \subseteq Row /\ rows \in [Runs -> Nat]
  BY DEF TypeOK
<1>2. ASSUME NEW r \in Runs, SendCopyIn(r)
      PROVE  /\ mailbox' \in Seq(Row) /\ rows' \in [Runs -> Nat]
             /\ UNCHANGED <<queue, chunk, written, failed, lost>>
  <2>1. /\ mailbox' = Append(mailbox, <<r, rows[r] + 1>>) /\ rows' = [rows EXCEPT ![r] = @ + 1]
        /\ UNCHANGED <<queue, chunk, written, failed, lost>>
    BY <1>2 DEF SendCopyIn, chanVars
  <2>2. <<r, rows[r] + 1>> \in Row /\ rows' \in [Runs -> Nat]
    BY <1>1, <2>1 DEF Row
  <2> QED
    BY <1>1, <2>1, <2>2, AppendFacts
<1>3. ASSUME CopyIn
      PROVE  /\ mailbox' \in Seq(Row) /\ queue' \in Seq(Row) /\ lost' \subseteq Row
             /\ UNCHANGED <<rows, chunk, written, failed>>
  <2>1. /\ mailbox # <<>> /\ mailbox' = Tail(mailbox) /\ UNCHANGED <<rows, chunk, written, failed>>
        /\ queue' = queue \/ queue' = Append(queue, Head(mailbox))
        /\ lost' = lost \/ lost' = lost \cup {Head(mailbox)}
    BY <1>3 DEF CopyIn, runVars
  <2>2. Tail(mailbox) \in Seq(Row) /\ Head(mailbox) \in Row
    BY <1>1, <2>1, TailFacts
  <2>3. Append(queue, Head(mailbox)) \in Seq(Row)
    BY <1>1, <2>2, AppendFacts
  <2> QED
    BY <1>1, <2>1, <2>2, <2>3
<1>4. ASSUME TakeChunk
      PROVE  chunk' \in Seq(Row) /\ queue' \in Seq(Row) /\ UNCHANGED <<rows, mailbox, written, failed, lost>>
  <2>1. UNCHANGED <<failed, lost>>
    BY <1>4 DEF TakeChunk
  <2>2. PICK n \in 0..Len(queue) :
          /\ chunk' = SubSeq(queue, 1, n) /\ queue' = SubSeq(queue, n + 1, Len(queue))
          /\ UNCHANGED <<rows, written, mailbox>>
    BY <1>4, TakeChunkFacts
  <2>3. SubSeq(queue, 1, n) \in Seq(Row) /\ SubSeq(queue, n + 1, Len(queue)) \in Seq(Row)
    BY <1>1, <2>2, SplitFacts
  <2> QED
    BY <2>1, <2>2, <2>3
<1>5. ASSUME Insert
      PROVE  chunk' \in Seq(Row) /\ written' \in Seq(Row) /\ UNCHANGED <<rows, mailbox, queue, failed, lost>>
  <2>1. /\ chunk # <<>> /\ chunk' = <<>> /\ written' = written \o Accepted
        /\ UNCHANGED <<rows, mailbox, queue, failed, lost>>
    BY <1>5 DEF Insert, runVars
  <2>2. Accepted \in Seq(Row)
    BY <2>1, AcceptedFacts
  <2> QED
    BY <1>1, <2>1, <2>2, ConcatFacts, EmptyFacts
<1>6. ASSUME InsertFails
      PROVE  chunk' \in Seq(Row) /\ failed' \subseteq Row /\ UNCHANGED <<rows, mailbox, queue, written, lost>>
  <2>1. /\ chunk' = <<>> /\ failed' = failed \cup Range(chunk)
        /\ UNCHANGED <<rows, mailbox, queue, written, lost>>
    BY <1>6 DEF InsertFails, runVars
  <2> QED
    BY <1>1, <2>1, RangeFacts, EmptyFacts
<1>7. ASSUME \/ \E r, p \in Runs : StartFlowRunWorker(r, p)
             \/ \E r \in Runs : Finish(r) \/ Save(r) \/ Release(r) \/ Told(r) \/ ForceStop(r)
             \/ CloseServer \/ SystemShutdown \/ Joined \/ Stopped \/ CopierEnds
      PROVE  UNCHANGED <<rows, mailbox, queue, chunk, written, failed, lost>>
  BY <1>7 DEF StartFlowRunWorker, Finish, Save, Release, Told, ForceStop, CloseServer, SystemShutdown, Joined,
              Stopped, CopierEnds, chanVars, runVars
<1> QED
  BY <1>1, <1>2, <1>3, <1>4, <1>5, <1>6, <1>7 DEF Next, Writer

\* The types of the rest.
LEMMA NextTypeOK ==
  ASSUME TypeOK, Next
  PROVE  TypeOK'
<1>1. /\ server \in {"serving", "closed"} /\ root \in {"up", "joining", "flushing", "stopped"}
      /\ asked \subseteq Runs /\ told \subseteq Runs /\ late \subseteq Runs /\ cut \subseteq Runs
      /\ state \in [Runs -> RunState] /\ open \in BOOLEAN /\ copied \in BOOLEAN
  BY DEF TypeOK
<1> DEFINE Rest == /\ server' \in {"serving", "closed"}
                   /\ root' \in {"up", "joining", "flushing", "stopped"}
                   /\ asked' \subseteq Runs /\ told' \subseteq Runs /\ late' \subseteq Runs
                   /\ cut' \subseteq Runs /\ state' \in [Runs -> RunState]
                   /\ open' \in BOOLEAN /\ copied' \in BOOLEAN
<1>2. ASSUME NEW r \in Runs, NEW p \in Runs, StartFlowRunWorker(r, p) PROVE Rest
  BY <1>1, <1>2 DEF StartFlowRunWorker, RunState, chanVars, rootVars
<1>3. ASSUME NEW r \in Runs, SendCopyIn(r) \/ Finish(r) \/ Release(r) \/ Told(r) \/ ForceStop(r)
      PROVE  Rest
  BY <1>1, <1>3 DEF SendCopyIn, Finish, Release, Told, ForceStop, RunState, chanVars, runVars, rootVars
<1>7. ASSUME NEW r \in Runs, Save(r) PROVE Rest
  <2>1. /\ \E s \in {"saved", "lingers"} : state' = [state EXCEPT ![r] = s]
        /\ UNCHANGED <<cut, open, copied, server, root, asked, told, late>>
    BY <1>7 DEF Save, chanVars, rootVars
  <2> QED
    BY <1>1, <2>1 DEF RunState
<1>4. ASSUME CopyIn \/ CloseServer \/ SystemShutdown \/ Joined \/ Stopped PROVE Rest
  BY <1>1, <1>4 DEF CopyIn, CloseServer, SystemShutdown, Joined, Stopped, Alive, chanVars, runVars,
                    rootVars
<1>5. ASSUME Writer PROVE Rest
  BY <1>1, <1>5 DEF Writer, TakeChunk, Insert, InsertFails, CopierEnds, runVars, rootVars
<1>6. Rest
  BY <1>2, <1>3, <1>4, <1>5, <1>7 DEF Next
<1> QED
  BY <1>6, RowTypes DEF TypeOK

\* Every step keeps the rows in order.
LEMMA NextInOrder ==
  ASSUME TypeOK, InOrder, Next
  PROVE  InOrder'
<1>1. ASSUME \/ \E r, p \in Runs : StartFlowRunWorker(r, p)
             \/ \E r \in Runs : Finish(r) \/ Save(r) \/ Release(r) \/ Told(r) \/ ForceStop(r)
             \/ CloseServer \/ SystemShutdown \/ Joined \/ Stopped \/ CopierEnds
      PROVE  InOrder'
  <2>1. UNCHANGED <<written, chunk, queue, mailbox, rows>>
    BY <1>1 DEF StartFlowRunWorker, Finish, Save, Release, Told, ForceStop, CloseServer, SystemShutdown, Joined,
                Stopped, CopierEnds, chanVars, runVars
  <2> QED
    BY <2>1, OrderFrame
<1> QED
  BY <1>1, SendCopyInOrder, CopyInOrder, TakeChunkOrder, InsertOrder DEF Next, Writer

\* A run has at most its last row in the mailbox.
LEMMA NoneWaits ==
  ASSUME TypeOK, Awaited, NEW r \in Runs, <<r, rows[r]>> \notin Range(mailbox)
  PROVE  \A i \in 1..Len(mailbox) : mailbox[i] \in Row /\ mailbox[i][1] \in Runs /\ mailbox[i][1] # r
<1>1. mailbox \in Seq(Row)
  BY DEF TypeOK
<1> SUFFICES ASSUME NEW i \in 1..Len(mailbox)
             PROVE  mailbox[i] \in Row /\ mailbox[i][1] \in Runs /\ mailbox[i][1] # r
  OBVIOUS
<1>2. mailbox[i] \in Row
  BY <1>1
<1>3. mailbox[i] \in Range(mailbox)
  BY <1>1, RangeFacts
<1>4. mailbox[i][2] = rows[mailbox[i][1]]
  BY DEF Awaited
<1>5. mailbox[i][1] = r => mailbox[i] = <<r, rows[r]>>
  BY <1>2, <1>4 DEF Row
<1> QED
  BY <1>2, <1>3, <1>5 DEF Row

\* A run is not saved, and hands over no other row, while one waits.
LEMMA NextAwaited ==
  ASSUME TypeOK, Awaited, Next
  PROVE  Awaited'
<1>1. /\ mailbox \in Seq(Row) /\ rows \in [Runs -> Nat]
      /\ state \in [Runs -> RunState]
      /\ Len(mailbox) \in Nat
  BY DEF TypeOK
<1>2. \A i \in 1..Len(mailbox) :
        /\ mailbox[i][1] \in Runs /\ mailbox[i][2] = rows[mailbox[i][1]]
        /\ state[mailbox[i][1]] \in {"active", "finished"}
  <2> SUFFICES ASSUME NEW i \in 1..Len(mailbox) PROVE mailbox[i][1] \in Runs
    BY DEF Awaited
  <2>1. mailbox[i] \in Row
    BY <1>1
  <2> QED
    BY <2>1 DEF Row
<1>3. ASSUME NEW r \in Runs, SendCopyIn(r) PROVE Awaited'
  <2> DEFINE e == <<r, rows[r] + 1>>
  <2>1. /\ mailbox' = Append(mailbox, e) /\ UNCHANGED state /\ state[r] \in {"active", "finished"}
        /\ <<r, rows[r]>> \notin Range(mailbox) /\ rows' = [rows EXCEPT ![r] = @ + 1]
    BY <1>3 DEF SendCopyIn
  <2>2. e \in Row /\ e[1] = r /\ e[2] = rows[r] + 1
    BY <1>1 DEF Row
  <2>3. rows'[r] = rows[r] + 1 /\ \A q \in Runs \ {r} : rows'[q] = rows[q]
    BY <1>1, <2>1
  <2> HIDE DEF e
  <2>4. /\ Len(mailbox') = Len(mailbox) + 1 /\ mailbox'[Len(mailbox) + 1] = e
        /\ \A i \in 1..Len(mailbox) : mailbox'[i] = mailbox[i]
    BY <1>1, <2>1, <2>2, AppendFacts
  <2>5. \A i \in 1..Len(mailbox) : mailbox[i][1] \in Runs \ {r}
    BY <2>1, NoneWaits
  <2>6. \A i \in 1..Len(mailbox') : i \in 1..Len(mailbox) \/ i = Len(mailbox) + 1
    BY <1>1, <2>4
  <2>7. \A i \in 1..Len(mailbox) :
          mailbox'[i][2] = rows'[mailbox'[i][1]] /\ state'[mailbox'[i][1]] \in {"active", "finished"}
    BY <1>2, <2>1, <2>3, <2>4, <2>5
  <2>8. e[2] = rows'[e[1]] /\ state'[e[1]] \in {"active", "finished"}
    BY <2>1, <2>2, <2>3
  <2> QED
    BY <2>4, <2>6, <2>7, <2>8 DEF Awaited
<1>4. ASSUME NEW r \in Runs, NEW p \in Runs, StartFlowRunWorker(r, p) PROVE Awaited'
  <2>1. /\ UNCHANGED <<mailbox, rows>> /\ state[r] = "absent"
        /\ \A q \in Runs : q # r => state'[q] = state[q]
    BY <1>1, <1>4 DEF StartFlowRunWorker
  <2> QED
    BY <1>2, <2>1 DEF Awaited
<1>5. ASSUME NEW r \in Runs, Finish(r) PROVE Awaited'
  <2>1. /\ UNCHANGED <<mailbox, rows>>
        /\ \A q \in Runs : state'[q] = IF q = r THEN "finished" ELSE state[q]
    BY <1>1, <1>5 DEF Finish
  <2> QED
    BY <1>2, <2>1 DEF Awaited
<1>9. ASSUME NEW r \in Runs, Release(r) PROVE Awaited'
  <2>1. /\ UNCHANGED <<mailbox, rows>> /\ state[r] = "lingers"
        /\ \A q \in Runs : q # r => state'[q] = state[q]
    BY <1>1, <1>9 DEF Release
  <2> QED
    BY <1>2, <2>1 DEF Awaited
<1>6. ASSUME NEW r \in Runs, Save(r) PROVE Awaited'
  <2>1. /\ UNCHANGED <<mailbox, rows>> /\ <<r, rows[r]>> \notin Range(mailbox)
        /\ \A q \in Runs : q # r => state'[q] = state[q]
    BY <1>1, <1>6 DEF Save
  <2>2. \A i \in 1..Len(mailbox) : mailbox[i][1] # r
    BY <2>1, NoneWaits
  <2> QED
    BY <1>2, <2>1, <2>2 DEF Awaited
<1>7. ASSUME CopyIn PROVE Awaited'
  <2>1. /\ mailbox # <<>> /\ mailbox' = Tail(mailbox) /\ UNCHANGED <<state, rows>>
    BY <1>7 DEF CopyIn, runVars
  <2>2. /\ Len(mailbox') = Len(mailbox) - 1
        /\ \A i \in 1..Len(mailbox) - 1 : mailbox'[i] = mailbox[i + 1]
    BY <1>1, <2>1, TailFacts
  <2>3. \A i \in 1..Len(mailbox') : i + 1 \in 1..Len(mailbox) /\ mailbox'[i] = mailbox[i + 1]
    BY <1>1, <2>2
  <2> QED
    BY <1>2, <2>1, <2>3 DEF Awaited
<1>8. ASSUME \/ \E r \in Runs : Told(r) \/ ForceStop(r)
             \/ CloseServer \/ SystemShutdown \/ Joined \/ Stopped \/ Writer
      PROVE  Awaited'
  <2>1. UNCHANGED <<mailbox, rows, state>>
    BY <1>8 DEF Told, ForceStop, CloseServer, SystemShutdown, Joined, Stopped, Writer, TakeChunk, Insert,
                InsertFails, CopierEnds, runVars
  <2> QED
    BY <2>1 DEF Awaited
<1> QED
  BY <1>3, <1>4, <1>5, <1>6, <1>7, <1>8, <1>9 DEF Next

\* All that carries rows.
Somewhere == Range(mailbox) \cup Range(queue) \cup Range(chunk) \cup Range(written) \cup failed \cup lost

\* No step takes a row away, unless users are mixed, and a row that is handed over is
\* somewhere.
LEMMA NextSomewhere ==
  ASSUME TypeOK, Next, ~MayMix
  PROVE  /\ Somewhere \subseteq Somewhere'
         /\ \A r \in Runs : \A k \in 1..rows'[r] : k \in 1..rows[r] \/ <<r, k>> \in Somewhere'
<1>1. /\ mailbox \in Seq(Row) /\ queue \in Seq(Row) /\ chunk \in Seq(Row) /\ written \in Seq(Row)
      /\ rows \in [Runs -> Nat]
  BY DEF TypeOK
<1>2. ASSUME NEW r \in Runs, SendCopyIn(r)
      PROVE  /\ Somewhere \subseteq Somewhere'
             /\ \A q \in Runs : \A k \in 1..rows'[q] : k \in 1..rows[q] \/ <<q, k>> \in Somewhere'
  <2> DEFINE e == <<r, rows[r] + 1>>
  <2>1. /\ mailbox' = Append(mailbox, e) /\ rows' = [rows EXCEPT ![r] = @ + 1]
        /\ UNCHANGED <<queue, chunk, written, failed, lost>>
    BY <1>2 DEF SendCopyIn, chanVars
  <2>2. e \in Row
    BY <1>1 DEF Row
  <2>3. \A q \in Runs : \A k \in 1..rows'[q] : k \in 1..rows[q] \/ <<q, k>> = e
    BY <1>1, <2>1
  <2> HIDE DEF e
  <2>4. Range(mailbox') = Range(mailbox) \cup {e}
    BY <1>1, <2>1, <2>2, RangeAppend
  <2> QED
    BY <2>1, <2>3, <2>4 DEF Somewhere
<1>3. ASSUME CopyIn PROVE Somewhere \subseteq Somewhere' /\ rows' = rows
  <2>1. /\ mailbox # <<>> /\ mailbox' = Tail(mailbox) /\ UNCHANGED <<rows, chunk, written, failed>>
        /\ \/ queue' = Append(queue, Head(mailbox)) /\ lost' = lost
           \/ queue' = queue /\ lost' = lost \cup {Head(mailbox)}
    BY <1>3 DEF CopyIn, runVars
  <2>2. Range(mailbox) = {Head(mailbox)} \cup Range(mailbox') /\ Head(mailbox) \in Row
    BY <1>1, <2>1, RangeTail, TailFacts
  <2>3. Range(Append(queue, Head(mailbox))) = Range(queue) \cup {Head(mailbox)}
    BY <1>1, <2>2, RangeAppend
  <2> QED
    BY <2>1, <2>2, <2>3 DEF Somewhere
<1>4. ASSUME TakeChunk PROVE Somewhere \subseteq Somewhere' /\ rows' = rows
  <2>1. PICK n \in 0..Len(queue) :
          /\ chunk = <<>> /\ chunk' = SubSeq(queue, 1, n) /\ queue' = SubSeq(queue, n + 1, Len(queue))
          /\ UNCHANGED <<rows, written, mailbox>>
    BY <1>4, TakeChunkFacts
  <2>2. Range(queue) = Range(chunk') \cup Range(queue') /\ Range(chunk) = {}
    BY <1>1, <2>1, RangeSplit, RangeEmpty
  <2>3. UNCHANGED <<failed, lost>>
    BY <1>4 DEF TakeChunk
  <2> QED
    BY <2>1, <2>2, <2>3 DEF Somewhere
<1>5. ASSUME Insert PROVE Somewhere \subseteq Somewhere' /\ rows' = rows
  <2>1. /\ chunk # <<>> /\ written' = written \o Accepted
        /\ UNCHANGED <<rows, mailbox, queue, failed, lost>>
    BY <1>5 DEF Insert, runVars
  <2>2. Accepted \in Seq(Row) /\ Range(Accepted) = Range(chunk)
    BY <2>1, AcceptedFacts
  <2>3. Range(written') = Range(written) \cup Range(chunk)
    BY <1>1, <2>1, <2>2, RangeConcat
  <2> QED
    BY <2>1, <2>3 DEF Somewhere
<1>6. ASSUME InsertFails PROVE Somewhere \subseteq Somewhere' /\ rows' = rows
  BY <1>6 DEF InsertFails, Somewhere, runVars
<1>7. ASSUME \/ \E r, p \in Runs : StartFlowRunWorker(r, p)
             \/ \E r \in Runs : Finish(r) \/ Save(r) \/ Release(r) \/ Told(r) \/ ForceStop(r)
             \/ CloseServer \/ SystemShutdown \/ Joined \/ Stopped \/ CopierEnds
      PROVE  Somewhere \subseteq Somewhere' /\ rows' = rows
  <2>1. UNCHANGED <<rows, mailbox, queue, chunk, written, failed, lost>>
    BY <1>7 DEF StartFlowRunWorker, Finish, Save, Release, Told, ForceStop, CloseServer, SystemShutdown, Joined,
                Stopped, CopierEnds, chanVars, runVars
  <2> QED
    BY <2>1 DEF Somewhere
<1> QED
  BY <1>2, <1>3, <1>4, <1>5, <1>6, <1>7 DEF Next, Writer

\* So no row vanishes.
LEMMA NextNoRowVanishes ==
  ASSUME TypeOK, NoRowVanishes, Next
  PROVE  NoRowVanishes'
<1>1. CASE MayMix
  BY <1>1 DEF NoRowVanishes, MayMix
<1>2. CASE ~MayMix
  <2>1. \A r \in Runs : \A k \in 1..rows[r] : <<r, k>> \in Somewhere
    BY <1>2 DEF NoRowVanishes, RowsOf, Somewhere
  <2>2. \A r \in Runs : \A k \in 1..rows'[r] : <<r, k>> \in Somewhere'
    BY <1>2, <2>1, NextSomewhere
  <2> QED
    BY <2>2 DEF NoRowVanishes, RowsOf, Somewhere
<1> QED
  BY <1>1, <1>2

\* The shutdown stays staged.
LEMMA NextStaged ==
  ASSUME TypeOK, Awaited, Staged, Next
  PROVE  Staged'
<1>1. /\ state \in [Runs -> RunState]
      /\ root \in {"up", "joining", "flushing", "stopped"} /\ mailbox \in Seq(Row)
      /\ asked \subseteq Runs
  BY DEF TypeOK
<1>2. /\ open <=> root \in {"up", "joining"}
      /\ root # "up" => \A r \in Runs : r \in asked \cup late \/ state[r] = "saved"
      /\ ~open => \A r \in asked : state[r] = "saved"
      /\ copied => ~open /\ queue = <<>> /\ chunk = <<>>
      /\ root = "stopped" => copied
      /\ \A row \in lost : row[1] \in late
  BY DEF Staged
<1>3. ASSUME NEW r \in Runs, NEW p \in Runs, StartFlowRunWorker(r, p) PROVE Staged'
  <2>1. /\ UNCHANGED <<asked, late, root, open, copied, queue, chunk, lost>>
        /\ state[r] = "absent" /\ \A q \in Runs : q # r => state'[q] = state[q]
    BY <1>1, <1>3 DEF StartFlowRunWorker, chanVars, rootVars
  <2> QED
    BY <1>1, <1>2, <2>1 DEF Staged
<1>4. ASSUME NEW r \in Runs, Finish(r) PROVE Staged'
  <2>1. /\ UNCHANGED <<asked, late, root, open, copied, queue, chunk, lost>>
        /\ state[r] = "active" /\ \A q \in Runs : q # r => state'[q] = state[q]
    BY <1>1, <1>4 DEF Finish, chanVars, rootVars
  <2> QED
    BY <1>1, <1>2, <2>1 DEF Staged
<1>5. ASSUME NEW r \in Runs, Save(r) \/ Release(r) PROVE Staged'
  <2>1. /\ UNCHANGED <<asked, late, root, open, copied, queue, chunk, lost>>
        /\ state[r] # "saved" /\ \A q \in Runs : q # r => state'[q] = state[q]
    BY <1>1, <1>5 DEF Save, Release, chanVars, rootVars
  <2> QED
    BY <1>1, <1>2, <2>1 DEF Staged
<1>6. ASSUME CopyIn PROVE Staged'
  <2>1. /\ mailbox # <<>> /\ UNCHANGED <<asked, late, root, open, copied, state, chunk>>
        /\ open => lost' = lost
        /\ ~open => queue' = queue /\ lost' = lost \cup {Head(mailbox)}
    BY <1>6 DEF CopyIn, runVars, rootVars
  <2>2. ASSUME ~open PROVE Head(mailbox)[1] \in late
    <3>1. Head(mailbox) = mailbox[1] /\ 1 \in 1..Len(mailbox) /\ Head(mailbox) \in Row
      BY <1>1, <2>1, TailFacts
    <3>2. state[Head(mailbox)[1]] \in {"active", "finished"}
      BY <3>1 DEF Awaited
    <3>3. Head(mailbox)[1] \in Runs
      BY <3>1 DEF Row
    <3> QED
      BY <1>2, <2>2, <3>2, <3>3
  <2>3. \A row \in lost' : row[1] \in late
    BY <1>2, <2>1, <2>2
  <2>4. copied => ~open /\ queue' = <<>> /\ chunk = <<>>
    BY <1>2, <2>1
  <2> QED
    BY <1>2, <2>1, <2>3, <2>4 DEF Staged
<1>7. ASSUME SystemShutdown PROVE Staged'
  <2>1. /\ root = "up" /\ root' = "joining" /\ asked' = Alive /\ late' = {r \in Runs : state[r] = "absent"}
        /\ UNCHANGED <<open, copied, state, queue, chunk, lost>>
    BY <1>7 DEF SystemShutdown, runVars, chanVars
  <2>2. \A r \in Runs : r \in asked' \cup late' \/ state'[r] = "saved"
    BY <1>1, <2>1 DEF Alive, RunState
  <2> QED
    BY <1>2, <2>1, <2>2 DEF Staged
<1>8. ASSUME Joined PROVE Staged'
  <2>1. /\ root = "joining" /\ root' = "flushing" /\ open' = FALSE /\ \A r \in asked : state[r] = "saved"
        /\ UNCHANGED <<asked, late, copied, state, queue, chunk, lost>>
    BY <1>8 DEF Joined, runVars
  <2> QED
    BY <1>2, <2>1 DEF Staged
<1>9. ASSUME Stopped PROVE Staged'
  <2>1. /\ root = "flushing" /\ root' = "stopped" /\ copied
        /\ UNCHANGED <<asked, late, open, copied, state, queue, chunk, lost>>
    BY <1>9 DEF Stopped, runVars, chanVars
  <2> QED
    BY <1>2, <2>1 DEF Staged
<1>10. ASSUME TakeChunk \/ Insert \/ InsertFails PROVE Staged'
  <2>1. UNCHANGED <<asked, late, root, open, copied, state, lost>> /\ ~copied
    BY <1>2, <1>10 DEF TakeChunk, Insert, InsertFails, runVars, rootVars
  <2> QED
    BY <1>2, <2>1 DEF Staged
<1>11. ASSUME CopierEnds PROVE Staged'
  <2>1. /\ UNCHANGED <<asked, late, root, open, state, lost, queue, chunk>>
        /\ copied' = TRUE /\ ~open /\ queue = <<>> /\ chunk = <<>>
    BY <1>11 DEF CopierEnds, runVars, rootVars
  <2> QED
    BY <1>2, <2>1 DEF Staged
<1>12. ASSUME (\E r \in Runs : SendCopyIn(r) \/ Told(r) \/ ForceStop(r)) \/ CloseServer PROVE Staged'
  <2>1. UNCHANGED <<asked, late, root, open, copied, state, queue, chunk, lost>>
    BY <1>12 DEF SendCopyIn, Told, ForceStop, CloseServer, chanVars, runVars, rootVars
  <2> QED
    BY <1>2, <2>1 DEF Staged
<1> QED
  BY <1>3, <1>4, <1>5, <1>6, <1>7, <1>8, <1>9, <1>10, <1>11, <1>12 DEF Next, Writer

-----------------------------------------------------------------------------
(* The theorems *)

\* Nothing has happened in the first state.
LEMMA InitInv == Init => Inv
<1> SUFFICES ASSUME Init PROVE Inv
  OBVIOUS
<1>1. /\ mailbox = <<>> /\ queue = <<>> /\ chunk = <<>> /\ written = <<>>
      /\ failed = {} /\ lost = {} /\ rows = [r \in Runs |-> 0] /\ open /\ ~copied /\ root = "up"
  BY DEF Init
<1>2. TypeOK
  BY EmptyFacts DEF Init, TypeOK, RunState
<1>3. InOrder
  BY <1>1, EmptyOrder DEF InOrder
<1>4. Awaited
  BY <1>1, EmptyFacts DEF Awaited
<1>5. \A r \in Runs : RowsOf(r) = {}
  BY <1>1 DEF RowsOf
<1>6. NoRowVanishes
  BY <1>5 DEF NoRowVanishes
<1>7. Staged
  BY <1>1 DEF Staged
<1> QED
  BY <1>2, <1>3, <1>4, <1>6, <1>7 DEF Inv

\* A step that changes nothing.
LEMMA StutterInv == Inv /\ UNCHANGED vars => Inv'
<1> SUFFICES ASSUME Inv, UNCHANGED vars PROVE Inv'
  OBVIOUS
<1>1. /\ UNCHANGED <<server, root, asked, told, late, state, cut, rows>>
      /\ UNCHANGED <<mailbox, queue, open, chunk, copied, written, failed, lost>>
  BY DEF vars, rootVars, runVars, chanVars
<1>2. TypeOK'
  BY <1>1 DEF Inv, TypeOK
<1>3. InOrder'
  BY <1>1, OrderFrame DEF Inv
<1>4. Awaited'
  BY <1>1 DEF Inv, Awaited
<1>5. NoRowVanishes'
  BY <1>1 DEF Inv, NoRowVanishes, RowsOf, MayMix
<1>6. Staged'
  BY <1>1 DEF Inv, Staged
<1> QED
  BY <1>2, <1>3, <1>4, <1>5, <1>6 DEF Inv

\* Inv is inductive: it holds in every state of DBWorker.
THEOREM InvHolds == Spec => []Inv
<1>1. Inv /\ Next => Inv'
  BY NextTypeOK, NextInOrder, NextAwaited, NextNoRowVanishes, NextStaged DEF Inv
<1>2. Inv /\ [Next]_vars => Inv'
  BY <1>1, StutterInv
<1> QED
  BY InitInv, <1>2, PTL DEF Spec

\* Every variable keeps its type.
THEOREM TypeCorrect == Spec => []TypeOK
<1>1. Inv => TypeOK
  BY DEF Inv
<1> QED
  BY <1>1, InvHolds, PTL

\* The rows of a run are in the database in the order in which they were handed over, for
\* any number of runs and rows and any size of a chunk, with either kind of database.
THEOREM RowsInOrderHolds == Spec => []RowsInOrder
<1>1. Inv => RowsInOrder
  BY DEF Inv, InOrder, Ordered, Precedes, RowsInOrder
<1> QED
  BY <1>1, InvHolds, PTL

\* A shutdown loses nothing of the runs that it found.
THEOREM ShutdownKeepsRowsHolds == Spec => []ShutdownKeepsRows
<1>1. Inv => ShutdownKeepsRows
  <2> SUFFICES ASSUME Inv PROVE ShutdownKeepsRows
    OBVIOUS
  <2>1. TypeOK /\ Awaited /\ NoRowVanishes /\ Staged
    BY DEF Inv
  <2>2. \A row \in lost : row[1] \in late
    BY <2>1 DEF Staged
  <2>3. ASSUME root = "stopped", NEW r \in Runs \ late
        PROVE  /\ state[r] \in {"absent", "saved"}
               /\ MayMix \/ RowsOf(r) \subseteq Range(written) \cup failed
    <3>1. state[r] = "saved" /\ queue = <<>> /\ chunk = <<>>
      BY <2>1, <2>3 DEF Staged
    <3>2. Range(queue) = {} /\ Range(chunk) = {}
      BY <3>1, RangeEmpty
    <3>3. ASSUME NEW row \in RowsOf(r) PROVE row \notin Range(mailbox) /\ row \notin lost
      <4>1. row[1] = r
        BY <3>3 DEF RowsOf
      <4>2. \A x : x \in Range(mailbox) <=> \E i \in 1..Len(mailbox) : x = mailbox[i]
        BY <2>1, RangeFacts DEF TypeOK
      <4> QED
        BY <2>1, <2>2, <2>3, <3>1, <4>1, <4>2 DEF Awaited
    <3> QED
      BY <2>1, <3>1, <3>2, <3>3 DEF NoRowVanishes
  <2> QED
    BY <2>2, <2>3 DEF ShutdownKeepsRows
<1> QED
  BY <1>1, InvHolds, PTL

=============================================================================
