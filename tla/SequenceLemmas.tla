--------------------------- MODULE SequenceLemmas ---------------------------
(***************************************************************************)
(* Facts about sequences and their operators that the proofs of several    *)
(* components use.                                                         *)
(***************************************************************************)
EXTENDS Subsequences, Functions, WellFoundedInduction, TLAPS

\* What Append returns.
LEMMA AppendFacts ==
  ASSUME NEW S, NEW s \in Seq(S), NEW e \in S
  PROVE  /\ Append(s, e) \in Seq(S)
         /\ Len(s) \in Nat /\ Len(Append(s, e)) = Len(s) + 1
         /\ \A i \in 1..Len(s) : Append(s, e)[i] = s[i]
         /\ Append(s, e)[Len(s) + 1] = e
  OBVIOUS

\* What Head and Tail return.
LEMMA TailFacts ==
  ASSUME NEW S, NEW s \in Seq(S), s # <<>>
  PROVE  /\ Tail(s) \in Seq(S) /\ Head(s) \in S
         /\ Len(s) \in Nat \ {0} /\ Len(Tail(s)) = Len(s) - 1
         /\ Head(s) = s[1]
         /\ \A i \in 1..Len(s) - 1 : Tail(s)[i] = s[i + 1]
  OBVIOUS

\* What SubSeq returns when it splits a sequence after its first k elements.
LEMMA SplitFacts ==
  ASSUME NEW S, NEW s \in Seq(S), NEW k \in 0..Len(s)
  PROVE  /\ SubSeq(s, 1, k) \in Seq(S) /\ Len(SubSeq(s, 1, k)) = k
         /\ \A i \in 1..k : SubSeq(s, 1, k)[i] = s[i]
         /\ SubSeq(s, k + 1, Len(s)) \in Seq(S)
         /\ Len(SubSeq(s, k + 1, Len(s))) = Len(s) - k
         /\ \A i \in 1..Len(s) - k : SubSeq(s, k + 1, Len(s))[i] = s[k + i]
  OBVIOUS

\* What a concatenation returns.
LEMMA ConcatFacts ==
  ASSUME NEW S, NEW s \in Seq(S), NEW t \in Seq(S)
  PROVE  /\ s \o t \in Seq(S) /\ Len(s) \in Nat /\ Len(t) \in Nat
         /\ Len(s \o t) = Len(s) + Len(t)
         /\ \A i \in 1..Len(s) : (s \o t)[i] = s[i]
         /\ \A i \in 1..Len(t) : (s \o t)[Len(s) + i] = t[i]
         /\ \A i \in 1..Len(s) + Len(t) : i \in 1..Len(s) \/ \E j \in 1..Len(t) : i = Len(s) + j
<1>1. /\ s \o t \in Seq(S) /\ Len(s) \in Nat /\ Len(t) \in Nat /\ Len(s \o t) = Len(s) + Len(t)
      /\ \A i \in 1..Len(s) : (s \o t)[i] = s[i]
      /\ \A i \in 1..Len(t) : (s \o t)[Len(s) + i] = t[i]
  OBVIOUS
<1>2. ASSUME NEW i \in 1..Len(s) + Len(t), i \notin 1..Len(s)
      PROVE  \E j \in 1..Len(t) : i = Len(s) + j
  <2>1. i - Len(s) \in 1..Len(t) /\ i = Len(s) + (i - Len(s))
    BY <1>1, <1>2
  <2> QED
    BY <2>1
<1> QED
  BY <1>1, <1>2

\* The empty sequence has no elements.
LEMMA EmptyFacts ==
  /\ Len(<<>>) = 0
  /\ \A S : <<>> \in Seq(S)
  /\ \A S : \A s \in Seq(S) : Len(s) = 0 => s = <<>>
  OBVIOUS

-----------------------------------------------------------------------------
(* The elements of a sequence *)

\* Range is the set of its elements.
LEMMA RangeFacts ==
  ASSUME NEW S, NEW s \in Seq(S)
  PROVE  Range(s) \subseteq S /\ \A x : x \in Range(s) <=> \E i \in 1..Len(s) : x = s[i]
  BY DEF Range

\* Of a sequence with one more element,
LEMMA RangeAppend ==
  ASSUME NEW S, NEW s \in Seq(S), NEW e \in S
  PROVE  Range(Append(s, e)) = Range(s) \cup {e}
<1> DEFINE t == Append(s, e)
<1>1. /\ t \in Seq(S) /\ Len(s) \in Nat /\ Len(t) = Len(s) + 1
      /\ \A i \in 1..Len(s) : t[i] = s[i]
      /\ t[Len(s) + 1] = e
  BY AppendFacts
<1> HIDE DEF t
<1>2. \A x : x \in Range(s) <=> \E i \in 1..Len(s) : x = s[i]
  BY RangeFacts
<1>3. \A x : x \in Range(t) <=> \E i \in 1..Len(t) : x = t[i]
  BY <1>1, RangeFacts
<1>4. \A i \in 1..Len(s) + 1 : i \in 1..Len(s) \/ i = Len(s) + 1
  BY <1>1
<1>5. \A i \in 1..Len(s) : i \in 1..Len(s) + 1
  BY <1>1
<1>6. Len(s) + 1 \in 1..Len(s) + 1
  BY <1>1
<1>7. Range(t) = Range(s) \cup {e}
  BY <1>1, <1>2, <1>3, <1>4, <1>5, <1>6
<1> QED
  BY <1>7 DEF t

\* of one without its head,
LEMMA RangeTail ==
  ASSUME NEW S, NEW s \in Seq(S), s # <<>>
  PROVE  Range(s) = {Head(s)} \cup Range(Tail(s))
<1> DEFINE t == Tail(s)
<1>1. /\ t \in Seq(S) /\ Len(s) \in Nat \ {0} /\ Len(t) = Len(s) - 1 /\ Head(s) = s[1]
      /\ \A i \in 1..Len(s) - 1 : t[i] = s[i + 1]
  BY TailFacts
<1> HIDE DEF t
<1>2. \A x : x \in Range(s) <=> \E i \in 1..Len(s) : x = s[i]
  BY RangeFacts
<1>3. \A x : x \in Range(t) <=> \E i \in 1..Len(t) : x = t[i]
  BY <1>1, RangeFacts
<1>4. \A i \in 1..Len(s) : i = 1 \/ (i - 1 \in 1..Len(s) - 1 /\ t[i - 1] = s[i])
  BY <1>1
<1>5. 1 \in 1..Len(s) /\ \A i \in 1..Len(s) - 1 : i + 1 \in 1..Len(s)
  BY <1>1
<1>6. Range(s) = {Head(s)} \cup Range(t)
  BY <1>1, <1>2, <1>3, <1>4, <1>5
<1> QED
  BY <1>6 DEF t

\* of one that is split,
LEMMA RangeSplit ==
  ASSUME NEW S, NEW s \in Seq(S), NEW k \in 0..Len(s)
  PROVE  Range(s) = Range(SubSeq(s, 1, k)) \cup Range(SubSeq(s, k + 1, Len(s)))
<1> DEFINE a == SubSeq(s, 1, k)
           b == SubSeq(s, k + 1, Len(s))
<1>1. /\ a \in Seq(S) /\ Len(a) = k /\ (\A i \in 1..k : a[i] = s[i])
      /\ b \in Seq(S) /\ Len(b) = Len(s) - k /\ (\A i \in 1..Len(s) - k : b[i] = s[k + i])
      /\ Len(s) \in Nat
  BY SplitFacts
<1> HIDE DEF a, b
<1>2. \A x : x \in Range(s) <=> \E i \in 1..Len(s) : x = s[i]
  BY RangeFacts
<1>3. /\ \A x : x \in Range(a) <=> \E i \in 1..k : x = a[i]
      /\ \A x : x \in Range(b) <=> \E i \in 1..Len(b) : x = b[i]
  BY <1>1, RangeFacts
<1>4. \A i \in 1..Len(s) : 
         (i \in 1..k /\ a[i] = s[i]) \/ (i - k \in 1..Len(s) - k /\ b[i - k] = s[i])
  BY <1>1
<1>5. (\A i \in 1..k : i \in 1..Len(s)) /\ \A i \in 1..Len(s) - k : k + i \in 1..Len(s)
  BY <1>1
<1>6. ASSUME NEW x \in Range(s) PROVE x \in Range(a) \/ x \in Range(b)
  <2>1. PICK i \in 1..Len(s) : x = s[i]
    BY <1>2
  <2> QED
    BY <1>1, <1>3, <1>4, <2>1
<1>7. ASSUME NEW x, x \in Range(a) \/ x \in Range(b) PROVE x \in Range(s)
  BY <1>1, <1>2, <1>3, <1>5, <1>7
<1> QED
  BY <1>6, <1>7 DEF a, b

\* and of a concatenation.
LEMMA RangeConcat ==
  ASSUME NEW S, NEW s \in Seq(S), NEW t \in Seq(S)
  PROVE  Range(s \o t) = Range(s) \cup Range(t)
<1> DEFINE u == s \o t
<1>1. /\ u \in Seq(S) /\ Len(s) \in Nat /\ Len(t) \in Nat
      /\ Len(u) = Len(s) + Len(t)
      /\ \A i \in 1..Len(s) : u[i] = s[i]
      /\ \A i \in 1..Len(t) : u[Len(s) + i] = t[i]
      /\ \A i \in 1..Len(s) + Len(t) : i \in 1..Len(s) \/ \E j \in 1..Len(t) : i = Len(s) + j
  BY ConcatFacts
<1> HIDE DEF u
<1>2. /\ \A x : x \in Range(s) <=> \E i \in 1..Len(s) : x = s[i]
      /\ \A x : x \in Range(t) <=> \E i \in 1..Len(t) : x = t[i]
      /\ \A x : x \in Range(u) <=> \E i \in 1..Len(u) : x = u[i]
  <2>1. \A x : x \in Range(u) <=> \E i \in 1..Len(u) : x = u[i]
    BY <1>1, RangeFacts
  <2> QED
    BY <2>1, RangeFacts
<1>3. /\ \A i \in 1..Len(s) : i \in 1..Len(s) + Len(t)
      /\ \A i \in 1..Len(t) : Len(s) + i \in 1..Len(s) + Len(t)
  BY <1>1
<1>4. ASSUME NEW x \in Range(u) PROVE x \in Range(s) \/ x \in Range(t)
  <2>1. PICK i \in 1..Len(s) + Len(t) : x = u[i]
    BY <1>1, <1>2
  <2>2. CASE i \in 1..Len(s)
    BY <1>1, <1>2, <2>1, <2>2
  <2>3. ASSUME NEW j \in 1..Len(t), i = Len(s) + j PROVE x \in Range(t)
    <3>1. u[i] = t[j]
      BY <1>1, <2>3
    <3> QED
      BY <1>2, <2>1, <3>1
  <2> QED
    BY <1>1, <2>2, <2>3
<1>5. ASSUME NEW x, x \in Range(s) PROVE x \in Range(u)
  <2>1. PICK i \in 1..Len(s) : x = s[i]
    BY <1>2, <1>5
  <2>2. x = u[i] /\ i \in 1..Len(u)
    BY <1>1, <1>3, <2>1
  <2> QED
    BY <1>2, <2>2
<1>6. ASSUME NEW x, x \in Range(t) PROVE x \in Range(u)
  <2>1. PICK i \in 1..Len(t) : x = t[i]
    BY <1>2, <1>6
  <2>2. x = u[Len(s) + i] /\ Len(s) + i \in 1..Len(u)
    BY <1>1, <1>3, <2>1
  <2> QED
    BY <1>2, <2>2
<1> QED
  BY <1>4, <1>5, <1>6 DEF u

\* The empty sequence has none.
LEMMA RangeEmpty == Range(<<>>) = {}
  BY DEF Range

-----------------------------------------------------------------------------
(* Subsequences *)

\* A set of naturals has a least element; this is how facts about recursive functions are
\* proved by induction.
LEMMA LeastElement ==
  ASSUME NEW T, T \subseteq Nat, T # {}
  PROVE  \E m \in T : \A n \in T : m <= n
<1> DEFINE R == OpToRel(<, Nat)
<1>1. IsWellFoundedOn(R, Nat)
  BY NatLessThanWellFounded
<1>2. \A x, y \in Nat : y < x => <<y, x>> \in R
  BY DEF OpToRel
<1> HIDE DEF R
<1>3. PICK x \in T : \A y \in T : ~ (<<y, x>> \in R)
  BY <1>1, WFMin
<1>4. \A y \in T : ~ (y < x)
  BY <1>2, <1>3
<1> QED
  BY <1>4

\* What Keep does with one element, and a function that does it up to the n-th.
KeepStep(f, s, T, n) ==
  IF n = 0 THEN <<>> ELSE IF s[n] \in T THEN Append(f[n - 1], s[n]) ELSE f[n - 1]

KeepsUpTo(f, s, T, n) == f = [i \in 0..n |-> KeepStep(f, s, T, i)]

\* Such a function exists.
LEMMA KeepExists ==
  ASSUME NEW S, NEW s \in Seq(S), NEW T
  PROVE  \E f : KeepsUpTo(f, s, T, Len(s))
<1> DEFINE Bad == {n \in 0..Len(s) : ~ \E f : KeepsUpTo(f, s, T, n)}
<1>0. Len(s) \in Nat
  OBVIOUS
<1> SUFFICES ASSUME Bad # {} PROVE FALSE
  BY <1>0
<1>1. PICK m \in Bad : \A n \in Bad : m <= n
  <2>1. Bad \subseteq Nat
    BY <1>0
  <2> HIDE DEF Bad
  <2> QED
    BY <2>1, LeastElement
<1>2. m \in 0..Len(s) /\ ~ \E f : KeepsUpTo(f, s, T, m)
  BY <1>1
<1>3. CASE m = 0
  <2> DEFINE g == [i \in 0..0 |-> <<>>]
  <2>1. KeepsUpTo(g, s, T, 0)
    BY DEF KeepsUpTo, KeepStep
  <2> QED
    BY <1>2, <1>3, <2>1
<1>4. CASE m # 0
  <2>1. m - 1 \in 0..Len(s) /\ m - 1 \notin Bad
    BY <1>0, <1>1, <1>4
  <2>2. PICK f : KeepsUpTo(f, s, T, m - 1)
    BY <2>1
  <2> DEFINE g == [i \in 0..m |-> IF i = m THEN KeepStep(f, s, T, m) ELSE f[i]]
  <2>3. m \in Nat \ {0}
    BY <1>0, <1>2, <1>4
  <2>4. \A i \in 0..m - 1 : f[i] = KeepStep(f, s, T, i) /\ g[i] = f[i]
    BY <2>2, <2>3 DEF KeepsUpTo
  <2>5. g[m] = KeepStep(f, s, T, m)
    BY <2>3
  <2>6. ASSUME NEW i \in 0..m PROVE KeepStep(g, s, T, i) = KeepStep(f, s, T, i)
    <3>1. i # 0 => i - 1 \in 0..m - 1
      BY <2>3
    <3>2. i # 0 => g[i - 1] = f[i - 1]
      BY <2>4, <3>1
    <3> HIDE DEF g
    <3> QED
      BY <3>2 DEF KeepStep
  <2>7. \A i \in 0..m : g[i] = KeepStep(g, s, T, i)
    <3> SUFFICES ASSUME NEW i \in 0..m PROVE g[i] = KeepStep(g, s, T, i)
      OBVIOUS
    <3>1. CASE i = m
      BY <2>5, <2>6, <3>1
    <3>2. CASE i # m
      <4>1. i \in 0..m - 1
        BY <2>3, <3>2
      <4> QED
        BY <2>4, <2>6, <4>1
    <3> QED
      BY <3>1, <3>2
  <2>8. KeepsUpTo(g, s, T, m)
    <3>1. g = [i \in 0..m |-> g[i]]
      OBVIOUS
    <3> HIDE DEF g
    <3> QED
      BY <2>7, <3>1 DEF KeepsUpTo
  <2> QED
    BY <1>2, <2>8
<1> QED
  BY <1>3, <1>4

\* Keep is the last value of one.
LEMMA KeepDef ==
  ASSUME NEW S, NEW s \in Seq(S), NEW T
  PROVE  \E f : KeepsUpTo(f, s, T, Len(s)) /\ Keep(s, T) = f[Len(s)]
<1> DEFINE kept == CHOOSE f : f = [n \in 0..Len(s) |-> KeepStep(f, s, T, n)]
<1>1. Keep(s, T) = kept[Len(s)]
  BY DEF Keep, KeepStep
<1>2. KeepsUpTo(kept, s, T, Len(s))
  BY KeepExists DEF KeepsUpTo
<1> QED
  BY <1>1, <1>2

\* t is what is left of the first n elements of s, and h says where each was.
Selects(h, t, S, s, T, n) ==
  /\ t \in Seq(S) /\ h \in [1..Len(t) -> 1..n]
  /\ \A i \in 1..Len(t) : t[i] = s[h[i]] /\ t[i] \in T
  /\ \A i, j \in 1..Len(t) : i < j => h[i] < h[j]
  /\ \A k \in 1..n : s[k] \in T => \E i \in 1..Len(t) : h[i] = k

\* One more element.
LEMMA SelectsOneMore ==
  ASSUME NEW S, NEW s \in Seq(S), NEW T, NEW n \in Nat, n + 1 \in 1..Len(s),
         NEW t, NEW h, Selects(h, t, S, s, T, n)
  PROVE  /\ s[n + 1] \notin T => Selects(h, t, S, s, T, n + 1)
         /\ s[n + 1] \in T => \E g : Selects(g, Append(t, s[n + 1]), S, s, T, n + 1)
<1>1. /\ t \in Seq(S) /\ Len(t) \in Nat /\ h \in [1..Len(t) -> 1..n]
      /\ \A i \in 1..Len(t) : t[i] = s[h[i]] /\ t[i] \in T
      /\ \A i, j \in 1..Len(t) : i < j => h[i] < h[j]
      /\ \A k \in 1..n : s[k] \in T => \E i \in 1..Len(t) : h[i] = k
  BY DEF Selects
<1>2. \A k \in 1..n + 1 : k \in 1..n \/ k = n + 1
  OBVIOUS
<1>3. ASSUME s[n + 1] \notin T PROVE Selects(h, t, S, s, T, n + 1)
  <2>1. h \in [1..Len(t) -> 1..n + 1]
    BY <1>1
  <2>2. \A k \in 1..n + 1 : s[k] \in T => \E i \in 1..Len(t) : h[i] = k
    BY <1>1, <1>2, <1>3
  <2> QED
    BY <1>1, <2>1, <2>2 DEF Selects
<1>4. ASSUME s[n + 1] \in T PROVE \E g : Selects(g, Append(t, s[n + 1]), S, s, T, n + 1)
  <2> DEFINE e == s[n + 1]
             u == Append(t, e)
             g == [i \in 1..Len(t) + 1 |-> IF i = Len(t) + 1 THEN n + 1 ELSE h[i]]
  <2>1. e \in S
    OBVIOUS
  <2>2. /\ u \in Seq(S) /\ Len(u) = Len(t) + 1 /\ u[Len(t) + 1] = e
        /\ \A i \in 1..Len(t) : u[i] = t[i]
    BY <1>1, <2>1
  <2>3. \A i \in 1..Len(u) : i \in 1..Len(t) \/ i = Len(t) + 1
    BY <1>1, <2>2
  <2>4. g[Len(t) + 1] = n + 1 /\ \A i \in 1..Len(t) : g[i] = h[i] /\ h[i] \in 1..n
    BY <1>1
  <2>5. g \in [1..Len(u) -> 1..n + 1]
    BY <1>1, <2>2
  <2> HIDE DEF g, u
  <2>6. \A i \in 1..Len(u) : u[i] = s[g[i]] /\ u[i] \in T
    BY <1>1, <1>4, <2>2, <2>3, <2>4
  <2>7. \A i, j \in 1..Len(u) : i < j => g[i] < g[j]
    <3> SUFFICES ASSUME NEW i \in 1..Len(u), NEW j \in 1..Len(u), i < j PROVE g[i] < g[j]
      OBVIOUS
    <3>1. i \in 1..Len(t)
      BY <1>1, <2>2
    <3>2. CASE j = Len(t) + 1
      BY <2>4, <3>1, <3>2
    <3>3. CASE j \in 1..Len(t)
      BY <1>1, <2>4, <3>1, <3>3
    <3> QED
      BY <2>3, <3>2, <3>3
  <2>8. \A k \in 1..n + 1 : s[k] \in T => \E i \in 1..Len(u) : g[i] = k
    <3> SUFFICES ASSUME NEW k \in 1..n + 1, s[k] \in T PROVE \E i \in 1..Len(u) : g[i] = k
      OBVIOUS
    <3>1. CASE k = n + 1
      BY <1>1, <2>2, <2>4, <3>1
    <3>2. CASE k \in 1..n
      <4>1. PICK i \in 1..Len(t) : h[i] = k
        BY <1>1, <3>2
      <4> QED
        BY <1>1, <2>2, <2>4, <4>1
    <3> QED
      BY <1>2, <3>1, <3>2
  <2>9. Selects(g, u, S, s, T, n + 1)
    BY <2>2, <2>5, <2>6, <2>7, <2>8 DEF Selects
  <2> QED
    BY <2>9 DEF u
<1> QED
  BY <1>3, <1>4

\* Keep returns the elements that are in T, all of them and in their order.
LEMMA KeepFacts ==
  ASSUME NEW S, NEW s \in Seq(S), NEW T
  PROVE  \E h : Selects(h, Keep(s, T), S, s, T, Len(s))
<1>1. PICK f : KeepsUpTo(f, s, T, Len(s)) /\ Keep(s, T) = f[Len(s)]
  BY KeepDef
<1>2. Len(s) \in Nat /\ \A n \in 0..Len(s) : f[n] = KeepStep(f, s, T, n)
  <2>1. f = [i \in 0..Len(s) |-> KeepStep(f, s, T, i)]
    BY <1>1 DEF KeepsUpTo
  <2>2. \A g : g = [i \in 0..Len(s) |-> KeepStep(f, s, T, i)] =>
          \A n \in 0..Len(s) : g[n] = KeepStep(f, s, T, n)
    OBVIOUS
  <2> QED
    BY <2>1, <2>2
<1> DEFINE Bad == {n \in 0..Len(s) : ~ \E h : Selects(h, f[n], S, s, T, n)}
<1> SUFFICES ASSUME Bad # {} PROVE FALSE
  BY <1>1, <1>2
<1>3. PICK m \in Bad : \A n \in Bad : m <= n
  <2>1. Bad \subseteq Nat
    BY <1>2
  <2> HIDE DEF Bad
  <2> QED
    BY <2>1, LeastElement
<1>4. m \in 0..Len(s) /\ ~ \E h : Selects(h, f[m], S, s, T, m)
  BY <1>3
<1>5. CASE m = 0
  <2> DEFINE h == [i \in 1..0 |-> 1]
  <2>1. f[0] = <<>>
    BY <1>2 DEF KeepStep
  <2>2. h \in [1..Len(<<>>) -> 1..0] /\ <<>> \in Seq(S)
    OBVIOUS
  <2> HIDE DEF h
  <2>3. Selects(h, f[0], S, s, T, 0)
    BY <2>1, <2>2 DEF Selects
  <2> QED
    BY <1>4, <1>5, <2>3
<1>6. CASE m # 0
  <2> DEFINE n == m - 1
  <2>1. n \in Nat /\ n \in 0..Len(s) /\ n \notin Bad /\ n + 1 = m /\ n + 1 \in 1..Len(s)
    BY <1>2, <1>3, <1>6
  <2>2. PICK h : Selects(h, f[n], S, s, T, n)
    BY <2>1
  <2>3. f[n + 1] = IF s[n + 1] \in T THEN Append(f[n], s[n + 1]) ELSE f[n]
    BY <1>2, <1>4, <1>6, <2>1 DEF KeepStep
  <2> HIDE DEF n
  <2>4. \E g : Selects(g, f[n + 1], S, s, T, n + 1)
    BY <2>1, <2>2, <2>3, SelectsOneMore
  <2> QED
    BY <1>4, <2>1, <2>4
<1> QED
  BY <1>5, <1>6

\* An element that is appended is kept if it is in T.
LEMMA KeepAppend ==
  ASSUME NEW S, NEW s \in Seq(S), NEW e \in S, NEW T
  PROVE  Keep(Append(s, e), T) = IF e \in T THEN Append(Keep(s, T), e) ELSE Keep(s, T)
<1> DEFINE t == Append(s, e)
<1>1. /\ t \in Seq(S) /\ Len(s) \in Nat /\ Len(t) = Len(s) + 1
      /\ \A i \in 1..Len(s) : t[i] = s[i]
      /\ t[Len(s) + 1] = e
  BY AppendFacts
<1> HIDE DEF t
<1>2. PICK f : KeepsUpTo(f, s, T, Len(s)) /\ Keep(s, T) = f[Len(s)]
  BY KeepDef
<1>3. PICK g : KeepsUpTo(g, t, T, Len(t)) /\ Keep(t, T) = g[Len(t)]
  BY <1>1, KeepDef
<1>4. ASSUME NEW r, NEW n \in Nat, NEW x, KeepsUpTo(x, r, T, n)
      PROVE  \A i \in 0..n : x[i] = KeepStep(x, r, T, i)
  <2>1. x = [i \in 0..n |-> KeepStep(x, r, T, i)]
    BY <1>4 DEF KeepsUpTo
  <2>2. \A y : y = [i \in 0..n |-> KeepStep(x, r, T, i)] =>
          \A i \in 0..n : y[i] = KeepStep(x, r, T, i)
    OBVIOUS
  <2> QED
    BY <2>1, <2>2
<1>5. \A i \in 0..Len(s) : f[i] = KeepStep(f, s, T, i)
  BY <1>1, <1>2, <1>4
<1>6. \A i \in 0..Len(s) + 1 : g[i] = KeepStep(g, t, T, i)
  BY <1>1, <1>3, <1>4
<1>7. \A i \in 0..Len(s) : f[i] = g[i]
  <2> DEFINE Bad == {i \in 0..Len(s) : f[i] # g[i]}
  <2> SUFFICES ASSUME Bad # {} PROVE FALSE
    OBVIOUS
  <2>1. PICK m \in Bad : \A n \in Bad : m <= n
    <3>1. Bad \subseteq Nat
      BY <1>1
    <3> HIDE DEF Bad
    <3> QED
      BY <3>1, LeastElement
  <2>2. m \in 0..Len(s) /\ f[m] # g[m] /\ m \in 0..Len(s) + 1
    BY <1>1, <2>1
  <2>3. f[m] = KeepStep(f, s, T, m) /\ g[m] = KeepStep(g, t, T, m)
    BY <1>5, <1>6, <2>2
  <2>4. CASE m = 0
    BY <2>2, <2>3, <2>4 DEF KeepStep
  <2>5. CASE m # 0
    <3>1. m - 1 \in 0..Len(s) /\ m - 1 \notin Bad /\ m \in 1..Len(s)
      BY <1>1, <2>1, <2>5
    <3>2. f[m - 1] = g[m - 1] /\ t[m] = s[m]
      BY <1>1, <3>1
    <3> QED
      BY <2>2, <2>3, <2>5, <3>2 DEF KeepStep
  <2> QED
    BY <2>4, <2>5
<1>8. g[Len(s) + 1] = IF e \in T THEN Append(g[Len(s)], e) ELSE g[Len(s)]
  <2>1. Len(s) + 1 \in 0..Len(s) + 1 /\ Len(s) + 1 # 0 /\ (Len(s) + 1) - 1 = Len(s)
    BY <1>1
  <2>2. g[Len(s) + 1] = KeepStep(g, t, T, Len(s) + 1)
    BY <1>6, <2>1
  <2> QED
    BY <1>1, <2>1, <2>2 DEF KeepStep
<1>9. g[Len(s)] = Keep(s, T) /\ Keep(t, T) = g[Len(s) + 1]
  BY <1>1, <1>2, <1>3, <1>7
<1> QED
  BY <1>8, <1>9 DEF t

\* Nothing is kept of a sequence that has nothing of T.
LEMMA KeepNothing ==
  ASSUME NEW S, NEW s \in Seq(S), NEW T, \A i \in 1..Len(s) : s[i] \notin T
  PROVE  Keep(s, T) = <<>>
<1>1. PICK h : Selects(h, Keep(s, T), S, s, T, Len(s))
  BY KeepFacts
<1>2. /\ Keep(s, T) \in Seq(S) /\ h \in [1..Len(Keep(s, T)) -> 1..Len(s)]
      /\ \A i \in 1..Len(Keep(s, T)) : Keep(s, T)[i] = s[h[i]] /\ Keep(s, T)[i] \in T
  BY <1>1 DEF Selects
<1>3. \A i \in 1..Len(Keep(s, T)) : FALSE
  BY <1>2
<1>4. Len(Keep(s, T)) = 0
  <2>1. Len(Keep(s, T)) \in Nat
    BY <1>2
  <2>2. Len(Keep(s, T)) # 0 => 1 \in 1..Len(Keep(s, T))
    BY <2>1
  <2> QED
    BY <1>3, <2>2
<1> QED
  BY <1>2, <1>4, EmptyFacts

\* The elements that are kept.
LEMMA KeepRange ==
  ASSUME NEW S, NEW s \in Seq(S), NEW T
  PROVE  Keep(s, T) \in Seq(S) /\ Range(Keep(s, T)) = Range(s) \cap T
<1> DEFINE t == Keep(s, T)
<1>1. PICK h : Selects(h, t, S, s, T, Len(s))
  BY KeepFacts
<1>2. /\ t \in Seq(S) /\ h \in [1..Len(t) -> 1..Len(s)]
      /\ \A i \in 1..Len(t) : t[i] = s[h[i]] /\ t[i] \in T
      /\ \A k \in 1..Len(s) : s[k] \in T => \E i \in 1..Len(t) : h[i] = k
  BY <1>1 DEF Selects
<1> HIDE DEF t
<1>3. \A x : x \in Range(t) <=> \E i \in 1..Len(t) : x = t[i]
  BY <1>2, RangeFacts
<1>4. \A x : x \in Range(s) <=> \E i \in 1..Len(s) : x = s[i]
  BY RangeFacts
<1>5. \A x \in Range(t) : x \in Range(s) /\ x \in T
  BY <1>2, <1>3, <1>4
<1>6. \A x \in Range(s) : x \in T => x \in Range(t)
  BY <1>2, <1>3, <1>4
<1>7. Range(t) = Range(s) \cap T
  BY <1>5, <1>6
<1> QED
  BY <1>2, <1>7 DEF t
=============================================================================
