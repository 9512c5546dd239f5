----------------------------- MODULE QueueLemmas -----------------------------
(***************************************************************************)
(* Facts about a FIFO queue kept as a sequence, about the history sequence *)
(* of what has passed through it, and about sets of natural numbers, with  *)
(* induction over them and functions that recur.  Used by the proofs.      *)
(***************************************************************************)
EXTENDS SequenceTheorems, FiniteSetTheorems, FiniteSetsExt, TLAPS

(* All elements of a sequence are different. *)
Distinct(s) == \A i, j \in DOMAIN s : s[i] = s[j] => i = j

(* Appending adds exactly the new element. *)
LEMMA RangeAppend ==
  ASSUME NEW S, NEW s \in Seq(S), NEW e \in S
  PROVE  Range(Append(s, e)) = Range(s) \cup {e}
<1>1. Append(s, e) = s \o <<e>>
  BY AppendIsConcat
<1>2. <<e>> \in Seq(S) /\ Range(<<e>>) = {e}
  BY DEF Range
<1>3. Range(s \o <<e>>) = Range(s) \cup Range(<<e>>)
  BY <1>2, RangeConcatenation
<1> QED
  BY <1>1, <1>2, <1>3, Zenon

(* A non-empty queue holds its head and its tail. *)
LEMMA RangeHeadTail ==
  ASSUME NEW S, NEW s \in Seq(S), s # <<>>
  PROVE  Range(s) = {Head(s)} \cup Range(Tail(s))
<1>1. /\ Tail(s) \in Seq(S)
      /\ Head(s) \in S
  BY HeadTailProperties
<1>2. s = <<Head(s)>> \o Tail(s)
  <2>1. <<Head(s)>> \in Seq(S)
    BY <1>1
  <2> QED
    BY <1>1, <2>1
<1>3. <<Head(s)>> \in Seq(S) /\ Range(<<Head(s)>>) = {Head(s)}
  BY <1>1 DEF Range
<1>4. \A u, v \in Seq(S) : Range(u \o v) = Range(u) \cup Range(v)
  BY RangeConcatenation
<1>5. Range(<<Head(s)>> \o Tail(s)) = Range(<<Head(s)>>) \cup Range(Tail(s))
  BY <1>1, <1>3, <1>4, Zenon
<1> QED
  BY <1>2, <1>3, <1>5, Zenon

(* Moving the head of a queue to the end of the history changes nothing in *)
(* the history followed by the queue.                                      *)
LEMMA MoveHead ==
  ASSUME NEW S, NEW h \in Seq(S), NEW q \in Seq(S), q # <<>>
  PROVE  Append(h, Head(q)) \o Tail(q) = h \o q
<1>1. /\ Tail(q) \in Seq(S)
      /\ Head(q) \in S
      /\ <<Head(q)>> \in Seq(S)
  BY HeadTailProperties
<1>2. q = <<Head(q)>> \o Tail(q)
  BY <1>1
<1>3. Append(h, Head(q)) = h \o <<Head(q)>>
  BY <1>1, AppendIsConcat
<1> QED
  BY <1>1, <1>2, <1>3, ConcatAssociative

(* Appending to the queue appends to the history followed by the queue. *)
LEMMA ConcatAppend ==
  ASSUME NEW S, NEW h \in Seq(S), NEW q \in Seq(S), NEW e \in S
  PROVE  h \o Append(q, e) = Append(h \o q, e)
<1>1. /\ <<e>> \in Seq(S)
      /\ h \o q \in Seq(S)
  BY ConcatProperties
<1>2. /\ Append(q, e) = q \o <<e>>
      /\ Append(h \o q, e) = (h \o q) \o <<e>>
  BY <1>1, AppendIsConcat
<1> QED
  BY <1>1, <1>2, ConcatAssociative

(* A sequence of different elements stays one when a new element is added. *)
LEMMA DistinctAppend ==
  ASSUME NEW S, NEW s \in Seq(S), NEW e \in S, Distinct(s), e \notin Range(s)
  PROVE  Distinct(Append(s, e))
<1> DEFINE t == Append(s, e)
<1>1. /\ DOMAIN t = 1 .. Len(s) + 1
      /\ \A i \in 1 .. Len(s) : t[i] = s[i]
      /\ t[Len(s) + 1] = e
      /\ Len(s) \in Nat
      /\ DOMAIN s = 1 .. Len(s)
  BY AppendProperties, LenProperties
<1>2. \A i \in 1 .. Len(s) : s[i] # e
  BY <1>1 DEF Range
<1>3. ASSUME NEW i \in DOMAIN t, NEW j \in DOMAIN t, t[i] = t[j]
      PROVE  i = j
  <2>1. CASE i \in 1 .. Len(s) /\ j \in 1 .. Len(s)
    BY <1>1, <1>3, <2>1 DEF Distinct
  <2>2. CASE i = Len(s) + 1 \/ j = Len(s) + 1
    <3> HIDE DEF t
    <3> QED BY <1>1, <1>2, <1>3, <2>2
  <2> HIDE DEF t
  <2> QED
    BY <1>1, <2>1, <2>2
<1> HIDE DEF t
<1> QED
  BY <1>3 DEF Distinct, t

(* What waits is not in the history of what passed. *)
LEMMA WaitingNotPassed ==
  ASSUME NEW S, NEW h \in Seq(S), NEW q \in Seq(S), Distinct(h \o q)
  PROVE  Range(h) \cap Range(q) = {}
<1>1. /\ Len(h) \in Nat
      /\ Len(q) \in Nat
      /\ DOMAIN h = 1 .. Len(h)
      /\ DOMAIN q = 1 .. Len(q)
  BY LenProperties
<1>2. /\ DOMAIN (h \o q) = 1 .. Len(h) + Len(q)
      /\ \A k \in 1 .. Len(h) : (h \o q)[k] = h[k]
      /\ \A k \in 1 .. Len(q) : (h \o q)[Len(h) + k] = q[k]
  BY <1>1, ConcatProperties, LenProperties
<1>3. SUFFICES ASSUME NEW i \in DOMAIN h, NEW j \in DOMAIN q, h[i] = q[j]
               PROVE  FALSE
  BY DEF Range
<1> DEFINE c == h \o q
<1>4. c[i] = c[Len(h) + j] /\ i \in DOMAIN c /\ Len(h) + j \in DOMAIN c
  BY <1>1, <1>2, <1>3
<1>5. i = Len(h) + j
  <2> HIDE DEF c
  <2> QED BY <1>4 DEF Distinct, c
<1> QED
  BY <1>1, <1>5

(* The head of a queue of different elements is not in its tail. *)
LEMMA HeadNotInTail ==
  ASSUME NEW S, NEW h \in Seq(S), NEW q \in Seq(S), q # <<>>, Distinct(h \o q)
  PROVE  Head(q) \notin Range(h)
<1>1. Head(q) \in Range(q)
  BY RangeHeadTail
<1> QED
  BY <1>1, WaitingNotPassed

(* The rest of a queue of different elements holds all but its head, once. *)
LEMMA DistinctTail ==
  ASSUME NEW S, NEW s \in Seq(S), s # <<>>, Distinct(s)
  PROVE  /\ Tail(s) \in Seq(S) /\ Head(s) \in S
         /\ Distinct(Tail(s))
         /\ Head(s) \notin Range(Tail(s))
         /\ Range(s) = {Head(s)} \cup Range(Tail(s))
<1> DEFINE t == Tail(s)
<1>1. /\ t \in Seq(S) /\ Head(s) \in S
      /\ Len(s) \in Nat /\ Len(s) # 0 /\ DOMAIN s = 1 .. Len(s)
      /\ Len(t) = Len(s) - 1 /\ DOMAIN t = 1 .. Len(s) - 1
      /\ \A i \in 1 .. Len(s) - 1 : t[i] = s[i + 1]
      /\ Head(s) = s[1]
  BY HeadTailProperties, LenProperties, EmptySeq
<1> HIDE DEF t
<1>2. ASSUME NEW i \in DOMAIN t, NEW j \in DOMAIN t, t[i] = t[j] PROVE i = j
  <2>1. i + 1 \in DOMAIN s /\ j + 1 \in DOMAIN s /\ s[i + 1] = s[j + 1]
    BY <1>1, <1>2
  <2>2. i + 1 = j + 1
    BY <2>1 DEF Distinct
  <2> QED BY <2>2, <1>1
<1>3. ASSUME NEW i \in DOMAIN t, t[i] = Head(s) PROVE FALSE
  <2>1. i + 1 \in DOMAIN s /\ 1 \in DOMAIN s /\ s[i + 1] = s[1]
    BY <1>1, <1>3
  <2>2. i + 1 = 1
    BY <2>1 DEF Distinct
  <2> QED BY <2>2, <1>1
<1>4. Distinct(t)
  BY <1>2 DEF Distinct
<1>5. Head(s) \notin Range(t)
  BY <1>3 DEF Range
<1>6. Range(s) = {Head(s)} \cup Range(t)
  BY RangeHeadTail DEF t
<1> QED BY <1>1, <1>4, <1>5, <1>6 DEF t

(* Nothing waits in an empty queue.                                        *)
LEMMA EmptyQueue == Range(<<>>) = {} /\ Distinct(<<>>)
  BY DEF Range, Distinct

-----------------------------------------------------------------------------
(* Parts of a sequence.                                                    *)
LEMMA PartOf ==
  ASSUME NEW S, NEW s \in Seq(S), NEW m \in Nat, NEW n \in Nat,
         1 <= m, m <= n + 1, n <= Len(s)
  PROVE  /\ SubSeq(s, m, n) \in Seq(S) /\ Len(SubSeq(s, m, n)) = n - m + 1
         /\ \A i \in 1 .. n - m + 1 : SubSeq(s, m, n)[i] = s[m + i - 1]
<1>1. Len(s) \in Nat /\ \A i \in m .. n : i \in 1 .. Len(s)
  BY LenProperties
<1>2. \A i \in m .. n : s[i] \in S
  BY <1>1, ElementOfSeq
<1>3. /\ SubSeq(s, m, n) \in Seq(S)
      /\ Len(SubSeq(s, m, n)) = IF m <= n THEN n - m + 1 ELSE 0
      /\ \A i \in 1 .. n - m + 1 : SubSeq(s, m, n)[i] = s[m + i - 1]
  BY <1>2, SubSeqProperties
<1> QED BY <1>3

CutOut(s, k) == SubSeq(s, 1, k - 1) \o SubSeq(s, k + 1, Len(s))

(* A sequence without its k-th element.                                    *)
LEMMA CutOutElements ==
  ASSUME NEW S, NEW s \in Seq(S), NEW k \in 1 .. Len(s)
  PROVE  /\ CutOut(s, k) \in Seq(S) /\ Len(CutOut(s, k)) = Len(s) - 1
         /\ DOMAIN CutOut(s, k) = 1 .. Len(s) - 1
         /\ \A i \in 1 .. Len(s) - 1 :
              CutOut(s, k)[i] = IF i < k THEN s[i] ELSE s[i + 1]
<1> DEFINE n == Len(s)
           a == SubSeq(s, 1, k - 1)
           b == SubSeq(s, k + 1, n)
<1>1. n \in Nat
  BY LenProperties
<1>2. a \in Seq(S) /\ Len(a) = k - 1 /\ \A i \in 1 .. k - 1 : a[i] = s[i]
  BY <1>1, PartOf
<1>3. b \in Seq(S) /\ Len(b) = n - k /\ \A i \in 1 .. n - k : b[i] = s[k + i]
  <2> DEFINE m == k + 1
  <2>1. m \in Nat /\ 1 <= m /\ m <= n + 1
    BY <1>1
  <2> HIDE DEF m
  <2>2. /\ SubSeq(s, m, n) \in Seq(S) /\ Len(SubSeq(s, m, n)) = n - m + 1
        /\ \A i \in 1 .. n - m + 1 : SubSeq(s, m, n)[i] = s[m + i - 1]
    BY <1>1, <2>1, PartOf
  <2>3. n - m + 1 = n - k /\ \A i \in 1 .. n - k : m + i - 1 = k + i
    BY <1>1 DEF m
  <2>4. b = SubSeq(s, m, n)
    BY DEF m
  <2> HIDE DEF b
  <2> QED BY <2>2, <2>3, <2>4
<1> HIDE DEF a, b
<1>4. /\ a \o b \in Seq(S) /\ Len(a \o b) = n - 1
      /\ \A i \in 1 .. n - 1 : (a \o b)[i] = IF i <= k - 1 THEN a[i] ELSE b[i - (k - 1)]
  <2>1. n - 1 = Len(a) + Len(b)
    BY <1>1, <1>2, <1>3
  <2> QED BY <1>2, <1>3, <2>1, ConcatProperties
<1>5. ASSUME NEW i \in 1 .. n - 1
      PROVE  (a \o b)[i] = IF i < k THEN s[i] ELSE s[i + 1]
  <2>1. CASE i < k
    <3>1. i <= k - 1 /\ i \in 1 .. k - 1
      BY <2>1
    <3> QED BY <1>2, <1>4, <2>1, <3>1
  <2>2. CASE ~(i < k)
    <3>1. i - (k - 1) \in 1 .. n - k /\ k + (i - (k - 1)) = i + 1 /\ ~(i <= k - 1)
      BY <1>1, <2>2
    <3>2. (a \o b)[i] = b[i - (k - 1)]
      BY <1>4, <3>1
    <3>3. b[i - (k - 1)] = s[k + (i - (k - 1))]
      BY <1>3, <3>1
    <3> QED BY <2>2, <3>1, <3>2, <3>3
  <2> QED BY <2>1, <2>2
<1>6. CutOut(s, k) = a \o b
  BY DEF CutOut, a, b
<1>7. DOMAIN (a \o b) = 1 .. n - 1
  BY <1>4, LenProperties
<1> QED BY <1>4, <1>5, <1>6, <1>7

(* When its elements differ, that one is gone and the others still differ. *)
LEMMA CutOutDistinct ==
  ASSUME NEW S, NEW s \in Seq(S), NEW k \in 1 .. Len(s), Distinct(s)
  PROVE  Range(CutOut(s, k)) = Range(s) \ {s[k]} /\ Distinct(CutOut(s, k))
<1> DEFINE n == Len(s)
           r == CutOut(s, k)
<1>1. n \in Nat /\ DOMAIN s = 1 .. n
  BY LenProperties
<1>2. DOMAIN r = 1 .. n - 1 /\ \A i \in 1 .. n - 1 : r[i] = IF i < k THEN s[i] ELSE s[i + 1]
  BY CutOutElements
<1> HIDE DEF r
<1>3. \A i \in 1 .. n : s[i] = s[k] <=> i = k
  BY <1>1 DEF Distinct
<1>4. ASSUME NEW i \in 1 .. n - 1 PROVE r[i] \in Range(s) /\ r[i] # s[k]
  <2>1. CASE i < k
    BY <1>1, <1>2, <1>3, <2>1 DEF Range
  <2>2. CASE ~(i < k)
    <3>1. i + 1 \in 1 .. n /\ i + 1 # k
      BY <1>1, <2>2
    <3> QED BY <1>1, <1>2, <1>3, <2>2, <3>1 DEF Range
  <2> QED BY <2>1, <2>2
<1>5. ASSUME NEW j \in 1 .. n, j # k PROVE s[j] \in Range(r)
  <2>1. CASE j < k
    <3>1. j \in 1 .. n - 1 /\ r[j] = s[j]
      BY <1>1, <1>2, <2>1
    <3> QED BY <1>2, <3>1 DEF Range
  <2>2. CASE j > k
    <3>1. j - 1 \in 1 .. n - 1 /\ r[j - 1] = s[j]
      BY <1>1, <1>2, <1>5, <2>2
    <3> QED BY <1>2, <3>1 DEF Range
  <2> QED BY <1>1, <1>5, <2>1, <2>2
<1>6. Range(r) = Range(s) \ {s[k]}
  BY <1>1, <1>2, <1>3, <1>4, <1>5 DEF Range
<1>7. Distinct(r)
  <2> SUFFICES ASSUME NEW i \in 1 .. n - 1, NEW j \in 1 .. n - 1, r[i] = r[j] PROVE i = j
    BY <1>2 DEF Distinct
  <2> DEFINE f(x) == IF x < k THEN x ELSE x + 1
  <2>1. r[i] = s[f(i)] /\ r[j] = s[f(j)] /\ f(i) \in 1 .. n /\ f(j) \in 1 .. n
    BY <1>1, <1>2
  <2>2. f(i) = f(j)
    BY <1>1, <2>1 DEF Distinct
  <2> QED BY <1>1, <2>2
<1> QED BY <1>6, <1>7 DEF r

-----------------------------------------------------------------------------
(* A set of natural numbers has a least one: the ordering of finite sets   *)
(* by inclusion is well founded.                                           *)
LEMMA Least ==
  ASSUME NEW T \in SUBSET Nat, T # {}
  PROVE  Min(T) \in T /\ \A k \in T : Min(T) <= k
<1> DEFINE I == {0 .. n : n \in T}
<1>1. \A n \in Nat : 0 .. n \in FiniteSubsetsOf(Nat)
  <2> SUFFICES ASSUME NEW n \in Nat PROVE 0 .. n \in FiniteSubsetsOf(Nat)
    OBVIOUS
  <2>1. IsFiniteSet(0 .. n)
    BY FS_Interval
  <2> QED BY <2>1 DEF FiniteSubsetsOf
<1>2. I \subseteq FiniteSubsetsOf(Nat) /\ I # {}
  BY <1>1
<1>3. PICK i \in I : \A j \in I : <<j, i>> \notin StrictSubsetOrdering(Nat)
  BY <1>2, FS_StrictSubsetOrderingWellFounded, WFMin
<1>4. PICK m \in T : i = 0 .. m
  OBVIOUS
<1>5. ASSUME NEW k \in T, k < m PROVE FALSE
  <2>1. 0 .. k \subseteq 0 .. m /\ 0 .. k # 0 .. m
    BY <1>5
  <2>2. 0 .. k \in I
    OBVIOUS
  <2>3. 0 .. k \in SUBSET Nat /\ 0 .. m \in SUBSET Nat
    OBVIOUS
  <2>4. <<0 .. k, 0 .. m>> \in StrictSubsetOrdering(Nat)
    BY <2>1, <2>3 DEF StrictSubsetOrdering
  <2> QED BY <1>3, <1>4, <2>2, <2>4
<1>6. \A k \in T : m <= k
  BY <1>5
<1> QED BY <1>6 DEF Min

(* Induction, for a set instead of a formula: what holds of 0, and of the  *)
(* successor of every number it holds of, holds of every number.           *)
LEMMA SetInduction ==
  ASSUME NEW S, 0 \in S, \A n \in Nat : n \in S => n + 1 \in S
  PROVE  Nat \subseteq S
<1> DEFINE T == Nat \ S
<1>1. SUFFICES ASSUME T # {} PROVE FALSE
  OBVIOUS
<1> DEFINE m == Min(T)
<1>2. m \in T /\ \A k \in T : m <= k
  BY <1>1, Least
<1> HIDE DEF m
<1>3. m # 0 /\ m - 1 \in Nat
  BY <1>2
<1>4. m - 1 \in S
  BY <1>2, <1>3
<1> QED BY <1>2, <1>3, <1>4

(* The greatest element of a set of natural numbers that has a bound.      *)
LEMMA Greatest ==
  ASSUME NEW n \in Nat, NEW T \in SUBSET (0 .. n), T # {}
  PROVE  Max(T) \in T /\ \A k \in T : Max(T) >= k
<1> DEFINE U == {k \in 0 .. n : \A x \in T : x <= k}
<1>1. U \in SUBSET Nat /\ n \in U
  OBVIOUS
<1>2. PICK g \in U : \A k \in U : g <= k
  BY <1>1, Least
<1>3. g \in T
  <2> SUFFICES ASSUME g \notin T PROVE FALSE
    OBVIOUS
  <2>1. PICK x \in T : TRUE
    OBVIOUS
  <2>2. g - 1 \in U
    BY <1>2, <2>1
  <2> QED BY <1>2, <2>2
<1>4. \E x \in T : \A y \in T : x >= y
  BY <1>2, <1>3
<1> QED BY <1>4 DEF Max

(* A set that holds what is below its elements is an interval.             *)
LEMMA Interval ==
  ASSUME NEW n \in Nat, NEW T \in SUBSET (1 .. n),
         \A x \in T : \A k \in 1 .. x : k \in T
  PROVE  /\ Cardinality(T) \in 0 .. n
         /\ T = 1 .. Cardinality(T)
<1>1. CASE T = {}
  <2>1. Cardinality(T) = 0
    BY <1>1, FS_EmptySet
  <2> QED BY <1>1, <2>1
<1>2. CASE T # {}
  <2>1. T \in SUBSET (0 .. n)
    OBVIOUS
  <2> DEFINE g == Max(T)
  <2>2. g \in T /\ \A k \in T : g >= k
    BY <1>2, <2>1, Greatest
  <2> HIDE DEF g
  <2>3. T = 1 .. g
    <3>1. \A k \in T : k \in 1 .. n /\ k <= g
      BY <2>2
    <3>2. \A k \in 1 .. g : k \in T
      BY <2>2
    <3>3. \A k : k \in T <=> k \in 1 .. g
      <4>1. \A k \in T : k \in 1 .. g
        BY <2>1, <2>2, <3>1
      <4> QED BY <3>2, <4>1
    <3> QED BY <3>3
  <2>4. Cardinality(1 .. g) = g
    BY <2>2, FS_Interval
  <2> QED BY <2>2, <2>3, <2>4
<1> QED BY <1>1, <1>2

(* f is what it is at k by what it is at k - 1.                            *)
Recurs(f, z, n, step) ==
  f = [k \in 0 .. n |-> IF k = 0 THEN z ELSE step[f[k - 1]][k]]

(* There is such a function.                                               *)
LEMMA Recursion ==
  ASSUME NEW S, NEW z \in S, NEW n \in Nat, NEW step \in [S -> [1 .. n -> S]]
  PROVE  \E f \in [0 .. n -> S] : Recurs(f, z, n, step)
<1> DEFINE Good(f, m) == /\ f \in [0 .. m -> S] /\ f[0] = z
                        /\ \A k \in 1 .. m : f[k] = step[f[k - 1]][k]
           N == {m \in Nat : m <= n => \E f : Good(f, m)}
<1>1. 0 \in N
  <2>1. Good([k \in 0 .. 0 |-> z], 0)
    OBVIOUS
  <2> QED BY <2>1
<1>2. ASSUME NEW m \in Nat, m \in N PROVE m + 1 \in N
  <2> SUFFICES ASSUME m + 1 <= n PROVE \E f : Good(f, m + 1)
    <3> HIDE DEF Good
    <3> QED OBVIOUS
  <2>0. m <= n /\ \E f : Good(f, m)
    <3> HIDE DEF Good
    <3> QED BY <1>2
  <2>1. PICK f : Good(f, m)
    BY <2>0
  <2> DEFINE v == step[f[m]][m + 1]
             g == [k \in 0 .. m + 1 |-> IF k = m + 1 THEN v ELSE f[k]]
  <2>2. v \in S
    <3>1. f[m] \in S /\ m + 1 \in 1 .. n
      BY <2>1
    <3> QED BY <3>1
  <2>3. v = step[f[m]][m + 1]
    OBVIOUS
  <2> HIDE DEF v
  <2>4. /\ g \in [0 .. m + 1 -> S] /\ g[m + 1] = v
        /\ \A k \in 0 .. m : g[k] = f[k]
    BY <2>1, <2>2
  <2> HIDE DEF g
  <2>5. ASSUME NEW k \in 1 .. m + 1 PROVE g[k] = step[g[k - 1]][k]
    <3>1. k - 1 \in 0 .. m /\ (k = m + 1 \/ k \in 1 .. m)
      OBVIOUS
    <3>2. CASE k = m + 1
      <4>1. g[k] = v /\ g[k - 1] = f[m]
        BY <2>4, <3>2
      <4> QED BY <2>3, <3>2, <4>1
    <3>3. CASE k \in 1 .. m
      <4>1. g[k] = f[k] /\ g[k - 1] = f[k - 1]
        BY <2>4, <3>3
      <4> QED BY <2>1, <3>3, <4>1
    <3> QED BY <3>1, <3>2, <3>3
  <2>6. g[0] = z
    BY <2>1, <2>4
  <2> QED BY <2>4, <2>5, <2>6
<1> HIDE DEF N
<1>3. n \in N
  BY <1>1, <1>2, SetInduction
<1>4. PICK f : Good(f, n)
  BY <1>3 DEF N
<1> DEFINE h == [k \in 0 .. n |-> IF k = 0 THEN z ELSE step[f[k - 1]][k]]
<1>5. ASSUME NEW k \in 0 .. n PROVE f[k] = h[k]
  <2>1. k = 0 \/ k \in 1 .. n
    OBVIOUS
  <2>2. CASE k = 0
    BY <1>4, <2>2
  <2>3. CASE k \in 1 .. n
    <3>1. h[k] = step[f[k - 1]][k]
      BY <2>3
    <3> HIDE DEF h
    <3> QED BY <1>4, <2>3, <3>1
  <2> QED BY <2>1, <2>2, <2>3
<1>6. f = h
  <2>1. DOMAIN h = 0 .. n /\ h = [k \in 0 .. n |-> h[k]]
    OBVIOUS
  <2>2. f = [k \in 0 .. n |-> f[k]]
    BY <1>4
  <2> HIDE DEF h
  <2> QED BY <1>5, <2>1, <2>2
<1> QED BY <1>4, <1>6 DEF Recurs
=============================================================================
