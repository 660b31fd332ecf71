--------------------------- MODULE SequenceLemmas ---------------------------
(* What erasing from, appending to and taking the tail of a vector does to   *)
(* its elements, for the proofs about the modules that model one, and what   *)
(* joining and cutting runs of bytes does to them.  The loops over such runs *)
(* are functions defined by recursion on a length; the lemmas on induction   *)
(* and recursion say that such functions exist.                              *)
EXTENDS Integers, Sequences, SequencesExt, SequenceTheorems, WellFoundedInduction, TLAPS

\* vector::erase at position i drops that element and keeps the order of the
\* others.
LEMMA RemoveAtProperties ==
  ASSUME NEW S, NEW s \in Seq(S), NEW i \in 1..Len(s)
  PROVE  /\ RemoveAt(s, i) \in Seq(S)
         /\ Len(RemoveAt(s, i)) = Len(s) - 1
         /\ \A j \in 1..(Len(s) - 1) :
              RemoveAt(s, i)[j] = IF j < i THEN s[j] ELSE s[j + 1]
<1> DEFINE a == SubSeq(s, 1, i - 1)
           b == SubSeq(s, i + 1, Len(s))
<1>1. Len(s) \in Nat /\ i \in Int /\ \A j \in 1..Len(s) : s[j] \in S
  BY ElementOfSeq, LenProperties
<1>2. /\ a \in Seq(S) /\ Len(a) = i - 1
      /\ \A j \in 1..(i - 1) : a[j] = s[j]
  <2>1. \A j \in 1..(i - 1) : s[j] \in S
    BY <1>1
  <2> QED BY <1>1, <2>1, SubSeqProperties
<1>3. /\ b \in Seq(S) /\ Len(b) = Len(s) - i
      /\ \A j \in 1..(Len(s) - i) : b[j] = s[i + j]
  <2>1. \A j \in (i + 1)..Len(s) : s[j] \in S
    BY <1>1
  <2>2. i + 1 \in Int /\ Len(s) \in Int
    BY <1>1
  <2>3. /\ b \in Seq(S)
        /\ Len(b) = IF i + 1 <= Len(s) THEN Len(s) - (i + 1) + 1 ELSE 0
        /\ \A j \in 1..(Len(s) - (i + 1) + 1) : b[j] = s[i + 1 + j - 1]
    BY <2>1, <2>2, SubSeqProperties
  <2> QED BY <1>1, <2>3
<1>4. /\ a \o b \in Seq(S)
      /\ Len(a \o b) = Len(a) + Len(b)
      /\ \A j \in 1..(Len(a) + Len(b)) :
           (a \o b)[j] = IF j <= Len(a) THEN a[j] ELSE b[j - Len(a)]
  BY <1>2, <1>3, ConcatProperties
<1>5. RemoveAt(s, i) = a \o b
  BY DEF RemoveAt
<1> HIDE DEF a, b
<1>6. ASSUME NEW j \in 1..(Len(s) - 1)
      PROVE  (a \o b)[j] = IF j < i THEN s[j] ELSE s[j + 1]
  <2>1. CASE j < i
    BY <1>1, <1>2, <1>3, <1>4, <2>1
  <2>2. CASE j >= i
    <3>1. (a \o b)[j] = b[j - Len(a)] /\ j - Len(a) \in 1..(Len(s) - i)
      BY <1>1, <1>2, <1>3, <1>4, <2>2
    <3> QED BY <1>1, <1>2, <1>3, <2>2, <3>1
  <2>3. j < i \/ j >= i
    BY <1>1
  <2> QED BY <2>1, <2>2, <2>3
<1> QED BY <1>1, <1>2, <1>3, <1>4, <1>5, <1>6

\* The elements of a sequence without repetitions after erasing position i.
LEMMA RangeRemoveAt ==
  ASSUME NEW S, NEW s \in Seq(S), NEW i \in 1..Len(s),
         \A j, k \in DOMAIN s : s[j] = s[k] => j = k
  PROVE  /\ Range(RemoveAt(s, i)) = Range(s) \ {s[i]}
         /\ \A j, k \in DOMAIN RemoveAt(s, i) :
              RemoveAt(s, i)[j] = RemoveAt(s, i)[k] => j = k
<1> DEFINE r == RemoveAt(s, i)
<1>1. /\ r \in Seq(S) /\ Len(r) = Len(s) - 1
      /\ \A j \in 1..(Len(s) - 1) : r[j] = IF j < i THEN s[j] ELSE s[j + 1]
  BY RemoveAtProperties
<1>2. DOMAIN r = 1..(Len(s) - 1) /\ DOMAIN s = 1..Len(s) /\ Len(s) \in Nat
  BY <1>1, LenProperties
<1> DEFINE old(j) == IF j < i THEN j ELSE j + 1
<1>a. \A j \in 1..(Len(s) - 1) : r[j] = s[old(j)]
  BY <1>1
<1>b. \A j \in 1..(Len(s) - 1) : old(j) \in 1..Len(s) /\ old(j) # i
  BY <1>2
<1>c. \A j, k \in 1..(Len(s) - 1) : old(j) = old(k) => j = k
  BY <1>2
<1> HIDE DEF r, old
<1>3. Range(r) \subseteq Range(s) \ {s[i]}
  BY <1>a, <1>b, <1>2 DEF Range
<1>4. ASSUME NEW k \in 1..Len(s), k # i
      PROVE  s[k] \in Range(r)
  <2>1. CASE k < i
    <3>1. k \in 1..(Len(s) - 1) /\ r[k] = s[k]
      BY <1>1, <1>2, <2>1
    <3> QED BY <1>2, <3>1 DEF Range
  <2>2. CASE k > i
    <3>1. k - 1 \in 1..(Len(s) - 1) /\ r[k - 1] = s[k]
      BY <1>1, <1>2, <2>2
    <3> QED BY <1>2, <3>1 DEF Range
  <2> QED BY <1>2, <1>4, <2>1, <2>2
<1>5. \A j, k \in DOMAIN r : r[j] = r[k] => j = k
  BY <1>a, <1>b, <1>c, <1>2
<1>6. ASSUME NEW x \in Range(s), x # s[i]
      PROVE  x \in Range(r)
  <2>1. PICK k \in 1..Len(s) : s[k] = x
    BY <1>2 DEF Range
  <2> QED BY <1>4, <1>6, <2>1
<1> QED BY <1>3, <1>5, <1>6 DEF r

\* emplace_back adds one element at the end.
LEMMA RangeAppend ==
  ASSUME NEW S, NEW s \in Seq(S), NEW e \in S, e \notin Range(s),
         \A j, k \in DOMAIN s : s[j] = s[k] => j = k
  PROVE  /\ Range(Append(s, e)) = Range(s) \cup {e}
         /\ \A j, k \in DOMAIN Append(s, e) :
              Append(s, e)[j] = Append(s, e)[k] => j = k
<1> DEFINE r == Append(s, e)
<1>1. /\ Len(r) = Len(s) + 1 /\ r[Len(s) + 1] = e
      /\ \A j \in 1..Len(s) : r[j] = s[j]
      /\ DOMAIN r = 1..(Len(s) + 1) /\ DOMAIN s = 1..Len(s) /\ Len(s) \in Nat
  BY AppendProperties, LenProperties
<1> HIDE DEF r
<1>2. Range(r) = Range(s) \cup {e}
  BY <1>1 DEF Range
<1>3. \A j, k \in DOMAIN r : r[j] = r[k] => j = k
  BY <1>1 DEF Range
<1> QED BY <1>2, <1>3 DEF r

\* Taking the tail shifts every position by one and drops the first.
LEMMA TailShift ==
  ASSUME NEW S, NEW s \in Seq(S), s # <<>>
  PROVE  /\ Tail(s) \in Seq(S)
         /\ Head(s) = s[1]
         /\ 1 \in DOMAIN s
         /\ \A k \in DOMAIN Tail(s) :
              k \in Nat \ {0} /\ k + 1 \in DOMAIN s /\ Tail(s)[k] = s[k + 1]
<1>1. /\ Tail(s) \in Seq(S) /\ Len(Tail(s)) = Len(s) - 1
      /\ \A k \in 1..Len(Tail(s)) : Tail(s)[k] = s[k + 1]
  BY HeadTailProperties
<1>2. /\ DOMAIN s = 1..Len(s) /\ Len(s) \in Nat /\ Len(s) # 0
      /\ DOMAIN Tail(s) = 1..Len(Tail(s))
  BY <1>1, LenProperties, EmptySeq
<1> QED BY <1>1, <1>2

\* What is at each position of one sequence after another.
LEMMA ConcatPositions ==
  ASSUME NEW S, NEW s \in Seq(S), NEW t \in Seq(S)
  PROVE  /\ s \o t \in Seq(S)
         /\ DOMAIN (s \o t) = 1..(Len(s) + Len(t))
         /\ \A i \in DOMAIN s : i \in DOMAIN (s \o t) /\ (s \o t)[i] = s[i]
         /\ \A i \in DOMAIN (s \o t) :
              \/ i \in DOMAIN s /\ (s \o t)[i] = s[i]
              \/ i > Len(s) /\ i - Len(s) \in DOMAIN t /\ (s \o t)[i] = t[i - Len(s)]
<1> DEFINE u == s \o t
           n == Len(s)
           m == Len(t)
<1>1. n \in Nat /\ m \in Nat /\ DOMAIN s = 1..n /\ DOMAIN t = 1..m
  BY LenProperties
<1>2. /\ u \in Seq(S) /\ Len(u) = n + m
      /\ \A i \in 1..n + m : u[i] = IF i <= n THEN s[i] ELSE t[i - n]
  BY ConcatProperties
<1>3. DOMAIN u = 1..(n + m)
  BY <1>2, LenProperties
<1> HIDE DEF u, n, m
<1>4. ASSUME NEW i \in 1..(n + m)
      PROVE  \/ i \in DOMAIN s /\ u[i] = s[i]
             \/ i > n /\ i - n \in DOMAIN t /\ u[i] = t[i - n]
  <2>1. CASE i <= n
    BY <1>1, <1>2, <2>1
  <2>2. CASE i > n
    <3>1. ~(i <= n) /\ i - n \in 1..m
      BY <1>1, <2>2
    <3> QED BY <1>1, <1>2, <2>2, <3>1
  <2> QED BY <1>1, <2>1, <2>2
<1>5. \A i \in DOMAIN s : i \in DOMAIN u /\ u[i] = s[i]
  BY <1>1, <1>2, <1>3
<1> QED BY <1>2, <1>3, <1>4, <1>5 DEF u, n, m

\* What is at each position of the first k elements, and of the others.
LEMMA SplitPositions ==
  ASSUME NEW S, NEW s \in Seq(S), NEW k \in 0..Len(s)
  PROVE  /\ SubSeq(s, 1, k) \in Seq(S)
         /\ \A i \in DOMAIN SubSeq(s, 1, k) :
              i \in DOMAIN s /\ i <= k /\ SubSeq(s, 1, k)[i] = s[i]
         /\ SubSeq(s, k + 1, Len(s)) \in Seq(S)
         /\ \A i \in DOMAIN SubSeq(s, k + 1, Len(s)) :
              i > 0 /\ k + i \in DOMAIN s /\ SubSeq(s, k + 1, Len(s))[i] = s[k + i]
<1> DEFINE m == Len(s)
           a == SubSeq(s, 1, k)
           b == SubSeq(s, k + 1, m)
<1>1. m \in Nat /\ k \in Nat /\ k <= m /\ DOMAIN s = 1..m /\ \A i \in 1..m : s[i] \in S
  BY LenProperties, ElementOfSeq
<1>2. a \in Seq(S) /\ Len(a) = k /\ \A i \in 1..k : a[i] = s[i]
  <2>1. \A i \in 1..k : s[i] \in S
    BY <1>1
  <2> QED BY <1>1, <2>1, SubSeqProperties
<1>3. b \in Seq(S) /\ Len(b) = m - k /\ \A i \in 1..(m - k) : b[i] = s[k + i]
  <2>1. \A i \in (k + 1)..m : s[i] \in S
    BY <1>1
  <2>2. k + 1 \in Int /\ m \in Int
    BY <1>1
  <2>3. /\ b \in Seq(S)
        /\ Len(b) = IF k + 1 <= m THEN m - (k + 1) + 1 ELSE 0
        /\ \A i \in 1..(m - (k + 1) + 1) : b[i] = s[k + 1 + i - 1]
    BY <2>1, <2>2, SubSeqProperties
  <2>4. ASSUME NEW i \in 1..(m - k) PROVE b[i] = s[k + i]
    <3>1. m - (k + 1) + 1 = m - k /\ k + 1 + i - 1 = k + i
      BY <1>1
    <3> QED BY <2>3, <3>1
  <2> HIDE DEF m, b
  <2> QED BY <1>1, <2>3, <2>4
<1>4. DOMAIN a = 1..k /\ DOMAIN b = 1..(m - k)
  BY <1>2, <1>3, LenProperties
<1> HIDE DEF m, a, b
<1>5. \A i \in DOMAIN a : i \in DOMAIN s /\ i <= k /\ a[i] = s[i]
  BY <1>1, <1>2, <1>4
<1>6. \A i \in DOMAIN b : i > 0 /\ k + i \in DOMAIN s /\ b[i] = s[k + i]
  BY <1>1, <1>3, <1>4
<1> QED BY <1>2, <1>3, <1>5, <1>6 DEF m, a, b

\* What a joined sequence holds is what its parts hold.
LEMMA RangeConcat ==
  ASSUME NEW S, NEW s \in Seq(S), NEW t \in Seq(S)
  PROVE  /\ s \o t \in Seq(S)
         /\ Range(s \o t) = Range(s) \cup Range(t)
<1>1. /\ s \o t \in Seq(S) /\ Len(s \o t) = Len(s) + Len(t)
      /\ \A i \in 1..(Len(s) + Len(t)) :
           (s \o t)[i] = IF i <= Len(s) THEN s[i] ELSE t[i - Len(s)]
  BY ConcatProperties
<1>2. /\ Len(s) \in Nat /\ Len(t) \in Nat
      /\ DOMAIN s = 1..Len(s) /\ DOMAIN t = 1..Len(t)
      /\ DOMAIN (s \o t) = 1..(Len(s) + Len(t))
  BY <1>1, LenProperties
<1> DEFINE r == s \o t
<1>3. ASSUME NEW i \in 1..Len(s) PROVE s[i] \in Range(r)
  <2>1. i \in DOMAIN r /\ r[i] = s[i]
    BY <1>1, <1>2
  <2> QED BY <2>1 DEF Range
<1>4. ASSUME NEW i \in 1..Len(t) PROVE t[i] \in Range(r)
  <2>1. i + Len(s) \in DOMAIN r /\ r[i + Len(s)] = t[i]
    BY <1>1, <1>2
  <2> QED BY <2>1 DEF Range
<1>5. ASSUME NEW i \in DOMAIN r PROVE r[i] \in Range(s) \cup Range(t)
  <2>1. i \in Nat /\ 1 <= i /\ i <= Len(s) + Len(t)
    BY <1>2
  <2>2. CASE i <= Len(s)
    <3>1. i \in DOMAIN s /\ r[i] = s[i]
      BY <1>1, <1>2, <2>1, <2>2
    <3> QED BY <3>1 DEF Range
  <2>3. CASE i > Len(s)
    <3>1. i - Len(s) \in DOMAIN t /\ r[i] = t[i - Len(s)]
      BY <1>1, <1>2, <2>1, <2>3
    <3> QED BY <3>1 DEF Range
  <2> QED BY <1>2, <2>1, <2>2, <2>3
<1> QED BY <1>1, <1>2, <1>3, <1>4, <1>5 DEF Range

\* Nor does a part hold anything else.
LEMMA RangeParts ==
  ASSUME NEW S, NEW s \in Seq(S), NEW k \in 0..Len(s)
  PROVE  /\ Range(SubSeq(s, 1, k)) \subseteq Range(s)
         /\ Range(SubSeq(s, k + 1, Len(s))) \subseteq Range(s)
BY SplitPositions DEF Range

\* The first element and the others are those of the sequence.
LEMMA RangeHeadTail ==
  ASSUME NEW S, NEW s \in Seq(S), s # <<>>
  PROVE  /\ Head(s) \in S /\ Tail(s) \in Seq(S)
         /\ Head(s) \in Range(s) /\ Range(Tail(s)) \subseteq Range(s)
<1>1. /\ Head(s) \in S /\ Tail(s) \in Seq(S)
      /\ Head(s) = s[1] /\ 1 \in DOMAIN s
  BY HeadTailProperties, TailShift
<1>2. ASSUME NEW i \in DOMAIN Tail(s) PROVE Tail(s)[i] \in Range(s)
  BY TailShift DEF Range
<1> QED BY <1>1, <1>2 DEF Range

\* What is cut off at the front and put back is the sequence.
LEMMA SplitJoin ==
  ASSUME NEW S, NEW s \in Seq(S), NEW k \in 0..Len(s)
  PROVE  SubSeq(s, 1, k) \o SubSeq(s, k + 1, Len(s)) = s
<1>1. Len(s) \in Nat
  BY LenProperties
<1>2. 1 \in 1..Len(s) + 1 /\ k \in 1 - 1..Len(s) /\ Len(s) \in k..Len(s)
  BY <1>1
<1>3. SubSeq(s, 1, k) \o SubSeq(s, k + 1, Len(s)) = SubSeq(s, 1, Len(s))
  BY <1>2, ConcatAdjacentSubSeq
<1> QED BY <1>3, SubSeqFull

\* A sequence is its first element and the others.
LEMMA HeadAndTail ==
  ASSUME NEW S, NEW s \in Seq(S), s # <<>>
  PROVE  <<Head(s)>> \o Tail(s) = s
<1>1. /\ Head(s) \in S /\ Head(s) = s[1] /\ Tail(s) \in Seq(S) /\ Len(Tail(s)) = Len(s) - 1
      /\ \A i \in 1..Len(Tail(s)) : Tail(s)[i] = s[i + 1]
      /\ Len(s) \in Nat \ {0}
  BY HeadTailProperties, TailShift, EmptySeq
<1> DEFINE h == <<Head(s)>>
           r == h \o Tail(s)
<1>2. h \in Seq(S) /\ Len(h) = 1 /\ h[1] = s[1]
  BY <1>1
<1>3. /\ r \in Seq(S) /\ Len(r) = Len(s)
      /\ \A i \in 1..Len(s) : r[i] = IF i <= 1 THEN h[i] ELSE Tail(s)[i - 1]
  <2> HIDE DEF h
  <2>1. /\ r \in Seq(S) /\ Len(r) = Len(h) + Len(Tail(s))
        /\ \A i \in 1..(Len(h) + Len(Tail(s))) :
             r[i] = IF i <= Len(h) THEN h[i] ELSE Tail(s)[i - Len(h)]
    BY <1>1, <1>2, ConcatProperties
  <2>2. Len(h) + Len(Tail(s)) = Len(s)
    BY <1>1, <1>2
  <2> QED BY <1>2, <2>1, <2>2
<1> HIDE DEF h, r
<1>4. ASSUME NEW i \in 1..Len(s) PROVE r[i] = s[i]
  <2>1. CASE i = 1
    BY <1>2, <1>3, <2>1
  <2>2. CASE i # 1
    <3>1. i - 1 \in 1..Len(Tail(s)) /\ ~(i <= 1) /\ i - 1 + 1 = i
      BY <1>1, <2>2
    <3> QED BY <1>1, <1>3, <3>1
  <2> QED BY <2>1, <2>2
<1>5. r = s
  BY <1>3, <1>4, SeqEqual
<1> QED BY <1>5 DEF r, h

\* The front of a joined sequence is that of its first part.
LEMMA FrontOfConcat ==
  ASSUME NEW S, NEW s \in Seq(S), NEW t \in Seq(S), s # <<>>
  PROVE  /\ s \o t # <<>> /\ Head(s \o t) = Head(s)
         /\ Tail(s \o t) = Tail(s) \o t
<1>1. /\ Head(s) \in S /\ Tail(s) \in Seq(S) /\ <<Head(s)>> \o Tail(s) = s
  BY HeadAndTail, HeadTailProperties
<1>2. s \o t # <<>>
  BY ConcatEqualIffEmpty
<1> DEFINE h == <<Head(s)>>
           u == Tail(s) \o t
<1>3. h \in Seq(S) /\ u \in Seq(S)
  BY <1>1, ConcatProperties
<1>4. s \o t = h \o u
  BY <1>1, <1>3, ConcatAssociative
<1>5. Len(h) = 1 /\ h[1] = Head(s)
  OBVIOUS
<1> HIDE DEF h, u
<1>6. /\ h \o u \in Seq(S) /\ Len(h \o u) = 1 + Len(u) /\ Len(u) \in Nat
      /\ \A i \in 1..(1 + Len(u)) : (h \o u)[i] = IF i <= 1 THEN h[i] ELSE u[i - 1]
  <2>1. /\ h \o u \in Seq(S) /\ Len(h \o u) = Len(h) + Len(u)
        /\ \A i \in 1..(Len(h) + Len(u)) :
             (h \o u)[i] = IF i <= Len(h) THEN h[i] ELSE u[i - Len(h)]
    BY <1>3, ConcatProperties
  <2>2. Len(u) \in Nat
    BY <1>3, LenProperties
  <2> QED BY <1>5, <2>1, <2>2
<1>7. Head(h \o u) = Head(s) /\ Tail(h \o u) = u
  <2>1. h \o u # <<>>
    BY <1>2, <1>4
  <2>2. /\ Head(h \o u) = (h \o u)[1] /\ Tail(h \o u) \in Seq(S)
        /\ Len(Tail(h \o u)) = Len(u)
        /\ \A i \in 1..Len(u) : Tail(h \o u)[i] = (h \o u)[i + 1]
    BY <1>6, <2>1, HeadTailProperties, TailShift
  <2>3. \A i \in 1..Len(u) : (h \o u)[i + 1] = u[i]
    <3> SUFFICES ASSUME NEW i \in 1..Len(u) PROVE (h \o u)[i + 1] = u[i]
      OBVIOUS
    <3>1. i + 1 \in 1..(1 + Len(u)) /\ ~(i + 1 <= 1) /\ i + 1 - 1 = i
      BY <1>6
    <3> QED BY <1>6, <3>1
  <2>4. Tail(h \o u) = u
    BY <1>3, <2>2, <2>3, SeqEqual
  <2> QED BY <1>5, <1>6, <2>2, <2>4
<1> QED BY <1>2, <1>4, <1>7 DEF u

\* The first element of one sequence goes to the end of another: the two joined
\* are as before.
LEMMA HeadMoves ==
  ASSUME NEW S, NEW s \in Seq(S), NEW t \in Seq(S), t # <<>>
  PROVE  Append(s, Head(t)) \o Tail(t) = s \o t
<1>1. Head(t) \in S /\ Tail(t) \in Seq(S) /\ <<Head(t)>> \o Tail(t) = t
  BY HeadAndTail, HeadTailProperties
<1>2. Append(s, Head(t)) = s \o <<Head(t)>>
  BY <1>1, AppendIsConcat
<1>3. <<Head(t)>> \in Seq(S)
  BY <1>1
<1>4. (s \o <<Head(t)>>) \o Tail(t) = s \o (<<Head(t)>> \o Tail(t))
  BY <1>1, <1>3, ConcatAssociative
<1> QED BY <1>1, <1>2, <1>4


(***************************************************************************)
(* Induction and recursion over the natural numbers.                       *)
(***************************************************************************)
\* A set of natural numbers that is not empty has a least element.
LEMMA LeastNumber ==
  ASSUME NEW T, T \subseteq Nat, T # {}
  PROVE  \E m \in T : \A n \in T : m <= n
<1>1. PICK m \in T : \A n \in T : <<n, m>> \notin OpToRel(<, Nat)
  BY NatLessThanWellFounded, WFMin
<1>2. ASSUME NEW n \in T PROVE ~(n < m)
  <2>1. SUFFICES ASSUME n < m PROVE <<n, m>> \in OpToRel(<, Nat)
    BY <1>1
  <2> QED BY <2>1 DEF OpToRel
<1>3. m \in T /\ \A n \in T : m <= n
  BY ONLY <1>2, T \subseteq Nat, m \in T
<1> QED BY <1>3

\* A set with 0 and with every successor has all natural numbers: the least one
\* it misses would have a predecessor.
LEMMA NatSetInduction ==
  ASSUME NEW T, 0 \in T, \A n \in Nat : n \in T => n + 1 \in T
  PROVE  \A n \in Nat : n \in T
<1> DEFINE missed == {n \in Nat : n \notin T}
<1>1. SUFFICES ASSUME missed # {} PROVE FALSE
  OBVIOUS
<1>2. PICK m \in missed : \A n \in missed : m <= n
  BY <1>1, LeastNumber
<1>3. m \in Nat /\ m # 0 /\ m - 1 \in Nat /\ m - 1 \notin T
  BY <1>2
<1> QED BY <1>2, <1>3

\* What n steps do to a value.
Steps(n, S) == [1..n -> [S -> S]]

\* A step for every position has a function that starts as told and follows it.
LEMMA FunctionByRecursion ==
  ASSUME NEW S, NEW a \in S, NEW n \in Nat, NEW step \in Steps(n, S)
  PROVE  \E f \in [0..n -> S] :
           f[0] = a /\ \A k \in 1..n : f[k] = step[k][f[k - 1]]
<1> USE DEF Steps
<1> DEFINE Follows(f, m) == f[0] = a /\ \A k \in 1..m : f[k] = step[k][f[k - 1]]
           T == {m \in Nat : m <= n => \E f \in [0..m -> S] : Follows(f, m)}
<1>1. 0 \in T
  <2>1. [k \in 0..0 |-> a] \in [0..0 -> S] /\ Follows([k \in 0..0 |-> a], 0)
    OBVIOUS
  <2> QED BY <2>1
<1>2. ASSUME NEW m \in Nat, m \in T PROVE m + 1 \in T
  <2> SUFFICES ASSUME m + 1 <= n PROVE \E f \in [0..(m + 1) -> S] : Follows(f, m + 1)
    OBVIOUS
  <2>1. PICK f \in [0..m -> S] : Follows(f, m)
    BY <1>2
  <2> DEFINE g == [k \in 0..(m + 1) |-> IF k <= m THEN f[k] ELSE step[m + 1][f[m]]]
  <2>2. g \in [0..(m + 1) -> S]
    OBVIOUS
  <2>3. Follows(g, m + 1)
    <3>1. g[0] = a
      BY <2>1
    <3>2. ASSUME NEW k \in 1..(m + 1) PROVE g[k] = step[k][g[k - 1]]
      BY <2>1
    <3> QED BY <3>1, <3>2
  <2> QED BY <2>2, <2>3
<1> HIDE DEF T
<1>3. n \in T
  BY <1>1, <1>2, NatSetInduction
<1> QED BY <1>3 DEF T

(***************************************************************************)
\* Two functions that start alike and take the same steps.
Alike(f, g, n) ==
  /\ f[0] = g[0]
  /\ \A k \in 1..n : f[k - 1] = g[k - 1] => f[k] = g[k]

\* Two functions that start alike and take the same steps are the same.
LEMMA SameRecursion ==
  ASSUME NEW f, NEW g, NEW n \in Nat, Alike(f, g, n)
  PROVE  \A k \in 0..n : f[k] = g[k]
<1> USE DEF Alike
<1> DEFINE T == {k \in Nat : k <= n => f[k] = g[k]}
<1>1. 0 \in T
  OBVIOUS
<1>2. ASSUME NEW k \in Nat, k \in T PROVE k + 1 \in T
  <2> SUFFICES ASSUME k + 1 <= n PROVE f[k + 1] = g[k + 1]
    OBVIOUS
  <2>1. k + 1 \in 1..n /\ (k + 1) - 1 = k /\ f[k] = g[k]
    BY <1>2
  <2> QED BY <2>1
<1> HIDE DEF T
<1>3. \A k \in Nat : k \in T
  BY <1>1, <1>2, NatSetInduction
<1> QED BY <1>3 DEF T

(***************************************************************************)
(* The run of bytes.                                                       *)
(***************************************************************************)
\* Joining is associative.
Associative(S) == \A s, t, u \in Seq(S) : (s \o t) \o u = s \o (t \o u)

LEMMA ConcatAssociates == \A S : Associative(S)
BY ConcatAssociative DEF Associative

\* P[k] is what the first k chunks hold.
JoinedUpTo(P, bs) ==
  /\ P[0] = <<>>
  /\ \A k \in 1..Len(bs) : P[k] = P[k - 1] \o bs[k]

\* There are such prefixes.
LEMMA PrefixesExist ==
  ASSUME NEW B, NEW bs \in Seq(Seq(B))
  PROVE  \E P \in [0..Len(bs) -> Seq(B)] : JoinedUpTo(P, bs)
<1> DEFINE step == [k \in 1..Len(bs) |-> [s \in Seq(B) |-> s \o bs[k]]]
<1>1. Len(bs) \in Nat /\ \A k \in 1..Len(bs) : bs[k] \in Seq(B)
  BY LenProperties, ElementOfSeq
<1>2. step \in [1..Len(bs) -> [Seq(B) -> Seq(B)]]
  BY <1>1, ConcatProperties
<1>3. <<>> \in Seq(B)
  BY EmptySeq
<1> HIDE DEF step
<1> DEFINE n == Len(bs)
           S == Seq(B)
           a == <<>>
<1>4. \E P \in [0..n -> S] : P[0] = a /\ \A k \in 1..n : P[k] = step[k][P[k - 1]]
  <2>1. n \in Nat /\ step \in Steps(n, S) /\ a \in S
    BY <1>1, <1>2, <1>3 DEF Steps
  <2> HIDE DEF n, S, a
  <2> QED BY <2>1, FunctionByRecursion
<1>5. PICK P \in [0..n -> S] : P[0] = <<>> /\ \A k \in 1..n : P[k] = step[k][P[k - 1]]
  BY <1>4
<1>6. ASSUME NEW k \in 1..n PROVE P[k] = P[k - 1] \o bs[k]
  <2>1. k - 1 \in 0..n
    BY <1>1
  <2>2. P[k - 1] \in Seq(B)
    BY <2>1
  <2> QED BY <1>5, <2>2 DEF step
<1> QED BY <1>5, <1>6 DEF JoinedUpTo

\* The last prefix is what FlattenSeq joins.
LEMMA FlattenIsPrefix ==
  ASSUME NEW B, NEW bs \in Seq(Seq(B)),
         NEW P \in [0..Len(bs) -> Seq(B)], JoinedUpTo(P, bs)
  PROVE  FlattenSeq(bs) = P[Len(bs)]
<1> DEFINE n == Len(bs)
           Joins(f) == f = [i \in 1..n |-> IF i = 1 THEN bs[i] ELSE f[i - 1] \o bs[i]]
           g == [i \in 1..n |-> P[i]]
<1>1. n \in Nat /\ \A k \in 1..n : bs[k] \in Seq(B)
  BY LenProperties, ElementOfSeq
<1>2. CASE n = 0
  <2>1. bs = <<>>
    BY <1>2, EmptySeq
  <2> QED BY <1>2, <2>1 DEF FlattenSeq, JoinedUpTo
<1>3. CASE n # 0
  <2>1. FlattenSeq(bs) = (CHOOSE f : Joins(f))[n]
    BY <1>1, <1>3 DEF FlattenSeq
  <2>2. /\ \A k \in 1..n : k = 1 \/ k - 1 \in 1..n
        /\ 1 \in 1..n /\ P[1] = bs[1]
        /\ \A k \in 1..n : P[k] = P[k - 1] \o bs[k]
    <3>1. 1 \in 1..n /\ <<>> \o bs[1] = bs[1]
      BY <1>1, <1>3, ConcatEmptySeq
    <3>2. P[0] = <<>> /\ \A k \in 1..n : P[k] = P[k - 1] \o bs[k]
      BY DEF JoinedUpTo
    <3>3. P[1] = P[0] \o bs[1]
      <4>1. P[1] = P[1 - 1] \o bs[1]
        BY <3>1, <3>2, Zenon
      <4> QED BY <4>1
    <3>4. \A k \in 1..n : k = 1 \/ k - 1 \in 1..n
      BY <1>1
    <3> HIDE DEF n
    <3> QED BY <3>1, <3>2, <3>3, <3>4
  <2>3. Joins(g)
    <3>1. ASSUME NEW i \in 1..n
          PROVE  g[i] = IF i = 1 THEN bs[i] ELSE g[i - 1] \o bs[i]
      <4> HIDE DEF n
      <4> QED BY <2>2
    <3> QED BY <3>1
  <2> DEFINE f == CHOOSE h : Joins(h)
  <2>4. Joins(f)
    BY <2>3
  <2> HIDE DEF f
  <2>5. \A i \in 1..n : f[i] = IF i = 1 THEN bs[i] ELSE f[i - 1] \o bs[i]
    BY <2>4
  <2> DEFINE T == {k \in Nat : k \in 1..n => f[k] = P[k]}
  <2>6. ASSUME NEW k \in Nat, k \in T PROVE k + 1 \in T
    <3> SUFFICES ASSUME k + 1 \in 1..n PROVE f[k + 1] = P[k + 1]
      OBVIOUS
    <3>1. CASE k = 0
      BY <2>2, <2>5, <3>1
    <3>2. CASE k # 0
      <4>1. k \in 1..n /\ (k + 1) - 1 = k
        BY <1>1, <3>2
      <4> HIDE DEF n
      <4>2. f[k] = P[k]
        BY <2>6, <4>1
      <4>3. f[k + 1] = f[k] \o bs[k + 1]
        <5>1. k + 1 # 1 /\ k + 1 \in 1..n
          BY <3>2
        <5>2. f[k + 1] = f[(k + 1) - 1] \o bs[k + 1]
          BY <2>5, <5>1, Zenon
        <5> QED BY <4>1, <5>2
      <4>4. P[k + 1] = P[k] \o bs[k + 1]
        BY <2>2, <4>1
      <4> QED BY <4>2, <4>3, <4>4
    <3> QED BY <3>1, <3>2
  <2>7. 0 \in T
    OBVIOUS
  <2> HIDE DEF T
  <2>8. n \in T
    BY <1>1, <2>6, <2>7, NatSetInduction
  <2> QED BY <1>1, <1>3, <2>1, <2>8 DEF T, f
<1> QED BY <1>2, <1>3

\* Joining sequences of B gives a sequence of B, and no sequences give none.
LEMMA FlattenType ==
  ASSUME NEW B
  PROVE  /\ FlattenSeq(<<>>) = <<>>
         /\ \A bs \in Seq(Seq(B)) : FlattenSeq(bs) \in Seq(B)
<1>1. FlattenSeq(<<>>) = <<>>
  <2>1. Len(<<>>) = 0
    BY EmptySeq
  <2> QED BY <2>1 DEF FlattenSeq
<1>2. ASSUME NEW bs \in Seq(Seq(B)) PROVE FlattenSeq(bs) \in Seq(B)
  <2>1. PICK P \in [0..Len(bs) -> Seq(B)] : JoinedUpTo(P, bs)
    BY PrefixesExist
  <2>2. FlattenSeq(bs) = P[Len(bs)] /\ Len(bs) \in 0..Len(bs)
    BY <2>1, FlattenIsPrefix, LenProperties
  <2> QED BY <2>2
<1> QED BY <1>1, <1>2

\* What the first sequences join to.
LEMMA FlattenFront ==
  ASSUME NEW B, NEW bs \in Seq(Seq(B)), NEW P \in [0..Len(bs) -> Seq(B)],
         JoinedUpTo(P, bs), NEW k \in 0..Len(bs)
  PROVE  FlattenSeq(SubSeq(bs, 1, k)) = P[k]
<1> DEFINE front == SubSeq(bs, 1, k)
           Q == [j \in 0..k |-> P[j]]
<1>1. Len(bs) \in Nat /\ k \in Nat
  BY LenProperties
<1>2. front \in Seq(Seq(B)) /\ Len(front) = k /\ \A j \in 1..k : front[j] = bs[j]
  <2>1. \A j \in 1..k : bs[j] \in Seq(B)
    BY <1>1, ElementOfSeq
  <2> QED BY <1>1, <2>1, SubSeqProperties
<1> HIDE DEF front
<1>3. Q \in [0..Len(front) -> Seq(B)]
  <2>1. \A j \in 0..k : j \in 0..Len(bs)
    BY <1>1
  <2>2. \A j \in 0..k : P[j] \in Seq(B)
    BY <2>1
  <2> QED BY <1>2, <2>2
<1>4. JoinedUpTo(Q, front)
  <2>1. Q[0] = P[0] /\ \A j \in 1..k : Q[j] = P[j] /\ Q[j - 1] = P[j - 1] /\ j \in 1..Len(bs)
    BY <1>1
  <2> HIDE DEF Q
  <2> QED BY <1>1, <1>2, <2>1 DEF JoinedUpTo
<1> HIDE DEF Q
<1>5. FlattenSeq(front) = Q[k]
  BY <1>2, <1>3, <1>4, FlattenIsPrefix
<1> QED BY <1>1, <1>5 DEF Q, front

\* One more sequence at the end is joined at the end.
LEMMA FlattenAppend ==
  ASSUME NEW B, NEW bs \in Seq(Seq(B)), NEW c \in Seq(B)
  PROVE  FlattenSeq(Append(bs, c)) = FlattenSeq(bs) \o c
<1> DEFINE more == Append(bs, c)
           n == Len(bs)
<1>1. /\ n \in Nat /\ more \in Seq(Seq(B)) /\ Len(more) = n + 1
      /\ more[n + 1] = c /\ \A j \in 1..n : more[j] = bs[j]
  BY LenProperties, AppendProperties
<1>2. PICK P \in [0..Len(more) -> Seq(B)] : JoinedUpTo(P, more)
  BY <1>1, PrefixesExist
<1> HIDE DEF more
<1>3. FlattenSeq(more) = P[n + 1]
  BY <1>1, <1>2, FlattenIsPrefix
<1> DEFINE Q == [j \in 0..n |-> P[j]]
<1>4. Q \in [0..Len(bs) -> Seq(B)]
  BY <1>1
<1>5. JoinedUpTo(Q, bs)
  <2>1. /\ Q[0] = P[0]
        /\ \A j \in 1..n : Q[j] = P[j] /\ Q[j - 1] = P[j - 1] /\ j \in 1..Len(more)
    BY <1>1
  <2> HIDE DEF Q
  <2> QED BY <1>1, <1>2, <2>1 DEF JoinedUpTo
<1> HIDE DEF Q
<1>6. FlattenSeq(bs) = Q[n]
  BY <1>4, <1>5, FlattenIsPrefix
<1>7. Q[n] = P[n]
  BY <1>1 DEF Q
<1>8. P[n + 1] = P[n] \o c
  <2>1. n + 1 \in 1..Len(more) /\ (n + 1) - 1 = n
    BY <1>1
  <2> HIDE DEF n
  <2> QED BY <1>1, <1>2, <2>1 DEF JoinedUpTo
<1> QED BY <1>3, <1>6, <1>7, <1>8 DEF more

\* The first sequence is joined in front of the others.
LEMMA FlattenHead ==
  ASSUME NEW B, NEW bs \in Seq(Seq(B)), bs # <<>>
  PROVE  /\ Head(bs) \in Seq(B) /\ Tail(bs) \in Seq(Seq(B))
         /\ FlattenSeq(bs) = Head(bs) \o FlattenSeq(Tail(bs))
<1> DEFINE h == Head(bs)
           t == Tail(bs)
           n == Len(bs)
<1>1. /\ n \in Nat \ {0} /\ h \in Seq(B) /\ t \in Seq(Seq(B)) /\ Len(t) = n - 1
      /\ h = bs[1] /\ \A j \in 1..(n - 1) : t[j] = bs[j + 1]
  BY EmptySeq, HeadTailProperties
<1>2. PICK Q \in [0..Len(t) -> Seq(B)] : JoinedUpTo(Q, t)
  BY <1>1, PrefixesExist
<1> HIDE DEF h, t
<1>3. FlattenSeq(t) = Q[n - 1]
  BY <1>1, <1>2, FlattenIsPrefix
<1> DEFINE P == [k \in 0..n |-> IF k = 0 THEN <<>> ELSE h \o Q[k - 1]]
<1>4. P \in [0..Len(bs) -> Seq(B)]
  <2>1. <<>> \in Seq(B)
    BY EmptySeq
  <2>2. ASSUME NEW k \in 0..n, k # 0 PROVE h \o Q[k - 1] \in Seq(B)
    <3>1. k - 1 \in 0..Len(t)
      BY <1>1, <2>2
    <3>2. Q[k - 1] \in Seq(B)
      BY <3>1
    <3> QED BY <1>1, <3>2, ConcatProperties
  <2> QED BY <2>1, <2>2
<1>5. JoinedUpTo(P, bs)
  <2>1. P[0] = <<>>
    BY <1>1
  <2>2. ASSUME NEW k \in 1..n PROVE P[k] = P[k - 1] \o bs[k]
    <3>1. P[k] = h \o Q[k - 1]
      <4>1. k \in 0..n /\ k # 0
        BY <1>1
      <4> HIDE DEF n
      <4> QED BY <4>1
    <3>2. CASE k = 1
      <4>1. Q[k - 1] = <<>> /\ P[k - 1] = <<>> /\ bs[k] = h
        BY <1>1, <1>2, <3>2 DEF JoinedUpTo
      <4>2. h \o <<>> = h /\ <<>> \o h = h
        BY <1>1, ConcatEmptySeq
      <4> QED BY <3>1, <4>1, <4>2
    <3>3. CASE k # 1
      <4>1. k - 1 \in 1..Len(t) /\ k - 1 \in 0..n /\ k - 1 # 0 /\ (k - 1) - 1 \in 0..Len(t)
            /\ t[k - 1] = bs[k] /\ bs[k] \in Seq(B)
        BY <1>1, <3>3, ElementOfSeq
      <4> DEFINE m == k - 1
      <4>2. P[m] = h \o Q[m - 1] /\ Q[m] = Q[m - 1] \o t[m] /\ Q[m - 1] \in Seq(B)
        <5> HIDE DEF m
        <5>1. m \in 1..Len(t) /\ m \in 0..n /\ m # 0 /\ m - 1 \in 0..Len(t)
          BY <4>1 DEF m
        <5> QED BY <1>2, <5>1 DEF JoinedUpTo
      <4>3. (h \o Q[m - 1]) \o t[m] = h \o (Q[m - 1] \o t[m])
        <5>1. h \in Seq(B) /\ Q[m - 1] \in Seq(B) /\ t[m] \in Seq(B)
          BY <1>1, <4>1, <4>2
        <5> HIDE DEF m
        <5>2. Associative(B)
          BY ConcatAssociates
        <5> QED BY <5>1, <5>2, Zenon DEF Associative
      <4> QED BY <3>1, <4>1, <4>2, <4>3
    <3> QED BY <3>2, <3>3
  <2> QED BY <2>1, <2>2 DEF JoinedUpTo
<1> HIDE DEF P
<1>6. FlattenSeq(bs) = P[n]
  BY <1>4, <1>5, FlattenIsPrefix
<1>7. P[n] = h \o Q[n - 1]
  <2>1. n \in 0..n /\ n # 0
    BY <1>1
  <2> HIDE DEF n
  <2> QED BY <2>1 DEF P
<1> QED BY <1>1, <1>3, <1>6, <1>7 DEF h, t

\* A longer prefix goes on where a shorter one ends.
LEMMA PrefixGrows ==
  ASSUME NEW B, NEW bs \in Seq(Seq(B)), NEW P \in [0..Len(bs) -> Seq(B)], JoinedUpTo(P, bs),
         NEW k \in 0..Len(bs), NEW x \in 1..Len(P[k])
  PROVE  x \in 1..Len(P[Len(bs)]) /\ P[Len(bs)][x] = P[k][x]
<1> DEFINE m == Len(bs)
           Longer(j) == x \in 1..Len(P[j]) /\ P[j][x] = P[k][x]
           T == {j \in Nat : k + j <= m => Longer(k + j)}
<1>1. m \in Nat /\ k \in Nat /\ m - k \in Nat /\ k + (m - k) = m
      /\ \A j \in 1..m : bs[j] \in Seq(B)
  BY LenProperties, ElementOfSeq
<1>2. 0 \in T
  BY <1>1
<1>3. ASSUME NEW j \in Nat, j \in T PROVE j + 1 \in T
  <2> SUFFICES ASSUME k + (j + 1) <= m PROVE Longer(k + (j + 1))
    OBVIOUS
  <2> DEFINE i == k + j
  <2>1. i + 1 \in 1..m /\ (i + 1) - 1 = i /\ i \in 0..m /\ Longer(i) /\ k + (j + 1) = i + 1
    BY <1>1, <1>3
  <2> HIDE DEF i
  <2> DEFINE p == P[i]
             c == bs[i + 1]
             q == P[i + 1]
  <2>2. q = p \o c
    <3> HIDE DEF m
    <3>1. \A l \in 1..m : P[l] = P[l - 1] \o bs[l]
      BY DEF JoinedUpTo, m
    <3> QED BY <2>1, <3>1
  <2>3. p \in Seq(B) /\ c \in Seq(B)
    BY <1>1, <2>1
  <2> HIDE DEF p, c, q
  <2>4. /\ Len(q) = Len(p) + Len(c) /\ Len(p) \in Nat /\ Len(c) \in Nat
        /\ \A l \in 1..(Len(p) + Len(c)) : q[l] = IF l <= Len(p) THEN p[l] ELSE c[l - Len(p)]
    BY <2>2, <2>3, ConcatProperties, LenProperties
  <2>5. x \in 1..Len(p) /\ p[x] = P[k][x]
    BY <2>1 DEF p
  <2>6. x \in 1..Len(q) /\ q[x] = p[x]
    BY <2>4, <2>5
  <2> QED BY <2>1, <2>5, <2>6 DEF q
<1> HIDE DEF T
<1>4. m - k \in T
  BY <1>1, <1>2, <1>3, NatSetInduction
<1> QED BY <1>1, <1>4 DEF T

(***************************************************************************)
(* Dropping and taking bytes.                                              *)
(***************************************************************************)
\* What is left of a sequence without its first n elements.
Dropped(s, n) == SubSeq(s, n + 1, Len(s))

LEMMA DroppedProperties ==
  ASSUME NEW B, NEW s \in Seq(B), NEW n \in Nat
  PROVE  /\ Dropped(s, n) \in Seq(B)
         /\ Len(Dropped(s, n)) = IF n <= Len(s) THEN Len(s) - n ELSE 0
         /\ \A i \in 1..(Len(s) - n) : Dropped(s, n)[i] = s[n + i]
         /\ n >= Len(s) => Dropped(s, n) = <<>>
         /\ n < Len(s) => Dropped(s, n) # <<>>
<1>1. Len(s) \in Nat /\ \A i \in (n + 1)..Len(s) : s[i] \in B
  BY LenProperties, ElementOfSeq
<1>2. /\ Dropped(s, n) \in Seq(B)
      /\ Len(Dropped(s, n)) = IF n + 1 <= Len(s) THEN Len(s) - (n + 1) + 1 ELSE 0
      /\ \A i \in 1..(Len(s) - (n + 1) + 1) : Dropped(s, n)[i] = s[(n + 1) + i - 1]
  BY <1>1, SubSeqProperties DEF Dropped
<1>3. \A i \in 1..(Len(s) - n) : Dropped(s, n)[i] = s[n + i]
  <2> SUFFICES ASSUME NEW i \in 1..(Len(s) - n) PROVE Dropped(s, n)[i] = s[n + i]
    OBVIOUS
  <2>1. i \in 1..(Len(s) - (n + 1) + 1) /\ (n + 1) + i - 1 = n + i
    BY <1>1
  <2> QED BY <1>2, <2>1
<1>4. Len(Dropped(s, n)) = IF n <= Len(s) THEN Len(s) - n ELSE 0
  BY <1>1, <1>2
<1>5. n >= Len(s) => Dropped(s, n) = <<>>
  BY <1>1, SubSeqEmpty DEF Dropped
<1>6. n < Len(s) => Dropped(s, n) # <<>>
  BY <1>1, <1>4, EmptySeq
<1> QED BY <1>2, <1>3, <1>4, <1>5, <1>6

\* Dropping from two joined sequences.
LEMMA DroppedConcat ==
  ASSUME NEW B, NEW s \in Seq(B), NEW t \in Seq(B), NEW n \in Nat
  PROVE  /\ n <= Len(s) => Dropped(s \o t, n) = Dropped(s, n) \o t
         /\ n >= Len(s) => Dropped(s \o t, n) = Dropped(t, n - Len(s))
<1>1. /\ Len(s) \in Nat /\ Len(t) \in Nat
      /\ s \o t \in Seq(B) /\ Len(s \o t) = Len(s) + Len(t)
      /\ \A i \in 1..(Len(s) + Len(t)) :
           (s \o t)[i] = IF i <= Len(s) THEN s[i] ELSE t[i - Len(s)]
  BY LenProperties, ConcatProperties
<1> DEFINE u == s \o t
<1>2. /\ Dropped(u, n) \in Seq(B)
      /\ Len(Dropped(u, n)) = IF n <= Len(u) THEN Len(u) - n ELSE 0
      /\ \A i \in 1..(Len(u) - n) : Dropped(u, n)[i] = u[n + i]
  <2>1. u \in Seq(B)
    BY <1>1
  <2> HIDE DEF u
  <2> QED BY <2>1, DroppedProperties
<1>3. CASE n <= Len(s)
  <2> DEFINE d == Dropped(s, n)
  <2>1. /\ d \in Seq(B) /\ Len(d) = Len(s) - n
        /\ \A i \in 1..(Len(s) - n) : d[i] = s[n + i]
    BY <1>3, DroppedProperties
  <2> HIDE DEF d
  <2>2. /\ d \o t \in Seq(B) /\ Len(d \o t) = Len(d) + Len(t)
        /\ \A i \in 1..(Len(d) + Len(t)) :
             (d \o t)[i] = IF i <= Len(d) THEN d[i] ELSE t[i - Len(d)]
    BY <2>1, ConcatProperties
  <2>3. Len(Dropped(u, n)) = Len(d \o t)
    BY <1>1, <1>2, <1>3, <2>1, <2>2
  <2>4. ASSUME NEW i \in 1..(Len(u) - n) PROVE Dropped(u, n)[i] = (d \o t)[i]
    <3>1. n + i \in 1..(Len(s) + Len(t)) /\ i \in 1..(Len(d) + Len(t))
      BY <1>1, <2>1
    <3>2. Dropped(u, n)[i] = IF n + i <= Len(s) THEN s[n + i] ELSE t[n + i - Len(s)]
      BY <1>1, <1>2, <3>1
    <3>3. (d \o t)[i] = IF i <= Len(d) THEN d[i] ELSE t[i - Len(d)]
      BY <2>2, <3>1
    <3>4. CASE n + i <= Len(s)
      BY <1>1, <2>1, <3>2, <3>3, <3>4
    <3>5. CASE ~(n + i <= Len(s))
      BY <1>1, <2>1, <3>2, <3>3, <3>5
    <3> QED BY <3>4, <3>5
  <2>5. Len(Dropped(u, n)) = Len(u) - n
    BY <1>1, <1>2, <1>3
  <2> DEFINE a == Dropped(u, n)
             b == d \o t
  <2>6. /\ a \in Seq(B) /\ b \in Seq(B) /\ Len(a) = Len(b)
        /\ \A i \in 1..Len(a) : a[i] = b[i]
    BY <1>2, <2>2, <2>3, <2>4, <2>5
  <2> HIDE DEF a, b
  <2>7. a = b
    BY <2>6, SeqEqual
  <2>8. n >= Len(s) => Dropped(u, n) = Dropped(t, n - Len(s))
    <3> SUFFICES ASSUME n = Len(s) PROVE b = Dropped(t, 0)
      BY <1>1, <1>3, <2>7 DEF a
    <3>1. d = <<>>
      BY DroppedProperties, <1>1 DEF d
    <3>2. <<>> \o t = t /\ Dropped(t, 0) = t
      BY ConcatEmptySeq, SubSeqFull DEF Dropped
    <3> QED BY <3>1, <3>2 DEF b
  <2> QED BY <1>3, <2>7, <2>8 DEF a, b, d
<1>4. CASE ~(n <= Len(s))
  <2> DEFINE m == n - Len(s)
             b == Dropped(t, m)
             a == Dropped(u, n)
  <2>1. m \in Nat
    BY <1>1, <1>4
  <2>2. /\ b \in Seq(B) /\ Len(b) = IF m <= Len(t) THEN Len(t) - m ELSE 0
        /\ \A i \in 1..(Len(t) - m) : b[i] = t[m + i]
    <3> HIDE DEF m
    <3> QED BY <2>1, DroppedProperties
  <2>3. Len(a) = Len(b)
    BY <1>1, <1>2, <1>4, <2>2
  <2>4. ASSUME NEW i \in 1..Len(a) PROVE a[i] = b[i]
    <3>1. i \in 1..(Len(u) - n) /\ i \in 1..(Len(t) - m)
      BY <1>1, <1>2, <1>4
    <3>2. n + i \in 1..(Len(s) + Len(t)) /\ ~(n + i <= Len(s)) /\ n + i - Len(s) = m + i
      BY <1>1, <1>4, <3>1
    <3>3. a[i] = t[n + i - Len(s)]
      BY <1>1, <1>2, <3>1, <3>2
    <3> QED BY <2>2, <3>1, <3>2, <3>3
  <2>5. a \in Seq(B)
    BY <1>2
  <2> HIDE DEF a, b
  <2>6. a = b
    BY <2>2, <2>3, <2>4, <2>5, SeqEqual
  <2> QED BY <1>4, <2>6 DEF a, b
<1> QED BY <1>3, <1>4

\* The first n elements of a sequence.
Taken(s, n) == SubSeq(s, 1, n)

LEMMA TakenProperties ==
  ASSUME NEW B, NEW s \in Seq(B), NEW n \in 0..Len(s)
  PROVE  /\ Taken(s, n) \in Seq(B) /\ Len(Taken(s, n)) = n
         /\ \A i \in 1..n : Taken(s, n)[i] = s[i]
<1>1. Len(s) \in Nat /\ n \in Nat /\ \A i \in 1..n : s[i] \in B
  BY LenProperties, ElementOfSeq
<1>2. /\ Taken(s, n) \in Seq(B)
      /\ Len(Taken(s, n)) = IF 1 <= n THEN n - 1 + 1 ELSE 0
      /\ \A i \in 1..(n - 1 + 1) : Taken(s, n)[i] = s[1 + i - 1]
  BY <1>1, SubSeqProperties DEF Taken
<1>3. \A i \in 1..n : Taken(s, n)[i] = s[i]
  <2> SUFFICES ASSUME NEW i \in 1..n PROVE Taken(s, n)[i] = s[i]
    OBVIOUS
  <2>1. i \in 1..(n - 1 + 1) /\ 1 + i - 1 = i
    BY <1>1
  <2> QED BY <1>2, <2>1
<1> QED BY <1>1, <1>2, <1>3

\* Taking from two joined sequences.
LEMMA TakenConcat ==
  ASSUME NEW B, NEW s \in Seq(B), NEW t \in Seq(B), NEW n \in 0..(Len(s) + Len(t))
  PROVE  /\ n <= Len(s) => Taken(s \o t, n) = Taken(s, n)
         /\ n >= Len(s) => Taken(s \o t, n) = s \o Taken(t, n - Len(s))
<1> DEFINE u == s \o t
           a == Taken(u, n)
<1>1. /\ Len(s) \in Nat /\ Len(t) \in Nat /\ n \in Nat /\ n \in 0..Len(u)
      /\ u \in Seq(B) /\ Len(u) = Len(s) + Len(t)
      /\ \A i \in 1..Len(u) : u[i] = IF i <= Len(s) THEN s[i] ELSE t[i - Len(s)]
  BY LenProperties, ConcatProperties
<1> HIDE DEF u
<1>2. a \in Seq(B) /\ Len(a) = n /\ \A i \in 1..n : a[i] = u[i]
  BY <1>1, TakenProperties
<1> HIDE DEF a
<1>3. CASE n <= Len(s)
  <2> DEFINE b == Taken(s, n)
  <2>1. b \in Seq(B) /\ Len(b) = n /\ \A i \in 1..n : b[i] = s[i]
    <3>1. n \in 0..Len(s)
      BY <1>1, <1>3
    <3> QED BY <3>1, TakenProperties
  <2> HIDE DEF b
  <2>2. \A i \in 1..n : a[i] = b[i]
    BY <1>1, <1>2, <1>3, <2>1
  <2>3. a = b
    BY <1>2, <2>1, <2>2, SeqEqual
  <2>4. n >= Len(s) => b = s /\ s \o Taken(t, n - Len(s)) = s
    <3> SUFFICES ASSUME n >= Len(s) PROVE b = s /\ s \o Taken(t, n - Len(s)) = s
      OBVIOUS
    <3>1. n = Len(s) /\ n - Len(s) = 0
      BY <1>1, <1>3
    <3>2. Taken(t, 0) = <<>>
      BY SubSeqEmpty DEF Taken
    <3>3. Taken(s, Len(s)) = s /\ s \o <<>> = s
      BY SubSeqFull, ConcatEmptySeq DEF Taken
    <3> QED BY <3>1, <3>2, <3>3 DEF b
  <2> QED BY <1>3, <2>3, <2>4 DEF a, b, u
<1>4. CASE ~(n <= Len(s))
  <2> DEFINE k == n - Len(s)
             d == Taken(t, k)
             b == s \o d
  <2>1. k \in 0..Len(t) /\ k \in Nat /\ Len(s) + k = n
    BY <1>1, <1>4
  <2> HIDE DEF k
  <2>2. d \in Seq(B) /\ Len(d) = k /\ \A i \in 1..k : d[i] = t[i]
    BY <2>1, TakenProperties
  <2> HIDE DEF d
  <2>3. /\ b \in Seq(B) /\ Len(b) = n
        /\ \A i \in 1..n : b[i] = IF i <= Len(s) THEN s[i] ELSE d[i - Len(s)]
    BY <2>1, <2>2, ConcatProperties
  <2> HIDE DEF b
  <2>4. ASSUME NEW i \in 1..n PROVE a[i] = b[i]
    <3>1. i \in 1..Len(u) /\ (i <= Len(s) \/ i - Len(s) \in 1..k)
      BY <1>1, <2>1
    <3> QED BY <1>1, <1>2, <2>2, <2>3, <3>1
  <2>5. a = b
    BY <1>2, <2>3, <2>4, SeqEqual
  <2> QED BY <1>4, <2>5 DEF a, b, d, k, u
<1> QED BY <1>1, <1>3, <1>4 DEF u

(***************************************************************************)
(* One element after the other.                                            *)
(***************************************************************************)
\* A function on 1..n is a sequence of n elements.
LEMMA RunOf ==
  ASSUME NEW S, NEW n \in Nat, NEW f \in [1..n -> S]
  PROVE  f \in Seq(S) /\ Len(f) = n /\ DOMAIN f = 1..n
<1>1. f \in Seq(S)
  BY SeqDef
<1>2. DOMAIN f = 1..n /\ DOMAIN f = 1..Len(f) /\ Len(f) \in Nat
  BY <1>1, LenProperties
<1> QED BY <1>1, <1>2

\* Sequences of one length w are joined w by w.
LEMMA FlattenUniform ==
  ASSUME NEW B, NEW bs \in Seq(Seq(B)), NEW w \in Nat,
         \A k \in 1..Len(bs) : Len(bs[k]) = w
  PROVE  /\ FlattenSeq(bs) \in Seq(B)
         /\ Len(FlattenSeq(bs)) = Len(bs) * w
         /\ \A k \in 1..Len(bs), j \in 1..w : FlattenSeq(bs)[(k - 1) * w + j] = bs[k][j]
<1> DEFINE m == Len(bs)
<1>1. PICK P \in [0..m -> Seq(B)] : JoinedUpTo(P, bs)
  BY PrefixesExist
<1>2. m \in Nat /\ \A k \in 1..m : bs[k] \in Seq(B) /\ Len(bs[k]) = w
  BY LenProperties, ElementOfSeq
<1>3. P[0] = <<>> /\ \A k \in 1..m : P[k] = P[k - 1] \o bs[k]
  BY <1>1 DEF JoinedUpTo
<1>4. FlattenSeq(bs) = P[m]
  BY <1>1, FlattenIsPrefix
<1> HIDE DEF m
<1> DEFINE Holds(k) ==
             /\ Len(P[k]) = k * w
             /\ \A i \in 1..k, j \in 1..w : P[k][(i - 1) * w + j] = bs[i][j]
           T == {k \in Nat : k <= m => Holds(k)}
<1>5. 0 \in T
  <2>1. Len(P[0]) = 0 * w
    BY <1>3, EmptySeq
  <2> QED BY <2>1
<1>6. ASSUME NEW k \in Nat, k \in T PROVE k + 1 \in T
  <2> SUFFICES ASSUME k + 1 <= m PROVE Holds(k + 1)
    OBVIOUS
  <2>1. k + 1 \in 1..m /\ (k + 1) - 1 = k /\ k \in 0..m /\ Holds(k)
    BY <1>2, <1>6
  <2> DEFINE p == P[k]
             c == bs[k + 1]
             q == P[k + 1]
  <2>2. q = p \o c
    BY <1>3, <2>1
  <2>3. p \in Seq(B) /\ c \in Seq(B) /\ Len(c) = w /\ Len(p) = k * w
    BY <1>2, <2>1
  <2>4. \A i \in 1..k, j \in 1..w : p[(i - 1) * w + j] = bs[i][j]
    BY <2>1
  <2> HIDE DEF p, q
  <2> DEFINE z == k * w
  <2>5. /\ Len(q) = z + w /\ z \in Nat
        /\ \A i \in 1..(z + w) : q[i] = IF i <= z THEN p[i] ELSE c[i - z]
    <3>1. z \in Nat
      BY SMT
    <3> HIDE DEF c, z
    <3>2. Len(p) = z
      BY <2>3 DEF z
    <3> QED BY <2>2, <2>3, <3>1, <3>2, ConcatProperties
  <2>6. (k + 1) * w = z + w
    BY SMT
  <2>7. ASSUME NEW i \in 1..(k + 1), NEW j \in 1..w PROVE q[(i - 1) * w + j] = bs[i][j]
    <3>1. CASE i = k + 1
      <4>1. (i - 1) * w + j = z + j
        BY <3>1
      <4> HIDE DEF z
      <4>2. z + j \in 1..(z + w) /\ ~(z + j <= z) /\ (z + j) - z = j
        BY <2>5
      <4>3. q[z + j] = c[j]
        BY <2>5, <4>2
      <4> QED BY <3>1, <4>1, <4>3
    <3>2. CASE i # k + 1
      <4>1. i \in 1..k
        BY <3>2
      <4> DEFINE x == (i - 1) * w
      <4>2. x \in Nat /\ x + w <= z
        <5>1. i - 1 \in Nat /\ i * w \in Nat /\ (i - 1) * w \in Nat /\ k * w \in Nat
              /\ i * w = (i - 1) * w + w
          BY <4>1
        <5>2. i * w <= k * w
          BY <4>1
        <5> QED BY <5>1, <5>2
      <4>3. p[x + j] = bs[i][j]
        BY <2>4, <4>1
      <4> HIDE DEF x, z
      <4>4. x + j \in 1..(z + w) /\ x + j <= z
        BY <2>5, <4>2
      <4>5. q[x + j] = p[x + j]
        BY <2>5, <4>4
      <4> QED BY <4>3, <4>5 DEF x
    <3> QED BY <3>1, <3>2
  <2> QED BY <2>5, <2>6, <2>7 DEF q
<1> HIDE DEF T
<1>7. m \in T
  BY <1>2, <1>5, <1>6, NatSetInduction
<1>8. Holds(m)
  BY <1>2, <1>7 DEF T
<1>9. P[m] \in Seq(B)
  BY <1>1, <1>2
<1> QED BY <1>4, <1>8, <1>9 DEF m

\* A sequence without its first n elements begins with the next one.
LEMMA DroppedNext ==
  ASSUME NEW B, NEW s \in Seq(B)
  PROVE  /\ Dropped(s, 0) = s /\ Dropped(s, Len(s)) = <<>>
         /\ \A n \in Nat : Dropped(s, n) \in Seq(B)
         /\ \A n \in Nat : n < Len(s) =>
              /\ s[n + 1] \in B /\ Head(Dropped(s, n)) = s[n + 1]
              /\ Dropped(s, n) # <<>> /\ Tail(Dropped(s, n)) = Dropped(s, n + 1)
              /\ Dropped(s, n) = <<s[n + 1]>> \o Dropped(s, n + 1)
<1>1. Len(s) \in Nat /\ \A i \in 1..Len(s) : s[i] \in B
  BY LenProperties, ElementOfSeq
<1>2. ASSUME NEW n \in Nat
      PROVE  /\ Dropped(s, n) \in Seq(B)
             /\ Len(Dropped(s, n)) = IF n <= Len(s) THEN Len(s) - n ELSE 0
             /\ \A i \in 1..(Len(s) - n) : Dropped(s, n)[i] = s[n + i]
             /\ n >= Len(s) => Dropped(s, n) = <<>>
             /\ n < Len(s) => Dropped(s, n) # <<>>
  BY DroppedProperties
<1>3. Dropped(s, 0) = s
  <2> DEFINE d == Dropped(s, 0)
  <2>1. d \in Seq(B) /\ Len(d) = Len(s) /\ \A i \in 1..Len(s) : d[i] = s[i]
    BY <1>1, <1>2
  <2> HIDE DEF d
  <2>2. d = s
    BY <2>1, SeqEqual
  <2> QED BY <2>2 DEF d
<1>4. Dropped(s, Len(s)) = <<>>
  BY <1>1, <1>2
<1>5. ASSUME NEW n \in Nat, n < Len(s)
      PROVE  /\ s[n + 1] \in B /\ Head(Dropped(s, n)) = s[n + 1]
             /\ Dropped(s, n) # <<>> /\ Tail(Dropped(s, n)) = Dropped(s, n + 1)
             /\ Dropped(s, n) = <<s[n + 1]>> \o Dropped(s, n + 1)
  <2> DEFINE d == Dropped(s, n)
             e == Dropped(s, n + 1)
  <2>1. /\ d \in Seq(B) /\ Len(d) = Len(s) - n /\ d # <<>>
        /\ \A i \in 1..(Len(s) - n) : d[i] = s[n + i]
    BY <1>1, <1>2, <1>5
  <2>2. /\ e \in Seq(B) /\ Len(e) = Len(s) - (n + 1)
        /\ \A i \in 1..(Len(s) - (n + 1)) : e[i] = s[(n + 1) + i]
    <3> DEFINE k == n + 1
    <3>1. k \in Nat /\ k <= Len(s)
      BY <1>1, <1>5
    <3> HIDE DEF k
    <3>2. Dropped(s, k) \in Seq(B) /\ Len(Dropped(s, k)) = Len(s) - k
          /\ \A i \in 1..(Len(s) - k) : Dropped(s, k)[i] = s[k + i]
      BY <1>2, <3>1
    <3> QED BY <3>2, Zenon DEF k
  <2> HIDE DEF d, e
  <2>3. 1 \in 1..(Len(s) - n) /\ n + 1 \in 1..Len(s)
    BY <1>1, <1>5
  <2>4. Head(d) = s[n + 1] /\ s[n + 1] \in B
    <3>1. Head(d) = d[1]
      BY <2>1, HeadTailProperties
    <3>2. d[1] = s[n + 1]
      BY <2>1, <2>3, Zenon
    <3> QED BY <1>1, <2>3, <3>1, <3>2
  <2>5. /\ Tail(d) \in Seq(B) /\ Len(Tail(d)) = Len(d) - 1
        /\ \A i \in 1..Len(Tail(d)) : Tail(d)[i] = d[i + 1]
    BY <2>1, HeadTailProperties
  <2>6. Tail(d) = e
    <3>1. Len(Tail(d)) = Len(e)
      BY <1>1, <2>1, <2>2, <2>5
    <3>2. ASSUME NEW i \in 1..Len(Tail(d)) PROVE Tail(d)[i] = e[i]
      <4>1. i \in 1..(Len(s) - (n + 1)) /\ i + 1 \in 1..(Len(s) - n) /\ n + (i + 1) = (n + 1) + i
        BY <1>1, <2>1, <2>5
      <4>2. Tail(d)[i] = d[i + 1] /\ d[i + 1] = s[n + (i + 1)] /\ e[i] = s[(n + 1) + i]
        BY <2>1, <2>2, <2>5, <4>1, Zenon
      <4> QED BY <4>1, <4>2, Zenon
    <3> QED BY <2>2, <2>5, <3>1, <3>2, SeqEqual
  <2>7. <<Head(d)>> \o Tail(d) = d
    BY <2>1, HeadAndTail
  <2> QED BY <2>1, <2>4, <2>6, <2>7 DEF d, e
<1> QED BY <1>2, <1>3, <1>4, <1>5

\* The first n elements, and one more.
LEMMA TakenNext ==
  ASSUME NEW B, NEW s \in Seq(B)
  PROVE  /\ Taken(s, 0) = <<>> /\ Taken(s, Len(s)) = s
         /\ \A n \in 0..Len(s) : Taken(s, n) \in Seq(B) /\ Len(Taken(s, n)) = n
         /\ \A n \in 0..Len(s) : n < Len(s) => Append(Taken(s, n), s[n + 1]) = Taken(s, n + 1)
<1>1. Len(s) \in Nat /\ \A i \in 1..Len(s) : s[i] \in B
  BY LenProperties, ElementOfSeq
<1>2. \A n \in 0..Len(s) : /\ Taken(s, n) \in Seq(B) /\ Len(Taken(s, n)) = n
                           /\ \A i \in 1..n : Taken(s, n)[i] = s[i]
  BY TakenProperties
<1>3. Taken(s, 0) = <<>>
  BY <1>1, <1>2, EmptySeq
<1>4. Taken(s, Len(s)) = s
  <2> DEFINE a == Taken(s, Len(s))
  <2>1. a \in Seq(B) /\ Len(a) = Len(s) /\ \A i \in 1..Len(a) : a[i] = s[i]
    BY <1>1, <1>2
  <2> HIDE DEF a
  <2>2. a = s
    BY <2>1, SeqEqual
  <2> QED BY <2>2 DEF a
<1>5. ASSUME NEW n \in 0..Len(s), n < Len(s)
      PROVE  Append(Taken(s, n), s[n + 1]) = Taken(s, n + 1)
  <2> DEFINE a == Taken(s, n)
             b == Taken(s, n + 1)
             x == s[n + 1]
  <2>1. a \in Seq(B) /\ Len(a) = n /\ \A i \in 1..n : a[i] = s[i]
    BY <1>2
  <2>2. n + 1 \in 0..Len(s) /\ n + 1 \in 1..Len(s)
    BY <1>1, <1>5
  <2>3. b \in Seq(B) /\ Len(b) = n + 1 /\ \A i \in 1..(n + 1) : b[i] = s[i]
    BY <1>2, <2>2
  <2>4. x \in B
    BY <1>1, <2>2
  <2> HIDE DEF a, b
  <2>5. /\ Append(a, x) \in Seq(B) /\ Len(Append(a, x)) = Len(a) + 1
        /\ \A i \in 1..Len(a) : Append(a, x)[i] = a[i]
        /\ Append(a, x)[Len(a) + 1] = x
    <3> HIDE DEF x
    <3> QED BY <2>1, <2>4, AppendProperties
  <2>6. ASSUME NEW i \in 1..(n + 1) PROVE Append(a, x)[i] = b[i]
    <3>1. CASE i = n + 1
      BY <2>1, <2>2, <2>3, <2>5, <3>1
    <3>2. CASE i # n + 1
      <4>1. i \in 1..n
        BY <3>2
      <4> QED BY <2>1, <2>3, <2>5, <4>1
    <3> QED BY <3>1, <3>2
  <2>7. Append(a, x) = b
    <3> HIDE DEF x
    <3> QED BY <2>1, <2>3, <2>5, <2>6, SeqEqual
  <2> QED BY <2>7 DEF a, b
<1> QED BY <1>2, <1>3, <1>4, <1>5

\* What is left to join after the first n begins with the next one.
LEMMA FlattenDropped ==
  ASSUME NEW B, NEW bs \in Seq(Seq(B))
  PROVE  /\ FlattenSeq(Dropped(bs, 0)) = FlattenSeq(bs)
         /\ FlattenSeq(Dropped(bs, Len(bs))) = <<>>
         /\ \A n \in Nat : FlattenSeq(Dropped(bs, n)) \in Seq(B)
         /\ \A n \in Nat : n < Len(bs) =>
              /\ bs[n + 1] \in Seq(B)
              /\ FlattenSeq(Dropped(bs, n)) = bs[n + 1] \o FlattenSeq(Dropped(bs, n + 1))
<1> DEFINE S == Seq(B)
<1>1. /\ Dropped(bs, 0) = bs /\ Dropped(bs, Len(bs)) = <<>>
      /\ \A n \in Nat : Dropped(bs, n) \in Seq(S)
      /\ \A n \in Nat : n < Len(bs) =>
              /\ bs[n + 1] \in S /\ Head(Dropped(bs, n)) = bs[n + 1]
              /\ Dropped(bs, n) # <<>> /\ Tail(Dropped(bs, n)) = Dropped(bs, n + 1)
  <2> HIDE DEF S
  <2>1. bs \in Seq(S)
    BY DEF S
  <2>2. /\ Dropped(bs, 0) = bs /\ Dropped(bs, Len(bs)) = <<>>
        /\ \A n \in Nat : Dropped(bs, n) \in Seq(S)
        /\ \A n \in Nat : n < Len(bs) =>
              /\ bs[n + 1] \in S /\ Head(Dropped(bs, n)) = bs[n + 1]
              /\ Dropped(bs, n) # <<>> /\ Tail(Dropped(bs, n)) = Dropped(bs, n + 1)
              /\ Dropped(bs, n) = <<bs[n + 1]>> \o Dropped(bs, n + 1)
    BY <2>1, DroppedNext
  <2> QED BY <2>2, Zenon
<1>2. \A n \in Nat : FlattenSeq(Dropped(bs, n)) \in S
  BY <1>1, FlattenType
<1>3. FlattenSeq(<<>>) = <<>>
  BY FlattenType
<1>4. ASSUME NEW n \in Nat, n < Len(bs)
      PROVE  FlattenSeq(Dropped(bs, n)) = bs[n + 1] \o FlattenSeq(Dropped(bs, n + 1))
  <2> DEFINE d == Dropped(bs, n)
  <2>1. d \in Seq(Seq(B)) /\ d # <<>> /\ Head(d) = bs[n + 1] /\ Tail(d) = Dropped(bs, n + 1)
    BY <1>1, <1>4
  <2> HIDE DEF d
  <2>2. FlattenSeq(d) = Head(d) \o FlattenSeq(Tail(d))
    BY <2>1, FlattenHead
  <2> QED BY <2>1, <2>2, Zenon DEF d
<1> QED BY <1>1, <1>2, <1>3, <1>4

\* Texts that begin with one character each are alike if these and the rests are.
LEMMA SameStart ==
  ASSUME NEW B, NEW x \in B, NEW y \in B, NEW s \in Seq(B), NEW t \in Seq(B),
         <<x>> \o s = <<y>> \o t
  PROVE  x = y /\ s = t
<1>1. \A z \in B : <<z>> \in Seq(B) /\ Len(<<z>>) = 1 /\ <<z>>[1] = z
  OBVIOUS
<1>2. ASSUME NEW z \in B, NEW u \in Seq(B)
      PROVE  /\ <<z>> \o u \in Seq(B) /\ Len(<<z>> \o u) = 1 + Len(u)
             /\ (<<z>> \o u)[1] = z
             /\ \A i \in 1..Len(u) : (<<z>> \o u)[1 + i] = u[i]
  <2> DEFINE a == <<z>>
  <2>1. a \in Seq(B) /\ Len(a) = 1 /\ a[1] = z /\ Len(u) \in Nat
    BY <1>1, LenProperties
  <2> HIDE DEF a
  <2>2. /\ a \o u \in Seq(B) /\ Len(a \o u) = Len(a) + Len(u)
        /\ \A i \in 1..(Len(a) + Len(u)) :
             (a \o u)[i] = IF i <= Len(a) THEN a[i] ELSE u[i - Len(a)]
    BY <2>1, ConcatProperties
  <2>3. (a \o u)[1] = z
    BY <2>1, <2>2
  <2>4. ASSUME NEW i \in 1..Len(u) PROVE (a \o u)[1 + i] = u[i]
    <3>1. 1 + i \in 1..(Len(a) + Len(u)) /\ ~(1 + i <= Len(a)) /\ (1 + i) - Len(a) = i
      BY <2>1
    <3> QED BY <2>2, <3>1
  <2> QED BY <2>1, <2>2, <2>3, <2>4 DEF a
<1>3. x = y
  BY <1>2
<1>4. Len(s) = Len(t)
  <2>1. Len(s) \in Nat /\ Len(t) \in Nat /\ 1 + Len(s) = 1 + Len(t)
    BY <1>2, LenProperties
  <2> QED BY <2>1
<1>5. \A i \in 1..Len(s) : s[i] = t[i]
  <2> SUFFICES ASSUME NEW i \in 1..Len(s) PROVE s[i] = t[i]
    OBVIOUS
  <2>1. (<<x>> \o s)[1 + i] = s[i]
    BY <1>2
  <2>2. i \in 1..Len(t)
    BY <1>4
  <2>3. (<<y>> \o t)[1 + i] = t[i]
    BY <1>2, <2>2
  <2> QED BY <2>1, <2>3
<1> QED BY <1>3, <1>4, <1>5, SeqEqual

\* A text that begins with a character is not empty.
LEMMA NotEmpty ==
  ASSUME NEW B, NEW x \in B, NEW s \in Seq(B)
  PROVE  <<x>> \o s # <<>>
<1> DEFINE a == <<x>>
<1>1. a \in Seq(B) /\ Len(a) = 1 /\ Len(s) \in Nat
  BY LenProperties
<1> HIDE DEF a
<1>2. Len(a \o s) = Len(a) + Len(s)
  BY <1>1, ConcatProperties
<1>3. Len(a \o s) # 0
  BY <1>1, <1>2
<1> QED BY <1>3, EmptySeq DEF a
=============================================================================
