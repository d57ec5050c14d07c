--------------------------- MODULE SequenceFacts ----------------------------
(***************************************************************************)
(* Facts about sequences that several proofs use: what an operation does   *)
(* to a sequence, index by index and element by element.                   *)
(***************************************************************************)
EXTENDS Integers, SequencesExt, SequenceTheorems, TLAPS

\* A sequence without elements is empty
LEMMA EmptyRange ==
  ASSUME NEW S, NEW q \in Seq(S)
  PROVE  Range(q) = {} <=> q = <<>>
<1>1. Len(q) \in Nat /\ DOMAIN q = 1..Len(q) /\ (q = <<>> <=> Len(q) = 0)
  BY LenProperties, EmptySeq
<1>2. CASE Len(q) = 0
  <2>1. DOMAIN q = {}
    BY <1>1, <1>2
  <2>. QED
    BY <1>1, <1>2, <2>1 DEF Range
<1>3. CASE Len(q) # 0
  <2>1. 1 \in DOMAIN q
    BY <1>1, <1>3
  <2>2. q[1] \in Range(q)
    BY <2>1 DEF Range
  <2>. QED
    BY <1>1, <1>3, <2>2
<1>. QED
  BY <1>2, <1>3

\* Append, index by index
LEMMA AppendIndices ==
  ASSUME NEW S, NEW q \in Seq(S), NEW e \in S
  PROVE  /\ Append(q, e) \in Seq(S)
         /\ Append(q, e) # <<>>
         /\ Len(q) \in Nat
         /\ Len(Append(q, e)) = Len(q) + 1
         /\ DOMAIN q = 1..Len(q)
         /\ DOMAIN Append(q, e) = 1..(Len(q) + 1)
         /\ \A i \in 1..Len(q) : Append(q, e)[i] = q[i]
         /\ Append(q, e)[Len(q) + 1] = e
<1>1. /\ Append(q, e) \in Seq(S)
      /\ Len(Append(q, e)) = Len(q) + 1
      /\ \A i \in 1..Len(q) : Append(q, e)[i] = q[i]
      /\ Append(q, e)[Len(q) + 1] = e
  BY AppendProperties
<1>2. Len(q) \in Nat /\ DOMAIN q = 1..Len(q)
  BY LenProperties
<1>3. DOMAIN Append(q, e) = 1..(Len(q) + 1)
  BY <1>1, LenProperties
<1>. QED
  BY <1>1, <1>2, <1>3, EmptySeq

\* Append, element by element
LEMMA AppendElements ==
  ASSUME NEW S, NEW q \in Seq(S), NEW e \in S
  PROVE  /\ Range(Append(q, e)) = Range(q) \cup {e}
         /\ IsInjective(q) /\ e \notin Range(q) => IsInjective(Append(q, e))
<1>. DEFINE r == Append(q, e)
<1>1. /\ Len(q) \in Nat /\ DOMAIN q = 1..Len(q) /\ DOMAIN r = 1..(Len(q) + 1)
      /\ \A i \in 1..Len(q) : r[i] = q[i]
      /\ r[Len(q) + 1] = e
  BY AppendIndices
<1>. HIDE DEF r
<1>2. Range(r) = Range(q) \cup {e}
  <2>1. ASSUME NEW x \in Range(q) \cup {e} PROVE x \in Range(r)
    BY <1>1, <2>1 DEF Range
  <2>2. ASSUME NEW x \in Range(r) PROVE x \in Range(q) \cup {e}
    BY <1>1, <2>2 DEF Range
  <2>. QED
    BY <2>1, <2>2
<1>3. IsInjective(q) /\ e \notin Range(q) => IsInjective(r)
  BY <1>1 DEF Range, IsInjective
<1>. QED
  BY <1>2, <1>3 DEF r

\* Head and Tail, index by index
LEMMA TailIndices ==
  ASSUME NEW S, NEW q \in Seq(S), q # <<>>
  PROVE  /\ Len(q) \in Nat \ {0}
         /\ Head(q) = q[1]
         /\ Head(q) \in S
         /\ Tail(q) \in Seq(S)
         /\ Len(Tail(q)) = Len(q) - 1
         /\ DOMAIN q = 1..Len(q)
         /\ DOMAIN Tail(q) = 1..(Len(q) - 1)
         /\ \A i \in 1..(Len(q) - 1) : Tail(q)[i] = q[i + 1]
         /\ Tail(q) = <<>> <=> Len(q) = 1
<1>1. /\ Len(q) \in Nat \ {0}
      /\ DOMAIN q = 1..Len(q)
  BY LenProperties, EmptySeq
<1>2. /\ Head(q) \in S
      /\ Tail(q) \in Seq(S)
      /\ Len(Tail(q)) = Len(q) - 1
      /\ \A i \in 1..(Len(q) - 1) : Tail(q)[i] = q[i + 1]
  BY HeadTailProperties
<1>3. DOMAIN Tail(q) = 1..(Len(q) - 1)
  BY <1>2, LenProperties
<1>4. Tail(q) = <<>> <=> Len(q) = 1
  BY <1>1, <1>2, EmptySeq
<1>. QED
  BY <1>1, <1>2, <1>3, <1>4

\* Head and Tail, element by element
LEMMA TailElements ==
  ASSUME NEW S, NEW q \in Seq(S), q # <<>>, IsInjective(q)
  PROVE  /\ Head(q) \in Range(q)
         /\ Range(Tail(q)) = Range(q) \ {Head(q)}
         /\ IsInjective(Tail(q))
<1>. DEFINE r == Tail(q)
<1>1. /\ Len(q) \in Nat \ {0} /\ DOMAIN q = 1..Len(q)
      /\ DOMAIN r = 1..(Len(q) - 1) /\ Head(q) = q[1]
      /\ \A i \in 1..(Len(q) - 1) : r[i] = q[i + 1]
  BY TailIndices
<1>. HIDE DEF r
<1>2. Range(r) = Range(q) \ {Head(q)}
  <2>1. ASSUME NEW x \in Range(q) \ {Head(q)} PROVE x \in Range(r)
    <3>1. PICK i \in DOMAIN q : x = q[i]
      BY <2>1 DEF Range
    <3>2. i - 1 \in DOMAIN r /\ r[i - 1] = q[i]
      BY <1>1, <2>1, <3>1
    <3>. QED
      BY <3>1, <3>2 DEF Range
  <2>2. ASSUME NEW x \in Range(r) PROVE x \in Range(q) \ {Head(q)}
    <3>1. PICK i \in DOMAIN r : x = r[i]
      BY <2>2 DEF Range
    <3>2. i + 1 \in DOMAIN q /\ q[i + 1] = x /\ i + 1 # 1 /\ 1 \in DOMAIN q
      BY <1>1, <3>1
    <3>. QED
      BY <1>1, <3>2 DEF Range, IsInjective
  <2>. QED
    BY <2>1, <2>2
<1>3. IsInjective(r)
  <2>. SUFFICES ASSUME NEW i \in DOMAIN r, NEW k \in DOMAIN r, r[i] = r[k]
                PROVE  i = k
    BY DEF IsInjective
  <2>1. q[i + 1] = q[k + 1] /\ i + 1 \in DOMAIN q /\ k + 1 \in DOMAIN q
    BY <1>1
  <2>. QED
    BY <1>1, <2>1 DEF IsInjective
<1>4. Head(q) \in Range(q)
  BY <1>1 DEF Range
<1>. QED
  BY <1>2, <1>3, <1>4 DEF r

\* Numbers up to m, the last one apart
LEMMA UpTo ==
  ASSUME NEW m \in Nat, NEW n \in 0..m
  PROVE  /\ n \in Nat /\ n <= m
         /\ n = m \/ (n + 1 <= m /\ n + 1 \in 1..m)
         /\ n = m => ~(n + 1 <= m) /\ m - n = 0
OBVIOUS

\* What is left of a sequence behind its n-th element
LEMMA RestHead ==
  ASSUME NEW S, NEW q \in Seq(S), NEW n \in 0..Len(q)
  PROVE  LET r == SubSeq(q, n + 1, Len(q))
         IN /\ r \in Seq(S) /\ Len(r) = Len(q) - n
            /\ r = <<>> <=> n = Len(q)
            /\ r # <<>> => /\ n + 1 \in 1..Len(q)
                           /\ Head(r) = q[n + 1] /\ Head(r) \in Range(q)
                           /\ Tail(r) = SubSeq(q, (n + 1) + 1, Len(q))
<1>. DEFINE r == SubSeq(q, n + 1, Len(q))
<1>0. Len(q) \in Nat /\ DOMAIN q = 1..Len(q) /\ n \in Nat /\ n <= Len(q)
  <2>1. Len(q) \in Nat /\ DOMAIN q = 1..Len(q)
    BY LenProperties
  <2>. QED
    BY <2>1
<1>1. \A i \in (n + 1)..Len(q) : q[i] \in S
  BY <1>0, ElementOfSeq
<1>2. /\ r \in Seq(S) /\ Len(r) = IF n + 1 <= Len(q) THEN Len(q) - (n + 1) + 1 ELSE 0
      /\ \A i \in 1..(Len(q) - (n + 1) + 1) : r[i] = q[(n + 1) + i - 1]
  BY <1>0, <1>1, SubSeqProperties
<1>. HIDE DEF r
<1>3. Len(r) = Len(q) - n
  <2>1. CASE n + 1 <= Len(q)
    BY <1>0, <1>2, <2>1
  <2>2. CASE ~(n + 1 <= Len(q))
    <3>1. n = Len(q) /\ Len(q) - n = 0
      BY <1>0, <2>2, UpTo
    <3>2. Len(r) = 0
      BY <1>2, <2>2
    <3>. QED
      BY <3>1, <3>2
  <2>. QED
    BY <2>1, <2>2
<1>4. r = <<>> <=> n = Len(q)
  <2>1. r = <<>> <=> Len(r) = 0
    BY <1>2, EmptySeq
  <2>2. Len(q) - n = 0 <=> n = Len(q)
    BY <1>0
  <2>. QED
    BY <1>3, <2>1, <2>2
<1>5. ASSUME r # <<>>
      PROVE  /\ n + 1 \in 1..Len(q)
             /\ Head(r) = q[n + 1] /\ Head(r) \in Range(q)
             /\ Tail(r) = SubSeq(q, (n + 1) + 1, Len(q))
  <2>1. n + 1 \in 1..Len(q) /\ n + 1 <= Len(q)
    <3>1. n # Len(q)
      BY <1>4, <1>5
    <3>. QED
      BY <1>0, <3>1, UpTo
  <2>2. Head(r) = r[1] /\ 1 \in 1..(Len(q) - (n + 1) + 1) /\ (n + 1) + 1 - 1 = n + 1
    BY <1>0, <1>2, <1>5, <2>1, TailIndices
  <2>3. Head(r) = q[n + 1]
    BY <1>2, <2>2
  <2>4. Tail(r) = SubSeq(q, (n + 1) + 1, Len(q))
    BY <1>0, <1>1, <2>1, HeadTailOfSubSeq DEF r
  <2>. QED
    BY <1>0, <2>1, <2>3, <2>4 DEF Range
<1>. QED
  BY <1>2, <1>3, <1>4, <1>5 DEF r

\* The first k elements of a sequence, and the rest of it
LEMMA FirstIndices ==
  ASSUME NEW S, NEW q \in Seq(S), NEW k \in 0..Len(q)
  PROVE  /\ SubSeq(q, 1, k) \in Seq(S)
         /\ Len(SubSeq(q, 1, k)) = k
         /\ \A i \in 1..k : SubSeq(q, 1, k)[i] = q[i]
<1>1. Len(q) \in Nat /\ k \in Nat /\ k <= Len(q)
  BY LenProperties
<1>2. \A i \in 1..k : q[i] \in S
  BY <1>1, ElementOfSeq
<1>3. /\ SubSeq(q, 1, k) \in Seq(S)
      /\ Len(SubSeq(q, 1, k)) = IF 1 <= k THEN k - 1 + 1 ELSE 0
      /\ \A i \in 1..(k - 1 + 1) : SubSeq(q, 1, k)[i] = q[1 + i - 1]
  BY <1>1, <1>2, SubSeqProperties
<1>4. k - 1 + 1 = k /\ (IF 1 <= k THEN k - 1 + 1 ELSE 0) = k
  BY <1>1
<1>5. \A i \in 1..k : 1 + i - 1 = i
  BY <1>1
<1>. QED
  BY <1>3, <1>4, <1>5

\* What is left of a sequence behind its first k elements
LEMMA RestIndices ==
  ASSUME NEW S, NEW q \in Seq(S), NEW k \in 0..Len(q)
  PROVE  /\ SubSeq(q, k + 1, Len(q)) \in Seq(S)
         /\ Len(SubSeq(q, k + 1, Len(q))) = Len(q) - k
         /\ Len(q) - k \in Nat /\ Len(q) - k <= Len(q)
         /\ \A i \in 1..(Len(q) - k) : SubSeq(q, k + 1, Len(q))[i] = q[k + i]
<1>. DEFINE r == SubSeq(q, k + 1, Len(q))
<1>1. Len(q) \in Nat /\ k \in Nat /\ k <= Len(q) /\ Len(q) - k \in Nat
  BY LenProperties
<1>2. r \in Seq(S) /\ Len(r) = Len(q) - k
  BY RestHead
<1>3. \A i \in (k + 1)..Len(q) : q[i] \in S
  BY <1>1, ElementOfSeq
<1>4. \A i \in 1..(Len(q) - (k + 1) + 1) : r[i] = q[(k + 1) + i - 1]
  BY <1>1, <1>3, SubSeqProperties
<1>5. Len(q) - (k + 1) + 1 = Len(q) - k
  BY <1>1
<1>6. \A i \in 1..(Len(q) - k) : (k + 1) + i - 1 = k + i
  BY <1>1
<1>. HIDE DEF r
<1>7. \A i \in 1..(Len(q) - k) : r[i] = q[k + i]
  BY <1>4, <1>5, <1>6
<1>. QED
  BY <1>1, <1>2, <1>7 DEF r

\* RemoveFirst of an element that occurs once, element by element
LEMMA RemoveFirstElements ==
  ASSUME NEW S, NEW q \in Seq(S), NEW e, IsInjective(q)
  PROVE  /\ RemoveFirst(q, e) \in Seq(S)
         /\ Range(RemoveFirst(q, e)) = Range(q) \ {e}
         /\ IsInjective(RemoveFirst(q, e))
<1>0. Len(q) \in Nat /\ DOMAIN q = 1..Len(q)
  BY LenProperties
<1>1. CASE e \notin Range(q)
  <2>1. RemoveFirst(q, e) = q
    BY <1>0, <1>1 DEF RemoveFirst, Range
  <2>. QED
    BY <1>1, <2>1
<1>2. CASE e \in Range(q)
  <2>1. PICK n \in 1..Len(q) : q[n] = e
    BY <1>0, <1>2 DEF Range
  <2>2. {i \in 1..Len(q) : q[i] = e} = {n}
    BY <1>0, <2>1 DEF IsInjective
  <2>3. SelectInSeq(q, LAMBDA v : v = e) = n
    <3>1. Min({n}) = n
      BY <2>1 DEF Min
    <3>. QED
      BY <2>2, <3>1 DEF SelectInSeq
  <2>. DEFINE b == SubSeq(q, 1, n - 1)
              c == SubSeq(q, n + 1, Len(q))
              r == b \o c
  <2>4. RemoveFirst(q, e) = r
    BY <2>1, <2>3 DEF RemoveFirst, RemoveAt
  <2>5. /\ b \in Seq(S) /\ Len(b) = n - 1 /\ \A i \in 1..(n - 1) : b[i] = q[i]
    BY <1>0, <2>1, SubSeqProperties
  <2>6. /\ c \in Seq(S) /\ Len(c) = Len(q) - n
        /\ \A i \in 1..(Len(q) - n) : c[i] = q[n + i]
    <3>1. n \in 0..Len(q)
      BY <1>0, <2>1
    <3>. QED
      BY <3>1, RestIndices
  <2>. HIDE DEF b, c
  <2>7. /\ r \in Seq(S) /\ Len(r) = Len(q) - 1
        /\ \A i \in 1..(Len(q) - 1) : r[i] = IF i < n THEN q[i] ELSE q[i + 1]
    <3>1. /\ r \in Seq(S) /\ Len(r) = Len(b) + Len(c)
          /\ \A i \in 1..(Len(b) + Len(c)) :
               r[i] = IF i <= Len(b) THEN b[i] ELSE c[i - Len(b)]
      BY <2>5, <2>6, ConcatProperties
    <3>2. Len(r) = Len(q) - 1
      BY <1>0, <2>1, <2>5, <2>6, <3>1
    <3>. HIDE DEF r
    <3>3. ASSUME NEW i \in 1..(Len(q) - 1)
          PROVE  r[i] = IF i < n THEN q[i] ELSE q[i + 1]
      <4>1. CASE i < n
        <5>1. i \in 1..(Len(b) + Len(c)) /\ i <= Len(b) /\ i \in 1..(n - 1)
          BY <1>0, <2>1, <2>5, <2>6, <4>1
        <5>. QED
          BY <2>5, <3>1, <4>1, <5>1
      <4>2. CASE i >= n
        <5>1. /\ i \in 1..(Len(b) + Len(c)) /\ ~(i <= Len(b))
              /\ i - Len(b) \in 1..(Len(q) - n) /\ n + (i - Len(b)) = i + 1
          BY <1>0, <2>1, <2>5, <2>6, <4>2
        <5>2. r[i] = c[i - Len(b)]
          BY <3>1, <5>1
        <5>. QED
          BY <2>1, <2>6, <4>2, <5>1, <5>2
      <4>. QED
        BY <1>0, <2>1, <4>1, <4>2
    <3>. QED
      BY <3>1, <3>2, <3>3
  <2>8. DOMAIN r = 1..(Len(q) - 1)
    BY <2>7, LenProperties
  <2>. HIDE DEF r
  <2>9. Range(r) = Range(q) \ {e}
    <3>1. ASSUME NEW x \in Range(q) \ {e} PROVE x \in Range(r)
      <4>1. PICK i \in 1..Len(q) : x = q[i]
        BY <1>0, <3>1 DEF Range
      <4>2. i # n
        BY <2>1, <3>1, <4>1
      <4>3. \E k \in DOMAIN r : r[k] = q[i]
        <5>1. CASE i < n
          BY <1>0, <2>1, <2>7, <2>8, <5>1
        <5>2. CASE i > n
          <6>1. i - 1 \in DOMAIN r /\ r[i - 1] = q[i]
            BY <1>0, <2>1, <2>7, <2>8, <5>2
          <6>. QED
            BY <6>1
        <5>. QED
          BY <4>2, <5>1, <5>2
      <4>. QED
        BY <4>1, <4>3 DEF Range
    <3>2. ASSUME NEW x \in Range(r) PROVE x \in Range(q) \ {e}
      <4>1. PICK i \in DOMAIN r : x = r[i]
        BY <3>2 DEF Range
      <4>2. \E k \in DOMAIN q : k # n /\ x = q[k]
        BY <1>0, <2>1, <2>7, <2>8, <4>1
      <4>. QED
        BY <1>0, <2>1, <4>2 DEF Range, IsInjective
    <3>. QED
      BY <3>1, <3>2
  <2>10. IsInjective(r)
    BY SMTT(30), <1>0, <2>1, <2>7, <2>8 DEF IsInjective
  <2>. QED
    BY <2>4, <2>7, <2>9, <2>10
<1>. QED
  BY <1>1, <1>2

\* One sequence behind another
LEMMA ConcatIndices ==
  ASSUME NEW S, NEW a \in Seq(S), NEW b \in Seq(S)
  PROVE  /\ a \o b \in Seq(S)
         /\ Len(a) \in Nat /\ Len(b) \in Nat
         /\ Len(a \o b) = Len(a) + Len(b)
         /\ \A i \in 1..Len(a) : (a \o b)[i] = a[i]
         /\ \A i \in 1..Len(b) : (a \o b)[Len(a) + i] = b[i]
<1>1. Len(a) \in Nat /\ Len(b) \in Nat
  BY LenProperties
<1>2. /\ a \o b \in Seq(S) /\ Len(a \o b) = Len(a) + Len(b)
      /\ \A i \in 1 .. Len(a) + Len(b) :
           (a \o b)[i] = IF i <= Len(a) THEN a[i] ELSE b[i - Len(a)]
  BY ConcatProperties
<1>3. ASSUME NEW i \in 1..Len(a) PROVE (a \o b)[i] = a[i]
  <2>1. i \in 1 .. Len(a) + Len(b) /\ i <= Len(a)
    BY <1>1
  <2>. QED
    BY <1>2, <2>1
<1>4. ASSUME NEW i \in 1..Len(b) PROVE (a \o b)[Len(a) + i] = b[i]
  <2>1. /\ Len(a) + i \in 1 .. Len(a) + Len(b) /\ ~(Len(a) + i <= Len(a))
        /\ (Len(a) + i) - Len(a) = i
    BY <1>1
  <2>. QED
    BY <1>2, <2>1
<1>. QED
  BY <1>1, <1>2, <1>3, <1>4

\* Moving the first element of one sequence behind another
LEMMA ConcatShift ==
  ASSUME NEW S, NEW a \in Seq(S), NEW b \in Seq(S), b # <<>>
  PROVE  Append(a, Head(b)) \o Tail(b) = a \o b
<1>1. /\ Head(b) \in S /\ Tail(b) \in Seq(S) /\ <<Head(b)>> \in Seq(S)
      /\ b = <<Head(b)>> \o Tail(b)
  <2>1. Head(b) \in S /\ Tail(b) \in Seq(S) /\ Len(b) \in Nat \ {0}
    BY TailIndices
  <2>2. SubSeq(b, 1, Len(b)) = b /\ SubSeq(b, 2, Len(b)) = Tail(b) /\ Head(b) = b[1]
    BY <2>1, SubSeqFull, TailIsSubSeq, TailIndices
  <2>3. 1 \in 1..Len(b) /\ Len(b) \in 1..Len(b) /\ 1 + 1 = 2
    BY <2>1
  <2>4. SubSeq(b, 1, Len(b)) = <<b[1]>> \o SubSeq(b, 1 + 1, Len(b))
    BY <2>3, SubSeqRecursiveFirst
  <2>5. <<Head(b)>> \in Seq(S)
    BY <2>1
  <2>. QED
    BY <2>1, <2>2, <2>3, <2>4, <2>5
<1>2. Append(a, Head(b)) = a \o <<Head(b)>>
  BY <1>1, AppendIsConcat
<1>3. (a \o <<Head(b)>>) \o Tail(b) = a \o (<<Head(b)>> \o Tail(b))
  BY <1>1, ConcatAssociative
<1>. QED
  BY <1>1, <1>2, <1>3
=============================================================================
