---------------------------- MODULE ConsoleProofs ---------------------------
(***************************************************************************)
(* The safety of the dialogue between consoles and manager, for any number *)
(* of consoles, commands and lines.                                        *)
(***************************************************************************)
EXTENDS Console, SequenceFacts, NumberFacts

-----------------------------------------------------------------------------
(***************************************************************************)
(* Texts.                                                                  *)
(***************************************************************************)
\* The loop of Words over the first n words of a text
Scan(text, n, f) ==
  f = [i \in 0..n |-> IF i = 0 THEN <<>>
                      ELSE IF text[i] = <<>> THEN f[i - 1] ELSE Append(f[i - 1], text[i])]

\* The same, step by step
LEMMA ScanSteps ==
  ASSUME NEW text, NEW n \in Nat, NEW f
  PROVE  Scan(text, n, f) <=>
           /\ f = [i \in 0..n |-> f[i]]
           /\ f[0] = <<>>
           /\ \A i \in 1..n : f[i] = IF text[i] = <<>> THEN f[i - 1]
                                     ELSE Append(f[i - 1], text[i])
<1>1. ASSUME Scan(text, n, f)
      PROVE  /\ f = [i \in 0..n |-> f[i]]
             /\ f[0] = <<>>
             /\ \A i \in 1..n : f[i] = IF text[i] = <<>> THEN f[i - 1]
                                       ELSE Append(f[i - 1], text[i])
  <2>1. \A i \in 0..n : f[i] = IF i = 0 THEN <<>>
                               ELSE IF text[i] = <<>> THEN f[i - 1]
                               ELSE Append(f[i - 1], text[i])
    BY <1>1 DEF Scan
  <2>2. 0 \in 0..n /\ \A i \in 1..n : i \in 0..n /\ i # 0
    OBVIOUS
  <2>. QED
    BY <1>1, <2>1, <2>2 DEF Scan
<1>2. ASSUME f = [i \in 0..n |-> f[i]], f[0] = <<>>,
             \A i \in 1..n : f[i] = IF text[i] = <<>> THEN f[i - 1]
                                    ELSE Append(f[i - 1], text[i])
      PROVE  Scan(text, n, f)
  <2>1. \A i \in 0..n : i # 0 => i \in 1..n
    OBVIOUS
  <2>2. \A i \in 0..n : f[i] = IF i = 0 THEN <<>>
                               ELSE IF text[i] = <<>> THEN f[i - 1]
                               ELSE Append(f[i - 1], text[i])
    BY <1>2, <2>1
  <2>. QED
    BY <1>2, <2>2 DEF Scan
<1>. QED
  BY <1>1, <1>2

\* The loop has an outcome
LEMMA ScanExists ==
  ASSUME NEW text, NEW n \in Nat
  PROVE  \E f : Scan(text, n, f)
<1>. DEFINE T == {m \in Nat : ~\E f : Scan(text, m, f)}
<1>. SUFFICES ASSUME T # {} PROVE FALSE
  OBVIOUS
<1>1. PICK m \in T : \A k \in T : m <= k
  BY LeastElement
<1>2. CASE m = 0
  <2>. DEFINE g == [i \in 0..0 |-> <<>>]
  <2>1. Scan(text, 0, g)
    BY DEF Scan
  <2>. QED
    BY <1>1, <1>2, <2>1
<1>3. CASE m # 0
  <2>1. m - 1 \in Nat /\ ~(m <= m - 1)
    BY <1>3, <1>1
  <2>2. PICK g : Scan(text, m - 1, g)
    BY <1>1, <2>1
  <2>. DEFINE h == [i \in 0..m |-> IF i # m THEN g[i]
                                   ELSE IF text[m] = <<>> THEN g[m - 1]
                                   ELSE Append(g[m - 1], text[m])]
  <2>3. /\ g[0] = <<>>
        /\ \A i \in 1..m - 1 : g[i] = IF text[i] = <<>> THEN g[i - 1]
                                      ELSE Append(g[i - 1], text[i])
    BY <2>1, <2>2, ScanSteps
  <2>4. /\ 0 \in 0..m /\ m \in 0..m /\ 0 # m
        /\ \A i \in 1..m : i \in 0..m /\ i - 1 \in 0..m /\ i - 1 # m
        /\ \A i \in 1..m : i # m => i \in 1..m - 1
    BY <1>3
  <2>5. h[0] = <<>>
    BY <2>3, <2>4
  <2>6. ASSUME NEW i \in 1..m
        PROVE  h[i] = IF text[i] = <<>> THEN h[i - 1] ELSE Append(h[i - 1], text[i])
    <3>1. h[i - 1] = g[i - 1]
      BY <2>4
    <3>2. i # m => h[i] = g[i]
      BY <2>4
    <3>3. i = m => h[i] = IF text[m] = <<>> THEN g[m - 1] ELSE Append(g[m - 1], text[m])
      BY <2>4
    <3>. HIDE DEF h
    <3>. QED
      BY <2>3, <2>4, <3>1, <3>2, <3>3
  <2>7. h = [i \in 0..m |-> h[i]]
    OBVIOUS
  <2>8. Scan(text, m, h)
    <3>. HIDE DEF h
    <3>. QED
      BY <2>5, <2>6, <2>7, ScanSteps
  <2>. QED
    BY <1>1, <2>8
<1>. QED
  BY <1>2, <1>3

\* Words is where the loop ends
LEMMA WordsScan ==
  ASSUME NEW text \in Texts
  PROVE  \E f : Scan(text, Len(text), f) /\ Words(text) = f[Len(text)]
<1>. DEFINE f == CHOOSE g : Scan(text, Len(text), g)
<1>1. Len(text) \in Nat
  BY LenProperties DEF Texts
<1>2. Scan(text, Len(text), f)
  BY <1>1, ScanExists
<1>3. Words(text) = f[Len(text)]
  BY DEF Words, Scan
<1>. QED
  BY <1>2, <1>3

\* The words of a text are words
LEMMA WordsType ==
  ASSUME NEW text \in Texts
  PROVE  Words(text) \in Texts
<1>. DEFINE W == Seq(STRING)
<1>0. Texts = Seq(W)
  BY DEF Texts
<1>. HIDE DEF W
<1>1. Len(text) \in Nat /\ \A i \in 1..Len(text) : text[i] \in W
  BY <1>0, LenProperties, ElementOfSeq
<1>2. PICK f : Scan(text, Len(text), f) /\ Words(text) = f[Len(text)]
  BY WordsScan
<1>3. /\ f[0] = <<>>
      /\ \A i \in 1..Len(text) : f[i] = IF text[i] = <<>> THEN f[i - 1]
                                        ELSE Append(f[i - 1], text[i])
  BY ZenonT(60), <1>1, <1>2, ScanSteps
<1>. DEFINE T == {m \in 0..Len(text) : f[m] \notin Seq(W)}
<1>4. ASSUME T # {} PROVE FALSE
  <2>1. T \in SUBSET Nat
    BY <1>1
  <2>2. PICK m \in T : \A k \in T : m <= k
    BY <2>1, <1>4, LeastElement
  <2>3. m # 0
    BY <1>3, <2>2, EmptySeq
  <2>4. m \in 1..Len(text) /\ m - 1 \in 0..Len(text) /\ ~(m <= m - 1)
    BY <1>1, <2>2, <2>3
  <2>5. f[m - 1] \in Seq(W)
    BY <2>2, <2>4
  <2>6. f[m] = f[m - 1] \/ f[m] = Append(f[m - 1], text[m])
    BY <1>3, <2>4
  <2>7. Append(f[m - 1], text[m]) \in Seq(W)
    BY <1>1, <2>4, <2>5, AppendIndices
  <2>. QED
    BY <2>2, <2>5, <2>6, <2>7
<1>. QED
  BY <1>0, <1>1, <1>2, <1>4

\* Where there is nothing but spaces there are no words
LEMMA WordsOfNothing == Words(<<>>) = <<>> /\ Words(NoText) = <<>>
<1>1. <<>> \in Texts /\ Len(<<>>) = 0
  BY DEF Texts
<1>2. NoText \in Texts /\ Len(NoText) = 1 /\ NoText[1] = <<>>
  BY DEF Texts, NoText
<1>3. PICK f : Scan(<<>>, 0, f) /\ Words(<<>>) = f[0]
  BY <1>1, WordsScan
<1>4. \E n \in Nat : n = 1
  OBVIOUS
<1>5. PICK n \in Nat : n = 1
  BY <1>4
<1>6. PICK g : Scan(NoText, n, g) /\ Words(NoText) = g[n]
  BY <1>2, <1>5, WordsScan
<1>7. f[0] = <<>>
  BY <1>3, ScanSteps
<1>8. /\ g[0] = <<>>
      /\ \A i \in 1..n : g[i] = IF NoText[i] = <<>> THEN g[i - 1]
                                ELSE Append(g[i - 1], NoText[i])
  BY <1>6, ScanSteps
<1>9. g[1] = g[0]
  BY <1>2, <1>5, <1>8
<1>. QED
  BY <1>3, <1>5, <1>6, <1>7, <1>8, <1>9

\* A text that does not begin with a space begins with its first word
LEMMA WordsFirst ==
  ASSUME NEW text \in Texts, text # <<>>, text[1] # <<>>
  PROVE  /\ Len(Words(text)) = 1 + Len(Words(Tail(text)))
         /\ Words(text)[1] = text[1]
<1>. DEFINE rest == Tail(text)
            n == Len(rest)
<1>1. /\ rest \in Texts /\ n \in Nat /\ Len(text) = n + 1
      /\ \A i \in 1..n : rest[i] = text[i + 1]
      /\ Words(rest) \in Texts /\ Words(text) \in Texts
  <2>1. \E S : text \in Seq(S) /\ Texts = Seq(S)
    BY DEF Texts
  <2>2. PICK S : text \in Seq(S) /\ Texts = Seq(S)
    BY <2>1
  <2>3. /\ Len(text) \in Nat \ {0} /\ rest \in Seq(S) /\ n = Len(text) - 1
        /\ \A i \in 1..(Len(text) - 1) : rest[i] = text[i + 1]
    BY <2>2, TailIndices
  <2>. HIDE DEF rest, n
  <2>. QED
    BY <2>2, <2>3, WordsType
<1>. HIDE DEF rest, n
<1>2. PICK f : Scan(text, n + 1, f) /\ Words(text) = f[n + 1]
  BY <1>1, WordsScan
<1>3. PICK g : Scan(rest, n, g) /\ Words(rest) = g[n]
  BY <1>1, WordsScan DEF n
<1>4. /\ f[0] = <<>>
      /\ \A i \in 1..n + 1 : f[i] = IF text[i] = <<>> THEN f[i - 1]
                                    ELSE Append(f[i - 1], text[i])
  BY <1>1, <1>2, ScanSteps
<1>5. /\ g[0] = <<>>
      /\ \A i \in 1..n : g[i] = IF rest[i] = <<>> THEN g[i - 1]
                                ELSE Append(g[i - 1], rest[i])
  <2>1. n \in Nat
    BY <1>1
  <2>. QED
    BY <2>1, <1>3, ScanSteps
<1>. DEFINE W == Seq(STRING)
            P(i) == /\ f[i + 1] \in Seq(W) /\ g[i] \in Seq(W)
                    /\ Len(f[i + 1]) = 1 + Len(g[i]) /\ f[i + 1][1] = text[1]
            T == {m \in 0..n : ~P(m)}
<1>6. \A i \in 1..n + 1 : text[i] \in W
  BY <1>1, ElementOfSeq DEF Texts
<1>7. P(0)
  <2>1. 1 \in 1..n + 1 /\ 0 + 1 = 1 /\ 1 - 1 = 0
    BY <1>1
  <2>2. f[1] = Append(<<>>, text[1]) /\ text[1] \in W
    BY <1>4, <1>6, <2>1
  <2>. HIDE DEF W
  <2>3. f[1] \in Seq(W) /\ Len(f[1]) = 1 /\ f[1][1] = text[1]
    BY <2>2
  <2>. QED
    BY <1>5, <2>1, <2>3
<1>8. ASSUME T # {} PROVE FALSE
  <2>. HIDE DEF P
  <2>1. T \in SUBSET Nat
    BY <1>1
  <2>2. PICK m \in T : \A k \in T : m <= k
    BY <2>1, <1>8, LeastElement
  <2>3. m \in 1..n /\ m - 1 \in 0..n /\ ~(m <= m - 1)
    BY <1>1, <1>7, <2>2
  <2>4. P(m - 1)
    BY <2>2, <2>3
  <2>. DEFINE a == f[m]
              b == g[m - 1]
  <2>5. /\ m + 1 \in 1..n + 1 /\ (m - 1) + 1 = m /\ (m + 1) - 1 = m /\ m + 1 # 1
        /\ rest[m] = text[m + 1] /\ text[m + 1] \in W
    BY <1>1, <1>6, <2>3
  <2>6. /\ a \in Seq(W) /\ b \in Seq(W) /\ Len(a) = 1 + Len(b) /\ a[1] = text[1]
    BY <2>4, <2>5 DEF P
  <2>7. \/ f[m + 1] = a /\ g[m] = b
        \/ f[m + 1] = Append(a, text[m + 1]) /\ g[m] = Append(b, text[m + 1])
    BY <1>4, <1>5, <2>3, <2>5
  <2>. HIDE DEF W, a, b
  <2>8. Len(a) \in Nat /\ Len(b) \in Nat /\ 1 \in 1..Len(a)
    BY <2>6
  <2>9. P(m)
    <3>1. CASE f[m + 1] = a /\ g[m] = b
      BY <3>1, <2>6 DEF P
    <3>2. CASE f[m + 1] = Append(a, text[m + 1]) /\ g[m] = Append(b, text[m + 1])
      <4>1. /\ Append(a, text[m + 1]) \in Seq(W) /\ Append(b, text[m + 1]) \in Seq(W)
            /\ Len(Append(a, text[m + 1])) = Len(a) + 1
            /\ Len(Append(b, text[m + 1])) = Len(b) + 1
            /\ Append(a, text[m + 1])[1] = a[1]
        BY <2>5, <2>6, <2>8, AppendProperties
      <4>. QED
        BY <3>2, <4>1, <2>6, <2>8 DEF P
    <3>. QED
      BY <2>7, <3>1, <3>2
  <2>. QED
    BY <2>2, <2>9
<1>9. P(n)
  <2>. HIDE DEF P
  <2>. QED
    BY <1>1, <1>8
<1>. QED
  BY <1>2, <1>3, <1>9 DEF rest

\* Behind a text that was read completely, the next one is on its own
LEMMA JoinNothing ==
  ASSUME NEW t \in Texts, t # <<>>
  PROVE  Join(NoText, t) = t
<1>. DEFINE W == Seq(STRING)
<1>1. Texts = Seq(W) /\ <<>> \in W
  BY DEF Texts
<1>. HIDE DEF W
<1>2. /\ Len(t) \in Nat \ {0} /\ Head(t) = t[1] /\ t[1] \in W /\ Tail(t) \in Seq(W)
      /\ Len(Tail(t)) = Len(t) - 1
      /\ \A i \in 1..(Len(t) - 1) : Tail(t)[i] = t[i + 1]
  BY <1>1, TailIndices
<1>3. NoText \in Seq(W) /\ Len(NoText) = 1 /\ NoText[1] = <<>>
  BY <1>1 DEF NoText
<1>4. SubSeq(NoText, 1, 1 - 1) = <<>>
  BY <1>3, SubSeqEmpty
<1>5. <<>> \o t[1] = t[1]
  <2>1. \E S : t[1] \in Seq(S)
    BY <1>2 DEF W
  <2>. QED
    BY <2>1, ConcatEmptySeq
<1>6. Join(NoText, t) = <<>> \o <<t[1]>> \o Tail(t)
  BY <1>3, <1>4, <1>5 DEF Join
<1>7. <<t[1]>> \in Seq(W) /\ <<>> \o <<t[1]>> = <<t[1]>>
  BY <1>2, ConcatEmptySeq
<1>8. <<t[1]>> \o Tail(t) = t
  <2>1. <<>> \in Seq(W) /\ t \in Seq(W) /\ Append(<<>>, Head(t)) = <<t[1]>>
    BY <1>1, <1>2
  <2>2. Append(<<>>, Head(t)) \o Tail(t) = <<>> \o t
    BY <2>1, ConcatShift, Zenon
  <2>3. <<>> \o t = t
    BY <2>1, ConcatEmptySeq
  <2>. QED
    BY <2>1, <2>2, <2>3, Zenon
<1>. QED
  BY <1>6, <1>7, <1>8

\* One text behind another is a text
LEMMA JoinType ==
  ASSUME NEW s \in Texts, s # <<>>, NEW t \in Texts, t # <<>>
  PROVE  Join(s, t) \in Texts /\ Join(s, t) # <<>>
<1>. DEFINE W == Seq(STRING)
<1>1. Texts = Seq(W)
  BY DEF Texts
<1>2. \A u, v \in W : u \o v \in W
  BY ConcatProperties
<1>. HIDE DEF W
<1>3. /\ Len(s) \in Nat \ {0} /\ s[Len(s)] \in W /\ t[1] \in W /\ Tail(t) \in Seq(W)
  BY <1>1, TailIndices, ElementOfSeq
<1>4. SubSeq(s, 1, Len(s) - 1) \in Seq(W)
  BY <1>1, <1>3, SubSeqProperties
<1>. DEFINE a == SubSeq(s, 1, Len(s) - 1)
            b == <<s[Len(s)] \o t[1]>>
            c == Tail(t)
<1>5. b \in Seq(W) /\ Len(b) = 1
  BY <1>2, <1>3
<1>6. Join(s, t) = a \o b \o c
  BY DEF Join
<1>7. a \in Seq(W) /\ c \in Seq(W)
  BY <1>3, <1>4
<1>. HIDE DEF a, b, c
<1>8. a \o b \in Seq(W) /\ Len(a \o b) = Len(a) + Len(b) /\ Len(a) \in Nat
  BY <1>5, <1>7, ConcatIndices, Zenon
<1>. DEFINE d == a \o b
<1>9. d \in Seq(W)
  BY <1>8
<1>. HIDE DEF d
<1>10. d \o c \in Seq(W) /\ Len(d \o c) = Len(d) + Len(c) /\ Len(c) \in Nat
  BY <1>7, <1>9, ConcatIndices, Zenon
<1>11. Join(s, t) = d \o c /\ Len(d) = Len(a) + 1
  BY <1>5, <1>6, <1>8 DEF d
<1>12. Len(d \o c) # 0
  BY <1>8, <1>10, <1>11
<1>. QED
  BY <1>1, <1>10, <1>11, <1>12, EmptySeq

\* Both parts of a text that is cut are texts
LEMMA CutType ==
  ASSUME NEW t \in Texts, NEW p \in Cuts(t)
  PROVE  /\ p[1] \in Texts /\ p[1] # <<>>
         /\ p[2] \in Texts /\ p[2] # <<>>
<1>. DEFINE W == Seq(STRING)
<1>1. Texts = Seq(W)
  BY DEF Texts
<1>2. Len(t) \in Nat /\ DOMAIN t = 1..Len(t) /\ \A i \in DOMAIN t : t[i] \in W
  BY <1>1, LenProperties, ElementOfSeq
<1>3. \E i \in DOMAIN t : \E k \in {Len(t[i])} \cup InNumber(t[i]) : p = CutAt(t, i, k)
  BY DEF Cuts
<1>4. PICK i \in DOMAIN t : \E k \in {Len(t[i])} \cup InNumber(t[i]) : p = CutAt(t, i, k)
  BY <1>3
<1>5. PICK k \in {Len(t[i])} \cup InNumber(t[i]) : p = CutAt(t, i, k)
  BY <1>4
<1>. DEFINE w == t[i]
<1>6. w \in W /\ Len(w) \in Nat
  BY <1>2, LenProperties
<1>7. k \in 0..Len(w)
  BY <1>6 DEF InNumber
<1>8. SubSeq(w, 1, k) \in W /\ SubSeq(w, k + 1, Len(w)) \in W
  BY <1>6, <1>7, SubSeqProperties
<1>. DEFINE a == SubSeq(t, 1, i - 1)
            b == SubSeq(t, i + 1, Len(t))
            u == SubSeq(w, 1, k)
            v == SubSeq(w, k + 1, Len(w))
<1>. HIDE DEF W
<1>9. a \in Seq(W) /\ b \in Seq(W)
  BY <1>1, <1>2, <1>4, SubSeqProperties
<1>10. p[1] = Append(a, u) /\ p[2] = <<v>> \o b
  BY <1>5 DEF CutAt
<1>11. u \in W /\ v \in W
  BY <1>8
<1>. HIDE DEF a, b, u, v, w
<1>12. p[1] \in Seq(W) /\ p[1] # <<>>
  BY <1>9, <1>10, <1>11, AppendIndices
<1>. DEFINE x == <<v>>
<1>13. x \in Seq(W) /\ Len(x) = 1
  BY <1>11
<1>. HIDE DEF x
<1>14. x \o b \in Seq(W) /\ Len(x \o b) = Len(x) + Len(b) /\ Len(b) \in Nat
  BY <1>9, <1>13, ConcatIndices, Zenon
<1>15. Len(x \o b) # 0
  BY <1>13, <1>14
<1>16. p[2] \in Seq(W) /\ p[2] # <<>>
  BY <1>10, <1>14, <1>15, EmptySeq DEF x
<1>. QED
  BY <1>1, <1>12, <1>16

\* A recv returns a text, and leaves one
LEMMA PiecesType ==
  ASSUME NEW t \in Texts, t # <<>>, NEW p \in Pieces(t)
  PROVE  /\ p[1] \in Texts /\ p[1] # <<>>
         /\ p[2] \in Texts /\ p[2] # <<>>
<1>1. NoText \in Texts /\ NoText # <<>>
  BY DEF NoText, Texts
<1>2. p = <<t, NoText>> \/ p \in Cuts(t)
  BY DEF Pieces
<1>. QED
  BY <1>1, <1>2, CutType

\* The least element of a set of positions is one of them
LEMMA MinProperties ==
  ASSUME NEW S \in SUBSET Nat, S # {}
  PROVE  Min(S) \in S /\ \A i \in S : Min(S) <= i
<1>1. \E x \in S : \A y \in S : x <= y
  BY LeastElement
<1>. QED
  BY <1>1 DEF Min

\* What atoi returns is a number
LEMMA AtoiType ==
  ASSUME NEW s \in Seq(STRING)
  PROVE  Atoi(s) \in Nat
<1>. DEFINE ends == {k \in DOMAIN s : SubSeq(s, 1, k) \in DOMAIN Number}
<1>1. Len(s) \in Nat /\ DOMAIN s = 1..Len(s)
  BY LenProperties
<1>2. CASE ends = {}
  BY <1>2 DEF Atoi
<1>3. CASE ends # {}
  <2>1. ends \in SUBSET Nat /\ \A x \in ends : x <= Len(s)
    BY <1>1
  <2>2. \E x \in ends : \A y \in ends : x >= y
    BY <1>1, <1>3, <2>1, GreatestElement
  <2>3. Max(ends) \in ends
    BY <2>2 DEF Max
  <2>4. Atoi(s) = Number[SubSeq(s, 1, Max(ends))]
    BY <1>3 DEF Atoi
  <2>. QED
    BY <2>3, <2>4, ConsoleAssumption
<1>. QED
  BY <1>2, <1>3

\* parse_directory_spec returns a directory of a client ...
LEMMA ParseType ==
  ASSUME NEW w \in Seq(STRING)
  PROVE  parse_directory_spec(w) \in Specs
<1>1. Len(w) \in Nat /\ DOMAIN w = 1..Len(w)
  BY LenProperties
<1>2. NoSpec \in Specs
  BY DEF NoSpec, Specs
<1>3. ASSUME NEW a \in 1..Len(w), NEW c \in 1..Len(w)
      PROVE  SpecAt(w, a, c) \in Specs
  <2>1. /\ SubSeq(w, 1, a - 1) \in Seq(STRING) /\ SubSeq(w, a + 1, c - 1) \in Seq(STRING)
        /\ SubSeq(w, c + 1, Len(w)) \in Seq(STRING)
    BY <1>1, SubSeqProperties
  <2>2. Atoi(SubSeq(w, c + 1, Len(w))) \in Nat
    BY <2>1, AtoiType
  <2>. QED
    BY <1>2, <2>1, <2>2 DEF SpecAt, Specs
<1>. DEFINE ats == {i \in DOMAIN w : w[i] = "@"}
            colons == {i \in DOMAIN w : w[i] = ":" /\ i > Min(ats)}
<1>4. CASE ats = {} \/ colons = {}
  BY <1>2, <1>4 DEF parse_directory_spec
<1>5. CASE ats # {} /\ colons # {}
  <2>1. ats \in SUBSET Nat /\ colons \in SUBSET Nat
    BY <1>1
  <2>2. Min(ats) \in ats /\ Min(colons) \in colons
    BY <1>5, <2>1, MinProperties
  <2>3. parse_directory_spec(w) = SpecAt(w, Min(ats), Min(colons))
    BY <1>5 DEF parse_directory_spec
  <2>. QED
    BY <1>1, <1>3, <2>2, <2>3
<1>. QED
  BY <1>4, <1>5

\* ... the one that the text denotes, if it denotes one
LEMMA ParseDenotes ==
  ASSUME NEW w \in Seq(STRING), parse_directory_spec(w) # NoSpec
  PROVE  Denotes(w, parse_directory_spec(w))
<1>1. Len(w) \in Nat /\ DOMAIN w = 1..Len(w)
  BY LenProperties
<1>. DEFINE ats == {i \in DOMAIN w : w[i] = "@"}
            colons == {i \in DOMAIN w : w[i] = ":" /\ i > Min(ats)}
            a == Min(ats)
            c == Min(colons)
            s == parse_directory_spec(w)
<1>2. ats # {} /\ colons # {}
  BY DEF parse_directory_spec
<1>3. ats \in SUBSET Nat /\ colons \in SUBSET Nat
  BY <1>1
<1>4. /\ a \in ats /\ \A i \in ats : a <= i
      /\ c \in colons /\ \A i \in colons : c <= i
  BY <1>2, <1>3, MinProperties
<1>5. s = SpecAt(w, a, c)
  BY <1>2 DEF parse_directory_spec
<1>6. /\ a \in 1..Len(w) /\ w[a] = "@" /\ \A i \in 1..Len(w) : w[i] = "@" => a <= i
      /\ c \in 1..Len(w) /\ w[c] = ":" /\ c > a
      /\ \A i \in 1..Len(w) : w[i] = ":" /\ i > a => c <= i
  BY <1>1, <1>4
<1>. HIDE DEF a, c, s
<1>7. /\ s.dir = SubSeq(w, 1, a - 1) /\ s.host = SubSeq(w, a + 1, c - 1)
      /\ s.port = Atoi(SubSeq(w, c + 1, Len(w))) /\ s.port # 0
  <2>1. s # NoSpec
    BY DEF s
  <2>. DEFINE port == Atoi(SubSeq(w, c + 1, Len(w)))
  <2>2. s = IF port = 0 THEN NoSpec
            ELSE [dir |-> SubSeq(w, 1, a - 1), host |-> SubSeq(w, a + 1, c - 1),
                  port |-> port]
    BY <1>5 DEF SpecAt
  <2>3. port # 0
    BY <2>1, <2>2
  <2>. QED
    BY <2>2, <2>3
<1>8. s.port \in Nat
  <2>1. SubSeq(w, c + 1, Len(w)) \in Seq(STRING)
    BY <1>1, <1>6, SubSeqProperties
  <2>. QED
    BY <1>7, <2>1, AtoiType
<1>9. /\ Len(s.dir) = a - 1 /\ DOMAIN s.dir = 1..(a - 1)
      /\ \A n \in 1..(a - 1) : s.dir[n] = w[1 + n - 1]
  <2>1. 1 \in 1..(Len(w) + 1) /\ a - 1 \in 0..Len(w)
    BY <1>1, <1>6
  <2>. QED
    BY <1>6, <1>7, <2>1, SubSeqProperties
<1>10. /\ DOMAIN s.host = 1..((c - 1) - (a + 1) + 1)
       /\ \A n \in 1..((c - 1) - (a + 1) + 1) : s.host[n] = w[(a + 1) + n - 1]
  BY <1>1, <1>6, <1>7, SubSeqProperties
<1>11. ASSUME NEW n \in DOMAIN s.dir PROVE s.dir[n] # "@"
  <2>1. n \in 1..(a - 1) /\ 1 + n - 1 = n /\ n \in 1..Len(w) /\ ~(a <= n)
    BY <1>1, <1>6, <1>9
  <2>2. s.dir[n] = w[n]
    BY <1>9, <2>1
  <2>. QED
    BY <1>6, <2>1, <2>2
<1>12. ASSUME NEW n \in DOMAIN s.host PROVE s.host[n] # ":"
  <2>. DEFINE m == (a + 1) + n - 1
  <2>1. n \in 1..((c - 1) - (a + 1) + 1) /\ m \in 1..Len(w) /\ m > a /\ ~(c <= m)
    BY <1>1, <1>6, <1>10
  <2>2. s.host[n] = w[m]
    BY <1>10, <2>1
  <2>. HIDE DEF m
  <2>. QED
    BY <1>6, <2>1, <2>2
<1>13. a < c /\ s.port > 0 /\ a \in DOMAIN w /\ c \in DOMAIN w
  BY <1>1, <1>6, <1>7, <1>8
<1>. QED
  BY <1>6, <1>7, <1>11, <1>12, <1>13 DEF Denotes, s
-----------------------------------------------------------------------------
(***************************************************************************)
(* The inductive invariant.                                                *)
(***************************************************************************)
(***************************************************************************)
(* The two ends of a connection: a console's end is open while it runs,    *)
(* the manager's while the connection is served or waits to be accepted.   *)
(***************************************************************************)
Links ==
  /\ \A c \in Consoles :
       /\ cend[c] = "open" <=> cpc[c] \in {"prompt", "waiting"}
       /\ mend[c] = "open" <=> c = serving \/ c \in Range(backlog)
       /\ cpc[c] = "start" => /\ said[c] = <<>> /\ heard[c] = <<>> /\ up[c] = NoText
                              /\ down[c] = <<>> /\ mend[c] = "none"
       /\ Len(heard[c]) <= Len(said[c])
  /\ mpc # "send" => response = <<>>

\* What process_user_command lets through is what the manager understands
Command(l) ==
  /\ l \in Texts \ {<<>>} /\ Len(Words(l)) >= 1
  /\ \/ Words(l)[1] = <<"add">> /\ Len(Words(l)) >= 3
     \/ Words(l)[1] \in {<<"cancel">>, <<"shutdown">>}

Commands == \A c \in Consoles : \A i \in DOMAIN said[c] : Command(said[c][i])

\* The command of a console waits to be read, is being answered, was answered
Asked(c) == mend[c] = "open" /\ up[c] # NoText
Answering(c) == serving = c /\ mpc = "send"

LastSaid(c) == said[c][Len(said[c])]

\* One answer, to the last command of the console
AnswerTo(c, answers) == Len(answers) = 1 /\ Fits(answers[1], LastSaid(c))

(***************************************************************************)
(* A command is in one place at a time, and the next one is not sent       *)
(* before; an end that was reset is not written to again.                  *)
(***************************************************************************)
Dialogue ==
  \A c \in Consoles \ Disturbed :
    /\ cpc[c] = "prompt" => ~Asked(c) /\ ~Answering(c) /\ down[c] = <<>>
    /\ Asked(c) => /\ up[c] = LastSaid(c) /\ said[c] # <<>> /\ down[c] = <<>>
                   /\ ~Answering(c) /\ cend[c] # "rst"
    /\ Answering(c) => /\ AnswerTo(c, response) /\ down[c] = <<>> /\ cend[c] # "rst"
                       /\ said[c] # <<>>
    /\ down[c] # <<>> => AnswerTo(c, down[c]) /\ said[c] # <<>>

\* The source is what tells the entries of the store apart
OnePerSource == \A e, f \in store : e.source = f.source => e = f

\* An answer of the manager to command i of console c, heard or under way
Given(c, i, text) ==
  \/ Told(c, i, text)
  \/ /\ i = Len(said[c]) /\ i \notin DOMAIN heard[c]
     /\ \/ \E k \in DOMAIN down[c] : down[c][k].text = text
        \/ Answering(c) /\ \E k \in DOMAIN response : response[k].text = text

\* The entry that an answer is about
Backed(l, text) ==
  \E e \in store :
    /\ e.source = parse_directory_spec(Words(l)[2]) /\ Denotes(Words(l)[2], e.source)
    /\ text = "stopped" => ~e.active
    /\ text = "added" => Denotes(Words(l)[3], e.target)

Truth ==
  \A c \in Consoles \ Disturbed : \A i \in DOMAIN said[c] :
    \A text \in {"added", "exists", "stopped"} :
      Given(c, i, text) => Backed(said[c][i], text)

SourceOf(c, i) == parse_directory_spec(Words(said[c][i])[2])

\* A source is reported as added once
AddedOnce ==
  \A c, d \in Consoles \ Disturbed : \A i \in DOMAIN said[c], k \in DOMAIN said[d] :
    /\ Given(c, i, "added") /\ Given(d, k, "added") /\ SourceOf(c, i) = SourceOf(d, k)
    => c = d /\ i = k

IInv ==
  /\ TypeOK
  /\ Links
  /\ Commands
  /\ Dialogue
  /\ AnswersInStep
  /\ ManagerSurvives
  /\ OnePerSource
  /\ EntriesAsTyped
  /\ Truth
  /\ AddedOnce

USE DEF Disturbed
-----------------------------------------------------------------------------
(***************************************************************************)
(* The handlers of the manager.                                            *)
(***************************************************************************)
\* What a console sends is a command
LEMMA FullCommand ==
  ASSUME NEW c \in Consoles, NEW l \in Lines[c], ~StaysLocal(l)
  PROVE  Command(full_command(l))
<1>. DEFINE W == Seq(STRING)
<1>1. Texts = Seq(W) /\ l \in Seq(W) /\ l # <<>>
  BY ConsoleAssumption DEF Texts
<1>2. process_user_command(l)
  BY DEF StaysLocal
<1>3. <<"add">> # <<>> /\ <<"cancel">> # <<>> /\ <<"shutdown">> # <<>>
  OBVIOUS
<1>4. l[1] # <<>>
  BY <1>2, <1>3 DEF process_user_command
<1>5. Tail(l) \in Texts /\ l[1] \in W
  BY <1>1, TailIndices
<1>6. Len(Words(l)) = 1 + Len(Words(Tail(l))) /\ Words(l)[1] = l[1]
  BY <1>1, <1>4, WordsFirst
<1>7. Len(Words(Tail(l))) \in Nat
  BY <1>5, WordsType, LenProperties DEF Texts
<1>8. CASE l[1] = <<"add">> /\ Len(Words(Tail(l))) >= 2
  <2>1. ASSUME Tail(l) \in {<<>>, NoText} PROVE FALSE
    <3>1. Words(Tail(l)) = <<>>
      BY <2>1, WordsOfNothing, Zenon
    <3>2. Len(Words(Tail(l))) = 0
      BY <3>1
    <3>. QED
      BY <1>8, <3>2
  <2>2. HasArgs(l)
    BY <2>1 DEF HasArgs
  <2>. QED
    BY <1>1, <1>6, <1>7, <1>8, <2>2 DEF full_command, Command
<1>9. CASE l[1] = <<"cancel">> /\ HasArgs(l)
  <2>1. full_command(l) = l
    BY <1>9 DEF full_command
  <2>2. Len(Words(l)) >= 1 /\ Words(l)[1] = <<"cancel">>
    BY <1>6, <1>7, <1>9
  <2>. QED
    BY <1>1, <2>1, <2>2, Zenon DEF Command
<1>10. CASE l[1] = <<"shutdown">>
  <2>1. CASE HasArgs(l)
    <3>1. full_command(l) = l
      BY <2>1 DEF full_command
    <3>2. Len(Words(l)) >= 1 /\ Words(l)[1] = <<"shutdown">>
      BY <1>6, <1>7, <1>10
    <3>. QED
      BY <1>1, <3>1, <3>2, Zenon DEF Command
  <2>2. CASE ~HasArgs(l)
    <3>. DEFINE t == <<l[1]>>
    <3>1. t \in Texts /\ t # <<>> /\ t[1] = l[1] /\ Tail(t) = <<>>
      BY <1>1, <1>5
    <3>2. full_command(l) = t
      BY <2>2 DEF full_command
    <3>. HIDE DEF t
    <3>3. Len(Words(t)) = 1 + Len(Words(Tail(t))) /\ Words(t)[1] = t[1]
      BY <1>4, <3>1, WordsFirst
    <3>4. Words(Tail(t)) = <<>>
      BY <3>1, WordsOfNothing, Zenon
    <3>5. Len(Words(Tail(t))) = 0
      BY <3>4
    <3>. QED
      BY <1>10, <3>1, <3>2, <3>3, <3>5 DEF Command
  <2>. QED
    BY <2>1, <2>2
<1>. QED
  BY <1>2, <1>8, <1>9, <1>10 DEF process_user_command

\* What the manager does with a text
AddRefused(ws) ==
  /\ \/ parse_directory_spec(ws[2]) = NoSpec
     \/ parse_directory_spec(ws[3]) = NoSpec
  /\ response' = <<Answer("add error", <<>>)>> /\ store' = store

AddKnown(ws) ==
  /\ parse_directory_spec(ws[2]) # NoSpec /\ Found(parse_directory_spec(ws[2]))
  /\ response' = <<Answer("exists", <<ws[2]>>)>> /\ store' = store

AddNew(ws) ==
  /\ parse_directory_spec(ws[2]) # NoSpec /\ parse_directory_spec(ws[3]) # NoSpec
  /\ ~Found(parse_directory_spec(ws[2]))
  /\ store' = store \cup {[source |-> parse_directory_spec(ws[2]),
                           target |-> parse_directory_spec(ws[3]), active |-> TRUE]}
  /\ \E text \in {"added", "add error"} : response' = <<Answer(text, <<>>)>>

CancelUnknown(ws) ==
  /\ response' = <<Answer("cancel error", <<>>)>>
     \/ response' = <<Answer("not synchronized", <<ws[2]>>)>>
  /\ store' = store

CancelKnown(ws) ==
  /\ parse_directory_spec(ws[2]) # NoSpec /\ Found(parse_directory_spec(ws[2]))
  /\ response' = <<Answer("stopped", <<ws[2]>>)>>
  /\ store' = {IF e.source = parse_directory_spec(ws[2]) THEN [e EXCEPT !.active = FALSE]
               ELSE e : e \in store}

\* The cases of handle_console_connection
LEMMA ObeyCases ==
  ASSUME TypeOK, NEW text \in Texts, Obey(text)
  PROVE  LET ws == Words(text) IN
         /\ ws \in Texts /\ (stop' = stop \/ stop' = TRUE)
         /\ \/ /\ Len(ws) >= 3 /\ ws[1] = <<"add">>
               /\ AddRefused(ws) \/ AddKnown(ws) \/ AddNew(ws)
            \/ /\ Len(ws) = 2 /\ ws[1] = <<"cancel">>
               /\ CancelUnknown(ws) \/ CancelKnown(ws)
            \/ /\ Len(ws) >= 1 /\ ws[1] = <<"shutdown">>
               /\ response' = <<Answer("bye", <<>>)>> /\ store' = store
            \/ /\ ~(Len(ws) >= 3 /\ ws[1] = <<"add">>) /\ ~(Len(ws) = 2 /\ ws[1] = <<"cancel">>)
               /\ ~(Len(ws) >= 1 /\ ws[1] = <<"shutdown">>)
               /\ response' = <<Answer("invalid", text)>> /\ store' = store
<1>. DEFINE ws == Words(text)
            cmd == IF ws = <<>> THEN <<>> ELSE ws[1]
<1>1. ws \in Texts
  BY WordsType
<1>2. Len(ws) \in Nat /\ (ws = <<>> <=> Len(ws) = 0)
  BY <1>1, LenProperties, EmptySeq DEF Texts
<1>. HIDE DEF ws
<1>3. /\ <<"add">> # <<>> /\ <<"cancel">> # <<>> /\ <<"shutdown">> # <<>>
      /\ <<"add">> # <<"cancel">> /\ <<"add">> # <<"shutdown">> /\ <<"cancel">> # <<"shutdown">>
  OBVIOUS
<1>4. /\ cmd = <<"add">> /\ Len(ws) >= 3 <=> Len(ws) >= 3 /\ ws[1] = <<"add">>
      /\ cmd = <<"cancel">> /\ Len(ws) = 2 <=> Len(ws) = 2 /\ ws[1] = <<"cancel">>
      /\ cmd = <<"shutdown">> <=> Len(ws) >= 1 /\ ws[1] = <<"shutdown">>
  <2>1. CASE ws = <<>>
    <3>1. Len(ws) = 0 /\ cmd = <<>>
      BY <1>2, <2>1
    <3>. QED
      BY <1>3, <3>1
  <2>2. CASE ws # <<>>
    <3>1. Len(ws) >= 1 /\ cmd = ws[1]
      BY <1>2, <2>2
    <3>. QED
      BY <3>1
  <2>. QED
    BY <2>1, <2>2
<1>5. CASE ~(cmd = <<"add">> /\ Len(ws) >= 3) /\ ~(cmd = <<"cancel">> /\ Len(ws) = 2)
           /\ ~(cmd = <<"shutdown">>)
  <2>1. response' = AnswerInvalid(text) /\ UNCHANGED <<store, stop>>
    BY <1>5 DEF Obey, ws
  <2>. QED
    BY <1>1, <1>4, <1>5, <2>1 DEF AnswerInvalid, ws
<1>6. CASE cmd = <<"add">> /\ Len(ws) >= 3
  <2>1. handle_add_command(ws) /\ UNCHANGED stop
    BY <1>3, <1>6 DEF Obey, ws
  <2>2. AddRefused(ws) \/ AddKnown(ws) \/ AddNew(ws)
    BY <2>1 DEF handle_add_command, AddRefused, AddKnown, AddNew
  <2>. QED
    BY <1>1, <1>4, <1>6, <2>1, <2>2 DEF ws
<1>7. CASE cmd = <<"cancel">> /\ Len(ws) = 2
  <2>1. handle_cancel_command(ws) /\ UNCHANGED stop
    BY <1>3, <1>7 DEF Obey, ws
  <2>. DEFINE s == parse_directory_spec(ws[2])
  <2>2. /\ response' =
             <<IF s = NoSpec THEN Answer("cancel error", <<>>)
               ELSE Answer(IF Found(s) THEN "stopped" ELSE "not synchronized", <<ws[2]>>)>>
        /\ store' = {IF s # NoSpec /\ e.source = s THEN [e EXCEPT !.active = FALSE]
                     ELSE e : e \in store}
    BY <2>1 DEF handle_cancel_command, Same
  <2>. HIDE DEF s
  <2>3. CASE s # NoSpec /\ Found(s)
    <3>1. CancelKnown(ws)
      BY <2>2, <2>3 DEF CancelKnown, s
    <3>. QED
      BY <1>1, <1>4, <1>7, <2>1, <3>1 DEF ws
  <2>4. CASE s = NoSpec \/ ~Found(s)
    <3>1. \A e \in store : ~(s # NoSpec /\ e.source = s)
      BY <2>4 DEF Found, Same
    <3>2. store' = store
      BY <2>2, <3>1
    <3>3. CancelUnknown(ws)
      BY <2>2, <2>4, <3>2 DEF CancelUnknown
    <3>. QED
      BY <1>1, <1>4, <1>7, <2>1, <3>3 DEF ws
  <2>. QED
    BY <2>3, <2>4
<1>8. CASE cmd = <<"shutdown">>
  <2>1. stop' = TRUE /\ response' = <<Answer("bye", <<>>)>> /\ UNCHANGED store
    BY <1>3, <1>8 DEF Obey, ws
  <2>. QED
    BY <1>1, <1>4, <1>8, <2>1 DEF ws
<1>. QED
  BY <1>5, <1>6, <1>7, <1>8

\* Sequences of one element
LEMMA OneElement ==
  ASSUME NEW S, NEW x \in S
  PROVE  <<x>> \in Seq(S) /\ Len(<<x>>) = 1 /\ <<x>>[1] = x
OBVIOUS

\* Types, and one answer for each text
LEMMA ObeyType ==
  ASSUME TypeOK, NEW text \in Texts, Obey(text)
  PROVE  /\ response' \in Seq(Answers) /\ Len(response') = 1
         /\ store' \subseteq [source : Specs, target : Specs, active : BOOLEAN]
         /\ stop' \in BOOLEAN
<1>. DEFINE ws == Words(text)
            Entries == [source : Specs, target : Specs, active : BOOLEAN]
<1>1. ws \in Seq(Seq(STRING)) /\ Len(ws) \in Nat /\ text \in Texts
  BY WordsType, LenProperties DEF Texts
<1>. HIDE DEF ws
<1>2. \A i \in 1..Len(ws) : ws[i] \in Seq(STRING)
  BY <1>1, ElementOfSeq
<1>3. Len(ws) >= 2 => ws[2] \in Seq(STRING) /\ <<ws[2]>> \in Texts
  BY <1>1, <1>2 DEF Texts
<1>4. Len(ws) >= 3 => ws[3] \in Seq(STRING)
  BY <1>1, <1>2
<1>5. <<>> \in Texts
  BY DEF Texts
<1>6. ASSUME NEW t \in {"added", "exists", "add error", "stopped", "not synchronized",
                        "cancel error", "bye", "invalid"},
             NEW a \in Texts, response' = <<Answer(t, a)>>
      PROVE  response' \in Seq(Answers) /\ Len(response') = 1
  <2>1. Answer(t, a) \in Answers
    BY DEF Answer, Answers
  <2>. DEFINE x == Answer(t, a)
  <2>2. response' = <<x>> /\ x \in Answers
    BY <1>6, <2>1
  <2>. HIDE DEF x
  <2>3. <<x>> \in Seq(Answers) /\ Len(<<x>>) = 1
    BY <2>2, OneElement, Zenon
  <2>. QED
    BY <2>2, <2>3
<1>7. store \subseteq Entries /\ stop \in BOOLEAN
  BY DEF TypeOK
<1>8. stop' \in BOOLEAN
  BY <1>7, ObeyCases
<1>9. CASE /\ Len(ws) >= 3 /\ ws[1] = <<"add">>
           /\ AddRefused(ws) \/ AddKnown(ws) \/ AddNew(ws)
  <2>1. Len(ws) >= 2
    BY <1>1, <1>9
  <2>2. CASE AddRefused(ws)
    BY <1>5, <1>6, <1>7, <1>8, <2>2 DEF AddRefused
  <2>3. CASE AddKnown(ws)
    BY <1>3, <1>6, <1>7, <1>8, <2>1, <2>3 DEF AddKnown
  <2>4. CASE AddNew(ws)
    <3>1. parse_directory_spec(ws[2]) \in Specs /\ parse_directory_spec(ws[3]) \in Specs
      BY <1>3, <1>4, <1>9, <2>1, ParseType
    <3>. DEFINE new == [source |-> parse_directory_spec(ws[2]),
                        target |-> parse_directory_spec(ws[3]), active |-> TRUE]
    <3>2. new \in Entries
      BY <3>1
    <3>3. store' = store \cup {new}
      BY <2>4 DEF AddNew
    <3>4. store' \subseteq Entries
      <4>. HIDE DEF new
      <4>. QED
        BY <1>7, <3>2, <3>3
    <3>. QED
      BY <1>5, <1>6, <1>8, <2>4, <3>4 DEF AddNew
  <2>. QED
    BY <1>9, <2>2, <2>3, <2>4
<1>10. CASE /\ Len(ws) = 2 /\ ws[1] = <<"cancel">>
            /\ CancelUnknown(ws) \/ CancelKnown(ws)
  <2>1. <<ws[2]>> \in Texts
    BY <1>1, <1>3, <1>10
  <2>2. CASE CancelUnknown(ws)
    BY <1>5, <1>6, <1>7, <1>8, <2>1, <2>2 DEF CancelUnknown
  <2>3. CASE CancelKnown(ws)
    <3>1. store' \subseteq Entries
      BY <1>7, <2>3 DEF CancelKnown
    <3>. QED
      BY <1>6, <1>8, <2>1, <2>3, <3>1 DEF CancelKnown
  <2>. QED
    BY <1>10, <2>2, <2>3
<1>11. CASE /\ Len(ws) >= 1 /\ ws[1] = <<"shutdown">>
            /\ response' = <<Answer("bye", <<>>)>> /\ store' = store
  BY <1>5, <1>6, <1>7, <1>8, <1>11
<1>12. CASE response' = <<Answer("invalid", text)>> /\ store' = store
  BY <1>1, <1>6, <1>7, <1>8, <1>12
<1>. QED
  BY <1>9, <1>10, <1>11, <1>12, ObeyCases DEF ws

\* A command is given an answer that fits
LEMMA ObeyFits ==
  ASSUME TypeOK, NEW text, Command(text), Obey(text)
  PROVE  Len(response') = 1 /\ Fits(response'[1], text)
<1>. DEFINE ws == Words(text)
<1>0. text \in Texts
  BY DEF Command
<1>1. /\ <<"add">> # <<"cancel">> /\ <<"add">> # <<"shutdown">> /\ <<"cancel">> # <<"shutdown">>
  OBVIOUS
<1>2. Len(ws) \in Nat
  BY <1>0, WordsType, LenProperties DEF Texts
<1>3. /\ Len(ws) >= 1
      /\ \/ ws[1] = <<"add">> /\ Len(ws) >= 3
         \/ ws[1] \in {<<"cancel">>, <<"shutdown">>}
  BY DEF Command
<1>4. ASSUME NEW a, response' = <<a>>
      PROVE  Len(response') = 1 /\ response'[1] = a
  BY <1>4
<1>5. CASE /\ Len(ws) >= 3 /\ ws[1] = <<"add">>
           /\ AddRefused(ws) \/ AddKnown(ws) \/ AddNew(ws)
  <2>1. \E a : /\ response' = <<a>>
               /\ \/ a = Answer("exists", <<ws[2]>>)
                  \/ a \in {Answer("added", <<>>), Answer("add error", <<>>)}
    BY <1>5 DEF AddRefused, AddKnown, AddNew
  <2>2. PICK a : /\ response' = <<a>>
                 /\ \/ a = Answer("exists", <<ws[2]>>)
                    \/ a \in {Answer("added", <<>>), Answer("add error", <<>>)}
    BY <2>1
  <2>3. Fits(a, text)
    BY <1>1, <1>5, <2>2 DEF Fits
  <2>. QED
    BY <1>4, <2>2, <2>3
<1>6. CASE /\ Len(ws) = 2 /\ ws[1] = <<"cancel">>
           /\ CancelUnknown(ws) \/ CancelKnown(ws)
  <2>1. \E a : /\ response' = <<a>>
               /\ \/ a \in {Answer("stopped", <<ws[2]>>), Answer("not synchronized", <<ws[2]>>)}
                  \/ a = Answer("cancel error", <<>>)
    BY <1>6 DEF CancelUnknown, CancelKnown
  <2>2. PICK a : /\ response' = <<a>>
                 /\ \/ a \in {Answer("stopped", <<ws[2]>>), Answer("not synchronized", <<ws[2]>>)}
                    \/ a = Answer("cancel error", <<>>)
    BY <2>1
  <2>3. Fits(a, text)
    BY <1>1, <1>6, <2>2 DEF Fits
  <2>. QED
    BY <1>4, <2>2, <2>3
<1>7. CASE /\ Len(ws) >= 1 /\ ws[1] = <<"shutdown">>
           /\ response' = <<Answer("bye", <<>>)>> /\ store' = store
  <2>1. Fits(Answer("bye", <<>>), text)
    BY <1>1, <1>7 DEF Fits
  <2>. QED
    BY <1>4, <1>7, <2>1
<1>8. CASE /\ ~(Len(ws) >= 3 /\ ws[1] = <<"add">>) /\ ~(Len(ws) = 2 /\ ws[1] = <<"cancel">>)
           /\ ~(Len(ws) >= 1 /\ ws[1] = <<"shutdown">>)
           /\ response' = <<Answer("invalid", text)>> /\ store' = store
  <2>1. ws[1] = <<"cancel">> /\ Len(ws) # 2
    BY <1>3, <1>8
  <2>2. Fits(Answer("invalid", text), text)
    BY <1>1, <2>1 DEF Fits
  <2>. QED
    BY <1>4, <1>8, <2>2
<1>. HIDE DEF ws
<1>. QED
  BY <1>0, <1>5, <1>6, <1>7, <1>8, ObeyCases DEF ws

\* The store after a command: entries stay, and a new one is what was typed
LEMMA ObeyStore ==
  ASSUME TypeOK, OnePerSource, NEW text \in Texts, Obey(text)
  PROVE  /\ \A e \in store : \E f \in store' :
              /\ f.source = e.source /\ f.target = e.target
              /\ ~e.active => ~f.active
         /\ \A f \in store' :
              \/ \E e \in store : f.source = e.source /\ f.target = e.target
              \/ LET ws == Words(text)
                 IN ws[1] = <<"add">> /\ Denotes(ws[2], f.source) /\ Denotes(ws[3], f.target)
         /\ OnePerSource'
<1>. DEFINE ws == Words(text)
            s == parse_directory_spec(ws[2])
            t == parse_directory_spec(ws[3])
<1>1. ws \in Seq(Seq(STRING)) /\ Len(ws) \in Nat
  BY WordsType, LenProperties DEF Texts
<1>2. \A i \in 1..Len(ws) : ws[i] \in Seq(STRING)
  BY <1>1, ElementOfSeq
<1>3. CASE store' = store
  BY <1>3 DEF OnePerSource
<1>4. CASE Len(ws) >= 3 /\ ws[1] = <<"add">> /\ AddNew(ws)
  <2>1. ws[2] \in Seq(STRING) /\ ws[3] \in Seq(STRING)
    <3>1. 2 \in 1..Len(ws) /\ 3 \in 1..Len(ws)
      BY <1>1, <1>4
    <3>. QED
      BY <1>2, <3>1
  <2>. DEFINE new == [source |-> s, target |-> t, active |-> TRUE]
  <2>2. /\ s # NoSpec /\ t # NoSpec /\ \A e \in store : e.source # s
        /\ store' = store \cup {new}
    BY <1>4 DEF AddNew, Found, Same
  <2>3. Denotes(ws[2], s) /\ Denotes(ws[3], t)
    BY <2>1, <2>2, ParseDenotes
  <2>4. new.source = s /\ new.target = t
    OBVIOUS
  <2>. HIDE DEF ws, s, t, new
  <2>5. OnePerSource'
    BY <2>2, <2>4 DEF OnePerSource
  <2>6. \A e \in store : \E f \in store' : /\ f.source = e.source /\ f.target = e.target
                                           /\ ~e.active => ~f.active
    BY <2>2
  <2>7. \A f \in store' :
          \/ \E e \in store : f.source = e.source /\ f.target = e.target
          \/ ws[1] = <<"add">> /\ Denotes(ws[2], f.source) /\ Denotes(ws[3], f.target)
    BY <1>4, <2>2, <2>3, <2>4
  <2>. QED
    BY <2>5, <2>6, <2>7 DEF ws
<1>5. CASE CancelKnown(ws)
  <2>. DEFINE Off(e) == IF e.source = s THEN [e EXCEPT !.active = FALSE] ELSE e
  <2>1. store' = {Off(e) : e \in store}
    BY <1>5 DEF CancelKnown
  <2>2. \A e \in store : e \in [source : Specs, target : Specs, active : BOOLEAN]
    BY DEF TypeOK
  <2>3. \A e \in store : /\ Off(e).source = e.source /\ Off(e).target = e.target
                         /\ ~e.active => ~Off(e).active
    BY <2>2
  <2>. HIDE DEF Off
  <2>4. \A e \in store : Off(e) \in store'
    BY <2>1
  <2>5. \A f \in store' : \E e \in store : f = Off(e)
    BY <2>1
  <2>6. OnePerSource'
    <3>. SUFFICES ASSUME NEW x \in store', NEW y \in store', x.source = y.source
                  PROVE  x = y
      BY DEF OnePerSource
    <3>1. PICK e \in store : x = Off(e)
      BY <2>5
    <3>2. PICK f \in store : y = Off(f)
      BY <2>5
    <3>. QED
      BY <2>3, <3>1, <3>2 DEF OnePerSource
  <2>7. \A e \in store : \E f \in store' : /\ f.source = e.source /\ f.target = e.target
                                           /\ ~e.active => ~f.active
    BY <2>3, <2>4
  <2>8. \A f \in store' : \E e \in store : f.source = e.source /\ f.target = e.target
    BY <2>3, <2>5
  <2>. QED
    BY <2>6, <2>7, <2>8
<1>6. \/ store' = store
      \/ Len(ws) >= 3 /\ ws[1] = <<"add">> /\ AddNew(ws)
      \/ CancelKnown(ws)
  <2>1. \/ /\ Len(ws) >= 3 /\ ws[1] = <<"add">>
           /\ AddRefused(ws) \/ AddKnown(ws) \/ AddNew(ws)
        \/ CancelUnknown(ws) \/ CancelKnown(ws)
        \/ store' = store
    BY ObeyCases
  <2>. QED
    BY <2>1 DEF AddRefused, AddKnown, CancelUnknown
<1>. QED
  BY <1>3, <1>4, <1>5, <1>6

\* What the answer says is true of the store
LEMMA ObeyTrue ==
  ASSUME TypeOK, NEW text \in Texts, Obey(text), NEW k \in DOMAIN response'
  PROVE  /\ \A word \in {"added", "exists", "stopped"} :
              response'[k].text = word => Backed(text, word)'
         /\ response'[k].text = "added" =>
              \A e \in store : e.source # parse_directory_spec(Words(text)[2])
<1>. DEFINE ws == Words(text)
            s == parse_directory_spec(ws[2])
            t == parse_directory_spec(ws[3])
            r == response'[k].text
<1>1. ws \in Seq(Seq(STRING)) /\ Len(ws) \in Nat
  BY WordsType, LenProperties DEF Texts
<1>2. \A i \in 1..Len(ws) : ws[i] \in Seq(STRING)
  BY <1>1, ElementOfSeq
<1>3. ASSUME NEW word, NEW arg, response' = <<Answer(word, arg)>>
      PROVE  r = word
  BY <1>3 DEF Answer
<1>4. (Len(ws) >= 2 => ws[2] \in Seq(STRING)) /\ (Len(ws) >= 3 => ws[3] \in Seq(STRING))
  BY <1>1, <1>2
<1>. HIDE DEF ws, r
<1>5. CASE Len(ws) >= 3 /\ AddNew(ws)
  <2>0. Len(ws) >= 2 /\ Len(ws) >= 3
    BY <1>1, <1>5
  <2>1. s # NoSpec /\ t # NoSpec /\ ws[2] \in Seq(STRING) /\ ws[3] \in Seq(STRING)
    BY <1>4, <1>5, <2>0 DEF AddNew
  <2>2. Denotes(ws[2], s) /\ Denotes(ws[3], t)
    BY <2>1, ParseDenotes
  <2>. DEFINE new == [source |-> s, target |-> t, active |-> TRUE]
  <2>3. new \in store' /\ new.source = s /\ new.target = t
    BY <1>5 DEF AddNew
  <2>4. \A e \in store : e.source # s
    BY <1>5 DEF AddNew, Found, Same
  <2>5. r \in {"added", "add error"}
    BY <1>3, <1>5 DEF AddNew
  <2>. HIDE DEF s, t, new
  <2>6. Backed(text, "added")'
    BY <2>2, <2>3 DEF Backed, ws, s, t
  <2>. QED
    BY <2>4, <2>5, <2>6 DEF ws, s, r
<1>6. CASE Len(ws) >= 3 /\ AddKnown(ws)
  <2>1. s # NoSpec /\ ws[2] \in Seq(STRING)
    BY <1>1, <1>4, <1>6 DEF AddKnown
  <2>2. Denotes(ws[2], s)
    BY <2>1, ParseDenotes
  <2>3. PICK e \in store' : e.source = s
    BY <1>6 DEF AddKnown, Found, Same
  <2>4. r = "exists"
    BY <1>3, <1>6 DEF AddKnown
  <2>. HIDE DEF s
  <2>5. Backed(text, "exists")'
    BY <2>2, <2>3 DEF Backed, ws, s
  <2>. QED
    BY <2>4, <2>5 DEF r
<1>7. CASE Len(ws) = 2 /\ CancelKnown(ws)
  <2>1. s # NoSpec /\ ws[2] \in Seq(STRING)
    BY <1>1, <1>4, <1>7 DEF CancelKnown
  <2>2. Denotes(ws[2], s)
    BY <2>1, ParseDenotes
  <2>3. PICK e \in store : e.source = s
    BY <1>7 DEF CancelKnown, Found, Same
  <2>. DEFINE f == [e EXCEPT !.active = FALSE]
  <2>4. f \in store'
    BY <1>7, <2>3 DEF CancelKnown
  <2>5. f.source = s /\ ~f.active
    BY <2>3 DEF TypeOK
  <2>6. r = "stopped"
    BY <1>3, <1>7 DEF CancelKnown
  <2>. HIDE DEF s, f
  <2>7. Backed(text, "stopped")'
    BY <2>2, <2>4, <2>5 DEF Backed, ws, s
  <2>. QED
    BY <2>6, <2>7 DEF r
<1>8. CASE r \notin {"added", "exists", "stopped"}
  BY <1>8 DEF r
<1>9. \/ Len(ws) >= 3 /\ AddNew(ws)
      \/ Len(ws) >= 3 /\ AddKnown(ws)
      \/ Len(ws) = 2 /\ CancelKnown(ws)
      \/ r \in {"add error", "not synchronized", "cancel error", "bye", "invalid"}
  <2>1. \/ Len(ws) >= 3 /\ (AddRefused(ws) \/ AddKnown(ws) \/ AddNew(ws))
        \/ Len(ws) = 2 /\ (CancelUnknown(ws) \/ CancelKnown(ws))
        \/ response' = <<Answer("bye", <<>>)>>
        \/ response' = <<Answer("invalid", text)>>
    BY ObeyCases DEF ws
  <2>2. AddRefused(ws) => r = "add error"
    BY <1>3 DEF AddRefused
  <2>3. CancelUnknown(ws) => r \in {"cancel error", "not synchronized"}
    BY <1>3 DEF CancelUnknown
  <2>4. response' = <<Answer("bye", <<>>)>> => r = "bye"
    BY <1>3
  <2>5. response' = <<Answer("invalid", text)>> => r = "invalid"
    BY <1>3
  <2>. QED
    BY <2>1, <2>2, <2>3, <2>4, <2>5
<1>. QED
  BY <1>5, <1>6, <1>7, <1>8, <1>9
-----------------------------------------------------------------------------
(***************************************************************************)
(* IInv is inductive.                                                      *)
(***************************************************************************)
\* It holds before anybody has connected
LEMMA InitIInv == Init => IInv
<1>. SUFFICES ASSUME Init PROVE IInv
  OBVIOUS
<1>1. /\ NoText \in Texts \ {<<>>} /\ \A S : <<>> \in Seq(S)
      /\ Len(<<>>) = 0 /\ Range(<<>>) = {} /\ IsInjective(<<>>) /\ DOMAIN <<>> = {}
  BY EmptySeq DEF NoText, Texts, Range, IsInjective
<1>2. TypeOK
  <2>1. /\ said \in [Consoles -> Seq(Texts)] /\ heard \in [Consoles -> Seq(Seq(Answers))]
        /\ up \in [Consoles -> Texts \ {<<>>}] /\ down \in [Consoles -> Seq(Answers)]
    BY <1>1 DEF Init
  <2>2. /\ cpc \in [Consoles -> {"start", "prompt", "waiting", "exit"}]
        /\ cend \in [Consoles -> {"none", "open", "fin", "rst"}]
        /\ mend \in [Consoles -> {"none", "open", "fin", "rst"}]
        /\ \A c \in Consoles : cpc[c] = "start"
    BY DEF Init
  <2>3. /\ backlog \in Seq(Consoles) /\ IsInjective(backlog) /\ response \in Seq(Answers)
        /\ serving \in Consoles \cup {None} /\ serving \notin Range(backlog)
    BY <1>1 DEF Init
  <2>. QED
    BY <2>1, <2>2, <2>3 DEF Init, TypeOK
<1>3. Links
  BY <1>1, ConsoleAssumption DEF Init, Links
<1>4. Commands
  BY <1>1 DEF Init, Commands
<1>5. Dialogue
  BY DEF Init, Dialogue, Asked, Answering
<1>6. AnswersInStep
  BY <1>1 DEF Init, AnswersInStep
<1>7. ManagerSurvives /\ OnePerSource /\ EntriesAsTyped
  BY DEF Init, ManagerSurvives, OnePerSource, EntriesAsTyped
<1>8. Truth /\ AddedOnce
  <2>1. \A c \in Consoles : DOMAIN said[c] = {}
    BY <1>1 DEF Init
  <2>. QED
    BY <2>1 DEF Truth, AddedOnce
<1>. QED
  BY <1>2, <1>3, <1>4, <1>5, <1>6, <1>7, <1>8 DEF IInv

(***************************************************************************)
(* A step that leaves the store alone keeps what is said of it, if no      *)
(* command is forgotten and no answer appears from nowhere.                *)
(***************************************************************************)
LEMMA StoreKept ==
  ASSUME IInv, UNCHANGED store, Disturbed \subseteq Disturbed',
         \A c \in Consoles : \A i \in DOMAIN said[c] :
           i \in DOMAIN said'[c] /\ said'[c][i] = said[c][i],
         \A c \in Consoles \ Disturbed' : \A i \in DOMAIN said'[c] :
           \A text \in {"added", "exists", "stopped"} :
             Given(c, i, text)' => i \in DOMAIN said[c] /\ Given(c, i, text)
  PROVE  OnePerSource' /\ EntriesAsTyped' /\ Truth' /\ AddedOnce'
<1>1. OnePerSource'
  BY DEF IInv, OnePerSource
<1>2. EntriesAsTyped'
  <2>. SUFFICES ASSUME Disturbed' = {}, NEW e \in store'
                PROVE  \E c \in Consoles : \E i \in DOMAIN said'[c] :
                         /\ Words(said'[c][i])[1] = <<"add">>
                         /\ Denotes(Words(said'[c][i])[2], e.source)
                         /\ Denotes(Words(said'[c][i])[3], e.target)
    BY DEF EntriesAsTyped
  <2>1. \E c \in Consoles : \E i \in DOMAIN said[c] :
          /\ Words(said[c][i])[1] = <<"add">>
          /\ Denotes(Words(said[c][i])[2], e.source)
          /\ Denotes(Words(said[c][i])[3], e.target)
    BY DEF IInv, EntriesAsTyped
  <2>. QED
    BY <2>1
<1>3. Truth'
  <2>. SUFFICES ASSUME NEW c \in Consoles \ Disturbed', NEW i \in DOMAIN said'[c],
                       NEW text \in {"added", "exists", "stopped"}, Given(c, i, text)'
                PROVE  Backed(said[c][i], text)' /\ said'[c][i] = said[c][i]
    BY DEF Truth, Backed
  <2>1. i \in DOMAIN said[c] /\ Given(c, i, text) /\ said'[c][i] = said[c][i]
    OBVIOUS
  <2>2. Backed(said[c][i], text)
    BY <2>1 DEF IInv, Truth
  <2>. QED
    BY <2>1, <2>2 DEF Backed
<1>4. AddedOnce'
  <2>. SUFFICES ASSUME NEW c \in Consoles \ Disturbed', NEW d \in Consoles \ Disturbed',
                       NEW i \in DOMAIN said'[c], NEW k \in DOMAIN said'[d],
                       Given(c, i, "added")', Given(d, k, "added")',
                       SourceOf(c, i)' = SourceOf(d, k)'
                PROVE  c = d /\ i = k
    BY DEF AddedOnce
  <2>1. /\ i \in DOMAIN said[c] /\ Given(c, i, "added") /\ said'[c][i] = said[c][i]
        /\ k \in DOMAIN said[d] /\ Given(d, k, "added") /\ said'[d][k] = said[d][k]
    OBVIOUS
  <2>2. SourceOf(c, i) = SourceOf(d, k)
    BY <2>1 DEF SourceOf
  <2>. QED
    BY <2>1, <2>2 DEF IInv, AddedOnce
<1>. QED
  BY <1>1, <1>2, <1>3, <1>4

(***************************************************************************)
(* A step that is not about commands and answers: it leaves the logs and   *)
(* what is on the way alone, makes no answer and opens no end that was in  *)
(* use.                                                                    *)
(***************************************************************************)
LEMMA QuietStep ==
  ASSUME IInv, UNCHANGED <<said, heard, up, down, store, cut, torn>>,
         \A c \in Consoles : Answering(c)' => Answering(c) /\ response' = response,
         \A c \in Consoles \ Disturbed : Asked(c)' => Asked(c),
         \A c \in Consoles : cpc'[c] = "prompt" => cpc[c] \in {"start", "prompt"},
         \A c \in Consoles : cpc[c] = "start" => ~Answering(c),
         \A c \in Consoles \ Disturbed :
           Asked(c)' \/ Answering(c)' => cend'[c] # "rst" \/ cend[c] = "rst",
         \A c \in Consoles : mend[c] # "open" /\ cpc[c] # "start" => mend'[c] # "open"
  PROVE  /\ Commands' /\ Dialogue' /\ AnswersInStep'
         /\ OnePerSource' /\ EntriesAsTyped' /\ Truth' /\ AddedOnce'
<1>1. Commands'
  BY DEF IInv, Commands
<1>2. Dialogue'
  <2>. SUFFICES ASSUME NEW c \in Consoles \ Disturbed
                PROVE  /\ cpc'[c] = "prompt" => /\ ~Asked(c)' /\ ~Answering(c)'
                                                /\ down'[c] = <<>>
                       /\ Asked(c)' => /\ up'[c] = LastSaid(c)' /\ said'[c] # <<>>
                                       /\ down'[c] = <<>> /\ ~Answering(c)' /\ cend'[c] # "rst"
                       /\ Answering(c)' => /\ AnswerTo(c, response)' /\ down'[c] = <<>>
                                           /\ cend'[c] # "rst" /\ said'[c] # <<>>
                       /\ down'[c] # <<>> => AnswerTo(c, down[c])' /\ said'[c] # <<>>
    BY DEF Dialogue
  <2>1. /\ cpc[c] = "prompt" => ~Asked(c) /\ ~Answering(c) /\ down[c] = <<>>
        /\ Asked(c) => /\ up[c] = LastSaid(c) /\ said[c] # <<>> /\ down[c] = <<>>
                       /\ ~Answering(c) /\ cend[c] # "rst"
        /\ Answering(c) => /\ AnswerTo(c, response) /\ down[c] = <<>> /\ cend[c] # "rst"
                           /\ said[c] # <<>>
        /\ down[c] # <<>> => AnswerTo(c, down[c]) /\ said[c] # <<>>
    BY DEF IInv, Dialogue
  <2>2. LastSaid(c)' = LastSaid(c)
    BY DEF LastSaid
  <2>3. Answering(c)' => (AnswerTo(c, response)' <=> AnswerTo(c, response))
    BY <2>2 DEF AnswerTo
  <2>4. AnswerTo(c, down[c])' <=> AnswerTo(c, down[c])
    BY <2>2 DEF AnswerTo
  <2>5. cpc[c] = "start" => ~Asked(c) /\ ~Answering(c) /\ down[c] = <<>>
    BY DEF IInv, Links, Asked
  <2>. QED
    BY <2>1, <2>2, <2>3, <2>4, <2>5
<1>3. AnswersInStep'
  <2>. SUFFICES ASSUME NEW c \in Consoles \ Disturbed, NEW i \in DOMAIN heard[c]
                PROVE  \/ heard[c][i] = <<>> /\ mend'[c] # "open"
                       \/ Len(heard[c][i]) = 1 /\ Fits(heard[c][i][1], said[c][i])
    BY DEF AnswersInStep
  <2>1. \/ heard[c][i] = <<>> /\ mend[c] # "open"
        \/ Len(heard[c][i]) = 1 /\ Fits(heard[c][i][1], said[c][i])
    BY DEF IInv, AnswersInStep
  <2>2. cpc[c] # "start"
    <3>1. DOMAIN <<>> = {}
      OBVIOUS
    <3>. QED
      BY <3>1 DEF IInv, Links
  <2>. QED
    BY <2>1, <2>2
<1>4. ASSUME NEW c \in Consoles, NEW i, NEW text
      PROVE  Given(c, i, text)' => Given(c, i, text)
  <2>1. Told(c, i, text)' <=> Told(c, i, text)
    BY DEF Told
  <2>. QED
    BY <2>1 DEF Given
<1>5. OnePerSource' /\ EntriesAsTyped' /\ Truth' /\ AddedOnce'
  BY <1>4, StoreKept
<1>. QED
  BY <1>1, <1>2, <1>3, <1>5

\* A console connects, or finds that the manager has ended
LEMMA ConnectIInv ==
  ASSUME IInv, NEW c \in Consoles, Connect(c) \/ ConnectRefused(c)
  PROVE  IInv'
<1>. USE DEF netvars, mgrvars
<1>1. /\ UNCHANGED <<said, heard, up, down, mpc, serving, response, store, stop, cut, torn>>
      /\ cpc[c] = "start"
      /\ \/ /\ backlog' = Append(backlog, c) /\ cpc' = [cpc EXCEPT ![c] = "prompt"]
            /\ cend' = [cend EXCEPT ![c] = "open"] /\ mend' = [mend EXCEPT ![c] = "open"]
         \/ /\ cpc' = [cpc EXCEPT ![c] = "exit"] /\ UNCHANGED <<backlog, cend, mend>>
  BY DEF Connect, ConnectRefused, At
<1>2. /\ said[c] = <<>> /\ heard[c] = <<>> /\ up[c] = NoText /\ down[c] = <<>>
      /\ mend[c] = "none" /\ c \notin Range(backlog) /\ c # serving /\ cend[c] # "open"
  BY <1>1 DEF IInv, Links
<1>3. /\ backlog \in Seq(Consoles) /\ IsInjective(backlog)
  BY DEF IInv, TypeOK
<1>4. /\ backlog' \in Seq(Consoles) /\ IsInjective(backlog')
      /\ \/ Range(backlog') = Range(backlog) \cup {c} /\ cpc'[c] = "prompt"
         \/ backlog' = backlog /\ cpc'[c] = "exit"
  <2>. DEFINE q == Append(backlog, c)
  <2>1. q \in Seq(Consoles)
    BY <1>3, AppendIndices
  <2>2. Range(q) = Range(backlog) \cup {c}
    BY <1>3, AppendElements
  <2>3. IsInjective(q)
    BY <1>2, <1>3, AppendElements
  <2>4. \/ backlog' = q /\ cpc'[c] = "prompt"
        \/ backlog' = backlog /\ cpc'[c] = "exit"
    BY <1>1 DEF IInv, TypeOK
  <2>. HIDE DEF q
  <2>. QED
    BY <1>3, <2>1, <2>2, <2>3, <2>4
<1>5. TypeOK'
  <2>1. /\ cpc' \in [Consoles -> {"start", "prompt", "waiting", "exit"}]
        /\ cend' \in [Consoles -> {"none", "open", "fin", "rst"}]
        /\ mend' \in [Consoles -> {"none", "open", "fin", "rst"}]
    BY <1>1 DEF IInv, TypeOK
  <2>2. serving \notin Range(backlog')
    BY <1>2, <1>4 DEF IInv, TypeOK
  <2>3. \A d \in Consoles : /\ cpc'[d] = "prompt" => Len(heard[d]) = Len(said[d])
                            /\ cpc'[d] = "waiting" => Len(heard[d]) + 1 = Len(said[d])
    BY <1>1, <1>2 DEF IInv, TypeOK
  <2>. QED
    BY <1>1, <1>4, <2>1, <2>2, <2>3 DEF IInv, TypeOK
<1>6. Links'
  <2>1. \A d \in Consoles : d # c => /\ cpc'[d] = cpc[d] /\ cend'[d] = cend[d]
                                     /\ mend'[d] = mend[d]
    BY <1>1 DEF IInv, TypeOK
  <2>2. \/ /\ cpc'[c] = "prompt" /\ cend'[c] = "open" /\ mend'[c] = "open"
           /\ Range(backlog') = Range(backlog) \cup {c}
        \/ /\ cpc'[c] = "exit" /\ cend'[c] = cend[c] /\ mend'[c] = mend[c]
           /\ backlog' = backlog
    BY <1>1, <1>4 DEF IInv, TypeOK
  <2>. QED
    BY <1>1, <1>2, <1>4, <2>1, <2>2 DEF IInv, Links
<1>7. ManagerSurvives'
  BY <1>1 DEF IInv, ManagerSurvives
<1>8. /\ Commands' /\ Dialogue' /\ AnswersInStep'
      /\ OnePerSource' /\ EntriesAsTyped' /\ Truth' /\ AddedOnce'
  <2>1. \A d \in Consoles : Answering(d)' => Answering(d) /\ response' = response
    BY <1>1 DEF Answering
  <2>2. \A d \in Consoles \ Disturbed : Asked(d)' => Asked(d)
    BY <1>1, <1>2 DEF Asked, IInv, TypeOK
  <2>3. \A d \in Consoles : cpc'[d] = "prompt" => cpc[d] \in {"start", "prompt"}
    BY <1>1 DEF IInv, TypeOK
  <2>4. \A d \in Consoles : cpc[d] = "start" => ~Answering(d)
    BY DEF IInv, Links, Answering
  <2>5. \A d \in Consoles : cend'[d] = "rst" => cend[d] = "rst"
    BY <1>1 DEF IInv, TypeOK
  <2>6. \A d \in Consoles : mend[d] # "open" /\ cpc[d] # "start" => mend'[d] # "open"
    BY <1>1 DEF IInv, TypeOK
  <2>. QED
    BY <1>1, <2>1, <2>2, <2>3, <2>4, <2>5, <2>6, QuietStep
<1>. QED
  BY <1>5, <1>6, <1>7, <1>8 DEF IInv

\* A console ends
LEMMA LeaveIInv ==
  ASSUME IInv, NEW c \in Consoles, cpc[c] \in {"prompt", "waiting"}, Leave(c)
  PROVE  IInv'
<1>. USE DEF mgrvars
<1>1. /\ UNCHANGED <<said, heard, mend, up, down, mpc, backlog, serving, response, store,
                     stop, cut, torn>>
      /\ cpc' = [cpc EXCEPT ![c] = "exit"]
      /\ cend' = [cend EXCEPT ![c] = IF down[c] # <<>> THEN "rst" ELSE "fin"]
  BY DEF Leave, At, Closed
<1>2. /\ \A d \in Consoles : cpc'[d] = IF d = c THEN "exit" ELSE cpc[d]
      /\ \A d \in Consoles : d # c => cend'[d] = cend[d]
      /\ cend'[c] = IF down[c] # <<>> THEN "rst" ELSE "fin"
  BY <1>1 DEF IInv, TypeOK
<1>3. TypeOK'
  <2>1. /\ cpc' \in [Consoles -> {"start", "prompt", "waiting", "exit"}]
        /\ cend' \in [Consoles -> {"none", "open", "fin", "rst"}]
    BY <1>1 DEF IInv, TypeOK
  <2>. QED
    BY <1>1, <1>2, <2>1 DEF IInv, TypeOK
<1>4. Links'
  BY <1>1, <1>2 DEF IInv, Links
<1>5. ManagerSurvives'
  BY <1>1 DEF IInv, ManagerSurvives
<1>6. /\ Commands' /\ Dialogue' /\ AnswersInStep'
      /\ OnePerSource' /\ EntriesAsTyped' /\ Truth' /\ AddedOnce'
  <2>1. \A d \in Consoles : /\ Answering(d)' <=> Answering(d)
                            /\ Asked(d)' <=> Asked(d)
    BY <1>1 DEF Answering, Asked
  <2>2. \A d \in Consoles : cpc'[d] = "prompt" => cpc[d] \in {"start", "prompt"}
    BY <1>2
  <2>3. \A d \in Consoles : cpc[d] = "start" => ~Answering(d)
    BY DEF IInv, Links, Answering
  <2>4. \A d \in Consoles \ Disturbed :
          Asked(d)' \/ Answering(d)' => cend'[d] # "rst" \/ cend[d] = "rst"
    BY <1>2, <2>1 DEF IInv, Dialogue
  <2>. QED
    BY <1>1, <2>1, <2>2, <2>3, <2>4, QuietStep
<1>. QED
  BY <1>3, <1>4, <1>5, <1>6 DEF IInv

\* The manager takes a connection from the listen queue
LEMMA AcceptIInv == IInv /\ Accept => IInv'
<1>. SUFFICES ASSUME IInv, Accept PROVE IInv'
  OBVIOUS
<1>. DEFINE h == Head(backlog)
<1>1. /\ UNCHANGED <<cpc, said, heard, cend, up, down, response, store, stop, cut, torn>>
      /\ mpc = "accept" /\ backlog # <<>> /\ backlog' = Tail(backlog)
      /\ \/ /\ mend' = [mend EXCEPT ![h] = Closed(up[h] # NoText)]
            /\ UNCHANGED <<mpc, serving>>
         \/ serving' = h /\ mpc' = "recv" /\ UNCHANGED mend
  BY DEF Accept, Accepted, HangupOn
<1>2. backlog \in Seq(Consoles) /\ IsInjective(backlog) /\ serving = None /\ response = <<>>
  BY <1>1 DEF IInv, TypeOK, Links
<1>3. /\ h \in Consoles /\ h \in Range(backlog)
      /\ Tail(backlog) \in Seq(Consoles) /\ IsInjective(Tail(backlog))
      /\ Range(Tail(backlog)) = Range(backlog) \ {h}
  BY <1>1, <1>2, TailIndices, TailElements
<1>. HIDE DEF h
<1>4. h # None /\ None \notin Range(backlog')
  <2>1. \A c \in Range(backlog) : c \in Consoles
    BY <1>2, RangeOfSeq
  <2>. QED
    BY <1>1, <1>3, <2>1, ConsoleAssumption
<1>5. TypeOK'
  <2>1. /\ mend' \in [Consoles -> {"none", "open", "fin", "rst"}]
    BY <1>1 DEF IInv, TypeOK, Closed
  <2>2. /\ serving' \in Consoles \cup {None} /\ serving' \notin Range(backlog')
        /\ (serving' # None) <=> mpc' \in {"recv", "send"}
        /\ mpc' \in {"accept", "recv", "send", "exit", "killed"}
    BY <1>1, <1>2, <1>3, <1>4 DEF IInv, TypeOK
  <2>. QED
    BY <1>1, <1>3, <2>1, <2>2 DEF IInv, TypeOK
<1>6. /\ \A c \in Consoles : c # h => mend'[c] = mend[c]
      /\ \/ serving' = serving /\ mend'[h] \in {"fin", "rst"}
         \/ serving' = h /\ mend'[h] = mend[h]
  BY <1>1, <1>3 DEF IInv, TypeOK, Closed
<1>7. Links'
  <2>1. \A c \in Consoles : mend'[c] = "open" <=> c = serving' \/ c \in Range(backlog')
    <3>1. \A c \in Consoles : mend[c] = "open" <=> c \in Range(backlog)
      BY <1>2, ConsoleAssumption DEF IInv, Links
    <3>2. \A c \in Consoles : c \in Range(backlog') <=> c \in Range(backlog) /\ c # h
      BY <1>1, <1>3
    <3>3. \A c \in Consoles : c # serving
      BY <1>2, ConsoleAssumption
    <3>. QED
      BY <1>3, <1>6, <3>1, <3>2, <3>3
  <2>2. \A c \in Consoles : cpc[c] = "start" => mend'[c] = "none"
    BY <1>3, <1>6 DEF IInv, Links
  <2>. QED
    BY <1>1, <1>2, <2>1, <2>2 DEF IInv, Links
<1>8. ManagerSurvives'
  BY <1>1 DEF ManagerSurvives
<1>9. /\ Commands' /\ Dialogue' /\ AnswersInStep'
      /\ OnePerSource' /\ EntriesAsTyped' /\ Truth' /\ AddedOnce'
  <2>1. \A d \in Consoles : ~Answering(d)' /\ ~Answering(d)
    BY <1>1 DEF Answering
  <2>2. \A d \in Consoles : Asked(d)' => Asked(d)
    BY <1>1, <1>6 DEF Asked
  <2>3. \A d \in Consoles : mend[d] # "open" => mend'[d] # "open"
    BY <1>6
  <2>. QED
    BY <1>1, <2>1, <2>2, <2>3, QuietStep
<1>. QED
  BY <1>5, <1>7, <1>8, <1>9 DEF IInv

\* The manager closes the connection that it serves
LEMMA HangupIInv == IInv /\ Hangup => IInv'
<1>. SUFFICES ASSUME IInv, Hangup PROVE IInv'
  OBVIOUS
<1>1. /\ UNCHANGED <<cpc, said, heard, cend, up, down, backlog, response, store, stop, cut, torn>>
      /\ mpc = "recv" /\ mpc' = "accept" /\ serving' = None
      /\ mend' = [mend EXCEPT ![serving] = Closed(up[serving] # NoText)]
  BY DEF Hangup, HangupOn
<1>2. /\ serving \in Consoles /\ backlog \in Seq(Consoles) /\ response = <<>>
      /\ serving \notin Range(backlog)
  BY <1>1 DEF IInv, TypeOK, Links
<1>3. None \notin Range(backlog)
  <2>1. \A c \in Range(backlog) : c \in Consoles
    BY <1>2, RangeOfSeq
  <2>. QED
    BY <2>1, ConsoleAssumption
<1>4. /\ \A c \in Consoles : c # serving => mend'[c] = mend[c]
      /\ mend'[serving] \in {"fin", "rst"}
  BY <1>1, <1>2 DEF IInv, TypeOK, Closed
<1>5. TypeOK'
  <2>1. /\ mend' \in [Consoles -> {"none", "open", "fin", "rst"}]
    BY <1>1 DEF IInv, TypeOK, Closed
  <2>. QED
    BY <1>1, <1>3, <2>1 DEF IInv, TypeOK
<1>6. Links'
  <2>1. \A c \in Consoles : c # None
    BY ConsoleAssumption
  <2>2. \A c \in Consoles : mend'[c] = "open" <=> c = serving' \/ c \in Range(backlog')
    BY <1>1, <1>2, <1>4, <2>1 DEF IInv, Links
  <2>3. \A c \in Consoles : cpc[c] = "start" => mend'[c] = "none"
    BY <1>2, <1>4 DEF IInv, Links
  <2>. QED
    BY <1>1, <1>2, <2>2, <2>3 DEF IInv, Links
<1>7. ManagerSurvives'
  BY <1>1 DEF ManagerSurvives
<1>8. /\ Commands' /\ Dialogue' /\ AnswersInStep'
      /\ OnePerSource' /\ EntriesAsTyped' /\ Truth' /\ AddedOnce'
  <2>1. \A d \in Consoles : ~Answering(d)' /\ ~Answering(d)
    BY <1>1 DEF Answering
  <2>2. \A d \in Consoles : Asked(d)' => Asked(d)
    BY <1>1, <1>4 DEF Asked
  <2>3. \A d \in Consoles : mend[d] # "open" => mend'[d] # "open"
    BY <1>4
  <2>. QED
    BY <1>1, <2>1, <2>2, <2>3, QuietStep
<1>. QED
  BY <1>5, <1>6, <1>7, <1>8 DEF IInv

(***************************************************************************)
(* The manager ends: at the end of main, or by SIGPIPE, which takes the    *)
(* reset of a console that had a command in pieces.                        *)
(***************************************************************************)
LEMMA EndsIInv == IInv /\ (MainEnds \/ ManagerKilled) => IInv'
<1>. SUFFICES ASSUME IInv, MainEnds \/ ManagerKilled PROVE IInv'
  OBVIOUS
<1>1. /\ UNCHANGED <<cpc, said, heard, cend, up, down, store, stop, cut, torn>>
      /\ mpc' \in {"exit", "killed"} /\ backlog' = <<>> /\ serving' = None /\ response' = <<>>
      /\ mend' = [c \in Consoles |-> IF c = serving THEN Closed(up[c] # NoText)
                                     ELSE IF c \in Range(backlog) THEN "rst" ELSE mend[c]]
      /\ mpc' = "killed" => ManagerKilled
  BY DEF MainEnds, ManagerKilled, ProcessEnds
<1>2. /\ \A c \in Consoles : c = serving => mend'[c] \in {"fin", "rst"}
      /\ \A c \in Consoles : c \in Range(backlog) => mend'[c] \in {"fin", "rst"}
      /\ \A c \in Consoles : c # serving /\ c \notin Range(backlog) => mend'[c] = mend[c]
  BY <1>1 DEF Closed
<1>3. <<>> \in Seq(Consoles) /\ <<>> \in Seq(Answers) /\ IsInjective(<<>>) /\ Range(<<>>) = {}
  BY EmptySeq DEF IsInjective, Range
<1>4. TypeOK'
  <2>1. /\ mend' \in [Consoles -> {"none", "open", "fin", "rst"}]
    BY <1>1 DEF IInv, TypeOK, Closed
  <2>. QED
    BY <1>1, <1>3, <2>1 DEF IInv, TypeOK
<1>5. \A c \in Consoles : mend'[c] # "open"
  BY <1>2 DEF IInv, Links
<1>6. Links'
  <2>1. \A c \in Consoles : c # None
    BY ConsoleAssumption
  <2>2. \A c \in Consoles : cpc[c] = "start" => mend'[c] = "none"
    BY <1>2 DEF IInv, Links
  <2>. QED
    BY <1>1, <1>3, <1>5, <2>1, <2>2 DEF IInv, Links
<1>7. ManagerSurvives'
  <2>. SUFFICES ASSUME ManagerKilled PROVE Disturbed # {}
    BY <1>1 DEF ManagerSurvives
  <2>1. mpc = "send" /\ cend[serving] = "rst"
    BY DEF ManagerKilled
  <2>2. serving \in Consoles /\ Answering(serving)
    BY <2>1 DEF IInv, TypeOK, Answering
  <2>. QED
    BY <2>1, <2>2 DEF IInv, Dialogue
<1>8. /\ Commands' /\ Dialogue' /\ AnswersInStep'
      /\ OnePerSource' /\ EntriesAsTyped' /\ Truth' /\ AddedOnce'
  <2>1. \A d \in Consoles : ~Answering(d)' /\ ~Asked(d)'
    BY <1>1, <1>5 DEF Answering, Asked
  <2>2. \A d \in Consoles : cpc[d] = "start" => ~Answering(d)
    BY DEF IInv, Links, Answering
  <2>. QED
    BY <1>1, <1>5, <2>1, <2>2, QuietStep
<1>. QED
  BY <1>4, <1>6, <1>7, <1>8 DEF IInv

\* A signal only sets the flag
LEMMA SignalIInv == IInv /\ (Signal \/ UNCHANGED vars) => IInv'
<1>. SUFFICES ASSUME IInv, Signal \/ UNCHANGED vars PROVE IInv'
  OBVIOUS
<1>1. /\ UNCHANGED <<cpc, said, heard, cend, mend, up, down, mpc, backlog, serving,
                     response, store, cut, torn>>
      /\ stop' = stop \/ stop' = TRUE
  BY DEF Signal, vars, netvars, mgrvars
<1>2. TypeOK' /\ Links' /\ ManagerSurvives'
  BY <1>1 DEF IInv, TypeOK, Links, ManagerSurvives
<1>3. /\ Commands' /\ Dialogue' /\ AnswersInStep'
      /\ OnePerSource' /\ EntriesAsTyped' /\ Truth' /\ AddedOnce'
  <2>1. \A d \in Consoles : (Answering(d)' <=> Answering(d)) /\ (Asked(d)' <=> Asked(d))
    BY <1>1 DEF Answering, Asked
  <2>2. \A d \in Consoles : cpc[d] = "start" => ~Answering(d)
    BY DEF IInv, Links, Answering
  <2>. QED
    BY <1>1, <2>1, <2>2, QuietStep
<1>. QED
  BY <1>2, <1>3 DEF IInv

(***************************************************************************)
(* Back to the loop after an answer: the connection stays or is closed.    *)
(***************************************************************************)
LEMMA AfterAnswerFacts ==
  ASSUME IInv, mpc = "send", AfterAnswer
  PROVE  /\ UNCHANGED <<cpc, said, heard, up, backlog, store, stop, cut, torn>>
         /\ serving \in Consoles /\ serving \notin Range(backlog) /\ Answering(serving)
         /\ response' = <<>> /\ mpc' \in {"accept", "recv"}
         /\ mend' \in [Consoles -> {"none", "open", "fin", "rst"}]
         /\ \A c \in Consoles : c # serving => mend'[c] = mend[c]
         /\ \/ serving' = serving /\ mend'[serving] = mend[serving]
            \/ serving' = None /\ mend'[serving] \in {"fin", "rst"}
         /\ serving' \in Consoles \cup {None} /\ serving' \notin Range(backlog)
         /\ (serving' # None) <=> mpc' \in {"recv", "send"}
         /\ \A c \in Consoles : mend'[c] = "open" <=> c = serving' \/ c \in Range(backlog')
         /\ \A c \in Consoles : cpc[c] = "start" => mend'[c] = "none"
<1>1. /\ UNCHANGED <<cpc, said, heard, up, backlog, store, stop, cut, torn>> /\ response' = <<>>
      /\ \/ /\ mend' = [mend EXCEPT ![serving] = Closed(up[serving] # NoText)]
            /\ mpc' = "accept" /\ serving' = None
         \/ mpc' = "recv" /\ UNCHANGED <<mend, serving>>
  BY DEF AfterAnswer, HangupOn
<1>2. /\ serving \in Consoles /\ backlog \in Seq(Consoles) /\ serving # None
      /\ serving \notin Range(backlog)
  BY ConsoleAssumption DEF IInv, TypeOK
<1>3. None \notin Range(backlog)
  <2>1. \A c \in Range(backlog) : c \in Consoles
    BY <1>2, RangeOfSeq
  <2>. QED
    BY <2>1, ConsoleAssumption
<1>4. /\ mend' \in [Consoles -> {"none", "open", "fin", "rst"}]
      /\ \A c \in Consoles : c # serving => mend'[c] = mend[c]
      /\ \/ serving' = serving /\ mend'[serving] = mend[serving]
         \/ serving' = None /\ mend'[serving] \in {"fin", "rst"}
  BY <1>1, <1>2 DEF IInv, TypeOK, Closed
<1>5. /\ serving' \in Consoles \cup {None} /\ serving' \notin Range(backlog)
      /\ (serving' # None) <=> mpc' \in {"recv", "send"}
      /\ mpc' \in {"accept", "recv"}
  BY <1>1, <1>2, <1>3
<1>6. \A c \in Consoles : mend'[c] = "open" <=> c = serving' \/ c \in Range(backlog')
  <2>1. \A c \in Consoles : mend[c] = "open" <=> c = serving \/ c \in Range(backlog)
    BY DEF IInv, Links
  <2>2. \A c \in Consoles : c # None
    BY ConsoleAssumption
  <2>. QED
    BY <1>1, <1>2, <1>4, <2>1, <2>2
<1>7. \A c \in Consoles : cpc[c] = "start" => mend'[c] = "none"
  BY <1>2, <1>4 DEF IInv, Links
<1>. QED
  BY <1>1, <1>2, <1>4, <1>5, <1>6, <1>7 DEF Answering

\* The answer goes to a console that has ended
LEMMA AnswerLostIInv == IInv /\ AnswerLost => IInv'
<1>. SUFFICES ASSUME IInv, AnswerLost PROVE IInv'
  OBVIOUS
<1>1. /\ mpc = "send" /\ cend[serving] # "open" /\ AfterAnswer
      /\ cend' = [cend EXCEPT ![serving] = "rst"] /\ down' = down
  BY DEF AnswerLost
<1>2. /\ UNCHANGED <<cpc, said, heard, up, backlog, store, stop, cut, torn>>
      /\ serving \in Consoles /\ Answering(serving)
      /\ response' = <<>> /\ mpc' \in {"accept", "recv"}
  BY <1>1, AfterAnswerFacts
<1>3. /\ mend' \in [Consoles -> {"none", "open", "fin", "rst"}]
      /\ \A c \in Consoles : c # serving => mend'[c] = mend[c]
      /\ mend'[serving] = mend[serving] \/ mend'[serving] \in {"fin", "rst"}
      /\ \A c \in Consoles : mend'[c] = "open" <=> c = serving' \/ c \in Range(backlog')
      /\ \A c \in Consoles : cpc[c] = "start" => mend'[c] = "none"
  BY <1>1, AfterAnswerFacts
<1>4. /\ serving' \in Consoles \cup {None} /\ serving' \notin Range(backlog)
      /\ (serving' # None) <=> mpc' \in {"recv", "send"}
  BY <1>1, AfterAnswerFacts
<1>5. /\ cend' \in [Consoles -> {"none", "open", "fin", "rst"}]
      /\ \A c \in Consoles : cend'[c] = IF c = serving THEN "rst" ELSE cend[c]
  BY <1>1, <1>2 DEF IInv, TypeOK
<1>6. TypeOK'
  <2>1. response' \in Seq(Answers)
    BY <1>2, EmptySeq
  <2>. QED
    BY <1>1, <1>2, <1>3, <1>4, <1>5, <2>1 DEF IInv, TypeOK
<1>7. Links'
  BY <1>1, <1>2, <1>3, <1>5 DEF IInv, Links
<1>8. ManagerSurvives'
  BY <1>2 DEF ManagerSurvives
<1>9. /\ Commands' /\ Dialogue' /\ AnswersInStep'
      /\ OnePerSource' /\ EntriesAsTyped' /\ Truth' /\ AddedOnce'
  <2>1. \A d \in Consoles : ~Answering(d)'
    BY <1>2 DEF Answering
  <2>2. \A d \in Consoles : Asked(d)' => Asked(d)
    BY <1>2, <1>3 DEF Asked
  <2>3. \A d \in Consoles : cpc[d] = "start" => ~Answering(d)
    BY DEF IInv, Links, Answering
  <2>4. \A d \in Consoles \ Disturbed : Asked(d)' => cend'[d] # "rst" \/ cend[d] = "rst"
    BY <1>2, <1>5, <2>2 DEF IInv, Dialogue
  <2>5. \A d \in Consoles : mend[d] # "open" => mend'[d] # "open"
    BY <1>3
  <2>. QED
    BY <1>1, <1>2, <2>1, <2>2, <2>3, <2>4, <2>5, QuietStep
<1>. QED
  BY <1>6, <1>7, <1>8, <1>9 DEF IInv

\* The answer is on its way
LEMMA SendAnswerIInv == IInv /\ SendAnswer => IInv'
<1>. SUFFICES ASSUME IInv, SendAnswer PROVE IInv'
  OBVIOUS
<1>1. /\ mpc = "send" /\ cend[serving] = "open" /\ AfterAnswer
      /\ down' = [down EXCEPT ![serving] = @ \o response] /\ cend' = cend
  BY DEF SendAnswer
<1>2. /\ UNCHANGED <<cpc, said, heard, up, backlog, store, stop, cut, torn>>
      /\ serving \in Consoles /\ Answering(serving)
      /\ response' = <<>> /\ mpc' \in {"accept", "recv"}
  BY <1>1, AfterAnswerFacts
<1>3. /\ mend' \in [Consoles -> {"none", "open", "fin", "rst"}]
      /\ \A c \in Consoles : c # serving => mend'[c] = mend[c]
      /\ mend'[serving] = mend[serving] \/ mend'[serving] \in {"fin", "rst"}
      /\ \A c \in Consoles : mend'[c] = "open" <=> c = serving' \/ c \in Range(backlog')
      /\ \A c \in Consoles : cpc[c] = "start" => mend'[c] = "none"
  BY <1>1, AfterAnswerFacts
<1>4. /\ serving' \in Consoles \cup {None} /\ serving' \notin Range(backlog)
      /\ (serving' # None) <=> mpc' \in {"recv", "send"}
  BY <1>1, AfterAnswerFacts
<1>5. /\ down \in [Consoles -> Seq(Answers)] /\ response \in Seq(Answers)
      /\ down[serving] \in Seq(Answers)
  BY <1>2 DEF IInv, TypeOK
<1>6. /\ down' \in [Consoles -> Seq(Answers)]
      /\ \A c \in Consoles : c # serving => down'[c] = down[c]
      /\ down'[serving] = down[serving] \o response
  <2>1. down[serving] \o response \in Seq(Answers)
    BY <1>5, ConcatProperties
  <2>. QED
    BY <1>1, <1>2, <1>5, <2>1
<1>7. TypeOK'
  <2>1. response' \in Seq(Answers)
    BY <1>2, EmptySeq
  <2>. QED
    BY <1>1, <1>2, <1>3, <1>4, <1>6, <2>1 DEF IInv, TypeOK
<1>8. Links'
  <2>1. cpc[serving] # "start"
    BY <1>1, <1>2 DEF IInv, Links
  <2>. QED
    BY <1>1, <1>2, <1>3, <1>6, <2>1 DEF IInv, Links
<1>9. Commands' /\ ManagerSurvives'
  BY <1>2 DEF IInv, Commands, ManagerSurvives
<1>10. serving \notin Disturbed => /\ down[serving] = <<>> /\ AnswerTo(serving, response)
                                   /\ ~Asked(serving) /\ cpc[serving] # "prompt"
                                   /\ said[serving] # <<>>
  BY <1>2 DEF IInv, Dialogue
<1>11. serving \notin Disturbed => down'[serving] = response
  BY <1>5, <1>6, <1>10, ConcatEmptySeq
<1>12. \A c \in Consoles : LastSaid(c)' = LastSaid(c)
  BY <1>2 DEF LastSaid
<1>13. Dialogue'
  <2>. SUFFICES ASSUME NEW c \in Consoles \ Disturbed
                PROVE  /\ cpc'[c] = "prompt" => /\ ~Asked(c)' /\ ~Answering(c)'
                                                /\ down'[c] = <<>>
                       /\ Asked(c)' => /\ up'[c] = LastSaid(c)' /\ said'[c] # <<>>
                                       /\ down'[c] = <<>> /\ ~Answering(c)' /\ cend'[c] # "rst"
                       /\ Answering(c)' => /\ AnswerTo(c, response)' /\ down'[c] = <<>>
                                           /\ cend'[c] # "rst" /\ said'[c] # <<>>
                       /\ down'[c] # <<>> => AnswerTo(c, down[c])' /\ said'[c] # <<>>
    BY <1>2 DEF Dialogue
  <2>1. ~Answering(c)' /\ (Asked(c)' => Asked(c))
    BY <1>2, <1>3 DEF Answering, Asked
  <2>2. CASE c = serving
    <3>1. ~Asked(c) /\ cpc[c] # "prompt" /\ said[c] # <<>>
      BY <1>10, <2>2
    <3>2. AnswerTo(c, down[c])'
      BY <1>10, <1>11, <1>12, <2>2 DEF AnswerTo
    <3>. QED
      BY <1>2, <2>1, <3>1, <3>2
  <2>3. CASE c # serving
    <3>1. AnswerTo(c, down[c])' <=> AnswerTo(c, down[c])
      BY <1>6, <1>12, <2>3 DEF AnswerTo
    <3>2. /\ cpc[c] = "prompt" => ~Asked(c) /\ down[c] = <<>>
          /\ Asked(c) => /\ up[c] = LastSaid(c) /\ said[c] # <<>> /\ down[c] = <<>>
                         /\ cend[c] # "rst"
          /\ down[c] # <<>> => AnswerTo(c, down[c]) /\ said[c] # <<>>
      BY DEF IInv, Dialogue
    <3>. QED
      BY <1>1, <1>2, <1>6, <1>12, <2>1, <2>3, <3>1, <3>2
  <2>. QED
    BY <2>2, <2>3
<1>14. AnswersInStep'
  BY <1>2, <1>3 DEF IInv, AnswersInStep
<1>15. OnePerSource' /\ EntriesAsTyped' /\ Truth' /\ AddedOnce'
  <2>1. ASSUME NEW c \in Consoles \ Disturbed, NEW i, NEW text, Given(c, i, text)'
        PROVE  Given(c, i, text)
    <3>1. Told(c, i, text)' <=> Told(c, i, text)
      BY <1>2 DEF Told
    <3>2. ~Answering(c)'
      BY <1>2 DEF Answering
    <3>3. CASE c = serving
      BY <1>2, <1>11, <2>1, <3>1, <3>2, <3>3 DEF Given
    <3>4. CASE c # serving
      BY <1>2, <1>6, <2>1, <3>1, <3>2, <3>4 DEF Given
    <3>. QED
      BY <3>3, <3>4
  <2>. QED
    BY <1>2, <2>1, StoreKept
<1>. QED
  BY <1>7, <1>8, <1>9, <1>13, <1>14, <1>15 DEF IInv

(***************************************************************************)
(* A console sends a command: it arrives, is lost, or the send fails.      *)
(***************************************************************************)
LEMMA SendIInv ==
  ASSUME IInv, NEW c \in Consoles, NEW l \in Lines[c],
         Send(c, l) \/ SendLost(c, l) \/ SendFails(c, l)
  PROVE  IInv'
<1>. DEFINE m == full_command(l)
            n == Len(said[c])
<1>. USE DEF mgrvars
<1>1. /\ UNCHANGED <<heard, down, mpc, backlog, serving, response, store, stop, cut, torn>>
      /\ cpc[c] = "prompt" /\ ~StaysLocal(l)
      /\ said' = [said EXCEPT ![c] = Append(@, m)]
      /\ \/ /\ mend[c] = "open" /\ up' = [up EXCEPT ![c] = Join(@, m)]
            /\ cpc' = [cpc EXCEPT ![c] = "waiting"] /\ UNCHANGED <<cend, mend>>
         \/ /\ mend[c] \in {"fin", "rst"} /\ mend' = [mend EXCEPT ![c] = "rst"]
            /\ cpc' = [cpc EXCEPT ![c] = "waiting"] /\ UNCHANGED <<cend, up>>
         \/ /\ mend[c] = "rst" /\ cpc' = [cpc EXCEPT ![c] = "exit"]
            /\ cend' = [cend EXCEPT ![c] = Closed(down[c] # <<>>)]
            /\ UNCHANGED <<mend, up>>
  BY DEF Send, SendLost, SendFails, Say, At, AfterSend
<1>2. Command(m) /\ m \in Texts /\ m # <<>>
  BY <1>1, FullCommand DEF Command
<1>3. /\ said[c] \in Seq(Texts) /\ up[c] \in Texts /\ up[c] # <<>> /\ heard[c] \in Seq(Seq(Answers))
      /\ Len(heard[c]) = n /\ cend[c] = "open"
      /\ said \in [Consoles -> Seq(Texts)] /\ up \in [Consoles -> Texts \ {<<>>}]
  BY <1>1 DEF IInv, TypeOK, Links
<1>. HIDE DEF m
<1>4. /\ Append(said[c], m) \in Seq(Texts) /\ n \in Nat /\ Len(Append(said[c], m)) = n + 1
      /\ DOMAIN said[c] = 1..n /\ DOMAIN Append(said[c], m) = 1..(n + 1)
      /\ \A i \in 1..n : Append(said[c], m)[i] = said[c][i]
      /\ Append(said[c], m)[n + 1] = m /\ Append(said[c], m) # <<>>
  BY <1>2, <1>3, AppendIndices
<1>5. /\ said' \in [Consoles -> Seq(Texts)]
      /\ \A d \in Consoles : d # c => said'[d] = said[d]
      /\ said'[c] = Append(said[c], m)
  BY <1>1, <1>3, <1>4
<1>6. /\ Len(said'[c]) = n + 1 /\ DOMAIN said'[c] = 1..(n + 1) /\ said'[c] # <<>>
      /\ \A i \in 1..n : said'[c][i] = said[c][i]
      /\ said'[c][n + 1] = m
  BY <1>4, <1>5
<1>7. DOMAIN heard[c] = 1..n /\ n + 1 \notin 1..n /\ \A i \in 1..n : i \in 1..(n + 1) /\ i # n + 1
  <2>1. DOMAIN heard[c] = 1..Len(heard[c])
    BY <1>3, LenProperties
  <2>. QED
    BY <1>3, <1>4, <2>1
<1>. HIDE DEF n
<1>8. /\ up' \in [Consoles -> Texts \ {<<>>}]
      /\ \A d \in Consoles : d # c => up'[d] = up[d]
      /\ mend[c] # "open" => up'[c] = up[c]
      /\ mend[c] = "open" => up'[c] = Join(up[c], m)
  <2>1. Join(up[c], m) \in Texts /\ Join(up[c], m) # <<>>
    BY <1>2, <1>3, JoinType
  <2>. QED
    BY <1>1, <1>3, <2>1
<1>9. /\ cpc' \in [Consoles -> {"start", "prompt", "waiting", "exit"}]
      /\ cend' \in [Consoles -> {"none", "open", "fin", "rst"}]
      /\ mend' \in [Consoles -> {"none", "open", "fin", "rst"}]
      /\ \A d \in Consoles : d # c => /\ cpc'[d] = cpc[d] /\ cend'[d] = cend[d]
                                      /\ mend'[d] = mend[d]
      /\ \/ cpc'[c] = "waiting" /\ cend'[c] = "open"
         \/ cpc'[c] = "exit" /\ cend'[c] \in {"fin", "rst"} /\ mend[c] # "open"
      /\ mend'[c] = "open" <=> mend[c] = "open"
  BY <1>1, <1>3 DEF IInv, TypeOK, Closed
<1>10. TypeOK'
  <2>1. \A d \in Consoles : /\ cpc'[d] = "prompt" => Len(heard[d]) = Len(said'[d])
                            /\ cpc'[d] = "waiting" => Len(heard[d]) + 1 = Len(said'[d])
    BY <1>3, <1>5, <1>6, <1>9 DEF IInv, TypeOK, n
  <2>. QED
    BY <1>1, <1>5, <1>8, <1>9, <2>1 DEF IInv, TypeOK
<1>11. Links'
  <2>1. Len(heard[c]) <= Len(said'[c])
    BY <1>3, <1>4, <1>6
  <2>2. /\ cend'[c] = "open" <=> cpc'[c] \in {"prompt", "waiting"}
        /\ mend'[c] = "open" <=> c = serving \/ c \in Range(backlog)
        /\ cpc'[c] # "start"
    BY <1>9 DEF IInv, Links
  <2>3. ASSUME NEW d \in Consoles, d # c
        PROVE  /\ cend'[d] = "open" <=> cpc'[d] \in {"prompt", "waiting"}
               /\ mend'[d] = "open" <=> d = serving \/ d \in Range(backlog)
               /\ cpc'[d] = "start" => /\ said'[d] = <<>> /\ heard[d] = <<>>
                                       /\ up'[d] = NoText /\ down[d] = <<>>
                                       /\ mend'[d] = "none"
               /\ Len(heard[d]) <= Len(said'[d])
    <3>1. /\ cpc'[d] = cpc[d] /\ cend'[d] = cend[d] /\ mend'[d] = mend[d]
          /\ said'[d] = said[d] /\ up'[d] = up[d]
      BY <1>5, <1>8, <1>9, <2>3
    <3>. QED
      BY <3>1 DEF IInv, Links
  <2>4. mpc # "send" => response = <<>>
    BY DEF IInv, Links
  <2>. QED
    BY <1>1, <2>1, <2>2, <2>3, <2>4 DEF Links
<1>12. Commands'
  <2>1. \A i \in DOMAIN said'[c] : i = n + 1 \/ i \in 1..n
    BY <1>4, <1>6 DEF n
  <2>. QED
    BY <1>2, <1>4, <1>5, <1>6, <2>1 DEF IInv, Commands, n
<1>13. ManagerSurvives'
  BY <1>1 DEF IInv, ManagerSurvives
<1>14. \A d \in Consoles : Answering(d)' <=> Answering(d)
  BY <1>1 DEF Answering
<1>15. c \notin Disturbed => /\ ~Asked(c) /\ ~Answering(c) /\ down[c] = <<>>
                             /\ Asked(c)' => up'[c] = m
  <2>1. c \notin Disturbed => ~Asked(c) /\ ~Answering(c) /\ down[c] = <<>>
    BY <1>1 DEF IInv, Dialogue
  <2>2. ASSUME c \notin Disturbed, Asked(c)' PROVE up'[c] = m
    <3>1. mend[c] = "open" /\ up[c] = NoText
      BY <1>9, <2>1, <2>2 DEF Asked
    <3>. QED
      BY <1>2, <1>8, <3>1, JoinNothing
  <2>. QED
    BY <2>1, <2>2
<1>16. Dialogue'
  <2>. SUFFICES ASSUME NEW d \in Consoles \ Disturbed
                PROVE  /\ cpc'[d] = "prompt" => /\ ~Asked(d)' /\ ~Answering(d)'
                                                /\ down'[d] = <<>>
                       /\ Asked(d)' => /\ up'[d] = LastSaid(d)' /\ said'[d] # <<>>
                                       /\ down'[d] = <<>> /\ ~Answering(d)' /\ cend'[d] # "rst"
                       /\ Answering(d)' => /\ AnswerTo(d, response)' /\ down'[d] = <<>>
                                           /\ cend'[d] # "rst" /\ said'[d] # <<>>
                       /\ down'[d] # <<>> => AnswerTo(d, down[d])' /\ said'[d] # <<>>
    BY <1>1 DEF Dialogue
  <2>1. CASE d = c
    <3>1. LastSaid(c)' = m
      BY <1>6 DEF LastSaid
    <3>2. Asked(c)' => cend'[c] # "rst"
      BY <1>9 DEF Asked
    <3>. QED
      BY <1>1, <1>6, <1>9, <1>14, <1>15, <2>1, <3>1, <3>2
  <2>2. CASE d # c
    <3>1. LastSaid(d)' = LastSaid(d)
      BY <1>5, <2>2 DEF LastSaid
    <3>2. Asked(d)' <=> Asked(d)
      BY <1>8, <1>9, <2>2 DEF Asked
    <3>3. /\ AnswerTo(d, response)' <=> AnswerTo(d, response)
          /\ AnswerTo(d, down[d])' <=> AnswerTo(d, down[d])
      BY <1>1, <3>1 DEF AnswerTo
    <3>4. /\ cpc[d] = "prompt" => ~Asked(d) /\ ~Answering(d) /\ down[d] = <<>>
          /\ Asked(d) => /\ up[d] = LastSaid(d) /\ said[d] # <<>> /\ down[d] = <<>>
                         /\ ~Answering(d) /\ cend[d] # "rst"
          /\ Answering(d) => /\ AnswerTo(d, response) /\ down[d] = <<>> /\ cend[d] # "rst"
                             /\ said[d] # <<>>
          /\ down[d] # <<>> => AnswerTo(d, down[d]) /\ said[d] # <<>>
      BY DEF IInv, Dialogue
    <3>. QED
      BY <1>1, <1>5, <1>8, <1>9, <1>14, <2>2, <3>1, <3>2, <3>3, <3>4
  <2>. QED
    BY <2>1, <2>2
<1>17. AnswersInStep'
  <2>0. heard' = heard /\ Disturbed' = Disturbed
    BY <1>1
  <2>. HIDE DEF Disturbed
  <2>. SUFFICES ASSUME NEW d \in Consoles \ Disturbed, NEW i \in DOMAIN heard[d]
                PROVE  \/ heard[d][i] = <<>> /\ mend'[d] # "open"
                       \/ Len(heard[d][i]) = 1 /\ Fits(heard[d][i][1], said'[d][i])
    BY <2>0 DEF AnswersInStep
  <2>1. \/ heard[d][i] = <<>> /\ mend[d] # "open"
        \/ Len(heard[d][i]) = 1 /\ Fits(heard[d][i][1], said[d][i])
    BY DEF IInv, AnswersInStep
  <2>2. said'[d][i] = said[d][i]
    BY <1>5, <1>6, <1>7
  <2>3. mend[d] # "open" => mend'[d] # "open"
    BY <1>9
  <2>. QED
    BY <2>1, <2>2, <2>3
<1>18. OnePerSource' /\ EntriesAsTyped' /\ Truth' /\ AddedOnce'
  <2>1. ASSUME NEW d \in Consoles, NEW i \in DOMAIN said[d]
        PROVE  i \in DOMAIN said'[d] /\ said'[d][i] = said[d][i]
    BY <1>4, <1>5, <1>6, <1>7 DEF n
  <2>2. ASSUME NEW d \in Consoles \ Disturbed, NEW i \in DOMAIN said'[d], NEW text,
               Given(d, i, text)'
        PROVE  i \in DOMAIN said[d] /\ Given(d, i, text)
    <3>1. Told(d, i, text)' <=> Told(d, i, text)
      BY <1>1 DEF Told
    <3>2. CASE d = c
      <4>1. Told(c, i, text)
        BY <1>1, <1>14, <1>15, <2>2, <3>1, <3>2 DEF Given
      <4>. QED
        BY <1>4, <1>7, <3>2, <4>1 DEF Given, Told, n
    <3>3. CASE d # c
      BY <1>1, <1>5, <1>14, <2>2, <3>1, <3>3 DEF Given
    <3>. QED
      BY <3>2, <3>3
  <2>. QED
    BY <1>1, <2>1, <2>2, StoreKept
<1>. QED
  BY <1>10, <1>11, <1>12, <1>13, <1>16, <1>17, <1>18 DEF IInv

(***************************************************************************)
(* A console shows what receive_response has brought: all there is, if     *)
(* commands and answers were read whole, or a part, which disturbs the     *)
(* dialogue.                                                               *)
(***************************************************************************)
LEMMA ReceiveIInv ==
  ASSUME IInv, NEW c \in Consoles, Receive(c) \/ ReceivePart(c) \/ ReceiveNothing(c)
  PROVE  IInv'
<1>. DEFINE n == Len(said[c])
<1>. USE DEF mgrvars
<1>1. /\ cpc[c] = "waiting" /\ down[c] \in Seq(Answers) /\ down \in [Consoles -> Seq(Answers)]
      /\ heard[c] \in Seq(Seq(Answers)) /\ heard \in [Consoles -> Seq(Seq(Answers))]
      /\ Len(heard[c]) + 1 = n /\ said[c] \in Seq(Texts) /\ cend[c] = "open"
      /\ Len(heard[c]) \in Nat /\ n \in Nat
  <2>1. cpc[c] = "waiting"
    BY DEF Receive, ReceivePart, ReceiveNothing
  <2>2. /\ down[c] \in Seq(Answers) /\ heard[c] \in Seq(Seq(Answers)) /\ said[c] \in Seq(Texts)
        /\ Len(heard[c]) + 1 = n
    BY <2>1 DEF IInv, TypeOK
  <2>. QED
    BY <2>1, <2>2, LenProperties DEF IInv, TypeOK, Links
<1>2. /\ UNCHANGED cut /\ torn \subseteq torn' /\ torn' \subseteq Consoles
      /\ \A d \in Consoles : d # c => (d \in torn' <=> d \in torn)
      /\ ReceivePart(c) => c \in torn'
  <2>1. torn' = torn \/ torn' = torn \cup {c}
    BY DEF Receive, ReceivePart, ReceiveNothing
  <2>2. torn \subseteq Consoles
    BY DEF IInv, TypeOK
  <2>. QED
    BY <2>1, <2>2 DEF Receive, ReceivePart, ReceiveNothing, Hear
<1>3. c \notin Disturbed' => \/ down[c] = <<>>
                             \/ Len(down[c]) = 1 /\ Fits(down[c][1], said[c][n])
  BY <1>2 DEF IInv, Dialogue, AnswerTo, LastSaid
<1>4. PICK a \in Seq(Answers), b \in Seq(Answers) :
        /\ Hear(c, a, b)
        /\ c \notin Disturbed' => a = down[c] /\ b = <<>>
        /\ down[c] # <<>> \/ mend[c] \in {"fin", "rst"}
  <2>0. /\ Len(down[c]) \in Nat /\ \A i \in 1..Len(down[c]) : down[c][i] \in Answers
        /\ \A k \in 1..Len(down[c]) : down[c] # <<>>
    BY <1>1, LenProperties, ElementOfSeq, EmptySeq
  <2>1. CASE Receive(c)
    <3>1. PICK k \in 1..Len(down[c]) : Hear(c, SubSeq(down[c], 1, k), Rest(c, k))
      BY <2>1 DEF Receive
    <3>2. SubSeq(down[c], 1, k) \in Seq(Answers) /\ Rest(c, k) \in Seq(Answers)
      BY <2>0, SubSeqProperties DEF Rest
    <3>3. ASSUME c \notin Disturbed' PROVE SubSeq(down[c], 1, k) = down[c] /\ Rest(c, k) = <<>>
      <4>0. Len(down[c]) = 1
        BY <1>3, <2>0, <3>3
      <4>1. k = 1
        BY <4>0, k \in 1..Len(down[c])
      <4>2. SubSeq(down[c], 1, 1) = down[c]
        BY <1>1, <4>0, SubSeqFull
      <4>3. SubSeq(down[c], 1 + 1, 1) = <<>>
        BY SubSeqEmpty
      <4>. QED
        BY <4>0, <4>1, <4>2, <4>3 DEF Rest
    <3>. QED
      BY <2>0, <3>1, <3>2, <3>3, Zenon
  <2>2. CASE ReceivePart(c)
    <3>1. PICK k \in 1..Len(down[c]) :
            Hear(c, Append(SubSeq(down[c], 1, k - 1), Part), <<Part>> \o Rest(c, k))
      BY <2>2 DEF ReceivePart
    <3>2. SubSeq(down[c], 1, k - 1) \in Seq(Answers) /\ Rest(c, k) \in Seq(Answers)
      <4>1. \A i \in 1..(k - 1) : i \in 1..Len(down[c])
        BY <2>0
      <4>. QED
        BY <2>0, <4>1, SubSeqProperties DEF Rest
    <3>3. Part \in Answers
      BY DEF Part, Answer, Answers, Texts
    <3>4. Append(SubSeq(down[c], 1, k - 1), Part) \in Seq(Answers)
      BY <3>2, <3>3, AppendIndices
    <3>5. <<Part>> \o Rest(c, k) \in Seq(Answers)
      <4>1. <<Part>> \in Seq(Answers)
        BY <3>3
      <4>. QED
        BY <3>2, <4>1, ConcatProperties
    <3>6. c \in Disturbed'
      BY <1>2, <2>2
    <3>. QED
      BY <2>0, <3>1, <3>4, <3>5, <3>6, Zenon
  <2>3. CASE ReceiveNothing(c)
    <3>1. /\ down[c] = <<>> /\ mend[c] \in {"fin", "rst"} /\ Hear(c, <<>>, <<>>)
      BY <2>3 DEF ReceiveNothing
    <3>2. <<>> \in Seq(Answers)
      BY EmptySeq
    <3>. QED
      BY <3>1, <3>2
  <2>. QED
    BY <2>1, <2>2, <2>3
<1>5. /\ UNCHANGED <<said, mend, up, mpc, backlog, serving, response, store, stop, cut>>
      /\ heard' = [heard EXCEPT ![c] = Append(@, a)]
      /\ down' = [down EXCEPT ![c] = b]
      /\ \/ /\ cpc' = [cpc EXCEPT ![c] = "exit"]
            /\ cend' = [cend EXCEPT ![c] = Closed(b # <<>>)]
         \/ cpc' = [cpc EXCEPT ![c] = "prompt"] /\ cend' = cend
  BY <1>4 DEF Hear, At
<1>6. /\ down' \in [Consoles -> Seq(Answers)] /\ down'[c] = b
      /\ \A d \in Consoles : d # c => down'[d] = down[d]
  BY <1>1, <1>5
<1>7. /\ Append(heard[c], a) \in Seq(Seq(Answers)) /\ Len(Append(heard[c], a)) = Len(heard[c]) + 1
      /\ DOMAIN heard[c] = 1..Len(heard[c])
      /\ DOMAIN Append(heard[c], a) = 1..(Len(heard[c]) + 1)
      /\ \A i \in 1..Len(heard[c]) : Append(heard[c], a)[i] = heard[c][i]
      /\ Append(heard[c], a)[Len(heard[c]) + 1] = a
  BY <1>1, AppendIndices
<1>8. /\ heard' \in [Consoles -> Seq(Seq(Answers))]
      /\ \A d \in Consoles : d # c => heard'[d] = heard[d]
      /\ heard'[c] = Append(heard[c], a)
  BY <1>1, <1>5, <1>7
<1>9. /\ Len(heard'[c]) = n /\ DOMAIN heard[c] = 1..(n - 1) /\ DOMAIN heard'[c] = 1..n
      /\ \A i \in 1..(n - 1) : heard'[c][i] = heard[c][i]
      /\ heard'[c][n] = a
      /\ n \in 1..n /\ n \notin 1..(n - 1) /\ \A i \in 1..n : i = n \/ i \in 1..(n - 1)
      /\ DOMAIN said[c] = 1..n /\ said[c] # <<>>
  <2>1. Len(heard[c]) = n - 1 /\ n - 1 \in Nat
    BY <1>1
  <2>2. DOMAIN said[c] = 1..n
    BY <1>1, LenProperties
  <2>3. n \in 1..n /\ n \notin 1..(n - 1) /\ \A i \in 1..n : i = n \/ i \in 1..(n - 1)
    BY <2>1
  <2>4. said[c] # <<>>
    BY <2>1, EmptySeq
  <2>. QED
    BY <1>1, <1>7, <1>8, <2>1, <2>2, <2>3, <2>4
<1>. HIDE DEF n
<1>10. /\ cpc' \in [Consoles -> {"start", "prompt", "waiting", "exit"}]
       /\ cend' \in [Consoles -> {"none", "open", "fin", "rst"}]
       /\ \A d \in Consoles : d # c => cpc'[d] = cpc[d] /\ cend'[d] = cend[d]
       /\ \/ cpc'[c] = "exit" /\ cend'[c] \in {"fin", "rst"}
          \/ cpc'[c] = "prompt" /\ cend'[c] = "open"
  BY <1>1, <1>5 DEF IInv, TypeOK, Closed
<1>11. TypeOK'
  <2>1. \A d \in Consoles : /\ cpc'[d] = "prompt" => Len(heard'[d]) = Len(said[d])
                            /\ cpc'[d] = "waiting" => Len(heard'[d]) + 1 = Len(said[d])
    BY <1>8, <1>9, <1>10 DEF IInv, TypeOK, n
  <2>. QED
    BY <1>2, <1>5, <1>6, <1>8, <1>10, <2>1 DEF IInv, TypeOK
<1>12. Links'
  <2>1. Len(heard'[c]) <= Len(said[c])
    BY <1>1, <1>9 DEF n
  <2>2. ASSUME NEW d \in Consoles, d # c
        PROVE  /\ cend'[d] = "open" <=> cpc'[d] \in {"prompt", "waiting"}
               /\ cpc'[d] = "start" => /\ said[d] = <<>> /\ heard'[d] = <<>> /\ up[d] = NoText
                                       /\ down'[d] = <<>> /\ mend[d] = "none"
               /\ Len(heard'[d]) <= Len(said[d])
    <3>1. cpc'[d] = cpc[d] /\ cend'[d] = cend[d] /\ heard'[d] = heard[d] /\ down'[d] = down[d]
      BY <1>6, <1>8, <1>10, <2>2
    <3>. QED
      BY <3>1 DEF IInv, Links
  <2>3. /\ mpc # "send" => response = <<>>
        /\ \A d \in Consoles : mend[d] = "open" <=> d = serving \/ d \in Range(backlog)
    BY DEF IInv, Links
  <2>. QED
    BY <1>5, <1>10, <2>1, <2>2, <2>3 DEF Links
<1>13. Commands' /\ ManagerSurvives'
  BY <1>2, <1>5 DEF IInv, Commands, ManagerSurvives
<1>14. \A d \in Consoles : /\ Answering(d)' <=> Answering(d)
                           /\ Asked(d)' <=> Asked(d)
                           /\ LastSaid(d)' = LastSaid(d)
  BY <1>5 DEF Answering, Asked, LastSaid
<1>15. c \notin Disturbed' => ~Asked(c) /\ ~Answering(c)
  <2>1. Answering(c) \/ Asked(c) => mend[c] = "open"
    BY DEF IInv, Links, Answering, Asked
  <2>. QED
    BY <1>2, <1>4, <2>1 DEF IInv, Dialogue
<1>16. Dialogue'
  <2>. SUFFICES ASSUME NEW d \in Consoles \ Disturbed'
                PROVE  /\ cpc'[d] = "prompt" => /\ ~Asked(d)' /\ ~Answering(d)'
                                                /\ down'[d] = <<>>
                       /\ Asked(d)' => /\ up'[d] = LastSaid(d)' /\ said'[d] # <<>>
                                       /\ down'[d] = <<>> /\ ~Answering(d)' /\ cend'[d] # "rst"
                       /\ Answering(d)' => /\ AnswerTo(d, response)' /\ down'[d] = <<>>
                                           /\ cend'[d] # "rst" /\ said'[d] # <<>>
                       /\ down'[d] # <<>> => AnswerTo(d, down[d])' /\ said'[d] # <<>>
    BY <1>5 DEF Dialogue
  <2>1. CASE d = c
    BY <1>4, <1>6, <1>14, <1>15, <2>1
  <2>2. CASE d # c
    <3>1. /\ AnswerTo(d, response)' <=> AnswerTo(d, response)
          /\ AnswerTo(d, down[d])' <=> AnswerTo(d, down[d])
      BY <1>6, <1>5, <1>14, <2>2 DEF AnswerTo
    <3>2. /\ cpc[d] = "prompt" => ~Asked(d) /\ ~Answering(d) /\ down[d] = <<>>
          /\ Asked(d) => /\ up[d] = LastSaid(d) /\ said[d] # <<>> /\ down[d] = <<>>
                         /\ ~Answering(d) /\ cend[d] # "rst"
          /\ Answering(d) => /\ AnswerTo(d, response) /\ down[d] = <<>> /\ cend[d] # "rst"
                             /\ said[d] # <<>>
          /\ down[d] # <<>> => AnswerTo(d, down[d]) /\ said[d] # <<>>
      BY <1>2 DEF IInv, Dialogue
    <3>. QED
      BY <1>6, <1>5, <1>10, <1>14, <2>2, <3>1, <3>2
  <2>. QED
    BY <2>1, <2>2
<1>17. AnswersInStep'
  <2>. SUFFICES ASSUME NEW d \in Consoles \ Disturbed', NEW i \in DOMAIN heard'[d]
                PROVE  \/ heard'[d][i] = <<>> /\ mend[d] # "open"
                       \/ Len(heard'[d][i]) = 1 /\ Fits(heard'[d][i][1], said[d][i])
    BY <1>5 DEF AnswersInStep
  <2>1. CASE i \in DOMAIN heard[d] /\ heard'[d][i] = heard[d][i]
    BY <1>2, <2>1 DEF IInv, AnswersInStep
  <2>2. CASE d = c /\ i = n
    BY <1>3, <1>4, <1>9, <2>2
  <2>. QED
    BY <1>8, <1>9, <2>1, <2>2
<1>18. OnePerSource' /\ EntriesAsTyped' /\ Truth' /\ AddedOnce'
  <2>1. ASSUME NEW d \in Consoles \ Disturbed', NEW i \in DOMAIN said'[d], NEW text,
               Given(d, i, text)'
        PROVE  Given(d, i, text)
    <3>1. CASE d = c
      <4>1. ~Answering(c)' /\ down'[c] = <<>> /\ a = down[c]
        BY <1>4, <1>6, <1>14, <1>15, <3>1
      <4>2. Told(c, i, text)'
        BY <2>1, <3>1, <4>1 DEF Given
      <4>3. CASE i \in 1..(n - 1)
        BY <1>9, <3>1, <4>2, <4>3 DEF Given, Told
      <4>4. CASE i = n
        BY <1>9, <3>1, <4>1, <4>2, <4>4 DEF Given, Told, n
      <4>. QED
        BY <1>5, <1>9, <3>1, <4>3, <4>4
    <3>2. CASE d # c
      <4>1. Told(d, i, text)' <=> Told(d, i, text)
        BY <1>8, <3>2 DEF Told
      <4>. QED
        BY <1>6, <1>5, <1>8, <1>14, <2>1, <3>2, <4>1 DEF Given
    <3>. QED
      BY <3>1, <3>2
  <2>. QED
    BY <1>2, <1>5, <2>1, StoreKept
<1>. QED
  BY <1>11, <1>12, <1>13, <1>16, <1>17, <1>18 DEF IInv

(***************************************************************************)
(* The manager reads a command, or a part of one, and carries it out.  To  *)
(* a console whose commands are read whole the answer is about the command *)
(* it sent last; what other consoles were told before stays true.          *)
(***************************************************************************)
LEMMA RecvIInv == IInv /\ Recv => IInv'
<1>. SUFFICES ASSUME IInv, Recv PROVE IInv'
  OBVIOUS
<1>1. /\ mpc = "recv" /\ up[serving] # NoText /\ mpc' = "send"
      /\ UNCHANGED <<cpc, said, heard, torn, cend, mend, down, backlog, serving>>
  BY DEF Recv
<1>2. PICK p \in Pieces(up[serving]) :
        /\ Obey(p[1])
        /\ up' = [up EXCEPT ![serving] = p[2]]
        /\ cut' = IF p[2] = NoText THEN cut ELSE cut \cup {serving}
  BY DEF Recv
<1>3. /\ serving \in Consoles /\ up \in [Consoles -> Texts \ {<<>>}] /\ cut \subseteq Consoles
      /\ up[serving] \in Texts /\ up[serving] # <<>> /\ TypeOK
  BY <1>1 DEF IInv, TypeOK
<1>4. mend[serving] = "open" /\ Asked(serving)
  BY <1>1, <1>3 DEF IInv, Links, Asked
<1>5. p[1] \in Texts /\ p[2] \in Texts /\ p[2] # <<>>
  BY <1>3, PiecesType
<1>6. /\ response' \in Seq(Answers) /\ Len(response') = 1
      /\ store' \subseteq [source : Specs, target : Specs, active : BOOLEAN]
      /\ stop' \in BOOLEAN
  BY <1>2, <1>3, <1>5, ObeyType
<1>7. /\ up' \in [Consoles -> Texts \ {<<>>}] /\ up'[serving] = p[2]
      /\ \A c \in Consoles : c # serving => up'[c] = up[c]
  BY <1>2, <1>3, <1>5
<1>8. /\ Disturbed \subseteq Disturbed' /\ cut' \subseteq Consoles
      /\ serving \notin Disturbed' => p[2] = NoText /\ Disturbed' = Disturbed
      /\ \A c \in Consoles : c # serving => (c \in Disturbed' <=> c \in Disturbed)
  BY <1>1, <1>2, <1>3
<1>9. serving \notin Disturbed' => p[1] = up[serving]
  <2>1. \/ p = <<up[serving], NoText>>
        \/ p[2] # NoText
    BY DEF Pieces
  <2>. QED
    BY <1>8, <2>1
<1>10. /\ \A c \in Consoles : Answering(c)' <=> c = serving
       /\ \A c \in Consoles : ~Answering(c)
       /\ \A c \in Consoles : LastSaid(c)' = LastSaid(c)
  BY <1>1 DEF Answering, LastSaid
<1>11. ASSUME serving \notin Disturbed'
       PROVE  /\ p[1] = LastSaid(serving) /\ said[serving] # <<>> /\ down[serving] = <<>>
              /\ cend[serving] # "rst" /\ cpc[serving] # "prompt"
              /\ LastSaid(serving) = said[serving][Len(said[serving])]
              /\ Len(said[serving]) \in DOMAIN said[serving]
  <2>1. serving \in Consoles \ Disturbed
    BY <1>3, <1>8, <1>11
  <2>2. /\ up[serving] = LastSaid(serving) /\ said[serving] # <<>> /\ down[serving] = <<>>
        /\ cend[serving] # "rst" /\ cpc[serving] # "prompt"
    BY <1>4, <2>1 DEF IInv, Dialogue
  <2>3. said[serving] \in Seq(Texts)
    BY <1>3 DEF TypeOK
  <2>4. Len(said[serving]) \in Nat /\ DOMAIN said[serving] = 1..Len(said[serving])
        /\ Len(said[serving]) # 0
    BY <2>2, <2>3, LenProperties, EmptySeq
  <2>5. Len(said[serving]) \in DOMAIN said[serving]
    BY <2>4
  <2>. QED
    BY <1>9, <1>11, <2>2, <2>5 DEF LastSaid
<1>12. TypeOK'
  BY <1>1, <1>6, <1>7, <1>8 DEF IInv, TypeOK
<1>13. Links'
  <2>1. cpc[serving] # "start"
    BY <1>1, <1>3 DEF IInv, Links
  <2>. QED
    BY <1>1, <1>3, <1>7, <2>1 DEF IInv, Links
<1>14. Commands' /\ ManagerSurvives'
  BY <1>1 DEF IInv, Commands, ManagerSurvives
<1>15. serving \notin Disturbed' => AnswerTo(serving, response)'
  <2>. SUFFICES ASSUME serving \notin Disturbed' PROVE AnswerTo(serving, response)'
    OBVIOUS
  <2>1. Command(p[1])
    BY <1>3, <1>11 DEF IInv, Commands
  <2>2. Len(response') = 1 /\ Fits(response'[1], p[1])
    BY <1>2, <1>3, <2>1, ObeyFits
  <2>. QED
    BY <1>1, <1>10, <1>11, <1>3, <2>2 DEF AnswerTo
<1>16. Dialogue'
  <2>. SUFFICES ASSUME NEW c \in Consoles, c \notin Disturbed'
                PROVE  /\ cpc'[c] = "prompt" => /\ ~Asked(c)' /\ ~Answering(c)'
                                                /\ down'[c] = <<>>
                       /\ Asked(c)' => /\ up'[c] = LastSaid(c)' /\ said'[c] # <<>>
                                       /\ down'[c] = <<>> /\ ~Answering(c)' /\ cend'[c] # "rst"
                       /\ Answering(c)' => /\ AnswerTo(c, response)' /\ down'[c] = <<>>
                                           /\ cend'[c] # "rst" /\ said'[c] # <<>>
                       /\ down'[c] # <<>> => AnswerTo(c, down[c])' /\ said'[c] # <<>>
    BY DEF Dialogue
  <2>1. CASE c = serving
    <3>1. ~Asked(c)'
      BY <1>7, <1>8, <2>1 DEF Asked
    <3>. QED
      BY <1>1, <1>11, <1>15, <2>1, <3>1
  <2>2. CASE c # serving
    <3>1. AnswerTo(c, down[c])' <=> AnswerTo(c, down[c])
      BY <1>1, <1>10 DEF AnswerTo
    <3>2. c \in Consoles \ Disturbed /\ (Asked(c)' <=> Asked(c)) /\ ~Answering(c)'
      BY <1>1, <1>7, <1>8, <1>10, <2>2 DEF Asked
    <3>3. /\ cpc[c] = "prompt" => ~Asked(c) /\ down[c] = <<>>
          /\ Asked(c) => /\ up[c] = LastSaid(c) /\ said[c] # <<>> /\ down[c] = <<>>
                         /\ cend[c] # "rst"
          /\ down[c] # <<>> => AnswerTo(c, down[c]) /\ said[c] # <<>>
      BY <3>2 DEF IInv, Dialogue
    <3>. QED
      BY <1>1, <1>7, <1>10, <2>2, <3>1, <3>2, <3>3
  <2>. QED
    BY <2>1, <2>2
<1>17. AnswersInStep'
  BY <1>1, <1>8 DEF IInv, AnswersInStep
<1>18. /\ \A e \in store : \E f \in store' :
              /\ f.source = e.source /\ f.target = e.target
              /\ ~e.active => ~f.active
       /\ \A f \in store' :
              \/ \E e \in store : f.source = e.source /\ f.target = e.target
              \/ LET ws == Words(p[1])
                 IN ws[1] = <<"add">> /\ Denotes(ws[2], f.source) /\ Denotes(ws[3], f.target)
       /\ OnePerSource'
  BY <1>2, <1>3, <1>5, ObeyStore DEF IInv
<1>19. EntriesAsTyped'
  <2>. SUFFICES ASSUME Disturbed' = {}, NEW f \in store'
                PROVE  \E c \in Consoles : \E i \in DOMAIN said[c] :
                         LET ws == Words(said[c][i])
                         IN /\ ws[1] = <<"add">>
                            /\ Denotes(ws[2], f.source) /\ Denotes(ws[3], f.target)
    BY <1>1 DEF EntriesAsTyped
  <2>1. CASE \E e \in store : f.source = e.source /\ f.target = e.target
    BY <1>8, <2>1 DEF IInv, EntriesAsTyped
  <2>2. CASE LET ws == Words(p[1])
             IN ws[1] = <<"add">> /\ Denotes(ws[2], f.source) /\ Denotes(ws[3], f.target)
    BY <1>3, <1>11, <2>2
  <2>. QED
    BY <1>18, <2>1, <2>2
<1>20. ASSUME NEW c \in Consoles, c \notin Disturbed', NEW i, NEW text, Given(c, i, text)'
       PROVE  \/ c \notin Disturbed /\ Given(c, i, text)
              \/ /\ c = serving /\ i = Len(said[c])
                 /\ \E k \in DOMAIN response' : response'[k].text = text
  <2>1. Told(c, i, text)' <=> Told(c, i, text)
    BY <1>1 DEF Told
  <2>. QED
    BY <1>1, <1>8, <1>10, <1>20, <2>1 DEF Given
<1>21. ASSUME NEW k \in DOMAIN response'
       PROVE  /\ \A word \in {"added", "exists", "stopped"} :
                   response'[k].text = word => Backed(p[1], word)'
              /\ response'[k].text = "added" =>
                   \A e \in store : e.source # parse_directory_spec(Words(p[1])[2])
  BY <1>2, <1>3, <1>5, ObeyTrue
<1>22. ASSUME NEW l, NEW text, Backed(l, text) PROVE Backed(l, text)'
  BY <1>18, <1>22 DEF Backed
<1>23. Truth'
  <2>. SUFFICES ASSUME NEW c \in Consoles, c \notin Disturbed', NEW i \in DOMAIN said[c],
                       NEW text \in {"added", "exists", "stopped"}, Given(c, i, text)'
                PROVE  Backed(said[c][i], text)'
    <3>1. \A c \in Consoles \ Disturbed' : \A i \in DOMAIN said[c] :
            \A text \in {"added", "exists", "stopped"} :
              Given(c, i, text)' => Backed(said[c][i], text)'
      OBVIOUS
    <3>. QED
      BY <1>1, <3>1 DEF Truth
  <2>1. CASE c \notin Disturbed /\ Given(c, i, text)
    <3>1. Backed(said[c][i], text)
      BY <2>1 DEF IInv, Truth
    <3>. QED
      BY <1>1, <1>22, <3>1
  <2>2. CASE /\ c = serving /\ i = Len(said[c])
             /\ \E k \in DOMAIN response' : response'[k].text = text
    <3>1. Backed(p[1], text)'
      BY <1>21, <2>2
    <3>2. said[c][i] = p[1]
      BY <1>11, <2>2
    <3>. QED
      BY <1>1, <3>1, <3>2
  <2>. QED
    BY <1>20, <2>1, <2>2
<1>24. ASSUME NEW c \in Consoles \ Disturbed, NEW i \in DOMAIN said[c], Given(c, i, "added")
       PROVE  \E e \in store : e.source = SourceOf(c, i)
  BY <1>24 DEF IInv, Truth, Backed, SourceOf
<1>25. \A c, i : SourceOf(c, i)' = SourceOf(c, i)
  BY <1>1 DEF SourceOf
<1>26. AddedOnce'
  <2>. SUFFICES ASSUME NEW c \in Consoles, c \notin Disturbed',
                       NEW d \in Consoles, d \notin Disturbed',
                       NEW i \in DOMAIN said[c], NEW k \in DOMAIN said[d],
                       Given(c, i, "added")', Given(d, k, "added")',
                       SourceOf(c, i) = SourceOf(d, k)
                PROVE  c = d /\ i = k
    BY <1>1, <1>25 DEF AddedOnce
  <2>. DEFINE Old(x, j) == x \notin Disturbed /\ Given(x, j, "added")
              Fresh(x, j) == /\ x = serving /\ j = Len(said[x])
                             /\ \E n \in DOMAIN response' : response'[n].text = "added"
  <2>1. Old(c, i) \/ Fresh(c, i)
    BY <1>20
  <2>2. Old(d, k) \/ Fresh(d, k)
    BY <1>20
  <2>3. ASSUME NEW x \in Consoles, x \notin Disturbed', NEW j \in DOMAIN said[x], Fresh(x, j)
        PROVE  \A e \in store : e.source # SourceOf(x, j)
    <3>1. said[x][j] = p[1]
      BY <1>11, <2>3
    <3>. QED
      BY <1>21, <2>3, <3>1 DEF SourceOf
  <2>4. ASSUME NEW x \in Consoles, NEW j \in DOMAIN said[x], Old(x, j)
        PROVE  \E e \in store : e.source = SourceOf(x, j)
    BY <1>24, <2>4
  <2>5. CASE Old(c, i) /\ Old(d, k)
    BY <2>5 DEF IInv, AddedOnce
  <2>6. CASE Fresh(c, i) /\ Fresh(d, k)
    BY <2>6
  <2>. HIDE DEF Old, Fresh
  <2>. QED
    BY <2>1, <2>2, <2>3, <2>4, <2>5, <2>6
<1>. QED
  BY <1>12, <1>13, <1>14, <1>16, <1>17, <1>18, <1>19, <1>23, <1>26 DEF IInv

-----------------------------------------------------------------------------
(***************************************************************************)
(* The theorems.                                                           *)
(***************************************************************************)
\* Every step of the manager, of a console or of its user keeps the invariant
LEMMA NextIInv == IInv /\ [Next]_vars => IInv'
<1>. SUFFICES ASSUME IInv, [Next]_vars PROVE IInv'
  OBVIOUS
<1>1. CASE ManagerStep
  BY <1>1, AcceptIInv, RecvIInv, SendAnswerIInv, AnswerLostIInv, EndsIInv, HangupIInv
  DEF ManagerStep
<1>2. CASE Signal \/ Ended \/ UNCHANGED vars
  BY <1>2, SignalIInv DEF Ended
<1>3. ASSUME NEW c \in Consoles, ConsoleStep(c) PROVE IInv'
  <2>1. CASE ReceiveFails(c)
    BY <2>1, LeaveIInv DEF ReceiveFails
  <2>. QED
    BY <1>3, <2>1, ConnectIInv, ReceiveIInv DEF ConsoleStep
<1>4. ASSUME NEW c \in Consoles, UserStep(c) PROVE IInv'
  <2>1. CASE EndOfInput(c) \/ Kill(c)
    BY <2>1, LeaveIInv DEF EndOfInput, Kill
  <2>2. ASSUME NEW l \in Lines[c], TypeLocal(c, l) PROVE IInv'
    BY <2>2, SignalIInv DEF TypeLocal
  <2>. QED
    BY <1>4, <2>1, <2>2, SendIInv DEF UserStep
<1>. QED
  BY <1>1, <1>2, <1>3, <1>4 DEF Next

\* The invariant holds in every state of every dialogue
THEOREM ConsoleInvariant == Spec => []IInv
<1>. QED
  BY InitIInv, NextIInv, PTL DEF Spec

\* Type correctness; no console waits twice in the accept queue, and each
\* waits for the answer to its last command
THEOREM ConsoleTypeOK == Spec => []TypeOK
<1>1. IInv => TypeOK
  BY DEF IInv
<1>. QED
  BY <1>1, ConsoleInvariant, PTL

\* receive_response returns the answer to the command that was just sent,
\* unless a recv took a part for the whole, of a command or of an answer
THEOREM AnswersAlwaysInStep == Spec => []AnswersInStep
<1>1. IInv => AnswersInStep
  BY DEF IInv
<1>. QED
  BY <1>1, ConsoleInvariant, PTL

\* What handle_add_command and handle_cancel_command reply stays true of the
\* store while other consoles change it, and at most one is told "Added"
THEOREM AnswersAlwaysTrue == Spec => []AnswersTrue
<1>1. IInv => AnswersTrue
  <2>. SUFFICES ASSUME IInv, NEW c \in Consoles \ Disturbed, NEW i \in DOMAIN heard[c]
                PROVE  LET ws == Words(said[c][i])
                       IN /\ Told(c, i, "added") \/ Told(c, i, "exists") \/ Told(c, i, "stopped") =>
                               \E e \in store : /\ Denotes(ws[2], e.source)
                                                /\ Told(c, i, "stopped") => ~e.active
                                                /\ Told(c, i, "added") => Denotes(ws[3], e.target)
                          /\ \A d \in Consoles \ Disturbed : \A k \in DOMAIN heard[d] :
                               /\ Told(c, i, "added") /\ Told(d, k, "added")
                               /\ parse_directory_spec(ws[2])
                                    = parse_directory_spec(Words(said[d][k])[2])
                               => c = d /\ i = k
    BY DEF AnswersTrue
  <2>1. ASSUME NEW d \in Consoles PROVE DOMAIN heard[d] \subseteq DOMAIN said[d]
    <3>1. heard[d] \in Seq(Seq(Answers)) /\ said[d] \in Seq(Texts) /\ Len(heard[d]) <= Len(said[d])
      BY DEF IInv, TypeOK, Links
    <3>2. /\ Len(heard[d]) \in Nat /\ DOMAIN heard[d] = 1..Len(heard[d])
          /\ Len(said[d]) \in Nat /\ DOMAIN said[d] = 1..Len(said[d])
      BY <3>1, LenProperties
    <3>. QED
      BY <3>1, <3>2
  <2>2. ASSUME NEW text \in {"added", "exists", "stopped"}, Told(c, i, text)
        PROVE  Backed(said[c][i], text)
    BY <2>1, <2>2 DEF IInv, Truth, Given
  <2>3. ASSUME NEW s, NEW t, Told(c, i, s), Told(c, i, t) PROVE s = t
    <3>1. heard[c][i] = <<>> \/ Len(heard[c][i]) = 1
      BY DEF IInv, AnswersInStep
    <3>2. heard[c][i] \in Seq(Answers)
      BY ElementOfSeq, LenProperties DEF IInv, TypeOK
    <3>3. DOMAIN heard[c][i] = {} \/ DOMAIN heard[c][i] = 1..1
      BY <3>1, <3>2, LenProperties
    <3>. QED
      BY <2>3, <3>3 DEF Told
  <2>4. ASSUME Told(c, i, "added") \/ Told(c, i, "exists") \/ Told(c, i, "stopped")
        PROVE  \E e \in store : /\ Denotes(Words(said[c][i])[2], e.source)
                                /\ Told(c, i, "stopped") => ~e.active
                                /\ Told(c, i, "added") => Denotes(Words(said[c][i])[3], e.target)
    <3>1. PICK t \in {"added", "exists", "stopped"} : Told(c, i, t)
      BY <2>4
    <3>2. Backed(said[c][i], t)
      BY <2>2, <3>1
    <3>3. /\ Told(c, i, "stopped") => t = "stopped"
          /\ Told(c, i, "added") => t = "added"
      BY <2>3, <3>1
    <3>. QED
      BY <3>2, <3>3 DEF Backed
  <2>5. ASSUME NEW d \in Consoles \ Disturbed, NEW k \in DOMAIN heard[d],
               Told(c, i, "added"), Told(d, k, "added"), SourceOf(c, i) = SourceOf(d, k)
        PROVE  c = d /\ i = k
    <3>1. Given(c, i, "added") /\ Given(d, k, "added")
      BY <2>5 DEF Given
    <3>. QED
      BY <2>1, <2>5, <3>1 DEF IInv, AddedOnce
  <2>. QED
    BY <2>4, <2>5 DEF SourceOf
<1>. QED
  BY <1>1, ConsoleInvariant, PTL

\* As long as no recv took a part of a command or answer for the whole, each
\* entry that handle_add_command makes is what some user typed
THEOREM EntriesAlwaysAsTyped == Spec => []EntriesAsTyped
<1>1. IInv => EntriesAsTyped
  BY DEF IInv
<1>. QED
  BY <1>1, ConsoleInvariant, PTL

\* A sequence is known by its first element and the others
LEMMA SameTail ==
  ASSUME NEW S, NEW s \in Seq(S), NEW t \in Seq(S), s # <<>>, t # <<>>,
         s[1] = t[1], Tail(s) = Tail(t)
  PROVE  s = t
<1>1. Len(s) \in Nat /\ Len(t) \in Nat /\ Len(s) >= 1 /\ Len(t) >= 1
  BY LenProperties, EmptySeq
<1>2. Len(s) = Len(t)
  BY <1>1
<1>3. ASSUME NEW i \in 1..Len(s) PROVE s[i] = t[i]
  <2>1. CASE i = 1
    BY <2>1
  <2>2. CASE i # 1
    <3>1. i - 1 \in 1..(Len(s) - 1) /\ (i - 1) + 1 = i
      BY <1>1, <2>2
    <3>2. Tail(s)[i - 1] = s[i] /\ Tail(t)[i - 1] = t[i]
      BY <1>1, <1>2, <3>1
    <3>. QED
      BY <3>2
  <2>. QED
    BY <2>1, <2>2
<1>. QED
  BY <1>2, <1>3, SeqEqual

\* find_sync_info keeps apart all that the client and connect keep apart: two
\* entries name one place only by a leading "/" or by a port beyond 16 bits
THEOREM SourcesAlwaysApart == Spec => []SourcesApart
<1>1. IInv => SourcesApart
  <2>. SUFFICES ASSUME IInv, NEW e \in store, NEW f \in store,
                       Place(e.source) = Place(f.source),
                       Rooted(e.source) = Rooted(f.source),
                       ~(e.source.port > 65535), ~(f.source.port > 65535)
                PROVE  e = f
    BY DEF SourcesApart
  <2>1. e.source \in Specs /\ f.source \in Specs
    BY DEF IInv, TypeOK
  <2>2. /\ e.source.port \in Nat /\ f.source.port \in Nat
        /\ e.source.dir \in Seq(STRING) /\ f.source.dir \in Seq(STRING)
    BY <2>1 DEF Specs
  <2>3. e.source.port % 65536 = f.source.port % 65536 /\ e.source.host = f.source.host
    BY DEF Place
  <2>4. e.source.port = f.source.port
    <3>. DEFINE p == e.source.port
                q == f.source.port
    <3>1. p \in Nat /\ q \in Nat /\ ~(p > 65535) /\ ~(q > 65535) /\ p % 65536 = q % 65536
      BY <2>2, <2>3
    <3>. HIDE DEF p, q
    <3>2. p <= 65535 /\ q <= 65535
      BY <3>1
    <3>3. p % 65536 = p /\ q % 65536 = q
      BY <3>1, <3>2
    <3>4. p = q
      BY <3>1, <3>3
    <3>. QED
      BY <3>4 DEF p, q
  <2>5. e.source.dir = f.source.dir
    <3>1. CASE Rooted(e.source)
      <4>1. Tail(e.source.dir) = Tail(f.source.dir)
        BY <3>1 DEF Place
      <4>2. /\ e.source.dir # <<>> /\ f.source.dir # <<>>
            /\ e.source.dir[1] = f.source.dir[1]
        <5>1. Rooted(e.source) /\ Rooted(f.source)
          BY <3>1
        <5>. QED
          BY <5>1 DEF Rooted
      <4>. QED
        <5>. DEFINE d == e.source.dir
                    g == f.source.dir
        <5>1. /\ d \in Seq(STRING) /\ g \in Seq(STRING) /\ d # <<>> /\ g # <<>>
              /\ d[1] = g[1] /\ Tail(d) = Tail(g)
          BY <2>2, <4>1, <4>2
        <5>. HIDE DEF d, g
        <5>2. d = g
          BY <5>1, SameTail
        <5>. QED
          BY <5>2 DEF d, g
    <3>2. CASE ~Rooted(e.source)
      BY <3>2 DEF Place
    <3>. QED
      BY <3>1, <3>2
  <2>6. e.source = f.source
    BY <2>1, <2>3, <2>4, <2>5, SMTT(30) DEF Specs
  <2>. QED
    BY <2>6 DEF IInv, OnePerSource
<1>. QED
  BY <1>1, ConsoleInvariant, PTL

\* However consoles leave, SIGPIPE does not end the manager, unless commands
\* or answers came in pieces
THEOREM ManagerAlwaysSurvives == Spec => []ManagerSurvives
<1>1. IInv => ManagerSurvives
  BY DEF IInv
<1>. QED
  BY <1>1, ConsoleInvariant, PTL

(***************************************************************************)
(* No entry leaves the store or changes its directories, and `cancel' is   *)
(* final: nothing activates an entry again.                                *)
(***************************************************************************)
CancelIsFinal ==
  \A e \in store : \E f \in store' :
    /\ f.source = e.source /\ f.target = e.target
    /\ ~e.active => ~f.active

\* deactivate_sync_info has no inverse: `add' of a cancelled pair answers that
\* it exists, whoever sends it
THEOREM CancelStaysFinal == Spec => [][CancelIsFinal]_vars
<1>1. ASSUME IInv, Next PROVE CancelIsFinal
  <2>1. CASE store' = store
    BY <2>1 DEF CancelIsFinal
  <2>2. CASE Recv
    <3>1. PICK p \in Pieces(up[serving]) : Obey(p[1])
      BY <2>2 DEF Recv
    <3>2. TypeOK /\ OnePerSource /\ up[serving] \in Texts /\ up[serving] # <<>>
      BY <1>1, <2>2 DEF IInv, TypeOK, Recv
    <3>3. p[1] \in Texts
      BY <3>2, PiecesType
    <3>. QED
      BY <3>1, <3>2, <3>3, ObeyStore DEF CancelIsFinal
  <2>. QED
    BY <1>1, <2>1, <2>2
    DEF Next, ManagerStep, ConsoleStep, UserStep, Accept, SendAnswer, AnswerLost, AfterAnswer,
        ManagerKilled, ProcessEnds, Hangup, MainEnds, Signal, Ended, Connect, ConnectRefused,
        Receive, ReceivePart, ReceiveNothing, Hear, ReceiveFails, Leave, TypeLocal, Send, SendLost,
        SendFails, Say, EndOfInput, Kill, vars, mgrvars
<1>2. IInv /\ [Next]_vars => [CancelIsFinal]_vars
  BY <1>1
<1>. QED
  BY <1>2, ConsoleInvariant, PTL DEF Spec
=============================================================================
