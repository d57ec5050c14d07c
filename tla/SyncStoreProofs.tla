--------------------------- MODULE SyncStoreProofs --------------------------
(***************************************************************************)
(* Proofs about SyncStore for any threads, any sources and a heap of any   *)
(* size.                                                                   *)
(***************************************************************************)
EXTENDS SyncStore, NumberFacts, FiniteSetTheorems

-----------------------------------------------------------------------------
(***************************************************************************)
(* Lists: n entries of a heap hp, in the order in which the pointers from  *)
(* hd on lead to them, each with a source of its own.                      *)
(***************************************************************************)
N == Cardinality(Nodes)

\* The address of the i-th entry, or NULL behind the last
Entry(L, n, i) == IF i \in 1..n THEN L[i] ELSE NULL

Chain(hp, hd, n, L) ==
  /\ n \in Nat /\ L \in [1..n -> Nodes] /\ \A i \in 1..n : L[i] \in DOMAIN hp
  /\ hd = Entry(L, n, 1)
  /\ \A i \in 1..n : hp[L[i]].next = Entry(L, n, i + 1)
  /\ \A i, k \in 1..n : hp[L[i]].source = hp[L[k]].source => i = k

\* The walk that Pointer describes, for any heap and head
Walk(hp, hd, P) ==
  P = [i \in 1..N + 1 |-> IF i = 1 THEN hd
                          ELSE IF P[i - 1] \in DOMAIN hp THEN hp[P[i - 1]].next
                          ELSE NULL]

Walked(hp, hd) == CHOOSE P : Walk(hp, hd, P)

\* Pointer is that walk, before a step and after it
LEMMA PointerWalked ==
  Pointer = Walked(heap, head) /\ Pointer' = Walked(heap', head')
BY DEF Pointer, Walked, Walk, N, Allocated

\* There are no more entries than addresses
LEMMA ChainLength ==
  ASSUME NEW hp, NEW hd, NEW n, NEW L, Chain(hp, hd, n, L)
  PROVE  N \in Nat /\ n \in 0..N
<1>1. N \in Nat
  BY StoreAssumption, FS_CardinalityType DEF N
<1>2. L \in Injection(1..n, Nodes)
  BY DEF Chain, Injection, IsInjective
<1>3. Cardinality(1..n) <= Cardinality(Nodes)
  BY <1>2, StoreAssumption, FS_Injection
<1>4. n \in Nat /\ Cardinality(1..n) = n
  <2>1. n \in Nat
    BY DEF Chain
  <2>2. Cardinality(1..n) = IF 1 > n THEN 0 ELSE n - 1 + 1
    BY <2>1, FS_Interval
  <2>. QED
    BY <2>1, <2>2
<1>. QED
  BY <1>1, <1>3, <1>4 DEF N

\* The walk visits the entries of the list one after the other, and then NULL
LEMMA WalkedChain ==
  ASSUME NEW hp, NEW hd, NEW n, NEW L, Chain(hp, hd, n, L), NULL \notin DOMAIN hp
  PROVE  Walked(hp, hd) = [i \in 1..N + 1 |-> Entry(L, n, i)]
<1>. DEFINE G == [i \in 1..N + 1 |-> Entry(L, n, i)]
<1>1. N \in Nat /\ n \in 0..N
  BY ChainLength
<1>2. \A i \in 1..N + 1 : G[i] = Entry(L, n, i)
  OBVIOUS
<1>3. ASSUME NEW i \in 1..N + 1, i # 1
      PROVE  Entry(L, n, i) = IF Entry(L, n, i - 1) \in DOMAIN hp
                              THEN hp[Entry(L, n, i - 1)].next ELSE NULL
  <2>1. i - 1 \in 1..N + 1 /\ (i - 1) + 1 = i
    BY <1>1, <1>3
  <2>2. CASE i - 1 \in 1..n
    <3>1. Entry(L, n, i - 1) = L[i - 1]
      BY <2>2 DEF Entry
    <3>2. L[i - 1] \in DOMAIN hp /\ hp[L[i - 1]].next = Entry(L, n, i)
      BY <2>1, <2>2 DEF Chain
    <3>. QED
      BY <3>1, <3>2
  <2>3. CASE i - 1 \notin 1..n
    <3>1. i \notin 1..n
      BY <1>1, <2>1, <2>3
    <3>. QED
      BY <2>3, <3>1 DEF Entry
  <2>. QED
    BY <2>2, <2>3
<1>4. hd = Entry(L, n, 1)
  BY DEF Chain
<1>5. Walk(hp, hd, G)
  <2>1. \A i \in 1..N + 1 : i # 1 => i - 1 \in 1..N + 1
    BY <1>1
  <2>2. \A i \in 1..N + 1 : G[i] = IF i = 1 THEN hd
                                   ELSE IF G[i - 1] \in DOMAIN hp THEN hp[G[i - 1]].next
                                   ELSE NULL
    BY <1>2, <1>3, <1>4, <2>1
  <2>3. G = [i \in 1..N + 1 |-> G[i]]
    OBVIOUS
  <2>. HIDE DEF G
  <2>. QED
    BY <2>2, <2>3 DEF Walk
<1>. HIDE DEF G
<1>6. ASSUME NEW P, Walk(hp, hd, P) PROVE P = G
  <2>. DEFINE T == {i \in 1..N + 1 : P[i] # G[i]}
  <2>1. /\ P = [i \in 1..N + 1 |-> P[i]] /\ G = [i \in 1..N + 1 |-> G[i]]
        /\ \A i \in 1..N + 1 : P[i] = IF i = 1 THEN hd
                                      ELSE IF P[i - 1] \in DOMAIN hp THEN hp[P[i - 1]].next
                                      ELSE NULL
        /\ \A i \in 1..N + 1 : G[i] = IF i = 1 THEN hd
                                      ELSE IF G[i - 1] \in DOMAIN hp THEN hp[G[i - 1]].next
                                      ELSE NULL
    BY <1>5, <1>6 DEF Walk
  <2>2. ASSUME T # {} PROVE FALSE
    <3>1. T \in SUBSET Nat
      BY <1>1
    <3>2. PICK m \in T : \A k \in T : m <= k
      BY <2>2, <3>1, LeastElement
    <3>3. m # 1
      BY <2>1, <3>2
    <3>4. m - 1 \in 1..N + 1 /\ ~(m <= m - 1)
      BY <1>1, <3>2, <3>3
    <3>5. P[m - 1] = G[m - 1]
      BY <3>2, <3>4
    <3>6. m \in 1..N + 1 /\ P[m] # G[m]
      BY <3>2
    <3>. HIDE DEF T
    <3>7. P[m] = IF P[m - 1] \in DOMAIN hp THEN hp[P[m - 1]].next ELSE NULL
      BY ZenonT(30), <2>1, <3>3, <3>6
    <3>8. G[m] = IF G[m - 1] \in DOMAIN hp THEN hp[G[m - 1]].next ELSE NULL
      BY ZenonT(30), <2>1, <3>3, <3>6
    <3>. QED
      BY <3>5, <3>6, <3>7, <3>8
  <2>. QED
    BY <2>1, <2>2
<1>. QED
  BY <1>5, <1>6 DEF Walked, G

\* The addresses that the walk visits are those of the entries
LEMMA LinkedEntries ==
  ASSUME NEW hp, NEW hd, NEW n, NEW L, Chain(hp, hd, n, L), NULL \notin DOMAIN hp
  PROVE  /\ \A i \in 1..N + 1 : Walked(hp, hd)[i] = Entry(L, n, i)
         /\ DOMAIN Walked(hp, hd) = 1..N + 1
         /\ Walked(hp, hd)[N + 1] = NULL
         /\ {Walked(hp, hd)[i] : i \in DOMAIN Walked(hp, hd)} \ {NULL} = {L[i] : i \in 1..n}
         /\ Cardinality({L[i] : i \in 1..n}) = n
<1>. DEFINE P == Walked(hp, hd)
<1>. HIDE DEF P
<1>1. N \in Nat /\ n \in 0..N
  BY ChainLength
<1>2. N \in Nat /\ n \in 0..N /\ n \in Nat
  BY <1>1
<1>. DEFINE G == [i \in 1..N + 1 |-> Entry(L, n, i)]
<1>3. Walked(hp, hd) = G
  BY WalkedChain
<1>4. /\ \A i \in 1..N + 1 : P[i] = Entry(L, n, i)
      /\ DOMAIN P = 1..N + 1
  <2>1. P = G
    BY <1>3 DEF P
  <2>. QED
    BY <2>1
<1>5. N + 1 \in 1..N + 1 /\ N + 1 \notin 1..n /\ \A i \in 1..n : i \in 1..N + 1
  BY <1>2
<1>6. P[N + 1] = NULL
  BY <1>4, <1>5 DEF Entry
<1>7. \A i \in 1..n : L[i] # NULL
  BY DEF Chain
<1>8. {P[i] : i \in DOMAIN P} \ {NULL} = {L[i] : i \in 1..n}
  <2>1. ASSUME NEW x \in {P[i] : i \in DOMAIN P} \ {NULL} PROVE x \in {L[i] : i \in 1..n}
    BY <1>4 DEF Entry
  <2>2. ASSUME NEW i \in 1..n PROVE L[i] \in {P[k] : k \in DOMAIN P} \ {NULL}
    <3>1. i \in DOMAIN P /\ P[i] = L[i] /\ L[i] # NULL
      BY <1>4, <1>5, <1>7 DEF Entry
    <3>. QED
      BY <3>1
  <2>. QED
    BY <2>1, <2>2
<1>9. Cardinality({L[i] : i \in 1..n}) = n
  <2>. DEFINE E == {L[i] : i \in 1..n}
  <2>1. L \in Bijection(1..n, E)
    <3>1. L \in [1..n -> E]
      BY DEF Chain
    <3>2. IsInjective(L)
      BY DEF Chain, IsInjective
    <3>3. \A e \in E : \E i \in 1..n : L[i] = e
      OBVIOUS
    <3>. QED
      BY <3>1, <3>2, <3>3 DEF Bijection, Injection, Surjection
  <2>2. ExistsBijection(1..n, E)
    BY <2>1 DEF ExistsBijection
  <2>3. /\ IsFiniteSet(1..n)
        /\ Cardinality(1..n) = IF 1 > n THEN 0 ELSE n - 1 + 1
    BY <1>2, FS_Interval
  <2>4. Cardinality(1..n) = n
    BY <1>2, <2>3
  <2>. HIDE DEF E
  <2>5. Cardinality(E) = n
    BY <2>2, <2>3, <2>4, FS_Bijection
  <2>. QED
    BY <2>5 DEF E
<1>. QED
  BY <1>4, <1>6, <1>8, <1>9 DEF P

\* What the walk finds, before a step ...
LEMMA ChainLinked ==
  ASSUME NEW n, NEW L, Chain(heap, head, n, L), NULL \notin DOMAIN heap
  PROVE  /\ \A i \in 1..N + 1 : Pointer[i] = Entry(L, n, i)
         /\ DOMAIN Pointer = 1..N + 1
         /\ Pointer[N + 1] = NULL
         /\ Linked = {L[i] : i \in 1..n}
         /\ Cardinality(Linked) = n
<1>1. Pointer = Walked(heap, head)
  BY PointerWalked
<1>2. /\ \A i \in 1..N + 1 : Walked(heap, head)[i] = Entry(L, n, i)
      /\ DOMAIN Walked(heap, head) = 1..N + 1
      /\ Walked(heap, head)[N + 1] = NULL
      /\ {Walked(heap, head)[i] : i \in DOMAIN Walked(heap, head)} \ {NULL} = {L[i] : i \in 1..n}
      /\ Cardinality({L[i] : i \in 1..n}) = n
  BY LinkedEntries
<1>3. Linked = {L[i] : i \in 1..n}
  BY <1>1, <1>2 DEF Linked
<1>. QED
  BY <1>1, <1>2, <1>3

\* ... and after it
LEMMA ChainLinkedNext ==
  ASSUME NEW n, NEW L, Chain(heap', head', n, L), NULL \notin DOMAIN heap'
  PROVE  /\ \A i \in 1..N + 1 : Pointer'[i] = Entry(L, n, i)
         /\ Pointer'[N + 1] = NULL
         /\ Linked' = {L[i] : i \in 1..n}
         /\ Cardinality(Linked') = n
<1>1. Pointer' = Walked(heap', head')
  BY PointerWalked
<1>2. /\ \A i \in 1..N + 1 : Walked(heap', head')[i] = Entry(L, n, i)
      /\ DOMAIN Walked(heap', head') = 1..N + 1
      /\ Walked(heap', head')[N + 1] = NULL
      /\ {Walked(heap', head')[i] : i \in DOMAIN Walked(heap', head')} \ {NULL}
           = {L[i] : i \in 1..n}
      /\ Cardinality({L[i] : i \in 1..n}) = n
  BY LinkedEntries
<1>3. Linked' = {L[i] : i \in 1..n}
  BY <1>1, <1>2 DEF Linked
<1>. QED
  BY <1>1, <1>2, <1>3

-----------------------------------------------------------------------------
(***************************************************************************)
(* The inductive invariant: the list is a chain of count entries, and the  *)
(* pointer that deactivate_sync_info holds is in it until it is stale.     *)
(***************************************************************************)
Chained == \E L \in [1..count -> Nodes] : Chain(heap, head, count, L)

HeldIsLinked ==
  \A t \in Threads : pc[t] = "found" /\ t \notin stale => info[t] \in Linked

IInv ==
  /\ TypeOK
  /\ ListSound
  /\ Chained
  /\ HeldIsLinked

\* The part of ListSound that is about the list ...
ListPart ==
  /\ Pointer[Cardinality(Nodes) + 1] = NULL
  /\ Linked \subseteq Allocated
  /\ \A m, n \in Linked : heap[m].source = heap[n].source => m = n
  /\ count = Cardinality(Linked)

\* ... and the part about who has which entry, element by element
Busy(p) == p \in {"created", "refused"}

Owned(allocated, linked, p, inf, ex) ==
  /\ \A n : n \in allocated <=> n \in linked \/ \E t \in Threads : Busy(p[t]) /\ n = inf[t]
  /\ \A t, u \in Threads : Busy(p[t]) /\ Busy(p[u]) /\ inf[t] = inf[u] => t = u
  /\ \A t \in Threads : Busy(p[t]) => inf[t] \notin linked
  /\ ~ex => allocated = {}

\* The two parts are ListSound, before a step and after it
LEMMA ListSoundParts ==
  /\ ListSound <=> ListPart /\ Owned(DOMAIN heap, Linked, pc, info, exists)
  /\ ListSound' <=> ListPart' /\ Owned(DOMAIN heap', Linked', pc', info', exists')
<1>1. ListSound <=> ListPart /\ Owned(DOMAIN heap, Linked, pc, info, exists)
  <2>1. \A t \in Threads : \A n : n \in Private(t) <=> Busy(pc[t]) /\ n = info[t]
    BY DEF Private, Busy
  <2>2. Allocated = Linked \cup UNION {Private(t) : t \in Threads}
          <=> \A n : n \in Allocated <=>
                n \in Linked \/ \E t \in Threads : Busy(pc[t]) /\ n = info[t]
    BY <2>1
  <2>3. (\A t, u \in Threads : Private(t) \cap Private(u) # {} => t = u)
          <=> \A t, u \in Threads : Busy(pc[t]) /\ Busy(pc[u]) /\ info[t] = info[u] => t = u
    BY <2>1
  <2>4. (\A t \in Threads : Private(t) \cap Linked = {})
          <=> \A t \in Threads : Busy(pc[t]) => info[t] \notin Linked
    BY <2>1
  <2>. QED
    BY <2>2, <2>3, <2>4 DEF ListSound, ListPart, Owned, Allocated
<1>2. ListSound' <=> ListPart' /\ Owned(DOMAIN heap', Linked', pc', info', exists')
  <2>1. \A t \in Threads : \A n : n \in Private(t)' <=> Busy(pc'[t]) /\ n = info'[t]
    BY DEF Private, Busy
  <2>2. Allocated' = Linked' \cup UNION {Private(t)' : t \in Threads}
          <=> \A n : n \in Allocated' <=>
                n \in Linked' \/ \E t \in Threads : Busy(pc'[t]) /\ n = info'[t]
    BY <2>1
  <2>3. (\A t, u \in Threads : Private(t)' \cap Private(u)' # {} => t = u)
          <=> \A t, u \in Threads : Busy(pc'[t]) /\ Busy(pc'[u]) /\ info'[t] = info'[u] => t = u
    BY <2>1
  <2>4. (\A t \in Threads : Private(t)' \cap Linked' = {})
          <=> \A t \in Threads : Busy(pc'[t]) => info'[t] \notin Linked'
    BY <2>1
  <2>. QED
    BY <2>2, <2>3, <2>4 DEF ListSound, ListPart, Owned, Allocated
<1>. QED
  BY <1>1, <1>2

\* The invariant after a step, from the list that the step leaves
LEMMA NextList ==
  ASSUME NEW L, Chain(heap', head', count', L), DOMAIN heap' \subseteq Nodes
  PROVE  ListPart' /\ Chained' /\ Linked' = {L[i] : i \in 1..count'}
<1>1. NULL \notin DOMAIN heap'
  BY StoreAssumption
<1>2. /\ Pointer'[N + 1] = NULL
      /\ Linked' = {L[i] : i \in 1..count'}
      /\ Cardinality(Linked') = count'
  BY <1>1, ChainLinkedNext
<1>3. /\ \A i \in 1..count' : L[i] \in DOMAIN heap'
      /\ \A i, k \in 1..count' : heap'[L[i]].source = heap'[L[k]].source => i = k
      /\ L \in [1..count' -> Nodes]
  BY DEF Chain
<1>4. ListPart'
  BY <1>2, <1>3 DEF ListPart, Allocated, N
<1>5. Chained'
  BY <1>3 DEF Chained
<1>. QED
  BY <1>2, <1>4, <1>5

\* The invariant before a step, as the steps use it
LEMMA ListFacts ==
  ASSUME IInv
  PROVE  /\ Owned(DOMAIN heap, Linked, pc, info, exists)
         /\ Linked \subseteq DOMAIN heap /\ DOMAIN heap \subseteq Nodes
         /\ NULL \notin DOMAIN heap
         /\ N \in Nat /\ count \in 0..N
         /\ \E L \in [1..count -> Nodes] :
              /\ Chain(heap, head, count, L)
              /\ Linked = {L[i] : i \in 1..count}
              /\ \A i \in 1..N + 1 : Pointer[i] = Entry(L, count, i)
              /\ DOMAIN Pointer = 1..N + 1
<1>1. /\ Owned(DOMAIN heap, Linked, pc, info, exists)
      /\ Linked \subseteq DOMAIN heap /\ DOMAIN heap \subseteq Nodes
  BY ListSoundParts DEF IInv, ListPart, TypeOK, Allocated
<1>2. NULL \notin DOMAIN heap
  BY <1>1, StoreAssumption
<1>3. PICK L \in [1..count -> Nodes] : Chain(heap, head, count, L)
  BY DEF IInv, Chained
<1>4. /\ \A i \in 1..N + 1 : Pointer[i] = Entry(L, count, i)
      /\ DOMAIN Pointer = 1..N + 1
      /\ Linked = {L[i] : i \in 1..count}
  BY <1>2, <1>3, ChainLinked
<1>5. N \in Nat /\ count \in 0..N
  BY <1>3, ChainLength
<1>. QED
  BY <1>1, <1>2, <1>3, <1>4, <1>5

\* A step that leaves the links alone leaves the list as it is
LEMMA KeepsList ==
  ASSUME IInv, DOMAIN heap' \subseteq Nodes, UNCHANGED <<head, count>>,
         \A n \in Linked : /\ n \in DOMAIN heap' /\ heap'[n].next = heap[n].next
                           /\ heap'[n].source = heap[n].source
  PROVE  ListPart' /\ Chained' /\ Linked' = Linked
<1>1. PICK L \in [1..count -> Nodes] :
        Chain(heap, head, count, L) /\ Linked = {L[i] : i \in 1..count}
  BY ListFacts
<1>2. \A i \in 1..count : /\ L[i] \in DOMAIN heap' /\ heap'[L[i]].next = heap[L[i]].next
                          /\ heap'[L[i]].source = heap[L[i]].source
  BY <1>1
<1>3. Chain(heap', head', count', L)
  BY <1>1, <1>2 DEF Chain
<1>. QED
  BY <1>1, <1>3, NextList

\* What the walk of find_sync_info and remove_sync_info finds
LEMMA FoundFacts ==
  ASSUME IInv, NEW s
  PROVE  /\ Positions(s) = {} <=> Found(s) = NULL
         /\ Found(s) = NULL <=> \A n \in Linked : heap[n].source # s
         /\ Found(s) # NULL => Found(s) \in Linked /\ heap[Found(s)].source = s
         /\ Positions(s) # {} => Position(s) \in 1..count /\ Pointer[Position(s)] = Found(s)
<1>1. /\ Linked \subseteq DOMAIN heap /\ NULL \notin DOMAIN heap
      /\ N \in Nat /\ count \in 0..N
  BY ListFacts
<1>2. PICK L \in [1..count -> Nodes] :
        /\ Chain(heap, head, count, L)
        /\ Linked = {L[i] : i \in 1..count}
        /\ \A i \in 1..N + 1 : Pointer[i] = Entry(L, count, i)
        /\ DOMAIN Pointer = 1..N + 1
  BY ListFacts
<1>3. \A i \in 1..count : i \in 1..N + 1 /\ Pointer[i] = L[i] /\ L[i] \in DOMAIN heap
  <2>1. \A i \in 1..count : i \in 1..N + 1
    BY <1>1
  <2>. QED
    BY <1>1, <1>2, <2>1 DEF Entry
<1>4. \A i \in 1..N + 1 : Pointer[i] \in DOMAIN heap => i \in 1..count
  BY <1>1, <1>2 DEF Entry
<1>5. Positions(s) = {i \in 1..count : heap[L[i]].source = s}
  BY <1>2, <1>3, <1>4 DEF Positions, Allocated
<1>6. ASSUME Positions(s) # {}
      PROVE  /\ Position(s) \in 1..count /\ Pointer[Position(s)] = Found(s)
             /\ Found(s) \in Linked /\ heap[Found(s)].source = s /\ Found(s) # NULL
  <2>1. Positions(s) \in SUBSET Nat
    BY <1>1, <1>5
  <2>2. \E i \in Positions(s) : \A k \in Positions(s) : i <= k
    BY <1>6, <2>1, LeastElement
  <2>3. Position(s) \in Positions(s)
    BY <2>2 DEF Position
  <2>4. Found(s) = Pointer[Position(s)]
    BY <1>6 DEF Found
  <2>5. Position(s) \in 1..count /\ heap[L[Position(s)]].source = s
    BY <1>5, <2>3
  <2>6. Found(s) = L[Position(s)]
    BY <1>3, <2>4, <2>5
  <2>. QED
    BY <1>1, <1>2, <2>4, <2>5, <2>6
<1>7. Positions(s) = {} => Found(s) = NULL
  BY DEF Found
<1>8. Positions(s) = {} <=> \A n \in Linked : heap[n].source # s
  BY <1>2, <1>5
<1>. QED
  BY <1>6, <1>7, <1>8

-----------------------------------------------------------------------------
(***************************************************************************)
(* The initial state, and each operation.                                  *)
(***************************************************************************)
\* There is no store, and nothing is allocated
LEMMA InitIInv == Init => IInv
<1>. SUFFICES ASSUME Init PROVE IInv
  OBVIOUS
<1>. DEFINE L == [i \in 1..0 |-> NULL]
<1>1. /\ DOMAIN heap = {} /\ head = NULL /\ count = 0 /\ exists = FALSE
      /\ \A t \in Threads : pc[t] = "idle" /\ info[t] = NULL
      /\ stale = {} /\ NULL \notin DOMAIN heap
  BY DEF Init
<1>2. L \in [1..count -> Nodes] /\ Chain(heap, head, count, L)
  BY <1>1 DEF Chain, Entry
<1>. HIDE DEF L
<1>3. /\ Pointer[N + 1] = NULL
      /\ Linked = {L[i] : i \in 1..count} /\ Cardinality(Linked) = count
  BY <1>1, <1>2, ChainLinked
<1>4. N \in Nat /\ 0 \in 0..N
  <2>1. N \in Nat
    BY <1>2, ChainLength
  <2>. QED
    BY <2>1
<1>5. Linked = {}
  BY <1>1, <1>3
<1>6. ListPart
  BY <1>1, <1>3, <1>5 DEF ListPart, Allocated, N
<1>7. Owned(DOMAIN heap, Linked, pc, info, exists)
  BY <1>1, <1>5 DEF Owned, Busy
<1>8. TypeOK
  BY <1>1, <1>4 DEF TypeOK, Init, Allocated, N
<1>9. Chained /\ HeldIsLinked
  BY <1>1, <1>2 DEF Chained, HeldIsLinked
<1>. QED
  BY <1>6, <1>7, <1>8, <1>9, ListSoundParts DEF IInv

\* What a call may return
Results ==
  [to : Threads \cup {NULL}, value : {-1, 1} \cup 0..Cardinality(Nodes),
   call : {"none", "add", "find", "remove", "deactivate", "count"}]

\* The values that the operations return
LEMMA ReturnType ==
  ASSUME IInv, NEW t \in Threads, NEW value \in {-1, 0, 1, count},
         NEW call \in {"add", "find", "remove", "deactivate", "count"},
         Return(t, call, value)
  PROVE  result' \in Results
<1>1. N \in Nat /\ count \in 0..N
  BY ListFacts
<1>2. value \in {-1, 1} \cup 0..N
  BY <1>1
<1>. QED
  BY <1>2 DEF Return, Results, N

\* A call that only looks, or finds nothing to change
LEMMA LooksIInv ==
  ASSUME IInv, UNCHANGED <<heap, head, count, exists, pc, info, stale, strayed>>,
         result' \in Results
  PROVE  IInv'
<1>1. TypeOK'
  BY DEF IInv, TypeOK, Allocated, Results
<1>2. ListPart' /\ Chained' /\ Linked' = Linked
  <2>1. DOMAIN heap' \subseteq Nodes /\ Linked \subseteq DOMAIN heap'
    BY ListFacts
  <2>. QED
    BY <2>1, KeepsList
<1>3. Owned(DOMAIN heap', Linked', pc', info', exists')
  BY <1>2, ListFacts
<1>4. HeldIsLinked'
  BY <1>2 DEF IInv, HeldIsLinked
<1>. QED
  BY <1>1, <1>2, <1>3, <1>4, ListSoundParts DEF IInv

\* The store is created empty, when nothing is allocated
LEMMA CreateStoreIInv == IInv /\ create_sync_info_store => IInv'
<1>. SUFFICES ASSUME IInv, create_sync_info_store PROVE IInv'
  OBVIOUS
<1>. DEFINE L == [i \in 1..0 |-> NULL]
<1>. USE DEF locals
<1>1. /\ ~exists /\ exists' = TRUE /\ head' = NULL /\ count' = 0
      /\ UNCHANGED <<heap, pc, info, stale, result, strayed>>
  BY DEF create_sync_info_store
<1>2. /\ Owned(DOMAIN heap, Linked, pc, info, exists)
      /\ Linked \subseteq DOMAIN heap /\ N \in Nat
  BY ListFacts
<1>3. DOMAIN heap = {} /\ Linked = {}
  BY <1>1, <1>2 DEF Owned
<1>4. Chain(heap', head', count', L)
  BY <1>1 DEF Chain, Entry
<1>. HIDE DEF L
<1>5. ListPart' /\ Chained' /\ Linked' = {L[i] : i \in 1..count'}
  BY <1>1, <1>3, <1>4, NextList
<1>6. Linked' = {}
  BY <1>1, <1>5
<1>7. Owned(DOMAIN heap', Linked', pc', info', exists')
  BY <1>1, <1>2, <1>3, <1>6 DEF Owned
<1>8. TypeOK'
  BY <1>1, <1>2 DEF IInv, TypeOK, Allocated, N
<1>9. HeldIsLinked'
  BY <1>1, <1>3, <1>6 DEF IInv, HeldIsLinked
<1>. QED
  BY <1>5, <1>7, <1>8, <1>9, ListSoundParts DEF IInv

\* The store is destroyed when no thread has an entry: none is left
LEMMA DestroyStoreIInv == IInv /\ destroy_sync_info_store => IInv' /\ DOMAIN heap' = {}
<1>. SUFFICES ASSUME IInv, destroy_sync_info_store PROVE IInv' /\ DOMAIN heap' = {}
  OBVIOUS
<1>. DEFINE L == [i \in 1..0 |-> NULL]
<1>. USE DEF locals
<1>1. /\ exists' = FALSE /\ head' = NULL /\ count' = 0
      /\ \A t \in Threads : pc[t] = "idle"
      /\ heap' = Restrict(heap, Allocated \ Linked)
      /\ UNCHANGED <<pc, info, stale, result, strayed>>
  BY DEF destroy_sync_info_store
<1>2. /\ Owned(DOMAIN heap, Linked, pc, info, exists) /\ N \in Nat
  BY ListFacts
<1>3. DOMAIN heap' = {}
  <2>1. DOMAIN heap \ Linked = {}
    BY <1>1, <1>2 DEF Owned, Busy
  <2>. QED
    BY <1>1, <2>1 DEF Restrict, Allocated
<1>4. Chain(heap', head', count', L)
  BY <1>1 DEF Chain, Entry
<1>. HIDE DEF L
<1>5. ListPart' /\ Chained' /\ Linked' = {L[i] : i \in 1..count'}
  BY <1>1, <1>3, <1>4, NextList
<1>6. Linked' = {}
  BY <1>1, <1>5
<1>7. Owned(DOMAIN heap', Linked', pc', info', exists')
  BY <1>1, <1>3, <1>6 DEF Owned, Busy
<1>8. TypeOK'
  <2>1. /\ Allocated' \subseteq Nodes
        /\ \A n \in Allocated' :
             heap'[n] \in [source : Sources, active : BOOLEAN, next : Nodes \cup {NULL}]
    BY <1>3 DEF Allocated
  <2>2. count' \in 0..Cardinality(Nodes)
    BY <1>1, <1>2 DEF N
  <2>3. head' \in Nodes \cup {NULL} /\ exists' \in BOOLEAN
    BY <1>1
  <2>. QED
    BY <1>1, <2>1, <2>2, <2>3 DEF IInv, TypeOK
<1>9. HeldIsLinked'
  BY <1>1 DEF IInv, HeldIsLinked
<1>. QED
  BY <1>3, <1>5, <1>7, <1>8, <1>9, ListSoundParts DEF IInv

\* create_sync_info allocates an entry that only its thread knows of
LEMMA CreateInfoIInv ==
  ASSUME IInv, NEW t \in Threads, NEW s \in Sources, create_sync_info(t, s)
  PROVE  /\ IInv' /\ Linked' = Linked
         /\ \A m \in DOMAIN heap : heap'[m] = heap[m]
         /\ info'[t] \notin DOMAIN heap /\ heap'[info'[t]].active
         /\ UNCHANGED result
         /\ \A u \in Threads : u # t => pc'[u] = pc[u] /\ info'[u] = info[u]
<1>1. PICK n \in Nodes \ Allocated, new \in NewInfo(s) :
        /\ heap' = [m \in Allocated \cup {n} |-> IF m = n THEN new ELSE heap[m]]
        /\ Goto(t, "created", n)
  BY DEF create_sync_info
<1>2. /\ pc' = [pc EXCEPT ![t] = "created"] /\ info' = [info EXCEPT ![t] = n]
      /\ UNCHANGED <<head, count, exists, result, stale, strayed>>
      /\ exists /\ pc[t] = "idle"
  BY <1>1 DEF create_sync_info, Goto, Idle
<1>3. /\ Owned(DOMAIN heap, Linked, pc, info, exists)
      /\ Linked \subseteq DOMAIN heap /\ DOMAIN heap \subseteq Nodes
  BY ListFacts
<1>4. /\ DOMAIN heap' = DOMAIN heap \cup {n} /\ n \notin DOMAIN heap /\ n \in Nodes
      /\ heap'[n] = new /\ \A m \in DOMAIN heap : heap'[m] = heap[m]
  BY <1>1 DEF Allocated
<1>5. new \in [source : Sources, active : BOOLEAN, next : Nodes \cup {NULL}]
  <2>1. new = [source |-> s, active |-> TRUE, next |-> NULL]
    BY DEF NewInfo
  <2>2. TRUE \in BOOLEAN /\ NULL \in Nodes \cup {NULL}
    OBVIOUS
  <2>. QED
    BY <2>1, <2>2
<1>6. pc \in [Threads -> {"idle", "created", "refused", "found"}]
      /\ info \in [Threads -> Nodes \cup {NULL}]
  BY DEF IInv, TypeOK
<1>7. /\ pc'[t] = "created" /\ info'[t] = n
      /\ \A u \in Threads : u # t => pc'[u] = pc[u] /\ info'[u] = info[u]
  BY <1>2, <1>6
<1>8. TypeOK'
  <2>1. \A m \in DOMAIN heap' :
          heap'[m] \in [source : Sources, active : BOOLEAN, next : Nodes \cup {NULL}]
    BY <1>4, <1>5 DEF IInv, TypeOK, Allocated
  <2>2. /\ pc' \in [Threads -> {"idle", "created", "refused", "found"}]
        /\ info' \in [Threads -> Nodes \cup {NULL}]
    BY <1>2, <1>4, <1>6
  <2>3. stale' \subseteq {u \in Threads : pc'[u] = "found"}
    BY <1>2, <1>7 DEF IInv, TypeOK
  <2>. QED
    BY <1>2, <1>3, <1>4, <2>1, <2>2, <2>3 DEF IInv, TypeOK, Allocated
<1>9. ListPart' /\ Chained' /\ Linked' = Linked
  BY <1>2, <1>3, <1>4, KeepsList
<1>10. Owned(DOMAIN heap', Linked', pc', info', exists')
  <2>1. \A u \in Threads : Busy(pc[u]) => info[u] \in DOMAIN heap /\ info[u] # n
    BY <1>3, <1>4 DEF Owned
  <2>2. Busy(pc'[t]) /\ ~Busy(pc[t])
    BY <1>2, <1>7 DEF Busy
  <2>3. n \notin Linked
    BY <1>3, <1>4
  <2>4. \A m : m \in DOMAIN heap' <=>
          m \in Linked' \/ \E u \in Threads : Busy(pc'[u]) /\ m = info'[u]
    BY <1>3, <1>4, <1>7, <1>9, <2>2 DEF Owned
  <2>5. \A u, v \in Threads : Busy(pc'[u]) /\ Busy(pc'[v]) /\ info'[u] = info'[v] => u = v
    BY <1>3, <1>7, <2>1 DEF Owned
  <2>6. \A u \in Threads : Busy(pc'[u]) => info'[u] \notin Linked'
    BY <1>3, <1>7, <1>9, <2>3 DEF Owned
  <2>. QED
    BY <1>2, <2>4, <2>5, <2>6 DEF Owned
<1>11. HeldIsLinked'
  BY <1>2, <1>7, <1>9 DEF IInv, HeldIsLinked
<1>12. heap'[info'[t]].active
  BY <1>4, <1>7 DEF NewInfo
<1>13. IInv'
  BY <1>8, <1>9, <1>10, <1>11, ListSoundParts DEF IInv
<1>. QED
  BY <1>2, <1>4, <1>7, <1>9, <1>12, <1>13

\* add_sync_info takes the entry of its thread to the head of the list
LEMMA AddIInv ==
  ASSUME IInv, NEW t \in Threads, add_sync_info(t), Found(heap[info[t]].source) = NULL
  PROVE  /\ IInv' /\ Linked' = Linked \cup {info[t]}
         /\ info[t] \in DOMAIN heap /\ info[t] \notin Linked
         /\ \A m \in DOMAIN heap : /\ heap'[m].source = heap[m].source
                                   /\ heap'[m].active = heap[m].active
         /\ Return(t, "add", 0)
<1>. DEFINE n == info[t]
            Entries == [source : Sources, active : BOOLEAN, next : Nodes \cup {NULL}]
<1>1. /\ pc[t] = "created" /\ heap' = [heap EXCEPT ![n].next = head]
      /\ head' = n /\ count' = count + 1
      /\ pc' = [pc EXCEPT ![t] = "idle"] /\ info' = [info EXCEPT ![t] = NULL]
      /\ UNCHANGED <<exists, stale, strayed>>
      /\ Return(t, "add", 0)
  BY DEF add_sync_info, Goto
<1>2. /\ Owned(DOMAIN heap, Linked, pc, info, exists)
      /\ Linked \subseteq DOMAIN heap /\ DOMAIN heap \subseteq Nodes
      /\ NULL \notin DOMAIN heap /\ count \in Nat
  BY ListFacts
<1>3. PICK L \in [1..count -> Nodes] :
        Chain(heap, head, count, L) /\ Linked = {L[i] : i \in 1..count}
  BY ListFacts
<1>4. /\ pc \in [Threads -> {"idle", "created", "refused", "found"}]
      /\ info \in [Threads -> Nodes \cup {NULL}]
      /\ \A m \in DOMAIN heap : heap[m] \in Entries
      /\ head \in Nodes \cup {NULL}
  BY DEF IInv, TypeOK, Allocated
<1>5. n \in DOMAIN heap /\ n \notin Linked
  BY <1>1, <1>2 DEF Owned, Busy
<1>6. \A m \in Linked : heap[m].source # heap[n].source
  BY FoundFacts
<1>7. /\ DOMAIN heap' = DOMAIN heap
      /\ heap'[n] = [heap[n] EXCEPT !.next = head]
      /\ \A m \in DOMAIN heap : m # n => heap'[m] = heap[m]
  BY <1>1, <1>5
<1>8. /\ \A m \in DOMAIN heap : heap'[m] \in Entries
      /\ \A m \in DOMAIN heap : /\ heap'[m].source = heap[m].source
                                /\ heap'[m].active = heap[m].active
      /\ heap'[n].next = head
  BY <1>4, <1>5, <1>7
<1>9. /\ pc'[t] = "idle" /\ info'[t] = NULL
      /\ \A u \in Threads : u # t => pc'[u] = pc[u] /\ info'[u] = info[u]
  BY <1>1, <1>4
<1>. HIDE DEF n, Entries
<1>. DEFINE K == [i \in 1..count + 1 |-> IF i = 1 THEN n ELSE L[i - 1]]
<1>10. /\ K[1] = n /\ 1 \in 1..count + 1
       /\ \A i \in 1..count + 1 : i # 1 => i - 1 \in 1..count /\ K[i] = L[i - 1]
       /\ \A i \in 1..count : i + 1 \in 1..count + 1 /\ K[i + 1] = L[i] /\ i + 1 # 1
  BY <1>2
<1>11. K \in [1..count + 1 -> Nodes]
  BY <1>2, <1>3, <1>5
<1>. HIDE DEF K
<1>12. Chain(heap', head', count', K)
  <2>1. \A i \in 1..count + 1 : K[i] \in DOMAIN heap'
    BY <1>3, <1>5, <1>7, <1>10 DEF Chain
  <2>2. head' = Entry(K, count + 1, 1)
    BY <1>1, <1>10 DEF Entry
  <2>3. ASSUME NEW i \in 1..count + 1
        PROVE  heap'[K[i]].next = Entry(K, count + 1, i + 1)
    <3>1. CASE i = 1
      <4>1. head = Entry(L, count, 1)
        BY <1>3 DEF Chain
      <4>2. Entry(K, count + 1, 2) = Entry(L, count, 1)
        BY <1>2, <1>10 DEF Entry
      <4>. QED
        BY <1>8, <1>10, <3>1, <4>1, <4>2
    <3>2. CASE i # 1
      <4>1. i - 1 \in 1..count /\ K[i] = L[i - 1]
        BY <1>10, <3>2
      <4>2. heap[L[i - 1]].next = Entry(L, count, (i - 1) + 1)
        BY <1>3, <4>1 DEF Chain
      <4>3. heap'[K[i]] = heap[L[i - 1]]
        BY <1>2, <1>3, <1>5, <1>7, <4>1
      <4>4. (i - 1) + 1 = i
        OBVIOUS
      <4>5. Entry(K, count + 1, i + 1) = Entry(L, count, i)
        <5>1. i + 1 \in 1..count + 1 <=> i \in 1..count
          BY <1>2
        <5>. QED
          BY <1>10, <5>1 DEF Entry
      <4>. QED
        BY <4>2, <4>3, <4>4, <4>5
    <3>. QED
      BY <3>1, <3>2
  <2>4. ASSUME NEW i \in 1..count + 1, NEW k \in 1..count + 1,
               heap'[K[i]].source = heap'[K[k]].source
        PROVE  i = k
    <3>1. \A j \in 1..count + 1 : j # 1 => /\ heap'[K[j]].source = heap[L[j - 1]].source
                                           /\ L[j - 1] \in Linked
      BY <1>2, <1>3, <1>8, <1>10
    <3>2. heap'[K[1]].source = heap[n].source
      BY <1>5, <1>8, <1>10
    <3>3. i = 1 <=> k = 1
      BY <1>6, <2>4, <3>1, <3>2 DEF n
    <3>4. CASE i # 1 /\ k # 1
      <4>1. i - 1 \in 1..count /\ k - 1 \in 1..count
        BY <1>10, <3>4
      <4>2. heap[L[i - 1]].source = heap[L[k - 1]].source
        BY <2>4, <3>1, <3>4
      <4>3. i - 1 = k - 1
        BY <1>3, <4>1, <4>2 DEF Chain
      <4>. QED
        BY <4>3
    <3>. QED
      BY <3>3, <3>4
  <2>. QED
    BY <1>1, <1>2, <1>11, <2>1, <2>2, <2>3, <2>4 DEF Chain
<1>13. ListPart' /\ Chained' /\ Linked' = {K[i] : i \in 1..count'}
  BY <1>2, <1>7, <1>12, NextList
<1>14. Linked' = Linked \cup {n}
  <2>1. {K[i] : i \in 1..count + 1} = {L[i] : i \in 1..count} \cup {n}
    <3>1. ASSUME NEW i \in 1..count + 1 PROVE K[i] \in {L[k] : k \in 1..count} \cup {n}
      BY <1>10
    <3>2. ASSUME NEW i \in 1..count PROVE L[i] \in {K[k] : k \in 1..count + 1}
      BY <1>10
    <3>3. n \in {K[k] : k \in 1..count + 1}
      BY <1>10
    <3>. QED
      BY <3>1, <3>2, <3>3
  <2>. QED
    BY <1>1, <1>3, <1>13, <2>1
<1>15. Owned(DOMAIN heap', Linked', pc', info', exists')
  <2>1. ~Busy(pc'[t]) /\ Busy(pc[t]) /\ info[t] = n
    BY <1>1, <1>9 DEF Busy, n
  <2>2. \A m : m \in DOMAIN heap' <=>
          m \in Linked' \/ \E u \in Threads : Busy(pc'[u]) /\ m = info'[u]
    BY <1>2, <1>5, <1>7, <1>9, <1>14, <2>1 DEF Owned
  <2>3. \A u, v \in Threads : Busy(pc'[u]) /\ Busy(pc'[v]) /\ info'[u] = info'[v] => u = v
    BY <1>2, <1>9, <2>1 DEF Owned
  <2>4. \A u \in Threads : Busy(pc'[u]) => info'[u] \notin Linked'
    BY <1>2, <1>9, <1>14, <2>1 DEF Owned
  <2>. QED
    BY <1>1, <1>2, <1>7, <2>2, <2>3, <2>4 DEF Owned
<1>16. TypeOK'
  <2>1. count + 1 \in 0..Cardinality(Nodes)
    BY <1>1, <1>12, ChainLength DEF N
  <2>2. result' \in Results
    BY <1>1, ReturnType
  <2>3. /\ pc' \in [Threads -> {"idle", "created", "refused", "found"}]
        /\ info' \in [Threads -> Nodes \cup {NULL}]
    BY <1>1, <1>4
  <2>4. stale' \subseteq {u \in Threads : pc'[u] = "found"}
    BY <1>1, <1>9 DEF IInv, TypeOK
  <2>5. n \in Nodes \cup {NULL}
    BY <1>2, <1>5
  <2>. QED
    BY <1>1, <1>2, <1>7, <1>8, <2>1, <2>2, <2>3, <2>4, <2>5
    DEF IInv, TypeOK, Allocated, Results, Entries
<1>17. HeldIsLinked'
  BY <1>1, <1>9, <1>14 DEF IInv, HeldIsLinked
<1>. QED
  BY <1>1, <1>5, <1>8, <1>13, <1>14, <1>15, <1>16, <1>17, ListSoundParts DEF IInv, n

\* A thread moves on, its pointer with it, and the list stays as it is
LEMMA MovesIInv ==
  ASSUME IInv, NEW t \in Threads, NEW label \in {"idle", "refused", "found"},
         NEW pointer \in Nodes \cup {NULL}, Goto(t, label, pointer), result' \in Results,
         UNCHANGED <<heap, head, count, exists, stale, strayed>>,
         label = "refused" <=> Busy(pc[t]), label = "refused" => pointer = info[t],
         label = "found" => pointer \in Linked, t \notin stale
  PROVE  IInv' /\ Linked' = Linked
<1>1. /\ pc' = [pc EXCEPT ![t] = label] /\ info' = [info EXCEPT ![t] = pointer]
  BY DEF Goto
<1>2. /\ pc \in [Threads -> {"idle", "created", "refused", "found"}]
      /\ info \in [Threads -> Nodes \cup {NULL}]
  BY DEF IInv, TypeOK
<1>3. /\ pc'[t] = label /\ info'[t] = pointer
      /\ \A u \in Threads : u # t => pc'[u] = pc[u] /\ info'[u] = info[u]
  BY <1>1, <1>2
<1>4. /\ Owned(DOMAIN heap, Linked, pc, info, exists)
      /\ Linked \subseteq DOMAIN heap /\ DOMAIN heap \subseteq Nodes
  BY ListFacts
<1>5. ListPart' /\ Chained' /\ Linked' = Linked
  BY <1>4, KeepsList
<1>6. TypeOK'
  <2>1. /\ pc' \in [Threads -> {"idle", "created", "refused", "found"}]
        /\ info' \in [Threads -> Nodes \cup {NULL}]
    BY <1>1, <1>2
  <2>2. stale' \subseteq {u \in Threads : pc'[u] = "found"}
    BY <1>3 DEF IInv, TypeOK
  <2>. QED
    BY <2>1, <2>2 DEF IInv, TypeOK, Allocated, Results
<1>7. Owned(DOMAIN heap', Linked', pc', info', exists')
  <2>1. \A u \in Threads : /\ Busy(pc'[u]) <=> Busy(pc[u])
                           /\ Busy(pc[u]) => info'[u] = info[u]
    BY <1>3 DEF Busy
  <2>. QED
    BY <1>4, <1>5, <2>1 DEF Owned
<1>8. HeldIsLinked'
  BY <1>3, <1>5 DEF IInv, HeldIsLinked
<1>. QED
  BY <1>5, <1>6, <1>7, <1>8, ListSoundParts DEF IInv

\* free_sync_info frees an entry that only its thread knows of
LEMMA FreeIInv ==
  ASSUME IInv, NEW t \in Threads, free_sync_info(t)
  PROVE  /\ IInv' /\ Linked' = Linked
         /\ \A m \in DOMAIN heap' : heap'[m] = heap[m]
         /\ UNCHANGED <<strayed, result>> /\ ~Busy(pc'[t])
         /\ \A u \in Threads : u # t => pc'[u] = pc[u] /\ info'[u] = info[u]
<1>. DEFINE n == info[t]
<1>1. /\ pc[t] = "refused" /\ heap' = [m \in DOMAIN heap \ {n} |-> heap[m]]
      /\ pc' = [pc EXCEPT ![t] = "idle"] /\ info' = [info EXCEPT ![t] = NULL]
      /\ UNCHANGED <<head, count, exists, result, stale, strayed>>
  BY DEF free_sync_info, Goto, Without, Allocated
<1>2. /\ pc \in [Threads -> {"idle", "created", "refused", "found"}]
      /\ info \in [Threads -> Nodes \cup {NULL}]
  BY DEF IInv, TypeOK
<1>3. /\ pc'[t] = "idle" /\ info'[t] = NULL
      /\ \A u \in Threads : u # t => pc'[u] = pc[u] /\ info'[u] = info[u]
  BY <1>1, <1>2
<1>4. /\ Owned(DOMAIN heap, Linked, pc, info, exists)
      /\ Linked \subseteq DOMAIN heap /\ DOMAIN heap \subseteq Nodes
  BY ListFacts
<1>5. n \in DOMAIN heap /\ n \notin Linked
  BY <1>1, <1>4 DEF Owned, Busy
<1>6. DOMAIN heap' = DOMAIN heap \ {n} /\ \A m \in DOMAIN heap' : heap'[m] = heap[m]
  BY <1>1
<1>7. ListPart' /\ Chained' /\ Linked' = Linked
  BY <1>1, <1>4, <1>5, <1>6, KeepsList
<1>8. TypeOK'
  <2>1. /\ pc' \in [Threads -> {"idle", "created", "refused", "found"}]
        /\ info' \in [Threads -> Nodes \cup {NULL}]
    BY <1>1, <1>2
  <2>2. stale' \subseteq {u \in Threads : pc'[u] = "found"}
    BY <1>1, <1>3 DEF IInv, TypeOK
  <2>3. /\ DOMAIN heap' \subseteq Nodes
        /\ \A m \in DOMAIN heap' :
             heap'[m] \in [source : Sources, active : BOOLEAN, next : Nodes \cup {NULL}]
    BY <1>4, <1>6 DEF IInv, TypeOK, Allocated
  <2>. QED
    BY <1>1, <2>1, <2>2, <2>3 DEF IInv, TypeOK, Allocated
<1>9. Owned(DOMAIN heap', Linked', pc', info', exists')
  <2>1. ~Busy(pc'[t]) /\ Busy(pc[t]) /\ info[t] = n
    BY <1>1, <1>3 DEF Busy
  <2>. HIDE DEF n
  <2>2. \A m : m \in DOMAIN heap' <=>
          m \in Linked' \/ \E u \in Threads : Busy(pc'[u]) /\ m = info'[u]
    <3>1. ASSUME NEW m \in DOMAIN heap'
          PROVE  m \in Linked' \/ \E u \in Threads : Busy(pc'[u]) /\ m = info'[u]
      BY <1>3, <1>4, <1>6, <1>7, <2>1 DEF Owned
    <3>2. Linked' \subseteq DOMAIN heap'
      BY <1>4, <1>5, <1>6, <1>7
    <3>3. ASSUME NEW u \in Threads, Busy(pc'[u]) PROVE info'[u] \in DOMAIN heap'
      BY <1>3, <1>4, <1>6, <2>1, <3>3 DEF Owned
    <3>. QED
      BY <3>1, <3>2, <3>3
  <2>3. \A u, v \in Threads : Busy(pc'[u]) /\ Busy(pc'[v]) /\ info'[u] = info'[v] => u = v
    BY <1>3, <1>4, <2>1 DEF Owned
  <2>4. \A u \in Threads : Busy(pc'[u]) => info'[u] \notin Linked'
    BY <1>3, <1>4, <1>7, <2>1 DEF Owned
  <2>5. ~exists' => DOMAIN heap' = {}
    BY <1>1, <1>4, <1>6 DEF Owned
  <2>. QED
    BY <2>2, <2>3, <2>4, <2>5 DEF Owned
<1>10. HeldIsLinked'
  BY <1>1, <1>3, <1>7 DEF IInv, HeldIsLinked
<1>11. IInv'
  BY <1>7, <1>8, <1>9, <1>10, ListSoundParts DEF IInv
<1>12. ~Busy(pc'[t])
  BY <1>3 DEF Busy
<1>. QED
  BY <1>1, <1>3, <1>6, <1>7, <1>11, <1>12

\* The write of deactivate_sync_info leaves the links alone, wherever it goes
LEMMA WriteIInv ==
  ASSUME IInv, NEW t \in Threads, DeactivateWrites(t)
  PROVE  /\ IInv' /\ Linked' = Linked
         /\ \A m \in DOMAIN heap :
              /\ heap'[m].source = heap[m].source
              /\ heap'[m].active = IF m = info[t] THEN FALSE ELSE heap[m].active
         /\ Return(t, "deactivate", 0)
         /\ strayed => strayed'
         /\ strayed' \/ info[t] \in Linked
         /\ \A u \in Threads : Busy(pc'[u]) => Busy(pc[u]) /\ info'[u] = info[u]
<1>. DEFINE n == info[t]
            Entries == [source : Sources, active : BOOLEAN, next : Nodes \cup {NULL}]
<1>1. /\ pc[t] = "found"
      /\ heap' = [m \in DOMAIN heap |->
                    IF m = n THEN [heap[m] EXCEPT !.active = FALSE] ELSE heap[m]]
      /\ strayed' = (strayed \/ t \in stale) /\ stale' = stale \ {t}
      /\ Return(t, "deactivate", 0)
      /\ pc' = [pc EXCEPT ![t] = "idle"] /\ info' = [info EXCEPT ![t] = NULL]
      /\ UNCHANGED <<head, count, exists>>
  BY DEF DeactivateWrites, Goto, Allocated
<1>2. /\ pc \in [Threads -> {"idle", "created", "refused", "found"}]
      /\ info \in [Threads -> Nodes \cup {NULL}]
      /\ \A m \in DOMAIN heap : heap[m] \in Entries
  BY DEF IInv, TypeOK, Allocated
<1>3. /\ pc'[t] = "idle" /\ info'[t] = NULL
      /\ \A u \in Threads : u # t => pc'[u] = pc[u] /\ info'[u] = info[u]
  BY <1>1, <1>2
<1>4. /\ Owned(DOMAIN heap, Linked, pc, info, exists)
      /\ Linked \subseteq DOMAIN heap /\ DOMAIN heap \subseteq Nodes
  BY ListFacts
<1>5. /\ DOMAIN heap' = DOMAIN heap
      /\ \A m \in DOMAIN heap :
           heap'[m] = IF m = n THEN [heap[m] EXCEPT !.active = FALSE] ELSE heap[m]
  BY <1>1
<1>6. ASSUME NEW m \in DOMAIN heap
      PROVE  /\ heap'[m] \in Entries
             /\ heap'[m].source = heap[m].source /\ heap'[m].next = heap[m].next
             /\ heap'[m].active = IF m = n THEN FALSE ELSE heap[m].active
  <2>1. heap[m] \in Entries
    BY <1>2
  <2>2. CASE m = n
    BY <1>5, <2>1, <2>2
  <2>3. CASE m # n
    BY <1>5, <2>1, <2>3
  <2>. QED
    BY <2>2, <2>3
<1>7. ListPart' /\ Chained' /\ Linked' = Linked
  BY <1>1, <1>4, <1>5, <1>6, KeepsList
<1>8. TypeOK'
  <2>1. /\ pc' \in [Threads -> {"idle", "created", "refused", "found"}]
        /\ info' \in [Threads -> Nodes \cup {NULL}]
    BY <1>1, <1>2
  <2>2. stale' \subseteq {u \in Threads : pc'[u] = "found"}
    BY <1>1, <1>3 DEF IInv, TypeOK
  <2>3. result' \in Results
    BY <1>1, ReturnType
  <2>4. strayed' \in BOOLEAN
    BY <1>1
  <2>. QED
    BY <1>1, <1>4, <1>5, <1>6, <2>1, <2>2, <2>3, <2>4 DEF IInv, TypeOK, Allocated, Results
<1>9. Owned(DOMAIN heap', Linked', pc', info', exists')
  <2>1. \A u \in Threads : /\ Busy(pc'[u]) <=> Busy(pc[u])
                           /\ Busy(pc[u]) => info'[u] = info[u]
    BY <1>1, <1>3 DEF Busy
  <2>. QED
    BY <1>1, <1>4, <1>5, <1>7, <2>1 DEF Owned
<1>10. HeldIsLinked'
  BY <1>1, <1>3, <1>7 DEF IInv, HeldIsLinked
<1>11. (strayed => strayed') /\ (strayed' \/ info[t] \in Linked)
  BY <1>1 DEF IInv, HeldIsLinked
<1>12. \A u \in Threads : Busy(pc'[u]) => Busy(pc[u]) /\ info'[u] = info[u]
  BY <1>3 DEF Busy
<1>13. IInv'
  BY <1>7, <1>8, <1>9, <1>10, ListSoundParts DEF IInv
<1>. QED
  BY <1>1, <1>6, <1>7, <1>11, <1>13, <1>12

\* A list without its p-th entry
Shorter(L, n, p) == [i \in 1..n - 1 |-> IF i < p THEN L[i] ELSE L[i + 1]]

Members(L, n) == {L[i] : i \in 1..n}

\* A heap hq with head hf in which the entry before it points to the one behind
Unlinked(hp, hd, L, p, hq, hf) ==
  /\ DOMAIN hq = DOMAIN hp \ {L[p]}
  /\ \A m \in DOMAIN hq : hq[m].source = hp[m].source
  /\ \A m \in DOMAIN hq :
       hq[m].next = IF p > 1 /\ m = L[p - 1] THEN hp[L[p]].next ELSE hp[m].next
  /\ hf = IF p = 1 THEN hp[L[p]].next ELSE hd

\* The shorter list is what such a heap holds
LEMMA ShortenedChain ==
  ASSUME NEW hp, NEW hd, NEW n, NEW L, Chain(hp, hd, n, L), NEW p \in 1..n,
         NEW hq, NEW hf, Unlinked(hp, hd, L, p, hq, hf)
  PROVE  /\ Chain(hq, hf, n - 1, Shorter(L, n, p))
         /\ \A m : m \in Members(Shorter(L, n, p), n - 1) <=> m \in Members(L, n) /\ m # L[p]
<1>. DEFINE K == Shorter(L, n, p)
            old(i) == IF i < p THEN i ELSE i + 1
<1>1. /\ n \in Nat /\ L \in [1..n -> Nodes] /\ \A i \in 1..n : L[i] \in DOMAIN hp
      /\ hd = Entry(L, n, 1)
      /\ \A i \in 1..n : hp[L[i]].next = Entry(L, n, i + 1)
      /\ \A i, k \in 1..n : hp[L[i]].source = hp[L[k]].source => i = k
  BY DEF Chain
<1>2. /\ DOMAIN hq = DOMAIN hp \ {L[p]}
      /\ \A m \in DOMAIN hq : hq[m].source = hp[m].source
      /\ \A m \in DOMAIN hq :
           hq[m].next = IF p > 1 /\ m = L[p - 1] THEN hp[L[p]].next ELSE hp[m].next
      /\ hf = IF p = 1 THEN hp[L[p]].next ELSE hd
  BY DEF Unlinked
<1>3. \A i, k \in 1..n : L[i] = L[k] => i = k
  BY <1>1
<1>4. /\ n - 1 \in Nat
      /\ \A i \in 1..n - 1 : old(i) \in 1..n /\ old(i) # p
      /\ \A i, k \in 1..n - 1 : old(i) = old(k) => i = k
      /\ \A k \in 1..n : k # p => \E i \in 1..n - 1 : old(i) = k
  <2>1. n - 1 \in Nat /\ p \in Nat
    BY <1>1
  <2>2. \A i \in 1..n - 1 : old(i) \in 1..n /\ old(i) # p
    BY <1>1
  <2>3. \A i, k \in 1..n - 1 : old(i) = old(k) => i = k
    BY <1>1
  <2>4. ASSUME NEW k \in 1..n, k # p PROVE \E i \in 1..n - 1 : old(i) = k
    <3>1. CASE k < p
      <4>1. k \in 1..n - 1 /\ old(k) = k
        BY <1>1, <3>1
      <4>. QED
        BY <4>1
    <3>2. CASE ~(k < p)
      <4>1. k - 1 \in 1..n - 1 /\ old(k - 1) = k
        BY <1>1, <2>4, <3>2
      <4>. QED
        BY <4>1
    <3>. QED
      BY <3>1, <3>2
  <2>. QED
    BY <2>1, <2>2, <2>3, <2>4
<1>5. \A i \in 1..n - 1 : K[i] = L[old(i)]
  BY DEF Shorter
<1>6. K \in [1..n - 1 -> Nodes]
  <2>1. \A i \in 1..n - 1 : L[old(i)] \in Nodes
    BY <1>1, <1>4
  <2>. QED
    BY <2>1 DEF Shorter
<1>. HIDE DEF K
<1>7. ASSUME NEW i \in 1..n - 1
      PROVE  /\ K[i] \in DOMAIN hq /\ hq[K[i]].source = hp[L[old(i)]].source
             /\ i + 1 = p => hq[K[i]].next = Entry(L, n, p + 1)
             /\ i + 1 # p => hq[K[i]].next = Entry(L, n, old(i) + 1)
  <2>1. old(i) \in 1..n /\ old(i) # p /\ K[i] = L[old(i)]
    BY <1>4, <1>5
  <2>2. L[old(i)] # L[p]
    BY <1>3, <2>1
  <2>3. K[i] \in DOMAIN hq
    BY <1>1, <1>2, <2>1, <2>2
  <2>4. hp[L[p]].next = Entry(L, n, p + 1) /\ hp[L[old(i)]].next = Entry(L, n, old(i) + 1)
    BY <1>1, <2>1
  <2>5. CASE i + 1 = p
    <3>1. p > 1 /\ p - 1 = old(i)
      BY <2>5
    <3>. QED
      BY <1>2, <2>1, <2>3, <2>4, <2>5, <3>1
  <2>6. CASE i + 1 # p
    <3>1. p > 1 => p - 1 \in 1..n /\ p - 1 # old(i)
      BY <1>1, <2>6
    <3>2. ~(p > 1 /\ L[old(i)] = L[p - 1])
      BY <1>3, <2>1, <3>1
    <3>. HIDE DEF old
    <3>. QED
      BY <1>2, <2>1, <2>3, <2>4, <2>6, <3>2
  <2>. QED
    BY <1>2, <2>1, <2>3, <2>5, <2>6
<1>8. ASSUME NEW i \in 1..n - 1 PROVE hq[K[i]].next = Entry(K, n - 1, i + 1)
  <2>1. CASE i + 1 = p
    <3>1. p \in 1..n - 1 <=> p + 1 \in 1..n
      BY <1>1
    <3>2. p \in 1..n - 1 => K[p] = L[p + 1]
      BY <1>5
    <3>3. Entry(K, n - 1, p) = Entry(L, n, p + 1)
      BY <3>1, <3>2 DEF Entry
    <3>. QED
      BY <1>7, <2>1, <3>3
  <2>2. CASE i + 1 # p
    <3>1. i + 1 \in 1..n - 1 <=> old(i) + 1 \in 1..n
      BY <1>1, <2>2
    <3>2. i + 1 \in 1..n - 1 => K[i + 1] = L[old(i) + 1]
      <4>1. old(i + 1) = old(i) + 1
        BY <1>1, <2>2
      <4>. QED
        BY <1>5, <4>1
    <3>3. Entry(K, n - 1, i + 1) = Entry(L, n, old(i) + 1)
      BY <3>1, <3>2 DEF Entry
    <3>. QED
      BY <1>7, <2>2, <3>3
  <2>. QED
    BY <2>1, <2>2
<1>9. hf = Entry(K, n - 1, 1)
  <2>1. CASE p = 1
    <3>1. hf = Entry(L, n, 2)
      BY <1>1, <1>2, <2>1
    <3>2. 1 \in 1..n - 1 <=> 2 \in 1..n
      BY <1>1
    <3>3. 1 \in 1..n - 1 => K[1] = L[2]
      BY <1>5, <2>1
    <3>. QED
      BY <3>1, <3>2, <3>3 DEF Entry
  <2>2. CASE p # 1
    <3>1. hf = Entry(L, n, 1)
      BY <1>1, <1>2, <2>2
    <3>2. 1 \in 1..n - 1 /\ 1 \in 1..n
      BY <1>1, <2>2
    <3>3. K[1] = L[1]
      BY <1>5, <2>2, <3>2
    <3>. QED
      BY <3>1, <3>2, <3>3 DEF Entry
  <2>. QED
    BY <2>1, <2>2
<1>10. ASSUME NEW i \in 1..n - 1, NEW k \in 1..n - 1, hq[K[i]].source = hq[K[k]].source
      PROVE  i = k
  <2>1. hp[L[old(i)]].source = hp[L[old(k)]].source
    BY <1>7, <1>10
  <2>2. old(i) \in 1..n /\ old(k) \in 1..n
    BY <1>4
  <2>3. old(i) = old(k)
    BY <1>1, <2>1, <2>2
  <2>. QED
    BY <1>4, <2>3
<1>11. Chain(hq, hf, n - 1, K)
  BY <1>4, <1>6, <1>7, <1>8, <1>9, <1>10 DEF Chain
<1>12. {K[i] : i \in 1..n - 1} = {L[i] : i \in 1..n} \ {L[p]}
  <2>1. ASSUME NEW i \in 1..n - 1 PROVE K[i] \in {L[k] : k \in 1..n} \ {L[p]}
    <3>1. old(i) \in 1..n /\ L[old(i)] # L[p] /\ K[i] = L[old(i)]
      BY <1>3, <1>4, <1>5
    <3>. QED
      BY <3>1
  <2>2. ASSUME NEW k \in 1..n, L[k] # L[p] PROVE L[k] \in {K[i] : i \in 1..n - 1}
    BY <1>4, <1>5, <2>2
  <2>. QED
    BY <2>1, <2>2
<1>. QED
  BY <1>11, <1>12 DEF K, Members

\* add_sync_info refuses an entry whose source is in the list
LEMMA RefusedIInv ==
  ASSUME IInv, NEW t \in Threads, add_sync_info(t), Found(heap[info[t]].source) # NULL
  PROVE  /\ IInv' /\ Linked' = Linked /\ heap' = heap /\ Return(t, "add", 1)
         /\ info[t] \in DOMAIN heap
<1>1. /\ pc[t] = "created" /\ Return(t, "add", 1) /\ Goto(t, "refused", info[t])
      /\ UNCHANGED <<heap, head, count, exists, stale, strayed>>
  BY DEF add_sync_info
<1>2. result' \in Results
  BY <1>1, ReturnType
<1>3. info[t] \in Nodes \cup {NULL} /\ t \notin stale
  BY <1>1 DEF IInv, TypeOK
<1>4. Busy(pc[t])
  BY <1>1 DEF Busy
<1>5. IInv' /\ Linked' = Linked
  BY <1>1, <1>2, <1>3, <1>4, MovesIInv
<1>6. info[t] \in DOMAIN heap
  <2>1. Owned(DOMAIN heap, Linked, pc, info, exists)
    BY ListFacts
  <2>. QED
    BY <1>4, <2>1 DEF Owned
<1>. QED
  BY <1>1, <1>5, <1>6

\* deactivate_sync_info has found the entry and holds its address
LEMMA FindsIInv ==
  ASSUME IInv, NEW t \in Threads, NEW s \in Sources, DeactivateFinds(t, s), Found(s) # NULL
  PROVE  IInv' /\ Linked' = Linked /\ UNCHANGED <<heap, result>>
<1>1. /\ pc[t] = "idle" /\ Goto(t, "found", Found(s))
      /\ UNCHANGED <<heap, head, count, exists, stale, strayed, result>>
  BY DEF DeactivateFinds, Idle
<1>2. result' \in Results
  BY <1>1 DEF IInv, TypeOK, Results
<1>3. Found(s) \in Linked /\ Found(s) \in Nodes \cup {NULL}
  BY FoundFacts, ListFacts
<1>4. t \notin stale /\ ~Busy(pc[t])
  BY <1>1 DEF IInv, TypeOK, Busy
<1>5. IInv' /\ Linked' = Linked
  BY <1>1, <1>2, <1>3, <1>4, MovesIInv
<1>. QED
  BY <1>1, <1>5

\* remove_sync_info takes one entry out of the list, and marks who holds it
LEMMA RemoveIInv ==
  ASSUME IInv, NEW t \in Threads, NEW s \in Sources, remove_sync_info(t, s),
         Positions(s) # {}
  PROVE  /\ IInv' /\ Linked' = Linked \ {Found(s)}
         /\ \A m \in DOMAIN heap' : /\ heap'[m].source = heap[m].source
                                    /\ heap'[m].active = heap[m].active
         /\ Return(t, "remove", 0) /\ UNCHANGED <<pc, info, strayed>>
<1>. DEFINE p == Position(s)
            n == Found(s)
            Entries == [source : Sources, active : BOOLEAN, next : Nodes \cup {NULL}]
<1>1. /\ exists /\ Unlink(p) /\ count' = count - 1
      /\ stale' = stale \cup {u \in Threads : pc[u] = "found" /\ info[u] = n}
      /\ Return(t, "remove", 0)
      /\ UNCHANGED <<exists, pc, info, strayed>>
  BY DEF remove_sync_info, CountedOff, Idle
<1>2. /\ Owned(DOMAIN heap, Linked, pc, info, exists)
      /\ Linked \subseteq DOMAIN heap /\ DOMAIN heap \subseteq Nodes
      /\ NULL \notin DOMAIN heap /\ N \in Nat /\ count \in 0..N
  BY ListFacts
<1>3. PICK L \in [1..count -> Nodes] :
        /\ Chain(heap, head, count, L) /\ Linked = {L[i] : i \in 1..count}
        /\ \A i \in 1..N + 1 : Pointer[i] = Entry(L, count, i)
  BY ListFacts
<1>4. p \in 1..count /\ Pointer[p] = n /\ n \in Linked
  BY FoundFacts
<1>5. \A i \in 1..count : Pointer[i] = L[i]
  <2>1. \A i \in 1..count : i \in 1..N + 1
    BY <1>2
  <2>. QED
    BY <1>3, <2>1 DEF Entry
<1>6. /\ n = L[p] /\ n \in DOMAIN heap
      /\ p > 1 => Pointer[p - 1] = L[p - 1]
  <2>1. p > 1 => p - 1 \in 1..count
    BY <1>2, <1>4
  <2>. QED
    BY <1>2, <1>4, <1>5, <2>1
<1>7. /\ head' = IF p = 1 THEN heap[n].next ELSE head
      /\ heap' = [m \in DOMAIN heap \ {n} |->
                    IF p > 1 /\ m = L[p - 1] THEN [heap[m] EXCEPT !.next = heap[n].next]
                    ELSE heap[m]]
  BY <1>1, <1>4, <1>6 DEF Unlink, Allocated
<1>8. \A m \in DOMAIN heap : heap[m] \in Entries
  BY DEF IInv, TypeOK, Allocated
<1>. HIDE DEF p, n
<1>9. /\ DOMAIN heap' = DOMAIN heap \ {n}
      /\ \A m \in DOMAIN heap' :
           heap'[m] = IF p > 1 /\ m = L[p - 1] THEN [heap[m] EXCEPT !.next = heap[n].next]
                      ELSE heap[m]
  BY <1>7
<1>10. ASSUME NEW m \in DOMAIN heap'
       PROVE  /\ heap'[m] \in Entries
              /\ heap'[m].source = heap[m].source /\ heap'[m].active = heap[m].active
              /\ heap'[m].next = IF p > 1 /\ m = L[p - 1] THEN heap[n].next ELSE heap[m].next
  <2>1. heap[m] \in Entries /\ heap[n] \in Entries
    BY <1>6, <1>8, <1>9
  <2>2. heap[n].next \in Nodes \cup {NULL}
    BY <2>1
  <2>3. CASE p > 1 /\ m = L[p - 1]
    BY <1>9, <2>1, <2>2, <2>3
  <2>4. CASE ~(p > 1 /\ m = L[p - 1])
    BY <1>9, <2>1, <2>4
  <2>. QED
    BY <2>3, <2>4
<1>. HIDE DEF Entries
<1>. DEFINE K == Shorter(L, count, p)
<1>11. /\ Chain(heap', head', count - 1, K)
       /\ \A m : m \in Members(K, count - 1) <=> m \in Members(L, count) /\ m # L[p]
  <2>1. DOMAIN heap' = DOMAIN heap \ {L[p]}
    BY <1>6, <1>9
  <2>2. \A m \in DOMAIN heap' : heap'[m].source = heap[m].source
    BY <1>10
  <2>3. \A m \in DOMAIN heap' :
          heap'[m].next = IF p > 1 /\ m = L[p - 1] THEN heap[L[p]].next ELSE heap[m].next
    BY <1>6, <1>10
  <2>4. head' = IF p = 1 THEN heap[L[p]].next ELSE head
    BY <1>6, <1>7
  <2>5. Unlinked(heap, head, L, p, heap', head')
    BY <2>1, <2>2, <2>3, <2>4 DEF Unlinked
  <2>6. Chain(heap, head, count, L)
    BY <1>3
  <2>7. p \in 1..count
    BY <1>4
  <2>. QED
    BY <2>5, <2>6, <2>7, ShortenedChain
<1>. HIDE DEF K
<1>12. ListPart' /\ Chained' /\ Linked' = {K[i] : i \in 1..count'}
  <2>1. DOMAIN heap' \subseteq Nodes
    BY <1>2, <1>9
  <2>. QED
    BY <1>1, <1>11, <2>1, NextList
<1>13. Linked' = Linked \ {n}
  BY <1>1, <1>3, <1>6, <1>11, <1>12 DEF Members
<1>14. TypeOK'
  <2>1. result' \in Results
    BY <1>1, ReturnType
  <2>2. count' \in 0..Cardinality(Nodes)
    BY <1>1, <1>2, <1>4 DEF N
  <2>3. head' \in Nodes \cup {NULL}
    BY <1>6, <1>7, <1>8 DEF IInv, TypeOK, Entries
  <2>4. stale' \subseteq {u \in Threads : pc[u] = "found"}
    BY <1>1 DEF IInv, TypeOK
  <2>5. /\ DOMAIN heap' \subseteq Nodes
        /\ \A m \in DOMAIN heap' :
             heap'[m] \in [source : Sources, active : BOOLEAN, next : Nodes \cup {NULL}]
    BY <1>2, <1>9, <1>10 DEF Entries
  <2>. QED
    BY <1>1, <2>1, <2>2, <2>3, <2>4, <2>5 DEF IInv, TypeOK, Allocated, Results
<1>15. Owned(DOMAIN heap', Linked', pc', info', exists')
  BY <1>1, <1>2, <1>4, <1>9, <1>13 DEF Owned
<1>16. HeldIsLinked'
  BY <1>1, <1>13 DEF IInv, HeldIsLinked
<1>17. IInv'
  BY <1>12, <1>14, <1>15, <1>16, ListSoundParts DEF IInv
<1>. QED
  BY <1>1, <1>10, <1>13, <1>17 DEF n

-----------------------------------------------------------------------------
(***************************************************************************)
(* The theorems.                                                           *)
(***************************************************************************)
\* The calls that leave the store as it is return what their contract allows
LEMMA LooksOnly ==
  ASSUME IInv, NEW t \in Threads,
         \/ CreateFails(t) \/ get_sync_info_count(t)
         \/ \E s \in Sources : \/ find_sync_info(t, s)
                               \/ remove_sync_info(t, s) /\ Positions(s) = {}
                               \/ DeactivateFinds(t, s) /\ Found(s) = NULL
  PROVE  /\ UNCHANGED <<heap, head, count, exists, pc, info, stale, strayed>>
         /\ result' \in Results
<1>1. UNCHANGED <<heap, head, count, exists, pc, info, stale, strayed>>
  BY DEF CreateFails, get_sync_info_count, find_sync_info, remove_sync_info, DeactivateFinds,
         locals
<1>2. \E value \in {-1, 0, 1, count} :
        \E call \in {"add", "find", "remove", "deactivate", "count"} : Return(t, call, value)
  BY DEF CreateFails, get_sync_info_count, find_sync_info, remove_sync_info, DeactivateFinds
<1>. QED
  BY <1>1, <1>2, ReturnType

\* Every operation of every thread keeps the invariant
LEMMA NextIInv == IInv /\ [Next]_vars => IInv'
<1>. SUFFICES ASSUME IInv, [Next]_vars PROVE IInv'
  OBVIOUS
<1>1. CASE UNCHANGED vars
  <2>1. result' \in Results
    BY <1>1 DEF vars, IInv, TypeOK, Results
  <2>. QED
    BY <1>1, <2>1, LooksIInv DEF vars
<1>2. CASE create_sync_info_store \/ destroy_sync_info_store
  BY <1>2, CreateStoreIInv, DestroyStoreIInv
<1>3. ASSUME NEW t \in Threads, CreateFails(t) \/ get_sync_info_count(t) PROVE IInv'
  BY <1>3, LooksOnly, LooksIInv
<1>4. ASSUME NEW t \in Threads, add_sync_info(t) PROVE IInv'
  <2>1. CASE Found(heap[info[t]].source) = NULL
    BY <1>4, <2>1, AddIInv
  <2>2. CASE Found(heap[info[t]].source) # NULL
    BY <1>4, <2>2, RefusedIInv
  <2>. QED
    BY <2>1, <2>2
<1>5. ASSUME NEW t \in Threads, free_sync_info(t) \/ DeactivateWrites(t) PROVE IInv'
  BY <1>5, FreeIInv, WriteIInv
<1>6. ASSUME NEW t \in Threads, NEW s \in Sources,
             create_sync_info(t, s) \/ find_sync_info(t, s)
      PROVE  IInv'
  BY <1>6, CreateInfoIInv, LooksOnly, LooksIInv
<1>7. ASSUME NEW t \in Threads, NEW s \in Sources, remove_sync_info(t, s) PROVE IInv'
  BY <1>7, RemoveIInv, LooksOnly, LooksIInv
<1>8. ASSUME NEW t \in Threads, NEW s \in Sources, DeactivateFinds(t, s) PROVE IInv'
  BY <1>8, FindsIInv, LooksOnly, LooksIInv
<1>. QED
  BY <1>1, <1>2, <1>3, <1>4, <1>5, <1>6, <1>7, <1>8 DEF Next

\* The invariant holds after any calls of any threads
THEOREM StoreInvariant == Spec => []IInv
<1>. QED
  BY InitIInv, NextIInv, PTL DEF Spec

\* Type correctness; count never drifts out of the memory there is
THEOREM StoreTypeOK == Spec => []TypeOK
<1>1. IInv => TypeOK
  BY DEF IInv
<1>. QED
  BY <1>1, StoreInvariant, PTL

\* The list that sync_info.c keeps is sound after any calls of any threads,
\* the writes of an overtaken deactivate_sync_info included
THEOREM ListAlwaysSound == Spec => []ListSound
<1>1. IInv => ListSound
  BY DEF IInv
<1>. QED
  BY <1>1, StoreInvariant, PTL

-----------------------------------------------------------------------------
(***************************************************************************)
(* The store as its callers see it.                                        *)
(***************************************************************************)
\* What an entry shows, and the abstract store that the list stands for
Face(hp, n) == [source |-> hp[n].source, active |-> hp[n].active]

Shown == {[source |-> heap[n].source, active |-> heap[n].active] : n \in Linked \cap Allocated}

\* The abstract store, entry by entry, before a step ...
LEMMA ShownNow ==
  ASSUME IInv
  PROVE  \A x : x \in Shown <=> \E n \in Linked : x = Face(heap, n)
<1>1. Linked \subseteq Allocated
  BY DEF IInv, ListSound
<1>. QED
  BY <1>1 DEF Shown, Face

\* ... and after it
LEMMA ShownNext ==
  ASSUME IInv'
  PROVE  \A x : x \in Shown' <=> \E n \in Linked' : x = Face(heap', n)
<1>1. Linked' \subseteq Allocated'
  BY DEF IInv, ListSound
<1>. QED
  BY <1>1 DEF Shown, Face

\* Calls that leave the list and its entries alone are not seen
LEMMA ShownKept ==
  ASSUME IInv, IInv', Linked' = Linked,
         \A n \in Linked : /\ heap'[n].source = heap[n].source
                           /\ heap'[n].active = heap[n].active
  PROVE  Shown' = Shown
<1>1. \A n \in Linked : Face(heap', n) = Face(heap, n)
  BY DEF Face
<1>2. \A x : x \in Shown' <=> x \in Shown
  BY <1>1, ShownNow, ShownNext
<1>. QED
  BY <1>2

\* find_sync_info finds what the abstract store knows
LEMMA KnownIsFound ==
  ASSUME IInv, NEW s
  PROVE  Pairs!Known(s) <=> Found(s) # NULL
<1>1. Pairs!Known(s) <=> \E e \in Shown : e.source = s
  BY DEF Pairs!Known, Shown
<1>2. \A n : Face(heap, n).source = heap[n].source
  BY DEF Face
<1>3. (\E e \in Shown : e.source = s) <=> \E n \in Linked : heap[n].source = s
  BY <1>2, ShownNow
<1>. QED
  BY <1>1, <1>3, FoundFacts

\* count is the number of entries that are seen
LEMMA CountIsShown ==
  ASSUME IInv
  PROVE  Cardinality(Shown) = count
<1>. DEFINE f == [n \in Linked |-> Face(heap, n)]
<1>1. /\ Linked \subseteq Allocated /\ count = Cardinality(Linked)
      /\ \A m, n \in Linked : heap[m].source = heap[n].source => m = n
  BY DEF IInv, ListSound
<1>2. Shown = {Face(heap, n) : n \in Linked}
  BY <1>1 DEF Shown, Face
<1>3. f \in Bijection(Linked, Shown)
  <2>1. f \in [Linked -> Shown]
    BY <1>2
  <2>2. \A m, n \in Linked : Face(heap, m) = Face(heap, n) => m = n
    BY <1>1 DEF Face
  <2>3. IsInjective(f)
    BY <2>2 DEF IsInjective
  <2>4. \A x \in Shown : \E n \in Linked : f[n] = x
    BY <1>2
  <2>. QED
    BY <2>1, <2>3, <2>4 DEF Bijection, Injection, Surjection
<1>4. IsFiniteSet(Linked)
  <2>1. Linked \in SUBSET Nodes
    BY ListFacts
  <2>. QED
    BY <2>1, StoreAssumption, FS_Subset
<1>5. ExistsBijection(Linked, Shown)
  BY <1>3 DEF ExistsBijection
<1>. QED
  BY <1>1, <1>4, <1>5, FS_Bijection

\* Until a stale pointer is written through, an entry that was not yet handed
\* over is active
FreshIsActive ==
  ~strayed => \A t \in Threads : Busy(pc[t]) => heap[info[t]].active

\* Writes through pointers that are not stale do not reach such an entry
LEMMA FreshKept ==
  ASSUME IInv, FreshIsActive, [Next]_vars
  PROVE  FreshIsActive'
<1>1. /\ IInv'
      /\ \A t \in Threads : Busy(pc[t]) => info[t] \in DOMAIN heap /\ info[t] \notin Linked
      /\ \A t \in Threads : Busy(pc'[t]) => info'[t] \in DOMAIN heap'
  <2>1. IInv'
    BY NextIInv
  <2>2. /\ Owned(DOMAIN heap, Linked, pc, info, exists)
        /\ Owned(DOMAIN heap', Linked', pc', info', exists')
    BY <2>1, ListSoundParts DEF IInv
  <2>. QED
    BY <2>1, <2>2 DEF Owned
<1>2. /\ pc \in [Threads -> {"idle", "created", "refused", "found"}]
      /\ info \in [Threads -> Nodes \cup {NULL}]
  BY DEF IInv, TypeOK
<1>3. ASSUME strayed => strayed',
             \A u \in Threads :
               Busy(pc'[u]) => \/ heap'[info'[u]].active
                               \/ /\ Busy(pc[u]) /\ info'[u] = info[u]
                                  /\ heap'[info[u]].active <=> heap[info[u]].active
      PROVE  FreshIsActive'
  BY <1>3 DEF FreshIsActive
<1>4. CASE UNCHANGED <<heap, pc, info, strayed>>
  BY <1>4 DEF FreshIsActive
<1>5. CASE destroy_sync_info_store
  BY <1>5 DEF destroy_sync_info_store, FreshIsActive, Busy, locals
<1>6. ASSUME NEW t \in Threads, add_sync_info(t) PROVE FreshIsActive'
  <2>1. /\ strayed' = strayed
        /\ \A u \in Threads : Busy(pc'[u]) => Busy(pc[u]) /\ info'[u] = info[u]
    BY <1>2, <1>6 DEF add_sync_info, Goto, Busy
  <2>2. \A m \in DOMAIN heap : heap'[m].active = heap[m].active
    <3>1. CASE Found(heap[info[t]].source) = NULL
      BY <1>6, <3>1, AddIInv
    <3>2. CASE Found(heap[info[t]].source) # NULL
      BY <1>6, <3>2, RefusedIInv
    <3>. QED
      BY <3>1, <3>2
  <2>. QED
    BY <1>1, <1>3, <2>1, <2>2
<1>7. ASSUME NEW t \in Threads, free_sync_info(t) PROVE FreshIsActive'
  <2>1. /\ \A m \in DOMAIN heap' : heap'[m] = heap[m]
        /\ strayed' = strayed /\ ~Busy(pc'[t])
        /\ \A u \in Threads : u # t => pc'[u] = pc[u] /\ info'[u] = info[u]
    BY <1>7, FreeIInv
  <2>. QED
    BY <1>1, <1>3, <2>1
<1>8. ASSUME NEW t \in Threads, DeactivateWrites(t) PROVE FreshIsActive'
  <2>1. /\ \A m \in DOMAIN heap :
              heap'[m].active = IF m = info[t] THEN FALSE ELSE heap[m].active
        /\ strayed => strayed'
        /\ strayed' \/ info[t] \in Linked
        /\ \A u \in Threads : Busy(pc'[u]) => Busy(pc[u]) /\ info'[u] = info[u]
    BY <1>8, WriteIInv
  <2>2. CASE strayed'
    BY <2>2 DEF FreshIsActive
  <2>3. CASE info[t] \in Linked
    <3>1. \A u \in Threads : Busy(pc[u]) => info[u] # info[t]
      BY <1>1, <2>3
    <3>. QED
      BY <1>1, <1>3, <2>1, <3>1
  <2>. QED
    BY <2>1, <2>2, <2>3
<1>9. ASSUME NEW t \in Threads, NEW s \in Sources, create_sync_info(t, s)
      PROVE  FreshIsActive'
  <2>1. /\ \A m \in DOMAIN heap : heap'[m] = heap[m]
        /\ heap'[info'[t]].active
        /\ \A u \in Threads : u # t => pc'[u] = pc[u] /\ info'[u] = info[u]
    BY <1>9, CreateInfoIInv
  <2>2. strayed' = strayed
    BY <1>9 DEF create_sync_info
  <2>. QED
    BY <1>1, <1>3, <2>1, <2>2
<1>10. ASSUME NEW t \in Threads, NEW s \in Sources, remove_sync_info(t, s)
       PROVE  FreshIsActive'
  <2>1. CASE Positions(s) = {}
    <3>1. UNCHANGED <<heap, pc, info, strayed>>
      BY <1>10, <2>1 DEF remove_sync_info
    <3>. QED
      BY <1>4, <3>1
  <2>2. CASE Positions(s) # {}
    <3>1. /\ \A m \in DOMAIN heap' : heap'[m].active = heap[m].active
          /\ UNCHANGED <<pc, info, strayed>>
      BY <1>10, <2>2, RemoveIInv
    <3>. QED
      BY <1>1, <1>3, <3>1
  <2>. QED
    BY <2>1, <2>2
<1>11. ASSUME NEW t \in Threads, NEW s \in Sources, DeactivateFinds(t, s)
       PROVE  FreshIsActive'
  <2>1. /\ UNCHANGED <<heap, strayed>>
        /\ \A u \in Threads : Busy(pc'[u]) => Busy(pc[u]) /\ info'[u] = info[u]
    BY <1>2, <1>11 DEF DeactivateFinds, Goto, Busy
  <2>. QED
    BY <1>3, <2>1
<1>. QED
  BY <1>4, <1>5, <1>6, <1>7, <1>8, <1>9, <1>10, <1>11
  DEF Next, create_sync_info_store, CreateFails, get_sync_info_count, find_sync_info, vars,
      locals

\* A step that changes neither what is seen nor the result is a stutter, one
\* that takes an entry, gives one back or changes one is the abstract operation
LEMMA NextActs ==
  ASSUME IInv, FreshIsActive, [Next]_vars
  PROVE  strayed' \/ Pairs!PSNext \/ UNCHANGED Pairs!psvars
<1>1. IInv'
  BY NextIInv
<1>2. \A t \in Threads : Busy(pc[t]) => info[t] \in DOMAIN heap /\ info[t] \notin Linked
  <2>1. Owned(DOMAIN heap, Linked, pc, info, exists)
    BY ListSoundParts DEF IInv
  <2>. QED
    BY <2>1 DEF Owned
<1>3. Linked \subseteq DOMAIN heap /\ \A m \in DOMAIN heap : heap[m].source \in Sources
  BY DEF IInv, TypeOK, ListSound, Allocated
<1>4. ASSUME Shown' = Shown, result' = result PROVE UNCHANGED Pairs!psvars
  BY <1>4 DEF Pairs!psvars, Shown
<1>5. CASE UNCHANGED vars
  BY <1>4, <1>5 DEF vars, Shown, Linked, Pointer, Allocated
<1>6. CASE create_sync_info_store
  <2>1. ~exists /\ heap' = heap /\ result' = result
    BY <1>6 DEF create_sync_info_store
  <2>2. Allocated = {} /\ Allocated' = {}
    BY <2>1 DEF IInv, ListSound, Allocated
  <2>. QED
    BY <1>4, <2>1, <2>2 DEF Shown
<1>7. CASE destroy_sync_info_store
  <2>1. result' = result
    BY <1>7 DEF destroy_sync_info_store
  <2>2. DOMAIN heap' = {}
    BY <1>7, DestroyStoreIInv
  <2>3. Shown' = {}
    BY <2>2 DEF Shown, Allocated
  <2>4. Pairs!Clear
    BY <2>1, <2>3 DEF Pairs!Clear, Shown
  <2>. QED
    BY <2>4 DEF Pairs!PSNext
<1>8. ASSUME NEW t \in Threads, NEW s \in Sources, create_sync_info(t, s)
      PROVE  UNCHANGED Pairs!psvars
  <2>1. Linked' = Linked /\ result' = result /\ \A m \in DOMAIN heap : heap'[m] = heap[m]
    BY <1>8, CreateInfoIInv
  <2>2. Shown' = Shown
    BY <1>1, <1>3, <2>1, ShownKept
  <2>. QED
    BY <1>4, <2>1, <2>2
<1>9. ASSUME NEW t \in Threads, CreateFails(t) PROVE Pairs!NoMemory(t)
  <2>1. UNCHANGED <<heap, head>> /\ Return(t, "add", -1)
    BY <1>9 DEF CreateFails
  <2>2. Shown' = Shown
    BY <2>1 DEF Shown, Linked, Pointer, Allocated
  <2>. QED
    BY <2>1, <2>2 DEF Pairs!NoMemory, Pairs!Return, Return, Shown
<1>10. ASSUME NEW t \in Threads, add_sync_info(t) PROVE strayed' \/ Pairs!PSNext
  <2>1. Busy(pc[t]) /\ strayed' = strayed
    BY <1>10 DEF add_sync_info, Busy
  <2>. PICK n : n = info[t]
    OBVIOUS
  <2>2. PICK s \in Sources : s = heap[n].source
    BY <1>2, <1>3, <2>1
  <2>3. CASE Found(s) # NULL
    <3>1. Linked' = Linked /\ heap' = heap /\ Return(t, "add", 1)
      BY <1>10, <2>2, <2>3, RefusedIInv
    <3>2. Shown' = Shown
      BY <1>1, <3>1, ShownKept
    <3>3. Pairs!Known(s)
      BY <2>3, KnownIsFound
    <3>4. Pairs!Add(t, s)
      BY <3>1, <3>2, <3>3 DEF Pairs!Add, Pairs!Return, Return, Shown
    <3>. QED
      BY <3>4 DEF Pairs!PSNext
  <2>4. CASE Found(s) = NULL /\ ~strayed
    <3>1. /\ Linked' = Linked \cup {n} /\ Return(t, "add", 0)
          /\ \A m \in DOMAIN heap : /\ heap'[m].source = heap[m].source
                                    /\ heap'[m].active = heap[m].active
          /\ n \in DOMAIN heap
      BY <1>10, <2>2, <2>4, AddIInv
    <3>2. heap[n].active = TRUE
      <4>1. heap[n].active
        BY <2>1, <2>4 DEF FreshIsActive
      <4>2. heap[n].active \in BOOLEAN
        BY <3>1 DEF IInv, TypeOK, Allocated
      <4>. QED
        BY <4>1, <4>2
    <3>3. Face(heap', n) = [source |-> s, active |-> TRUE]
      BY <2>2, <3>1, <3>2 DEF Face
    <3>4. \A m \in Linked : Face(heap', m) = Face(heap, m)
      BY <1>3, <3>1 DEF Face
    <3>5. ~Pairs!Known(s)
      BY <2>4, KnownIsFound
    <3>6. \A x : x \in Shown' <=> x \in Shown \/ x = [source |-> s, active |-> TRUE]
      <4>1. ASSUME NEW x
            PROVE  x \in Shown' <=> \/ \E m \in Linked : x = Face(heap, m)
                                    \/ x = [source |-> s, active |-> TRUE]
        <5>1. x \in Shown' <=> \E m \in Linked' : x = Face(heap', m)
          BY <1>1, ShownNext
        <5>2. (\E m \in Linked' : x = Face(heap', m))
                <=> (\E m \in Linked : x = Face(heap', m)) \/ x = Face(heap', n)
          BY <3>1
        <5>3. (\E m \in Linked : x = Face(heap', m)) <=> \E m \in Linked : x = Face(heap, m)
          BY <3>4
        <5>. QED
          BY <3>3, <5>1, <5>2, <5>3
      <4>. QED
        BY <4>1, ShownNow
    <3>7. Shown' = Shown \cup {[source |-> s, active |-> TRUE]}
      BY <3>6
    <3>8. Pairs!Add(t, s)
      BY <3>1, <3>5, <3>7 DEF Pairs!Add, Pairs!Return, Return, Shown
    <3>. QED
      BY <3>8 DEF Pairs!PSNext
  <2>. QED
    BY <2>1, <2>3, <2>4
<1>11. ASSUME NEW t \in Threads, free_sync_info(t) PROVE UNCHANGED Pairs!psvars
  <2>1. Linked' = Linked /\ result' = result /\ \A m \in DOMAIN heap' : heap'[m] = heap[m]
    BY <1>11, FreeIInv
  <2>2. Linked' \subseteq DOMAIN heap'
    BY <1>1 DEF IInv, ListSound, Allocated
  <2>3. Shown' = Shown
    BY <1>1, <2>1, <2>2, ShownKept
  <2>. QED
    BY <1>4, <2>1, <2>3
<1>12. ASSUME NEW t \in Threads, NEW s \in Sources, find_sync_info(t, s)
       PROVE  Pairs!Lookup(t, s)
  <2>1. UNCHANGED <<heap, head>> /\ Return(t, "find", IF Found(s) # NULL THEN 0 ELSE 1)
    BY <1>12 DEF find_sync_info
  <2>2. Shown' = Shown
    BY <2>1 DEF Shown, Linked, Pointer, Allocated
  <2>3. Pairs!Known(s) <=> Found(s) # NULL
    BY KnownIsFound
  <2>. QED
    BY <2>1, <2>2, <2>3 DEF Pairs!Lookup, Pairs!Return, Return, Shown
<1>13. ASSUME NEW t \in Threads, get_sync_info_count(t) PROVE Pairs!Count(t)
  <2>1. UNCHANGED <<heap, head>> /\ Return(t, "count", count)
    BY <1>13 DEF get_sync_info_count
  <2>2. Shown' = Shown
    BY <2>1 DEF Shown, Linked, Pointer, Allocated
  <2>3. Cardinality(Shown) = count
    BY CountIsShown
  <2>4. Pairs!Cardinality(Shown) = Cardinality(Shown)
    BY DEF Cardinality, Pairs!Cardinality, IsFiniteSet, Pairs!IsFiniteSet
  <2>5. Return(t, "count", Pairs!Cardinality(Shown))
    BY <2>1, <2>3, <2>4
  <2>. QED
    BY <2>2, <2>5 DEF Pairs!Count, Pairs!Return, Return, Shown
<1>14. ASSUME NEW t \in Threads, NEW s \in Sources, remove_sync_info(t, s)
       PROVE  Pairs!Remove(t, s)
  <2>1. ASSUME Return(t, "remove", IF Pairs!Known(s) THEN 0 ELSE 1),
               \A x : x \in Shown' <=> x \in Shown /\ x.source # s
        PROVE  Pairs!Remove(t, s)
    <3>1. Shown' = {e \in Shown : e.source # s}
      BY <2>1
    <3>. QED
      BY <2>1, <3>1 DEF Pairs!Remove, Pairs!Return, Return, Shown
  <2>2. \A m : Face(heap, m).source = heap[m].source
    BY DEF Face
  <2>3. CASE Positions(s) = {}
    <3>1. UNCHANGED <<heap, head>> /\ Return(t, "remove", 1)
      BY <1>14, <2>3 DEF remove_sync_info
    <3>2. Shown' = Shown
      BY <3>1 DEF Shown, Linked, Pointer, Allocated
    <3>3. ~Pairs!Known(s) /\ \A m \in Linked : heap[m].source # s
      BY <2>3, FoundFacts, KnownIsFound
    <3>4. \A x \in Shown : x.source # s
      BY <2>2, <3>3, ShownNow
    <3>. QED
      BY <2>1, <3>1, <3>2, <3>3, <3>4
  <2>4. CASE Positions(s) # {}
    <3>1. /\ Linked' = Linked \ {Found(s)} /\ Return(t, "remove", 0)
          /\ \A m \in DOMAIN heap' : /\ heap'[m].source = heap[m].source
                                     /\ heap'[m].active = heap[m].active
      BY <1>14, <2>4, RemoveIInv
    <3>2. Pairs!Known(s) /\ Found(s) \in Linked /\ heap[Found(s)].source = s
      BY <2>4, FoundFacts, KnownIsFound
    <3>3. \A m \in Linked : heap[m].source = s <=> m = Found(s)
      BY <3>2 DEF IInv, ListSound
    <3>4. Linked' \subseteq DOMAIN heap'
      BY <1>1 DEF IInv, ListSound, Allocated
    <3>5. \A m \in Linked' : Face(heap', m) = Face(heap, m)
      BY <3>1, <3>4 DEF Face
    <3>6. \A x : x \in Shown' <=> x \in Shown /\ x.source # s
      BY <1>1, <2>2, <3>1, <3>3, <3>5, ShownNow, ShownNext
    <3>. QED
      BY <2>1, <3>1, <3>2, <3>6
  <2>. QED
    BY <2>3, <2>4
<1>15. ASSUME NEW t \in Threads, NEW s \in Sources, DeactivateFinds(t, s)
       PROVE  Pairs!PSNext \/ UNCHANGED Pairs!psvars
  <2>1. CASE Found(s) # NULL
    <3>1. Linked' = Linked /\ heap' = heap /\ result' = result
      BY <1>15, <2>1, FindsIInv
    <3>2. Shown' = Shown
      BY <1>1, <3>1, ShownKept
    <3>. QED
      BY <1>4, <3>1, <3>2
  <2>2. CASE Found(s) = NULL
    <3>1. UNCHANGED <<heap, head>> /\ Return(t, "deactivate", 1)
      BY <1>15, <2>2 DEF DeactivateFinds
    <3>2. Shown' = Shown
      BY <3>1 DEF Shown, Linked, Pointer, Allocated
    <3>3. ~Pairs!Known(s) /\ \A m \in Linked : heap[m].source # s
      BY <2>2, FoundFacts, KnownIsFound
    <3>4. \A m : Face(heap, m).source = heap[m].source
      BY DEF Face
    <3>5. \A x \in Shown : x.source # s
      BY <3>3, <3>4, ShownNow
    <3>6. Shown' = {IF e.source = s THEN [e EXCEPT !.active = FALSE] ELSE e : e \in Shown}
      BY <3>2, <3>5
    <3>7. Pairs!Deactivate(t, s)
      BY <3>1, <3>3, <3>6 DEF Pairs!Deactivate, Pairs!Return, Return, Shown
    <3>. QED
      BY <3>7 DEF Pairs!PSNext
  <2>. QED
    BY <2>1, <2>2
<1>16. ASSUME NEW t \in Threads, DeactivateWrites(t) PROVE strayed' \/ Pairs!PSNext
  <2>. PICK n : n = info[t]
    OBVIOUS
  <2>1. /\ Linked' = Linked /\ Return(t, "deactivate", 0)
        /\ \A m \in DOMAIN heap :
             /\ heap'[m].source = heap[m].source
             /\ heap'[m].active = IF m = n THEN FALSE ELSE heap[m].active
        /\ strayed' \/ n \in Linked
    BY <1>16, WriteIInv
  <2>. SUFFICES ASSUME n \in Linked PROVE Pairs!PSNext
    BY <2>1
  <2>2. PICK s \in Sources : s = heap[n].source
    BY <1>3
  <2>3. \A m \in Linked : heap[m].source = s <=> m = n
    BY <2>2 DEF IInv, ListSound
  <2>4. Pairs!Known(s)
    BY <2>2, KnownIsFound, FoundFacts
  <2>. DEFINE off(e) == IF e.source = s THEN [e EXCEPT !.active = FALSE] ELSE e
  <2>5. \A m \in Linked : Face(heap', m) = off(Face(heap, m))
    BY <1>3, <2>1, <2>3 DEF Face
  <2>. HIDE DEF off
  <2>6. \A x : x \in Shown' <=> \E e \in Shown : x = off(e)
    BY <1>1, <2>1, <2>5, ShownNow, ShownNext
  <2>7. Shown' = {off(e) : e \in Shown}
    BY <2>6
  <2>8. Pairs!Deactivate(t, s)
    BY <2>1, <2>4, <2>7 DEF Pairs!Deactivate, Pairs!Return, Return, Shown, off
  <2>. QED
    BY <2>8 DEF Pairs!PSNext
<1>. QED
  BY <1>5, <1>6, <1>7, <1>8, <1>9, <1>10, <1>11, <1>12, <1>13, <1>14, <1>15, <1>16
  DEF Next, Pairs!PSNext

\* Until a removal overtakes a deactivation of the same entry, the list acts in
\* every step as the abstract store of PairStore does
THEOREM StoreActsAsPairStore == Spec => ActsAsPairStore
<1>1. Init => FreshIsActive
  BY DEF Init, FreshIsActive, Busy
<1>2. IInv /\ FreshIsActive /\ [Next]_vars => FreshIsActive'
  BY FreshKept
<1>3. IInv /\ FreshIsActive /\ [Next]_vars
        => [strayed' \/ Pairs!PSNext \/ UNCHANGED Pairs!psvars]_vars
  BY NextActs
<1>. QED
  BY <1>1, <1>2, <1>3, StoreInvariant, PTL DEF Spec, ActsAsPairStore
=============================================================================
