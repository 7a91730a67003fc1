--------------------------- MODULE OldTreeProofs ----------------------------
(***************************************************************************)
(* Proofs about four parts of the older tree: Que, for every heap and all  *)
(* capacities, TStack, for every range of values and all capacities,       *)
(* PrintLock, for any number of threads, lines and tries, and Teatest, for *)
(* every suite with an entry and every pipe.                               *)
(***************************************************************************)
EXTENDS Que, TStack, PrintLock, Teatest, WellFoundedInduction, FiniteSetTheorems,
        SequenceTheorems, TLAPS

-----------------------------------------------------------------------------
(* The queue.                                                              *)

USE QueAssumption

(* A nonempty set of naturals has a least element. *)
LEMMA LeastNatural ==
    ASSUME NEW T \in SUBSET Nat, T # {}
    PROVE  \E m \in T : \A k \in T : m <= k
<1>. DEFINE Less == {ss \in Nat \X Nat : ss[1] < ss[2]}
<1>1. OpToRel(<, Nat) = Less
  BY Zenon DEF OpToRel
<1>2. IsWellFoundedOn(Less, Nat)
  BY <1>1, NatLessThanWellFounded, Zenon
<1>. HIDE DEF Less
<1>3. PICK m \in T : \A k \in T : ~ (<<k, m>> \in Less)
  BY <1>2, WFMin, Zenon
<1>4. \A k \in T : <<k, m>> \in Less <=> k < m
  BY DEF Less
<1>5. \A k \in T : ~ (k < m)
  BY <1>3, <1>4, Zenon
<1>. QED  BY <1>5

(* The types, one by one. *)
LEMMA QueFields ==
    ASSUME QueTypeOK
    PROVE  /\ que.head \in QueNodes \cup {Nil} /\ que.tail \in QueNodes \cup {Nil}
           /\ que.count \in Nat /\ que.capacity \in QueCapacities \cup {0} /\ que.capacity \in Nat
           /\ que.count + 1 \in Nat
           /\ Listed \subseteq QueNodes /\ Nil \notin Listed /\ Nil \notin DOMAIN que_heap
           /\ \A n \in DOMAIN que_heap :
                  que_heap[n] \in [next : QueNodes \cup {Nil}, prev : QueNodes \cup {Nil},
                                   data : QueData]
BY DEF QueTypeOK, Listed

(* The order is found by following the links from the head.                *)
LEMMA QueOrderFollows ==
    ASSUME QueTypeOK, NEW s, QueIsOrder(s)
    PROVE  QueOrder = [i \in 1 .. que.count + Cardinality(QueNodes) |->
                          IF i <= que.count THEN s[i] ELSE Nil]
<1>. DEFINE N == que.count + Cardinality(QueNodes)
            After(m) == IF m \in DOMAIN que_heap THEN que_heap[m].next ELSE Nil
            Unfolds(g) == g = [i \in 1 .. N |-> IF i = 1 THEN que.head ELSE After(g[i - 1])]
            walk == [i \in 1 .. N |-> IF i <= que.count THEN s[i] ELSE Nil]
<1>1. que.count \in Nat /\ Cardinality(QueNodes) \in Nat
  BY QueFields, FS_CardinalityType
<1>2. N \in Nat
  BY <1>1
<1>3. QueOrder = CHOOSE g : Unfolds(g)
  BY DEF QueOrder
<1>4. \A m \in Listed : m \in DOMAIN que_heap
  BY DEF Listed
<1>. HIDE DEF N
<1>5. \A i \in 1 .. N : walk[i] = IF i = 1 THEN que.head ELSE After(walk[i - 1])
  <2>1. SUFFICES ASSUME NEW i \in 1 .. N
                 PROVE  walk[i] = IF i = 1 THEN que.head ELSE After(walk[i - 1])
    OBVIOUS
  <2>2. walk[i] = IF i <= que.count THEN s[i] ELSE Nil
    OBVIOUS
  <2>3. CASE i = 1
    <3>1. que.count = 0 => ~(i <= que.count) /\ que.head = Nil
      BY <1>1, <2>3 DEF QueIsOrder
    <3>2. que.count # 0 => i <= que.count /\ que.head = s[1]
      BY <1>1, <2>3 DEF QueIsOrder
    <3>. QED  BY <2>2, <2>3, <3>1, <3>2
  <2>4. CASE i # 1
    <3>1. i \in Nat /\ i - 1 \in 1 .. N
      BY <1>2, <2>4
    <3>2. walk[i - 1] = IF i - 1 <= que.count THEN s[i - 1] ELSE Nil
      BY <3>1
    <3>3. CASE i - 1 <= que.count
      <4>1. i - 1 \in 1 .. que.count /\ (i - 1 = que.count <=> ~(i <= que.count)) /\ i - 1 + 1 = i
        BY <1>1, <3>1, <3>3
      <4>2. s[i - 1] \in DOMAIN que_heap
        BY <1>4, <4>1 DEF QueIsOrder
      <4>3. que_heap[s[i - 1]].next = IF i - 1 = que.count THEN Nil ELSE s[i - 1 + 1]
        BY <4>1 DEF QueIsOrder
      <4>. QED  BY <2>2, <2>4, <3>2, <3>3, <4>1, <4>2, <4>3
    <3>4. CASE ~(i - 1 <= que.count)
      <4>1. ~(i <= que.count)
        BY <1>1, <3>1, <3>4
      <4>2. Nil \notin DOMAIN que_heap
        BY QueFields
      <4>. QED  BY <2>2, <2>4, <3>2, <3>4, <4>1, <4>2
    <3>. QED  BY <3>3, <3>4
  <2>. QED  BY <2>3, <2>4
<1>6. walk = [i \in 1 .. N |-> walk[i]]
  OBVIOUS
<1>7. walk = [i \in 1 .. N |-> IF i <= que.count THEN s[i] ELSE Nil]
  OBVIOUS
<1>. HIDE DEF walk
<1>8. Unfolds(walk)
  BY <1>5, <1>6, Zenon
<1>9. Unfolds(QueOrder)
  BY <1>3, <1>8, Zenon
<1>10. \A i \in 1 .. N : QueOrder[i] = IF i = 1 THEN que.head ELSE After(QueOrder[i - 1])
  BY <1>9, Zenon
<1>11. QueOrder = [i \in 1 .. N |-> QueOrder[i]]
  BY <1>9, Zenon
<1>. HIDE DEF Unfolds, After
<1>. DEFINE Apart == {i \in 1 .. N : QueOrder[i] # walk[i]}
<1>12. Apart = {}
  <2>1. SUFFICES ASSUME Apart # {} PROVE FALSE
    OBVIOUS
  <2>2. Apart \in SUBSET Nat
    BY <1>2
  <2>. HIDE DEF Apart
  <2>3. PICK m \in Apart : \A i \in Apart : m <= i
    BY <2>1, <2>2, LeastNatural
  <2>4. m \in 1 .. N /\ QueOrder[m] # walk[m]
    BY DEF Apart
  <2>5. m # 1
    BY <1>5, <1>10, <2>4
  <2>6. m - 1 \in 1 .. N /\ ~(m <= m - 1)
    BY <1>2, <2>4, <2>5
  <2>7. QueOrder[m - 1] = walk[m - 1]
    BY <2>3, <2>6 DEF Apart
  <2>. QED  BY <1>5, <1>10, <2>4, <2>5, <2>7, Zenon
<1>13. \A i \in 1 .. N : QueOrder[i] = walk[i]
  BY <1>12
<1>14. QueOrder = walk
  BY <1>6, <1>11, <1>13, Zenon
<1>. QED  BY <1>7, <1>14 DEF N

QueItemsFollow ==
    \A s : QueIsOrder(s) => QueItems = [i \in 1 .. que.count |-> que_heap[s[i]].data]

LEMMA QueItemsAreOrdered == QueIInv => QueItemsFollow
<1>1. SUFFICES ASSUME QueIInv, NEW s, QueIsOrder(s)
               PROVE  QueItems = [i \in 1 .. que.count |-> que_heap[s[i]].data]
  BY DEF QueItemsFollow
<1>2. que.count \in Nat /\ Cardinality(QueNodes) \in Nat
  BY <1>1, QueFields, FS_CardinalityType DEF QueIInv
<1>3. QueOrder = [i \in 1 .. que.count + Cardinality(QueNodes) |->
                     IF i <= que.count THEN s[i] ELSE Nil]
  BY <1>1, QueOrderFollows DEF QueIInv
<1>4. ASSUME NEW i \in 1 .. que.count
      PROVE  QueOrder[i] = s[i] /\ s[i] \in DOMAIN que_heap
  <2>1. i \in 1 .. que.count + Cardinality(QueNodes) /\ i <= que.count
    BY <1>2
  <2>2. s[i] \in Listed
    BY <1>1 DEF QueIsOrder
  <2>. QED  BY <1>3, <2>1, <2>2 DEF Listed
<1>. QED  BY <1>4 DEF QueItems

(* The same of the state a call leaves. *)
LEMMA QueItemsAfter ==
    ASSUME QueIInv', NEW t, QueIsOrder(t)'
    PROVE  QueItems' = [i \in 1 .. que'.count |-> que_heap'[t[i]].data]
<1>1. QueIInv' => QueItemsFollow'
  BY QueItemsAreOrdered, PTL
<1>. QED  BY <1>1 DEF QueItemsFollow

(* Every allocated node is in the list or with the caller. *)
LEMMA QueListedCount ==
    QueIInv => Cardinality(DOMAIN que_heap) = que.count + Cardinality(que_held)
<1>. SUFFICES ASSUME QueIInv
              PROVE  Cardinality(DOMAIN que_heap) = que.count + Cardinality(que_held)
  OBVIOUS
<1>1. QueTypeOK /\ que.count \in Nat
  BY QueFields DEF QueIInv
<1>2. PICK s \in [1 .. que.count -> Listed] : QueIsOrder(s)
  BY DEF QueIInv, QueLinked
<1>3. s \in Bijection(1 .. que.count, Listed)
  BY <1>2 DEF QueIsOrder, Bijection, Injection, Surjection, IsInjective
<1>4. IsFiniteSet(1 .. que.count) /\ Cardinality(1 .. que.count) = que.count
  BY <1>1, FS_Interval
<1>5. IsFiniteSet(Listed) /\ Cardinality(Listed) = que.count
  BY <1>3, <1>4, FS_Bijection DEF ExistsBijection
<1>6. IsFiniteSet(que_held)
  <2>1. que_held \subseteq QueNodes
    BY <1>1 DEF QueTypeOK
  <2>. QED  BY <2>1, FS_Subset
<1>7. DOMAIN que_heap = Listed \cup que_held /\ Listed \cap que_held = {}
  BY <1>1 DEF QueTypeOK, Listed
<1>8. Cardinality(Listed \cup que_held) = Cardinality(Listed) + Cardinality(que_held) - Cardinality({})
  BY <1>5, <1>6, <1>7, FS_Union
<1>9. Cardinality({}) = 0 /\ Cardinality(que_held) \in Nat
  BY <1>6, FS_EmptySet, FS_CardinalityType
<1>. QED  BY <1>1, <1>5, <1>7, <1>8, <1>9

LEMMA QueInitIsInductive == QueInit => QueIInv
<1>. SUFFICES ASSUME QueInit PROVE QueIInv
  OBVIOUS
<1>1. /\ que.head = Nil /\ que.tail = Nil /\ que.count = 0 /\ que.capacity = 0
      /\ DOMAIN que_heap = {} /\ que_held = {}
  BY DEF QueInit, QueEmpty
<1>2. QueTypeOK
  BY <1>1 DEF QueInit, QueEmpty, QueTypeOK
<1>3. QueLinked
  <2>1. PICK s : s = [i \in 1 .. 0 |-> Nil]
    OBVIOUS
  <2>2. s \in [1 .. que.count -> Listed] /\ QueIsOrder(s)
    BY <1>1, <2>1 DEF QueIsOrder, Listed
  <2>. QED  BY <2>2 DEF QueLinked
<1>. QED  BY <1>2, <1>3 DEF QueIInv

(* A call that leaves the list and the nodes in it. *)
LEMMA QueListStays ==
    ASSUME QueIInv, QueTypeOK', Listed' = Listed,
           que'.head = que.head, que'.tail = que.tail, que'.count = que.count,
           \A n \in Listed : que_heap'[n] = que_heap[n]
    PROVE  QueIInv' /\ QueItems' = QueItems
<1>1. PICK s \in [1 .. que.count -> Listed] : QueIsOrder(s)
  BY DEF QueIInv, QueLinked
<1>2. \A i \in 1 .. que.count : s[i] \in Listed
  OBVIOUS
<1>3. QueIsOrder(s)'
  BY <1>1, <1>2 DEF QueIsOrder
<1>4. QueIInv'
  BY <1>3 DEF QueIInv, QueLinked, QueIsOrder
<1>5. QueItems' = [i \in 1 .. que'.count |-> que_heap'[s[i]].data]
  BY <1>3, <1>4, QueItemsAfter
<1>6. QueItems = [i \in 1 .. que.count |-> que_heap[s[i]].data]
  BY <1>1, QueItemsAreOrdered DEF QueItemsFollow
<1>. QED  BY <1>2, <1>4, <1>5, <1>6

(* The list is empty. *)
LEMMA QueEmptied ==
    ASSUME QueTypeOK, que.count = 0, que.head = Nil, que.tail = Nil, Listed = {}
    PROVE  QueIInv
<1>1. PICK s : s = [i \in 1 .. 0 |-> Nil]
  OBVIOUS
<1>2. s \in [1 .. que.count -> Listed] /\ QueIsOrder(s)
  BY <1>1 DEF QueIsOrder, Listed
<1>. QED  BY <1>2 DEF QueIInv, QueLinked

LEMMA QueEmptiedNext ==
    ASSUME QueTypeOK', que'.count = 0, que'.head = Nil, que'.tail = Nil, Listed' = {}
    PROVE  QueIInv'
<1>1. PICK s : s = [i \in 1 .. 0 |-> Nil]
  OBVIOUS
<1>2. QueIsOrder(s)'
  BY <1>1 DEF QueIsOrder, Listed
<1>. QED  BY <1>2 DEF QueIInv, QueLinked, QueIsOrder

(* What the order says of the ends. *)
LEMMA QueEnds ==
    ASSUME QueIInv
    PROVE  /\ que.head = Nil <=> que.count = 0
           /\ que.tail = Nil <=> que.count = 0
           /\ que.count = 0 => Listed = {}
           /\ que.count > 0 =>
                  /\ que.head \in Listed /\ que.tail \in Listed
                  /\ que_heap[que.head].next = Nil <=> que.count = 1
                  /\ que.count = 1 => que.head = que.tail
<1>1. PICK s \in [1 .. que.count -> Listed] : QueIsOrder(s)
  BY DEF QueIInv, QueLinked
<1>2. que.count \in Nat /\ Nil \notin Listed
  BY QueFields DEF QueIInv
<1>3. CASE que.count = 0
  BY <1>1, <1>2, <1>3 DEF QueIsOrder
<1>4. CASE que.count > 0
  <2>1. 1 \in 1 .. que.count /\ que.count \in 1 .. que.count
    BY <1>2, <1>4
  <2>2. que.head = s[1] /\ que.tail = s[que.count]
    BY <1>1, <1>4 DEF QueIsOrder
  <2>3. s[1] \in Listed /\ s[que.count] \in Listed
    BY <2>1
  <2>4. que_heap[s[1]].next = IF 1 = que.count THEN Nil ELSE s[1 + 1]
    BY <1>1, <2>1 DEF QueIsOrder
  <2>5. que.count # 1 => s[1 + 1] \in Listed
    BY <1>2, <1>4
  <2>. QED  BY <1>2, <1>4, <2>2, <2>3, <2>4, <2>5
<1>. QED  BY <1>2, <1>3, <1>4

(* The new node is the last of the order. *)
LEMMA QueLinkKeeps ==
    ASSUME QueIInv, NEW d \in QueData, NEW n \in QueNodes \ DOMAIN que_heap,
           QueLink(n, d), UNCHANGED <<que_held, que_fault>>
    PROVE  QueIInv' /\ QueItems' = [i \in 1 .. que.count + 1 |->
                                       IF i = que.count + 1 THEN d ELSE QueItems[i]]
<1>1. QueTypeOK
  BY DEF QueIInv
<1>2. PICK s \in [1 .. que.count -> Listed] : QueIsOrder(s)
  BY DEF QueIInv, QueLinked
<1>3. /\ que.count \in Nat /\ Nil \notin Listed /\ n # Nil /\ n \notin Listed
      /\ que.tail \in QueNodes \cup {Nil} /\ que.head \in QueNodes \cup {Nil}
  BY <1>1, QueFields DEF Listed
<1>. DEFINE node == [next |-> Nil, prev |-> IF que.head = Nil THEN Nil ELSE que.tail, data |-> d]
            heap == IF que.head = Nil THEN que_heap ELSE [que_heap EXCEPT ![que.tail].next = n]
<1>4. /\ que_heap' = [m \in DOMAIN heap \cup {n} |-> IF m = n THEN node ELSE heap[m]]
      /\ que' = [que EXCEPT !.head = IF @ = Nil THEN n ELSE @, !.tail = n, !.count = @ + 1]
  BY DEF QueLink
<1>5. DOMAIN heap = DOMAIN que_heap
  OBVIOUS
<1>6. /\ DOMAIN que_heap' = DOMAIN que_heap \cup {n}
      /\ que_heap'[n] = node
      /\ \A m \in DOMAIN que_heap : que_heap'[m] = heap[m]
  BY <1>4, <1>5
<1>7. \A m \in DOMAIN que_heap :
          heap[m] = IF que.head # Nil /\ m = que.tail THEN [que_heap[m] EXCEPT !.next = n]
                    ELSE que_heap[m]
  BY <1>3
<1>8. node \in [next : QueNodes \cup {Nil}, prev : QueNodes \cup {Nil}, data : QueData]
      /\ node.next = Nil /\ node.data = d
  BY <1>3
<1>9. ASSUME NEW m \in DOMAIN que_heap
      PROVE  /\ heap[m] \in [next : QueNodes \cup {Nil}, prev : QueNodes \cup {Nil}, data : QueData]
             /\ heap[m].data = que_heap[m].data
             /\ heap[m].next = IF que.head # Nil /\ m = que.tail THEN n ELSE que_heap[m].next
  <2>1. que_heap[m] \in [next : QueNodes \cup {Nil}, prev : QueNodes \cup {Nil}, data : QueData]
    BY <1>1, QueFields
  <2>. QED  BY <1>7, <2>1
<1>. HIDE DEF node, heap
<1>10. Listed' = Listed \cup {n}
  BY <1>1, <1>6 DEF Listed, QueTypeOK
<1>11. /\ que'.head = IF que.head = Nil THEN n ELSE que.head
       /\ que'.tail = n /\ que'.count = que.count + 1 /\ que'.capacity = que.capacity
       /\ que' \in [head : QueNodes \cup {Nil}, tail : QueNodes \cup {Nil},
                    count : Nat, capacity : QueCapacities \cup {0}]
  <2>1. que \in [head : QueNodes \cup {Nil}, tail : QueNodes \cup {Nil},
                 count : Nat, capacity : QueCapacities \cup {0}]
    BY <1>1 DEF QueTypeOK
  <2>2. que.count + 1 \in Nat
    BY <1>3
  <2>. QED  BY <1>3, <1>4, <2>1, <2>2
<1>12. que_heap' \in [DOMAIN que_heap' -> [next : QueNodes \cup {Nil}, prev : QueNodes \cup {Nil},
                                           data : QueData]]
  <2>1. que_heap' = [m \in DOMAIN que_heap' |-> que_heap'[m]]
    BY <1>4
  <2>2. \A m \in DOMAIN que_heap' :
            que_heap'[m] \in [next : QueNodes \cup {Nil}, prev : QueNodes \cup {Nil}, data : QueData]
    BY <1>6, <1>8, <1>9
  <2>. QED  BY <2>1, <2>2
<1>13. QueTypeOK'
  BY <1>1, <1>6, <1>11, <1>12 DEF QueTypeOK
<1>. PICK t : t = [i \in 1 .. que.count + 1 |-> IF i = que.count + 1 THEN n ELSE s[i]]
  OBVIOUS
<1>14. t[que.count + 1] = n /\ \A i \in 1 .. que.count : t[i] = s[i] /\ s[i] \in Listed
  BY <1>3
<1>15. t \in [1 .. que.count + 1 -> Listed']
  BY <1>10, <1>14, <1>3
<1>16. \A i, j \in 1 .. que.count + 1 : t[i] = t[j] => i = j
  <2>1. \A i, j \in 1 .. que.count : s[i] = s[j] => i = j
    BY <1>2 DEF QueIsOrder
  <2>2. \A i \in 1 .. que.count + 1 : i = que.count + 1 \/ i \in 1 .. que.count
    BY <1>3
  <2>. QED  BY <1>3, <1>14, <2>1, <2>2
<1>17. \A m \in Listed' : \E i \in 1 .. que.count + 1 : t[i] = m
  <2>1. \A m \in Listed : \E i \in 1 .. que.count : s[i] = m
    BY <1>2 DEF QueIsOrder
  <2>2. que.count + 1 \in 1 .. que.count + 1 /\ \A i \in 1 .. que.count : i \in 1 .. que.count + 1
    BY <1>3
  <2>. QED  BY <1>10, <1>14, <2>1, <2>2
<1>18. que'.head = t[1] /\ que'.tail = t[que.count + 1]
  <2>1. CASE que.count = 0
    BY <1>2, <1>11, <1>14, <2>1 DEF QueIsOrder
  <2>2. CASE que.count # 0
    <3>1. 1 \in 1 .. que.count
      BY <1>3, <2>2
    <3>2. que.head = s[1] /\ que.head # Nil
      BY <1>2, <1>3, <2>2, <3>1 DEF QueIsOrder
    <3>. QED  BY <1>11, <1>14, <3>1, <3>2
  <2>. QED  BY <2>1, <2>2
<1>19. ASSUME NEW i \in 1 .. que.count + 1
       PROVE  que_heap'[t[i]].next = IF i = que.count + 1 THEN Nil ELSE t[i + 1]
  <2>1. CASE i = que.count + 1
    BY <1>6, <1>8, <1>14, <2>1
  <2>2. CASE i # que.count + 1
    <3>1. i \in 1 .. que.count /\ que.count # 0
      BY <1>3, <2>2
    <3>2. t[i] = s[i] /\ s[i] \in Listed /\ s[i] \in DOMAIN que_heap
      BY <1>14, <3>1 DEF Listed
    <3>3. que.tail = s[que.count] /\ que.head # Nil
      <4>1. 1 \in 1 .. que.count /\ que.head = s[1]
        BY <1>2, <1>3, <3>1 DEF QueIsOrder
      <4>2. que.tail = s[que.count]
        BY <1>2, <3>1 DEF QueIsOrder
      <4>. QED  BY <1>3, <1>14, <4>1, <4>2
    <3>4. s[i] = que.tail <=> i = que.count
      <4>1. que.count \in 1 .. que.count
        BY <1>3, <3>1
      <4>. QED  BY <1>2, <3>1, <3>3, <4>1 DEF QueIsOrder
    <3>5. que_heap[s[i]].next = IF i = que.count THEN Nil ELSE s[i + 1]
      BY <1>2, <3>1 DEF QueIsOrder
    <3>6. i = que.count => t[i + 1] = n
      BY <1>14
    <3>7. i # que.count => t[i + 1] = s[i + 1]
      <4>1. i # que.count => i + 1 \in 1 .. que.count
        BY <1>3, <3>1
      <4>. QED  BY <1>14, <4>1
    <3>8. que_heap'[s[i]].next = IF i = que.count THEN n ELSE que_heap[s[i]].next
      BY <1>6, <1>9, <3>2, <3>3, <3>4
    <3>. QED  BY <2>2, <3>2, <3>5, <3>6, <3>7, <3>8
  <2>. QED  BY <2>1, <2>2
<1>20. QueIsOrder(t)'
  <2>1. t \in [1 .. que'.count -> Listed'] /\ \A i, j \in 1 .. que'.count : t[i] = t[j] => i = j
    BY <1>11, <1>15, <1>16
  <2>2. \A m \in Listed' : \E i \in 1 .. que'.count : t[i] = m
    BY <1>11, <1>17
  <2>3. IF que'.count = 0 THEN que'.head = Nil /\ que'.tail = Nil
        ELSE que'.head = t[1] /\ que'.tail = t[que'.count]
    BY <1>3, <1>11, <1>18
  <2>4. \A i \in 1 .. que'.count :
            que_heap'[t[i]].next = IF i = que'.count THEN Nil ELSE t[i + 1]
    BY <1>11, <1>19
  <2>. QED  BY <2>1, <2>2, <2>3, <2>4 DEF QueIsOrder
<1>21. QueIInv'
  BY <1>11, <1>13, <1>15, <1>20 DEF QueIInv, QueLinked
<1>22. QueItems' = [i \in 1 .. que.count + 1 |-> que_heap'[t[i]].data]
  BY <1>11, <1>20, <1>21, QueItemsAfter
<1>23. QueItems = [i \in 1 .. que.count |-> que_heap[s[i]].data]
  BY <1>2, QueItemsAreOrdered DEF QueItemsFollow
<1>24. que_heap'[t[que.count + 1]].data = d
  BY <1>6, <1>8, <1>14
<1>25. \A i \in 1 .. que.count : que_heap'[t[i]].data = QueItems[i]
  <2>1. \A i \in 1 .. que.count : s[i] \in DOMAIN que_heap
    BY <1>14 DEF Listed
  <2>. QED  BY <1>6, <1>9, <1>14, <1>23, <2>1
<1>26. \A i \in 1 .. que.count + 1 : i = que.count + 1 \/ i \in 1 .. que.count
  BY <1>3
<1>. QED  BY <1>21, <1>22, <1>24, <1>25, <1>26

(* The first node leaves, the others move up. *)
LEMMA QueUnlinkKeeps ==
    ASSUME QueIInv, que.count > 0, QueUnlink, que_held' = que_held \cup {que.head},
           UNCHANGED <<que_heap, que_fault>>
    PROVE  /\ QueIInv' /\ QueItems' = [i \in 1 .. que.count - 1 |-> QueItems[i + 1]]
           /\ que_heap[que.head].data = QueItems[1]
<1>1. QueTypeOK
  BY DEF QueIInv
<1>2. PICK s \in [1 .. que.count -> Listed] : QueIsOrder(s)
  BY DEF QueIInv, QueLinked
<1>3. que.count \in Nat /\ Nil \notin Listed /\ que.count - 1 \in Nat
  BY <1>1, QueFields
<1>4. /\ que.head = s[1] /\ que.tail = s[que.count] /\ s[1] \in Listed
      /\ 1 \in 1 .. que.count
  BY <1>2, <1>3 DEF QueIsOrder
<1>5. que_heap[que.head].next = IF que.count = 1 THEN Nil ELSE s[2]
  BY <1>2, <1>4 DEF QueIsOrder
<1>6. que.head \in DOMAIN que_heap
  BY <1>4 DEF Listed
<1>7. que_heap[que.head].next \in QueNodes \cup {Nil}
  BY <1>1, <1>6, QueFields
<1>8. /\ que'.head = que_heap[que.head].next
      /\ que'.tail = IF que_heap[que.head].next = Nil THEN Nil ELSE que.tail
      /\ que'.count = que.count - 1 /\ que'.capacity = que.capacity
      /\ que' \in [head : QueNodes \cup {Nil}, tail : QueNodes \cup {Nil},
                   count : Nat, capacity : QueCapacities \cup {0}]
  BY <1>1, <1>3, <1>7 DEF QueUnlink, QueTypeOK
<1>9. QueTypeOK'
  BY <1>1, <1>6, <1>8 DEF QueTypeOK
<1>10. Listed' = Listed \ {s[1]}
  BY <1>4 DEF Listed
<1>. PICK t : t = [i \in 1 .. que.count - 1 |-> s[i + 1]]
  OBVIOUS
<1>11. \A i \in 1 .. que.count - 1 :
           t[i] = s[i + 1] /\ i + 1 \in 1 .. que.count /\ s[i + 1] \in Listed /\ i + 1 # 1
  <2>1. \A i \in 1 .. que.count - 1 : i + 1 \in 1 .. que.count /\ i + 1 # 1
    BY <1>3
  <2>2. \A i \in 1 .. que.count - 1 : t[i] = s[i + 1]
    OBVIOUS
  <2>. QED  BY <2>1, <2>2, Zenon
<1>12. \A i, j \in 1 .. que.count : s[i] = s[j] => i = j
  BY <1>2 DEF QueIsOrder
<1>13. t \in [1 .. que.count - 1 -> Listed']
  BY <1>4, <1>10, <1>11, <1>12
<1>14. \A i, j \in 1 .. que.count - 1 : t[i] = t[j] => i = j
  <2>1. SUFFICES ASSUME NEW i \in 1 .. que.count - 1, NEW j \in 1 .. que.count - 1, t[i] = t[j]
                 PROVE  i = j
    OBVIOUS
  <2>2. i + 1 = j + 1
    BY <1>11, <1>12, <2>1
  <2>. QED  BY <2>2
<1>15. \A m \in Listed' : \E i \in 1 .. que.count - 1 : t[i] = m
  <2>1. SUFFICES ASSUME NEW m \in Listed' PROVE \E i \in 1 .. que.count - 1 : t[i] = m
    OBVIOUS
  <2>2. PICK k \in 1 .. que.count : s[k] = m
    BY <1>2, <1>10, <2>1 DEF QueIsOrder
  <2>3. k # 1
    BY <1>10, <2>1, <2>2
  <2>4. k - 1 \in 1 .. que.count - 1 /\ k - 1 + 1 = k
    BY <1>3, <2>3
  <2>. QED  BY <1>11, <2>2, <2>4
<1>16. IF que.count - 1 = 0 THEN que'.head = Nil /\ que'.tail = Nil
       ELSE que'.head = t[1] /\ que'.tail = t[que.count - 1]
  <2>1. CASE que.count = 1
    BY <1>5, <1>8, <2>1
  <2>2. CASE que.count # 1
    <3>1. 1 \in 1 .. que.count - 1 /\ que.count - 1 \in 1 .. que.count - 1
      BY <1>3, <2>2
    <3>2. t[1] = s[2] /\ t[que.count - 1] = s[que.count] /\ s[2] # Nil
      BY <1>3, <1>11, <3>1
    <3>. QED  BY <1>3, <1>4, <1>5, <1>8, <2>2, <3>2
  <2>. QED  BY <1>3, <2>1, <2>2
<1>17. \A i \in 1 .. que.count - 1 :
           que_heap[t[i]].next = IF i = que.count - 1 THEN Nil ELSE t[i + 1]
  <2>1. SUFFICES ASSUME NEW i \in 1 .. que.count - 1
                 PROVE  que_heap[t[i]].next = IF i = que.count - 1 THEN Nil ELSE t[i + 1]
    OBVIOUS
  <2>2. que_heap[s[i + 1]].next = IF i + 1 = que.count THEN Nil ELSE s[i + 1 + 1]
    BY <1>2, <1>11 DEF QueIsOrder
  <2>3. i + 1 = que.count <=> i = que.count - 1
    BY <1>3
  <2>4. i # que.count - 1 => i + 1 \in 1 .. que.count - 1
    BY <1>3
  <2>. QED  BY <1>11, <2>2, <2>3, <2>4
<1>18. QueIsOrder(t)'
  <2>1. t \in [1 .. que'.count -> Listed'] /\ \A i, j \in 1 .. que'.count : t[i] = t[j] => i = j
    BY <1>8, <1>13, <1>14
  <2>2. \A m \in Listed' : \E i \in 1 .. que'.count : t[i] = m
    BY <1>8, <1>15
  <2>3. IF que'.count = 0 THEN que'.head = Nil /\ que'.tail = Nil
        ELSE que'.head = t[1] /\ que'.tail = t[que'.count]
    BY <1>3, <1>8, <1>16
  <2>4. \A i \in 1 .. que'.count :
            que_heap'[t[i]].next = IF i = que'.count THEN Nil ELSE t[i + 1]
    BY <1>8, <1>17
  <2>. QED  BY <2>1, <2>2, <2>3, <2>4 DEF QueIsOrder
<1>19. QueIInv'
  BY <1>8, <1>9, <1>13, <1>18 DEF QueIInv, QueLinked
<1>20. QueItems' = [i \in 1 .. que.count - 1 |-> que_heap[t[i]].data]
  BY <1>8, <1>18, <1>19, QueItemsAfter
<1>21. QueItems = [i \in 1 .. que.count |-> que_heap[s[i]].data]
  BY <1>2, QueItemsAreOrdered DEF QueItemsFollow
<1>22. \A i \in 1 .. que.count - 1 : que_heap[t[i]].data = QueItems[i + 1]
  BY <1>11, <1>21
<1>. QED  BY <1>4, <1>19, <1>20, <1>21, <1>22

(* The walk of que_destroy meets every node of the list and no other. *)
LEMMA QueWalkIsWhole ==
    ASSUME QueIInv, que.count # 0
    PROVE  DOMAIN que_heap \ Range(QueOrder) = que_held
<1>1. QueTypeOK
  BY DEF QueIInv
<1>2. PICK s \in [1 .. que.count -> Listed] : QueIsOrder(s)
  BY DEF QueIInv, QueLinked
<1>3. que.count \in Nat /\ Cardinality(QueNodes) \in Nat /\ Nil \notin DOMAIN que_heap
  BY <1>1, QueFields, FS_CardinalityType
<1>. DEFINE N == que.count + Cardinality(QueNodes)
<1>4. QueOrder = [i \in 1 .. N |-> IF i <= que.count THEN s[i] ELSE Nil]
  BY <1>1, <1>2, QueOrderFollows
<1>5. N \in Nat /\ que.count <= N
  BY <1>3
<1>. HIDE DEF N
<1>6. DOMAIN QueOrder = 1 .. N
      /\ \A i \in 1 .. N : QueOrder[i] = IF i <= que.count THEN s[i] ELSE Nil
  BY <1>4
<1>7. \A m \in Listed : m \in Range(QueOrder)
  <2>1. SUFFICES ASSUME NEW m \in Listed PROVE \E i \in DOMAIN QueOrder : QueOrder[i] = m
    BY DEF Range
  <2>2. PICK i \in 1 .. que.count : s[i] = m
    BY <1>2 DEF QueIsOrder
  <2>3. i \in 1 .. N /\ i <= que.count
    BY <1>3, <1>5
  <2>. QED  BY <1>6, <2>2, <2>3
<1>8. \A m \in Range(QueOrder) : m \in Listed \/ m = Nil
  <2>1. SUFFICES ASSUME NEW i \in 1 .. N PROVE QueOrder[i] \in Listed \/ QueOrder[i] = Nil
    BY <1>6 DEF Range
  <2>2. i <= que.count => i \in 1 .. que.count
    BY <1>3, <1>5
  <2>. QED  BY <1>6, <2>2
<1>9. \A m : m \in DOMAIN que_heap \ Range(QueOrder) <=> m \in que_held
  BY <1>1, <1>3, <1>7, <1>8 DEF Listed, QueTypeOK
<1>. QED  BY <1>9, Zenon

(* A heap without some of its nodes. *)
LEMMA QueFreed ==
    ASSUME QueTypeOK, NEW S, S \subseteq DOMAIN que_heap,
           que_heap' = [m \in S |-> que_heap[m]], que_held' \subseteq S,
           que' \in [head : QueNodes \cup {Nil}, tail : QueNodes \cup {Nil},
                     count : Nat, capacity : QueCapacities \cup {0}],
           UNCHANGED que_fault
    PROVE  QueTypeOK'
<1>1. DOMAIN que_heap' = S
  OBVIOUS
<1>2. \A m \in S : que_heap[m] \in [next : QueNodes \cup {Nil}, prev : QueNodes \cup {Nil},
                                   data : QueData]
  BY QueFields
<1>3. que_heap' \in [S -> [next : QueNodes \cup {Nil}, prev : QueNodes \cup {Nil}, data : QueData]]
  BY <1>2
<1>. QED  BY <1>1, <1>3 DEF QueTypeOK

(* An empty list after the call. *)
LEMMA QueNothing == ASSUME QueIInv, que.count = 0 PROVE QueItems = <<>>
<1>1. QueItems = [i \in 1 .. 0 |-> QueItems[i]]
  BY DEF QueItems
<1>. QED  BY <1>1

QueLengthFollows == QueIInv => Len(QueItems) = que.count /\ (QueItems = <<>> <=> que.count = 0)

LEMMA SequenceFacts ==
    ASSUME NEW c \in Nat, NEW q, q = [i \in 1 .. c |-> q[i]]
    PROVE  /\ Len(q) = c
           /\ q = <<>> <=> c = 0
           /\ \A d : Append(q, d) = [i \in 1 .. c + 1 |-> IF i = c + 1 THEN d ELSE q[i]]
           /\ c > 0 => Head(q) = q[1] /\ Tail(q) = [i \in 1 .. c - 1 |-> q[i + 1]]
<1>1. q \in Seq({q[i] : i \in 1 .. c}) /\ Len(q) = c
  OBVIOUS
<1>2. q = <<>> <=> c = 0
  BY <1>1
<1>3. \A d : Append(q, d) = [i \in 1 .. c + 1 |-> IF i = c + 1 THEN d ELSE q[i]]
  BY <1>1
<1>4. c > 0 => Head(q) = q[1] /\ Tail(q) = [i \in 1 .. c - 1 |-> q[i + 1]]
  BY <1>1
<1>. QED  BY <1>1, <1>2, <1>3, <1>4

LEMMA QueLengthIsCount == QueLengthFollows
<1>1. SUFFICES ASSUME QueIInv
               PROVE  Len(QueItems) = que.count /\ (QueItems = <<>> <=> que.count = 0)
  BY DEF QueLengthFollows
<1>2. que.count \in Nat
  BY <1>1, QueFields DEF QueIInv
<1>3. QueItems = [i \in 1 .. que.count |-> QueItems[i]]
  BY DEF QueItems
<1>. QED  BY <1>2, <1>3, SequenceFacts

-----------------------------------------------------------------------------
(* Each call of the queue keeps the invariant and is a step of the FIFO.   *)

QueKeeps == QueIInv' /\ [Abstract!Next]_(Abstract!vars)

LEMMA QueInitKeeps == ASSUME QueIInv, NEW c \in QueCapacities, que_fault = "none", que_init(c)
                      PROVE  QueKeeps
<1>1. /\ QueTypeOK /\ que.count = 0 /\ que' = QueEmpty(c) /\ que_res' = [val |-> Nil, err |-> "none"]
      /\ UNCHANGED <<que_heap, que_held, que_fault>>
  BY DEF QueIInv, que_init, QueReturns
<1>2. que.head = Nil /\ que.tail = Nil
  BY <1>1, QueEnds
<1>3. QueTypeOK'
  BY <1>1 DEF QueTypeOK, QueEmpty
<1>4. Listed' = Listed
  BY <1>1 DEF Listed
<1>5. QueIInv' /\ QueItems' = QueItems
  BY <1>1, <1>2, <1>3, <1>4, QueListStays DEF QueEmpty
<1>6. QueItems = <<>>
  BY <1>1, QueNothing
<1>7. QueResult' = [val |-> Nil, err |-> "none"] /\ que'.capacity = c
  BY <1>1 DEF QueResult, QueEmpty
<1>8. Abstract!Reset(c)
  BY <1>5, <1>6, <1>7 DEF Abstract!Reset, Abstract!Void
<1>. QED  BY <1>5, <1>8 DEF QueKeeps, Abstract!Next

(* A call that changes nothing but the result. *)
LEMMA QueAnswers ==
    ASSUME QueIInv, que_fault = "none", UNCHANGED <<que, que_heap, que_held, que_fault>>
    PROVE  QueIInv' /\ QueItems' = QueItems /\ que'.capacity = que.capacity /\ QueResult' = que_res'
<1>1. QueTypeOK'
  BY DEF QueIInv, QueTypeOK
<1>2. Listed' = Listed
  BY DEF Listed
<1>3. QueIInv' /\ QueItems' = QueItems
  BY <1>1, <1>2, QueListStays
<1>. QED  BY <1>3 DEF QueResult

LEMMA QueEnqueueKeeps ==
    ASSUME QueIInv, NEW d \in QueData, que_fault = "none", que_enqueue(d)
    PROVE  QueKeeps
<1>1. /\ QueTypeOK /\ que.count \in Nat /\ que.capacity \in Nat /\ Len(QueItems) = que.count
      /\ QueItems = [i \in 1 .. que.count |-> QueItems[i]]
  BY QueFields, QueLengthIsCount DEF QueIInv, QueLengthFollows, QueItems
<1>2. CASE QueFull
  <2>1. Abstract!PutFails
    BY <1>1, <1>2, QueAnswers DEF QueFull, QueReturns, Abstract!PutFails, Abstract!Failure
  <2>. QED  BY <1>2, <2>1, QueAnswers DEF QueFull, QueReturns, QueKeeps, Abstract!Next
<1>3. CASE QueNoMemory
  <2>1. Abstract!PutFails
    BY <1>1, <1>3, QueAnswers DEF QueNoMemory, QueReturns, Abstract!PutFails, Abstract!Failure
  <2>. QED  BY <1>3, <2>1, QueAnswers DEF QueNoMemory, QueReturns, QueKeeps, Abstract!Next
<1>4. CASE /\ que.count < que.capacity
           /\ \E n \in QueNodes \ DOMAIN que_heap : QueLink(n, d)
           /\ QueReturns(d, "none")
           /\ UNCHANGED que_held
  <2>1. PICK n \in QueNodes \ DOMAIN que_heap : QueLink(n, d)
    BY <1>4
  <2>2. que_res' = [val |-> d, err |-> "none"] /\ UNCHANGED <<que_held, que_fault>>
    BY <1>4 DEF QueReturns
  <2>3. QueIInv' /\ QueItems' = [i \in 1 .. que.count + 1 |->
                                    IF i = que.count + 1 THEN d ELSE QueItems[i]]
    BY <2>1, <2>2, QueLinkKeeps
  <2>4. QueItems' = Append(QueItems, d)
    BY <1>1, <2>3, SequenceFacts
  <2>5. que'.capacity = que.capacity
    BY <1>1, <2>1 DEF QueLink, QueTypeOK
  <2>6. QueResult' = que_res'
    BY <2>2 DEF QueResult
  <2>7. Abstract!Put(d)
    BY <1>1, <1>4, <2>2, <2>4, <2>5, <2>6 DEF Abstract!Put, Abstract!Value
  <2>. QED  BY <2>3, <2>7 DEF QueKeeps, Abstract!Next
<1>5. que.head = Nil <=> que.tail = Nil
  BY QueEnds
<1>. QED  BY <1>2, <1>3, <1>4, <1>5 DEF que_enqueue

LEMMA QueDequeueKeeps ==
    ASSUME QueIInv, que_fault = "none", que_dequeue
    PROVE  QueKeeps
<1>1. /\ QueTypeOK /\ que.count \in Nat /\ (QueItems = <<>> <=> que.count = 0)
      /\ QueItems = [i \in 1 .. que.count |-> QueItems[i]]
  BY QueFields, QueLengthIsCount DEF QueIInv, QueLengthFollows, QueItems
<1>2. CASE que.count = 0
  <2>1. QueReturns(Nil, "none") /\ UNCHANGED <<que, que_heap, que_held>>
    BY <1>2, QueEnds DEF que_dequeue
  <2>2. Abstract!GetFails
    BY <1>1, <1>2, <2>1, QueAnswers DEF QueReturns, Abstract!GetFails, Abstract!Failure
  <2>. QED  BY <2>1, <2>2, QueAnswers DEF QueReturns, QueKeeps, Abstract!Next
<1>3. CASE que.count > 0
  <2>1. que.head \in DOMAIN que_heap /\ (que_heap[que.head].next = Nil => QueLast)
    BY <1>3, QueEnds DEF Listed, QueLast
  <2>2. /\ QueUnlink /\ que_held' = que_held \cup {que.head}
        /\ que_res' = [val |-> que_heap[que.head].data, err |-> "none"]
        /\ UNCHANGED <<que_heap, que_fault>>
    BY <1>3, <2>1 DEF que_dequeue, QueReturns
  <2>3. /\ QueIInv' /\ QueItems' = [i \in 1 .. que.count - 1 |-> QueItems[i + 1]]
        /\ que_heap[que.head].data = QueItems[1]
    BY <1>3, <2>2, QueUnlinkKeeps
  <2>4. QueItems' = Tail(QueItems) /\ Head(QueItems) = QueItems[1]
    BY <1>1, <1>3, <2>3, SequenceFacts
  <2>5. que'.capacity = que.capacity
    BY <1>1, <2>2 DEF QueUnlink, QueTypeOK
  <2>6. QueResult' = que_res'
    BY <2>2 DEF QueResult
  <2>7. QueItems # <<>>
    BY <1>1, <1>3
  <2>8. Abstract!Get
    BY <2>2, <2>3, <2>4, <2>5, <2>6, <2>7 DEF Abstract!Get, Abstract!Value
  <2>. QED  BY <2>3, <2>8 DEF QueKeeps, Abstract!Next
<1>. QED  BY <1>1, <1>2, <1>3

LEMMA QueNodeDestroyKeeps ==
    ASSUME QueIInv, NEW n \in QueNodes, que_fault = "none", que_node_destroy(n)
    PROVE  QueKeeps
<1>1. /\ QueTypeOK /\ n \in que_held /\ que_held' = que_held \ {n}
      /\ que_heap' = [m \in DOMAIN que_heap \ {n} |-> que_heap[m]]
      /\ que_res' = [val |-> Nil, err |-> "none"] /\ UNCHANGED <<que, que_fault>>
  BY DEF QueIInv, que_node_destroy, QueReturns
<1>2. que_held \subseteq DOMAIN que_heap
  BY <1>1 DEF QueTypeOK
<1>3. Listed' = Listed /\ \A m \in Listed : que_heap'[m] = que_heap[m]
  BY <1>1, <1>2 DEF Listed
<1>4. QueTypeOK'
  <2>1. que' \in [head : QueNodes \cup {Nil}, tail : QueNodes \cup {Nil},
                  count : Nat, capacity : QueCapacities \cup {0}]
    BY <1>1 DEF QueTypeOK
  <2>2. que_held' \subseteq DOMAIN que_heap \ {n} /\ DOMAIN que_heap \ {n} \subseteq DOMAIN que_heap
    BY <1>1, <1>2
  <2>. QED  BY <1>1, <2>1, <2>2, QueFreed
<1>5. QueIInv' /\ QueItems' = QueItems
  BY <1>1, <1>3, <1>4, QueListStays
<1>6. QueResult' = que_res'
  BY <1>1 DEF QueResult
<1>7. Abstract!Release
  BY <1>1, <1>5, <1>6 DEF Abstract!Release, Abstract!Void
<1>. QED  BY <1>5, <1>7 DEF QueKeeps, Abstract!Next

LEMMA QueDestroyKeeps ==
    ASSUME QueIInv, que_fault = "none", que_destroy
    PROVE  QueKeeps
<1>1. /\ QueTypeOK /\ que' = QueEmpty(0) /\ que_res' = [val |-> Nil, err |-> "none"]
      /\ UNCHANGED <<que_held, que_fault>>
  BY DEF QueIInv, que_destroy, QueReturns
<1>2. que_held \subseteq DOMAIN que_heap
  BY <1>1 DEF QueTypeOK
<1>3. que_heap' = [m \in que_held |-> que_heap[m]]
  <2>1. CASE que.count = 0
    <3>1. DOMAIN que_heap = que_held
      BY <1>2, <2>1, QueEnds DEF Listed
    <3>2. que_heap' = que_heap /\ que_heap = [m \in DOMAIN que_heap |-> que_heap[m]]
      BY <1>1, <2>1 DEF que_destroy, QueTypeOK
    <3>. QED  BY <3>1, <3>2
  <2>2. CASE que.count # 0
    BY <2>2, QueWalkIsWhole DEF que_destroy
  <2>. QED  BY <2>1, <2>2
<1>4. /\ que'.head = Nil /\ que'.tail = Nil /\ que'.count = 0 /\ que'.capacity = 0
      /\ que' \in [head : QueNodes \cup {Nil}, tail : QueNodes \cup {Nil},
                   count : Nat, capacity : QueCapacities \cup {0}]
  BY <1>1 DEF QueEmpty
<1>5. QueTypeOK'
  BY <1>1, <1>2, <1>3, <1>4, QueFreed
<1>6. Listed' = {}
  BY <1>1, <1>3 DEF Listed
<1>7. QueIInv'
  BY <1>4, <1>5, <1>6, QueEmptiedNext
<1>8. QueItems' = <<>>
  <2>1. QueLengthFollows'
    BY QueLengthIsCount, PTL
  <2>. QED  BY <1>4, <1>7, <2>1 DEF QueLengthFollows
<1>9. QueResult' = que_res'
  BY <1>1 DEF QueResult
<1>10. Abstract!Destroy
  BY <1>1, <1>4, <1>8, <1>9 DEF Abstract!Destroy, Abstract!Void
<1>. QED  BY <1>7, <1>10 DEF QueKeeps, Abstract!Next

LEMMA QueStepKeeps == QueIInv /\ [QueNext]_queVars => QueKeeps
<1>. SUFFICES ASSUME QueIInv, [QueNext]_queVars PROVE QueKeeps
  OBVIOUS
<1>1. que_fault = "none"
  BY DEF QueIInv, QueTypeOK
<1>2. CASE UNCHANGED queVars
  <2>1. UNCHANGED <<que, que_heap, que_held, que_res, que_fault>>
    BY <1>2 DEF queVars
  <2>2. QueIInv' /\ QueItems' = QueItems /\ que'.capacity = que.capacity /\ QueResult' = que_res'
    BY <1>1, <2>1, QueAnswers
  <2>3. QueResult = que_res
    BY <1>1 DEF QueResult
  <2>4. UNCHANGED Abstract!vars
    BY <2>1, <2>2, <2>3 DEF Abstract!vars
  <2>. QED  BY <2>2, <2>4 DEF QueKeeps
<1>. QED
  BY <1>1, <1>2, QueInitKeeps, QueEnqueueKeeps, QueDequeueKeeps, QueNodeDestroyKeeps, QueDestroyKeeps
     DEF QueNext

(* For every heap, data and capacities, with memory running out at any     *)
(* time: every call of the older queue is a step of the bounded FIFO, no   *)
(* assertion on its ends fires and no node is lost.                        *)
THEOREM OldQueueImplementsFifo == QueSpec => QueImplementsFifo
<1>1. QueInit => QueIInv
  BY QueInitIsInductive
<1>2. QueInit => Abstract!Init
  <2>1. SUFFICES ASSUME QueInit PROVE Abstract!Init
    OBVIOUS
  <2>2. que.count = 0 /\ que.capacity = 0
    BY <2>1 DEF QueInit, QueEmpty
  <2>3. QueItems = <<>>
    BY <1>1, <2>1, <2>2, QueNothing
  <2>4. QueResult = [val |-> Nil, err |-> "none"]
    BY <2>1 DEF QueInit, QueResult
  <2>. QED  BY <2>2, <2>3, <2>4 DEF Abstract!Init, Abstract!Void
<1>3. QueIInv /\ [QueNext]_queVars => QueIInv' /\ [Abstract!Next]_(Abstract!vars)
  BY QueStepKeeps DEF QueKeeps
<1>4. QueIInv => Cardinality(DOMAIN que_heap) = que.count + Cardinality(que_held)
  BY QueListedCount
<1>. QED  BY <1>1, <1>2, <1>3, <1>4, PTL DEF QueSpec, QueImplementsFifo, Abstract!Spec

HIDE QueAssumption

-----------------------------------------------------------------------------
(* The stack.                                                              *)

USE TStackAssumption

LEMMA StackValsAreNat == StackVals \subseteq Nat
  BY DEF StackVals

LEMMA TssInitIsInductive == TssInit => TssIInv
<1>. SUFFICES ASSUME TssInit PROVE TssIInv
  OBVIOUS
<1>1. TssTypeOK
  BY DEF TssInit, TssTypeOK
<1>2. StackIsLifo
  BY DEF TssInit, StackIsLifo
<1>. QED  BY <1>1, <1>2 DEF TssIInv

LEMMA TssInitKeeps ==
    ASSUME TssIInv, NEW c \in StackSizes, tss_init(c)
    PROVE  TssIInv'
<1>1. TssTypeOK /\ StackIsLifo
  BY DEF TssIInv
<1>2. /\ ~tss.ready /\ tss_model = <<>> /\ tss_model' = <<>>
      /\ tss_ret' = tss_due'
  BY <1>1 DEF tss_init, TssTypeOK, StackIsLifo
<1>3. CASE UNCHANGED tss
  BY <1>1, <1>2, <1>3 DEF TssIInv, TssTypeOK, StackIsLifo, tss_count
<1>4. CASE tss' = [ready |-> TRUE, sp |-> c, capacity |-> c, arr |-> [i \in 0 .. c - 1 |-> 0]]
  <2>1. /\ tss'.ready = TRUE /\ tss'.sp = c /\ tss'.capacity = c
        /\ tss'.arr = [i \in 0 .. c - 1 |-> 0] /\ c \in Nat
    BY <1>4
  <2>2. TssTypeOK'
    BY <1>2, <1>4, <2>1 DEF TssTypeOK
  <2>3. StackIsLifo'
    BY <1>2, <2>1 DEF StackIsLifo, tss_count
  <2>. QED  BY <2>2, <2>3 DEF TssIInv
<1>. QED  BY <1>3, <1>4 DEF tss_init

(* A call that is refused leaves everything as it is. *)
LEMMA RefusalKeeps ==
    ASSUME TssIInv, UNCHANGED <<tss, tss_model>>, tss_ret' = tss_due'
    PROVE  TssIInv'
  BY DEF TssIInv, TssTypeOK, StackIsLifo, tss_count

LEMMA TssPushKeeps ==
    ASSUME TssIInv, NEW v \in StackVals, tss_push(v)
    PROVE  TssIInv'
<1>. DEFINE n == Len(tss_model)
<1>1. TssTypeOK /\ StackIsLifo /\ v \in Nat
  BY StackValsAreNat DEF TssIInv
<1>2. /\ tss.ready /\ tss.capacity \in Nat /\ tss.sp \in 0 .. tss.capacity
      /\ n = tss.capacity - tss.sp /\ n \in Nat /\ tss_model \in Seq(Nat)
      /\ \A i \in 1 .. n : tss.arr[tss.capacity - i] = tss_model[i]
  <2>1. tss.ready
    BY DEF tss_push
  <2>2. tss.capacity \in Nat /\ tss.sp \in 0 .. tss.capacity /\ tss_model \in Seq(Nat)
    BY <1>1, <2>1 DEF TssTypeOK, tss_push
  <2>3. /\ n = tss.capacity - tss.sp
        /\ \A i \in 1 .. n : tss.arr[tss.capacity - i] = tss_model[i]
    BY <1>1, <2>1 DEF StackIsLifo, tss_count
  <2>. QED  BY <2>1, <2>2, <2>3
<1>3. CASE tss.sp = 0
  <2>1. tss_ret' = -1 /\ tss_due' = -1 /\ UNCHANGED <<tss, tss_model>>
    BY <1>2, <1>3 DEF tss_push
  <2>. QED  BY <2>1, RefusalKeeps
<1>4. CASE tss.sp > 0
  <2>1. /\ tss' = [tss EXCEPT !.arr[tss.sp - 1] = v, !.sp = @ - 1]
        /\ tss_ret' = v /\ tss_due' = v /\ tss_model' = Append(tss_model, v)
    <3>1. n # tss.capacity /\ v # -1
      BY <1>1, <1>2, <1>4
    <3>. QED  BY <1>4, <3>1 DEF tss_push, AsInt64
  <2>2. /\ tss'.ready = tss.ready /\ tss'.sp = tss.sp - 1 /\ tss'.capacity = tss.capacity
        /\ tss'.arr = [tss.arr EXCEPT ![tss.sp - 1] = v]
        /\ tss' = [ready |-> tss'.ready, sp |-> tss'.sp, capacity |-> tss'.capacity,
                   arr |-> tss'.arr]
    BY <1>1, <2>1 DEF TssTypeOK
  <2>3. /\ tss_model' \in Seq(Nat) /\ Len(tss_model') = n + 1
        /\ DOMAIN tss_model' = 1 .. n + 1
        /\ tss_model'[n + 1] = v /\ \A i \in 1 .. n : tss_model'[i] = tss_model[i]
    BY <1>1, <1>2, <2>1
  <2>4. TssTypeOK'
    BY <1>1, <1>2, <1>4, <2>2, <2>3 DEF TssTypeOK
  <2>5. ASSUME NEW i \in 1 .. n + 1
        PROVE  tss'.arr[tss.capacity - i] = tss_model'[i]
    <3>1. tss.capacity - i \in 0 .. tss.capacity - 1
      BY <1>2, <1>4
    <3>2. tss.arr \in [0 .. tss.capacity - 1 -> Nat]
      BY <1>1 DEF TssTypeOK
    <3>3. CASE i = n + 1
      BY <1>2, <2>2, <2>3, <3>1, <3>2, <3>3, SMTT(30)
    <3>4. CASE i \in 1 .. n
      <4>1. tss.capacity - i # tss.sp - 1
        BY <1>2, <3>4
      <4>2. tss'.arr[tss.capacity - i] = tss.arr[tss.capacity - i]
        BY <2>2, <3>1, <3>2, <4>1
      <4>. QED  BY <1>2, <2>3, <3>4, <4>2
    <3>. QED  BY <1>2, <3>3, <3>4
  <2>6. StackIsLifo'
    BY <1>2, <2>1, <2>2, <2>3, <2>5 DEF StackIsLifo, tss_count
  <2>. QED  BY <2>4, <2>6 DEF TssIInv
<1>. QED  BY <1>2, <1>3, <1>4

LEMMA TssPopKeeps ==
    ASSUME TssIInv, tss_pop
    PROVE  TssIInv'
<1>. DEFINE n == Len(tss_model)
<1>1. TssTypeOK /\ StackIsLifo
  BY DEF TssIInv
<1>2. /\ tss.ready /\ tss.capacity \in Nat /\ tss.sp \in 0 .. tss.capacity
      /\ n = tss.capacity - tss.sp /\ n \in Nat /\ tss_model \in Seq(Nat)
      /\ \A i \in 1 .. n : tss.arr[tss.capacity - i] = tss_model[i]
      /\ tss.arr \in [0 .. tss.capacity - 1 -> Nat]
  BY <1>1 DEF tss_pop, TssTypeOK, StackIsLifo, tss_count
<1>3. CASE tss.sp = tss.capacity
  <2>1. tss_model = <<>>
    BY <1>2, <1>3
  <2>2. tss_ret' = -1 /\ tss_due' = -1 /\ UNCHANGED <<tss, tss_model>>
    BY <1>2, <1>3, <2>1 DEF tss_pop
  <2>. QED  BY <2>2, RefusalKeeps
<1>4. CASE tss.sp < tss.capacity
  <2>1. n > 0 /\ tss_model # <<>> /\ n \in 1 .. n
    BY <1>2, <1>4
  <2>2. tss.arr[tss.sp] = tss_model[n] /\ tss_model[n] \in Nat
    <3>1. tss.capacity - n = tss.sp
      BY <1>2
    <3>. QED  BY <1>2, <2>1, <3>1
  <2>3. /\ tss' = [tss EXCEPT !.sp = @ + 1]
        /\ tss_ret' = tss_model[n] /\ tss_due' = tss_model[n]
        /\ tss_model' = SubSeq(tss_model, 1, n - 1)
    BY <1>2, <1>4, <2>1, <2>2, SMTT(30) DEF tss_pop, AsInt64, Last, Front
  <2>4. /\ tss'.ready = tss.ready /\ tss'.sp = tss.sp + 1 /\ tss'.capacity = tss.capacity
        /\ tss'.arr = tss.arr
        /\ tss' = [ready |-> tss'.ready, sp |-> tss'.sp, capacity |-> tss'.capacity,
                   arr |-> tss'.arr]
    BY <1>1, <2>3 DEF TssTypeOK
  <2>5. /\ tss_model' \in Seq(Nat) /\ Len(tss_model') = n - 1
        /\ DOMAIN tss_model' = 1 .. n - 1
        /\ \A i \in 1 .. n - 1 : tss_model'[i] = tss_model[i]
    <3>1. n - 1 \in Nat /\ n - 1 <= n
      BY <1>2, <2>1
    <3>2. \A i \in 1 .. n - 1 : i \in 1 .. n /\ tss_model[i] \in Nat
      BY <1>2, <3>1
    <3>3. /\ tss_model' \in Seq(Nat)
          /\ Len(tss_model') = IF 1 <= n - 1 THEN (n - 1) - 1 + 1 ELSE 0
          /\ \A i \in 1 .. (n - 1) - 1 + 1 : tss_model'[i] = tss_model[1 + i - 1]
      BY <2>3, <3>1, <3>2, SubSeqProperties
    <3>4. Len(tss_model') = n - 1 /\ (n - 1) - 1 + 1 = n - 1
      <4>1. \A k \in Nat : (IF 1 <= k THEN k - 1 + 1 ELSE 0) = k /\ k - 1 + 1 = k
        OBVIOUS
      <4>. QED  BY <3>1, <3>3, <4>1
    <3>5. \A i \in 1 .. n - 1 : 1 + i - 1 = i
      OBVIOUS
    <3>. QED  BY <3>3, <3>4, <3>5
  <2>6. TssTypeOK'
    BY <1>1, <1>2, <1>4, <2>4, <2>5 DEF TssTypeOK
  <2>7. StackIsLifo'
    <3>1. \A i \in 1 .. n - 1 : i \in 1 .. n
      BY <1>2
    <3>2. \A i \in 1 .. n - 1 : tss'.arr[tss.capacity - i] = tss_model'[i]
      BY <1>2, <2>4, <2>5, <3>1
    <3>3. tss'.capacity - tss'.sp = n - 1
      BY <1>2, <2>4
    <3>4. tss_ret' = tss_due'
      BY <2>3
    <3>. QED  BY <2>4, <2>5, <3>2, <3>3, <3>4 DEF StackIsLifo, tss_count
  <2>. QED  BY <2>6, <2>7 DEF TssIInv
<1>. QED  BY <1>2, <1>3, <1>4

LEMMA TssDestroyKeeps == TssIInv /\ tss_destroy => TssIInv'
<1>. SUFFICES ASSUME TssIInv, tss_destroy PROVE TssIInv'
  OBVIOUS
<1>1. TssTypeOK /\ StackIsLifo
  BY DEF TssIInv
<1>2. /\ tss' = [tss EXCEPT !.ready = FALSE] /\ tss_model' = <<>>
      /\ UNCHANGED <<tss_ret, tss_due>>
  BY DEF tss_destroy
<1>3. /\ tss'.ready = FALSE /\ tss'.sp = tss.sp /\ tss'.capacity = tss.capacity
      /\ tss'.arr = tss.arr
      /\ tss' = [ready |-> tss'.ready, sp |-> tss'.sp, capacity |-> tss'.capacity,
                 arr |-> tss'.arr]
  BY <1>1, <1>2 DEF TssTypeOK
<1>4. TssTypeOK'
  BY <1>1, <1>2, <1>3 DEF TssTypeOK
<1>5. StackIsLifo'
  BY <1>1, <1>2, <1>3 DEF StackIsLifo
<1>. QED  BY <1>4, <1>5 DEF TssIInv

LEMMA TssStepKeeps == TssIInv /\ [TssNext]_tssVars => TssIInv'
<1>. SUFFICES ASSUME TssIInv, [TssNext]_tssVars PROVE TssIInv'
  OBVIOUS
<1>1. CASE UNCHANGED tssVars
  BY <1>1 DEF tssVars, TssIInv, TssTypeOK, StackIsLifo, tss_count
<1>2. CASE \E c \in StackSizes : tss_init(c)
  BY <1>2, TssInitKeeps
<1>3. CASE \E v \in StackVals : tss_push(v)
  BY <1>3, TssPushKeeps
<1>4. CASE tss_pop
  BY <1>4, TssPopKeeps
<1>5. CASE tss_destroy
  BY <1>5, TssDestroyKeeps
<1>. QED  BY <1>1, <1>2, <1>3, <1>4, <1>5 DEF TssNext

(* tstack.h: whatever the capacity and however large UINT32_MAX is, every  *)
(* answer of a push and a pop is the one a stack owes, -1 means refused    *)
(* and nothing else, and the array holds the values last in, first out.    *)
THEOREM StackAnswersAreLifo == TssSpec => []StackIsLifo
<1>1. TssSpec => []TssIInv
  BY TssInitIsInductive, TssStepKeeps, PTL DEF TssSpec
<1>2. TssIInv => StackIsLifo
  BY DEF TssIInv
<1>. QED  BY <1>1, <1>2, PTL

HIDE TStackAssumption

-----------------------------------------------------------------------------
(* The print lock.                                                         *)

USE PrintAssumption

Mutexes == {"pr_print", "get_time_mt"}

(* The pieces of a line in turn. *)
LEMMA Thirds ==
    ASSUME NEW n \in Nat
    PROVE  /\ n % 3 = 0 => (n + 1) % 3 = 1
           /\ n % 3 = 1 => (n + 1) % 3 = 2
           /\ n % 3 = 2 => (n + 1) % 3 = 0
  OBVIOUS

LEMMA OneLess == \A n \in Nat : n > 0 => n - 1 \in Nat
  OBVIOUS

LEMMA PrintInitIsInductive == PrintInit => PrintIInv
<1>. SUFFICES ASSUME PrintInit PROVE PrintIInv
  OBVIOUS
<1>. USE DEF PrintInit
<1>1. PrintTypeOK
  BY DEF PrintTypeOK, Places
<1>2. PrintExclusion
  BY DEF PrintExclusion, Inside, AtTheClock
<1>3. LastLine
  BY DEF LastLine, At
<1>4. NoLaterStamp
  BY DEF NoLaterStamp, At
<1>5. LinesAreWhole
  BY DEF LinesAreWhole
<1>6. StampsAreInOrder
  BY DEF StampsAreInOrder, At, Pieces
<1>. QED  BY <1>1, <1>2, <1>3, <1>4, <1>5, <1>6 DEF PrintIInv

(* A thread that moves while nothing is written and the clock stands: the  *)
(* invariant is kept if the thread has what the new place asks for.        *)
LEMMA MoveKeeps ==
    ASSUME PrintIInv, NEW t \in Printers,
           UNCHANGED <<pr_static, pr_out, pr_now>>,
           pr_owner' \in [Mutexes -> Printers \cup {Nobody}],
           pr_thread' \in [Printers -> [at : Places, tries : Nat, rawtime : Nat,
                                        buf : Nat, left : Int]],
           \A u \in Printers \ {t} : pr_thread'[u] = pr_thread[u],
           \A u \in Printers \ {t}, m \in Mutexes : pr_owner[m] = u => pr_owner'[m] = u,
           Inside(t)' => pr_owner'["pr_print"] = t,
           AtTheClock(t)' => pr_owner'["get_time_mt"] = t,
           ~At(t, "text") /\ ~At(t, "newline") /\ ~At(t, "copy"),
           pr_thread'[t].at \notin {"text", "newline", "copy", "stamp"}
    PROVE  PrintIInv'
<1>1. /\ PrintTypeOK /\ PrintExclusion /\ LastLine /\ NoLaterStamp
      /\ LinesAreWhole /\ StampsAreInOrder
  BY DEF PrintIInv
<1>2. PrintTypeOK'
  BY <1>1 DEF PrintTypeOK, Mutexes
<1>3. PrintExclusion'
  BY <1>1 DEF PrintExclusion, Inside, AtTheClock, Mutexes
<1>4. LastLine'
  BY <1>1 DEF LastLine, At
<1>5. NoLaterStamp'
  BY <1>1 DEF NoLaterStamp, At
<1>6. LinesAreWhole'
  BY <1>1 DEF LinesAreWhole
<1>7. StampsAreInOrder'
  <2>1. \A u \in Printers, k \in DOMAIN Pieces :
            At(u, Pieces[k])' => u # t /\ At(u, Pieces[k])
    BY DEF At, Pieces
  <2>. QED  BY <1>1, <2>1 DEF StampsAreInOrder
<1>. QED  BY <1>2, <1>3, <1>4, <1>5, <1>6, <1>7 DEF PrintIInv

LEMMA BeginKeeps ==
    ASSUME PrintIInv, NEW t \in Printers, Begin(t)
    PROVE  PrintIInv'
<1>1. PrintTypeOK
  BY DEF PrintIInv
<1>2. /\ pr_thread[t].at = "idle"
      /\ pr_thread' = [pr_thread EXCEPT ![t].at = "busy"]
      /\ UNCHANGED <<pr_owner, pr_static, pr_out, pr_now>>
  BY DEF Begin, At
<1>3. pr_thread'[t].at = "busy"
  BY <1>1, <1>2 DEF PrintTypeOK
<1>4. pr_thread' \in [Printers -> [at : Places, tries : Nat, rawtime : Nat,
                                   buf : Nat, left : Int]]
  BY <1>1, <1>2 DEF PrintTypeOK, Places
<1>5. \A u \in Printers \ {t} : pr_thread'[u] = pr_thread[u]
  BY <1>1, <1>2 DEF PrintTypeOK
<1>6. ~Inside(t)' /\ ~AtTheClock(t)'
  BY <1>3 DEF Inside, AtTheClock
<1>. QED  BY <1>1, <1>2, <1>3, <1>4, <1>5, <1>6, MoveKeeps DEF PrintTypeOK, Mutexes, At

(* Both uses of pthread_mutex_busy_lock. *)
LEMMA BusyLockKeeps ==
    ASSUME PrintIInv, NEW t \in Printers, NEW m \in Mutexes,
           NEW busy, NEW asleep, NEW next,
           \/ /\ m = "pr_print" /\ busy = "busy" /\ asleep = "asleep"
              /\ next = "entered"
           \/ /\ m = "get_time_mt" /\ busy = "entered" /\ asleep = "asleep inside"
              /\ next = "time",
           BusyLock(t, m, busy, asleep, next)
    PROVE  PrintIInv'
<1>1. PrintTypeOK /\ PrintExclusion
  BY DEF PrintIInv
<1>2. UNCHANGED <<pr_static, pr_out, pr_now>> /\ pr_thread[t].at \in {busy, asleep}
  BY DEF BusyLock, At
<1>3. ~At(t, "text") /\ ~At(t, "newline") /\ ~At(t, "copy")
  BY <1>2 DEF At
<1>4. CASE Take(t, m, next)
  <2>1. /\ pr_owner[m] = Nobody
        /\ pr_owner' = [pr_owner EXCEPT ![m] = t]
        /\ pr_thread' = [pr_thread EXCEPT ![t].at = next, ![t].tries = TryNum]
    BY <1>4 DEF Take
  <2>2. /\ pr_thread'[t].at = next
        /\ \A u \in Printers \ {t} : pr_thread'[u] = pr_thread[u]
        /\ pr_thread' \in [Printers -> [at : Places, tries : Nat, rawtime : Nat,
                                        buf : Nat, left : Int]]
    <3>1. next \in Places /\ TryNum \in Nat
      BY DEF Places
    <3>. QED  BY <1>1, <2>1, <3>1 DEF PrintTypeOK
  <2>3. /\ pr_owner' \in [Mutexes -> Printers \cup {Nobody}]
        /\ pr_owner'[m] = t
        /\ \A l \in Mutexes \ {m} : pr_owner'[l] = pr_owner[l]
    BY <1>1, <2>1 DEF PrintTypeOK, Mutexes
  <2>4. \A u \in Printers \ {t}, l \in Mutexes : pr_owner[l] = u => pr_owner'[l] = u
    BY <2>1, <2>3
  <2>5. /\ Inside(t)' => pr_owner'["pr_print"] = t
        /\ AtTheClock(t)' => pr_owner'["get_time_mt"] = t
    BY <1>1, <1>2, <2>2, <2>3 DEF Inside, AtTheClock, PrintExclusion, Mutexes
  <2>. QED  BY <1>2, <1>3, <2>2, <2>3, <2>4, <2>5, MoveKeeps
<1>5. CASE \/ TryAgain(t, m)
           \/ FallAsleep(t, m, asleep, next) /\ At(t, busy)
  <2>1. /\ UNCHANGED pr_owner
        /\ \/ pr_thread' = [pr_thread EXCEPT ![t].tries = @ - 1] /\ pr_thread[t].tries > 0
           \/ pr_thread' = [pr_thread EXCEPT ![t].at = asleep] /\ At(t, busy)
    BY <1>5 DEF TryAgain, FallAsleep
  <2>2. /\ pr_thread'[t].at \in {pr_thread[t].at, asleep}
        /\ \A u \in Printers \ {t} : pr_thread'[u] = pr_thread[u]
        /\ pr_thread' \in [Printers -> [at : Places, tries : Nat, rawtime : Nat,
                                        buf : Nat, left : Int]]
    <3>1. asleep \in Places
      BY DEF Places
    <3>2. pr_thread[t].tries > 0 => pr_thread[t].tries - 1 \in Nat
      <4>1. pr_thread[t].tries \in Nat
        BY <1>1 DEF PrintTypeOK
      <4>. QED  BY <4>1, OneLess
    <3>. QED  BY <1>1, <2>1, <3>1, <3>2, ZenonT(60) DEF PrintTypeOK
  <2>3. pr_owner' \in [Mutexes -> Printers \cup {Nobody}]
    BY <1>1, <2>1 DEF PrintTypeOK, Mutexes
  <2>4. /\ Inside(t)' => pr_owner'["pr_print"] = t
        /\ AtTheClock(t)' => pr_owner'["get_time_mt"] = t
    BY <1>1, <1>2, <2>1, <2>2 DEF Inside, AtTheClock, PrintExclusion
  <2>. QED  BY <1>2, <1>3, <2>1, <2>2, <2>3, <2>4, MoveKeeps
<1>. QED  BY <1>4, <1>5 DEF BusyLock

LEMMA LocalTimeKeeps ==
    ASSUME PrintIInv, NEW t \in Printers, LocalTime(t)
    PROVE  PrintIInv'
<1>1. /\ PrintTypeOK /\ PrintExclusion /\ LastLine /\ NoLaterStamp
      /\ LinesAreWhole /\ StampsAreInOrder
  BY DEF PrintIInv
<1>2. /\ pr_thread[t].at = "time" /\ pr_static' = pr_now
      /\ pr_thread' = [pr_thread EXCEPT ![t].at = "copy", ![t].rawtime = pr_now]
      /\ UNCHANGED <<pr_owner, pr_out, pr_now>>
  BY DEF LocalTime, At
<1>3. /\ pr_thread'[t].at = "copy" /\ pr_thread'[t].rawtime = pr_now
      /\ \A u \in Printers \ {t} : pr_thread'[u] = pr_thread[u]
  BY <1>1, <1>2 DEF PrintTypeOK
<1>4. PrintTypeOK'
  BY <1>1, <1>2, ZenonT(60) DEF PrintTypeOK, Places
<1>5. PrintExclusion'
  BY <1>1, <1>2, <1>3 DEF PrintExclusion, Inside, AtTheClock
<1>6. \A u \in Printers \ {t} : ~Inside(u) /\ ~AtTheClock(u)
  BY <1>1, <1>2 DEF PrintExclusion, Inside, AtTheClock
<1>7. LastLine'
  BY <1>1, <1>2, <1>3 DEF LastLine, At
<1>8. NoLaterStamp'
  BY <1>1, <1>2, <1>3, <1>6 DEF NoLaterStamp, At, AtTheClock, PrintTypeOK
<1>9. LinesAreWhole'
  BY <1>1, <1>2 DEF LinesAreWhole
<1>10. StampsAreInOrder'
  <2>1. \A u \in Printers, k \in DOMAIN Pieces :
            At(u, Pieces[k])' => u # t /\ At(u, Pieces[k])
    BY <1>3 DEF At, Pieces
  <2>. QED  BY <1>1, <1>2, <1>3, <2>1 DEF StampsAreInOrder
<1>. QED  BY <1>4, <1>5, <1>7, <1>8, <1>9, <1>10 DEF PrintIInv

LEMMA CopyTimeKeeps ==
    ASSUME PrintIInv, NEW t \in Printers, CopyTime(t)
    PROVE  PrintIInv'
<1>1. /\ PrintTypeOK /\ PrintExclusion /\ LastLine /\ NoLaterStamp
      /\ LinesAreWhole /\ StampsAreInOrder
  BY DEF PrintIInv
<1>2. /\ pr_thread[t].at = "copy"
      /\ pr_thread' = [pr_thread EXCEPT ![t].at = "stamp", ![t].buf = pr_static]
      /\ pr_owner' = [pr_owner EXCEPT !["get_time_mt"] = IF @ = t THEN Nobody ELSE @]
      /\ UNCHANGED <<pr_static, pr_out, pr_now>>
  BY DEF CopyTime, At, Unlock
<1>3. /\ pr_thread'[t].at = "stamp" /\ pr_thread'[t].buf = pr_static
      /\ pr_thread'[t].rawtime = pr_thread[t].rawtime
      /\ \A u \in Printers \ {t} : pr_thread'[u] = pr_thread[u]
  BY <1>1, <1>2 DEF PrintTypeOK
<1>4. PrintTypeOK'
  BY <1>1, <1>2, ZenonT(60) DEF PrintTypeOK, Places
<1>5. /\ pr_owner'["pr_print"] = pr_owner["pr_print"]
      /\ \A u \in Printers \ {t} : pr_owner["get_time_mt"] = u => pr_owner'["get_time_mt"] = u
  BY <1>1, <1>2 DEF PrintTypeOK
<1>6. PrintExclusion'
  BY <1>1, <1>2, <1>3, <1>5 DEF PrintExclusion, Inside, AtTheClock
<1>7. LastLine'
  BY <1>1, <1>2, <1>3 DEF LastLine, At
<1>8. NoLaterStamp'
  BY <1>1, <1>2, <1>3 DEF NoLaterStamp, At, PrintTypeOK
<1>9. LinesAreWhole'
  BY <1>1, <1>2 DEF LinesAreWhole
<1>10. StampsAreInOrder'
  <2>1. \A u \in Printers \ {t}, k \in DOMAIN Pieces :
            At(u, Pieces[k])' => At(u, Pieces[k])
    BY <1>3 DEF At
  <2>2. pr_thread'[t].buf = pr_thread'[t].rawtime
    BY <1>1, <1>2, <1>3 DEF NoLaterStamp, At
  <2>. QED  BY <1>1, <1>2, <1>3, <2>1, <2>2 DEF StampsAreInOrder
<1>. QED  BY <1>4, <1>6, <1>7, <1>8, <1>9, <1>10 DEF PrintIInv

(* What is on stdout when a thread is about to write its next piece. *)
LEMMA PieceIsDue ==
    ASSUME PrintIInv, NEW t \in Printers, NEW k \in DOMAIN Pieces, At(t, Pieces[k])
    PROVE  /\ k \in 1 .. 3
           /\ Len(pr_out) % 3 = k - 1
           /\ k # 1 => pr_out[Len(pr_out)].by = t
           /\ \A u \in Printers \ {t} : ~Inside(u)
<1>1. PrintExclusion /\ LastLine
  BY DEF PrintIInv
<1>2. k \in 1 .. 3 /\ Pieces[1] = "stamp" /\ Pieces[2] = "text" /\ Pieces[3] = "newline"
  BY DEF Pieces
<1>3. Inside(t)
  <2>1. Pieces[k] \in {"stamp", "text", "newline"}
    BY <1>2
  <2>. QED  BY <2>1 DEF At, Inside
<1>4. \A u \in Printers \ {t} : ~Inside(u)
  BY <1>1, <1>3 DEF PrintExclusion
<1>5. CASE k = 1
  <2>1. \A u \in Printers : ~At(u, "text") /\ ~At(u, "newline")
    BY <1>2, <1>4, <1>5 DEF At, Inside
  <2>. QED  BY <1>1, <1>2, <1>4, <1>5, <2>1 DEF LastLine
<1>6. CASE k = 2
  BY <1>1, <1>2, <1>4, <1>6 DEF LastLine
<1>7. CASE k = 3
  BY <1>1, <1>2, <1>4, <1>7 DEF LastLine
<1>. QED  BY <1>2, <1>5, <1>6, <1>7

LEMMA PutKeeps ==
    ASSUME PrintIInv, NEW t \in Printers, NEW k \in DOMAIN Pieces, Put(t, k)
    PROVE  PrintIInv'
<1>. DEFINE L == Len(pr_out)
            piece == [by |-> t, piece |-> k, stamp |-> pr_thread[t].buf]
            next == IF k = 3 THEN "unlock" ELSE Pieces[k + 1]
<1>1. /\ PrintTypeOK /\ PrintExclusion /\ LastLine /\ NoLaterStamp
      /\ LinesAreWhole /\ StampsAreInOrder
  BY DEF PrintIInv
<1>2. /\ At(t, Pieces[k])
      /\ pr_out' = Append(pr_out, piece)
      /\ pr_thread' = [pr_thread EXCEPT ![t].at = next]
      /\ UNCHANGED <<pr_owner, pr_static, pr_now>>
  BY DEF Put
<1>3. /\ k \in 1 .. 3 /\ L % 3 = k - 1
      /\ k # 1 => pr_out[L].by = t
      /\ \A u \in Printers \ {t} : ~Inside(u)
  BY <1>2, PieceIsDue
<1>4. /\ k = 1 => pr_thread[t].at = "stamp" /\ next = "text"
      /\ k = 2 => pr_thread[t].at = "text" /\ next = "newline"
      /\ k = 3 => pr_thread[t].at = "newline" /\ next = "unlock"
  BY <1>2, <1>3 DEF At, Pieces
<1>. HIDE DEF next
<1>5. /\ next \in {"text", "newline", "unlock"} /\ next \in Places
      /\ pr_thread[t].at \in {"stamp", "text", "newline"}
  <2>1. k = 1 \/ k = 2 \/ k = 3
    BY <1>3
  <2>. QED  BY <1>4, <2>1 DEF Places
<1>6. /\ pr_thread'[t].at = next
      /\ pr_thread'[t].buf = pr_thread[t].buf /\ pr_thread'[t].rawtime = pr_thread[t].rawtime
      /\ \A u \in Printers \ {t} : pr_thread'[u] = pr_thread[u]
  BY <1>1, <1>2 DEF PrintTypeOK
<1>7. piece \in Written
  BY <1>1, <1>3 DEF PrintTypeOK, Written
<1>8. /\ L \in Nat /\ Len(pr_out') = L + 1 /\ DOMAIN pr_out' = 1 .. L + 1
      /\ DOMAIN pr_out = 1 .. L
      /\ \A i \in 1 .. L : pr_out'[i] = pr_out[i]
      /\ pr_out'[L + 1] = piece
      /\ pr_out' \in Seq(Written)
  <2>1. pr_out \in Seq(Written)
    BY <1>1 DEF PrintTypeOK
  <2>. QED  BY <1>2, <1>7, <2>1
<1>9. PrintTypeOK'
  <2>1. pr_thread' \in [Printers -> [at : Places, tries : Nat, rawtime : Nat,
                                     buf : Nat, left : Int]]
    BY <1>1, <1>2, <1>5 DEF PrintTypeOK
  <2>. QED  BY <1>1, <1>2, <1>8, <2>1 DEF PrintTypeOK
<1>10. PrintExclusion'
  <2>1. pr_owner["pr_print"] = t
    BY <1>1, <1>5 DEF PrintExclusion, Inside
  <2>2. ~AtTheClock(t)'
    BY <1>5, <1>6 DEF AtTheClock
  <2>3. \A u \in Printers \ {t} : ~Inside(u)' /\ ~AtTheClock(u)'
    BY <1>3, <1>6 DEF Inside, AtTheClock
  <2>. QED  BY <1>2, <2>1, <2>2, <2>3 DEF PrintExclusion
<1>11. LastLine'
  <2>1. \A u \in Printers \ {t} : ~At(u, "text")' /\ ~At(u, "newline")'
    BY <1>3, <1>6 DEF At, Inside
  <2>2. pr_out'[Len(pr_out')].by = t
    BY <1>8
  <2>3. /\ k = 1 => (L + 1) % 3 = 1
        /\ k = 2 => (L + 1) % 3 = 2
        /\ k = 3 => (L + 1) % 3 = 0
    BY <1>3, <1>8, Thirds
  <2>4. /\ At(t, "text")' => k = 1
        /\ At(t, "newline")' => k = 2
        /\ ~At(t, "text")' /\ ~At(t, "newline")' => k = 3
    BY <1>3, <1>4, <1>6 DEF At
  <2>. QED  BY <1>3, <1>8, <2>1, <2>2, <2>3, <2>4 DEF LastLine
<1>12. \A j \in DOMAIN pr_out : pr_out[j].stamp <= pr_thread[t].buf
  BY <1>1, <1>5 DEF NoLaterStamp
<1>13. pr_thread[t].buf = pr_thread[t].rawtime /\ pr_thread[t].buf <= pr_now
  BY <1>1, <1>5 DEF NoLaterStamp
<1>14. pr_thread[t].buf \in Nat
  BY <1>1 DEF PrintTypeOK
<1>15. NoLaterStamp'
  <2>1. \A j \in DOMAIN pr_out' : pr_out'[j].stamp <= pr_thread[t].buf
    BY <1>8, <1>12, <1>14
  <2>2. \A j \in DOMAIN pr_out' : pr_out'[j].stamp <= pr_now'
    BY <1>1, <1>2, <1>8, <1>13 DEF NoLaterStamp
  <2>3. \A u \in Printers \ {t} :
            pr_thread'[u].at \notin {"copy", "stamp", "text", "newline"}
    BY <1>3, <1>6 DEF Inside
  <2>4. pr_thread'[t].at # "copy"
    BY <1>3, <1>4, <1>6
  <2>. QED  BY <1>1, <1>2, <1>6, <1>13, <2>1, <2>2, <2>3, <2>4 DEF NoLaterStamp, At
<1>16. LinesAreWhole'
  <2>1. ASSUME NEW j \in DOMAIN pr_out'
        PROVE  /\ pr_out'[j].piece = ((j - 1) % 3) + 1
               /\ pr_out'[j].piece # 1 => pr_out'[j].by = pr_out'[j - 1].by
    <3>1. CASE j \in 1 .. L
      <4>1. /\ pr_out[j].piece = ((j - 1) % 3) + 1
            /\ pr_out[j].piece # 1 => pr_out[j].by = pr_out[j - 1].by
        BY <1>1, <1>8, <3>1 DEF LinesAreWhole
      <4>2. CASE j = 1
        BY <1>8, <3>1, <4>1, <4>2
      <4>3. CASE j # 1
        <5>1. j - 1 \in 1 .. L
          BY <1>8, <3>1, <4>3
        <5>. QED  BY <1>8, <3>1, <4>1, <5>1
      <4>. QED  BY <4>2, <4>3
    <3>2. CASE j = L + 1
      <4>1. pr_out'[j].piece = k /\ pr_out'[j].by = t /\ j - 1 = L
        BY <1>8, <3>2
      <4>2. CASE k = 1
        BY <1>3, <4>1, <4>2
      <4>3. CASE k # 1
        <5>1. L # 0
          BY <1>3, <1>8, <4>3
        <5>2. pr_out'[L] = pr_out[L]
          BY <1>8, <5>1
        <5>. QED  BY <1>3, <4>1, <4>3, <5>2
      <4>. QED  BY <4>2, <4>3
    <3>. QED  BY <1>8, <3>1, <3>2
  <2>. QED  BY <2>1 DEF LinesAreWhole
<1>17. StampsAreInOrder'
  <2>1. ASSUME NEW i \in DOMAIN pr_out', NEW j \in DOMAIN pr_out', i < j
        PROVE  pr_out'[i].stamp <= pr_out'[j].stamp
    <3>1. i \in 1 .. L
      BY <1>8, <2>1
    <3>2. CASE j \in 1 .. L
      BY <1>1, <1>8, <2>1, <3>1, <3>2 DEF StampsAreInOrder
    <3>3. CASE j = L + 1
      BY <1>8, <1>12, <3>1, <3>3
    <3>. QED  BY <1>8, <2>1, <3>2, <3>3
  <2>2. ASSUME NEW u \in Printers, NEW l \in DOMAIN Pieces, At(u, Pieces[l])'
        PROVE  pr_thread'[u].buf = pr_thread'[u].rawtime
    <3>1. CASE u = t
      BY <1>6, <1>13, <3>1
    <3>2. CASE u # t
      <4>1. At(u, Pieces[l])
        BY <1>6, <2>2, <3>2 DEF At, Pieces
      <4>. QED  BY <1>1, <1>6, <3>2, <4>1 DEF StampsAreInOrder
    <3>. QED  BY <3>1, <3>2
  <2>. QED  BY <2>1, <2>2 DEF StampsAreInOrder
<1>. QED  BY <1>9, <1>10, <1>11, <1>15, <1>16, <1>17 DEF PrintIInv

LEMMA EndKeeps ==
    ASSUME PrintIInv, NEW t \in Printers, End(t)
    PROVE  PrintIInv'
<1>1. PrintTypeOK
  BY DEF PrintIInv
<1>2. /\ pr_thread[t].at = "unlock"
      /\ pr_thread' = [pr_thread EXCEPT ![t].at = "idle", ![t].left = @ - 1]
      /\ pr_owner' = [pr_owner EXCEPT !["pr_print"] = IF @ = t THEN Nobody ELSE @]
      /\ UNCHANGED <<pr_static, pr_out, pr_now>>
  BY DEF End, At, Unlock
<1>3. /\ pr_thread'[t].at = "idle"
      /\ \A u \in Printers \ {t} : pr_thread'[u] = pr_thread[u]
  BY <1>1, <1>2 DEF PrintTypeOK
<1>4. pr_thread' \in [Printers -> [at : Places, tries : Nat, rawtime : Nat,
                                   buf : Nat, left : Int]]
  <2>1. pr_thread[t].left \in Int /\ pr_thread[t].left - 1 \in Int
    BY <1>1 DEF PrintTypeOK
  <2>2. "idle" \in Places
    BY DEF Places
  <2>. QED  BY <1>1, <1>2, <2>1, <2>2 DEF PrintTypeOK
<1>5. pr_owner' \in [Mutexes -> Printers \cup {Nobody}]
  BY <1>1, <1>2 DEF PrintTypeOK, Mutexes
<1>6. \A u \in Printers \ {t}, m \in Mutexes : pr_owner[m] = u => pr_owner'[m] = u
  BY <1>1, <1>2 DEF PrintTypeOK, Mutexes
<1>7. ~Inside(t)' /\ ~AtTheClock(t)'
  BY <1>3 DEF Inside, AtTheClock
<1>8. ~At(t, "text") /\ ~At(t, "newline") /\ ~At(t, "copy")
  BY <1>2 DEF At
<1>. QED  BY <1>2, <1>3, <1>4, <1>5, <1>6, <1>7, <1>8, MoveKeeps

LEMMA TickKeeps == PrintIInv /\ Tick => PrintIInv'
<1>. SUFFICES ASSUME PrintIInv, Tick PROVE PrintIInv'
  OBVIOUS
<1>1. /\ PrintTypeOK /\ PrintExclusion /\ LastLine /\ NoLaterStamp
      /\ LinesAreWhole /\ StampsAreInOrder
  BY DEF PrintIInv
<1>2. pr_now' = pr_now + 1 /\ UNCHANGED <<pr_owner, pr_thread, pr_static, pr_out>>
  BY DEF Tick
<1>3. PrintTypeOK'
  BY <1>1, <1>2 DEF PrintTypeOK
<1>4. PrintExclusion' /\ LastLine' /\ LinesAreWhole' /\ StampsAreInOrder'
  BY <1>1, <1>2
     DEF PrintExclusion, LastLine, LinesAreWhole, StampsAreInOrder, At, Inside, AtTheClock
<1>5. NoLaterStamp'
  <2>1. \A n \in Nat : n <= pr_now => n <= pr_now + 1
    BY <1>1 DEF PrintTypeOK
  <2>2. \A j \in DOMAIN pr_out : pr_out[j].stamp \in Nat
    <3>1. \A j \in DOMAIN pr_out : pr_out[j] \in Written
      BY <1>1 DEF PrintTypeOK
    <3>. QED  BY <3>1 DEF Written
  <2>3. \A u \in Printers : pr_thread[u].buf \in Nat
    BY <1>1 DEF PrintTypeOK
  <2>. QED  BY <1>1, <1>2, <2>1, <2>2, <2>3 DEF NoLaterStamp, PrintTypeOK, At
<1>. QED  BY <1>3, <1>4, <1>5 DEF PrintIInv

LEMMA PrintStepKeeps == PrintIInv /\ [PrintNext]_prVars => PrintIInv'
<1>. SUFFICES ASSUME PrintIInv, [PrintNext]_prVars PROVE PrintIInv'
  OBVIOUS
<1>1. CASE UNCHANGED prVars
  BY <1>1 DEF PrintIInv, prVars, PrintTypeOK, PrintExclusion, LastLine, NoLaterStamp,
              LinesAreWhole, StampsAreInOrder, At, Inside, AtTheClock
<1>2. CASE Tick
  BY <1>2, TickKeeps
<1>3. ASSUME NEW t \in Printers, PrintStep(t) PROVE PrintIInv'
  <2>1. CASE Begin(t)
    BY <2>1, BeginKeeps
  <2>2. CASE BusyLock(t, "pr_print", "busy", "asleep", "entered")
    BY <2>2, BusyLockKeeps DEF Mutexes
  <2>3. CASE BusyLock(t, "get_time_mt", "entered", "asleep inside", "time")
    BY <2>3, BusyLockKeeps DEF Mutexes
  <2>4. CASE LocalTime(t)
    BY <2>4, LocalTimeKeeps
  <2>5. CASE CopyTime(t)
    BY <2>5, CopyTimeKeeps
  <2>6. CASE \E k \in DOMAIN Pieces : Put(t, k)
    BY <2>6, PutKeeps
  <2>7. CASE End(t)
    BY <2>7, EndKeeps
  <2>. QED  BY <1>3, <2>1, <2>2, <2>3, <2>4, <2>5, <2>6, <2>7 DEF PrintStep
<1>. QED  BY <1>1, <1>2, <1>3 DEF PrintNext

LEMMA PrintInvariant == PrintSpec => []PrintIInv
  BY PrintInitIsInductive, PrintStepKeeps, PTL DEF PrintSpec

(* print.c, the mutex around the three writes of a line: for any number of *)
(* threads and lines, and however often the mutex is tried, the lines on   *)
(* stdout come out whole, one thread's after another.                      *)
THEOREM PrintLinesAreWhole == PrintSpec => []LinesAreWhole
<1>1. PrintIInv => LinesAreWhole
  BY DEF PrintIInv
<1>. QED  BY <1>1, PrintInvariant, PTL

(* print.c, get_time inside the lock of the line: the stamps on stdout     *)
(* never go back, and a line has the stamp its own thread asked for, for   *)
(* any number of threads.                                                  *)
THEOREM PrintStampsAreInOrder == PrintSpec => []StampsAreInOrder
<1>1. PrintIInv => StampsAreInOrder
  BY DEF PrintIInv
<1>. QED  BY <1>1, PrintInvariant, PTL

-----------------------------------------------------------------------------
(* The test framework.                                                     *)

TtPoints == [total_point : Nat, point : Nat]

TtPipeState == [reports : Seq(TtPoints), size : Nat, lost : BOOLEAN]

TtParentPcs == {"start", "wait", "drain", "print", "done"}

TtChildPcs == {"none", "exec", "loop", "test", "report", "handler", "raise", "dead"}

TtTypeOK ==
    /\ tt_parent \in [pc : TtParentPcs, exit_code : Nat, buf : TtPoints \cup {Garbage},
                      shown : Seq(TtPoints \cup {Garbage}), status : Int]
    /\ tt_child \in [pc : TtChildPcs, is_exec : BOOLEAN, entry : 1 .. Len(TtTests) + 1,
                     at : Nat, ret : {0, 1}, wstatus : Nat]
    /\ tt_points \in TtPoints
    /\ tt_fail \in BOOLEAN
    /\ tt_pipe \in TtPipeState

(* P[i] is how many assertions the first i entries make.  The first pass   *)
(* computes it entry by entry, so it need not be defined by recursion.     *)
Sums(P, n) ==
    /\ P \in [0 .. n -> Nat]
    /\ P[0] = 0
    /\ \A i \in 1 .. n : P[i] = P[i - 1] + TtTests[i]

Known == IF tt_child.is_exec THEN Len(TtTests) ELSE tt_child.entry - 1

Here == IF tt_child.pc \in {"test", "report"} THEN tt_child.at ELSE 0

Unfailed == tt_child.is_exec /\ ~tt_fail /\ (tt_child.pc = "test" => tt_child.ret = 0)

(* In the first pass every assertion counts; in the second every one that  *)
(* passed does, so that without a failure none is missing.                 *)
Tallied(P) ==
    /\ Sums(P, Known)
    /\ tt_points.total_point = P[Known] + (IF tt_child.is_exec THEN 0 ELSE Here)
    /\ ~tt_child.is_exec => tt_points.point = 0
    /\ Unfailed => tt_points.point = P[tt_child.entry - 1] + Here

AllRan ==
    /\ tt_child.is_exec /\ tt_child.entry > Len(TtTests)
    /\ tt_points.point = tt_points.total_point

ChildFollows ==
    /\ tt_child.pc \in {"test", "report"} =>
           tt_child.entry <= Len(TtTests) /\ tt_child.at <= TtTests[tt_child.entry]
    /\ tt_child.pc = "report" => tt_child.at = TtTests[tt_child.entry]
    /\ tt_child.pc \in {"none", "exec"} => ~tt_child.is_exec /\ tt_child.entry = 1
    /\ tt_child.pc \in {"none", "exec", "loop", "test", "report"} => \E P : Tallied(P)
    /\ tt_child.pc = "dead" /\ tt_child.wstatus = 0 => AllRan

LastPoints ==
    IF tt_pipe.reports = <<>> THEN tt_parent.buf ELSE tt_pipe.reports[Len(tt_pipe.reports)]

(* The child has nothing to add to its last report. *)
Reported ==
    \/ tt_child.pc = "raise"
    \/ tt_child.pc = "loop" /\ (tt_child.is_exec \/ tt_child.entry > 1)
    \/ tt_child.pc = "dead" /\ tt_child.wstatus # TT_KILLED /\ "execve" \notin tt_failed

ReportsFollow == Reported /\ ~tt_pipe.lost => LastPoints = tt_points

ParentFollows ==
    /\ tt_parent.pc # "done" => tt_parent.shown = <<>> /\ tt_parent.status = -1
    /\ tt_parent.pc = "start" => tt_child.pc = "none"
    /\ tt_child.pc \notin {"none", "dead"} => tt_parent.pc = "wait"
    /\ tt_parent.pc \in {"drain", "print"} =>
           /\ tt_child.pc = "dead" /\ tt_child.wstatus # TT_KILLED
           /\ tt_parent.exit_code = tt_child.wstatus
    /\ tt_parent.pc = "print" /\ "read" \notin tt_failed => tt_pipe.reports = <<>>

TtIInv ==
    /\ TtTypeOK /\ ChildFollows /\ ReportsFollow /\ ParentFollows
    /\ TeatestGreenIsEarned /\ TeatestReportIsTruthful

USE TeatestAssumption

LEMMA TtTestsAreNat ==
    /\ Len(TtTests) \in Nat
    /\ \A i \in 1 .. Len(TtTests) : TtTests[i] \in Nat
  OBVIOUS

(* The fields of a well-typed state, for the provers. *)
LEMMA TtFields ==
    ASSUME TtTypeOK
    PROVE  /\ tt_parent.pc \in TtParentPcs /\ tt_parent.exit_code \in Nat
           /\ tt_parent.buf \in TtPoints \cup {Garbage}
           /\ tt_parent.shown \in Seq(TtPoints \cup {Garbage}) /\ tt_parent.status \in Int
           /\ tt_child.pc \in TtChildPcs /\ tt_child.is_exec \in BOOLEAN
           /\ tt_child.entry \in 1 .. Len(TtTests) + 1 /\ tt_child.at \in Nat
           /\ tt_child.ret \in {0, 1} /\ tt_child.wstatus \in Nat
           /\ tt_points.total_point \in Nat /\ tt_points.point \in Nat
           /\ tt_pipe.reports \in Seq(TtPoints) /\ tt_pipe.size \in Nat
           /\ tt_pipe.lost \in BOOLEAN
  BY DEF TtTypeOK, TtPoints, TtPipeState

LEMMA TtInitIsInductive == TtInit => TtIInv
<1>. SUFFICES ASSUME TtInit PROVE TtIInv
  OBVIOUS
<1>1. /\ tt_parent.pc = "start" /\ tt_parent.shown = <<>> /\ tt_parent.status = -1
      /\ tt_child.pc = "none" /\ tt_child.is_exec = FALSE /\ tt_child.entry = 1
      /\ tt_child.wstatus = 0
      /\ tt_points.total_point = 0 /\ tt_points.point = 0
  BY DEF TtInit
<1>2. TtTypeOK
  <2>1. tt_points \in TtPoints
    BY DEF TtInit, TtPoints
  <2>2. 1 \in 1 .. Len(TtTests) + 1
    BY TtTestsAreNat
  <2>3. <<>> \in Seq(TtPoints) /\ <<>> \in Seq(TtPoints \cup {Garbage})
    OBVIOUS
  <2>4. /\ tt_parent \in [pc : TtParentPcs, exit_code : Nat, buf : TtPoints \cup {Garbage},
                          shown : Seq(TtPoints \cup {Garbage}), status : Int]
        /\ tt_pipe \in TtPipeState
    BY <2>3 DEF TtInit, TtParentPcs, TtPipeState
  <2>5. tt_child \in [pc : TtChildPcs, is_exec : BOOLEAN, entry : 1 .. Len(TtTests) + 1,
                      at : Nat, ret : {0, 1}, wstatus : Nat]
    BY <2>2 DEF TtInit, TtChildPcs
  <2>. QED  BY <2>1, <2>4, <2>5 DEF TtInit, TtTypeOK
<1>3. ChildFollows
  <2>1. Tallied([i \in 0 .. 0 |-> 0])
    BY <1>1 DEF Tallied, Sums, Known, Here, Unfailed
  <2>. QED  BY <1>1, <2>1 DEF ChildFollows
<1>4. ReportsFollow /\ ParentFollows
  BY <1>1 DEF ReportsFollow, Reported, ParentFollows
<1>5. TeatestGreenIsEarned /\ TeatestReportIsTruthful
  BY <1>1 DEF TeatestGreenIsEarned, TeatestReportIsTruthful
<1>. QED  BY <1>2, <1>3, <1>4, <1>5 DEF TtIInv

(* While the child runs the parent waits and has said nothing. *)
LEMMA ChildStepKeeps ==
    ASSUME TtIInv, tt_child.pc \notin {"none", "dead"}, tt_parent' = tt_parent,
           TtTypeOK', ChildFollows', ReportsFollow', tt_child'.pc \notin {"none"}
    PROVE  TtIInv'
<1>1. tt_parent.pc = "wait" /\ tt_parent.shown = <<>> /\ tt_parent.status = -1
  BY DEF TtIInv, ParentFollows
<1>2. ParentFollows'
  BY <1>1 DEF ParentFollows
<1>3. TeatestGreenIsEarned' /\ TeatestReportIsTruthful'
  BY <1>1 DEF TeatestGreenIsEarned, TeatestReportIsTruthful
<1>. QED  BY <1>2, <1>3 DEF TtIInv

LEMMA TtExecKeeps == TtIInv /\ TtExec => TtIInv'
<1>. SUFFICES ASSUME TtIInv, TtExec PROVE TtIInv'
  OBVIOUS
<1>1. /\ TtTypeOK /\ ChildFollows /\ tt_child.pc = "exec"
      /\ UNCHANGED <<tt_parent, tt_points, tt_fail, tt_pipe>>
  BY DEF TtIInv, TtExec
<1>2. tt_child.is_exec = FALSE /\ tt_child.entry = 1
  BY <1>1, TtFields DEF ChildFollows
<1>3. CASE TtGoto("loop")
  <2>1. /\ tt_child'.pc = "loop" /\ tt_child'.is_exec = tt_child.is_exec
        /\ tt_child'.entry = tt_child.entry
    BY <1>1, <1>3 DEF TtGoto, TtTypeOK
  <2>2. TtTypeOK'
    BY <1>1, <1>3 DEF TtGoto, TtTypeOK, TtChildPcs
  <2>3. ASSUME NEW P, Tallied(P) PROVE Tallied(P)'
    BY <1>1, <1>2, <2>1, <2>3 DEF Tallied, Known, Here, Unfailed, Sums
  <2>4. ChildFollows'
    BY <1>1, <2>1, <2>3 DEF ChildFollows
  <2>5. ReportsFollow'
    BY <1>2, <2>1 DEF ReportsFollow, Reported
  <2>. QED  BY <1>1, <2>1, <2>2, <2>4, <2>5, ChildStepKeeps
<1>4. CASE TtExits(TT_ERRNO) /\ tt_failed' = tt_failed \cup {"execve"}
  <2>1. /\ tt_child'.pc = "dead" /\ tt_child'.wstatus = 5
    BY <1>1, <1>4 DEF TtExits, TtTypeOK, TT_ERRNO
  <2>2. TtTypeOK'
    BY <1>1, <1>4 DEF TtExits, TtTypeOK, TtChildPcs, TT_ERRNO
  <2>3. ChildFollows' /\ ReportsFollow'
    BY <1>4, <2>1 DEF ChildFollows, ReportsFollow, Reported
  <2>. QED  BY <1>1, <2>1, <2>2, <2>3, ChildStepKeeps
<1>. QED  BY <1>3, <1>4 DEF TtExec

LEMMA TtCallKeeps == TtIInv /\ TtCall => TtIInv'
<1>. SUFFICES ASSUME TtIInv, TtCall PROVE TtIInv'
  OBVIOUS
<1>1. /\ TtTypeOK /\ ChildFollows /\ tt_child.pc = "loop"
      /\ tt_child.entry <= Len(TtTests)
      /\ UNCHANGED <<tt_parent, tt_points, tt_fail, tt_pipe, tt_failed>>
  BY DEF TtIInv, TtCall
<1>2. /\ tt_child'.pc = "test" /\ tt_child'.is_exec = tt_child.is_exec
      /\ tt_child'.entry = tt_child.entry /\ tt_child'.at = 0 /\ tt_child'.ret = 0
  BY <1>1 DEF TtCall, TtTypeOK
<1>3. TtTypeOK'
  BY <1>1 DEF TtCall, TtTypeOK, TtChildPcs
<1>4. ASSUME NEW P, Tallied(P) PROVE Tallied(P)'
  BY <1>1, <1>2, <1>4 DEF Tallied, Known, Here, Unfailed, Sums
<1>5. ChildFollows'
  BY <1>1, <1>2, <1>4, TtFields, TtTestsAreNat DEF ChildFollows
<1>6. ReportsFollow'
  BY <1>2 DEF ReportsFollow, Reported
<1>. QED  BY <1>1, <1>2, <1>3, <1>5, <1>6, ChildStepKeeps

LEMMA TtAssertKeeps == TtIInv /\ TtAssert => TtIInv'
<1>. SUFFICES ASSUME TtIInv, TtAssert PROVE TtIInv'
  OBVIOUS
<1>1. /\ TtTypeOK /\ ChildFollows /\ tt_child.pc = "test"
      /\ tt_child.at < TtTests[tt_child.entry]
      /\ UNCHANGED <<tt_parent, tt_fail, tt_pipe, tt_failed>>
  BY DEF TtIInv, TtAssert
<1>2. /\ tt_child'.pc = "test" /\ tt_child'.is_exec = tt_child.is_exec
      /\ tt_child'.entry = tt_child.entry /\ tt_child'.at = tt_child.at + 1
      /\ tt_child'.ret \in {tt_child.ret, 1}
  BY <1>1 DEF TtAssert, TtCount, TtCheck, TtTypeOK
<1>3. \/ /\ ~tt_child.is_exec /\ tt_child'.ret = tt_child.ret
         /\ tt_points'.total_point = tt_points.total_point + 1
         /\ tt_points'.point = tt_points.point
      \/ /\ tt_child.is_exec /\ tt_points'.total_point = tt_points.total_point
         /\ \/ tt_points'.point = tt_points.point + 1
            \/ tt_points'.point = tt_points.point /\ tt_child'.ret = 1
  BY <1>1 DEF TtAssert, TtCount, TtCheck, TtTypeOK, TtPoints
<1>4. TtTypeOK'
  <2>1. tt_points' \in TtPoints
    <3>1. tt_points \in TtPoints
      BY <1>1 DEF TtTypeOK
    <3>2. /\ [tt_points EXCEPT !.total_point = @ + 1] \in TtPoints
          /\ [tt_points EXCEPT !.point = @ + 1] \in TtPoints
      BY <3>1 DEF TtPoints
    <3>3. \/ tt_points' = [tt_points EXCEPT !.total_point = @ + 1]
          \/ tt_points' = [tt_points EXCEPT !.point = @ + 1]
          \/ tt_points' = tt_points
      BY DEF TtAssert, TtCount, TtCheck
    <3>. QED  BY <3>1, <3>2, <3>3
  <2>2. tt_child.at + 1 \in Nat
    BY <1>1 DEF TtTypeOK
  <2>3. tt_child' \in [pc : TtChildPcs, is_exec : BOOLEAN, entry : 1 .. Len(TtTests) + 1,
                       at : Nat, ret : {0, 1}, wstatus : Nat]
    BY <1>1, <2>2 DEF TtAssert, TtCount, TtCheck, TtTypeOK
  <2>. QED  BY <1>1, <2>1, <2>3 DEF TtTypeOK
<1>5. tt_child.entry <= Len(TtTests) /\ tt_child.entry \in 1 .. Len(TtTests)
      /\ TtTests[tt_child.entry] \in Nat /\ tt_child.at \in Nat
  BY <1>1, TtFields, TtTestsAreNat DEF ChildFollows
<1>6. ASSUME NEW P, Tallied(P) PROVE Tallied(P)'
  <2>1. Sums(P, Known) /\ Known' = Known
    BY <1>2, <1>6 DEF Tallied, Known
  <2>2. Sums(P, Known)'
    BY <2>1 DEF Sums
  <2>3. P[Known] \in Nat /\ P[tt_child.entry - 1] \in Nat
    <3>1. Known \in 0 .. Known /\ tt_child.entry - 1 \in 0 .. Known
      BY <1>5, TtTestsAreNat DEF Known
    <3>. QED  BY <2>1, <3>1 DEF Sums
  <2>4. Here = tt_child.at /\ Here' = tt_child.at + 1
    BY <1>1, <1>2 DEF Here
  <2>5. tt_points'.total_point = P[Known] + (IF tt_child.is_exec THEN 0 ELSE Here')
    <3>1. tt_points.total_point = P[Known] + (IF tt_child.is_exec THEN 0 ELSE Here)
      BY <1>6 DEF Tallied
    <3>2. CASE tt_child.is_exec
      BY <1>3, <3>1, <3>2, Zenon
    <3>3. CASE ~tt_child.is_exec
      <4>1. tt_points.total_point = P[Known] + tt_child.at
        BY <2>4, <3>1, <3>3, Zenon
      <4>2. (P[Known] + tt_child.at) + 1 = P[Known] + (tt_child.at + 1)
        BY <1>5, <2>3
      <4>. QED  BY <1>3, <2>4, <3>3, <4>1, <4>2, Zenon
    <3>. QED  BY <3>2, <3>3
  <2>6. Unfailed' => Unfailed /\ tt_points'.point = tt_points.point + 1
    BY <1>1, <1>2, <1>3 DEF Unfailed
  <2>7. Unfailed' => tt_points'.point = P[tt_child.entry - 1] + Here'
    <3>1. Unfailed => tt_points.point = P[tt_child.entry - 1] + Here
      BY <1>6 DEF Tallied
    <3>2. (P[tt_child.entry - 1] + tt_child.at) + 1 = P[tt_child.entry - 1] + (tt_child.at + 1)
      <4>1. \A a, b \in Nat : (a + b) + 1 = a + (b + 1)
        OBVIOUS
      <4>. QED  BY <1>5, <2>3, <4>1, Zenon
    <3>. QED  BY <2>4, <2>6, <3>1, <3>2
  <2>8. ~tt_child.is_exec => tt_points'.point = 0
    BY <1>3, <1>6 DEF Tallied
  <2>. QED  BY <1>2, <2>1, <2>2, <2>5, <2>7, <2>8 DEF Tallied
<1>7. ChildFollows'
  <2>1. tt_child'.at <= TtTests[tt_child.entry]
    BY <1>1, <1>2, <1>5
  <2>. QED  BY <1>1, <1>2, <1>5, <1>6, <2>1 DEF ChildFollows
<1>8. ReportsFollow'
  BY <1>2 DEF ReportsFollow, Reported
<1>. QED  BY <1>1, <1>2, <1>4, <1>7, <1>8, ChildStepKeeps

LEMMA TtReturnKeeps == TtIInv /\ TtReturn => TtIInv'
<1>. SUFFICES ASSUME TtIInv, TtReturn PROVE TtIInv'
  OBVIOUS
<1>1. /\ TtTypeOK /\ ChildFollows /\ tt_child.pc = "test"
      /\ tt_child.at = TtTests[tt_child.entry] /\ tt_fail' = Failure
      /\ UNCHANGED <<tt_parent, tt_points, tt_pipe, tt_failed>>
  BY DEF TtIInv, TtReturn
<1>2. /\ tt_child'.pc = "report" /\ tt_child'.is_exec = tt_child.is_exec
      /\ tt_child'.entry = tt_child.entry /\ tt_child'.at = tt_child.at
  BY <1>1 DEF TtReturn, TtGoto, TtTypeOK
<1>3. TtTypeOK'
  BY <1>1 DEF TtReturn, TtGoto, TtTypeOK, TtChildPcs, Failure
<1>4. Unfailed' => Unfailed
  BY <1>1, <1>2, TtFields DEF Unfailed, Failure
<1>5. ASSUME NEW P, Tallied(P) PROVE Tallied(P)'
  BY <1>1, <1>2, <1>4, <1>5 DEF Tallied, Known, Here, Sums
<1>6. ChildFollows'
  BY <1>1, <1>2, <1>5 DEF ChildFollows
<1>7. ReportsFollow'
  BY <1>2 DEF ReportsFollow, Reported
<1>. QED  BY <1>1, <1>2, <1>3, <1>6, <1>7, ChildStepKeeps

(* The report is the last one in the pipe, or it is lost. *)
LEMMA TtWriteAppends ==
    ASSUME TtTypeOK, TtWrite, tt_parent' = tt_parent, tt_points' = tt_points
    PROVE  /\ tt_pipe' \in TtPipeState
           /\ ~tt_pipe'.lost => LastPoints' = tt_points'
<1>1. tt_points \in TtPoints /\ tt_pipe.reports \in Seq(TtPoints)
  BY TtFields DEF TtTypeOK
<1>2. CASE TtWritten
  <2>1. PICK s : s = Append(tt_pipe.reports, tt_points)
    OBVIOUS
  <2>2. s # <<>> /\ s \in Seq(TtPoints) /\ s[Len(s)] = tt_points
    <3>1. ASSUME NEW r \in Seq(TtPoints), NEW p \in TtPoints
          PROVE  /\ Append(r, p) # <<>> /\ Append(r, p) \in Seq(TtPoints)
                 /\ Append(r, p)[Len(Append(r, p))] = p
      OBVIOUS
    <3>. QED  BY <1>1, <2>1, <3>1, Zenon
  <2>3. tt_pipe' = [tt_pipe EXCEPT !.reports = s, !.lost = FALSE]
    BY <1>2, <2>1 DEF TtWritten
  <2>4. tt_pipe' \in TtPipeState /\ tt_pipe'.reports = s
    BY <2>2, <2>3 DEF TtTypeOK, TtPipeState
  <2>. QED  BY <2>2, <2>4 DEF LastPoints
<1>3. CASE TtWriteFails
  BY <1>3 DEF TtWriteFails, TtTypeOK, TtPipeState
<1>. QED  BY <1>2, <1>3 DEF TtWrite

LEMMA TtReportKeeps == TtIInv /\ TtReport => TtIInv'
<1>. SUFFICES ASSUME TtIInv, TtReport PROVE TtIInv'
  OBVIOUS
<1>1. /\ TtTypeOK /\ ChildFollows /\ tt_child.pc = "report" /\ TtWrite
      /\ UNCHANGED <<tt_parent, tt_points, tt_fail>>
  BY DEF TtIInv, TtReport
<1>2. /\ tt_child'.pc = "loop" /\ tt_child'.is_exec = tt_child.is_exec
      /\ tt_child'.entry = tt_child.entry + 1
  BY <1>1 DEF TtReport, TtTypeOK
<1>3. /\ tt_child.entry \in 1 .. Len(TtTests) /\ tt_child.at = TtTests[tt_child.entry]
      /\ TtTests[tt_child.entry] \in Nat
  BY <1>1, TtFields, TtTestsAreNat DEF ChildFollows
<1>4. TtTypeOK'
  <2>1. tt_pipe' \in TtPipeState
    BY <1>1, TtWriteAppends
  <2>2. tt_child.entry + 1 \in 1 .. Len(TtTests) + 1
    BY <1>3, TtTestsAreNat
  <2>3. tt_child' \in [pc : TtChildPcs, is_exec : BOOLEAN, entry : 1 .. Len(TtTests) + 1,
                       at : Nat, ret : {0, 1}, wstatus : Nat]
    BY <1>1, <2>2 DEF TtReport, TtTypeOK, TtChildPcs
  <2>. QED  BY <1>1, <2>1, <2>3 DEF TtTypeOK
<1>5. Unfailed' = Unfailed /\ Here = tt_child.at /\ Here' = 0
  BY <1>1, <1>2 DEF Unfailed, Here
<1>6. PICK P : Tallied(P)
  BY <1>1 DEF ChildFollows
<1>7. \E Q : Tallied(Q)'
  <2>1. CASE tt_child.is_exec
    <3>1. Known = Len(TtTests) /\ Known' = Known /\ Sums(P, Known)
      BY <1>2, <1>6, <2>1 DEF Known, Tallied
    <3>2. /\ P[tt_child.entry] = P[tt_child.entry - 1] + tt_child.at
          /\ P[tt_child.entry] \in Nat /\ P[Known] \in Nat
      <4>1. /\ P \in [0 .. Len(TtTests) -> Nat]
            /\ \A i \in 1 .. Len(TtTests) : P[i] = P[i - 1] + TtTests[i]
        BY <3>1, Zenon DEF Sums
      <4>2. tt_child.entry \in 0 .. Len(TtTests) /\ Len(TtTests) \in 0 .. Len(TtTests)
        BY <1>3, TtTestsAreNat
      <4>. QED  BY <1>3, <3>1, <4>1, <4>2, Zenon
    <3>3. tt_child'.entry - 1 = tt_child.entry
      BY <1>2, <1>3
    <3>4. Tallied(P)'
      BY <1>1, <1>2, <1>5, <1>6, <2>1, <3>1, <3>2, <3>3 DEF Tallied, Sums
    <3>. QED  BY <3>4
  <2>2. CASE ~tt_child.is_exec
    <3>1. PICK e \in 1 .. Len(TtTests) : e = tt_child.entry
      BY <1>3
    <3>2. Known = e - 1 /\ Known' = e /\ tt_child'.entry - 1 = e /\ e - 1 \in 0 .. e - 1
      BY <1>2, <2>2, <3>1, TtTestsAreNat DEF Known
    <3>3. /\ P \in [0 .. e - 1 -> Nat] /\ P[0] = 0
          /\ \A i \in 1 .. e - 1 : P[i] = P[i - 1] + TtTests[i]
      BY <1>6, <3>2, Zenon DEF Tallied, Sums
    <3>4. P[e - 1] \in Nat /\ TtTests[e] \in Nat /\ P[e - 1] + TtTests[e] \in Nat
      BY <3>2, <3>3, TtTestsAreNat
    <3>5. PICK Q : Q = [i \in 0 .. e |-> IF i = e THEN P[e - 1] + TtTests[e] ELSE P[i]]
      OBVIOUS
    <3>6. Q \in [0 .. e -> Nat] /\ Q[0] = 0 /\ Q[e] = P[e - 1] + TtTests[e]
      BY <3>1, <3>3, <3>4, <3>5, TtTestsAreNat
    <3>7. ASSUME NEW i \in 1 .. e PROVE Q[i] = Q[i - 1] + TtTests[i]
      <4>1. e \in Nat /\ i - 1 \in 0 .. e /\ i - 1 # e
        BY <3>1, TtTestsAreNat
      <4>2. Q[i - 1] = P[i - 1]
        BY <3>5, <4>1
      <4>3. CASE i = e
        BY <3>6, <4>2, <4>3
      <4>4. CASE i \in 1 .. e - 1
        <5>1. Q[i] = P[i]
          BY <3>5, <4>1, <4>4
        <5>. QED  BY <3>3, <4>2, <4>4, <5>1
      <4>. QED  BY <4>1, <4>3, <4>4
    <3>8. Sums(Q, Known)'
      BY <3>2, <3>6, <3>7 DEF Sums
    <3>9. tt_points'.total_point = Q[e] + 0
      <4>1. tt_points.total_point = P[e - 1] + tt_child.at
        BY <1>5, <1>6, <2>2, <3>2 DEF Tallied
      <4>. QED  BY <1>1, <1>3, <3>1, <3>4, <3>6, <4>1
    <3>10. tt_points'.point = 0 /\ ~Unfailed'
      BY <1>1, <1>5, <1>6, <2>2 DEF Tallied, Unfailed
    <3>11. Tallied(Q)'
      BY <1>2, <1>5, <2>2, <3>2, <3>8, <3>9, <3>10 DEF Tallied
    <3>. QED  BY <3>11
  <2>. QED  BY <2>1, <2>2
<1>8. ChildFollows'
  BY <1>2, <1>7 DEF ChildFollows
<1>9. ReportsFollow'
  BY <1>1, TtWriteAppends DEF ReportsFollow
<1>. QED  BY <1>1, <1>2, <1>4, <1>8, <1>9, ChildStepKeeps

LEMMA TtExitsTyped ==
    ASSUME TtTypeOK, NEW status \in Nat, TtExits(status),
           UNCHANGED <<tt_parent, tt_points, tt_fail, tt_pipe>>
    PROVE  TtTypeOK'
  BY DEF TtExits, TtTypeOK, TtChildPcs

LEMMA TtPassEndsKeeps == TtTests # <<>> /\ TtIInv /\ TtPassEnds => TtIInv'
<1>. SUFFICES ASSUME TtTests # <<>>, TtIInv, TtPassEnds PROVE TtIInv'
  OBVIOUS
<1>1. /\ TtTypeOK /\ ChildFollows /\ ReportsFollow /\ tt_child.pc = "loop"
      /\ tt_child.entry > Len(TtTests)
      /\ UNCHANGED <<tt_parent, tt_points, tt_fail, tt_pipe, tt_failed>>
  BY DEF TtIInv, TtPassEnds
<1>2. /\ Len(TtTests) \in Nat /\ Len(TtTests) > 0
      /\ tt_child.entry = Len(TtTests) + 1 /\ tt_child.entry > 1
      /\ tt_child.entry - 1 = Len(TtTests)
  <2>1. Len(TtTests) \in Nat /\ Len(TtTests) > 0
    BY TtTestsAreNat, EmptySeq
  <2>2. tt_child.entry \in 1 .. Len(TtTests) + 1
    BY <1>1, TtFields
  <2>. QED  BY <1>1, <2>1, <2>2
<1>3. ~tt_pipe'.lost => LastPoints' = tt_points'
  BY <1>1, <1>2 DEF ReportsFollow, Reported, LastPoints
<1>4. PICK P : Tallied(P)
  BY <1>1 DEF ChildFollows
<1>5. Known = Len(TtTests) /\ Here = 0
  BY <1>1, <1>2 DEF Known, Here
<1>6. Sums(P, Len(TtTests)) /\ P[0] = 0 /\ P[Len(TtTests)] \in Nat
  BY <1>2, <1>4, <1>5 DEF Tallied, Sums
<1>7. tt_points.total_point = P[Len(TtTests)]
  BY <1>4, <1>5, <1>6 DEF Tallied
<1>8. CASE /\ ~tt_child.is_exec
           /\ tt_child' = [tt_child EXCEPT !.is_exec = TRUE, !.entry = 1]
  <2>1. tt_child'.pc = "loop" /\ tt_child'.is_exec /\ tt_child'.entry = 1
    BY <1>1, <1>8 DEF TtTypeOK
  <2>2. TtTypeOK'
    <3>1. 1 \in 1 .. Len(TtTests) + 1
      BY <1>2
    <3>. QED  BY <1>1, <1>8, <3>1 DEF TtTypeOK
  <2>3. tt_points.point = 0
    BY <1>4, <1>8 DEF Tallied
  <2>4. Tallied(P)'
    <3>1. Known' = Len(TtTests) /\ Here' = 0 /\ tt_child'.entry - 1 = 0
      BY <2>1 DEF Known, Here
    <3>2. Sums(P, Known)'
      BY <1>6, <3>1 DEF Sums
    <3>3. tt_points'.total_point = P[Known'] + 0 /\ tt_points'.point = P[0] + 0
      BY <1>1, <1>6, <1>7, <2>3, <3>1
    <3>. QED  BY <2>1, <3>1, <3>2, <3>3 DEF Tallied
  <2>5. ChildFollows'
    BY <2>1, <2>4 DEF ChildFollows
  <2>. QED  BY <1>1, <1>3, <2>1, <2>2, <2>5, ChildStepKeeps DEF ReportsFollow
<1>9. ASSUME tt_child.is_exec,
             NEW status \in {IF tt_fail THEN 1 ELSE 0, TT_VALGRIND}, TtExits(status)
      PROVE  TtIInv'
  <2>1. /\ tt_child'.pc = "dead" /\ tt_child'.wstatus = status
        /\ tt_child'.is_exec = tt_child.is_exec /\ tt_child'.entry = tt_child.entry
    BY <1>1, <1>9 DEF TtExits, TtTypeOK
  <2>2. TtTypeOK'
    <3>1. status \in Nat
      BY <1>9 DEF TT_VALGRIND
    <3>. QED  BY <1>1, <1>9, <3>1, TtExitsTyped
  <2>3. status = 0 => tt_points.point = tt_points.total_point
    <3>1. status = 0 => Unfailed
      BY <1>1, <1>9, TtFields DEF Unfailed, TT_VALGRIND
    <3>2. Unfailed => tt_points.point = P[Len(TtTests)] + 0
      BY <1>2, <1>4, <1>5 DEF Tallied
    <3>. QED  BY <1>6, <1>7, <3>1, <3>2
  <2>4. ChildFollows'
    BY <1>1, <1>9, <2>1, <2>3 DEF ChildFollows, AllRan
  <2>. QED  BY <1>1, <1>3, <2>1, <2>2, <2>4, ChildStepKeeps DEF ReportsFollow
<1>. QED  BY <1>1, <1>8, <1>9 DEF TtPassEnds

(* A signal, its handler, and an end from outside. *)
LEMMA TtPanicKeeps == TtIInv /\ TtPanic => TtIInv'
<1>. SUFFICES ASSUME TtIInv, TtPanic PROVE TtIInv'
  OBVIOUS
<1>1. /\ TtTypeOK /\ tt_child.pc = "test"
      /\ UNCHANGED <<tt_parent, tt_points, tt_fail, tt_pipe, tt_failed>>
  BY DEF TtIInv, TtPanic
<1>2. tt_child'.pc = "handler"
  BY <1>1 DEF TtPanic, TtGoto, TtTypeOK
<1>3. TtTypeOK'
  BY <1>1 DEF TtPanic, TtGoto, TtTypeOK, TtChildPcs
<1>4. ChildFollows' /\ ReportsFollow'
  BY <1>2 DEF ChildFollows, ReportsFollow, Reported
<1>. QED  BY <1>1, <1>2, <1>3, <1>4, ChildStepKeeps

LEMMA TtHandlerKeeps == TtIInv /\ TtHandler => TtIInv'
<1>. SUFFICES ASSUME TtIInv, TtHandler PROVE TtIInv'
  OBVIOUS
<1>1. /\ TtTypeOK /\ tt_child.pc = "handler" /\ TtWrite
      /\ UNCHANGED <<tt_parent, tt_points, tt_fail>>
  BY DEF TtIInv, TtHandler
<1>2. tt_child'.pc = "raise"
  BY <1>1 DEF TtHandler, TtGoto, TtTypeOK
<1>3. TtTypeOK'
  BY <1>1, TtWriteAppends DEF TtHandler, TtGoto, TtTypeOK, TtChildPcs
<1>4. ChildFollows' /\ ReportsFollow'
  BY <1>1, <1>2, TtWriteAppends DEF ChildFollows, ReportsFollow
<1>. QED  BY <1>1, <1>2, <1>3, <1>4, ChildStepKeeps

LEMMA TtRaiseKeeps == TtIInv /\ TtRaise => TtIInv'
<1>. SUFFICES ASSUME TtIInv, TtRaise PROVE TtIInv'
  OBVIOUS
<1>1. /\ TtTypeOK /\ ReportsFollow /\ tt_child.pc = "raise"
      /\ UNCHANGED <<tt_parent, tt_points, tt_fail, tt_pipe, tt_failed>>
  BY DEF TtIInv, TtRaise
<1>2. PICK status \in {1, TT_VALGRIND} : TtExits(status)
  BY DEF TtRaise
<1>3. tt_child'.pc = "dead" /\ tt_child'.wstatus # 0
  BY <1>1, <1>2 DEF TtExits, TtTypeOK, TT_VALGRIND
<1>4. TtTypeOK'
  BY <1>1, <1>2, TtExitsTyped DEF TT_VALGRIND
<1>5. ChildFollows' /\ ReportsFollow'
  BY <1>1, <1>3 DEF ChildFollows, ReportsFollow, Reported, LastPoints
<1>. QED  BY <1>1, <1>3, <1>4, <1>5, ChildStepKeeps

LEMMA TtKilledKeeps == TtIInv /\ TtKilled => TtIInv'
<1>. SUFFICES ASSUME TtIInv, TtKilled PROVE TtIInv'
  OBVIOUS
<1>1. /\ TtTypeOK /\ tt_child.pc \notin {"none", "dead"} /\ TtExits(TT_KILLED)
      /\ UNCHANGED <<tt_parent, tt_points, tt_fail, tt_pipe, tt_failed>>
  BY DEF TtIInv, TtKilled
<1>2. tt_child'.pc = "dead" /\ tt_child'.wstatus = TT_KILLED
  BY <1>1 DEF TtExits, TtTypeOK
<1>3. TtTypeOK'
  BY <1>1, TtExitsTyped DEF TT_KILLED
<1>4. ChildFollows' /\ ReportsFollow'
  BY <1>2 DEF ChildFollows, ReportsFollow, Reported, TT_KILLED
<1>. QED  BY <1>1, <1>2, <1>3, <1>4, ChildStepKeeps

(* Steps of the parent leave the child's side as it is. *)
LEMMA ChildStays ==
    ASSUME ChildFollows, UNCHANGED <<tt_child, tt_points, tt_fail>>
    PROVE  ChildFollows'
<1>1. \A P : Tallied(P) => Tallied(P)'
  BY DEF Tallied, Known, Here, Unfailed, Sums
<1>. QED  BY <1>1 DEF ChildFollows, AllRan

LEMMA TtMainKeeps == TtIInv /\ TtMain => TtIInv'
<1>. SUFFICES ASSUME TtIInv, TtMain PROVE TtIInv'
  OBVIOUS
<1>1. /\ TtTypeOK /\ ChildFollows /\ tt_parent.pc = "start"
      /\ UNCHANGED <<tt_points, tt_fail>>
  BY DEF TtIInv, TtMain
<1>2. /\ tt_parent.shown = <<>> /\ tt_parent.status = -1 /\ tt_child.pc = "none"
      /\ tt_child.is_exec = FALSE /\ tt_child.entry = 1
  BY <1>1, TtFields DEF TtIInv, ParentFollows, ChildFollows
<1>3. CASE \E status \in {TT_EINVAL, TT_ERRNO, TT_CRASH} :
              TtDone(status) /\ UNCHANGED <<tt_child, tt_pipe>>
  <2>1. PICK status \in {22, 5, 139} : TtDone(status) /\ UNCHANGED <<tt_child, tt_pipe>>
    BY <1>3 DEF TT_EINVAL, TT_ERRNO, TT_CRASH
  <2>2. /\ tt_parent'.pc = "done" /\ tt_parent'.shown = <<>> /\ tt_parent'.status # 0
    BY <1>1, <1>2, <2>1 DEF TtDone, TtTypeOK
  <2>3. TtTypeOK'
    <3>1. status \in Int
      OBVIOUS
    <3>. QED  BY <1>1, <2>1, <3>1 DEF TtDone, TtTypeOK, TtParentPcs
  <2>4. ChildFollows'
    BY <1>1, <2>1, ChildStays
  <2>5. ReportsFollow' /\ ParentFollows'
    BY <1>2, <2>1, <2>2 DEF ReportsFollow, Reported, ParentFollows
  <2>6. TeatestGreenIsEarned' /\ TeatestReportIsTruthful'
    BY <2>2 DEF TeatestGreenIsEarned, TeatestReportIsTruthful
  <2>. QED  BY <2>3, <2>4, <2>5, <2>6 DEF TtIInv
<1>4. ASSUME NEW size \in TtPipes, TtGoto("exec"),
             tt_parent' = [tt_parent EXCEPT !.pc = "wait"],
             tt_pipe' = [tt_pipe EXCEPT !.size = size]
      PROVE  TtIInv'
  <2>1. /\ tt_child'.pc = "exec" /\ tt_child'.is_exec = tt_child.is_exec
        /\ tt_child'.entry = tt_child.entry
        /\ tt_parent'.pc = "wait" /\ tt_parent'.shown = <<>> /\ tt_parent'.status = -1
    BY <1>1, <1>2, <1>4 DEF TtGoto, TtTypeOK
  <2>2. TtTypeOK'
    <3>1. tt_pipe' \in TtPipeState
      BY <1>1, <1>4 DEF TtTypeOK, TtPipeState
    <3>. QED  BY <1>1, <1>4, <3>1 DEF TtGoto, TtTypeOK, TtParentPcs, TtChildPcs
  <2>3. ASSUME NEW P, Tallied(P) PROVE Tallied(P)'
    BY <1>1, <1>2, <2>1, <2>3 DEF Tallied, Known, Here, Unfailed, Sums
  <2>4. ChildFollows'
    BY <1>1, <1>2, <2>1, <2>3 DEF ChildFollows
  <2>5. ReportsFollow' /\ ParentFollows'
    BY <2>1 DEF ReportsFollow, Reported, ParentFollows
  <2>6. TeatestGreenIsEarned' /\ TeatestReportIsTruthful'
    BY <2>1 DEF TeatestGreenIsEarned, TeatestReportIsTruthful
  <2>. QED  BY <2>2, <2>4, <2>5, <2>6 DEF TtIInv
<1>. QED  BY <1>3, <1>4 DEF TtMain

LEMMA TtWaitKeeps == TtIInv /\ TtWait => TtIInv'
<1>. SUFFICES ASSUME TtIInv, TtWait PROVE TtIInv'
  OBVIOUS
<1>1. /\ TtTypeOK /\ ChildFollows /\ ReportsFollow /\ tt_parent.pc = "wait"
      /\ tt_child.pc = "dead" /\ UNCHANGED <<tt_child, tt_points, tt_fail, tt_pipe>>
      /\ tt_parent.shown = <<>> /\ tt_parent.status = -1
  BY DEF TtIInv, ParentFollows, TtWait
<1>2. tt_failed' \in {tt_failed, tt_failed \cup {"wait"}}
  BY DEF TtWait
<1>3. /\ tt_parent'.buf = tt_parent.buf /\ tt_parent'.shown = <<>>
      /\ tt_parent'.status # 0 /\ tt_parent' \in [pc : TtParentPcs, exit_code : Nat,
             buf : TtPoints \cup {Garbage}, shown : Seq(TtPoints \cup {Garbage}), status : Int]
      /\ \/ tt_parent'.pc = "done"
         \/ /\ tt_parent'.pc = "drain" /\ tt_parent'.status = -1
            /\ tt_child.wstatus # TT_KILLED /\ tt_parent'.exit_code = tt_child.wstatus
  <2>1. CASE TtDone(255)
    <3>1. 255 \in Int
      OBVIOUS
    <3>2. /\ tt_parent'.buf = tt_parent.buf /\ tt_parent'.shown = <<>>
          /\ tt_parent'.status = 255 /\ tt_parent'.pc = "done"
      BY <1>1, <2>1 DEF TtDone, TtTypeOK
    <3>3. tt_parent' \in [pc : TtParentPcs, exit_code : Nat, buf : TtPoints \cup {Garbage},
                         shown : Seq(TtPoints \cup {Garbage}), status : Int]
      BY <1>1, <2>1, <3>1 DEF TtDone, TtTypeOK, TtParentPcs
    <3>. QED  BY <3>2, <3>3
  <2>2. CASE /\ tt_child.wstatus # TT_KILLED
             /\ tt_parent' = [tt_parent EXCEPT !.pc = "drain", !.exit_code = tt_child.wstatus]
    <3>1. tt_child.wstatus \in Nat
      BY <1>1, TtFields
    <3>2. /\ tt_parent'.buf = tt_parent.buf /\ tt_parent'.shown = <<>>
          /\ tt_parent'.status = -1 /\ tt_parent'.pc = "drain"
          /\ tt_parent'.exit_code = tt_child.wstatus
      BY <1>1, <2>2 DEF TtTypeOK
    <3>3. tt_parent' \in [pc : TtParentPcs, exit_code : Nat, buf : TtPoints \cup {Garbage},
                         shown : Seq(TtPoints \cup {Garbage}), status : Int]
      BY <1>1, <2>2, <3>1 DEF TtTypeOK, TtParentPcs
    <3>. QED  BY <2>2, <3>2, <3>3
  <2>. QED  BY <2>1, <2>2 DEF TtWait
<1>4. TtTypeOK' /\ ChildFollows'
  BY <1>1, <1>3, ChildStays DEF TtTypeOK
<1>5. ReportsFollow'
  BY <1>1, <1>2, <1>3 DEF ReportsFollow, Reported, LastPoints
<1>6. ParentFollows'
  BY <1>1, <1>3 DEF ParentFollows
<1>7. TeatestGreenIsEarned' /\ TeatestReportIsTruthful'
  BY <1>3 DEF TeatestGreenIsEarned, TeatestReportIsTruthful
<1>. QED  BY <1>4, <1>5, <1>6, <1>7 DEF TtIInv

LEMMA TtDrainKeeps == TtIInv /\ TtDrain => TtIInv'
<1>. SUFFICES ASSUME TtIInv, TtDrain PROVE TtIInv'
  OBVIOUS
<1>1. /\ TtTypeOK /\ ChildFollows /\ ReportsFollow /\ ParentFollows
      /\ tt_parent.pc = "drain" /\ tt_pipe.reports # <<>>
      /\ UNCHANGED <<tt_child, tt_points, tt_fail, tt_failed>>
  BY DEF TtIInv, TtDrain
<1>2. /\ tt_parent' = [tt_parent EXCEPT !.buf = Head(tt_pipe.reports)]
      /\ tt_pipe' = [tt_pipe EXCEPT !.reports = Tail(tt_pipe.reports)]
      /\ tt_parent'.buf = Head(tt_pipe.reports) /\ tt_pipe'.reports = Tail(tt_pipe.reports)
      /\ tt_parent'.pc = "drain" /\ tt_parent'.exit_code = tt_parent.exit_code
      /\ tt_parent'.shown = <<>> /\ tt_parent'.status = -1
  BY <1>1 DEF TtDrain, TtTypeOK, ParentFollows
<1>3. ASSUME NEW s \in Seq(TtPoints), s # <<>>
      PROVE  /\ Head(s) \in TtPoints /\ Tail(s) \in Seq(TtPoints)
             /\ (IF Tail(s) = <<>> THEN Head(s) ELSE Tail(s)[Len(Tail(s))]) = s[Len(s)]
  <2>1. /\ Head(s) = s[1] /\ Head(s) \in TtPoints /\ Tail(s) \in Seq(TtPoints)
        /\ Len(s) \in Nat /\ Len(s) > 0 /\ Len(Tail(s)) = Len(s) - 1
        /\ \A i \in 1 .. Len(s) - 1 : Tail(s)[i] = s[i + 1]
    BY <1>3
  <2>2. Tail(s) = <<>> <=> Len(Tail(s)) = 0
    <3>1. Len(<<>>) = 0
      OBVIOUS
    <3>2. Tail(s) # <<>> => Len(Tail(s)) # 0
      BY <2>1, EmptySeq
    <3>. QED  BY <3>1, <3>2
  <2>3. CASE Len(s) = 1
    <3>1. Tail(s) = <<>>
      BY <2>1, <2>3, <2>2
    <3>. QED  BY <2>1, <2>3, <3>1
  <2>4. CASE Len(s) > 1
    <3>1. Tail(s) # <<>>
      BY <2>1, <2>4, <2>2
    <3>2. Len(s) - 1 \in 1 .. Len(s) - 1 /\ (Len(s) - 1) + 1 = Len(s)
      BY <2>1, <2>4
    <3>. QED  BY <2>1, <3>1, <3>2
  <2>. QED  BY <2>1, <2>3, <2>4
<1>4. tt_pipe.reports \in Seq(TtPoints)
  BY <1>1, TtFields
<1>5. TtTypeOK' /\ ChildFollows'
  <2>1. /\ Head(tt_pipe.reports) \in TtPoints \cup {Garbage}
        /\ Tail(tt_pipe.reports) \in Seq(TtPoints)
    BY <1>1, <1>3, <1>4
  <2>. QED  BY <1>1, <1>2, <2>1, ChildStays DEF TtTypeOK, TtPipeState
<1>6. LastPoints' = LastPoints
  BY <1>1, <1>2, <1>3, <1>4, Zenon DEF LastPoints
<1>7. ReportsFollow' /\ ParentFollows'
  BY <1>1, <1>2, <1>6 DEF ReportsFollow, Reported, ParentFollows
<1>8. TeatestGreenIsEarned' /\ TeatestReportIsTruthful'
  BY <1>2 DEF TeatestGreenIsEarned, TeatestReportIsTruthful
<1>. QED  BY <1>5, <1>7, <1>8 DEF TtIInv

LEMMA TtDrainEndsKeeps == TtIInv /\ TtDrainEnds => TtIInv'
<1>. SUFFICES ASSUME TtIInv, TtDrainEnds PROVE TtIInv'
  OBVIOUS
<1>1. /\ TtTypeOK /\ ChildFollows /\ ReportsFollow /\ ParentFollows
      /\ tt_parent.pc = "drain" /\ UNCHANGED <<tt_child, tt_points, tt_fail, tt_pipe>>
  BY DEF TtIInv, TtDrainEnds
<1>2. \/ tt_pipe.reports = <<>> /\ tt_failed' = tt_failed
      \/ tt_failed' = tt_failed \cup {"read"}
  BY DEF TtDrainEnds
<1>3. /\ tt_parent'.pc = "print" /\ tt_parent'.exit_code = tt_parent.exit_code
      /\ tt_parent'.buf = tt_parent.buf /\ tt_parent'.shown = <<>> /\ tt_parent'.status = -1
  BY <1>1 DEF TtDrainEnds, TtTypeOK, ParentFollows
<1>4. TtTypeOK' /\ ChildFollows'
  BY <1>1, ChildStays DEF TtDrainEnds, TtTypeOK, TtParentPcs
<1>5. ReportsFollow' /\ ParentFollows'
  BY <1>1, <1>2, <1>3 DEF ReportsFollow, Reported, LastPoints, ParentFollows
<1>6. TeatestGreenIsEarned' /\ TeatestReportIsTruthful'
  BY <1>3 DEF TeatestGreenIsEarned, TeatestReportIsTruthful
<1>. QED  BY <1>4, <1>5, <1>6 DEF TtIInv

LEMMA TtPrintKeeps == TtIInv /\ TtPrint => TtIInv'
<1>. SUFFICES ASSUME TtIInv, TtPrint PROVE TtIInv'
  OBVIOUS
<1>1. /\ TtTypeOK /\ ChildFollows /\ ReportsFollow /\ ParentFollows
      /\ tt_parent.pc = "print"
      /\ UNCHANGED <<tt_child, tt_points, tt_fail, tt_pipe, tt_failed>>
  BY DEF TtIInv, TtPrint
<1>2. /\ tt_child.pc = "dead" /\ tt_child.wstatus # TT_KILLED
      /\ tt_parent.exit_code = tt_child.wstatus
      /\ "read" \notin tt_failed => tt_pipe.reports = <<>>
  BY <1>1 DEF ParentFollows
<1>3. /\ tt_parent'.pc = "done" /\ tt_parent'.buf = tt_parent.buf
      /\ tt_parent'.shown = <<tt_parent.buf>> /\ tt_parent'.status = tt_parent.exit_code
  BY <1>1 DEF TtPrint, TtTypeOK
<1>4. TtTypeOK' /\ ChildFollows'
  <2>1. /\ <<tt_parent.buf>> \in Seq(TtPoints \cup {Garbage})
        /\ tt_parent.exit_code \in Int
    BY <1>1, TtFields
  <2>2. TtTypeOK'
    BY <1>1, <2>1 DEF TtPrint, TtTypeOK, TtParentPcs
  <2>. QED  BY <1>1, <2>2, ChildStays
<1>5. ReportsFollow' /\ ParentFollows'
  BY <1>1, <1>2, <1>3 DEF ReportsFollow, Reported, LastPoints, ParentFollows
<1>6. TeatestGreenIsEarned'
  BY <1>1, <1>2, <1>3 DEF TeatestGreenIsEarned, ChildFollows, AllRan
<1>7. TeatestReportIsTruthful'
  <2>1. tt_failed \cap {"execve", "read"} = {} /\ ~tt_pipe.lost => tt_parent.buf = tt_points
    BY <1>1, <1>2 DEF ReportsFollow, Reported, LastPoints
  <2>. QED  BY <1>1, <1>3, <2>1 DEF TeatestReportIsTruthful
<1>. QED  BY <1>4, <1>5, <1>6, <1>7 DEF TtIInv

LEMMA TtStutters == TtIInv /\ UNCHANGED ttVars => TtIInv'
<1>. SUFFICES ASSUME TtIInv, UNCHANGED ttVars PROVE TtIInv'
  OBVIOUS
<1>. USE DEF ttVars
<1>1. ChildFollows'
  BY ChildStays DEF TtIInv
<1>. QED
  BY <1>1 DEF TtIInv, TtTypeOK, ReportsFollow, Reported, LastPoints, ParentFollows,
     TeatestGreenIsEarned, TeatestReportIsTruthful, AllRan

LEMMA TtStepKeeps == TtTests # <<>> /\ TtIInv /\ [TtNext]_ttVars => TtIInv'
<1>. SUFFICES ASSUME TtTests # <<>>, TtIInv, [TtNext]_ttVars PROVE TtIInv'
  OBVIOUS
<1>1. CASE TtChild
  BY <1>1, TtExecKeeps, TtCallKeeps, TtAssertKeeps, TtReturnKeeps, TtReportKeeps,
     TtPassEndsKeeps, TtPanicKeeps, TtHandlerKeeps, TtRaiseKeeps, Zenon DEF TtChild
<1>2. CASE TtParent
  BY <1>2, TtMainKeeps, TtWaitKeeps, TtDrainKeeps, TtDrainEndsKeeps, TtPrintKeeps, Zenon
     DEF TtParent
<1>3. CASE TtKilled
  BY <1>3, TtKilledKeeps
<1>4. CASE UNCHANGED ttVars
  BY <1>4, TtStutters
<1>. QED  BY <1>1, <1>2, <1>3, <1>4 DEF TtNext

LEMMA TtInvariant ==
    ASSUME TtTests # <<>>
    PROVE  TtSpec => []TtIInv
<1>1. TtIInv /\ [TtNext]_ttVars => TtIInv'
  BY TtStepKeeps
<1>. QED  BY <1>1, TtInitIsInductive, PTL DEF TtSpec

(* A zero exit status of the older framework is earned, for every suite    *)
(* and every pipe, whichever calls fail and wherever the child dies.       *)
THEOREM TeatestEarnsItsGreen ==
    ASSUME TtTests # <<>>
    PROVE  TtSpec => []TeatestGreenIsEarned
<1>1. TtIInv => TeatestGreenIsEarned
  BY DEF TtIInv
<1>. QED  BY <1>1, TtInvariant, PTL

(* Its summary shows the counters the child ended with, unless the execve, *)
(* the write of the last report or a read failed, for every suite that has *)
(* an entry: without one nothing is ever reported and the summary shows an *)
(* uninitialised buffer.                                                   *)
THEOREM TeatestTellsTheTruth ==
    ASSUME TtTests # <<>>
    PROVE  TtSpec => []TeatestReportIsTruthful
<1>1. TtIInv => TeatestReportIsTruthful
  BY DEF TtIInv
<1>. QED  BY <1>1, TtInvariant, PTL
=============================================================================
