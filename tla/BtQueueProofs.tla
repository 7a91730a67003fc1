---------------------------- MODULE BtQueueProofs ----------------------------
(***************************************************************************)
(* Proofs about BtQueue, for every set of addresses, payloads and          *)
(* capacities and for both builds.                                         *)
(***************************************************************************)
EXTENDS BtQueue, SequenceTheorems, FiniteSetTheorems, TLAPS

IInv == TypeOK /\ WellLinked

-----------------------------------------------------------------------------
(* The order of the queued nodes, and what the walks of the code meet.     *)

(* The walks never leave the queue: they meet queued nodes only. *)
LEMMA ReachIsQueued ==
    ASSUME TypeOK, NEW s, IsOrder(s), count = 0 => head = NULL
    PROVE  /\ Reach(head, next) \subseteq Queued
           /\ count # 0 => Reach(tail, prev) \subseteq Queued
<1>1. ClosedFrom(Queued, head, next)
  <2>1. head \in live => head \in Queued
    BY ConstantsAssumption DEF TypeOK, IsOrder, Queued
  <2>2. \A m \in Queued : next[m] \in live => next[m] \in Queued
    BY ConstantsAssumption DEF TypeOK, IsOrder, Queued
  <2>. QED  BY <2>1, <2>2 DEF ClosedFrom
<1>2. count # 0 => ClosedFrom(Queued, tail, prev)
  <2>1. count # 0 => tail \in Queued
    BY ConstantsAssumption DEF TypeOK, IsOrder, Queued
  <2>2. \A m \in Queued : prev[m] \in live => prev[m] \in Queued
    BY ConstantsAssumption DEF TypeOK, IsOrder, Queued
  <2>. QED  BY <2>1, <2>2 DEF ClosedFrom
<1>3. Queued \in SUBSET live
  BY DEF Queued
<1>. QED  BY <1>1, <1>2, <1>3 DEF Reach

(* A nonempty set of naturals has a least element. *)
LEMMA LeastNatural ==
    ASSUME NEW T \in SUBSET Nat, T # {}
    PROVE  \E m \in T : \A k \in T : m <= k
<1>. DEFINE Less == {ss \in Nat \X Nat : ss[1] < ss[2]}
<1>1. OpToRel(<, Nat) = Less
  BY Zenon DEF OpToRel
<1>2. IsWellFoundedOn(Less, Nat)
  BY <1>1, NatLessThanWellFounded, Zenon
<1>. HIDE DEF Less
<1>3. PICK m \in T : \A k \in T : ~ (<<k, m>> \in Less)
  BY <1>2, WFMin, Zenon
<1>4. \A k \in T : <<k, m>> \in Less <=> k < m
  BY DEF Less
<1>5. \A k \in T : ~ (k < m)
  BY <1>3, <1>4, Zenon
<1>6. \A k \in T : m <= k
  BY <1>5
<1>. QED  BY <1>6

(* The walk from the head meets every queued node: bt_queue_destroy frees  *)
(* them all and the scan of bt_qnode_detach misses none.                   *)
LEMMA ReachIsWhole ==
    ASSUME TypeOK, NEW s, IsOrder(s), count # 0
    PROVE  Reach(head, next) = Queued
<1>1. Reach(head, next) \subseteq Queued
  BY ReachIsQueued
<1>2. SUFFICES ASSUME NEW S \in SUBSET live, ClosedFrom(S, head, next)
               PROVE  Queued \subseteq S
  BY <1>1 DEF Reach, Queued
<1>. DEFINE T == {i \in 1 .. count : s[i] \notin S}
<1>3. T = {}
  <2>1. SUFFICES ASSUME T # {} PROVE FALSE
    OBVIOUS
  <2>2. T \in SUBSET Nat
    OBVIOUS
  <2>. HIDE DEF T
  <2>3. PICK m \in T : \A k \in T : m <= k
    BY <2>1, <2>2, LeastNatural
  <2>. USE DEF T
  <2>4. m # 1
    BY <1>2 DEF IsOrder, ClosedFrom, Queued, TypeOK
  <2>5. m - 1 \in 1 .. count /\ m \in 1 .. count /\ m - 1 \notin T
    BY <2>3, <2>4 DEF TypeOK
  <2>6. s[m - 1] \in S
    BY <2>5
  <2>7. next[s[m - 1]] = s[m] /\ s[m] \in live
    BY <2>5 DEF IsOrder, Queued, TypeOK
  <2>. QED  BY <1>2, <2>3, <2>6, <2>7 DEF ClosedFrom
<1>. QED  BY <1>3 DEF IsOrder

(* count is the number of queued nodes. *)
LEMMA QueuedCount ==
    ASSUME TypeOK, NEW s, IsOrder(s)
    PROVE  IsFiniteSet(Queued) /\ Cardinality(Queued) = count
<1>1. s \in Bijection(1 .. count, Queued)
  BY DEF IsOrder, Bijection, Injection, Surjection, IsInjective
<1>2. ExistsBijection(1 .. count, Queued)
  BY <1>1 DEF ExistsBijection
<1>3. IsFiniteSet(Queued)
  BY ConstantsAssumption, FS_Subset DEF TypeOK, Queued
<1>. QED  BY <1>2, <1>3, FS_CountingElements DEF TypeOK

(* Every detach that goes through takes a queued node, in both builds and  *)
(* whatever live node the caller passes.                                   *)
LEMMA DetachTakesQueued ==
    ASSUME IInv, NEW n \in live, DetachFault(n) = "none"
    PROVE  n \in Queued
<1>1. PICK s \in [1 .. count -> Queued] : IsOrder(s)
  BY DEF IInv, WellLinked, InOrder
<1>2. SUFFICES ASSUME n \in owned PROVE FALSE
  BY DEF Queued
<1>3. ScanFault(n) = "none" /\ BranchFault(n) = "none"
  BY DEF DetachFault
<1>4. next[n] \notin live /\ prev[n] \notin live
  BY <1>2, ConstantsAssumption DEF IInv, WellLinked, TypeOK, OutsideUnlinked, MayBeNull, Queued
<1>5. n # head
  BY <1>1, <1>2, ConstantsAssumption DEF IInv, WellLinked, TypeOK, IsOrder, Queued
<1>6. CASE n = tail
  BY <1>3, <1>4, <1>5, <1>6 DEF BranchFault
<1>7. CASE n # tail
  BY <1>3, <1>4, <1>5, <1>7 DEF BranchFault
<1>. QED  BY <1>6, <1>7

-----------------------------------------------------------------------------
(* The invariant is kept by every call.                                    *)

LEMMA InitIInv == Init => IInv
<1>. SUFFICES ASSUME Init PROVE IInv
  OBVIOUS
<1>1. TypeOK
  BY ConstantsAssumption DEF Init, TypeOK, Void
<1>2. IsOrder([i \in 1 .. count |-> NULL])
  BY DEF Init, IsOrder, Queued
<1>3. InOrder
  BY <1>2 DEF IsOrder, InOrder
<1>4. OutsideUnlinked
  BY DEF Init, OutsideUnlinked, MayBeNull
<1>5. WellLinked
  BY <1>3, <1>4, ConstantsAssumption DEF Init, WellLinked
<1>. QED  BY <1>1, <1>5 DEF IInv

(* A call that writes neither the structure nor a node keeps the order. *)
LEMMA UnchangedKeepsWellLinked ==
    ASSUME WellLinked, UNCHANGED <<queue, heap>>
    PROVE  WellLinked'
<1>1. Queued' = Queued
  BY DEF Queued, heap
<1>2. \A s : IsOrder(s) => IsOrder(s)'
  BY <1>1 DEF IsOrder, queue, heap
<1>3. InOrder'
  BY <1>1, <1>2 DEF WellLinked, InOrder, queue
<1>4. OutsideUnlinked'
  BY <1>1 DEF WellLinked, OutsideUnlinked, MayBeNull, heap
<1>. QED  BY <1>3, <1>4 DEF WellLinked, queue

(* A stopped process has changed nothing. *)
LEMMA AbortKeepsIInv ==
    ASSUME IInv, NEW why \in Checks, Abort(why)
    PROVE  IInv'
<1>1. TypeOK'
  BY DEF IInv, TypeOK, Abort, queue, heap
<1>2. WellLinked'
  BY UnchangedKeepsWellLinked DEF IInv, Abort
<1>. QED  BY <1>1, <1>2 DEF IInv

(* An emptied structure with no queued node is in order. *)
LEMMA EmptyIsWellLinked ==
    ASSUME head' = NULL, count' = 0, max_el' \in Nat, Queued' = {},
           OutsideUnlinked'
    PROVE  WellLinked'
<1>1. PICK s : s = [i \in 1 .. 0 |-> NULL]
  OBVIOUS
<1>2. IsOrder(s)'
  BY <1>1 DEF IsOrder
<1>3. InOrder'
  BY <1>2 DEF IsOrder, InOrder
<1>. QED  BY <1>3 DEF WellLinked

(* The new node follows the others. *)
LEMMA EnqueueOrder ==
    ASSUME IInv, NEW s, IsOrder(s), NEW d \in Data, NEW n \in Nodes \ live,
           LinkTail(n, d),
           NEW t, t = [i \in 1 .. count + 1 |-> IF i = count + 1 THEN n ELSE s[i]]
    PROVE  IsOrder(t)'
<1>1. head = NULL <=> count = 0
  BY ConstantsAssumption DEF IInv, WellLinked, TypeOK, IsOrder, Queued
<1>2. Queued' = Queued \cup {n} /\ n \notin Queued
  BY DEF LinkTail, Queued, IInv, TypeOK
<1>3. t \in [1 .. count' -> Queued']
  BY <1>2 DEF LinkTail, IInv, TypeOK, IsOrder
<1>4. \A i, j \in 1 .. count' : t[i] = t[j] => i = j
  BY <1>2 DEF LinkTail, IInv, TypeOK, IsOrder
<1>5. \A m \in Queued' : \E i \in 1 .. count' : t[i] = m
  BY <1>2 DEF LinkTail, IInv, TypeOK, IsOrder
<1>6. head' = t[1] /\ tail' = t[count']
  BY <1>1 DEF LinkTail, IInv, TypeOK, IsOrder
<1>7. \A i \in 1 .. count' :
          /\ next'[t[i]] = IF i = count' THEN NULL ELSE t[i + 1]
          /\ prev'[t[i]] = IF i = 1 THEN NULL ELSE t[i - 1]
  BY <1>1, <1>2 DEF LinkTail, IInv, TypeOK, IsOrder, Queued
<1>. QED  BY <1>3, <1>4, <1>5, <1>6, <1>7 DEF IsOrder

LEMMA EnqueueKeepsIInv ==
    ASSUME IInv, NEW d \in Data, Enqueue(d)
    PROVE  IInv'
<1>1. PICK n \in Nodes \ live :
         IF EnqueueFault # "none" THEN Abort(EnqueueFault) ELSE LinkTail(n, d)
  BY DEF Enqueue
<1>2. CASE EnqueueFault # "none"
  BY <1>1, <1>2, AbortKeepsIInv DEF EnqueueFault, Checks
<1>3. CASE EnqueueFault = "none"
  <2>1. PICK s \in [1 .. count -> Queued] : IsOrder(s)
    BY DEF IInv, WellLinked, InOrder
  <2>t. PICK t : t = [i \in 1 .. count + 1 |-> IF i = count + 1 THEN n ELSE s[i]]
    OBVIOUS
  <2>2. LinkTail(n, d) /\ count < max_el
    BY <1>1, <1>3 DEF Enqueue
  <2>3. TypeOK'
    <3>1. /\ next' \in [Nodes -> Nodes \cup {NULL, Garbage}]
          /\ prev' \in [Nodes -> Nodes \cup {NULL, Garbage}]
      BY <2>2 DEF IInv, TypeOK, LinkTail
    <3>2. /\ head' \in Nodes \cup {NULL} /\ tail' \in Nodes \cup {NULL}
          /\ count' \in Nat /\ max_el' \in MaxEls \cup {0}
          /\ data' \in [Nodes -> Data \cup {Garbage}]
          /\ live' \subseteq Nodes /\ owned' \subseteq live'
      BY <2>2 DEF IInv, TypeOK, LinkTail
    <3>3. /\ res' \in [node : Nodes \cup {NULL}, err : {"none", "EAGAIN", "ENOMEM"}]
          /\ crash' \in Checks \cup {"none"}
      BY <2>2 DEF IInv, TypeOK, LinkTail, Returns
    <3>. QED  BY <3>1, <3>2, <3>3 DEF TypeOK
  <2>4. head = NULL <=> count = 0
    BY <2>1, ConstantsAssumption DEF IInv, WellLinked, TypeOK, IsOrder, Queued
  <2>5. IsOrder(t)'
    BY <2>1, <2>2, <2>t, EnqueueOrder
  <2>6. OutsideUnlinked'
    BY <2>t, <2>1, <2>2, <2>4, ConstantsAssumption, SMTT(30)
       DEF LinkTail, IInv, TypeOK, WellLinked, OutsideUnlinked, MayBeNull, IsOrder, Queued
  <2>7. count' <= max_el' /\ count' # 0
    BY <2>2, ConstantsAssumption DEF LinkTail, IInv, TypeOK
  <2>8. InOrder'
    BY <2>5 DEF IsOrder, InOrder
  <2>9. WellLinked'
    BY <2>6, <2>7, <2>8 DEF WellLinked
  <2>. QED  BY <2>3, <2>9 DEF IInv
<1>. QED  BY <1>2, <1>3

(* The first node leaves and the second becomes the head. *)
LEMMA DequeueOrder ==
    ASSUME IInv, count > 0, UnlinkHead, NEW s, IsOrder(s),
           NEW t, t = [i \in 1 .. count - 1 |-> s[i + 1]]
    PROVE  IsOrder(t)' /\ (count' = 0 => head' = NULL)
<1>1. head = s[1] /\ head \in Queued /\ head \in Nodes
  BY DEF IsOrder, IInv, TypeOK, Queued
<1>2. Queued' = Queued \ {head}
  BY DEF UnlinkHead, Queued
<1>3. t \in [1 .. count' -> Queued']
  BY <1>1, <1>2 DEF UnlinkHead, IInv, TypeOK, IsOrder
<1>4. \A i, j \in 1 .. count' : t[i] = t[j] => i = j
  BY DEF UnlinkHead, IInv, TypeOK, IsOrder
<1>5. \A m \in Queued' : \E i \in 1 .. count' : t[i] = m
  <2>. TAKE m \in Queued'
  <2>1. PICK k \in 1 .. count : s[k] = m
    BY <1>2 DEF IsOrder
  <2>2. k # 1
    BY <1>1, <1>2, <2>1
  <2>3. k - 1 \in 1 .. count' /\ t[k - 1] = m
    BY <2>1, <2>2 DEF UnlinkHead, IInv, TypeOK
  <2>. QED  BY <2>3
<1>6. next[head] = IF count = 1 THEN NULL ELSE s[2]
  BY <1>1 DEF IsOrder, IInv, TypeOK
<1>7. /\ count' > 0 => head' = t[1] /\ tail' = t[count']
      /\ count' = 0 => head' = NULL
  BY <1>6 DEF UnlinkHead, IInv, TypeOK, IsOrder
<1>8. \A i \in 1 .. count' :
          /\ next'[t[i]] = IF i = count' THEN NULL ELSE t[i + 1]
          /\ prev'[t[i]] = IF i = 1 THEN NULL ELSE t[i - 1]
  <2>. TAKE i \in 1 .. count'
  <2>1. i \in 1 .. count - 1 /\ i + 1 \in 2 .. count /\ count' = count - 1
    BY DEF UnlinkHead, IInv, TypeOK
  <2>2. t[i] = s[i + 1] /\ s[i + 1] \in Nodes /\ s[i + 1] # head
    <3>1. t[i] = s[i + 1]
      BY <2>1
    <3>2. i + 1 \in 1 .. count /\ 1 \in 1 .. count /\ i + 1 # 1
      BY <2>1 DEF IInv, TypeOK
    <3>3. s[i + 1] \in Nodes /\ s[i + 1] # s[1]
      BY <3>2 DEF IsOrder, Queued, IInv, TypeOK
    <3>. QED  BY <1>1, <3>1, <3>3
  <2>3. next'[t[i]] = next[s[i + 1]]
    BY <2>2 DEF UnlinkHead, IInv, TypeOK
  <2>k. PICK k \in 1 .. count : k = i + 1
    BY <2>1 DEF IInv, TypeOK
  <2>n. /\ next[s[k]] = IF k = count THEN NULL ELSE s[k + 1]
        /\ prev[s[k]] = IF k = 1 THEN NULL ELSE s[k - 1]
    BY DEF IsOrder
  <2>4. next[s[i + 1]] = IF i + 1 = count THEN NULL ELSE s[i + 2]
    <3>1. k + 1 = i + 2
      BY <2>1, <2>k
    <3>. QED  BY <2>k, <2>n, <3>1
  <2>5. i # count' => t[i + 1] = s[i + 2]
    BY <2>1 DEF IInv, TypeOK
  <2>6. next'[t[i]] = IF i = count' THEN NULL ELSE t[i + 1]
    BY <2>1, <2>3, <2>4, <2>5 DEF IInv, TypeOK
  <2>7. CASE i = 1
    <3>1. t[i] = next[head]
      BY <1>6, <2>1, <2>2, <2>7 DEF IInv, TypeOK
    <3>. QED  BY <2>2, <2>6, <2>7, <3>1 DEF UnlinkHead
  <2>8. CASE i # 1
    <3>1. 2 \in 1 .. count /\ i + 1 # 2 /\ i + 1 \in 1 .. count
      BY <2>1, <2>8 DEF IInv, TypeOK
    <3>2. s[i + 1] # next[head]
      BY <1>6, <2>1, <3>1 DEF IsOrder, IInv, TypeOK
    <3>3. prev'[t[i]] = prev[s[i + 1]]
      BY <2>2, <3>2 DEF UnlinkHead
    <3>4. prev[s[i + 1]] = s[i]
      <4>1. k - 1 = i /\ k # 1
        BY <2>1, <2>k
      <4>. QED  BY <2>k, <2>n, <4>1
    <3>5. t[i - 1] = s[i]
      BY <2>1, <2>8 DEF IInv, TypeOK
    <3>. QED  BY <2>6, <2>8, <3>3, <3>4, <3>5
  <2>. QED  BY <2>7, <2>8
<1>. QED  BY <1>3, <1>4, <1>5, <1>7, <1>8 DEF IsOrder

LEMMA DequeueKeepsIInv ==
    ASSUME IInv, Dequeue
    PROVE  IInv'
<1>1. CASE DequeueFault # "none"
  BY <1>1, AbortKeepsIInv DEF Dequeue, DequeueFault, Checks
<1>2. CASE DequeueFault = "none"
  <2>1. PICK s \in [1 .. count -> Queued] : IsOrder(s)
    BY DEF IInv, WellLinked, InOrder
  <2>t. PICK t : t = [i \in 1 .. count - 1 |-> s[i + 1]]
    OBVIOUS
  <2>2. UnlinkHead /\ count > 0
    BY <1>2 DEF Dequeue, IInv, TypeOK
  <2>3. head = s[1] /\ head \in Queued /\ head \in Nodes
    BY <2>1, <2>2 DEF IsOrder, IInv, TypeOK, Queued
  <2>4. TypeOK'
    <3>1. next[head] \in Nodes \cup {NULL}
      BY <2>1, <2>2, <2>3 DEF IInv, TypeOK, IsOrder, Queued
    <3>2. /\ next' \in [Nodes -> Nodes \cup {NULL, Garbage}]
          /\ prev' \in [Nodes -> Nodes \cup {NULL, Garbage}]
      BY <2>2 DEF IInv, TypeOK, UnlinkHead
    <3>3. /\ head' \in Nodes \cup {NULL} /\ tail' \in Nodes \cup {NULL}
          /\ count' \in Nat /\ max_el' \in MaxEls \cup {0}
          /\ data' \in [Nodes -> Data \cup {Garbage}]
          /\ live' \subseteq Nodes /\ owned' \subseteq live'
      BY <2>2, <2>3, <3>1 DEF IInv, TypeOK, UnlinkHead, Queued
    <3>4. /\ res' \in [node : Nodes \cup {NULL}, err : {"none", "EAGAIN", "ENOMEM"}]
          /\ crash' \in Checks \cup {"none"}
      BY <2>2, <2>3 DEF IInv, TypeOK, UnlinkHead, Returns
    <3>. QED  BY <3>2, <3>3, <3>4 DEF TypeOK
  <2>5. Queued' = Queued \ {head}
    BY <2>2 DEF UnlinkHead, Queued
  <2>6. IsOrder(t)' /\ (count' = 0 => head' = NULL)
    BY <2>1, <2>2, <2>t, DequeueOrder
  <2>7. OutsideUnlinked'
    BY <2>2, <2>3, <2>5 DEF UnlinkHead, IInv, TypeOK, WellLinked, OutsideUnlinked, MayBeNull
  <2>8. count' <= max_el'
    BY <2>2, ConstantsAssumption DEF UnlinkHead, IInv, TypeOK, WellLinked
  <2>9. InOrder'
    BY <2>6 DEF IsOrder, InOrder
  <2>10. WellLinked'
    BY <2>6, <2>7, <2>8, <2>9 DEF WellLinked
  <2>. QED  BY <2>4, <2>10 DEF IInv
<1>. QED  BY <1>1, <1>2


(* The k-th node n of s is bridged over: its neighbours refer to each other *)
(* and it refers to nothing.                                               *)
Bridged(s, k, n) ==
    /\ head' = IF k = 1 THEN next[n] ELSE head
    /\ tail' = IF k = count THEN prev[n] ELSE tail
    /\ next'[n] = NULL /\ prev'[n] = NULL
    /\ next' \in [Nodes -> Nodes \cup {NULL, Garbage}]
    /\ prev' \in [Nodes -> Nodes \cup {NULL, Garbage}]
    /\ \A m \in Nodes \ Queued : next'[m] = next[m] /\ prev'[m] = prev[m]
    /\ \A i \in 1 .. count \ {k} :
          /\ next'[s[i]] = IF i = k - 1 THEN next[n] ELSE next[s[i]]
          /\ prev'[s[i]] = IF i = k + 1 THEN prev[n] ELSE prev[s[i]]

(* The four branches of bt_qnode_detach have one effect. *)
LEMMA DetachBridges ==
    ASSUME TypeOK, NEW s, IsOrder(s), NEW k \in 1 .. count, NEW n, n = s[k], UnlinkNode(n)
    PROVE  Bridged(s, k, n)
<1>1. /\ \A i \in 1 .. count : s[i] \in Nodes /\ s[i] \in Queued
      /\ \A i, j \in 1 .. count : s[i] = s[j] => i = j
      /\ count \in Nat /\ count > 0 /\ 1 \in 1 .. count /\ count \in 1 .. count
  BY DEF IsOrder, TypeOK, Queued
<1>2. /\ next[n] = IF k = count THEN NULL ELSE s[k + 1]
      /\ prev[n] = IF k = 1 THEN NULL ELSE s[k - 1]
  BY DEF IsOrder
<1>3. (n = head <=> k = 1) /\ (n = tail <=> k = count)
  BY <1>1 DEF IsOrder
<1>4. /\ k # count => k + 1 \in 1 .. count
      /\ k # 1 => k - 1 \in 1 .. count
  BY <1>1
<1>5. /\ next \in [Nodes -> Nodes \cup {NULL, Garbage}]
      /\ prev \in [Nodes -> Nodes \cup {NULL, Garbage}]
  BY DEF TypeOK
<1>6. CASE k = 1 /\ k = count
  <2>1. /\ head' = NULL /\ tail' = NULL
        /\ next' = [next EXCEPT ![n] = NULL]
        /\ prev' = [prev EXCEPT ![n] = NULL]
    BY <1>3, <1>6 DEF UnlinkNode
  <2>. QED  BY <1>1, <1>2, <1>5, <1>6, <2>1 DEF Bridged
<1>7. CASE k = 1 /\ k # count
  <2>1. /\ head' = next[n] /\ tail' = tail
        /\ next' = [next EXCEPT ![n] = NULL]
        /\ prev' = [prev EXCEPT ![next[n]] = NULL, ![n] = NULL]
    BY <1>3, <1>7 DEF UnlinkNode
  <2>. QED  BY <1>1, <1>2, <1>4, <1>5, <1>7, <2>1 DEF Bridged
<1>8. CASE k # 1 /\ k = count
  <2>1. /\ head' = head /\ tail' = prev[n]
        /\ next' = [next EXCEPT ![prev[n]] = NULL, ![n] = NULL]
        /\ prev' = [prev EXCEPT ![n] = NULL]
    BY <1>3, <1>8 DEF UnlinkNode
  <2>. QED  BY <1>1, <1>2, <1>4, <1>5, <1>8, <2>1 DEF Bridged
<1>9. CASE k # 1 /\ k # count
  <2>1. /\ head' = head /\ tail' = tail
        /\ next' = [next EXCEPT ![prev[n]] = next[n], ![n] = NULL]
        /\ prev' = [prev EXCEPT ![next[n]] = prev[n], ![n] = NULL]
    BY <1>3, <1>9 DEF UnlinkNode
  <2>. QED  BY <1>1, <1>2, <1>4, <1>5, <1>9, <2>1 DEF Bridged
<1>. QED  BY <1>6, <1>7, <1>8, <1>9

(* The k-th node leaves and the others close up. *)
LEMMA DetachOrder ==
    ASSUME IInv, NEW s, IsOrder(s), NEW k \in 1 .. count, NEW n, n = s[k], UnlinkNode(n),
           NEW t, t = [i \in 1 .. count - 1 |-> IF i < k THEN s[i] ELSE s[i + 1]]
    PROVE  IsOrder(t)' /\ (count' = 0 => head' = NULL)
<1>1. Bridged(s, k, n)
  BY DetachBridges DEF IInv
<1>2. /\ count \in Nat /\ count > 0 /\ count' = count - 1
      /\ max_el' = max_el /\ live' = live /\ owned' = owned \cup {n}
      /\ n \in Queued /\ n \in Nodes
      /\ head = s[1] /\ tail = s[count]
  BY DEF UnlinkNode, IInv, TypeOK, IsOrder, Queued
<1>3. /\ \A i \in 1 .. count : s[i] \in Nodes /\ s[i] \in Queued
      /\ \A i, j \in 1 .. count : s[i] = s[j] => i = j
      /\ \A i \in 1 .. count :
            /\ next[s[i]] = IF i = count THEN NULL ELSE s[i + 1]
            /\ prev[s[i]] = IF i = 1 THEN NULL ELSE s[i - 1]
      /\ \A m \in Queued : \E i \in 1 .. count : s[i] = m
  BY DEF IInv, TypeOK, IsOrder, Queued
<1>4. Queued' = Queued \ {n}
  BY <1>2 DEF Queued
<1>5. \A i \in 1 .. count' :
          LET j == IF i < k THEN i ELSE i + 1
          IN  j \in 1 .. count /\ j # k /\ t[i] = s[j]
  BY <1>2
<1>6. t \in [1 .. count' -> Queued']
  <2>1. \A i \in 1 .. count' : t[i] \in Queued'
    BY <1>3, <1>4, <1>5
  <2>. QED  BY <1>2, <2>1
<1>7. \A i, j \in 1 .. count' : t[i] = t[j] => i = j
  <2>. TAKE i, j \in 1 .. count'
  <2>. DEFINE pos(x) == IF x < k THEN x ELSE x + 1
  <2>1. t[i] = s[pos(i)] /\ t[j] = s[pos(j)]
    BY <1>5
  <2>2. pos(i) \in 1 .. count /\ pos(j) \in 1 .. count
    BY <1>5
  <2>3. s[pos(i)] = s[pos(j)] => pos(i) = pos(j)
    <3>. HIDE DEF pos
    <3>. QED  BY <1>3, <2>2
  <2>4. pos(i) = pos(j) => i = j
    BY <1>2
  <2>. QED  BY <2>1, <2>3, <2>4
<1>8. \A m \in Queued' : \E i \in 1 .. count' : t[i] = m
  <2>. TAKE m \in Queued'
  <2>1. PICK j \in 1 .. count : s[j] = m
    BY <1>3, <1>4
  <2>2. j # k
    BY <1>4, <2>1
  <2>. DEFINE i == IF j < k THEN j ELSE j - 1
  <2>3. i \in 1 .. count' /\ t[i] = m
    BY <1>2, <2>1, <2>2
  <2>. QED  BY <2>3
<1>9. /\ count' > 0 => head' = t[1] /\ tail' = t[count']
      /\ count' = 0 => head' = NULL
  <2>1. next[n] = IF k = count THEN NULL ELSE s[k + 1]
    BY <1>3
  <2>2. prev[n] = IF k = 1 THEN NULL ELSE s[k - 1]
    BY <1>3
  <2>3. count' > 0 => head' = t[1]
    BY <1>1, <1>2, <2>1 DEF Bridged
  <2>4. count' > 0 => tail' = t[count']
    BY <1>1, <1>2, <2>2 DEF Bridged
  <2>5. count' = 0 => head' = NULL
    BY <1>1, <1>2, <2>1 DEF Bridged
  <2>. QED  BY <2>3, <2>4, <2>5
<1>10. \A i \in 1 .. count' :
          /\ next'[t[i]] = IF i = count' THEN NULL ELSE t[i + 1]
          /\ prev'[t[i]] = IF i = 1 THEN NULL ELSE t[i - 1]
  <2>. TAKE i \in 1 .. count'
  <2>1. CASE i < k
    <3>1. i \in 1 .. count /\ i # k /\ i # k + 1 /\ t[i] = s[i]
      BY <1>2, <2>1
    <3>2. next'[t[i]] = IF i = k - 1 THEN next[n] ELSE next[s[i]]
      BY <1>1, <3>1 DEF Bridged
    <3>3. prev'[t[i]] = prev[s[i]]
      BY <1>1, <3>1 DEF Bridged
    <3>4. prev'[t[i]] = IF i = 1 THEN NULL ELSE t[i - 1]
      <4>1. prev[s[i]] = IF i = 1 THEN NULL ELSE s[i - 1]
        BY <1>3, <3>1
      <4>2. i # 1 => t[i - 1] = s[i - 1]
        BY <1>2, <2>1
      <4>. QED  BY <3>3, <4>1, <4>2
    <3>5. CASE i = k - 1
      <4>1. i + 1 = k /\ next'[t[i]] = next[n] /\ (i = count' <=> k = count)
        BY <1>2, <3>2, <3>5
      <4>2. next[n] = IF k = count THEN NULL ELSE s[k + 1]
        BY <1>3
      <4>3. k # count => t[k] = s[k + 1]
        BY <1>2
      <4>. QED  BY <3>4, <4>1, <4>2, <4>3
    <3>6. CASE i # k - 1
      <4>1. i + 1 < k /\ i # count' /\ i # count /\ next'[t[i]] = next[s[i]]
        BY <1>2, <2>1, <3>1, <3>2, <3>6
      <4>2. next[s[i]] = s[i + 1]
        BY <1>3, <3>1, <4>1
      <4>3. t[i + 1] = s[i + 1]
        BY <1>2, <3>1, <4>1
      <4>. QED  BY <3>4, <4>1, <4>2, <4>3
    <3>. QED  BY <3>5, <3>6
  <2>2. CASE i >= k
    <3>1. PICK j \in 1 .. count : j = i + 1
      BY <1>2
    <3>2. j # k /\ j # k - 1 /\ t[i] = s[j]
      BY <1>2, <2>2, <3>1
    <3>3. next'[t[i]] = next[s[j]]
      BY <1>1, <3>2 DEF Bridged
    <3>4. prev'[t[i]] = IF j = k + 1 THEN prev[n] ELSE prev[s[j]]
      BY <1>1, <3>2 DEF Bridged
    <3>5. next'[t[i]] = IF i = count' THEN NULL ELSE t[i + 1]
      <4>1. next[s[j]] = IF j = count THEN NULL ELSE s[j + 1]
        BY <1>3
      <4>2. j + 1 = i + 1 + 1 /\ (j = count <=> i = count')
        BY <1>2, <3>1
      <4>3. i # count' => t[i + 1] = s[i + 1 + 1]
        BY <1>2, <2>2
      <4>. QED  BY <3>3, <4>1, <4>2, <4>3
    <3>6. CASE j = k + 1
      <4>1. i = k /\ prev'[t[i]] = prev[n]
        BY <1>2, <3>1, <3>4, <3>6
      <4>. QED  BY <1>2, <1>3, <3>5, <4>1
    <3>7. CASE j # k + 1
      <4>1. i > k /\ prev'[t[i]] = prev[s[j]] /\ j # 1 /\ i # 1
        BY <1>2, <2>2, <3>1, <3>4, <3>7
      <4>2. prev[s[j]] = s[j - 1] /\ j - 1 = i
        BY <1>3, <3>1, <4>1
      <4>3. t[i - 1] = s[i]
        BY <1>2, <4>1
      <4>. QED  BY <3>5, <4>1, <4>2, <4>3
    <3>. QED  BY <3>6, <3>7
  <2>. QED  BY <1>2, <2>1, <2>2
<1>. QED  BY <1>6, <1>7, <1>8, <1>9, <1>10 DEF IsOrder

LEMMA DetachKeepsIInv ==
    ASSUME IInv, NEW n \in live, Detach(n)
    PROVE  IInv'
<1>1. CASE DetachFault(n) # "none"
  <2>1. DetachFault(n) \in Checks
    BY <1>1 DEF DetachFault, ScanFault, BranchFault, Checks
  <2>. QED  BY <1>1, <2>1, AbortKeepsIInv DEF Detach
<1>2. CASE DetachFault(n) = "none"
  <2>1. PICK s \in [1 .. count -> Queued] : IsOrder(s)
    BY DEF IInv, WellLinked, InOrder
  <2>2. PICK k \in 1 .. count : n = s[k]
    BY <1>2, <2>1, DetachTakesQueued DEF IsOrder
  <2>3. UnlinkNode(n)
    BY <1>2 DEF Detach
  <2>4. Bridged(s, k, n)
    BY <2>1, <2>2, <2>3, DetachBridges DEF IInv
  <2>5. /\ count \in Nat /\ count > 0 /\ count' = count - 1
        /\ max_el' = max_el /\ live' = live /\ owned' = owned \cup {n}
        /\ n \in Queued /\ n \in Nodes
        /\ head = s[1] /\ tail = s[count]
    BY <2>1, <2>2, <2>3 DEF UnlinkNode, IInv, TypeOK, IsOrder, Queued
  <2>6. /\ \A i \in 1 .. count : s[i] \in Nodes /\ s[i] \in Queued
        /\ \A i, j \in 1 .. count : s[i] = s[j] => i = j
        /\ \A i \in 1 .. count :
              /\ next[s[i]] = IF i = count THEN NULL ELSE s[i + 1]
              /\ prev[s[i]] = IF i = 1 THEN NULL ELSE s[i - 1]
        /\ \A m \in Queued : \E i \in 1 .. count : s[i] = m
    BY <2>1 DEF IInv, TypeOK, IsOrder, Queued
  <2>7. TypeOK'
    <3>1. next[n] \in Nodes \cup {NULL} /\ prev[n] \in Nodes \cup {NULL}
      BY <2>2, <2>5, <2>6
    <3>2. /\ head' \in Nodes \cup {NULL} /\ tail' \in Nodes \cup {NULL}
          /\ count' \in Nat /\ max_el' \in MaxEls \cup {0}
          /\ live' \subseteq Nodes /\ owned' \subseteq live'
      BY <2>4, <2>5, <3>1 DEF IInv, TypeOK, Queued, Bridged
    <3>3. /\ data' \in [Nodes -> Data \cup {Garbage}]
          /\ res' \in [node : Nodes \cup {NULL}, err : {"none", "EAGAIN", "ENOMEM"}]
          /\ crash' \in Checks \cup {"none"}
      BY <2>3, <2>5 DEF IInv, TypeOK, UnlinkNode, Returns
    <3>. QED  BY <2>4, <3>2, <3>3 DEF TypeOK, Bridged
  <2>8. PICK t : t = [i \in 1 .. count - 1 |-> IF i < k THEN s[i] ELSE s[i + 1]]
    OBVIOUS
  <2>9. IsOrder(t)' /\ (count' = 0 => head' = NULL)
    BY <2>1, <2>2, <2>3, <2>8, DetachOrder
  <2>10. InOrder'
    BY <2>9 DEF IsOrder, InOrder
  <2>11. OutsideUnlinked'
    BY <2>4, <2>5 DEF IInv, WellLinked, OutsideUnlinked, MayBeNull, TypeOK, Queued, Bridged
  <2>12. count' <= max_el'
    BY <2>5, ConstantsAssumption DEF IInv, WellLinked, TypeOK
  <2>13. WellLinked'
    BY <2>9, <2>10, <2>11, <2>12 DEF WellLinked
  <2>. QED  BY <2>7, <2>13 DEF IInv
<1>. QED  BY <1>1, <1>2

(* Nodes outside the queue come and go without disturbing its order. *)
LEMMA OutsideKeepsInOrder ==
    ASSUME InOrder, UNCHANGED queue, Queued' = Queued,
           \A m \in Queued : next'[m] = next[m] /\ prev'[m] = prev[m]
    PROVE  InOrder'
<1>1. PICK s \in [1 .. count -> Queued] : IsOrder(s)
  BY DEF InOrder
<1>2. s \in [1 .. count' -> Queued'] /\ \A i \in 1 .. count : s[i] \in Queued
  BY DEF queue
<1>3. IsOrder(s)'
  BY <1>1, <1>2 DEF IsOrder, queue
<1>. QED  BY <1>2, <1>3 DEF InOrder

LEMMA CreateKeepsIInv ==
    ASSUME IInv, Create
    PROVE  IInv'
<1>1. PICK n \in Nodes \ live : live' = live \cup {n} /\ owned' = owned \cup {n}
  BY DEF Create
<1>2. UNCHANGED <<queue, links, data, crash>> /\ res' = Void
  BY DEF Create
<1>3. TypeOK'
  BY <1>1, <1>2 DEF IInv, TypeOK, Void, queue, links
<1>4. Queued' = Queued
  BY <1>1 DEF Queued, IInv, TypeOK
<1>5. InOrder'
  BY <1>2, <1>4, OutsideKeepsInOrder DEF IInv, WellLinked, links
<1>6. OutsideUnlinked'
  BY <1>2, <1>4 DEF IInv, WellLinked, OutsideUnlinked, MayBeNull, links
<1>. QED  BY <1>2, <1>3, <1>5, <1>6 DEF IInv, WellLinked, queue

(* The caller's node is freed and its fields read as garbage. *)
LEMMA DeleteKeepsIInv ==
    ASSUME IInv, NEW n \in owned, Delete(n)
    PROVE  IInv'
<1>1. Free({n}) /\ res' = Void /\ UNCHANGED <<queue, crash>>
  BY DEF Delete
<1>2. TypeOK'
  BY <1>1 DEF IInv, TypeOK, Void, queue, Free
<1>3. Queued' = Queued
  BY <1>1 DEF Queued, Free, IInv, TypeOK
<1>4. \A m \in Queued : next'[m] = next[m] /\ prev'[m] = prev[m]
  BY <1>1 DEF Queued, Free, IInv, TypeOK
<1>5. InOrder'
  BY <1>1, <1>3, <1>4, OutsideKeepsInOrder DEF IInv, WellLinked
<1>6. OutsideUnlinked'
  BY <1>1, <1>3 DEF IInv, TypeOK, WellLinked, OutsideUnlinked, MayBeNull, Free
<1>. QED  BY <1>1, <1>2, <1>5, <1>6 DEF IInv, WellLinked, queue

LEMMA QueueInitKeepsIInv ==
    ASSUME IInv, NEW m \in MaxEls, QueueInit(m)
    PROVE  IInv'
<1>1. TypeOK'
  BY DEF IInv, TypeOK, QueueInit, Void, heap
<1>2. Queued' = {} /\ OutsideUnlinked'
  BY DEF IInv, WellLinked, InOrder, IsOrder, OutsideUnlinked, MayBeNull,
         QueueInit, heap, Queued
<1>3. WellLinked'
  BY <1>2, ConstantsAssumption, EmptyIsWellLinked DEF QueueInit
<1>. QED  BY <1>1, <1>3 DEF IInv

LEMMA DestroyKeepsIInv ==
    ASSUME IInv, Destroy
    PROVE  IInv'
<1>1. CASE DestroyFault # "none"
  BY <1>1, AbortKeepsIInv DEF Destroy, DestroyFault, Checks
<1>2. CASE DestroyFault = "none"
  <2>1. PICK s \in [1 .. count -> Queued] : IsOrder(s)
    BY DEF IInv, WellLinked, InOrder
  <2>2. PICK S \in SUBSET live : S = Queued /\ Free(S)
    <3>1. Free(IF count = 0 THEN {} ELSE Reach(head, next))
      BY <1>2 DEF Destroy, Clear
    <3>2. count = 0 => Queued = {}
      BY <2>1 DEF IsOrder
    <3>3. count # 0 => Reach(head, next) = Queued
      BY <2>1, ReachIsWhole DEF IInv
    <3>. QED  BY <3>1, <3>2, <3>3 DEF Queued
  <2>3. /\ head' = NULL /\ tail' = NULL /\ count' = 0 /\ max_el' = 0
        /\ res' = Void /\ crash' = crash
    BY <1>2 DEF Destroy, Clear
  <2>4. TypeOK'
    BY <2>2, <2>3 DEF IInv, TypeOK, Void, Free
  <2>5. Queued' = {}
    BY <2>2 DEF Free, Queued, IInv, TypeOK
  <2>6. OutsideUnlinked'
    BY <2>2 DEF Free, IInv, TypeOK, WellLinked, OutsideUnlinked, MayBeNull
  <2>7. WellLinked'
    BY <2>3, <2>5, <2>6, EmptyIsWellLinked
  <2>. QED  BY <2>4, <2>7 DEF IInv
<1>. QED  BY <1>1, <1>2

(* A call that only returns a result. *)
LEMMA RefusalKeepsIInv ==
    ASSUME IInv, NEW r \in {Fails("EAGAIN"), Fails("ENOMEM")},
           res' = r, UNCHANGED <<queue, heap, crash>>
    PROVE  IInv'
<1>1. TypeOK'
  BY DEF IInv, TypeOK, Fails, queue, heap
<1>2. WellLinked'
  BY UnchangedKeepsWellLinked DEF IInv
<1>. QED  BY <1>1, <1>2 DEF IInv

(***************************************************************************)
(* Whatever live node the caller detaches and wherever its nodes come      *)
(* from, as long as it deletes none that is queued.                        *)
(***************************************************************************)
LEMMA NextKeepsIInv ==
    ASSUME "delete_queued" \notin Extra, IInv, [Next]_vars
    PROVE  IInv'
<1>1. CASE \E m \in MaxEls : QueueInit(m)
  BY <1>1, QueueInitKeepsIInv
<1>2. CASE EnqueueFull \/ EnqueueNoMemory \/ DequeueEmpty
  BY <1>2, RefusalKeepsIInv DEF EnqueueFull, EnqueueNoMemory, DequeueEmpty
<1>3. CASE \E d \in Data : Enqueue(d)
  BY <1>3, EnqueueKeepsIInv
<1>4. CASE Dequeue
  BY <1>4, DequeueKeepsIInv
<1>5. CASE \E n \in Detachable : Detach(n)
  BY <1>5, DetachKeepsIInv DEF Detachable, Queued
<1>6. CASE Create
  BY <1>6, CreateKeepsIInv
<1>7. CASE \E n \in Deletable : Delete(n)
  BY <1>7, DeleteKeepsIInv DEF Deletable
<1>8. CASE \E n \in Deletable : DeleteRefused(n)
  BY <1>8, AbortKeepsIInv DEF DeleteRefused, Checks
<1>9. CASE Destroy
  BY <1>9, DestroyKeepsIInv
<1>10. CASE UNCHANGED vars
  <2>1. TypeOK'
    BY <1>10 DEF vars, IInv, TypeOK
  <2>2. WellLinked'
    BY <1>10, UnchangedKeepsWellLinked DEF vars, IInv, queue, heap
  <2>. QED  BY <2>1, <2>2 DEF IInv
<1>. QED  BY <1>1, <1>2, <1>3, <1>4, <1>5, <1>6, <1>7, <1>8, <1>9, <1>10 DEF Next

(* The structure and the nodes stay well typed: no count below zero, no    *)
(* link to a place that is not an address.                                 *)
THEOREM TypeCorrect ==
    ASSUME "delete_queued" \notin Extra
    PROVE  Spec => []TypeOK
<1>1. IInv /\ [Next]_vars => IInv'
  BY NextKeepsIInv
<1>2. IInv => TypeOK
  BY DEF IInv
<1>. QED  BY InitIInv, <1>1, <1>2, PTL DEF Spec

(* The queue is a well-formed list that loses and leaks no node, in both   *)
(* builds, even when the caller detaches nodes that are not in it.         *)
THEOREM QueueIsWellLinked ==
    ASSUME "delete_queued" \notin Extra
    PROVE  Spec => []WellLinked
<1>1. IInv /\ [Next]_vars => IInv'
  BY NextKeepsIInv
<1>2. IInv => WellLinked
  BY DEF IInv
<1>. QED  BY InitIInv, <1>1, <1>2, PTL DEF Spec

-----------------------------------------------------------------------------
(* Which checks can fire.                                                  *)

(* The release build enqueues after anything; the debug build stops on the *)
(* tail that bt_queue_dequeue left behind, and on nothing else.            *)
LEMMA EnqueueFaults ==
    ASSUME IInv
    PROVE  EnqueueFault = "none" \/ (~NDEBUG /\ EnqueueFault = "enqueue tail")
<1>1. PICK s \in [1 .. count -> Queued] : IsOrder(s)
  BY DEF IInv, WellLinked, InOrder
<1>2. head # NULL => tail \in live
  BY <1>1, ConstantsAssumption DEF IInv, WellLinked, TypeOK, IsOrder, Queued
<1>. QED  BY <1>2, ConstantsAssumption DEF EnqueueFault

LEMMA DequeueFaults ==
    ASSUME IInv, count # 0
    PROVE  DequeueFault = "none"
<1>1. PICK s \in [1 .. count -> Queued] : IsOrder(s)
  BY DEF IInv, WellLinked, InOrder
<1>2. /\ head \in live /\ head # NULL /\ prev[head] = NULL
      /\ next[head] \in live \cup {NULL}
  BY <1>1, ConstantsAssumption DEF IInv, TypeOK, IsOrder, Queued
<1>. QED  BY <1>2 DEF DequeueFault

LEMMA DestroyFaults ==
    ASSUME IInv
    PROVE  DestroyFault = "none"
<1>1. PICK s \in [1 .. count -> Queued] : IsOrder(s)
  BY DEF IInv, WellLinked, InOrder
<1>2. SUFFICES ASSUME count # 0 PROVE DestroyFault = "none"
  BY DEF DestroyFault
<1>3. Reach(head, next) = Queued /\ Cardinality(Queued) = count
  BY <1>1, <1>2, ReachIsWhole, QueuedCount DEF IInv
<1>4. EndsAtNull(head, next)
  BY <1>1, <1>2, <1>3 DEF EndsAtNull, IInv, TypeOK, IsOrder, Queued
<1>. QED  BY <1>3, <1>4 DEF DestroyFault

(* A queued node is detached in both builds; the debug build turns every   *)
(* other one away before it touches a link.                                *)
LEMMA DetachFaults ==
    ASSUME IInv, NEW n \in live
    PROVE  /\ n \in Queued => DetachFault(n) = "none"
           /\ ~NDEBUG => DetachFault(n) \in {"none", "detach empty", "detach absent"}
<1>1. PICK s \in [1 .. count -> Queued] : IsOrder(s)
  BY DEF IInv, WellLinked, InOrder
<1>2. ASSUME n \in Queued PROVE BranchFault(n) = "none" /\ count # 0
  <2>1. PICK k \in 1 .. count : n = s[k]
    BY <1>1, <1>2 DEF IsOrder
  <2>2. \A i \in 1 .. count : s[i] \in live
    BY DEF Queued
  <2>3. /\ (n = head <=> k = 1) /\ (n = tail <=> k = count)
        /\ next[n] = IF k = count THEN NULL ELSE s[k + 1]
        /\ prev[n] = IF k = 1 THEN NULL ELSE s[k - 1]
        /\ count \in Nat /\ count # 0
    BY <1>1, <2>1 DEF IsOrder, IInv, TypeOK
  <2>4. k # count => next[n] \in live
    BY <2>2, <2>3
  <2>5. k # 1 => prev[n] \in live
    BY <2>2, <2>3
  <2>. QED  BY <2>3, <2>4, <2>5 DEF BranchFault
<1>3. count # 0 => EndsAtNull(head, next) /\ EndsAtNull(tail, prev)
  <2>1. SUFFICES ASSUME count # 0
                 PROVE  EndsAtNull(head, next) /\ EndsAtNull(tail, prev)
    OBVIOUS
  <2>2. Reach(head, next) \subseteq Queued /\ Reach(tail, prev) \subseteq Queued
    BY <1>1, <2>1, ReachIsQueued DEF IInv, WellLinked
  <2>3. head \in live /\ tail \in live
    BY <1>1, <2>1 DEF IsOrder, IInv, TypeOK, Queued
  <2>4. \A m \in Queued : next[m] \in live \cup {NULL} /\ prev[m] \in live \cup {NULL}
    BY <1>1 DEF IsOrder, IInv, TypeOK, Queued
  <2>. QED  BY <2>2, <2>3, <2>4 DEF EndsAtNull
<1>4. count # 0 => (Found(n) <=> n \in Queued)
  <2>1. SUFFICES ASSUME count # 0 PROVE Found(n) <=> n \in Queued
    OBVIOUS
  <2>2. Reach(head, next) = Queued /\ Reach(tail, prev) \subseteq Queued
    BY <1>1, <2>1, ReachIsWhole, ReachIsQueued DEF IInv, WellLinked
  <2>. QED  BY <2>2 DEF Found
<1>5. NDEBUG => ScanFault(n) = "none"
  BY DEF ScanFault
<1>6. CASE n \in Queued
  <2>1. ScanFault(n) = "none"
    BY <1>2, <1>4, <1>5, <1>6, ConstantsAssumption DEF ScanFault
  <2>. QED  BY <1>2, <1>6, <2>1 DEF DetachFault
<1>7. CASE n \notin Queued
  <2>1. ~NDEBUG => ScanFault(n) \in {"detach empty", "detach absent"}
    BY <1>3, <1>4, <1>7 DEF ScanFault
  <2>. QED  BY <1>7, <2>1 DEF DetachFault
<1>. QED  BY <1>6, <1>7

-----------------------------------------------------------------------------
(* A caller that keeps the contract.                                       *)

ContractInv == IInv /\ CallerNodesUnlinked /\ NeverAborts

LEMMA ContractStep ==
    ASSUME NDEBUG, Extra = {}, ContractInv, [Next]_vars
    PROVE  CallerNodesUnlinked' /\ NeverAborts'
<1>1. IInv'
  BY NextKeepsIInv DEF ContractInv
<1>2. PICK s \in [1 .. count -> Queued] : IsOrder(s)
  BY DEF ContractInv, IInv, WellLinked, InOrder
<1>3. CASE \E m \in MaxEls : QueueInit(m)
  BY <1>3 DEF QueueInit, heap, ContractInv, CallerNodesUnlinked, NeverAborts
<1>4. CASE EnqueueFull \/ EnqueueNoMemory \/ DequeueEmpty
  BY <1>4 DEF EnqueueFull, EnqueueNoMemory, DequeueEmpty, heap, ContractInv,
              CallerNodesUnlinked, NeverAborts
<1>5. CASE \E d \in Data : Enqueue(d)
  <2>1. PICK d \in Data, n \in Nodes \ live : LinkTail(n, d)
    BY <1>5, EnqueueFaults DEF Enqueue, ContractInv
  <2>2. tail \notin owned \/ head = NULL
    BY <1>2, ConstantsAssumption
       DEF ContractInv, IInv, WellLinked, TypeOK, IsOrder, Queued
  <2>. QED  BY <2>1, <2>2 DEF LinkTail, ContractInv, IInv, TypeOK,
                              CallerNodesUnlinked, NeverAborts
<1>6. CASE Dequeue
  <2>1. UnlinkHead
    BY <1>6, DequeueFaults DEF Dequeue, ContractInv
  <2>2. head \in Nodes
    BY <1>2, <1>6 DEF Dequeue, ContractInv, IInv, TypeOK, IsOrder, Queued
  <2>. QED  BY <2>1, <2>2 DEF UnlinkHead, ContractInv, IInv, TypeOK,
                        CallerNodesUnlinked, NeverAborts
<1>7. CASE \E n \in Detachable : Detach(n)
  <2>1. PICK n \in Queued : Detach(n)
    BY <1>7 DEF Detachable
  <2>2. UnlinkNode(n)
    BY <2>1, DetachFaults DEF Detach, ContractInv, Queued
  <2>3. PICK k \in 1 .. count : n = s[k]
    BY <1>2 DEF IsOrder
  <2>4. /\ next'[n] = NULL /\ prev'[n] = NULL
        /\ \A m \in Nodes \ Queued : next'[m] = next[m] /\ prev'[m] = prev[m]
    <3>1. Bridged(s, k, n)
      BY <1>2, <2>2, <2>3, DetachBridges DEF ContractInv, IInv
    <3>. QED  BY <3>1 DEF Bridged
  <2>. QED  BY <2>2, <2>4 DEF UnlinkNode, ContractInv, IInv, TypeOK,
                                    Queued, CallerNodesUnlinked, NeverAborts
<1>8. CASE Create
  BY <1>8 DEF Create
<1>9. CASE \E n \in Deletable : Delete(n)
  BY <1>9 DEF Deletable, Delete, Free, ContractInv, IInv, TypeOK,
              CallerNodesUnlinked, NeverAborts
<1>10. CASE \E n \in Deletable : DeleteRefused(n)
  BY <1>10 DEF Deletable, DeleteRefused, ContractInv, CallerNodesUnlinked
<1>11. CASE Destroy
  <2>1. Clear
    BY <1>11, DestroyFaults DEF Destroy, ContractInv
  <2>. QED  BY <2>1 DEF Clear, Free, ContractInv, IInv, TypeOK,
                        CallerNodesUnlinked, NeverAborts
<1>12. CASE UNCHANGED vars
  BY <1>12 DEF vars, ContractInv, CallerNodesUnlinked, NeverAborts
<1>. QED  BY <1>3, <1>4, <1>5, <1>6, <1>7, <1>8, <1>9, <1>10, <1>11, <1>12 DEF Next

(* The release build, used as the header says, reaches no abort() and no   *)
(* invalid access, whatever order the calls come in; and every node the    *)
(* caller holds may be deleted.                                            *)
THEOREM ContractIsSafe ==
    ASSUME NDEBUG, Extra = {}
    PROVE  Spec => [](NeverAborts /\ CallerNodesUnlinked)
<1>1. Init => ContractInv
  BY InitIInv DEF Init, ContractInv, CallerNodesUnlinked, NeverAborts
<1>2. ContractInv /\ [Next]_vars => ContractInv'
  <2>1. SUFFICES ASSUME ContractInv, [Next]_vars PROVE ContractInv'
    OBVIOUS
  <2>2. IInv'
    BY <2>1, NextKeepsIInv DEF ContractInv
  <2>. QED  BY <2>1, <2>2, ContractStep DEF ContractInv
<1>3. ContractInv => NeverAborts /\ CallerNodesUnlinked
  BY DEF ContractInv
<1>. QED  BY <1>1, <1>2, <1>3, PTL DEF Spec

(* Its second half alone: bt_qnode_delete frees every node the caller got  *)
(* from dequeue or detach, since both clear the links it looks at.         *)
COROLLARY CallerNodesMayGo ==
    ASSUME NDEBUG, Extra = {}
    PROVE  Spec => []CallerNodesUnlinked
  BY ContractIsSafe, PTL

-----------------------------------------------------------------------------
(* The debug build's guards.                                               *)

LEMMA GuardStep ==
    ASSUME ~NDEBUG, "delete_queued" \notin Extra, IInv, OnlyCallerChecksFire,
           [Next]_vars
    PROVE  OnlyCallerChecksFire'
<1>1. CASE \E m \in MaxEls : QueueInit(m)
  BY <1>1 DEF QueueInit, OnlyCallerChecksFire
<1>2. CASE EnqueueFull \/ EnqueueNoMemory \/ DequeueEmpty
  BY <1>2 DEF EnqueueFull, EnqueueNoMemory, DequeueEmpty, OnlyCallerChecksFire
<1>3. CASE \E d \in Data : Enqueue(d)
  BY <1>3, EnqueueFaults DEF Enqueue, Abort, LinkTail, OnlyCallerChecksFire
<1>4. CASE Dequeue
  BY <1>4, DequeueFaults DEF Dequeue, UnlinkHead, OnlyCallerChecksFire
<1>5. CASE \E n \in Detachable : Detach(n)
  <2>1. PICK n \in live : Detach(n)
    BY <1>5 DEF Detachable, Queued
  <2>2. DetachFault(n) \in {"none", "detach empty", "detach absent"}
    BY DetachFaults
  <2>. QED  BY <2>1, <2>2 DEF Detach, Abort, UnlinkNode, OnlyCallerChecksFire
<1>6. CASE Create
  BY <1>6 DEF Create, OnlyCallerChecksFire
<1>7. CASE \E n \in Deletable : Delete(n)
  BY <1>7 DEF Delete, OnlyCallerChecksFire
<1>8. CASE \E n \in Deletable : DeleteRefused(n)
  BY <1>8 DEF DeleteRefused, Abort, OnlyCallerChecksFire
<1>9. CASE Destroy
  BY <1>9, DestroyFaults DEF Destroy, Clear, OnlyCallerChecksFire
<1>10. CASE UNCHANGED vars
  BY <1>10 DEF vars, OnlyCallerChecksFire
<1>. QED  BY <1>1, <1>2, <1>3, <1>4, <1>5, <1>6, <1>7, <1>8, <1>9, <1>10 DEF Next

(* In the debug build the checks of the queue's own structure are dead     *)
(* code: only a caller's mistake stops the process, or the stale tail.     *)
THEOREM GuardsBlameTheCaller ==
    ASSUME ~NDEBUG, "delete_queued" \notin Extra
    PROVE  Spec => []OnlyCallerChecksFire
<1>1. Init => IInv /\ OnlyCallerChecksFire
  BY InitIInv DEF Init, OnlyCallerChecksFire
<1>2. IInv /\ OnlyCallerChecksFire /\ [Next]_vars => (IInv /\ OnlyCallerChecksFire)'
  BY NextKeepsIInv, GuardStep
<1>. QED  BY <1>1, <1>2, PTL DEF Spec

(* The debug build's scan decides membership: a detach goes through for    *)
(* the queued nodes and stops the process for every other live node.       *)
THEOREM DetachScanIsExact ==
    ASSUME ~NDEBUG, "delete_queued" \notin Extra
    PROVE  Spec => DetachIsExact
<1>. DEFINE Exact == \A n \in live : Detach(n) => (crash' = "none" <=> n \in Queued)
<1>1. IInv => Exact
  <2>1. SUFFICES ASSUME IInv, NEW n \in live, Detach(n)
                 PROVE  crash' = "none" <=> n \in Queued
    OBVIOUS
  <2>2. DetachFault(n) = "none" <=> n \in Queued
    BY <2>1, DetachFaults, DetachTakesQueued
  <2>3. crash' = IF DetachFault(n) = "none" THEN crash ELSE DetachFault(n)
    BY <2>1 DEF Detach, Abort, UnlinkNode
  <2>. QED  BY <2>1, <2>2, <2>3 DEF Detach, Running
<1>2. IInv /\ [Next]_vars => IInv'
  BY NextKeepsIInv
<1>. QED  BY InitIInv, <1>1, <1>2, PTL DEF Spec, DetachIsExact
-----------------------------------------------------------------------------
(* The bounded FIFO: the order of the nodes is unique, so the abstract     *)
(* sequence is what their payloads say along any order, and each call      *)
(* moves it as its action of BoundedFifo does.                             *)

LEMMA OrderIsUnique ==
    ASSUME TypeOK, NEW s, IsOrder(s), NEW t, IsOrder(t)
    PROVE  s = t
<1>. DEFINE T == {i \in 1 .. count : s[i] # t[i]}
<1>1. T = {}
  <2>1. SUFFICES ASSUME T # {} PROVE FALSE
    OBVIOUS
  <2>2. T \in SUBSET Nat
    OBVIOUS
  <2>. HIDE DEF T
  <2>3. PICK m \in T : \A k \in T : m <= k
    BY <2>1, <2>2, LeastNatural
  <2>. USE DEF T
  <2>4. m # 1
    BY DEF IsOrder, TypeOK
  <2>5. m - 1 \in 1 .. count /\ m \in 1 .. count /\ m - 1 \notin T /\ m - 1 # count
    BY <2>3, <2>4 DEF TypeOK
  <2>6. s[m - 1] = t[m - 1]
    BY <2>5
  <2>7. next[s[m - 1]] = s[m] /\ next[t[m - 1]] = t[m]
    <3>1. PICK k \in 1 .. count : k = m - 1
      BY <2>5
    <3>2. k # count /\ k + 1 = m
      BY <2>5, <3>1 DEF TypeOK
    <3>3. next[s[k]] = s[k + 1] /\ next[t[k]] = t[k + 1]
      BY <3>2 DEF IsOrder
    <3>. QED  BY <3>1, <3>2, <3>3
  <2>8. s[m] # t[m]
    OBVIOUS
  <2>. QED  BY <2>6, <2>7, <2>8
<1>2. \A i \in 1 .. count : s[i] = t[i]
  <2>. SUFFICES ASSUME NEW i \in 1 .. count, s[i] # t[i] PROVE i \in T
    BY <1>1
  <2>. QED  OBVIOUS
<1>3. s \in [1 .. count -> Queued] /\ t \in [1 .. count -> Queued]
  BY DEF IsOrder
<1>4. s = [i \in 1 .. count |-> s[i]] /\ t = [i \in 1 .. count |-> t[i]]
  BY <1>3
<1>. QED  BY <1>2, <1>4, Zenon

ItemsFollow == \A s : IsOrder(s) => ItemsOf = [i \in 1 .. count |-> data[s[i]]]

LEMMA ItemsAreOrdered == IInv => ItemsFollow
<1>1. SUFFICES ASSUME IInv, NEW s, IsOrder(s)
               PROVE  ItemsOf = [i \in 1 .. count |-> data[s[i]]]
  BY DEF ItemsFollow
<1>2. Contents = CHOOSE u \in [1 .. count -> Queued] : IsOrder(u)
  BY <1>1 DEF Contents, IInv
<1>3. \E u \in [1 .. count -> Queued] : IsOrder(u)
  BY <1>1 DEF IInv, WellLinked, InOrder
<1>4. IsOrder(Contents)
  BY <1>2, <1>3, Zenon
<1>5. Contents = s
  BY <1>1, <1>4, OrderIsUnique DEF IInv
<1>6. \A i \in 1 .. count : s[i] # NULL
  BY <1>1, ConstantsAssumption DEF IInv, TypeOK, IsOrder, Queued
<1>. QED  BY <1>5, <1>6 DEF ItemsOf

(* The same of the state a call leaves. *)
LEMMA ItemsAfter ==
    ASSUME IInv', NEW t, IsOrder(t)'
    PROVE  ItemsOf' = [i \in 1 .. count' |-> data'[t[i]]]
<1>1. IInv' => ItemsFollow'
  BY ItemsAreOrdered, PTL
<1>. QED  BY <1>1 DEF ItemsFollow

LEMMA ItemsUnchanged ==
    ASSUME IInv, IInv', UNCHANGED queue, Queued' = Queued,
           \A m \in Queued : next'[m] = next[m] /\ prev'[m] = prev[m] /\ data'[m] = data[m]
    PROVE  ItemsOf' = ItemsOf
<1>1. PICK s \in [1 .. count -> Queued] : IsOrder(s)
  BY DEF IInv, WellLinked, InOrder
<1>2. \A i \in 1 .. count : s[i] \in Queued
  OBVIOUS
<1>3. IsOrder(s)'
  BY <1>1, <1>2 DEF IsOrder, queue
<1>4. ItemsOf' = [i \in 1 .. count' |-> data'[s[i]]]
  BY <1>3, ItemsAfter
<1>5. ItemsOf = [i \in 1 .. count |-> data[s[i]]]
  BY <1>1, ItemsAreOrdered DEF ItemsFollow
<1>. QED  BY <1>2, <1>4, <1>5 DEF queue

LEMMA SequenceFacts ==
    ASSUME NEW c \in Nat, NEW q, q = [i \in 1 .. c |-> q[i]]
    PROVE  /\ Len(q) = c
           /\ q = <<>> <=> c = 0
           /\ \A d : Append(q, d) = [i \in 1 .. c + 1 |-> IF i = c + 1 THEN d ELSE q[i]]
           /\ c > 0 => Head(q) = q[1] /\ Tail(q) = [i \in 1 .. c - 1 |-> q[i + 1]]
<1>1. q \in Seq({q[i] : i \in 1 .. c}) /\ Len(q) = c
  OBVIOUS
<1>2. q = <<>> <=> c = 0
  BY <1>1
<1>3. \A d : Append(q, d) = [i \in 1 .. c + 1 |-> IF i = c + 1 THEN d ELSE q[i]]
  BY <1>1
<1>4. c > 0 => Head(q) = q[1] /\ Tail(q) = [i \in 1 .. c - 1 |-> q[i + 1]]
  BY <1>1
<1>. QED  BY <1>1, <1>2, <1>3, <1>4

-----------------------------------------------------------------------------
(* Each call is a step of the FIFO, or changes nothing that it shows.      *)

(* The queue, what it shows and the payloads stay; the result is r. *)
LEMMA ShowsTheSame ==
    ASSUME IInv, IInv', UNCHANGED <<queue, heap>>
    PROVE  ItemsOf' = ItemsOf /\ max_el' = max_el
<1>1. Queued' = Queued
  BY DEF Queued, heap
<1>. QED  BY <1>1, ItemsUnchanged DEF queue, heap

LengthFollows == Len(ItemsOf) = count /\ (ItemsOf = <<>> <=> count = 0)

LEMMA LengthIsCount == IInv => LengthFollows
<1>1. SUFFICES ASSUME IInv PROVE LengthFollows
  OBVIOUS
<1>2. PICK s \in [1 .. count -> Queued] : IsOrder(s)
  BY <1>1 DEF IInv, WellLinked, InOrder
<1>3. ItemsOf = [i \in 1 .. count |-> data[s[i]]]
  BY <1>1, <1>2, ItemsAreOrdered DEF ItemsFollow
<1>4. ItemsOf = [i \in 1 .. count |-> ItemsOf[i]]
  BY <1>3
<1>5. count \in Nat
  BY <1>1 DEF IInv, TypeOK
<1>. QED  BY <1>4, <1>5, SequenceFacts DEF LengthFollows

LEMMA AbortShowsNothing ==
    ASSUME IInv, IInv', NEW why, Abort(why)
    PROVE  UNCHANGED Fifo!vars
<1>1. ResultOf' = ResultOf
  BY DEF Abort, heap, ResultOf
<1>. QED  BY <1>1, ShowsTheSame DEF Abort, Fifo!vars

LEMMA RefusalIsAFifoStep ==
    ASSUME IInv, IInv', EnqueueFull \/ EnqueueNoMemory \/ DequeueEmpty
    PROVE  Fifo!PutFails \/ Fifo!GetFails
<1>1. ItemsOf' = ItemsOf /\ max_el' = max_el
  BY ShowsTheSame DEF EnqueueFull, EnqueueNoMemory, DequeueEmpty
<1>2. Len(ItemsOf) = count /\ (ItemsOf = <<>> <=> count = 0)
  BY LengthIsCount DEF LengthFollows
<1>3. count \in Nat /\ max_el \in Nat
  BY ConstantsAssumption DEF IInv, TypeOK
<1>4. \A e : res' = Fails(e) => ResultOf' = Fifo!Failure(e)
  BY DEF Fails, ResultOf, Fifo!Failure
<1>. QED  BY <1>1, <1>2, <1>3, <1>4
             DEF EnqueueFull, EnqueueNoMemory, DequeueEmpty, Fifo!PutFails, Fifo!GetFails

LEMMA EnqueueIsPut ==
    ASSUME IInv, IInv', NEW d \in Data, NEW n \in Nodes \ live, count < max_el,
           LinkTail(n, d)
    PROVE  Fifo!Put(d)
<1>1. PICK s \in [1 .. count -> Queued] : IsOrder(s)
  BY DEF IInv, WellLinked, InOrder
<1>2. PICK t : t = [i \in 1 .. count + 1 |-> IF i = count + 1 THEN n ELSE s[i]]
  OBVIOUS
<1>3. count \in Nat /\ count' = count + 1 /\ max_el' = max_el
  BY DEF IInv, TypeOK, LinkTail
<1>4. ItemsOf = [i \in 1 .. count |-> data[s[i]]]
  BY <1>1, ItemsAreOrdered DEF ItemsFollow
<1>5. ItemsOf' = [i \in 1 .. count + 1 |-> data'[t[i]]]
  <2>1. IsOrder(t)'
    BY <1>1, <1>2, EnqueueOrder, Zenon
  <2>2. ItemsOf' = [i \in 1 .. count' |-> data'[t[i]]]
    BY <2>1, ItemsAfter, Zenon
  <2>. QED  BY <1>3, <2>2
<1>6. data'[n] = d /\ \A i \in 1 .. count : data'[s[i]] = data[s[i]]
  BY DEF LinkTail, IInv, TypeOK, Queued
<1>7. ItemsOf' = [i \in 1 .. count + 1 |-> IF i = count + 1 THEN d ELSE ItemsOf[i]]
  BY <1>2, <1>3, <1>4, <1>5, <1>6
<1>8. ItemsOf' = Append(ItemsOf, d)
  <2>1. ItemsOf = [i \in 1 .. count |-> ItemsOf[i]]
    BY <1>4
  <2>. QED  BY <1>3, <1>7, <2>1, SequenceFacts
<1>9. ResultOf' = Fifo!Value(d)
  BY <1>6, ConstantsAssumption DEF LinkTail, Returns, ResultOf, Fifo!Value
<1>10. Len(ItemsOf) = count
  BY LengthIsCount DEF LengthFollows
<1>. QED  BY <1>3, <1>8, <1>9, <1>10 DEF Fifo!Put

LEMMA DequeueIsGet ==
    ASSUME IInv, IInv', count > 0, UnlinkHead
    PROVE  Fifo!Get
<1>1. PICK s \in [1 .. count -> Queued] : IsOrder(s)
  BY DEF IInv, WellLinked, InOrder
<1>2. PICK t : t = [i \in 1 .. count - 1 |-> s[i + 1]]
  OBVIOUS
<1>3. count \in Nat /\ count' = count - 1 /\ max_el' = max_el /\ data' = data
  BY DEF IInv, TypeOK, UnlinkHead
<1>4. ItemsOf = [i \in 1 .. count |-> data[s[i]]]
  BY <1>1, ItemsAreOrdered DEF ItemsFollow
<1>5. ItemsOf' = [i \in 1 .. count - 1 |-> data[t[i]]]
  <2>1. IsOrder(t)'
    BY <1>1, <1>2, DequeueOrder, Zenon
  <2>2. ItemsOf' = [i \in 1 .. count' |-> data'[t[i]]]
    BY <2>1, ItemsAfter, Zenon
  <2>. QED  BY <1>3, <2>2
<1>6. ItemsOf' = [i \in 1 .. count - 1 |-> ItemsOf[i + 1]]
  BY <1>2, <1>3, <1>4, <1>5
<1>7. ItemsOf' = Tail(ItemsOf) /\ Head(ItemsOf) = ItemsOf[1]
  <2>1. ItemsOf = [i \in 1 .. count |-> ItemsOf[i]]
    BY <1>4
  <2>. QED  BY <1>3, <1>6, <2>1, SequenceFacts
<1>8. ResultOf' = Fifo!Value(ItemsOf[1])
  <2>1. head = s[1] /\ ItemsOf[1] = data[head] /\ head # NULL
    BY <1>1, <1>3, <1>4, ConstantsAssumption DEF IsOrder, Queued, IInv, TypeOK
  <2>. QED  BY <1>3, <2>1 DEF UnlinkHead, Returns, ResultOf, Fifo!Value
<1>9. ItemsOf # <<>>
  BY <1>3, LengthIsCount DEF LengthFollows
<1>. QED  BY <1>3, <1>7, <1>8, <1>9 DEF Fifo!Get

LEMMA DetachIsTake ==
    ASSUME IInv, IInv', NEW n \in Queued, UnlinkNode(n)
    PROVE  \E k \in 1 .. Len(ItemsOf) : Fifo!Take(k)
<1>1. PICK s \in [1 .. count -> Queued] : IsOrder(s)
  BY DEF IInv, WellLinked, InOrder
<1>2. PICK k \in 1 .. count : n = s[k]
  BY <1>1 DEF IsOrder
<1>3. PICK t : t = [i \in 1 .. count - 1 |-> IF i < k THEN s[i] ELSE s[i + 1]]
  OBVIOUS
<1>4. /\ count \in Nat /\ count' = count - 1 /\ max_el' = max_el /\ data' = data
      /\ res' = Returns(n)
  BY DEF IInv, TypeOK, UnlinkNode
<1>5. ItemsOf = [i \in 1 .. count |-> data[s[i]]]
  BY <1>1, ItemsAreOrdered DEF ItemsFollow
<1>6. ItemsOf' = [i \in 1 .. count - 1 |-> data[t[i]]]
  <2>1. IsOrder(t)'
    BY <1>1, <1>2, <1>3, DetachOrder, Zenon
  <2>2. ItemsOf' = [i \in 1 .. count' |-> data'[t[i]]]
    BY <2>1, ItemsAfter, Zenon
  <2>. QED  BY <1>4, <2>2
<1>7. ItemsOf' = [i \in 1 .. count - 1 |-> IF i < k THEN ItemsOf[i] ELSE ItemsOf[i + 1]]
  BY <1>3, <1>4, <1>5, <1>6
<1>8. Len(ItemsOf) = count
  BY LengthIsCount DEF LengthFollows
<1>9. ItemsOf' = Fifo!Without(k)
  BY <1>7, <1>8 DEF Fifo!Without
<1>10. ResultOf' = Fifo!Value(ItemsOf[k])
  <2>1. ItemsOf[k] = data[n] /\ n # NULL
    BY <1>2, <1>5, ConstantsAssumption DEF Queued, IInv, TypeOK
  <2>. QED  BY <1>4, <2>1 DEF Returns, ResultOf, Fifo!Value
<1>11. Fifo!Take(k)
  BY <1>4, <1>9, <1>10 DEF Fifo!Take
<1>. QED  BY <1>8, <1>11

(* The calls that return nothing. *)
LEMMA VoidIsAFifoStep ==
    ASSUME IInv, IInv', res' = Void
    PROVE  /\ ItemsOf' = ItemsOf /\ max_el' = max_el => Fifo!Release
           /\ \A m : ItemsOf = <<>> /\ ItemsOf' = ItemsOf /\ max_el' = m => Fifo!Reset(m)
           /\ ItemsOf' = <<>> /\ max_el' = 0 => Fifo!Destroy
<1>1. ResultOf' = Fifo!Void
  BY DEF Void, ResultOf, Fifo!Void
<1>. QED  BY <1>1 DEF Fifo!Release, Fifo!Reset, Fifo!Destroy

LEMMA StepIsAFifoStep ==
    ASSUME "delete_queued" \notin Extra, IInv, IInv', [Next]_vars
    PROVE  [Fifo!Next]_(Fifo!vars)
<1>1. /\ ItemsOf = <<>> <=> count = 0
      /\ ItemsOf' = <<>> <=> count' = 0
      /\ Len(ItemsOf) = count
  <2>1. IInv' => LengthFollows'
    BY LengthIsCount, PTL
  <2>. QED  BY <2>1, LengthIsCount DEF LengthFollows
<1>2. CASE \E m \in MaxEls : QueueInit(m)
  <2>1. PICK m \in MaxEls : QueueInit(m)
    BY <1>2
  <2>2. ItemsOf = <<>> /\ ItemsOf' = ItemsOf
    BY <1>1, <2>1 DEF QueueInit
  <2>3. Fifo!Reset(m)
    BY <2>1, <2>2, VoidIsAFifoStep DEF QueueInit
  <2>. QED  BY <2>3 DEF Fifo!Next
<1>3. CASE EnqueueFull \/ EnqueueNoMemory \/ DequeueEmpty
  BY <1>3, RefusalIsAFifoStep DEF Fifo!Next
<1>4. CASE \E d \in Data : Enqueue(d)
  <2>1. PICK d \in Data, n \in Nodes \ live :
           /\ count < max_el
           /\ IF EnqueueFault # "none" THEN Abort(EnqueueFault) ELSE LinkTail(n, d)
    BY <1>4 DEF Enqueue
  <2>2. Fifo!Put(d) \/ UNCHANGED Fifo!vars
    BY <2>1, EnqueueIsPut, AbortShowsNothing
  <2>. QED  BY <2>2 DEF Fifo!Next
<1>5. CASE Dequeue
  <2>1. UnlinkHead /\ count > 0
    BY <1>5, DequeueFaults DEF Dequeue, IInv, TypeOK
  <2>. QED  BY <2>1, DequeueIsGet DEF Fifo!Next
<1>6. CASE \E n \in Detachable : Detach(n)
  <2>1. PICK n \in live : Detach(n)
    BY <1>6 DEF Detachable, Queued
  <2>2. CASE DetachFault(n) = "none"
    <3>1. n \in Queued /\ UnlinkNode(n)
      BY <2>1, <2>2, DetachTakesQueued DEF Detach
    <3>. QED  BY <3>1, DetachIsTake DEF Fifo!Next
  <2>3. CASE DetachFault(n) # "none"
    BY <2>1, <2>3, AbortShowsNothing DEF Detach
  <2>. QED  BY <2>2, <2>3
<1>7. CASE Create \/ \E n \in Deletable : Delete(n)
  <2>1. /\ Queued' = Queued /\ res' = Void /\ UNCHANGED queue
        /\ \A m \in Queued : next'[m] = next[m] /\ prev'[m] = prev[m] /\ data'[m] = data[m]
    <3>1. CASE Create
      BY <3>1 DEF Create, links, Queued, IInv, TypeOK
    <3>2. CASE \E n \in Deletable : Delete(n)
      BY <3>2 DEF Deletable, Delete, Free, Queued, IInv, TypeOK
    <3>. QED  BY <1>7, <3>1, <3>2
  <2>2. ItemsOf' = ItemsOf /\ max_el' = max_el
    BY <2>1, ItemsUnchanged DEF queue
  <2>3. Fifo!Release
    BY <2>1, <2>2, VoidIsAFifoStep
  <2>. QED  BY <2>3 DEF Fifo!Next
<1>8. CASE \E n \in Deletable : DeleteRefused(n)
  BY <1>8, AbortShowsNothing DEF DeleteRefused
<1>9. CASE Destroy
  <2>1. Clear
    BY <1>9, DestroyFaults DEF Destroy
  <2>2. ItemsOf' = <<>> /\ max_el' = 0 /\ res' = Void
    BY <1>1, <2>1 DEF Clear
  <2>. QED  BY <2>2, VoidIsAFifoStep DEF Fifo!Next
<1>10. CASE UNCHANGED vars
  <2>1. ItemsOf' = ItemsOf /\ max_el' = max_el
    BY <1>10, ShowsTheSame DEF vars, queue, heap
  <2>2. ResultOf' = ResultOf
    BY <1>10 DEF vars, ResultOf
  <2>. QED  BY <2>1, <2>2 DEF Fifo!vars
<1>. QED
  BY <1>2, <1>3, <1>4, <1>5, <1>6, <1>7, <1>8, <1>9, <1>10 DEF Next

(* queue.c implements the bounded FIFO, in both builds: every call does to *)
(* the sequence of payloads what the FIFO's action says and returns what   *)
(* it says, or stops the process and shows nothing.                        *)
THEOREM QueueImplementsFifo ==
    ASSUME "delete_queued" \notin Extra
    PROVE  Spec => ImplementsFifo
<1>1. Init => Fifo!Init
  <2>1. SUFFICES ASSUME Init PROVE Fifo!Init
    OBVIOUS
  <2>2. ItemsOf = <<>>
    BY <2>1, InitIInv, LengthIsCount DEF Init, LengthFollows
  <2>3. ResultOf = Fifo!Void
    BY <2>1 DEF Init, Void, ResultOf, Fifo!Void
  <2>. QED  BY <2>1, <2>2, <2>3 DEF Init, Fifo!Init
<1>2. IInv /\ [Next]_vars => IInv'
  BY NextKeepsIInv
<1>3. IInv /\ IInv' /\ [Next]_vars => [Fifo!Next]_(Fifo!vars)
  BY StepIsAFifoStep
<1>. QED  BY InitIInv, <1>1, <1>2, <1>3, PTL DEF Spec, ImplementsFifo, Fifo!Spec
=============================================================================
