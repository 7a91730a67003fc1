-------------------------------- MODULE Que ---------------------------------
(***************************************************************************)
(* The older tree's lib/que.h: the list the queue library grew out of.     *)
(* Its nodes are linked both ways but only ever followed forwards, and a   *)
(* dequeue that empties the list clears both ends.                         *)
(*                                                                         *)
(* The caller keeps to the header: it initialises an empty queue only, and *)
(* frees each node it dequeued once.                                       *)
(***************************************************************************)
EXTENDS Integers, FiniteSets, SequencesExt

CONSTANTS
    QueNodes,       \* the addresses aligned_alloc may return
    QueData,        \* what is stored
    QueCapacities,  \* the capacities given to que_init
    Nil             \* NULL

ASSUME QueAssumption ==
    /\ IsFiniteSet(QueNodes) /\ Nil \notin QueNodes \cup QueData
    /\ QueCapacities \subseteq Nat

VARIABLES
    que,        \* struct que_master
    que_heap,   \* the allocated nodes: [next, prev, data]
    que_held,   \* the nodes the caller dequeued and has not freed
    que_res,    \* the result of the last call: the value of the node, errno
    que_fault   \* the assertion that stopped the process, or "none"

queVars == <<que, que_heap, que_held, que_res, que_fault>>

QueReturns(v, e) == que_res' = [val |-> v, err |-> e] /\ UNCHANGED que_fault

QueAsserts(what) ==
    /\ que_fault' = what
    /\ UNCHANGED <<que, que_heap, que_held, que_res>>

QueEmpty(c) == [head |-> Nil, tail |-> Nil, count |-> 0, capacity |-> c]

QueInit ==
    /\ que = QueEmpty(0)
    /\ que_heap = <<>> /\ que_held = {}
    /\ que_res = [val |-> Nil, err |-> "none"] /\ que_fault = "none"

que_init(c) ==
    /\ que.count = 0
    /\ que' = QueEmpty(c)
    /\ QueReturns(Nil, "none")
    /\ UNCHANGED <<que_heap, que_held>>

QueFull ==
    /\ que.count >= que.capacity
    /\ QueReturns(Nil, "EAGAIN")
    /\ UNCHANGED <<que, que_heap, que_held>>

QueNoMemory ==
    /\ que.count < que.capacity
    /\ QueReturns(Nil, "ENOMEM")
    /\ UNCHANGED <<que, que_heap, que_held>>

(* The node n is written, then linked behind the tail. *)
QueLink(n, d) ==
    LET old  == que.tail
        node == [next |-> Nil, prev |-> IF que.head = Nil THEN Nil ELSE old, data |-> d]
        heap == IF que.head = Nil THEN que_heap
                ELSE [que_heap EXCEPT ![old].next = n]
    IN  /\ que_heap' = [m \in DOMAIN heap \cup {n} |-> IF m = n THEN node ELSE heap[m]]
        /\ que' = [que EXCEPT !.head = IF @ = Nil THEN n ELSE @,
                              !.tail = n,
                              !.count = @ + 1]

que_enqueue(d) ==
    \/ QueFull
    \/ QueNoMemory
    \/ /\ que.count < que.capacity
       /\ que.head = Nil <=> que.tail = Nil
       /\ \E n \in QueNodes \ DOMAIN que_heap : QueLink(n, d)
       /\ QueReturns(d, "none")
       /\ UNCHANGED que_held
    \/ /\ que.count < que.capacity
       /\ ~(que.head = Nil <=> que.tail = Nil)
       /\ QueAsserts("enqueue tail")

(* Variant: the emptied list keeps its tail. *)
QueUnlinkKeepsTail ==
    LET next == que_heap[que.head].next
    IN  que' = [que EXCEPT !.head = next, !.count = @ - 1]

(* The new head keeps its link back to the node that left. *)
QueUnlink ==
    LET next == que_heap[que.head].next
    IN  que' = [que EXCEPT !.head = next,
                           !.tail = IF next = Nil THEN Nil ELSE @,
                           !.count = @ - 1]

QueLast == que.count = 1 /\ que.head = que.tail

(* An empty queue returns NULL and leaves errno alone. *)
que_dequeue ==
    \/ /\ que.count = 0
       /\ que.head = Nil /\ que.tail = Nil
       /\ QueReturns(Nil, "none")
       /\ UNCHANGED <<que, que_heap, que_held>>
    \/ /\ que.count > 0 /\ que.head \in DOMAIN que_heap
       /\ que_heap[que.head].next = Nil => QueLast
       /\ QueUnlink
       /\ que_held' = que_held \cup {que.head}
       /\ QueReturns(que_heap[que.head].data, "none")
       /\ UNCHANGED que_heap
    \/ /\ IF que.count = 0 THEN ~(que.head = Nil /\ que.tail = Nil)
          ELSE \/ que.head \notin DOMAIN que_heap
               \/ que_heap[que.head].next = Nil /\ ~QueLast
       /\ QueAsserts("dequeue")

que_node_destroy(n) ==
    /\ n \in que_held
    /\ que_heap' = [m \in DOMAIN que_heap \ {n} |-> que_heap[m]]
    /\ que_held' = que_held \ {n}
    /\ QueReturns(Nil, "none")
    /\ UNCHANGED que

(* The nodes from the head on, and then Nil. *)
QueOrder ==
    LET at[i \in 1 .. que.count + Cardinality(QueNodes)] ==
            IF i = 1 THEN que.head
            ELSE IF at[i - 1] \in DOMAIN que_heap THEN que_heap[at[i - 1]].next ELSE Nil
    IN  at

que_destroy ==
    /\ que_heap' = IF que.count = 0 THEN que_heap
                   ELSE [m \in DOMAIN que_heap \ Range(QueOrder) |-> que_heap[m]]
    /\ que' = QueEmpty(0)
    /\ QueReturns(Nil, "none")
    /\ UNCHANGED que_held

QueNext ==
    /\ que_fault = "none"
    /\ \/ \E c \in QueCapacities : que_init(c)
       \/ \E d \in QueData : que_enqueue(d)
       \/ que_dequeue
       \/ \E n \in QueNodes : que_node_destroy(n)
       \/ que_destroy

QueSpec == QueInit /\ [][QueNext]_queVars

-----------------------------------------------------------------------------

(* What the abstract queue sees; a process that was stopped by one of the  *)
(* header's assertions has answered what no queue answers.                 *)
QueItems ==
    [i \in 1 .. que.count |->
        IF QueOrder[i] \in DOMAIN que_heap THEN que_heap[QueOrder[i]].data ELSE Nil]

QueResult == IF que_fault = "none" THEN que_res ELSE [val |-> Nil, err |-> que_fault]

Abstract == INSTANCE BoundedFifo WITH
                Data <- QueData, Capacities <- QueCapacities \cup {0}, NULL <- Nil,
                EmptyErr <- "none",
                items <- QueItems, cap <- que.capacity, res <- QueResult

(* Through every sequence of calls, with memory running out at any of      *)
(* them, the list is the bounded queue its name promises, none of the      *)
(* assertions on its ends and its count ever fires, and every node that is *)
(* allocated is in the list or with the caller.                            *)
QueImplementsFifo ==
    /\ Abstract!Spec
    /\ [](Cardinality(DOMAIN que_heap) = que.count + Cardinality(que_held))

-----------------------------------------------------------------------------
(***************************************************************************)
(* The inductive invariant                                                 *)
(***************************************************************************)

(* The nodes in the list. *)
Listed == DOMAIN que_heap \ que_held

QueTypeOK ==
    /\ que \in [head : QueNodes \cup {Nil}, tail : QueNodes \cup {Nil},
                count : Nat, capacity : QueCapacities \cup {0}]
    /\ DOMAIN que_heap \subseteq QueNodes
    /\ que_heap \in [DOMAIN que_heap -> [next : QueNodes \cup {Nil}, prev : QueNodes \cup {Nil},
                                         data : QueData]]
    /\ que_held \subseteq DOMAIN que_heap
    /\ que_fault = "none"

(* The list from the head to the tail has each of its nodes once; what a   *)
(* node says of the one before it is not kept up and nobody reads it.      *)
QueIsOrder(s) ==
    /\ s \in [1 .. que.count -> Listed]
    /\ \A i, j \in 1 .. que.count : s[i] = s[j] => i = j
    /\ \A n \in Listed : \E i \in 1 .. que.count : s[i] = n
    /\ IF que.count = 0 THEN que.head = Nil /\ que.tail = Nil
       ELSE que.head = s[1] /\ que.tail = s[que.count]
    /\ \A i \in 1 .. que.count :
           que_heap[s[i]].next = IF i = que.count THEN Nil ELSE s[i + 1]

QueLinked == \E s \in [1 .. que.count -> Listed] : QueIsOrder(s)

QueIInv == QueTypeOK /\ QueLinked
=============================================================================
