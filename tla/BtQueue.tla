------------------------------- MODULE BtQueue -------------------------------
(***************************************************************************)
(* bluetea/lib/queue.c and queue.h at the level of the pointers: the queue *)
(* structure (head, tail, count, max_el), the nodes malloc gave out and    *)
(* their next/prev links, the assertions of the debug build and the FATAL  *)
(* checks that abort the process.  One action is one call of the library.  *)
(*                                                                         *)
(* The caller keeps the library's contract: it deletes and detaches what   *)
(* it may, uses no pointer it has given back, and initialises only a queue *)
(* that is empty.  Extra names the calls beyond that contract.             *)
(***************************************************************************)
EXTENDS Integers, FiniteSets

CONSTANTS
    Nodes,      \* the addresses malloc can return
    Data,       \* the payloads
    MaxEls,     \* the capacities given to bt_queue_init
    NDEBUG,     \* TRUE: the release build, compiled without assertions
    Extra,      \* calls beyond the contract, a subset of ExtraCalls
    NULL,
    Garbage     \* what a field that was never written, or was freed, reads as

(* create: the caller takes a node from bt_qnode_create itself.            *)
(* detach_foreign: it detaches a live node that is not in the queue.       *)
(* delete_queued: it deletes a node that is still in the queue.            *)
ExtraCalls == {"create", "detach_foreign", "delete_queued"}

ASSUME ConstantsAssumption ==
    /\ MaxEls \subseteq Nat
    /\ NDEBUG \in BOOLEAN
    /\ Extra \subseteq ExtraCalls
    /\ NULL \notin Nodes /\ Garbage \notin Nodes \cup {NULL}
    /\ NULL \notin Data /\ Garbage \notin Data
    /\ IsFiniteSet(Nodes)

VARIABLES
    head, tail, count, max_el,  \* bt_queue_t
    next, prev, data,           \* bt_qnode_t, for every address
    live,                       \* the addresses malloc gave out and free did not take
    owned,                      \* the live nodes the caller holds outside the queue
    res,                        \* what the last call returned, and errno
    crash                       \* the check that stopped the process, or "none"

queue  == <<head, tail, count, max_el>>
links  == <<next, prev>>
heap   == <<next, prev, data, live, owned>>
vars   == <<head, tail, count, max_el, next, prev, data, live, owned, res, crash>>

Queued == live \ owned

Void       == [node |-> NULL, err |-> "none"]
Returns(n) == [node |-> n, err |-> "none"]
Fails(e)   == [node |-> NULL, err |-> e]

(* "wild" is a dereference of NULL, of a freed node or of garbage; the     *)
(* others are the assertions and FATAL checks of queue.c.                  *)
Checks == {"wild", "enqueue tail", "dequeue head", "dequeue prev",
           "destroy count", "delete referenced",
           "detach empty", "detach absent", "detach count"}

Running    == crash = "none"
Abort(why) == crash' = why /\ UNCHANGED <<queue, heap, res>>

(***************************************************************************)
(* Following a link field from p while it leads to live nodes: the least   *)
(* set that has p and is closed under the field.                           *)
(***************************************************************************)
ClosedFrom(S, p, field) ==
    /\ p \in live => p \in S
    /\ \A m \in S : field[m] \in live => field[m] \in S

Reach(p, field) ==
    {n \in live : \A S \in SUBSET live : ClosedFrom(S, p, field) => n \in S}

(* The walk from p ends at NULL and not at a wild pointer. *)
EndsAtNull(p, field) ==
    /\ p \in live \cup {NULL}
    /\ \A n \in Reach(p, field) : field[n] \in live \cup {NULL}

(***************************************************************************)
(* The program starts with a queue it has just initialised.                *)
(***************************************************************************)
Init ==
    /\ head = NULL /\ tail = NULL /\ count = 0
    /\ max_el \in MaxEls
    /\ next = [n \in Nodes |-> Garbage]
    /\ prev = [n \in Nodes |-> Garbage]
    /\ data = [n \in Nodes |-> Garbage]
    /\ live = {} /\ owned = {}
    /\ res = Void
    /\ crash = "none"

(* bt_queue_init on a queue that holds nothing. *)
QueueInit(m) ==
    /\ Running
    /\ count = 0
    /\ head' = NULL /\ tail' = NULL /\ count' = 0
    /\ max_el' = m
    /\ res' = Void
    /\ UNCHANGED <<heap, crash>>

(***************************************************************************)
(* bt_queue_enqueue                                                        *)
(***************************************************************************)
EnqueueFault ==
    CASE head = NULL /\ tail # NULL /\ ~NDEBUG -> "enqueue tail"
      [] head # NULL /\ tail \notin live       -> "wild"
      [] OTHER                                 -> "none"

(* Variant: the last place is never given out. *)
EnqueueFullEarly ==
    /\ Running
    /\ count + 1 >= max_el
    /\ res' = Fails("EAGAIN")
    /\ UNCHANGED <<queue, heap, crash>>

EnqueueFull ==
    /\ Running
    /\ count >= max_el
    /\ res' = Fails("EAGAIN")
    /\ UNCHANGED <<queue, heap, crash>>

(* Variant: a failing malloc leaves the counter incremented. *)
EnqueueNoMemoryCounted ==
    /\ Running
    /\ count < max_el
    /\ count' = count + 1
    /\ res' = Fails("ENOMEM")
    /\ UNCHANGED <<head, tail, max_el, heap, crash>>

EnqueueNoMemory ==
    /\ Running
    /\ count < max_el
    /\ res' = Fails("ENOMEM")
    /\ UNCHANGED <<queue, heap, crash>>

(* Node n, fresh from malloc and filled with d, becomes the tail. *)
LinkTail(n, d) ==
    /\ live' = live \cup {n}
    /\ owned' = owned
    /\ data' = [data EXCEPT ![n] = d]
    /\ count' = count + 1
    /\ max_el' = max_el
    /\ tail' = n
    /\ \/ /\ head = NULL
          /\ head' = n
          /\ next' = [next EXCEPT ![n] = NULL]
          /\ prev' = [prev EXCEPT ![n] = NULL]
       \/ /\ head # NULL
          /\ head' = head
          /\ next' = [next EXCEPT ![n] = NULL, ![tail] = n]
          /\ prev' = [prev EXCEPT ![n] = tail]
    /\ res' = Returns(n)
    /\ crash' = crash

Enqueue(d) ==
    /\ Running
    /\ count < max_el
    /\ \E n \in Nodes \ live :
          IF EnqueueFault # "none" THEN Abort(EnqueueFault) ELSE LinkTail(n, d)

(***************************************************************************)
(* bt_queue_dequeue.  The tail field is not written, whatever leaves.      *)
(***************************************************************************)
DequeueFault ==
    CASE head = NULL /\ ~NDEBUG                        -> "dequeue head"
      [] head \notin live                              -> "wild"
      [] head \in live /\ prev[head] # NULL /\ ~NDEBUG -> "dequeue prev"
      [] head \in live /\ next[head] \notin live \cup {NULL} -> "wild"
      [] OTHER                                         -> "none"

(* Variant: the node that leaves keeps its successor. *)
UnlinkHeadKeepsNext ==
    /\ head' = next[head]
    /\ UNCHANGED <<tail, max_el, data, next, live, crash>>
    /\ prev' = [n \in Nodes |-> IF n \in {head, next[head]} THEN NULL ELSE prev[n]]
    /\ count' = count - 1
    /\ owned' = owned \cup {head}
    /\ res' = Returns(head)

UnlinkHead ==
    /\ head' = next[head]
    /\ UNCHANGED <<tail, max_el, data, live, crash>>
    /\ next' = [next EXCEPT ![head] = NULL]
    /\ prev' = [n \in Nodes |-> IF n \in {head, next[head]} THEN NULL ELSE prev[n]]
    /\ count' = count - 1
    /\ owned' = owned \cup {head}
    /\ res' = Returns(head)

DequeueEmpty ==
    /\ Running
    /\ count = 0
    /\ res' = Fails("EAGAIN")
    /\ UNCHANGED <<queue, heap, crash>>

(* Variant: the counter goes down before anything is looked at. *)
DequeueCountsFirst ==
    /\ Running
    /\ count' = count - 1
    /\ UNCHANGED <<head, tail, max_el, heap, res, crash>>

Dequeue ==
    /\ Running
    /\ count # 0
    /\ IF DequeueFault # "none" THEN Abort(DequeueFault) ELSE UnlinkHead

(***************************************************************************)
(* bt_qnode_detach.  The debug build scans the queue from both ends at     *)
(* once and refuses a node it does not meet.                               *)
(***************************************************************************)
(* Variant: the scan looks at the two ends only. *)
FoundAtEnds(n) == n \in {head, tail}

Found(n) == n \in Reach(head, next) \/ n \in Reach(tail, prev)

(* Variant: the debug build does not scan. *)
ScanFaultNever(n) == "none"

ScanFault(n) ==
    CASE NDEBUG                                              -> "none"
      [] ~NDEBUG /\ count = 0                                -> "detach empty"
      [] ~NDEBUG /\ count # 0 /\ Found(n)                    -> "none"
      [] ~NDEBUG /\ count # 0 /\ ~Found(n)
            /\ EndsAtNull(head, next) /\ EndsAtNull(tail, prev) -> "detach absent"
      [] OTHER                                               -> "wild"

(* What the four branches dereference, and the check of the first one. *)
BranchFault(n) ==
    CASE n = head /\ n = tail -> IF count # 1 THEN "detach count" ELSE "none"
      [] n = head /\ n # tail -> IF next[n] \notin live THEN "wild" ELSE "none"
      [] n # head /\ n = tail -> IF prev[n] \notin live THEN "wild" ELSE "none"
      [] OTHER -> IF {next[n], prev[n]} \subseteq live THEN "none" ELSE "wild"

DetachFault(n) == IF ScanFault(n) # "none" THEN ScanFault(n) ELSE BranchFault(n)

UnlinkNode(n) ==
    /\ \/ /\ n = head /\ n = tail
          /\ head' = NULL /\ tail' = NULL
          /\ next' = [next EXCEPT ![n] = NULL]
          /\ prev' = [prev EXCEPT ![n] = NULL]
       \/ /\ n = head /\ n # tail
          /\ head' = next[n] /\ tail' = tail
          /\ next' = [next EXCEPT ![n] = NULL]
          /\ prev' = [prev EXCEPT ![next[n]] = NULL, ![n] = NULL]
       \/ /\ n # head /\ n = tail
          /\ head' = head /\ tail' = prev[n]
          /\ next' = [next EXCEPT ![prev[n]] = NULL, ![n] = NULL]
          /\ prev' = [prev EXCEPT ![n] = NULL]
       \/ /\ n # head /\ n # tail
          /\ head' = head /\ tail' = tail
          /\ next' = [next EXCEPT ![prev[n]] = next[n], ![n] = NULL]
          /\ prev' = [prev EXCEPT ![next[n]] = prev[n], ![n] = NULL]
    /\ count' = count - 1
    /\ owned' = owned \cup {n}
    /\ res' = Returns(n)
    /\ UNCHANGED <<max_el, data, live, crash>>

Detach(n) ==
    /\ Running
    /\ IF DetachFault(n) # "none" THEN Abort(DetachFault(n)) ELSE UnlinkNode(n)

(***************************************************************************)
(* bt_qnode_create and bt_qnode_delete.  A created node's links are what   *)
(* malloc left there, so the test of bt_qnode_delete may go either way.    *)
(***************************************************************************)
Create ==
    /\ Running
    /\ "create" \in Extra
    /\ \E n \in Nodes \ live : live' = live \cup {n} /\ owned' = owned \cup {n}
    /\ res' = Void
    /\ UNCHANGED <<queue, links, data, crash>>

Free(S) ==
    /\ live' = live \ S
    /\ owned' = owned \ S
    /\ next' = [n \in Nodes |-> IF n \in S THEN Garbage ELSE next[n]]
    /\ prev' = [n \in Nodes |-> IF n \in S THEN Garbage ELSE prev[n]]
    /\ data' = [n \in Nodes |-> IF n \in S THEN Garbage ELSE data[n]]

MayBeNull(p) == p \in {NULL, Garbage}

DeleteRefused(n) ==
    /\ Running
    /\ next[n] # NULL \/ prev[n] # NULL
    /\ Abort("delete referenced")

Delete(n) ==
    /\ Running
    /\ MayBeNull(next[n]) /\ MayBeNull(prev[n])
    /\ Free({n})
    /\ res' = Void
    /\ UNCHANGED <<queue, crash>>

(***************************************************************************)
(* bt_queue_destroy frees what a walk from the head meets and clears the   *)
(* structure, its capacity included.                                       *)
(***************************************************************************)
DestroyFault ==
    CASE count # 0 /\ ~EndsAtNull(head, next)                 -> "wild"
      [] count # 0 /\ EndsAtNull(head, next)
            /\ Cardinality(Reach(head, next)) # count         -> "destroy count"
      [] OTHER                                                -> "none"

Clear ==
    /\ head' = NULL /\ tail' = NULL /\ count' = 0 /\ max_el' = 0
    /\ Free(IF count = 0 THEN {} ELSE Reach(head, next))
    /\ res' = Void
    /\ crash' = crash

Destroy ==
    /\ Running
    /\ IF DestroyFault # "none" THEN Abort(DestroyFault) ELSE Clear

Detachable == IF "detach_foreign" \in Extra THEN live ELSE Queued
Deletable  == IF "delete_queued" \in Extra THEN live ELSE owned

Next ==
    \/ \E m \in MaxEls : QueueInit(m)
    \/ EnqueueFull
    \/ EnqueueNoMemory
    \/ \E d \in Data : Enqueue(d)
    \/ DequeueEmpty
    \/ Dequeue
    \/ \E n \in Detachable : Detach(n)
    \/ Create
    \/ \E n \in Deletable : Delete(n)
    \/ \E n \in Deletable : DeleteRefused(n)
    \/ Destroy

Spec == Init /\ [][Next]_vars

(***************************************************************************)
(* Properties                                                              *)
(***************************************************************************)

(* The fields hold pointers, counters and results of their C types. *)
TypeOK ==
    /\ head \in Nodes \cup {NULL}
    /\ tail \in Nodes \cup {NULL}
    /\ count \in Nat
    /\ max_el \in MaxEls \cup {0}
    /\ next \in [Nodes -> Nodes \cup {NULL, Garbage}]
    /\ prev \in [Nodes -> Nodes \cup {NULL, Garbage}]
    /\ data \in [Nodes -> Data \cup {Garbage}]
    /\ live \subseteq Nodes
    /\ owned \subseteq live
    /\ res \in [node : Nodes \cup {NULL}, err : {"none", "EAGAIN", "ENOMEM"}]
    /\ crash \in Checks \cup {"none"}

(* s lists the queued nodes, each once, in the order both links give. *)
IsOrder(s) ==
    /\ s \in [1 .. count -> Queued]
    /\ \A i, j \in 1 .. count : s[i] = s[j] => i = j
    /\ \A n \in Queued : \E i \in 1 .. count : s[i] = n
    /\ count > 0 => head = s[1] /\ tail = s[count]
    /\ \A i \in 1 .. count :
          /\ next[s[i]] = IF i = count THEN NULL ELSE s[i + 1]
          /\ prev[s[i]] = IF i = 1 THEN NULL ELSE s[i - 1]

InOrder == \E s \in [1 .. count -> Queued] : IsOrder(s)

(* An address outside the queue, the caller's or free, refers to no node. *)
OutsideUnlinked == \A n \in Nodes \ Queued : MayBeNull(next[n]) /\ MayBeNull(prev[n])

(***************************************************************************)
(* The queue is one well-formed doubly linked list: the walk from the head *)
(* and the walk from the tail are the reverse of each other, count is      *)
(* their length and at most max_el, and they pass through every live node  *)
(* the caller does not hold, so no call loses, leaks or shares a node; no  *)
(* address outside the queue refers into it.  After the last node is       *)
(* dequeued nothing is said of tail.                                       *)
(***************************************************************************)
WellLinked ==
    /\ count <= max_el
    /\ count = 0 => head = NULL
    /\ InOrder
    /\ OutsideUnlinked

(* A node that left the queue points at nothing: the caller may always     *)
(* delete what dequeue and detach gave it (queue.c:72 never fires).        *)
CallerNodesUnlinked ==
    \A n \in owned : next[n] = NULL /\ prev[n] = NULL

(* A caller that keeps the contract never reaches abort() nor an invalid   *)
(* access.                                                                 *)
NeverAborts == crash = "none"

(* Of the debug build with careless callers: only the checks that guard    *)
(* against the caller fire, and the one on the empty queue's tail; the     *)
(* checks of the queue's own structure and wild accesses never do.         *)
OnlyCallerChecksFire ==
    crash \in {"none", "detach empty", "detach absent", "delete referenced",
               "enqueue tail"}

(* The debug build's detach stops the process for exactly the nodes that   *)
(* are not in the queue: a step that returns a node took it from the       *)
(* queue, and a refusal means that a live node outside it was passed.      *)
DetachIsExact ==
    [][\A n \in live :
          Detach(n) => (crash' = "none" <=> n \in Queued)]_vars

(* What queue.c:112 asserts: an empty queue has no tail. *)
EmptyQueueAssertionHolds == crash # "enqueue tail"

(***************************************************************************)
(* The bounded FIFO the library promises.                                  *)
(***************************************************************************)
Contents ==
    IF WellLinked THEN CHOOSE s \in [1 .. count -> Queued] : IsOrder(s)
                  ELSE [i \in 1 .. count |-> NULL]

ItemsOf == [i \in 1 .. count |-> IF Contents[i] = NULL THEN Garbage ELSE data[Contents[i]]]

ResultOf == [val |-> IF res.node = NULL THEN NULL ELSE data[res.node],
             err |-> res.err]

Fifo == INSTANCE BoundedFifo WITH
            EmptyErr <- "EAGAIN", Capacities <- MaxEls,
            items <- ItemsOf, cap <- max_el, res <- ResultOf

(* Every call of the library is a step of the FIFO, or stops the process. *)
ImplementsFifo == Fifo!Spec
=============================================================================
