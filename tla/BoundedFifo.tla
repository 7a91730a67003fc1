---------------------------- MODULE BoundedFifo ----------------------------
(***************************************************************************)
(* What the queue library promises its caller, with no node, no pointer    *)
(* and no heap: a sequence of at most cap values, appended at one end,     *)
(* taken from the other, and removable from the middle.  BtQueue and the   *)
(* older Que are shown to implement it.                                    *)
(***************************************************************************)
EXTENDS Integers, Sequences

CONSTANTS
    Data,       \* the payloads a caller stores
    Capacities, \* the limits a caller gives to the initialisation
    NULL,       \* "no value"
    EmptyErr    \* the errno with which an empty queue refuses

VARIABLES
    items,      \* the stored values, oldest first
    cap,        \* how many values the queue accepts
    res         \* the result of the last call

vars == <<items, cap, res>>

Void        == [val |-> NULL, err |-> "none"]
Value(v)    == [val |-> v, err |-> "none"]
Failure(e)  == [val |-> NULL, err |-> e]
Without(i)  == [j \in 1 .. Len(items) - 1 |->
                  IF j < i THEN items[j] ELSE items[j + 1]]

Init ==
    /\ items = <<>>
    /\ cap \in Capacities
    /\ res = Void

(* An empty queue may be given a new capacity. *)
Reset(c) ==
    /\ items = <<>>
    /\ items' = items
    /\ cap' = c
    /\ res' = Void

Put(d) ==
    /\ Len(items) < cap
    /\ items' = Append(items, d)
    /\ cap' = cap
    /\ res' = Value(d)

(* A full queue refuses; memory may run out before the queue is full. *)
PutFails ==
    /\ UNCHANGED <<items, cap>>
    /\ res' = Failure(IF Len(items) >= cap THEN "EAGAIN" ELSE "ENOMEM")

Get ==
    /\ items # <<>>
    /\ items' = Tail(items)
    /\ cap' = cap
    /\ res' = Value(Head(items))

GetFails ==
    /\ items = <<>>
    /\ UNCHANGED <<items, cap>>
    /\ res' = Failure(EmptyErr)

(* The value at position i leaves; the others keep their order. *)
Take(i) ==
    /\ items' = Without(i)
    /\ cap' = cap
    /\ res' = Value(items[i])

(* The caller gives back a value it took. *)
Release ==
    /\ UNCHANGED <<items, cap>>
    /\ res' = Void

Destroy ==
    /\ items' = <<>>
    /\ cap' = 0
    /\ res' = Void

Next ==
    \/ \E c \in Capacities : Reset(c)
    \/ \E d \in Data : Put(d)
    \/ PutFails
    \/ Get
    \/ GetFails
    \/ \E i \in 1 .. Len(items) : Take(i)
    \/ Release
    \/ Destroy

Spec == Init /\ [][Next]_vars
=============================================================================
