------------------------------- MODULE TStack -------------------------------
(***************************************************************************)
(* The older tree's lib/tstack.h: a stack of uint32_t that grows down from *)
(* the end of an array.  A push and a pop return an int64_t, so that -1    *)
(* can mean "refused" whatever the value.                                  *)
(***************************************************************************)
EXTENDS Integers, SequencesExt

CONSTANTS
    MaxVal,         \* UINT32_MAX
    StackSizes      \* the capacities given to tss_init

ASSUME TStackAssumption ==
    /\ MaxVal \in Nat
    /\ StackSizes \subseteq Nat

StackVals == {0, 1, MaxVal}     \* what is pushed

VARIABLES
    tss,        \* struct tstack, and whether arr is allocated
    tss_ret,    \* what the last tss_push or tss_pop returned, 0 before
    tss_due,    \* what a stack had to answer (history)
    tss_model   \* the values pushed and not yet popped, by what the callers
                \*   were told (history)

tssVars == <<tss, tss_ret, tss_due, tss_model>>

TssInit ==
    /\ tss = [ready |-> FALSE, sp |-> 0, capacity |-> 0, arr |-> <<>>]
    /\ tss_ret = 0 /\ tss_due = 0 /\ tss_model = <<>>

(* calloc zeroes the array; when it fails nothing is written. *)
tss_init(c) ==
    /\ ~tss.ready
    /\ \/ tss' = [ready |-> TRUE, sp |-> c, capacity |-> c, arr |-> [i \in 0 .. c - 1 |-> 0]]
       \/ UNCHANGED tss
    /\ UNCHANGED <<tss_ret, tss_due, tss_model>>

(* Variant: the value is returned through a 32 bit int. *)
AsInt32(v) == IF v > MaxVal \div 2 THEN v - MaxVal - 1 ELSE v

(* (int64_t)val *)
AsInt64(v) == v

tss_push(v) ==
    /\ tss.ready /\ tss.sp <= tss.capacity
    /\ tss_due' = IF Len(tss_model) = tss.capacity THEN -1 ELSE v
    /\ \/ tss.sp = 0 /\ tss_ret' = -1 /\ UNCHANGED tss
       \/ /\ tss.sp > 0
          /\ tss' = [tss EXCEPT !.arr[tss.sp - 1] = v, !.sp = @ - 1]
          /\ tss_ret' = AsInt64(v)
    /\ tss_model' = IF tss_ret' = -1 THEN tss_model ELSE Append(tss_model, v)

tss_pop ==
    /\ tss.ready /\ tss.sp <= tss.capacity
    /\ tss_due' = IF tss_model = <<>> THEN -1 ELSE Last(tss_model)
    /\ \/ tss.sp = tss.capacity /\ tss_ret' = -1 /\ UNCHANGED tss
       \/ /\ tss.sp < tss.capacity
          /\ tss_ret' = AsInt64(tss.arr[tss.sp])
          /\ tss' = [tss EXCEPT !.sp = @ + 1]
    /\ tss_model' = IF tss_ret' = -1 THEN tss_model ELSE Front(tss_model)

tss_count == tss.capacity - tss.sp

(* The array is freed; the caller does not use the stack again unless it   *)
(* initialises it.                                                         *)
tss_destroy ==
    /\ tss.ready
    /\ tss' = [tss EXCEPT !.ready = FALSE]
    /\ tss_model' = <<>>
    /\ UNCHANGED <<tss_ret, tss_due>>

TssNext ==
    \/ \E c \in StackSizes : tss_init(c)
    \/ \E v \in StackVals : tss_push(v)
    \/ tss_pop
    \/ tss_destroy

TssSpec == TssInit /\ [][TssNext]_tssVars

-----------------------------------------------------------------------------

(* What a caller concludes from the answers alone is what the stack holds: *)
(* exactly a full and an empty one refuse, the largest value is no refusal *)
(* and the values come back last in, first out.                            *)
StackIsLifo ==
    /\ tss_ret = tss_due
    /\ tss.ready => /\ tss_count = Len(tss_model)
                    /\ \A i \in DOMAIN tss_model : tss.arr[tss.capacity - i] = tss_model[i]

(* Behind it: the shape of the stack, and a stack that is not initialised  *)
(* holds nothing.                                                          *)
TssTypeOK ==
    /\ tss.ready \in BOOLEAN
    /\ tss.capacity \in Nat /\ tss.sp \in 0 .. tss.capacity
    /\ tss = [ready |-> tss.ready, sp |-> tss.sp, capacity |-> tss.capacity, arr |-> tss.arr]
    /\ tss.arr \in [0 .. tss.capacity - 1 -> Nat]
    /\ tss_model \in Seq(Nat)
    /\ ~tss.ready => tss_model = <<>>

TssIInv == TssTypeOK /\ StackIsLifo
=============================================================================
