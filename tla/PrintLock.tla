------------------------------ MODULE PrintLock ------------------------------
(***************************************************************************)
(* The older tree's print.c: threads print lines, each in three pieces, a  *)
(* time stamp, the text and the newline.  One mutex keeps the pieces of a  *)
(* line together; a second one, taken inside the first, protects the       *)
(* static storage of localtime and asctime.  Both are taken by trying a    *)
(* number of times and then going to sleep.                                *)
(***************************************************************************)
EXTENDS Integers, Sequences

CONSTANTS
    Printers,   \* the threads
    Nobody,     \* the owner of an unlocked mutex
    Lines,      \* how many lines a thread prints
    TryNum,     \* 5000 in the code
    MaxTime     \* the clock stops here

ASSUME PrintAssumption ==
    /\ Nobody \notin Printers
    /\ Lines \in Nat \ {0} /\ TryNum \in Nat /\ MaxTime \in Nat

VARIABLES
    pr_owner,   \* of the mutexes pr_print and get_time_mt
    pr_thread,  \* of each thread: at (where it is), tries (try_num), rawtime,
                \*   buf (its copy of the stamp), left (lines still to print)
    pr_static,  \* the static storage of localtime and asctime
    pr_out,     \* the pieces on stdout
    pr_now      \* the clock

prVars == <<pr_owner, pr_thread, pr_static, pr_out, pr_now>>

PrintInit ==
    /\ pr_owner = [m \in {"pr_print", "get_time_mt"} |-> Nobody]
    /\ pr_thread = [t \in Printers |-> [at |-> "idle", tries |-> TryNum, rawtime |-> 0,
                                        buf |-> 0, left |-> Lines]]
    /\ pr_static = 0 /\ pr_out = <<>> /\ pr_now = 0

At(t, place) == pr_thread[t].at = place

(* pthread_mutex_busy_lock, with the place behind it. *)
Take(t, m, next) ==
    /\ pr_owner[m] = Nobody
    /\ pr_owner' = [pr_owner EXCEPT ![m] = t]
    /\ pr_thread' = [pr_thread EXCEPT ![t].at = next, ![t].tries = TryNum]

TryAgain(t, m) ==
    /\ pr_owner[m] # Nobody
    /\ pr_thread[t].tries > 0
    /\ pr_thread' = [pr_thread EXCEPT ![t].tries = @ - 1]
    /\ UNCHANGED pr_owner

(* Variant: after the last try the thread goes on without the mutex. *)
GiveUp(t, m, asleep, next) ==
    /\ pr_owner[m] # Nobody
    /\ pr_thread[t].tries = 0
    /\ pr_thread' = [pr_thread EXCEPT ![t].at = next, ![t].tries = TryNum]
    /\ UNCHANGED pr_owner

FallAsleep(t, m, asleep, next) ==
    /\ pr_owner[m] # Nobody
    /\ pr_thread[t].tries = 0
    /\ pr_thread' = [pr_thread EXCEPT ![t].at = asleep]
    /\ UNCHANGED pr_owner

BusyLock(t, m, busy, asleep, next) ==
    /\ \/ At(t, busy) /\ (Take(t, m, next) \/ TryAgain(t, m) \/ FallAsleep(t, m, asleep, next))
       \/ At(t, asleep) /\ Take(t, m, next)
    /\ UNCHANGED <<pr_static, pr_out, pr_now>>

(* Variant: the mutex of the clock stays locked. *)
UnlockLinesOnly(t, m) ==
    pr_owner' = [pr_owner EXCEPT ![m] = IF m = "pr_print" THEN Nobody ELSE @]

Unlock(t, m) ==
    pr_owner' = [pr_owner EXCEPT ![m] = IF @ = t THEN Nobody ELSE @]

(* __pr_notice, __pr_error and __pr_emerg differ in the text alone. *)
Begin(t) ==
    /\ At(t, "idle") /\ pr_thread[t].left > 0
    /\ pr_thread' = [pr_thread EXCEPT ![t].at = "busy"]
    /\ UNCHANGED <<pr_owner, pr_static, pr_out, pr_now>>

(* get_time between its lock and its unlock: time and localtime, asctime,  *)
(* the copy.                                                               *)
LocalTime(t) ==
    /\ At(t, "time")
    /\ pr_static' = pr_now
    /\ pr_thread' = [pr_thread EXCEPT ![t].at = "copy", ![t].rawtime = pr_now]
    /\ UNCHANGED <<pr_owner, pr_out, pr_now>>

CopyTime(t) ==
    /\ At(t, "copy")
    /\ pr_thread' = [pr_thread EXCEPT ![t].at = "stamp", ![t].buf = pr_static]
    /\ Unlock(t, "get_time_mt")
    /\ UNCHANGED <<pr_static, pr_out, pr_now>>

Pieces == <<"stamp", "text", "newline">>

(* printf, vprintf and putchar. *)
Put(t, k) ==
    /\ At(t, Pieces[k])
    /\ pr_out' = Append(pr_out, [by |-> t, piece |-> k, stamp |-> pr_thread[t].buf])
    /\ pr_thread' = [pr_thread EXCEPT ![t].at = IF k = 3 THEN "unlock" ELSE Pieces[k + 1]]
    /\ UNCHANGED <<pr_owner, pr_static, pr_now>>

End(t) ==
    /\ At(t, "unlock")
    /\ Unlock(t, "pr_print")
    /\ pr_thread' = [pr_thread EXCEPT ![t].at = "idle", ![t].left = @ - 1]
    /\ UNCHANGED <<pr_static, pr_out, pr_now>>

PrintStep(t) ==
    \/ Begin(t)
    \/ BusyLock(t, "pr_print", "busy", "asleep", "entered")
    \/ BusyLock(t, "get_time_mt", "entered", "asleep inside", "time")
    \/ LocalTime(t) \/ CopyTime(t)
    \/ \E k \in DOMAIN Pieces : Put(t, k)
    \/ End(t)

Tick ==
    /\ pr_now < MaxTime
    /\ pr_now' = pr_now + 1
    /\ UNCHANGED <<pr_owner, pr_thread, pr_static, pr_out>>

PrintNext == Tick \/ \E t \in Printers : PrintStep(t)

(* Every thread gets a processor; since each prints finitely many lines, a *)
(* mutex is not withheld from a sleeping thread for ever.                  *)
PrintSpec ==
    PrintInit /\ [][PrintNext]_prVars /\ \A t \in Printers : WF_prVars(PrintStep(t))

-----------------------------------------------------------------------------

(* Lines come out whole: the pieces on stdout are those of one thread's    *)
(* line after another, and only the last line may be unfinished.           *)
LinesAreWhole ==
    \A k \in DOMAIN pr_out :
        /\ pr_out[k].piece = ((k - 1) % 3) + 1
        /\ pr_out[k].piece # 1 => pr_out[k].by = pr_out[k - 1].by

(* The clock is read under the mutex that orders the lines, so the stamps  *)
(* never go back from one line to the next, and a line has the stamp its   *)
(* own thread asked for although the C library formats in static storage.  *)
StampsAreInOrder ==
    /\ \A j \in DOMAIN pr_out, k \in DOMAIN pr_out :
           j < k => pr_out[j].stamp <= pr_out[k].stamp
    /\ \A t \in Printers, k \in DOMAIN Pieces :
           At(t, Pieces[k]) => pr_thread[t].buf = pr_thread[t].rawtime

(* All lines are printed: the threads do not wait for each other for ever. *)
AllPrinted == \A t \in Printers : At(t, "idle") /\ pr_thread[t].left = 0

(***************************************************************************)
(* The inductive invariant behind LinesAreWhole and StampsAreInOrder.      *)
(***************************************************************************)
Places == {"idle", "busy", "asleep", "entered", "asleep inside", "time", "copy",
           "stamp", "text", "newline", "unlock"}

Written == [by : Printers, piece : 1 .. 3, stamp : Nat]

PrintTypeOK ==
    /\ pr_owner \in [{"pr_print", "get_time_mt"} -> Printers \cup {Nobody}]
    /\ pr_thread \in [Printers -> [at : Places, tries : Nat, rawtime : Nat,
                                   buf : Nat, left : Int]]
    /\ pr_static \in Nat /\ pr_now \in Nat
    /\ pr_out \in Seq(Written)

Inside(t) ==
    pr_thread[t].at \in {"entered", "asleep inside", "time", "copy",
                         "stamp", "text", "newline", "unlock"}

AtTheClock(t) == pr_thread[t].at \in {"time", "copy"}

(* Whoever is inside owns the mutex. *)
PrintExclusion ==
    \A t \in Printers : /\ Inside(t) => pr_owner["pr_print"] = t
                        /\ AtTheClock(t) => pr_owner["get_time_mt"] = t

(* How much of the last line is there, and whose it is. *)
LastLine ==
    /\ \A t \in Printers :
           /\ At(t, "text") => Len(pr_out) % 3 = 1 /\ pr_out[Len(pr_out)].by = t
           /\ At(t, "newline") => Len(pr_out) % 3 = 2 /\ pr_out[Len(pr_out)].by = t
    /\ (\A t \in Printers : ~At(t, "text") /\ ~At(t, "newline")) => Len(pr_out) % 3 = 0

(* No stamp on stdout is later than the next one. *)
NoLaterStamp ==
    /\ pr_static <= pr_now
    /\ \A k \in DOMAIN pr_out : pr_out[k].stamp <= pr_now
    /\ \A t \in Printers :
           /\ At(t, "copy") =>
                  /\ pr_thread[t].rawtime = pr_static
                  /\ \A k \in DOMAIN pr_out : pr_out[k].stamp <= pr_static
           /\ pr_thread[t].at \in {"stamp", "text", "newline"} =>
                  /\ pr_thread[t].buf = pr_thread[t].rawtime
                  /\ pr_thread[t].buf <= pr_now
                  /\ \A k \in DOMAIN pr_out : pr_out[k].stamp <= pr_thread[t].buf

PrintIInv ==
    /\ PrintTypeOK /\ PrintExclusion /\ LastLine /\ NoLaterStamp
    /\ LinesAreWhole /\ StampsAreInOrder
=============================================================================
