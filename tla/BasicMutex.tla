----------------------------- MODULE BasicMutex -----------------------------
(***************************************************************************)
(* tests/004_mutex, basic_mutex: two threads increment one number, Batch   *)
(* times for each of Rounds acquisitions of a bt_mutex; the main thread    *)
(* then joins the other and asserts the sum.                               *)
(***************************************************************************)
EXTENDS BtSync

CONSTANTS Batch, Rounds

ASSUME BasicMutexAssumption ==
    /\ Threads = {"main", "worker"}
    /\ Batch \in Nat \ {0}
    /\ Rounds \in Nat \ {0}

VARIABLES
    pc,         \* for each thread: init, create, spin, join, check, destroy and
                \*   done of main, none and begin of the worker, and of both the
                \*   loop's lock, load, store, unlock; the worker ends as "end"
    start,      \* data.start
    num,        \* the shared number
    register,   \* what a thread loaded to increment
    round,      \* each thread's loop variables: i
    step,       \*   and j
    failed      \* which TQ_ASSERTs failed

test == <<start, num, register, round, step, failed>>
vars == <<lock, cond, wait, leaked, fault, pc, start, num, register, round, step, failed>>

Init ==
    /\ SyncInit
    /\ pc = [t \in Threads |-> IF t = "main" THEN "init" ELSE "none"]
    /\ start = FALSE
    /\ num = 0
    /\ register = [t \in Threads |-> 0]
    /\ round = [t \in Threads |-> 0]
    /\ step = [t \in Threads |-> 0]
    /\ failed = {}

Goto(t, next) == pc' = [pc EXCEPT ![t] = next]

At(t, here) == Running /\ pc[t] = here

(***************************************************************************)
(* The loop both threads run                                               *)
(***************************************************************************)

Lock(t) ==
    /\ At(t, "lock")
    /\ bt_mutex_lock(t)
    /\ Goto(t, "load")
    /\ UNCHANGED test

(* An increment is a load and a store. *)
Load(t) ==
    /\ At(t, "load")
    /\ register' = [register EXCEPT ![t] = num]
    /\ Goto(t, "store")
    /\ UNCHANGED <<sync, start, num, round, step, failed>>

Store(t) ==
    /\ At(t, "store")
    /\ num' = register[t] + 1
    /\ step' = [step EXCEPT ![t] = @ + 1]
    /\ Goto(t, IF step[t] + 1 < Batch THEN "load" ELSE "unlock")
    /\ UNCHANGED <<sync, start, register, round, failed>>

After(t) == IF t = "main" THEN "join" ELSE "end"

Unlock(t) ==
    /\ At(t, "unlock")
    /\ bt_mutex_unlock(t)
    /\ round' = [round EXCEPT ![t] = @ + 1]
    /\ step' = [step EXCEPT ![t] = 0]
    /\ Goto(t, IF round[t] + 1 < Rounds THEN "lock" ELSE After(t))
    /\ UNCHANGED <<start, num, register, failed>>

(***************************************************************************)
(* The worker                                                              *)
(***************************************************************************)

(* Variant: the worker never says that it runs. *)
BeginSilently ==
    /\ At("worker", "begin")
    /\ Goto("worker", "lock")
    /\ UNCHANGED <<sync, test>>

Begin ==
    /\ At("worker", "begin")
    /\ start' = TRUE
    /\ Goto("worker", "lock")
    /\ UNCHANGED <<sync, num, register, round, step, failed>>

(***************************************************************************)
(* The main thread                                                         *)
(***************************************************************************)

Initialise ==
    /\ At("main", "init")
    /\ bt_mutex_init
    /\ Goto("main", "create")
    /\ UNCHANGED test

Create ==
    /\ At("main", "create")
    /\ pc' = [pc EXCEPT !["main"] = "spin", !["worker"] = "begin"]
    /\ UNCHANGED <<sync, test>>

(* The assertion fails and the test goes on. *)
CreateFails ==
    /\ At("main", "create")
    /\ failed' = failed \cup {"create"}
    /\ Goto("main", "spin")
    /\ UNCHANGED <<sync, start, num, register, round, step>>

(* while (!data.start): each turn loads the flag again. *)
Spin ==
    /\ At("main", "spin")
    /\ Goto("main", IF start THEN "lock" ELSE "spin")
    /\ UNCHANGED <<sync, test>>

(* Variant: the number is read without waiting for the worker. *)
JoinWithoutWaiting ==
    /\ At("main", "join")
    /\ Goto("main", "check")
    /\ UNCHANGED <<sync, test>>

Join ==
    /\ At("main", "join")
    /\ pc["worker"] = "end"
    /\ Goto("main", "check")
    /\ UNCHANGED <<sync, test>>

Check ==
    /\ At("main", "check")
    /\ failed' = IF num = 2 * (Rounds * Batch) THEN failed ELSE failed \cup {"num"}
    /\ Goto("main", "destroy")
    /\ UNCHANGED <<sync, start, num, register, round, step>>

(* pthread_mutex_destroy refuses a mutex somebody owns. *)
Destroy ==
    /\ At("main", "destroy")
    /\ bt_mutex_destroy
    /\ failed' = IF lock.owner = Nobody THEN failed ELSE failed \cup {"destroy"}
    /\ Goto("main", "done")
    /\ UNCHANGED <<start, num, register, round, step>>

Done == At("main", "done") /\ UNCHANGED vars

Worker == Begin \/ Lock("worker") \/ Load("worker") \/ Store("worker") \/ Unlock("worker")

Main == \/ Initialise \/ Create \/ CreateFails \/ Spin
        \/ Lock("main") \/ Load("main") \/ Store("main") \/ Unlock("main")
        \/ Join \/ Check \/ Destroy

Next == Main \/ Worker \/ Done

(* Both threads get a processor, and the mutex, which each takes only      *)
(* finitely often, is not withheld from a thread for ever.                 *)
Spec == Init /\ [][Next]_vars /\ WF_vars(Main) /\ WF_vars(Worker)

-----------------------------------------------------------------------------

Loop         == {"lock", "load", "store", "unlock"}
MainStages   == Loop \cup {"init", "create", "spin", "join", "check", "destroy", "done"}
WorkerStages == Loop \cup {"none", "begin", "end"}

TypeOK ==
    /\ SyncTypeOK
    /\ pc \in [Threads -> MainStages \cup WorkerStages]
    /\ pc["main"] \in MainStages
    /\ pc["worker"] \in WorkerStages
    /\ start \in BOOLEAN
    /\ num \in Nat
    /\ register \in [Threads -> Nat]
    /\ round \in [Threads -> 0 .. Rounds]
    /\ step \in [Threads -> 0 .. Batch]
    /\ failed \subseteq {"create", "num", "destroy"}

Increments(t) == round[t] * Batch + step[t]

(* No increment is lost: whatever the threads do at the same time, the     *)
(* number is the sum of the increments both have made, and the test's own  *)
(* assertions, that of the total among them, do not fail.                  *)
NoLostUpdate ==
    /\ num = Increments("main") + Increments("worker")
    /\ failed \subseteq {"create"}

(* The mutex is created before anybody uses it, destroyed after everybody  *)
(* has, and nothing is left allocated at the end of the test.              *)
DestroyedLast ==
    /\ fault = "none"
    /\ pc["main"] = "done" => /\ pc["worker"] = "end"
                              /\ lock.owner = Nobody
                              /\ lock.canary # "live"
                              /\ leaked = {}

(* Once the worker exists the test ends: the spinning main thread sees the *)
(* flag, and neither thread waits for the mutex for ever.                  *)
Finishes == (pc["worker"] = "begin") ~> (pc["main"] = "done")

-----------------------------------------------------------------------------
(***************************************************************************)
(* The inductive invariant                                                 *)
(***************************************************************************)

Critical == {"load", "store", "unlock"}
Before   == {"init", "create", "spin", "none", "begin"}
Behind   == {"join", "check", "destroy", "done", "end"}

(* A thread owns the mutex exactly between lock and unlock, and what it    *)
(* loaded stays current until it stores.                                   *)
Exclusion(t) ==
    /\ lock.owner = t <=> pc[t] \in Critical
    /\ pc[t] = "store" => register[t] = num

(* Where a thread's loop variables stand. *)
Progress(t) ==
    /\ pc[t] \in Before => round[t] = 0
    /\ pc[t] \in Loop => round[t] < Rounds
    /\ pc[t] \in Behind => round[t] = Rounds
    /\ pc[t] \in {"load", "store"} => step[t] < Batch
    /\ pc[t] = "unlock" => step[t] = Batch
    /\ pc[t] \notin Critical => step[t] = 0

(* When the mutex exists, and who is there at which stage of the test. *)
Lifetime ==
    /\ pc["main"] \in {"init", "create"} => pc["worker"] = "none"
    /\ pc["main"] \in {"check", "destroy", "done"} => pc["worker"] = "end"
    /\ lock.init <=> pc["main"] \notin {"init", "done"}
    /\ pc["main"] = "init" => lock.canary = "null"
    /\ lock.init => lock.canary # "freed"
    /\ pc["main"] = "done" => lock.canary # "live"
    /\ leaked = {} /\ fault = "none"

IInv ==
    /\ TypeOK
    /\ NoLostUpdate
    /\ \A t \in Threads : Exclusion(t) /\ Progress(t)
    /\ Lifetime
=============================================================================
