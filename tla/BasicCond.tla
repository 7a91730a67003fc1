----------------------------- MODULE BasicCond ------------------------------
(***************************************************************************)
(* tests/004_mutex, basic_cond: two threads take turns over one condition  *)
(* variable.  The worker adds M to cond_var and signals; the main thread,  *)
(* which may be waiting for M by then, adds M and signals; the worker,     *)
(* which may be waiting for 2M, adds M again.  Both wait in a loop, both   *)
(* signal after they released the mutex.                                   *)
(***************************************************************************)
EXTENDS BtSync

CONSTANTS
    M,              \* 1000000 in the test
    MaxSpurious     \* how often a wait may end without a signal

ASSUME BasicCondAssumption ==
    /\ Threads = {"main", "worker"}
    /\ M \in Nat \ {0}
    /\ MaxSpurious \in Nat

VARIABLES
    pc,         \* for each thread: cond_init, mutex_init, create, spin, join,
                \*   check, cond_destroy, mutex_destroy and done of main, none,
                \*   begin and end of the worker, and of both lock, test (the
                \*   condition of the waiting loop), waiting, load, store,
                \*   unlock and signal
    start,      \* data.start
    cond_var,   \* data.cond_var
    register,   \* what a thread loaded to increment
    count,      \* how often a thread incremented
    spurious,   \* how many waits ended without a signal
    failed      \* which assertions failed

memory == <<start, cond_var, register, count>>
test   == <<memory, spurious, failed>>
vars   == <<lock, cond, wait, leaked, fault, pc, start, cond_var, register,
            count, spurious, failed>>

Init ==
    /\ SyncInit
    /\ pc = [t \in Threads |-> IF t = "main" THEN "cond_init" ELSE "none"]
    /\ start = FALSE
    /\ cond_var = 0
    /\ register = [t \in Threads |-> 0]
    /\ count = [t \in Threads |-> 0]
    /\ spurious = 0
    /\ failed = {}

Goto(t, next) == pc' = [pc EXCEPT ![t] = next]

At(t, here) == Running /\ pc[t] = here

Assert(holds, name) == failed' = IF holds THEN failed ELSE failed \cup {name}

(***************************************************************************)
(* What both threads do                                                    *)
(***************************************************************************)

(* What a thread waits for, and what it asserts after adding M to it. *)
Target(t) == IF t = "main" THEN M ELSE 2 * M

(* The worker's first turn waits for nothing. *)
Lock(t) ==
    /\ At(t, "lock")
    /\ bt_mutex_lock(t)
    /\ Goto(t, IF t = "worker" /\ count[t] = 0 THEN "load" ELSE "test")
    /\ UNCHANGED test

(* Variant: the condition is tested once, not in a loop. *)
ReturnWithoutTest(t) ==
    /\ At(t, "waiting")
    /\ ReturnFromWait(t)
    /\ Goto(t, "load")
    /\ UNCHANGED test

Wait(t) ==
    /\ At(t, "test")
    /\ cond_var # Target(t)
    /\ bt_cond_wait(t)
    /\ Goto(t, "waiting")
    /\ UNCHANGED test

Return(t) ==
    /\ At(t, "waiting")
    /\ ReturnFromWait(t)
    /\ Goto(t, "test")
    /\ UNCHANGED test

Proceed(t) ==
    /\ At(t, "test")
    /\ cond_var = Target(t)
    /\ Goto(t, "load")
    /\ UNCHANGED <<sync, test>>

Spurious(t) ==
    /\ At(t, "waiting")
    /\ spurious < MaxSpurious
    /\ WakeUp(t)
    /\ spurious' = spurious + 1
    /\ UNCHANGED <<pc, memory, failed>>

(* data->cond_var++ is a load and a store. *)
Load(t) ==
    /\ At(t, "load")
    /\ register' = [register EXCEPT ![t] = cond_var]
    /\ Goto(t, "store")
    /\ UNCHANGED <<sync, start, cond_var, count, spurious, failed>>

(* After the last increment of a turn that waited, the thread asserts what *)
(* it left in cond_var.                                                    *)
TurnEnds(t) == count[t] + 1 \in {M, 2 * M}

Store(t) ==
    /\ At(t, "store")
    /\ cond_var' = register[t] + 1
    /\ count' = [count EXCEPT ![t] = @ + 1]
    /\ IF TurnEnds(t) /\ (t = "main" \/ count[t] >= M)
       THEN Assert(register[t] + 1 = Target(t) + M, t)
       ELSE UNCHANGED failed
    /\ Goto(t, IF TurnEnds(t) THEN "unlock" ELSE "load")
    /\ UNCHANGED <<sync, start, register, spurious>>

Unlock(t) ==
    /\ At(t, "unlock")
    /\ bt_mutex_unlock(t)
    /\ Goto(t, IF t = "worker" /\ count[t] = 2 * M THEN "end" ELSE "signal")
    /\ UNCHANGED test

Signal(t) ==
    /\ At(t, "signal")
    /\ bt_cond_signal
    /\ Goto(t, IF t = "main" THEN "join" ELSE "lock")
    /\ UNCHANGED test

Turn(t) == \/ Lock(t) \/ Wait(t) \/ Return(t) \/ Proceed(t)
           \/ Load(t) \/ Store(t) \/ Unlock(t) \/ Signal(t)

(***************************************************************************)
(* The worker                                                              *)
(***************************************************************************)

Begin ==
    /\ At("worker", "begin")
    /\ start' = TRUE
    /\ Goto("worker", "lock")
    /\ UNCHANGED <<sync, cond_var, register, count, spurious, failed>>

(***************************************************************************)
(* The main thread                                                         *)
(***************************************************************************)

InitCond ==
    /\ At("main", "cond_init")
    /\ bt_cond_init
    /\ Goto("main", "mutex_init")
    /\ UNCHANGED test

InitMutex ==
    /\ At("main", "mutex_init")
    /\ bt_mutex_init
    /\ Goto("main", "create")
    /\ UNCHANGED test

Create ==
    /\ At("main", "create")
    /\ pc' = [pc EXCEPT !["main"] = "spin", !["worker"] = "begin"]
    /\ UNCHANGED <<sync, test>>

(* The assertion fails and the test goes on. *)
CreateFails ==
    /\ At("main", "create")
    /\ Assert(FALSE, "create")
    /\ Goto("main", "spin")
    /\ UNCHANGED <<sync, memory, spurious>>

(* while (!data.start): each turn loads the flag again. *)
Spin ==
    /\ At("main", "spin")
    /\ Goto("main", IF start THEN "lock" ELSE "spin")
    /\ UNCHANGED <<sync, test>>

(* Variant: the worker is not joined. *)
JoinNobody ==
    /\ At("main", "join")
    /\ Goto("main", "check")
    /\ UNCHANGED <<sync, test>>

Join ==
    /\ At("main", "join")
    /\ pc["worker"] = "end"
    /\ Goto("main", "check")
    /\ UNCHANGED <<sync, test>>

Check ==
    /\ At("main", "check")
    /\ Assert(cond_var = 3 * M, "total")
    /\ Goto("main", "cond_destroy")
    /\ UNCHANGED <<sync, memory, spurious>>

(* pthread_cond_destroy wants nobody to be waiting. *)
DestroyCond ==
    /\ At("main", "cond_destroy")
    /\ bt_cond_destroy
    /\ Assert(\A t \in Threads : wait[t] = "no", "cond_destroy")
    /\ Goto("main", "mutex_destroy")
    /\ UNCHANGED <<memory, spurious>>

(* pthread_mutex_destroy refuses a mutex somebody owns. *)
DestroyMutex ==
    /\ At("main", "mutex_destroy")
    /\ bt_mutex_destroy
    /\ Assert(lock.owner = Nobody, "mutex_destroy")
    /\ Goto("main", "done")
    /\ UNCHANGED <<memory, spurious>>

Done == At("main", "done") /\ UNCHANGED vars

Worker == Begin \/ Turn("worker")

Main == \/ InitCond \/ InitMutex \/ Create \/ CreateFails \/ Spin
        \/ Turn("main")
        \/ Join \/ Check \/ DestroyCond \/ DestroyMutex

Next == Main \/ Worker \/ (\E t \in Threads : Spurious(t)) \/ Done

(* Both threads get a processor; the mutex, which is free again after each *)
(* turn, is not withheld from a thread for ever.  Nothing obliges a thread *)
(* to wake up without a signal.                                            *)
Spec == Init /\ [][Next]_vars /\ WF_vars(Main) /\ WF_vars(Worker)

-----------------------------------------------------------------------------

Turns        == {"lock", "test", "waiting", "load", "store", "unlock", "signal"}
MainStages   == Turns \cup {"cond_init", "mutex_init", "create", "spin", "join", "check",
                            "cond_destroy", "mutex_destroy", "done"}
WorkerStages == Turns \cup {"none", "begin", "end"}

TypeOK ==
    /\ SyncTypeOK
    /\ pc \in [Threads -> MainStages \cup WorkerStages]
    /\ pc["main"] \in MainStages
    /\ pc["worker"] \in WorkerStages
    /\ start \in BOOLEAN
    /\ cond_var \in Nat
    /\ register \in [Threads -> Nat]
    /\ count \in [Threads -> Nat]
    /\ spurious \in 0 .. MaxSpurious
    /\ failed \subseteq {"create", "main", "worker", "total", "cond_destroy", "mutex_destroy"}

(* The turns do not overlap and none is taken twice: the sum is M, 2M and  *)
(* 3M where the test asserts it, and the objects are idle when destroyed.  *)
TurnsAreExact ==
    /\ cond_var = count["main"] + count["worker"]
    /\ failed \subseteq {"create"}

(* No signal is missed, although it is sent without the mutex and both     *)
(* directions share one condition variable: a thread asleep on a condition *)
(* that has become true has its signal still ahead.                        *)
NoMissedSignal ==
    \A t, u \in Threads :
        t # u /\ wait[t] = "asleep" /\ cond_var = Target(t) => pc[u] \in {"unlock", "signal"}

(* Every use of the two objects finds them initialised, and the canaries   *)
(* are balanced when the test is over.                                     *)
NothingLeft ==
    /\ fault = "none"
    /\ pc["main"] = "done" => /\ pc["worker"] = "end"
                              /\ lock.canary # "live" /\ cond.canary # "live"
                              /\ leaked = {}

(* Once the worker exists the test ends, however often the waits are       *)
(* interrupted.                                                            *)
Finishes == (pc["worker"] = "begin") ~> (pc["main"] = "done")
-----------------------------------------------------------------------------
(***************************************************************************)
(* The inductive invariant                                                 *)
(***************************************************************************)

Critical == {"test", "load", "store", "unlock"}

(* A thread owns the mutex exactly while it works on the number, and sits  *)
(* in pthread_cond_wait exactly while it waits.                            *)
Exclusion(t) ==
    /\ lock.owner = t <=> pc[t] \in Critical
    /\ wait[t] # "no" <=> pc[t] = "waiting"
    /\ pc[t] = "store" => register[t] = cond_var

(* The main thread adds once, after the worker's first turn. *)
MainProgress ==
    /\ count["main"] <= M
    /\ pc["main"] \in {"cond_init", "mutex_init", "create", "spin", "lock", "test", "waiting"}
           => count["main"] = 0
    /\ pc["main"] \in {"load", "store"} => count["main"] < M /\ count["worker"] = M
    /\ pc["main"] \in {"unlock", "signal", "join", "check", "cond_destroy", "mutex_destroy", "done"}
           => count["main"] = M
    /\ count["main"] > 0 => count["worker"] >= M

(* The worker adds twice, the second time after the main thread has. *)
WorkerProgress ==
    /\ count["worker"] <= 2 * M
    /\ pc["worker"] \in {"none", "begin"} => count["worker"] = 0
    /\ pc["worker"] = "lock" => count["worker"] \in {0, M}
    /\ pc["worker"] \in {"test", "waiting", "signal"} => count["worker"] = M
    /\ pc["worker"] \in {"load", "store"} =>
           count["worker"] < M \/ (count["worker"] < 2 * M /\ count["main"] = M)
    /\ pc["worker"] = "unlock" => count["worker"] \in {M, 2 * M}
    /\ pc["worker"] = "end" => count["worker"] = 2 * M
    /\ count["worker"] > M => count["main"] = M

(* When the objects exist, and who is there at which stage of the test. *)
Lifetime ==
    /\ pc["main"] \in {"cond_init", "mutex_init", "create"} => pc["worker"] = "none"
    /\ pc["main"] \in {"check", "cond_destroy", "mutex_destroy", "done"} => pc["worker"] = "end"
    /\ lock.init <=> pc["main"] \notin {"cond_init", "mutex_init", "done"}
    /\ cond.init <=> pc["main"] \notin {"cond_init", "mutex_destroy", "done"}
    /\ pc["main"] \in {"cond_init", "mutex_init"} => lock.canary = "null"
    /\ pc["main"] = "cond_init" => cond.canary = "null"
    /\ lock.init => lock.canary # "freed"
    /\ cond.init => cond.canary # "freed"
    /\ pc["main"] = "done" => lock.canary # "live"
    /\ pc["main"] \in {"mutex_destroy", "done"} => cond.canary # "live"
    /\ leaked = {} /\ fault = "none"

IInv ==
    /\ TypeOK
    /\ TurnsAreExact
    /\ NoMissedSignal
    /\ \A t \in Threads : Exclusion(t)
    /\ MainProgress /\ WorkerProgress
    /\ Lifetime
=============================================================================
