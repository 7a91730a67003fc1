----------------------------- MODULE SyncClient -----------------------------
(***************************************************************************)
(* The wrappers of mutex.h under arbitrary callers: any object may be used *)
(* or destroyed at any time, before its initialisation and after its       *)
(* destruction too.  They keep three of pthread's rules: what is           *)
(* initialised is not initialised again, an object is not destroyed under  *)
(* a thread that waits, and who unlocks or waits owns the mutex.           *)
(***************************************************************************)
EXTENDS BtSync, Integers

CONSTANTS
    Second,     \* the ticks of one second
    MaxTime,    \* the clock stops here
    RelTimes    \* the arguments of bt_cond_timedwait_rel, in seconds

ASSUME ClientAssumption ==
    /\ Second \in Nat \ {0}
    /\ MaxTime \in Nat
    /\ RelTimes \subseteq Nat

VARIABLES
    now,        \* the clock, in ticks
    deadline,   \* abstime of a thread's wait, -1 for a wait without one
    asked,      \* when the time it asked for is over
    ret,        \* what its last wait returns: "ok", "ETIMEDOUT" or "-errno"
    life,       \* history: where the calls have brought each object, unborn,
                \*   alive or destroyed
    misuse      \* history: what was wrong with the last call, "none", "dead
                \*   object" or "destroyed twice"

timing  == <<now, deadline, asked, ret>>
history == <<life, misuse>>
vars    == <<lock, cond, wait, leaked, fault, now, deadline, asked, ret, life, misuse>>

Never == 0 - 1

Init ==
    /\ SyncInit
    /\ now = 0
    /\ deadline = [t \in Threads |-> Never]
    /\ asked = [t \in Threads |-> Never]
    /\ ret = [t \in Threads |-> "ok"]
    /\ life = [lock |-> "unborn", cond |-> "unborn"]
    /\ misuse = "none"

Idle(t) == wait[t] = "no"

NobodyWaits == \A t \in Threads : Idle(t)

(***************************************************************************)
(* The history, which is written without a look at the flags: a call needs *)
(* the objects it uses alive; a mutex may be destroyed again, and a        *)
(* condition variable may not.                                             *)
(***************************************************************************)

Needs(objects) ==
    /\ misuse' = IF \A o \in objects : life[o] = "alive" THEN "none" ELSE "dead object"
    /\ UNCHANGED life

Begins(o) == life' = [life EXCEPT ![o] = "alive"] /\ misuse' = "none"

Ends(o, again) ==
    /\ life' = [life EXCEPT ![o] = IF @ = "alive" THEN "destroyed" ELSE @]
    /\ misuse' = IF life[o] = "destroyed" THEN again ELSE "none"

InitMutex ==
    /\ ~lock.init /\ lock.owner = Nobody
    /\ bt_mutex_init
    /\ Begins("lock") /\ UNCHANGED timing

(* Its owner, if it has one, keeps it: pthread refuses with EBUSY, but the *)
(* flag and the canary are gone.                                           *)
DestroyMutex ==
    /\ NobodyWaits
    /\ bt_mutex_destroy
    /\ Ends("lock", "none") /\ UNCHANGED timing

InitCond ==
    /\ ~cond.init
    /\ bt_cond_init
    /\ Begins("cond") /\ UNCHANGED timing

DestroyCond ==
    /\ NobodyWaits
    /\ bt_cond_destroy
    /\ Ends("cond", "destroyed twice") /\ UNCHANGED timing

Lock(t) == Idle(t) /\ bt_mutex_lock(t) /\ Needs({"lock"}) /\ UNCHANGED timing

Unlock(t) == Idle(t) /\ bt_mutex_unlock(t) /\ Needs({"lock"}) /\ UNCHANGED timing

Signal == bt_cond_signal /\ Needs({"cond"}) /\ UNCHANGED timing

Wait(t) ==
    /\ Idle(t)
    /\ bt_cond_wait(t)
    /\ Needs({"cond", "lock"})
    /\ deadline' = [deadline EXCEPT ![t] = Never]
    /\ asked' = [asked EXCEPT ![t] = Never]
    /\ ret' = [ret EXCEPT ![t] = "ok"]
    /\ UNCHANGED now

(* Variant: a second short. *)
AbsTimeOneShort(rel) == ((now \div Second) + rel - 1) * Second

(* Whole seconds: gettimeofday's microseconds do not go into abstime. *)
AbsTime(rel) == ((now \div Second) + rel) * Second

(* bt_cond_timedwait_rel, which ends in bt_cond_timedwait. *)
TimedWait(t, rel) ==
    /\ Idle(t)
    /\ bt_cond_wait(t)
    /\ Needs({"cond", "lock"})
    /\ deadline' = [deadline EXCEPT ![t] = AbsTime(rel)]
    /\ asked' = [asked EXCEPT ![t] = now + rel * Second]
    /\ ret' = [ret EXCEPT ![t] = "ok"]
    /\ UNCHANGED now

(* gettimeofday fails, and neither object was looked at. *)
NoTimeOfDay(t) ==
    /\ Idle(t)
    /\ ret' = [ret EXCEPT ![t] = "-errno"]
    /\ UNCHANGED <<sync, now, deadline, asked, history>>

WakeUpEarly(t) == WakeUp(t) /\ UNCHANGED <<timing, history>>

TimeIsOver(t) ==
    /\ deadline[t] # Never
    /\ now >= deadline[t]
    /\ WakeUp(t)
    /\ ret' = [ret EXCEPT ![t] = "ETIMEDOUT"]
    /\ UNCHANGED <<now, deadline, asked, history>>

Return(t) == ReturnFromWait(t) /\ UNCHANGED <<timing, history>>

Tick ==
    /\ now < MaxTime
    /\ now' = now + 1
    /\ UNCHANGED <<sync, deadline, asked, ret, history>>

Next ==
    /\ Running
    /\ \/ InitMutex \/ DestroyMutex \/ InitCond \/ DestroyCond \/ Signal \/ Tick
       \/ \E t \in Threads :
              \/ Lock(t) \/ Unlock(t) \/ Wait(t) \/ NoTimeOfDay(t)
              \/ WakeUpEarly(t) \/ TimeIsOver(t) \/ Return(t)
              \/ \E rel \in RelTimes : TimedWait(t, rel)

Spec == Init /\ [][Next]_vars

-----------------------------------------------------------------------------

(* Through any sequence of calls the process is stopped for a mistake of   *)
(* the caller, at once and for no other reason: the assertions by the use  *)
(* of an object that is not alive, its own mutex destroyed under an owner  *)
(* included, and the double free by a condition variable that is destroyed *)
(* twice, unless its malloc had failed.  And valgrind sees a leak exactly  *)
(* of an object left alive: no canary is overwritten, none outlives its    *)
(* object and none is freed before it.                                     *)
FaultsBlameTheCaller ==
    /\ fault \in {"assert", "invalid"} <=> misuse = "dead object"
    /\ fault = "double free" <=> misuse = "destroyed twice" /\ cond.canary # "null"
    /\ leaked = {}
    /\ lock.canary = "live" => life.lock = "alive"
    /\ cond.canary = "live" => life.cond = "alive"
    /\ lock.canary = "freed" => life.lock = "destroyed"
    /\ cond.canary = "freed" => life.cond = "destroyed"

(* A timed wait may end early, since the deadline is a whole second, but   *)
(* never by a second or more.                                              *)
LessThanASecondEarly ==
    [][\A t \in Threads :
           wait[t] = "asleep" /\ wait'[t] = "woken" /\ ret'[t] = "ETIMEDOUT"
               => asked[t] - now < Second]_vars
=============================================================================
