-------------------------- MODULE SyncClientProofs --------------------------
(***************************************************************************)
(* Proofs about SyncClient: any number of callers, any length of a second  *)
(* and any waits, in both builds.                                          *)
(***************************************************************************)
EXTENDS SyncClient, TLAPS

USE SyncAssumption, ClientAssumption

Times == Nat \cup {Never}

TimingTypeOK ==
    /\ now \in Nat
    /\ deadline \in [Threads -> Times]
    /\ asked \in [Threads -> Times]
    /\ ret \in [Threads -> {"ok", "ETIMEDOUT", "-errno"}]

Lives == [lock : {"unborn", "alive", "destroyed"}, cond : {"unborn", "alive", "destroyed"}]

HistoryTypeOK ==
    /\ life \in Lives
    /\ misuse \in {"none", "dead object", "destroyed twice"}

(* The flags say what the history says. *)
FlagsFollow == /\ lock.init <=> life.lock = "alive"
               /\ cond.init <=> life.cond = "alive"

(* A thread that sleeps until a deadline asked for less than a second more. *)
DeadlinesAreClose ==
    \A t \in Threads :
        wait[t] = "asleep" =>
            /\ ret[t] = "ok"
            /\ deadline[t] # Never => asked[t] - deadline[t] < Second

ClientIInv ==
    /\ SyncTypeOK /\ TimingTypeOK /\ HistoryTypeOK
    /\ FlagsFollow /\ FaultsBlameTheCaller /\ DeadlinesAreClose

LEMMA ClientInit == Init => ClientIInv
  BY DEF Init, SyncInit, ClientIInv, SyncTypeOK, Canary, TimingTypeOK, Times, Never,
         HistoryTypeOK, Lives, FlagsFollow, FaultsBlameTheCaller, DeadlinesAreClose

(* The whole seconds of the clock are less than a second behind it. *)
LEMMA WholeSeconds ==
    ASSUME NEW n \in Nat
    PROVE  /\ (n \div Second) \in Nat
           /\ (n \div Second) * Second <= n
           /\ n < (n \div Second) * Second + Second
<1>1. (n \div Second) \in Nat
  OBVIOUS
<1>2. n % Second \in 0 .. Second - 1
  OBVIOUS
<1>3. n = Second * (n \div Second) + (n % Second)
  OBVIOUS
<1>4. Second * (n \div Second) = (n \div Second) * Second
  BY <1>1
<1>5. (n \div Second) * Second \in Nat
  BY <1>1
<1>. QED  BY <1>1, <1>2, <1>3, <1>4, <1>5

-----------------------------------------------------------------------------
(* Each call of a wrapper, the clock and pthread's own steps.              *)

(* The part of the invariant that speaks of the objects. *)
Objects == SyncTypeOK /\ HistoryTypeOK /\ FlagsFollow /\ FaultsBlameTheCaller

LEMMA ObjectsStay ==
    ASSUME Objects, Running, UNCHANGED <<cond, leaked, fault, life>>,
           misuse' \in {misuse, "none"},
           lock' = lock \/ \E o \in Threads \cup {Nobody} : lock' = [lock EXCEPT !.owner = o],
           wait' \in [Threads -> {"no", "asleep", "woken"}]
    PROVE  Objects'
<1>1. /\ lock' \in [init : BOOLEAN, canary : Canary, owner : Threads \cup {Nobody}]
      /\ lock'.init = lock.init /\ lock'.canary = lock.canary
  BY DEF Objects, SyncTypeOK
<1>2. SyncTypeOK' /\ HistoryTypeOK'
  BY <1>1 DEF Objects, SyncTypeOK, HistoryTypeOK
<1>3. FlagsFollow' /\ FaultsBlameTheCaller'
  BY <1>1 DEF Objects, Running, FlagsFollow, FaultsBlameTheCaller
<1>. QED  BY <1>2, <1>3 DEF Objects

(* The process stops on the use of an object that is not alive. *)
LEMMA RefuseKeeps ==
    ASSUME Objects, Refuse, UNCHANGED life, misuse' = "dead object"
    PROVE  Objects'
<1>1. fault' \in {"assert", "invalid"} /\ UNCHANGED <<lock, cond, wait, leaked, life>>
  BY DEF Refuse
<1>2. SyncTypeOK' /\ HistoryTypeOK'
  BY <1>1 DEF Objects, SyncTypeOK, HistoryTypeOK
<1>3. FlagsFollow' /\ FaultsBlameTheCaller'
  BY <1>1 DEF Objects, FlagsFollow, FaultsBlameTheCaller
<1>. QED  BY <1>2, <1>3 DEF Objects

(* A sleeper's deadline is not touched by who does not sleep. *)
LEMMA DeadlinesStay ==
    ASSUME DeadlinesAreClose, UNCHANGED <<deadline, asked, ret>>,
           \A t \in Threads : wait'[t] = "asleep" => wait[t] = "asleep"
    PROVE  DeadlinesAreClose'
  BY DEF DeadlinesAreClose

LEMMA MutexLifeKeeps ==
    ASSUME ClientIInv, Running, InitMutex \/ DestroyMutex
    PROVE  ClientIInv'
<1>. USE DEF ClientIInv, timing
<1>2. TimingTypeOK'
  BY DEF InitMutex, DestroyMutex, TimingTypeOK
<1>3. CASE InitMutex
  <2>. USE <1>3 DEF InitMutex, bt_mutex_init, Begins
  <2>1. PICK c \in {"null", "live"} : lock' = [init |-> TRUE, canary |-> c, owner |-> Nobody]
    OBVIOUS
  <2>2. lock'.init /\ lock'.canary = c
    BY <2>1
  <2>3. /\ UNCHANGED <<cond, wait, leaked, fault>> /\ misuse' = "none"
        /\ life' \in Lives /\ life'.lock = "alive" /\ life'.cond = life.cond
    BY DEF FlagsFollow, FaultsBlameTheCaller, Overwrites, HistoryTypeOK, Lives
  <2>4. SyncTypeOK' /\ HistoryTypeOK'
    BY <2>1, <2>3 DEF SyncTypeOK, Canary, HistoryTypeOK
  <2>5. FlagsFollow'
    BY <2>2, <2>3 DEF FlagsFollow
  <2>6. FaultsBlameTheCaller'
    BY <2>2, <2>3 DEF Running, FaultsBlameTheCaller
  <2>7. DeadlinesAreClose'
    BY <2>3, DeadlinesStay
  <2>. QED  BY <1>2, <2>4, <2>5, <2>6, <2>7
<1>4. CASE DestroyMutex /\ lock.init
  <2>. USE <1>4 DEF DestroyMutex, bt_mutex_destroy, Ends
  <2>1. /\ lock.canary # "freed" /\ fault' = "none" /\ misuse' = "none"
        /\ UNCHANGED <<cond, wait, leaked>>
        /\ life' = [life EXCEPT !.lock = "destroyed"]
    BY DEF FlagsFollow, FaultsBlameTheCaller, FreeFault, HistoryTypeOK, Lives
  <2>2. lock' = [lock EXCEPT !.init = FALSE, !.canary = Free(@)]
    OBVIOUS
  <2>3. Free(lock.canary) \in {"null", "freed"}
    BY <2>1 DEF Free, SyncTypeOK, Canary
  <2>4. SyncTypeOK' /\ HistoryTypeOK'
    BY <2>1, <2>2, <2>3 DEF SyncTypeOK, Canary, HistoryTypeOK, Lives
  <2>5. FlagsFollow' /\ FaultsBlameTheCaller'
    BY <2>1, <2>2, <2>3 DEF Running, FlagsFollow, FaultsBlameTheCaller, HistoryTypeOK, Lives,
                            SyncTypeOK
  <2>6. DeadlinesAreClose'
    BY <2>1, DeadlinesStay
  <2>. QED  BY <1>2, <2>4, <2>5, <2>6
<1>5. CASE DestroyMutex /\ ~lock.init
  <2>1. UNCHANGED sync /\ UNCHANGED life /\ misuse' = "none"
    BY <1>5 DEF DestroyMutex, bt_mutex_destroy, Ends, FlagsFollow, HistoryTypeOK, Lives
  <2>2. Objects'
    BY <2>1, ObjectsStay DEF sync, Objects, SyncTypeOK
  <2>3. DeadlinesAreClose'
    BY <1>5, <2>1, DeadlinesStay DEF DestroyMutex, sync
  <2>. QED  BY <1>2, <2>2, <2>3 DEF Objects
<1>. QED  BY <1>3, <1>4, <1>5

LEMMA CondLifeKeeps ==
    ASSUME ClientIInv, Running, InitCond \/ DestroyCond
    PROVE  ClientIInv'
<1>. USE DEF ClientIInv, timing
<1>1. TimingTypeOK' /\ DeadlinesAreClose'
  BY DeadlinesStay DEF InitCond, DestroyCond, bt_cond_init, bt_cond_destroy, TimingTypeOK
<1>2. CASE InitCond
  <2>. USE <1>2 DEF InitCond, bt_cond_init, Begins
  <2>1. PICK c \in {"null", "live"} : cond' = [init |-> TRUE, canary |-> c]
    OBVIOUS
  <2>2. cond'.init /\ cond'.canary = c
    BY <2>1
  <2>3. /\ UNCHANGED <<lock, wait, leaked, fault>> /\ misuse' = "none"
        /\ life' \in Lives /\ life'.cond = "alive" /\ life'.lock = life.lock
    BY DEF FlagsFollow, FaultsBlameTheCaller, Overwrites, HistoryTypeOK, Lives
  <2>4. SyncTypeOK' /\ HistoryTypeOK'
    BY <2>1, <2>3 DEF SyncTypeOK, Canary, HistoryTypeOK
  <2>5. FlagsFollow'
    BY <2>2, <2>3 DEF FlagsFollow
  <2>6. FaultsBlameTheCaller'
    BY <2>2, <2>3 DEF Running, FaultsBlameTheCaller
  <2>. QED  BY <1>1, <2>4, <2>5, <2>6
<1>3. CASE DestroyCond
  <2>. USE <1>3 DEF DestroyCond, bt_cond_destroy, Ends
  <2>1. /\ cond' = [cond EXCEPT !.init = FALSE, !.canary = Free(@)]
        /\ UNCHANGED <<lock, wait, leaked>>
        /\ life'.cond = (IF life.cond = "alive" THEN "destroyed" ELSE life.cond)
        /\ life'.lock = life.lock /\ life' \in Lives
    BY DEF HistoryTypeOK, Lives
  <2>2. /\ Free(cond.canary) \in {"null", "freed"}
        /\ Free(cond.canary) = "null" <=> cond.canary = "null"
    BY DEF Free, SyncTypeOK, Canary
  <2>3. fault' = (IF cond.canary = "freed" THEN "double free" ELSE "none")
    BY DEF FreeFault
  <2>4. misuse' = (IF life.cond = "destroyed" THEN "destroyed twice" ELSE "none")
    OBVIOUS
  <2>5. SyncTypeOK' /\ HistoryTypeOK'
    BY <2>1, <2>2, <2>3, <2>4 DEF SyncTypeOK, Canary, HistoryTypeOK
  <2>6. /\ ~cond'.init /\ cond'.canary = Free(cond.canary)
        /\ cond.canary \in Canary /\ life.cond \in {"unborn", "alive", "destroyed"}
    BY <2>1 DEF SyncTypeOK, HistoryTypeOK, Lives
  <2>7. FlagsFollow'
    <3>1. lock'.init <=> life'.lock = "alive"
      BY <2>1 DEF FlagsFollow
    <3>2. life'.cond # "alive"
      BY DEF HistoryTypeOK, Lives
    <3>. QED  BY <2>6, <3>1, <3>2, Zenon DEF FlagsFollow
  <2>8. FaultsBlameTheCaller'
    BY <2>1, <2>2, <2>3, <2>4, <2>6 DEF FaultsBlameTheCaller, Canary
  <2>. QED  BY <1>1, <2>5, <2>7, <2>8
<1>. QED  BY <1>2, <1>3

LEMMA LockingKeeps ==
    ASSUME ClientIInv, Running, NEW t \in Threads, Lock(t) \/ Unlock(t)
    PROVE  ClientIInv'
<1>. USE DEF ClientIInv, timing
<1>1. UNCHANGED <<wait, deadline, asked, ret>> /\ TimingTypeOK'
  BY DEF Lock, Unlock, bt_mutex_lock, bt_mutex_unlock, Uses, Refuse, TimingTypeOK
<1>2. UNCHANGED life /\ misuse' = IF lock.init THEN "none" ELSE "dead object"
  BY DEF Lock, Unlock, Needs, FlagsFollow
<1>3. CASE lock.init
  <2>1. /\ UNCHANGED <<cond, leaked, fault>>
        /\ \E o \in Threads \cup {Nobody} : lock' = [lock EXCEPT !.owner = o]
    BY <1>3 DEF Lock, Unlock, bt_mutex_lock, bt_mutex_unlock, Uses
  <2>2. Objects'
    BY <1>1, <1>2, <1>3, <2>1, ObjectsStay DEF Objects, SyncTypeOK
  <2>. QED  BY <1>1, <2>2, DeadlinesStay DEF Objects
<1>4. CASE ~lock.init
  <2>1. Refuse
    BY <1>4 DEF Lock, Unlock, bt_mutex_lock, bt_mutex_unlock, Uses
  <2>2. Objects'
    BY <1>2, <1>4, <2>1, RefuseKeeps DEF Objects
  <2>. QED  BY <1>1, <2>2, DeadlinesStay DEF Objects
<1>. QED  BY <1>3, <1>4

(* A thread goes to sleep, or the process stops. *)
LEMMA SleepKeeps ==
    ASSUME ClientIInv, Running, NEW t \in Threads, bt_cond_wait(t), Needs({"cond", "lock"})
    PROVE  Objects' /\ wait' \in {wait, [wait EXCEPT ![t] = "asleep"]}
<1>. USE DEF ClientIInv
<1>1. /\ UNCHANGED life
      /\ misuse' = IF cond.init /\ lock.init THEN "none" ELSE "dead object"
  BY DEF Needs, FlagsFollow
<1>2. CASE cond.init /\ lock.init
  <2>1. /\ lock' = [lock EXCEPT !.owner = Nobody]
        /\ wait' = [wait EXCEPT ![t] = "asleep"]
        /\ UNCHANGED <<cond, leaked, fault>>
    BY <1>2 DEF bt_cond_wait, Uses
  <2>2. wait' \in [Threads -> {"no", "asleep", "woken"}]
    BY <2>1 DEF SyncTypeOK
  <2>. QED  BY <1>1, <1>2, <2>1, <2>2, ObjectsStay DEF Objects
<1>3. CASE ~(cond.init /\ lock.init)
  <2>1. Refuse
    BY <1>3 DEF bt_cond_wait, Uses
  <2>. QED  BY <1>1, <1>3, <2>1, RefuseKeeps DEF Objects, Refuse
<1>. QED  BY <1>2, <1>3

LEMMA WaitKeeps ==
    ASSUME ClientIInv, Running, NEW t \in Threads, Wait(t)
    PROVE  ClientIInv'
<1>1. Objects' /\ wait' \in {wait, [wait EXCEPT ![t] = "asleep"]}
  BY SleepKeeps DEF Wait
<1>2. TimingTypeOK'
  BY DEF Wait, ClientIInv, TimingTypeOK, Times
<1>3. DeadlinesAreClose'
  BY <1>1 DEF Wait, Idle, ClientIInv, TimingTypeOK, SyncTypeOK, DeadlinesAreClose
<1>. QED  BY <1>1, <1>2, <1>3 DEF ClientIInv, Objects

LEMMA TimedWaitKeeps ==
    ASSUME ClientIInv, Running, NEW t \in Threads, NEW rel \in RelTimes, TimedWait(t, rel)
    PROVE  ClientIInv'
<1>1. Objects' /\ wait' \in {wait, [wait EXCEPT ![t] = "asleep"]}
  BY SleepKeeps DEF TimedWait
<1>2. now \in Nat /\ rel \in Nat /\ Second \in Nat
  BY DEF ClientIInv, TimingTypeOK
<1>3. /\ AbsTime(rel) = (now \div Second) * Second + rel * Second
      /\ (now \div Second) * Second \in Nat /\ rel * Second \in Nat
  <2>1. (now \div Second) \in Nat
    BY <1>2, WholeSeconds
  <2>2. \A q, r, c \in Nat : (q + r) * c = q * c + r * c /\ q * c \in Nat
    OBVIOUS
  <2>. QED  BY <1>2, <2>1, <2>2 DEF AbsTime
<1>4. /\ AbsTime(rel) \in Nat /\ now + rel * Second \in Nat
      /\ (now + rel * Second) - AbsTime(rel) < Second
  BY <1>2, <1>3, WholeSeconds
<1>5. TimingTypeOK'
  BY <1>4 DEF TimedWait, ClientIInv, TimingTypeOK, Times
<1>6. DeadlinesAreClose'
  BY <1>1, <1>4 DEF TimedWait, Idle, ClientIInv, TimingTypeOK, SyncTypeOK, DeadlinesAreClose
<1>. QED  BY <1>1, <1>5, <1>6 DEF ClientIInv, Objects

LEMMA NoTimeOfDayKeeps ==
    ASSUME ClientIInv, NEW t \in Threads, NoTimeOfDay(t)
    PROVE  ClientIInv'
<1>1. SyncTypeOK' /\ HistoryTypeOK' /\ TimingTypeOK' /\ FlagsFollow' /\ FaultsBlameTheCaller'
  BY DEF NoTimeOfDay, sync, history, ClientIInv, SyncTypeOK, HistoryTypeOK, TimingTypeOK,
         FlagsFollow, FaultsBlameTheCaller
<1>2. DeadlinesAreClose'
  BY DEF NoTimeOfDay, Idle, sync, ClientIInv, TimingTypeOK, DeadlinesAreClose
<1>. QED  BY <1>1, <1>2 DEF ClientIInv

(* A thread wakes up, of itself, by a signal or because its time is over. *)
LEMMA WakingKeeps ==
    ASSUME ClientIInv, Running, NEW t \in Threads, wait[t] = "asleep",
           wait' = [wait EXCEPT ![t] = "woken"],
           UNCHANGED <<lock, cond, leaked, fault, now, deadline, asked, life>>,
           misuse' \in {misuse, "none"},
           ret' = ret \/ ret' = [ret EXCEPT ![t] = "ETIMEDOUT"]
    PROVE  ClientIInv'
<1>1. Objects'
  BY ObjectsStay DEF ClientIInv, Objects, SyncTypeOK
<1>2. TimingTypeOK'
  BY DEF ClientIInv, TimingTypeOK
<1>3. DeadlinesAreClose'
  BY DEF ClientIInv, SyncTypeOK, TimingTypeOK, DeadlinesAreClose
<1>. QED  BY <1>1, <1>2, <1>3 DEF ClientIInv, Objects

LEMMA StutterKeeps ==
    ASSUME ClientIInv, UNCHANGED vars
    PROVE  ClientIInv'
  BY DEF vars, ClientIInv, SyncTypeOK, HistoryTypeOK, TimingTypeOK, FlagsFollow,
         FaultsBlameTheCaller, DeadlinesAreClose

LEMMA SignalKeeps ==
    ASSUME ClientIInv, Running, Signal
    PROVE  ClientIInv'
<1>. USE DEF ClientIInv
<1>1. /\ UNCHANGED life /\ UNCHANGED timing
      /\ misuse' = IF cond.init THEN "none" ELSE "dead object"
  BY DEF Signal, Needs, FlagsFollow
<1>2. TimingTypeOK'
  BY <1>1 DEF timing, TimingTypeOK
<1>3. CASE ~cond.init
  <2>1. Refuse
    BY <1>3 DEF Signal, bt_cond_signal, Uses
  <2>2. Objects'
    BY <1>1, <1>3, <2>1, RefuseKeeps DEF Objects
  <2>3. DeadlinesAreClose'
    BY <1>1, <2>1, DeadlinesStay DEF timing, Refuse
  <2>. QED  BY <1>2, <2>2, <2>3 DEF Objects
<1>4. CASE cond.init
  <2>1. /\ UNCHANGED <<lock, cond, leaked, fault>>
        /\ \/ UNCHANGED wait
           \/ \E t \in Threads : /\ wait[t] = "asleep"
                                 /\ wait' = [wait EXCEPT ![t] = "woken"]
    BY <1>4 DEF Signal, bt_cond_signal, Uses
  <2>2. CASE UNCHANGED wait
    <3>1. Objects'
      BY <1>1, <1>4, <2>1, <2>2, ObjectsStay DEF Objects, SyncTypeOK
    <3>2. DeadlinesAreClose'
      BY <1>1, <2>2, DeadlinesStay DEF timing
    <3>. QED  BY <1>2, <3>1, <3>2 DEF Objects
  <2>3. CASE ~UNCHANGED wait
    BY <1>1, <1>4, <2>1, <2>3, WakingKeeps DEF timing
  <2>. QED  BY <2>2, <2>3
<1>. QED  BY <1>3, <1>4

LEMMA WakeUpKeeps ==
    ASSUME ClientIInv, Running, NEW t \in Threads, WakeUpEarly(t) \/ TimeIsOver(t)
    PROVE  ClientIInv'
  BY WakingKeeps DEF WakeUpEarly, TimeIsOver, WakeUp, timing, history

LEMMA ReturnKeeps ==
    ASSUME ClientIInv, Running, NEW t \in Threads, Return(t)
    PROVE  ClientIInv'
<1>. USE DEF Return, ReturnFromWait, timing, history, ClientIInv
<1>1. wait' \in [Threads -> {"no", "asleep", "woken"}]
  BY DEF SyncTypeOK
<1>2. Objects'
  BY <1>1, ObjectsStay DEF Objects
<1>3. TimingTypeOK' /\ DeadlinesAreClose'
  BY DEF TimingTypeOK, SyncTypeOK, DeadlinesAreClose
<1>. QED  BY <1>2, <1>3 DEF Objects

LEMMA TickKeeps ==
    ASSUME ClientIInv, Tick
    PROVE  ClientIInv'
<1>. USE DEF Tick, sync, history, ClientIInv
<1>1. SyncTypeOK' /\ HistoryTypeOK' /\ FlagsFollow' /\ FaultsBlameTheCaller'
  BY DEF SyncTypeOK, HistoryTypeOK, FlagsFollow, FaultsBlameTheCaller
<1>2. TimingTypeOK' /\ DeadlinesAreClose'
  BY DEF TimingTypeOK, DeadlinesAreClose
<1>. QED  BY <1>1, <1>2

LEMMA ClientStep ==
    ASSUME ClientIInv, [Next]_vars
    PROVE  ClientIInv'
<1>1. CASE UNCHANGED vars
  BY <1>1, StutterKeeps
<1>2. CASE Next
  <2>1. Running
    BY <1>2 DEF Next
  <2>2. CASE InitMutex \/ DestroyMutex \/ InitCond \/ DestroyCond
    BY <2>1, <2>2, MutexLifeKeeps, CondLifeKeeps
  <2>3. CASE Signal \/ Tick
    BY <2>1, <2>3, SignalKeeps, TickKeeps
  <2>4. CASE \E t \in Threads : Lock(t) \/ Unlock(t)
    BY <2>1, <2>4, LockingKeeps
  <2>5. CASE \E t \in Threads : Wait(t) \/ NoTimeOfDay(t) \/ Return(t)
    BY <2>1, <2>5, WaitKeeps, NoTimeOfDayKeeps, ReturnKeeps
  <2>6. CASE \E t \in Threads : WakeUpEarly(t) \/ TimeIsOver(t)
    BY <2>1, <2>6, WakeUpKeeps
  <2>7. CASE \E t \in Threads, rel \in RelTimes : TimedWait(t, rel)
    BY <2>1, <2>7, TimedWaitKeeps
  <2>. QED  BY <1>2, <2>2, <2>3, <2>4, <2>5, <2>6, <2>7 DEF Next
<1>. QED  BY <1>1, <1>2

-----------------------------------------------------------------------------

(* mutex.h under callers that use and destroy objects whenever they like:  *)
(* an assertion fires exactly on the use of an object that is not alive, a *)
(* canary is freed twice exactly when a condition variable whose canary    *)
(* was allocated is destroyed again, and canaries live as long as objects. *)
THEOREM FaultsHaveACaller == Spec => []FaultsBlameTheCaller
<1>1. ClientIInv /\ [Next]_vars => ClientIInv'
  BY ClientStep
<1>2. ClientIInv => FaultsBlameTheCaller
  BY DEF ClientIInv
<1>. QED  BY ClientInit, <1>1, <1>2, PTL DEF Spec

(* bt_cond_timedwait_rel gives up less than a second early, for any clock  *)
(* and any waits, although it drops the fraction of the current second.    *)
THEOREM TimedWaitsAreLong == Spec => LessThanASecondEarly
<1>. DEFINE Early(t) ==
         wait[t] = "asleep" /\ wait'[t] = "woken" /\ ret'[t] = "ETIMEDOUT"
<1>1. ASSUME ClientIInv, [Next]_vars, NEW t \in Threads, Early(t)
      PROVE  asked[t] - now < Second
  <2>1. /\ ret[t] = "ok" /\ (deadline[t] # Never => asked[t] - deadline[t] < Second)
        /\ asked[t] \in Int /\ deadline[t] \in Int /\ now \in Nat
    BY <1>1 DEF ClientIInv, DeadlinesAreClose, TimingTypeOK, Times, Never
  <2>2. ret' # ret
    BY <1>1, <2>1
  <2>3. \E u \in Threads : TimeIsOver(u)
    <3>1. /\ ~InitMutex /\ ~DestroyMutex /\ ~InitCond /\ ~DestroyCond /\ ~Signal /\ ~Tick
          /\ \A u \in Threads : ~Lock(u) /\ ~Unlock(u) /\ ~WakeUpEarly(u) /\ ~Return(u)
      BY <2>2 DEF InitMutex, DestroyMutex, InitCond, DestroyCond, Signal, Tick, Lock,
                  Unlock, WakeUpEarly, Return, timing
    <3>2. \A u \in Threads : ~NoTimeOfDay(u)
      BY <1>1 DEF NoTimeOfDay, sync
    <3>3. Next
      BY <1>1, <2>2 DEF vars
    <3>4. \A u \in Threads : Wait(u) \/ (\E rel \in RelTimes : TimedWait(u, rel))
                                => bt_cond_wait(u) /\ Needs({"cond", "lock"})
      BY DEF Wait, TimedWait
    <3>5. \A u \in Threads : bt_cond_wait(u) /\ Needs({"cond", "lock"})
                                => wait' \in {wait, [wait EXCEPT ![u] = "asleep"]}
      BY <1>1, <3>3, SleepKeeps DEF Next
    <3>6. \A u \in Threads : ~Wait(u) /\ \A rel \in RelTimes : ~TimedWait(u, rel)
      BY <1>1, <3>4, <3>5 DEF ClientIInv, SyncTypeOK
    <3>. QED  BY <3>1, <3>2, <3>3, <3>6 DEF Next
  <2>4. TimeIsOver(t)
    BY <1>1, <2>3 DEF TimeIsOver, WakeUp, ClientIInv, SyncTypeOK
  <2>. QED  BY <2>1, <2>4 DEF TimeIsOver
<1>2. ClientIInv /\ [Next]_vars => \A t \in Threads : Early(t) => asked[t] - now < Second
  BY <1>1
<1>3. ClientIInv /\ [Next]_vars => ClientIInv'
  BY ClientStep
<1>. QED  BY ClientInit, <1>2, <1>3, PTL DEF Spec, LessThanASecondEarly
=============================================================================
