--------------------------- MODULE BasicCondProofs ---------------------------
(***************************************************************************)
(* Proofs about BasicCond, for any M and any number of spurious wake-ups:  *)
(* the turns are exact and no signal is missed.                            *)
(***************************************************************************)
EXTENDS BasicCond, TLAPS

USE SyncAssumption, BasicCondAssumption

LEMMA InitIsInductive == Init => IInv
<1>. SUFFICES ASSUME Init PROVE IInv
  OBVIOUS
<1>. USE DEF Init, SyncInit
<1>1. TypeOK
  <2>1. SyncTypeOK
    BY DEF SyncTypeOK, Canary
  <2>2. pc \in [Threads -> MainStages \cup WorkerStages]
    BY DEF Turns, MainStages, WorkerStages
  <2>3. pc["main"] \in MainStages /\ pc["worker"] \in WorkerStages
    BY DEF Turns, MainStages, WorkerStages
  <2>4. count \in [Threads -> Nat] /\ register \in [Threads -> Nat]
    OBVIOUS
  <2>5. cond_var \in Nat /\ spurious \in 0 .. MaxSpurious
    OBVIOUS
  <2>6. start \in BOOLEAN
    OBVIOUS
  <2>7. failed = {}
    OBVIOUS
  <2>. QED  BY <2>1, <2>2, <2>3, <2>4, <2>5, <2>6, <2>7 DEF TypeOK
<1>2. TurnsAreExact
  BY DEF TurnsAreExact
<1>3. NoMissedSignal
  BY DEF NoMissedSignal
<1>4. \A t \in Threads : Exclusion(t)
  BY DEF Exclusion, Critical
<1>5. MainProgress /\ WorkerProgress
  BY DEF MainProgress, WorkerProgress
<1>6. Lifetime
  BY DEF Lifetime
<1>. QED  BY <1>1, <1>2, <1>3, <1>4, <1>5, <1>6 DEF IInv

(* What Goto does to the stages, when the new one is a stage of the thread. *)
LEMMA GotoMoves ==
    ASSUME TypeOK, NEW t \in Threads, NEW next, Goto(t, next),
           next \in IF t = "main" THEN MainStages ELSE WorkerStages
    PROVE  /\ \A u \in Threads : pc'[u] = IF u = t THEN next ELSE pc[u]
           /\ pc' \in [Threads -> MainStages \cup WorkerStages]
           /\ pc'["main"] \in MainStages
           /\ pc'["worker"] \in WorkerStages
  BY DEF TypeOK, Goto

(* While a thread is between lock and signal, both objects exist. *)
LEMMA ObjectsExist ==
    ASSUME IInv, NEW t \in Threads, pc[t] \in Turns
    PROVE  lock.init /\ cond.init
  BY DEF IInv, TypeOK, Lifetime, Turns, MainStages, WorkerStages

LEMMA LockKeeps ==
    ASSUME IInv, NEW t \in Threads, Lock(t)
    PROVE  IInv'
<1>1. /\ TypeOK /\ SyncTypeOK /\ TurnsAreExact /\ NoMissedSignal
      /\ MainProgress /\ WorkerProgress /\ Lifetime
  BY DEF IInv, TypeOK
<1>2. \A u \in Threads : Exclusion(u)
  BY DEF IInv
<1>a. pc[t] \in Turns => lock.init /\ cond.init
  BY ObjectsExist
<1>3. /\ pc[t] = "lock"
      /\ UNCHANGED <<cond, wait, leaked, fault, start, cond_var, register, count, spurious, failed>>
      /\ lock.owner = Nobody /\ lock' = [lock EXCEPT !.owner = t]
      /\ Goto(t, IF t = "worker" /\ count[t] = 0 THEN "load" ELSE "test")
  BY <1>1, <1>2, <1>a DEF Lock, At, Turns, bt_mutex_lock, Uses, test, memory
<1>4. /\ \A u \in Threads : pc'[u] = IF u = t THEN IF t = "worker" /\ count[t] = 0 THEN "load" ELSE "test" ELSE pc[u]
      /\ pc' \in [Threads -> MainStages \cup WorkerStages]
      /\ pc'["main"] \in MainStages /\ pc'["worker"] \in WorkerStages
  BY <1>1, <1>3, GotoMoves DEF MainStages, WorkerStages, Turns
<1>5. TypeOK'
  BY <1>1, <1>3, <1>4 DEF TypeOK, SyncTypeOK, Canary, Turns
<1>6. TurnsAreExact'
  BY <1>1, <1>2, <1>3, <1>4 DEF TurnsAreExact
<1>7. NoMissedSignal'
  BY <1>1, <1>2, <1>3, <1>4 DEF NoMissedSignal, Target
<1>8. ASSUME NEW u \in Threads PROVE Exclusion(u)'
  <2>1. CASE u = t
    BY <1>1, <1>2, <1>3, <1>4, <2>1 DEF Exclusion, Critical, SyncTypeOK, TypeOK
  <2>2. CASE u # t
    <3>1. pc'[u] = pc[u]
      BY <1>4, <2>2
    <3>2. (wait'[u] = "no" <=> wait[u] = "no") /\ register'[u] = register[u]
      BY <1>1, <1>3, <2>2 DEF SyncTypeOK, TypeOK
    <3>3. lock'.owner = u <=> lock.owner = u
      BY <1>1, <1>2, <1>3, <2>2 DEF SyncTypeOK
    <3>. QED  BY <1>2, <1>3, <3>1, <3>2, <3>3 DEF Exclusion
  <2>. QED  BY <2>1, <2>2
<1>9. MainProgress'
  BY <1>1, <1>3, <1>4 DEF MainProgress
<1>10. WorkerProgress'
  BY <1>1, <1>3, <1>4 DEF WorkerProgress
<1>11. Lifetime'
  BY <1>1, <1>3, <1>4 DEF Lifetime, SyncTypeOK
<1>. QED  BY <1>5, <1>6, <1>7, <1>8, <1>9, <1>10, <1>11 DEF IInv

LEMMA WaitKeeps ==
    ASSUME IInv, NEW t \in Threads, Wait(t)
    PROVE  IInv'
<1>1. /\ TypeOK /\ SyncTypeOK /\ TurnsAreExact /\ NoMissedSignal
      /\ MainProgress /\ WorkerProgress /\ Lifetime
  BY DEF IInv, TypeOK
<1>2. \A u \in Threads : Exclusion(u)
  BY DEF IInv
<1>a. pc[t] \in Turns => lock.init /\ cond.init
  BY ObjectsExist
<1>3. /\ pc[t] = "test"
      /\ UNCHANGED <<cond, leaked, fault, start, cond_var, register, count, spurious, failed>>
      /\ lock' = [lock EXCEPT !.owner = Nobody] /\ wait' = [wait EXCEPT ![t] = "asleep"]
      /\ cond_var # Target(t) /\ lock.owner = t
      /\ Goto(t, "waiting")
  BY <1>1, <1>2, <1>a DEF Wait, At, Turns, bt_cond_wait, Uses, test, memory
<1>4. /\ \A u \in Threads : pc'[u] = IF u = t THEN "waiting" ELSE pc[u]
      /\ pc' \in [Threads -> MainStages \cup WorkerStages]
      /\ pc'["main"] \in MainStages /\ pc'["worker"] \in WorkerStages
  BY <1>1, <1>3, GotoMoves DEF MainStages, WorkerStages, Turns
<1>5. TypeOK'
  BY <1>1, <1>3, <1>4 DEF TypeOK, SyncTypeOK, Canary
<1>6. TurnsAreExact'
  BY <1>1, <1>2, <1>3, <1>4 DEF TurnsAreExact
<1>7. NoMissedSignal'
  BY <1>1, <1>2, <1>3, <1>4 DEF NoMissedSignal, Target
<1>8. ASSUME NEW u \in Threads PROVE Exclusion(u)'
  <2>1. CASE u = t
    BY <1>1, <1>2, <1>3, <1>4, <2>1, ZenonT(60) DEF Exclusion, Critical, SyncTypeOK, TypeOK
  <2>2. CASE u # t
    <3>1. pc'[u] = pc[u]
      BY <1>4, <2>2
    <3>2. (wait'[u] = "no" <=> wait[u] = "no") /\ register'[u] = register[u]
      BY <1>1, <1>3, <2>2 DEF SyncTypeOK, TypeOK
    <3>3. lock'.owner = u <=> lock.owner = u
      BY <1>1, <1>2, <1>3, <2>2 DEF SyncTypeOK
    <3>. QED  BY <1>2, <1>3, <3>1, <3>2, <3>3 DEF Exclusion
  <2>. QED  BY <2>1, <2>2
<1>9. MainProgress'
  BY <1>1, <1>3, <1>4 DEF MainProgress
<1>10. WorkerProgress'
  BY <1>1, <1>3, <1>4 DEF WorkerProgress
<1>11. Lifetime'
  BY <1>1, <1>3, <1>4 DEF Lifetime, SyncTypeOK
<1>. QED  BY <1>5, <1>6, <1>7, <1>8, <1>9, <1>10, <1>11 DEF IInv

LEMMA ReturnKeeps ==
    ASSUME IInv, NEW t \in Threads, Return(t)
    PROVE  IInv'
<1>1. /\ TypeOK /\ SyncTypeOK /\ TurnsAreExact /\ NoMissedSignal
      /\ MainProgress /\ WorkerProgress /\ Lifetime
  BY DEF IInv, TypeOK
<1>2. \A u \in Threads : Exclusion(u)
  BY DEF IInv
<1>a. pc[t] \in Turns => lock.init /\ cond.init
  BY ObjectsExist
<1>3. /\ pc[t] = "waiting"
      /\ UNCHANGED <<cond, leaked, fault, start, cond_var, register, count, spurious, failed>>
      /\ lock.owner = Nobody /\ lock' = [lock EXCEPT !.owner = t] /\ wait' = [wait EXCEPT ![t] = "no"]
      /\ Goto(t, "test")
  BY <1>1, <1>2, <1>a DEF Return, At, Turns, ReturnFromWait, test, memory
<1>4. /\ \A u \in Threads : pc'[u] = IF u = t THEN "test" ELSE pc[u]
      /\ pc' \in [Threads -> MainStages \cup WorkerStages]
      /\ pc'["main"] \in MainStages /\ pc'["worker"] \in WorkerStages
  BY <1>1, <1>3, GotoMoves DEF MainStages, WorkerStages, Turns
<1>5. TypeOK'
  BY <1>1, <1>3, <1>4 DEF TypeOK, SyncTypeOK, Canary
<1>6. TurnsAreExact'
  BY <1>1, <1>2, <1>3, <1>4 DEF TurnsAreExact
<1>7. NoMissedSignal'
  BY <1>1, <1>2, <1>3, <1>4 DEF NoMissedSignal, Target
<1>8. ASSUME NEW u \in Threads PROVE Exclusion(u)'
  <2>1. CASE u = t
    BY <1>1, <1>2, <1>3, <1>4, <2>1 DEF Exclusion, Critical, SyncTypeOK, TypeOK
  <2>2. CASE u # t
    <3>1. pc'[u] = pc[u]
      BY <1>4, <2>2
    <3>2. (wait'[u] = "no" <=> wait[u] = "no") /\ register'[u] = register[u]
      BY <1>1, <1>3, <2>2 DEF SyncTypeOK, TypeOK
    <3>3. lock'.owner = u <=> lock.owner = u
      BY <1>1, <1>2, <1>3, <2>2 DEF SyncTypeOK
    <3>. QED  BY <1>2, <1>3, <3>1, <3>2, <3>3 DEF Exclusion
  <2>. QED  BY <2>1, <2>2
<1>9. MainProgress'
  BY <1>1, <1>3, <1>4 DEF MainProgress
<1>10. WorkerProgress'
  BY <1>1, <1>3, <1>4 DEF WorkerProgress
<1>11. Lifetime'
  BY <1>1, <1>3, <1>4 DEF Lifetime, SyncTypeOK
<1>. QED  BY <1>5, <1>6, <1>7, <1>8, <1>9, <1>10, <1>11 DEF IInv

LEMMA ProceedKeeps ==
    ASSUME IInv, NEW t \in Threads, Proceed(t)
    PROVE  IInv'
<1>1. /\ TypeOK /\ SyncTypeOK /\ TurnsAreExact /\ NoMissedSignal
      /\ MainProgress /\ WorkerProgress /\ Lifetime
  BY DEF IInv, TypeOK
<1>2. \A u \in Threads : Exclusion(u)
  BY DEF IInv
<1>3. /\ pc[t] = "test"
      /\ UNCHANGED <<lock, cond, wait, leaked, fault, start, cond_var, register, count, spurious, failed>>
      /\ cond_var = Target(t)
      /\ Goto(t, "load")
  BY <1>1, <1>2 DEF Proceed, At, sync, test, memory
<1>4. /\ \A u \in Threads : pc'[u] = IF u = t THEN "load" ELSE pc[u]
      /\ pc' \in [Threads -> MainStages \cup WorkerStages]
      /\ pc'["main"] \in MainStages /\ pc'["worker"] \in WorkerStages
  BY <1>1, <1>3, GotoMoves DEF MainStages, WorkerStages, Turns
<1>5. TypeOK'
  BY <1>1, <1>3, <1>4 DEF TypeOK, SyncTypeOK, Canary
<1>6. TurnsAreExact'
  BY <1>1, <1>2, <1>3, <1>4 DEF TurnsAreExact
<1>7. NoMissedSignal'
  BY <1>1, <1>2, <1>3, <1>4 DEF NoMissedSignal, Target
<1>8. ASSUME NEW u \in Threads PROVE Exclusion(u)'
  <2>1. CASE u = t
    BY <1>1, <1>2, <1>3, <1>4, <2>1 DEF Exclusion, Critical, SyncTypeOK, TypeOK
  <2>2. CASE u # t
    <3>1. pc'[u] = pc[u]
      BY <1>4, <2>2
    <3>2. (wait'[u] = "no" <=> wait[u] = "no") /\ register'[u] = register[u]
      BY <1>1, <1>3, <2>2 DEF SyncTypeOK, TypeOK
    <3>3. lock'.owner = u <=> lock.owner = u
      BY <1>1, <1>2, <1>3, <2>2 DEF SyncTypeOK
    <3>. QED  BY <1>2, <1>3, <3>1, <3>2, <3>3 DEF Exclusion
  <2>. QED  BY <2>1, <2>2
<1>9. MainProgress'
  BY <1>1, <1>3, <1>4 DEF MainProgress, WorkerProgress, TurnsAreExact, Target, TypeOK
<1>10. WorkerProgress'
  BY <1>1, <1>3, <1>4 DEF WorkerProgress, MainProgress, TurnsAreExact, Target, TypeOK
<1>11. Lifetime'
  BY <1>1, <1>3, <1>4 DEF Lifetime, SyncTypeOK
<1>. QED  BY <1>5, <1>6, <1>7, <1>8, <1>9, <1>10, <1>11 DEF IInv

LEMMA LoadKeeps ==
    ASSUME IInv, NEW t \in Threads, Load(t)
    PROVE  IInv'
<1>1. /\ TypeOK /\ SyncTypeOK /\ TurnsAreExact /\ NoMissedSignal
      /\ MainProgress /\ WorkerProgress /\ Lifetime
  BY DEF IInv, TypeOK
<1>2. \A u \in Threads : Exclusion(u)
  BY DEF IInv
<1>3. /\ pc[t] = "load"
      /\ UNCHANGED <<lock, cond, wait, leaked, fault, start, cond_var, count, spurious, failed>>
      /\ register' = [register EXCEPT ![t] = cond_var]
      /\ Goto(t, "store")
  BY <1>1, <1>2 DEF Load, At, sync
<1>4. /\ \A u \in Threads : pc'[u] = IF u = t THEN "store" ELSE pc[u]
      /\ pc' \in [Threads -> MainStages \cup WorkerStages]
      /\ pc'["main"] \in MainStages /\ pc'["worker"] \in WorkerStages
  BY <1>1, <1>3, GotoMoves DEF MainStages, WorkerStages, Turns
<1>5. TypeOK'
  BY <1>1, <1>3, <1>4 DEF TypeOK, SyncTypeOK, Canary
<1>6. TurnsAreExact'
  BY <1>1, <1>2, <1>3, <1>4 DEF TurnsAreExact
<1>7. NoMissedSignal'
  BY <1>1, <1>2, <1>3, <1>4 DEF NoMissedSignal, Target
<1>8. ASSUME NEW u \in Threads PROVE Exclusion(u)'
  <2>1. CASE u = t
    BY <1>1, <1>2, <1>3, <1>4, <2>1 DEF Exclusion, Critical, SyncTypeOK, TypeOK
  <2>2. CASE u # t
    <3>1. pc'[u] = pc[u]
      BY <1>4, <2>2
    <3>2. (wait'[u] = "no" <=> wait[u] = "no") /\ register'[u] = register[u]
      BY <1>1, <1>3, <2>2 DEF SyncTypeOK, TypeOK
    <3>3. lock'.owner = u <=> lock.owner = u
      BY <1>1, <1>2, <1>3, <2>2 DEF SyncTypeOK
    <3>. QED  BY <1>2, <1>3, <3>1, <3>2, <3>3 DEF Exclusion
  <2>. QED  BY <2>1, <2>2
<1>9. MainProgress'
  BY <1>1, <1>3, <1>4 DEF MainProgress
<1>10. WorkerProgress'
  BY <1>1, <1>3, <1>4 DEF WorkerProgress
<1>11. Lifetime'
  BY <1>1, <1>3, <1>4 DEF Lifetime, SyncTypeOK
<1>. QED  BY <1>5, <1>6, <1>7, <1>8, <1>9, <1>10, <1>11 DEF IInv

LEMMA UnlockKeeps ==
    ASSUME IInv, NEW t \in Threads, Unlock(t)
    PROVE  IInv'
<1>1. /\ TypeOK /\ SyncTypeOK /\ TurnsAreExact /\ NoMissedSignal
      /\ MainProgress /\ WorkerProgress /\ Lifetime
  BY DEF IInv, TypeOK
<1>2. \A u \in Threads : Exclusion(u)
  BY DEF IInv
<1>a. pc[t] \in Turns => lock.init /\ cond.init
  BY ObjectsExist
<1>3. /\ pc[t] = "unlock"
      /\ UNCHANGED <<cond, wait, leaked, fault, start, cond_var, register, count, spurious, failed>>
      /\ lock.owner = t /\ lock' = [lock EXCEPT !.owner = Nobody]
      /\ Goto(t, IF t = "worker" /\ count[t] = 2 * M THEN "end" ELSE "signal")
  BY <1>1, <1>2, <1>a DEF Unlock, At, Turns, bt_mutex_unlock, Uses, test, memory, Exclusion, Critical
<1>4. /\ \A u \in Threads : pc'[u] = IF u = t THEN IF t = "worker" /\ count[t] = 2 * M THEN "end" ELSE "signal" ELSE pc[u]
      /\ pc' \in [Threads -> MainStages \cup WorkerStages]
      /\ pc'["main"] \in MainStages /\ pc'["worker"] \in WorkerStages
  BY <1>1, <1>3, GotoMoves DEF MainStages, WorkerStages, Turns
<1>5. TypeOK'
  BY <1>1, <1>3, <1>4 DEF TypeOK, SyncTypeOK, Canary
<1>6. TurnsAreExact'
  BY <1>1, <1>2, <1>3, <1>4 DEF TurnsAreExact
<1>7. NoMissedSignal'
  BY <1>1, <1>2, <1>3, <1>4 DEF NoMissedSignal, Target,
       Exclusion, WorkerProgress, MainProgress, TurnsAreExact, TypeOK
<1>8. ASSUME NEW u \in Threads PROVE Exclusion(u)'
  <2>1. CASE u = t
    BY <1>1, <1>2, <1>3, <1>4, <2>1 DEF Exclusion, Critical, SyncTypeOK, TypeOK
  <2>2. CASE u # t
    <3>1. pc'[u] = pc[u]
      BY <1>4, <2>2
    <3>2. (wait'[u] = "no" <=> wait[u] = "no") /\ register'[u] = register[u]
      BY <1>1, <1>3, <2>2 DEF SyncTypeOK, TypeOK
    <3>3. lock'.owner = u <=> lock.owner = u
      BY <1>1, <1>2, <1>3, <2>2 DEF SyncTypeOK
    <3>. QED  BY <1>2, <1>3, <3>1, <3>2, <3>3 DEF Exclusion
  <2>. QED  BY <2>1, <2>2
<1>9. MainProgress'
  BY <1>1, <1>3, <1>4 DEF MainProgress
<1>10. WorkerProgress'
  BY <1>1, <1>3, <1>4 DEF WorkerProgress
<1>11. Lifetime'
  BY <1>1, <1>3, <1>4 DEF Lifetime, SyncTypeOK
<1>. QED  BY <1>5, <1>6, <1>7, <1>8, <1>9, <1>10, <1>11 DEF IInv

LEMMA SignalKeeps ==
    ASSUME IInv, NEW t \in Threads, Signal(t)
    PROVE  IInv'
<1>1. /\ TypeOK /\ SyncTypeOK /\ TurnsAreExact /\ NoMissedSignal
      /\ MainProgress /\ WorkerProgress /\ Lifetime
  BY DEF IInv, TypeOK
<1>2. \A u \in Threads : Exclusion(u)
  BY DEF IInv
<1>a. pc[t] \in Turns => lock.init /\ cond.init
  BY ObjectsExist
<1>3. /\ pc[t] = "signal"
      /\ UNCHANGED <<lock, cond, leaked, fault, start, cond_var, register, count, spurious, failed>>
      /\ wait' \in [Threads -> {"no", "asleep", "woken"}]
      /\ \A u \in Threads : wait'[u] # "asleep" /\ (wait'[u] = "no" <=> wait[u] = "no")
      /\ Goto(t, IF t = "main" THEN "join" ELSE "lock")
  <2>1. pc[t] = "signal" /\ cond.init
    BY <1>a DEF Signal, At, Turns
  <2>2. /\ UNCHANGED <<lock, cond, leaked, fault, start, cond_var, register, count, spurious, failed>>
        /\ Goto(t, IF t = "main" THEN "join" ELSE "lock")
    BY <2>1 DEF Signal, bt_cond_signal, Uses, test, memory
  <2>3. wait[t] # "asleep"
    BY <1>2, <2>1 DEF Exclusion
  <2>4. CASE \E u \in Threads : wait[u] = "asleep"
    <3>1. PICK u \in Threads : wait[u] = "asleep" /\ wait' = [wait EXCEPT ![u] = "woken"]
      BY <2>1, <2>4 DEF Signal, bt_cond_signal, Uses
    <3>2. \A v \in Threads : v = u \/ v = t
      BY <2>3, <3>1
    <3>. QED  BY <1>1, <2>1, <2>2, <2>3, <3>1, <3>2 DEF SyncTypeOK
  <2>5. CASE ~ \E u \in Threads : wait[u] = "asleep"
    <3>1. wait' = wait
      BY <2>1, <2>5 DEF Signal, bt_cond_signal, Uses
    <3>. QED  BY <1>1, <2>1, <2>2, <2>5, <3>1 DEF SyncTypeOK
  <2>. QED  BY <2>4, <2>5
<1>4. /\ \A u \in Threads : pc'[u] = IF u = t THEN IF t = "main" THEN "join" ELSE "lock" ELSE pc[u]
      /\ pc' \in [Threads -> MainStages \cup WorkerStages]
      /\ pc'["main"] \in MainStages /\ pc'["worker"] \in WorkerStages
  BY <1>1, <1>3, GotoMoves DEF MainStages, WorkerStages, Turns
<1>5. TypeOK'
  BY <1>1, <1>3, <1>4 DEF TypeOK, SyncTypeOK, Canary
<1>6. TurnsAreExact'
  BY <1>1, <1>2, <1>3, <1>4 DEF TurnsAreExact
<1>7. NoMissedSignal'
  BY <1>1, <1>2, <1>3, <1>4 DEF NoMissedSignal, Target
<1>8. ASSUME NEW u \in Threads PROVE Exclusion(u)'
  <2>1. CASE u = t
    BY <1>1, <1>2, <1>3, <1>4, <2>1 DEF Exclusion, Critical, SyncTypeOK, TypeOK
  <2>2. CASE u # t
    <3>1. pc'[u] = pc[u]
      BY <1>4, <2>2
    <3>2. (wait'[u] = "no" <=> wait[u] = "no") /\ register'[u] = register[u]
      BY <1>1, <1>3, <2>2 DEF SyncTypeOK, TypeOK
    <3>3. lock'.owner = u <=> lock.owner = u
      BY <1>1, <1>2, <1>3, <2>2 DEF SyncTypeOK
    <3>. QED  BY <1>2, <1>3, <3>1, <3>2, <3>3 DEF Exclusion
  <2>. QED  BY <2>1, <2>2
<1>9. MainProgress'
  BY <1>1, <1>3, <1>4 DEF MainProgress
<1>10. WorkerProgress'
  BY <1>1, <1>3, <1>4 DEF WorkerProgress
<1>11. Lifetime'
  BY <1>1, <1>3, <1>4 DEF Lifetime, SyncTypeOK
<1>. QED  BY <1>5, <1>6, <1>7, <1>8, <1>9, <1>10, <1>11 DEF IInv

LEMMA BeginKeeps ==
    ASSUME IInv, Begin
    PROVE  IInv'
<1>1. /\ TypeOK /\ SyncTypeOK /\ TurnsAreExact /\ NoMissedSignal
      /\ MainProgress /\ WorkerProgress /\ Lifetime
  BY DEF IInv, TypeOK
<1>2. \A u \in Threads : Exclusion(u)
  BY DEF IInv
<1>3. /\ pc["worker"] = "begin"
      /\ UNCHANGED <<lock, cond, wait, leaked, fault, cond_var, register, count, spurious, failed>>
      /\ start' = TRUE
      /\ Goto("worker", "lock")
  BY <1>1, <1>2 DEF Begin, At, sync
<1>4. /\ \A u \in Threads : pc'[u] = IF u = "worker" THEN "lock" ELSE pc[u]
      /\ pc' \in [Threads -> MainStages \cup WorkerStages]
      /\ pc'["main"] \in MainStages /\ pc'["worker"] \in WorkerStages
  BY <1>1, <1>3, GotoMoves DEF MainStages, WorkerStages, Turns
<1>5. TypeOK'
  BY <1>1, <1>3, <1>4 DEF TypeOK, SyncTypeOK, Canary
<1>6. TurnsAreExact'
  BY <1>1, <1>2, <1>3, <1>4 DEF TurnsAreExact
<1>7. NoMissedSignal'
  BY <1>1, <1>2, <1>3, <1>4 DEF NoMissedSignal, Target
<1>8. ASSUME NEW u \in Threads PROVE Exclusion(u)'
  <2>1. CASE u = "worker"
    BY <1>1, <1>2, <1>3, <1>4, <2>1 DEF Exclusion, Critical, SyncTypeOK, TypeOK
  <2>2. CASE u # "worker"
    <3>1. pc'[u] = pc[u]
      BY <1>4, <2>2
    <3>2. (wait'[u] = "no" <=> wait[u] = "no") /\ register'[u] = register[u]
      BY <1>1, <1>3, <2>2 DEF SyncTypeOK, TypeOK
    <3>3. lock'.owner = u <=> lock.owner = u
      BY <1>1, <1>2, <1>3, <2>2 DEF SyncTypeOK
    <3>. QED  BY <1>2, <1>3, <3>1, <3>2, <3>3 DEF Exclusion
  <2>. QED  BY <2>1, <2>2
<1>9. MainProgress'
  BY <1>1, <1>3, <1>4 DEF MainProgress
<1>10. WorkerProgress'
  BY <1>1, <1>3, <1>4 DEF WorkerProgress
<1>11. Lifetime'
  BY <1>1, <1>3, <1>4 DEF Lifetime, SyncTypeOK
<1>. QED  BY <1>5, <1>6, <1>7, <1>8, <1>9, <1>10, <1>11 DEF IInv

LEMMA InitCondKeeps ==
    ASSUME IInv, InitCond
    PROVE  IInv'
<1>1. /\ TypeOK /\ SyncTypeOK /\ TurnsAreExact /\ NoMissedSignal
      /\ MainProgress /\ WorkerProgress /\ Lifetime
  BY DEF IInv, TypeOK
<1>2. \A u \in Threads : Exclusion(u)
  BY DEF IInv
<1>3. /\ pc["main"] = "cond_init"
      /\ UNCHANGED <<lock, wait, leaked, fault, start, cond_var, register, count, spurious, failed>>
      /\ cond'.init /\ cond' \in [init : BOOLEAN, canary : {"null", "live"}]
      /\ Goto("main", "mutex_init")
  BY <1>1, <1>2 DEF InitCond, At, test, memory, bt_cond_init, Overwrites, Lifetime
<1>4. /\ \A u \in Threads : pc'[u] = IF u = "main" THEN "mutex_init" ELSE pc[u]
      /\ pc' \in [Threads -> MainStages \cup WorkerStages]
      /\ pc'["main"] \in MainStages /\ pc'["worker"] \in WorkerStages
  BY <1>1, <1>3, GotoMoves DEF MainStages, WorkerStages, Turns
<1>5. TypeOK'
  BY <1>1, <1>3, <1>4 DEF TypeOK, SyncTypeOK, Canary
<1>6. TurnsAreExact'
  BY <1>1, <1>2, <1>3, <1>4 DEF TurnsAreExact
<1>7. NoMissedSignal'
  BY <1>1, <1>2, <1>3, <1>4 DEF NoMissedSignal, Target
<1>8. ASSUME NEW u \in Threads PROVE Exclusion(u)'
  <2>1. CASE u = "main"
    BY <1>1, <1>2, <1>3, <1>4, <2>1 DEF Exclusion, Critical, SyncTypeOK, TypeOK
  <2>2. CASE u # "main"
    <3>1. pc'[u] = pc[u]
      BY <1>4, <2>2
    <3>2. (wait'[u] = "no" <=> wait[u] = "no") /\ register'[u] = register[u]
      BY <1>1, <1>3, <2>2 DEF SyncTypeOK, TypeOK
    <3>3. lock'.owner = u <=> lock.owner = u
      BY <1>1, <1>2, <1>3, <2>2 DEF SyncTypeOK
    <3>. QED  BY <1>2, <1>3, <3>1, <3>2, <3>3 DEF Exclusion
  <2>. QED  BY <2>1, <2>2
<1>9. MainProgress'
  BY <1>1, <1>3, <1>4 DEF MainProgress
<1>10. WorkerProgress'
  BY <1>1, <1>3, <1>4 DEF WorkerProgress
<1>11. Lifetime'
  BY <1>1, <1>3, <1>4 DEF Lifetime, SyncTypeOK
<1>. QED  BY <1>5, <1>6, <1>7, <1>8, <1>9, <1>10, <1>11 DEF IInv

LEMMA InitMutexKeeps ==
    ASSUME IInv, InitMutex
    PROVE  IInv'
<1>1. /\ TypeOK /\ SyncTypeOK /\ TurnsAreExact /\ NoMissedSignal
      /\ MainProgress /\ WorkerProgress /\ Lifetime
  BY DEF IInv, TypeOK
<1>2. \A u \in Threads : Exclusion(u)
  BY DEF IInv
<1>3. /\ pc["main"] = "mutex_init"
      /\ UNCHANGED <<cond, wait, leaked, fault, start, cond_var, register, count, spurious, failed>>
      /\ lock'.init /\ lock' \in [init : BOOLEAN, canary : {"null", "live"}, owner : {Nobody}]
      /\ Goto("main", "create")
  BY <1>1, <1>2 DEF InitMutex, At, test, memory, bt_mutex_init, Overwrites, Lifetime
<1>4. /\ \A u \in Threads : pc'[u] = IF u = "main" THEN "create" ELSE pc[u]
      /\ pc' \in [Threads -> MainStages \cup WorkerStages]
      /\ pc'["main"] \in MainStages /\ pc'["worker"] \in WorkerStages
  BY <1>1, <1>3, GotoMoves DEF MainStages, WorkerStages, Turns
<1>5. TypeOK'
  BY <1>1, <1>3, <1>4 DEF TypeOK, SyncTypeOK, Canary
<1>6. TurnsAreExact'
  BY <1>1, <1>2, <1>3, <1>4 DEF TurnsAreExact
<1>7. NoMissedSignal'
  BY <1>1, <1>2, <1>3, <1>4 DEF NoMissedSignal, Target
<1>8. ASSUME NEW u \in Threads PROVE Exclusion(u)'
  <2>1. CASE u = "main"
    BY <1>1, <1>2, <1>3, <1>4, <2>1 DEF Exclusion, Critical, SyncTypeOK, TypeOK
  <2>2. CASE u # "main"
    <3>1. pc'[u] = pc[u]
      BY <1>4, <2>2
    <3>2. (wait'[u] = "no" <=> wait[u] = "no") /\ register'[u] = register[u]
      BY <1>1, <1>3, <2>2 DEF SyncTypeOK, TypeOK
    <3>3. lock'.owner = u <=> lock.owner = u
      BY <1>1, <1>2, <1>3, <2>2 DEF SyncTypeOK, Exclusion, Critical, Lifetime
    <3>. QED  BY <1>2, <1>3, <3>1, <3>2, <3>3 DEF Exclusion
  <2>. QED  BY <2>1, <2>2
<1>9. MainProgress'
  BY <1>1, <1>3, <1>4 DEF MainProgress
<1>10. WorkerProgress'
  BY <1>1, <1>3, <1>4 DEF WorkerProgress
<1>11. Lifetime'
  BY <1>1, <1>3, <1>4 DEF Lifetime, SyncTypeOK
<1>. QED  BY <1>5, <1>6, <1>7, <1>8, <1>9, <1>10, <1>11 DEF IInv

LEMMA CreateFailsKeeps ==
    ASSUME IInv, CreateFails
    PROVE  IInv'
<1>1. /\ TypeOK /\ SyncTypeOK /\ TurnsAreExact /\ NoMissedSignal
      /\ MainProgress /\ WorkerProgress /\ Lifetime
  BY DEF IInv, TypeOK
<1>2. \A u \in Threads : Exclusion(u)
  BY DEF IInv
<1>3. /\ pc["main"] = "create"
      /\ UNCHANGED <<lock, cond, wait, leaked, fault, start, cond_var, register, count, spurious>>
      /\ failed' = failed \cup {"create"}
      /\ Goto("main", "spin")
  BY <1>1, <1>2 DEF CreateFails, At, sync, memory, Assert
<1>4. /\ \A u \in Threads : pc'[u] = IF u = "main" THEN "spin" ELSE pc[u]
      /\ pc' \in [Threads -> MainStages \cup WorkerStages]
      /\ pc'["main"] \in MainStages /\ pc'["worker"] \in WorkerStages
  BY <1>1, <1>3, GotoMoves DEF MainStages, WorkerStages, Turns
<1>5. TypeOK'
  BY <1>1, <1>3, <1>4 DEF TypeOK, SyncTypeOK, Canary
<1>6. TurnsAreExact'
  BY <1>1, <1>2, <1>3, <1>4 DEF TurnsAreExact
<1>7. NoMissedSignal'
  BY <1>1, <1>2, <1>3, <1>4 DEF NoMissedSignal, Target
<1>8. ASSUME NEW u \in Threads PROVE Exclusion(u)'
  <2>1. CASE u = "main"
    BY <1>1, <1>2, <1>3, <1>4, <2>1 DEF Exclusion, Critical, SyncTypeOK, TypeOK
  <2>2. CASE u # "main"
    <3>1. pc'[u] = pc[u]
      BY <1>4, <2>2
    <3>2. (wait'[u] = "no" <=> wait[u] = "no") /\ register'[u] = register[u]
      BY <1>1, <1>3, <2>2 DEF SyncTypeOK, TypeOK
    <3>3. lock'.owner = u <=> lock.owner = u
      BY <1>1, <1>2, <1>3, <2>2 DEF SyncTypeOK
    <3>. QED  BY <1>2, <1>3, <3>1, <3>2, <3>3 DEF Exclusion
  <2>. QED  BY <2>1, <2>2
<1>9. MainProgress'
  BY <1>1, <1>3, <1>4 DEF MainProgress
<1>10. WorkerProgress'
  BY <1>1, <1>3, <1>4 DEF WorkerProgress
<1>11. Lifetime'
  BY <1>1, <1>3, <1>4 DEF Lifetime, SyncTypeOK
<1>. QED  BY <1>5, <1>6, <1>7, <1>8, <1>9, <1>10, <1>11 DEF IInv

LEMMA SpinKeeps ==
    ASSUME IInv, Spin
    PROVE  IInv'
<1>1. /\ TypeOK /\ SyncTypeOK /\ TurnsAreExact /\ NoMissedSignal
      /\ MainProgress /\ WorkerProgress /\ Lifetime
  BY DEF IInv, TypeOK
<1>2. \A u \in Threads : Exclusion(u)
  BY DEF IInv
<1>3. /\ pc["main"] = "spin"
      /\ UNCHANGED <<lock, cond, wait, leaked, fault, start, cond_var, register, count, spurious, failed>>
      /\ Goto("main", IF start THEN "lock" ELSE "spin")
  BY <1>1, <1>2 DEF Spin, At, sync, test, memory
<1>4. /\ \A u \in Threads : pc'[u] = IF u = "main" THEN IF start THEN "lock" ELSE "spin" ELSE pc[u]
      /\ pc' \in [Threads -> MainStages \cup WorkerStages]
      /\ pc'["main"] \in MainStages /\ pc'["worker"] \in WorkerStages
  BY <1>1, <1>3, GotoMoves DEF MainStages, WorkerStages, Turns
<1>5. TypeOK'
  BY <1>1, <1>3, <1>4 DEF TypeOK, SyncTypeOK, Canary
<1>6. TurnsAreExact'
  BY <1>1, <1>2, <1>3, <1>4 DEF TurnsAreExact
<1>7. NoMissedSignal'
  BY <1>1, <1>2, <1>3, <1>4 DEF NoMissedSignal, Target
<1>8. ASSUME NEW u \in Threads PROVE Exclusion(u)'
  <2>1. CASE u = "main"
    BY <1>1, <1>2, <1>3, <1>4, <2>1 DEF Exclusion, Critical, SyncTypeOK, TypeOK
  <2>2. CASE u # "main"
    <3>1. pc'[u] = pc[u]
      BY <1>4, <2>2
    <3>2. (wait'[u] = "no" <=> wait[u] = "no") /\ register'[u] = register[u]
      BY <1>1, <1>3, <2>2 DEF SyncTypeOK, TypeOK
    <3>3. lock'.owner = u <=> lock.owner = u
      BY <1>1, <1>2, <1>3, <2>2 DEF SyncTypeOK
    <3>. QED  BY <1>2, <1>3, <3>1, <3>2, <3>3 DEF Exclusion
  <2>. QED  BY <2>1, <2>2
<1>9. MainProgress'
  BY <1>1, <1>3, <1>4 DEF MainProgress
<1>10. WorkerProgress'
  BY <1>1, <1>3, <1>4 DEF WorkerProgress
<1>11. Lifetime'
  BY <1>1, <1>3, <1>4 DEF Lifetime, SyncTypeOK
<1>. QED  BY <1>5, <1>6, <1>7, <1>8, <1>9, <1>10, <1>11 DEF IInv

LEMMA JoinKeeps ==
    ASSUME IInv, Join
    PROVE  IInv'
<1>1. /\ TypeOK /\ SyncTypeOK /\ TurnsAreExact /\ NoMissedSignal
      /\ MainProgress /\ WorkerProgress /\ Lifetime
  BY DEF IInv, TypeOK
<1>2. \A u \in Threads : Exclusion(u)
  BY DEF IInv
<1>3. /\ pc["main"] = "join"
      /\ UNCHANGED <<lock, cond, wait, leaked, fault, start, cond_var, register, count, spurious, failed>>
      /\ pc["worker"] = "end"
      /\ Goto("main", "check")
  BY <1>1, <1>2 DEF Join, At, sync, test, memory
<1>4. /\ \A u \in Threads : pc'[u] = IF u = "main" THEN "check" ELSE pc[u]
      /\ pc' \in [Threads -> MainStages \cup WorkerStages]
      /\ pc'["main"] \in MainStages /\ pc'["worker"] \in WorkerStages
  BY <1>1, <1>3, GotoMoves DEF MainStages, WorkerStages, Turns
<1>5. TypeOK'
  BY <1>1, <1>3, <1>4 DEF TypeOK, SyncTypeOK, Canary
<1>6. TurnsAreExact'
  BY <1>1, <1>2, <1>3, <1>4 DEF TurnsAreExact
<1>7. NoMissedSignal'
  BY <1>1, <1>2, <1>3, <1>4 DEF NoMissedSignal, Target
<1>8. ASSUME NEW u \in Threads PROVE Exclusion(u)'
  <2>1. CASE u = "main"
    BY <1>1, <1>2, <1>3, <1>4, <2>1 DEF Exclusion, Critical, SyncTypeOK, TypeOK
  <2>2. CASE u # "main"
    <3>1. pc'[u] = pc[u]
      BY <1>4, <2>2
    <3>2. (wait'[u] = "no" <=> wait[u] = "no") /\ register'[u] = register[u]
      BY <1>1, <1>3, <2>2 DEF SyncTypeOK, TypeOK
    <3>3. lock'.owner = u <=> lock.owner = u
      BY <1>1, <1>2, <1>3, <2>2 DEF SyncTypeOK
    <3>. QED  BY <1>2, <1>3, <3>1, <3>2, <3>3 DEF Exclusion
  <2>. QED  BY <2>1, <2>2
<1>9. MainProgress'
  BY <1>1, <1>3, <1>4 DEF MainProgress
<1>10. WorkerProgress'
  BY <1>1, <1>3, <1>4 DEF WorkerProgress
<1>11. Lifetime'
  BY <1>1, <1>3, <1>4 DEF Lifetime, SyncTypeOK
<1>. QED  BY <1>5, <1>6, <1>7, <1>8, <1>9, <1>10, <1>11 DEF IInv

LEMMA CheckKeeps ==
    ASSUME IInv, Check
    PROVE  IInv'
<1>1. /\ TypeOK /\ SyncTypeOK /\ TurnsAreExact /\ NoMissedSignal
      /\ MainProgress /\ WorkerProgress /\ Lifetime
  BY DEF IInv, TypeOK
<1>2. \A u \in Threads : Exclusion(u)
  BY DEF IInv
<1>3. /\ pc["main"] = "check"
      /\ UNCHANGED <<lock, cond, wait, leaked, fault, start, cond_var, register, count, spurious, failed>>
      /\ Goto("main", "cond_destroy")
  BY <1>1, <1>2 DEF Check, At, sync, memory, Assert, Lifetime, MainProgress, WorkerProgress, TurnsAreExact, TypeOK
<1>4. /\ \A u \in Threads : pc'[u] = IF u = "main" THEN "cond_destroy" ELSE pc[u]
      /\ pc' \in [Threads -> MainStages \cup WorkerStages]
      /\ pc'["main"] \in MainStages /\ pc'["worker"] \in WorkerStages
  BY <1>1, <1>3, GotoMoves DEF MainStages, WorkerStages, Turns
<1>5. TypeOK'
  BY <1>1, <1>3, <1>4 DEF TypeOK, SyncTypeOK, Canary
<1>6. TurnsAreExact'
  BY <1>1, <1>2, <1>3, <1>4 DEF TurnsAreExact
<1>7. NoMissedSignal'
  BY <1>1, <1>2, <1>3, <1>4 DEF NoMissedSignal, Target
<1>8. ASSUME NEW u \in Threads PROVE Exclusion(u)'
  <2>1. CASE u = "main"
    BY <1>1, <1>2, <1>3, <1>4, <2>1 DEF Exclusion, Critical, SyncTypeOK, TypeOK
  <2>2. CASE u # "main"
    <3>1. pc'[u] = pc[u]
      BY <1>4, <2>2
    <3>2. (wait'[u] = "no" <=> wait[u] = "no") /\ register'[u] = register[u]
      BY <1>1, <1>3, <2>2 DEF SyncTypeOK, TypeOK
    <3>3. lock'.owner = u <=> lock.owner = u
      BY <1>1, <1>2, <1>3, <2>2 DEF SyncTypeOK
    <3>. QED  BY <1>2, <1>3, <3>1, <3>2, <3>3 DEF Exclusion
  <2>. QED  BY <2>1, <2>2
<1>9. MainProgress'
  BY <1>1, <1>3, <1>4 DEF MainProgress
<1>10. WorkerProgress'
  BY <1>1, <1>3, <1>4 DEF WorkerProgress
<1>11. Lifetime'
  BY <1>1, <1>3, <1>4 DEF Lifetime, SyncTypeOK
<1>. QED  BY <1>5, <1>6, <1>7, <1>8, <1>9, <1>10, <1>11 DEF IInv

LEMMA DestroyCondKeeps ==
    ASSUME IInv, DestroyCond
    PROVE  IInv'
<1>1. /\ TypeOK /\ SyncTypeOK /\ TurnsAreExact /\ NoMissedSignal
      /\ MainProgress /\ WorkerProgress /\ Lifetime
  BY DEF IInv, TypeOK
<1>2. \A u \in Threads : Exclusion(u)
  BY DEF IInv
<1>3. /\ pc["main"] = "cond_destroy"
      /\ UNCHANGED <<lock, wait, leaked, fault, start, cond_var, register, count, spurious, failed>>
      /\ cond' = [cond EXCEPT !.init = FALSE, !.canary = Free(@)]
      /\ Goto("main", "mutex_destroy")
  BY <1>1, <1>2 DEF DestroyCond, At, memory, Assert, bt_cond_destroy, FreeFault, Lifetime, Exclusion
<1>4. /\ \A u \in Threads : pc'[u] = IF u = "main" THEN "mutex_destroy" ELSE pc[u]
      /\ pc' \in [Threads -> MainStages \cup WorkerStages]
      /\ pc'["main"] \in MainStages /\ pc'["worker"] \in WorkerStages
  BY <1>1, <1>3, GotoMoves DEF MainStages, WorkerStages, Turns
<1>5. TypeOK'
  BY <1>1, <1>3, <1>4 DEF TypeOK, SyncTypeOK, Canary, Free
<1>6. TurnsAreExact'
  BY <1>1, <1>2, <1>3, <1>4 DEF TurnsAreExact
<1>7. NoMissedSignal'
  BY <1>1, <1>2, <1>3, <1>4 DEF NoMissedSignal, Target
<1>8. ASSUME NEW u \in Threads PROVE Exclusion(u)'
  <2>1. CASE u = "main"
    BY <1>1, <1>2, <1>3, <1>4, <2>1 DEF Exclusion, Critical, SyncTypeOK, TypeOK
  <2>2. CASE u # "main"
    <3>1. pc'[u] = pc[u]
      BY <1>4, <2>2
    <3>2. (wait'[u] = "no" <=> wait[u] = "no") /\ register'[u] = register[u]
      BY <1>1, <1>3, <2>2 DEF SyncTypeOK, TypeOK
    <3>3. lock'.owner = u <=> lock.owner = u
      BY <1>1, <1>2, <1>3, <2>2 DEF SyncTypeOK
    <3>. QED  BY <1>2, <1>3, <3>1, <3>2, <3>3 DEF Exclusion
  <2>. QED  BY <2>1, <2>2
<1>9. MainProgress'
  BY <1>1, <1>3, <1>4 DEF MainProgress
<1>10. WorkerProgress'
  BY <1>1, <1>3, <1>4 DEF WorkerProgress
<1>11. Lifetime'
  BY <1>1, <1>3, <1>4 DEF Lifetime, SyncTypeOK, Free, Canary
<1>. QED  BY <1>5, <1>6, <1>7, <1>8, <1>9, <1>10, <1>11 DEF IInv

LEMMA DestroyMutexKeeps ==
    ASSUME IInv, DestroyMutex
    PROVE  IInv'
<1>1. /\ TypeOK /\ SyncTypeOK /\ TurnsAreExact /\ NoMissedSignal
      /\ MainProgress /\ WorkerProgress /\ Lifetime
  BY DEF IInv, TypeOK
<1>2. \A u \in Threads : Exclusion(u)
  BY DEF IInv
<1>3. /\ pc["main"] = "mutex_destroy"
      /\ UNCHANGED <<cond, wait, leaked, fault, start, cond_var, register, count, spurious, failed>>
      /\ lock' = [lock EXCEPT !.init = FALSE, !.canary = Free(@)]
      /\ Goto("main", "done")
  BY <1>1, <1>2 DEF DestroyMutex, At, memory, Assert, bt_mutex_destroy, FreeFault, Lifetime, Exclusion, Critical, SyncTypeOK
<1>4. /\ \A u \in Threads : pc'[u] = IF u = "main" THEN "done" ELSE pc[u]
      /\ pc' \in [Threads -> MainStages \cup WorkerStages]
      /\ pc'["main"] \in MainStages /\ pc'["worker"] \in WorkerStages
  BY <1>1, <1>3, GotoMoves DEF MainStages, WorkerStages, Turns
<1>5. TypeOK'
  BY <1>1, <1>3, <1>4 DEF TypeOK, SyncTypeOK, Canary, Free
<1>6. TurnsAreExact'
  BY <1>1, <1>2, <1>3, <1>4 DEF TurnsAreExact
<1>7. NoMissedSignal'
  BY <1>1, <1>2, <1>3, <1>4 DEF NoMissedSignal, Target
<1>8. ASSUME NEW u \in Threads PROVE Exclusion(u)'
  <2>1. CASE u = "main"
    BY <1>1, <1>2, <1>3, <1>4, <2>1 DEF Exclusion, Critical, SyncTypeOK, TypeOK
  <2>2. CASE u # "main"
    <3>1. pc'[u] = pc[u]
      BY <1>4, <2>2
    <3>2. (wait'[u] = "no" <=> wait[u] = "no") /\ register'[u] = register[u]
      BY <1>1, <1>3, <2>2 DEF SyncTypeOK, TypeOK
    <3>3. lock'.owner = u <=> lock.owner = u
      BY <1>1, <1>2, <1>3, <2>2 DEF SyncTypeOK
    <3>. QED  BY <1>2, <1>3, <3>1, <3>2, <3>3 DEF Exclusion
  <2>. QED  BY <2>1, <2>2
<1>9. MainProgress'
  BY <1>1, <1>3, <1>4 DEF MainProgress
<1>10. WorkerProgress'
  BY <1>1, <1>3, <1>4 DEF WorkerProgress
<1>11. Lifetime'
  BY <1>1, <1>3, <1>4 DEF Lifetime, SyncTypeOK, Free, Canary
<1>. QED  BY <1>5, <1>6, <1>7, <1>8, <1>9, <1>10, <1>11 DEF IInv

(* An increment, and after the last one of a turn the assertion. *)
LEMMA StoreKeeps ==
    ASSUME IInv, NEW t \in Threads, Store(t)
    PROVE  IInv'
<1>1. /\ TypeOK /\ SyncTypeOK /\ TurnsAreExact /\ NoMissedSignal
      /\ MainProgress /\ WorkerProgress /\ Lifetime
  BY DEF IInv, TypeOK
<1>2. \A u \in Threads : Exclusion(u)
  BY DEF IInv
<1>. DEFINE next == IF TurnEnds(t) THEN "unlock" ELSE "load"
<1>3. /\ pc[t] = "store" /\ cond_var' = cond_var + 1
      /\ count' = [count EXCEPT ![t] = @ + 1]
      /\ UNCHANGED <<lock, cond, wait, leaked, fault, start, register, spurious>>
      /\ Goto(t, next)
  BY <1>2 DEF Store, At, sync, Exclusion
<1>4. /\ \A u \in Threads : pc'[u] = IF u = t THEN next ELSE pc[u]
      /\ pc' \in [Threads -> MainStages \cup WorkerStages]
      /\ pc'["main"] \in MainStages /\ pc'["worker"] \in WorkerStages
  <2>1. next \in MainStages /\ next \in WorkerStages
    BY DEF MainStages, WorkerStages, Turns
  <2>. QED  BY <1>1, <1>3, <2>1, GotoMoves
<1>a. next = IF count[t] + 1 = M \/ count[t] + 1 = 2 * M THEN "unlock" ELSE "load"
  BY DEF TurnEnds
<1>. HIDE DEF next
<1>b. /\ \A u \in Threads : count[u] \in Nat
      /\ \A u \in Threads : count'[u] = IF u = t THEN count[u] + 1 ELSE count[u]
      /\ count' \in [Threads -> Nat]
      /\ cond_var \in Nat /\ cond_var = count["main"] + count["worker"]
  BY <1>1, <1>3 DEF TypeOK, TurnsAreExact
<1>c. IF t = "main" THEN count["main"] < M /\ count["worker"] = M
      ELSE count["worker"] < M \/ (count["worker"] < 2 * M /\ count["main"] = M)
  BY <1>1, <1>3 DEF MainProgress, WorkerProgress
<1>d. failed' = failed
  <2>1. ASSUME TurnEnds(t), t = "main" \/ count[t] >= M
        PROVE  register[t] + 1 = Target(t) + M
    <3>1. register[t] = count["main"] + count["worker"]
      BY <1>2, <1>3, <1>b DEF Exclusion
    <3>. QED  BY <1>b, <1>c, <2>1, <3>1 DEF TurnEnds, Target
  <2>. QED  BY <2>1 DEF Store, Assert
<1>5. TypeOK'
  <2>1. SyncTypeOK'
    BY <1>1, <1>3 DEF SyncTypeOK
  <2>2. cond_var' \in Nat
    BY <1>3, <1>b
  <2>3. spurious' \in 0 .. MaxSpurious /\ start' \in BOOLEAN
    BY <1>1, <1>3 DEF TypeOK
  <2>. QED  BY <1>1, <1>3, <1>4, <1>b, <1>d, <2>1, <2>2, <2>3 DEF TypeOK
<1>6. TurnsAreExact'
  BY <1>1, <1>3, <1>b, <1>d DEF TurnsAreExact
<1>7. NoMissedSignal'
  <2>1. SUFFICES ASSUME NEW u \in Threads, NEW v \in Threads, u # v,
                        wait[u] = "asleep", cond_var + 1 = Target(u)
                 PROVE  pc'[v] \in {"unlock", "signal"}
    BY <1>3 DEF NoMissedSignal, Target
  <2>2. pc[u] = "waiting"
    BY <1>2, <2>1 DEF Exclusion
  <2>3. v = t
    BY <1>3, <2>1, <2>2
  <2>4. IF u = "main" THEN count["main"] = 0 ELSE count["worker"] = M
    BY <1>1, <2>2 DEF MainProgress, WorkerProgress
  <2>. QED  BY <1>4, <1>a, <1>b, <2>1, <2>3, <2>4 DEF Target
<1>8. ASSUME NEW u \in Threads PROVE Exclusion(u)'
  <2>1. CASE u = t
    BY <1>2, <1>3, <1>4, <1>a, <2>1 DEF Exclusion, Critical
  <2>2. CASE u # t
    <3>1. pc'[u] = pc[u] /\ pc[u] # "store"
      BY <1>2, <1>3, <1>4, <2>2 DEF Exclusion, Critical
    <3>. QED  BY <1>2, <1>3, <3>1 DEF Exclusion
  <2>. QED  BY <2>1, <2>2
<1>9. MainProgress'
  <2>1. CASE t = "main"
    BY <1>1, <1>4, <1>a, <1>b, <1>c, <2>1 DEF MainProgress
  <2>2. CASE t = "worker"
    BY <1>1, <1>3, <1>4, <1>b, <1>c, <2>2 DEF MainProgress
  <2>. QED  BY <2>1, <2>2
<1>10. WorkerProgress'
  <2>1. CASE t = "main"
    BY <1>1, <1>3, <1>4, <1>b, <1>c, <2>1 DEF WorkerProgress
  <2>2. CASE t = "worker"
    BY <1>1, <1>3, <1>4, <1>a, <1>b, <1>c, <2>2 DEF WorkerProgress
  <2>. QED  BY <2>1, <2>2
<1>11. Lifetime'
  <2>1. pc'[t] \in {"unlock", "load"} /\ \A u \in Threads : u # t => pc'[u] = pc[u]
    BY <1>4, <1>a
  <2>2. CASE t = "main"
    BY <1>1, <1>3, <2>1, <2>2 DEF Lifetime
  <2>3. CASE t = "worker"
    BY <1>1, <1>3, <2>1, <2>3 DEF Lifetime
  <2>. QED  BY <2>2, <2>3
<1>. QED  BY <1>5, <1>6, <1>7, <1>8, <1>9, <1>10, <1>11 DEF IInv

LEMMA SpuriousKeeps ==
    ASSUME IInv, NEW t \in Threads, Spurious(t)
    PROVE  IInv'
<1>1. /\ TypeOK /\ SyncTypeOK /\ TurnsAreExact /\ NoMissedSignal
      /\ MainProgress /\ WorkerProgress /\ Lifetime
  BY DEF IInv, TypeOK
<1>2. \A u \in Threads : Exclusion(u)
  BY DEF IInv
<1>3. /\ wait[t] = "asleep" /\ wait' = [wait EXCEPT ![t] = "woken"]
      /\ spurious' = spurious + 1 /\ spurious < MaxSpurious
      /\ UNCHANGED <<lock, cond, leaked, fault, pc, start, cond_var, register, count, failed>>
  BY DEF Spurious, WakeUp, memory
<1>4. TypeOK'
  <2>1. SyncTypeOK'
    BY <1>1, <1>3 DEF SyncTypeOK
  <2>2. spurious' \in 0 .. MaxSpurious
    BY <1>1, <1>3 DEF TypeOK
  <2>. QED  BY <1>1, <1>3, <2>1, <2>2 DEF TypeOK
<1>5. TurnsAreExact'
  BY <1>1, <1>3 DEF TurnsAreExact
<1>6. NoMissedSignal'
  BY <1>1, <1>3 DEF NoMissedSignal, Target, SyncTypeOK
<1>7. \A u \in Threads : Exclusion(u)'
  BY <1>1, <1>2, <1>3 DEF Exclusion, SyncTypeOK
<1>8. MainProgress' /\ WorkerProgress' /\ Lifetime'
  BY <1>1, <1>3 DEF MainProgress, WorkerProgress, Lifetime
<1>. QED  BY <1>4, <1>5, <1>6, <1>7, <1>8 DEF IInv

LEMMA CreateKeeps ==
    ASSUME IInv, Create
    PROVE  IInv'
<1>1. /\ TypeOK /\ SyncTypeOK /\ TurnsAreExact /\ NoMissedSignal
      /\ MainProgress /\ WorkerProgress /\ Lifetime
  BY DEF IInv, TypeOK
<1>2. \A u \in Threads : Exclusion(u)
  BY DEF IInv
<1>3. /\ pc["main"] = "create" /\ pc["worker"] = "none"
      /\ UNCHANGED <<lock, cond, wait, leaked, fault, start, cond_var, register, count, spurious, failed>>
  BY <1>1 DEF Create, At, sync, test, memory, Lifetime
<1>4. /\ pc' \in [Threads -> MainStages \cup WorkerStages]
      /\ pc'["main"] = "spin" /\ pc'["worker"] = "begin"
  BY <1>1 DEF Create, TypeOK, MainStages, WorkerStages
<1>5. TypeOK'
  BY <1>1, <1>3, <1>4 DEF TypeOK, SyncTypeOK, MainStages, WorkerStages
<1>6. TurnsAreExact'
  BY <1>1, <1>3 DEF TurnsAreExact
<1>7. \A u \in Threads : Exclusion(u)'
  BY <1>2, <1>3, <1>4 DEF Exclusion, Critical
<1>8. NoMissedSignal'
  BY <1>2, <1>3 DEF NoMissedSignal, Exclusion
<1>9. MainProgress' /\ WorkerProgress'
  BY <1>1, <1>3, <1>4 DEF MainProgress, WorkerProgress
<1>10. Lifetime'
  BY <1>1, <1>3, <1>4 DEF Lifetime
<1>. QED  BY <1>5, <1>6, <1>7, <1>8, <1>9, <1>10 DEF IInv

LEMMA StutterKeeps ==
    ASSUME IInv, UNCHANGED vars
    PROVE  IInv'
<1>1. (\A t \in Threads : Exclusion(t)) => \A t \in Threads : Exclusion(t)'
  BY DEF vars, Exclusion
<1>2. NoMissedSignal => NoMissedSignal'
  BY DEF vars, NoMissedSignal, Target
<1>3. TypeOK => TypeOK'
  BY DEF vars, TypeOK, SyncTypeOK
<1>4. TurnsAreExact => TurnsAreExact'
  BY DEF vars, TurnsAreExact
<1>5. MainProgress /\ WorkerProgress /\ Lifetime => MainProgress' /\ WorkerProgress' /\ Lifetime'
  BY DEF vars, MainProgress, WorkerProgress, Lifetime
<1>. QED  BY <1>1, <1>2, <1>3, <1>4, <1>5 DEF IInv

LEMMA TurnKeeps ==
    ASSUME IInv, NEW t \in Threads, Turn(t)
    PROVE  IInv'
  BY LockKeeps, WaitKeeps, ReturnKeeps, ProceedKeeps, LoadKeeps, StoreKeeps, UnlockKeeps,
     SignalKeeps DEF Turn

LEMMA NextIsInductive == IInv /\ [Next]_vars => IInv'
<1>. SUFFICES ASSUME IInv, [Next]_vars PROVE IInv'
  OBVIOUS
<1>1. CASE Main
  BY <1>1, TurnKeeps, InitCondKeeps, InitMutexKeeps, CreateKeeps, CreateFailsKeeps, SpinKeeps,
     JoinKeeps, CheckKeeps, DestroyCondKeeps, DestroyMutexKeeps DEF Main
<1>2. CASE Worker
  BY <1>2, TurnKeeps, BeginKeeps DEF Worker
<1>3. CASE \E t \in Threads : Spurious(t)
  BY <1>3, SpuriousKeeps
<1>4. CASE Done \/ UNCHANGED vars
  BY <1>4, StutterKeeps DEF Done
<1>. QED  BY <1>1, <1>2, <1>3, <1>4 DEF Next

THEOREM Inductive == Spec => []IInv
  BY InitIsInductive, NextIsInductive, PTL DEF Spec

(* The turns are exact for any M: cond_var is M, 2M and 3M where the test  *)
(* asserts it (004_mutex.c:103-108, 140-145, 150).                         *)
THEOREM CondTurnsAreExact == Spec => []TurnsAreExact
  BY Inductive, PTL DEF IInv

(* However the waits are interrupted, a thread that sleeps on a condition  *)
(* that is true has its signal still ahead.                                *)
THEOREM CondMissesNoSignal == Spec => []NoMissedSignal
  BY Inductive, PTL DEF IInv

(* No assertion of the wrappers stops the test and both canaries are freed *)
(* by its end.                                                             *)
THEOREM CondLeavesNothing == Spec => []NothingLeft
<1>1. IInv => NothingLeft
  BY DEF IInv, Lifetime, NothingLeft
<1>. QED  BY <1>1, Inductive, PTL
=============================================================================
