-------------------------- MODULE BasicMutexProofs --------------------------
(***************************************************************************)
(* Proofs about BasicMutex, for any number of rounds and any batch: the    *)
(* mutex loses no increment.                                               *)
(***************************************************************************)
EXTENDS BasicMutex, TLAPS

USE SyncAssumption, BasicMutexAssumption

(* What a thread's increments amount to when its loop variables move. *)
LEMMA BatchArithmetic ==
    ASSUME NEW i \in Nat, NEW j \in Nat
    PROVE  /\ i * Batch \in Nat
           /\ i * Batch + (j + 1) = (i * Batch + j) + 1
           /\ (i + 1) * Batch + 0 = i * Batch + Batch
           /\ 0 * Batch + 0 = 0
  OBVIOUS

LEMMA InitIsInductive == Init => IInv
<1>. SUFFICES ASSUME Init PROVE IInv
  OBVIOUS
<1>. USE DEF Init, SyncInit
<1>1. TypeOK
  <2>1. SyncTypeOK
    BY DEF SyncTypeOK, Canary
  <2>2. pc \in [Threads -> MainStages \cup WorkerStages]
    BY DEF Loop, MainStages, WorkerStages
  <2>3. pc["main"] \in MainStages /\ pc["worker"] \in WorkerStages
    BY DEF Loop, MainStages, WorkerStages
  <2>4. round \in [Threads -> 0 .. Rounds] /\ step \in [Threads -> 0 .. Batch]
    OBVIOUS
  <2>5. num \in Nat /\ register \in [Threads -> Nat]
    OBVIOUS
  <2>6. start \in BOOLEAN /\ failed \subseteq {"create", "num", "destroy"}
    OBVIOUS
  <2>. QED  BY <2>1, <2>2, <2>3, <2>4, <2>5, <2>6 DEF TypeOK
<1>2. NoLostUpdate
  BY DEF NoLostUpdate, Increments
<1>3. \A t \in Threads : Exclusion(t) /\ Progress(t)
  BY DEF Exclusion, Progress, Critical, Before, Behind, Loop
<1>4. Lifetime
  BY DEF Lifetime
<1>. QED  BY <1>1, <1>2, <1>3, <1>4 DEF IInv

(* What Goto does to the stages, when both are stages of that thread. *)
LEMMA GotoMoves ==
    ASSUME TypeOK, NEW t \in Threads, NEW next, Goto(t, next),
           next \in IF t = "main" THEN MainStages ELSE WorkerStages
    PROVE  /\ \A u \in Threads : pc'[u] = IF u = t THEN next ELSE pc[u]
           /\ pc' \in [Threads -> MainStages \cup WorkerStages]
           /\ pc'["main"] \in MainStages
           /\ pc'["worker"] \in WorkerStages
  BY DEF TypeOK, Goto

LEMMA LockKeeps ==
    ASSUME IInv, NEW t \in Threads, Lock(t)
    PROVE  IInv'
<1>1. TypeOK /\ SyncTypeOK /\ NoLostUpdate /\ Lifetime
  BY DEF IInv, TypeOK
<1>2. \A u \in Threads : Exclusion(u) /\ Progress(u)
  BY DEF IInv
<1>3. /\ pc[t] = "lock" /\ lock.owner = Nobody
      /\ lock' = [lock EXCEPT !.owner = t]
      /\ UNCHANGED <<cond, wait, leaked, fault>>
  BY <1>1 DEF Lock, At, bt_mutex_lock, Uses, Lifetime
<1>4. UNCHANGED <<start, num, register, round, step, failed>> /\ Goto(t, "load")
  BY DEF Lock, test
<1>5. /\ \A u \in Threads : pc'[u] = IF u = t THEN "load" ELSE pc[u]
      /\ pc' \in [Threads -> MainStages \cup WorkerStages]
      /\ pc'["main"] \in MainStages /\ pc'["worker"] \in WorkerStages
  BY <1>1, <1>4, GotoMoves DEF MainStages, WorkerStages, Loop
<1>6. TypeOK'
  BY <1>1, <1>3, <1>4, <1>5 DEF TypeOK, SyncTypeOK
<1>7. NoLostUpdate'
  BY <1>1, <1>4 DEF NoLostUpdate, Increments
<1>8. ASSUME NEW u \in Threads PROVE Exclusion(u)' /\ Progress(u)'
  <2>1. Exclusion(u)'
    BY <1>1, <1>2, <1>3, <1>4, <1>5, ZenonT(60) DEF Exclusion, Critical, SyncTypeOK
  <2>2. CASE u = t
    BY <1>2, <1>3, <1>4, <1>5, <2>1, <2>2 DEF Progress, Critical, Before, Behind, Loop
  <2>3. CASE u # t
    BY <1>2, <1>4, <1>5, <2>1, <2>3 DEF Progress
  <2>. QED  BY <2>2, <2>3
<1>9. Lifetime'
  BY <1>1, <1>3, <1>4, <1>5 DEF Lifetime, SyncTypeOK
<1>. QED  BY <1>6, <1>7, <1>8, <1>9 DEF IInv

LEMMA LoadKeeps ==
    ASSUME IInv, NEW t \in Threads, Load(t)
    PROVE  IInv'
<1>1. TypeOK /\ SyncTypeOK /\ NoLostUpdate /\ Lifetime
  BY DEF IInv, TypeOK
<1>2. \A u \in Threads : Exclusion(u) /\ Progress(u)
  BY DEF IInv
<1>3. /\ pc[t] = "load" /\ register' = [register EXCEPT ![t] = num]
      /\ UNCHANGED <<lock, cond, wait, leaked, fault>>
  BY DEF Load, At, sync
<1>4. UNCHANGED <<start, num, round, step, failed>> /\ Goto(t, "store")
  BY DEF Load
<1>5. /\ \A u \in Threads : pc'[u] = IF u = t THEN "store" ELSE pc[u]
      /\ pc' \in [Threads -> MainStages \cup WorkerStages]
      /\ pc'["main"] \in MainStages /\ pc'["worker"] \in WorkerStages
  BY <1>1, <1>4, GotoMoves DEF MainStages, WorkerStages, Loop
<1>6. TypeOK'
  BY <1>1, <1>3, <1>4, <1>5 DEF TypeOK, SyncTypeOK
<1>7. NoLostUpdate'
  BY <1>1, <1>4 DEF NoLostUpdate, Increments
<1>8. ASSUME NEW u \in Threads PROVE Exclusion(u)' /\ Progress(u)'
  <2>1. CASE u = t
    BY <1>1, <1>2, <1>3, <1>4, <1>5, <2>1
       DEF Exclusion, Progress, Critical, Before, Behind, Loop, TypeOK
  <2>2. CASE u # t
    BY <1>1, <1>2, <1>3, <1>4, <1>5, <2>2 DEF Exclusion, Progress, TypeOK
  <2>. QED  BY <2>1, <2>2
<1>9. Lifetime'
  BY <1>1, <1>3, <1>5 DEF Lifetime
<1>. QED  BY <1>6, <1>7, <1>8, <1>9 DEF IInv

LEMMA StoreKeeps ==
    ASSUME IInv, NEW t \in Threads, Store(t)
    PROVE  IInv'
<1>1. TypeOK /\ SyncTypeOK /\ NoLostUpdate /\ Lifetime
  BY DEF IInv, TypeOK
<1>2. \A u \in Threads : Exclusion(u) /\ Progress(u)
  BY DEF IInv
<1>. DEFINE next == IF step[t] + 1 < Batch THEN "load" ELSE "unlock"
<1>3. /\ pc[t] = "store"
      /\ num' = register[t] + 1
      /\ step' = [step EXCEPT ![t] = @ + 1]
      /\ UNCHANGED <<lock, cond, wait, leaked, fault>>
  BY DEF Store, At, sync
<1>4. UNCHANGED <<start, register, round, failed>> /\ Goto(t, next)
  BY DEF Store
<1>5. /\ \A u \in Threads : pc'[u] = IF u = t THEN next ELSE pc[u]
      /\ pc' \in [Threads -> MainStages \cup WorkerStages]
      /\ pc'["main"] \in MainStages /\ pc'["worker"] \in WorkerStages
  <2>1. next \in MainStages /\ next \in WorkerStages
    BY DEF MainStages, WorkerStages, Loop
  <2>. QED  BY <1>1, <1>4, <2>1, GotoMoves
<1>. HIDE DEF next
<1>a. /\ step[t] \in 0 .. Batch /\ step[t] < Batch /\ register[t] = num /\ num \in Nat
      /\ \A u \in Threads : step[u] \in 0 .. Batch /\ round[u] \in 0 .. Rounds
  BY <1>1, <1>2, <1>3 DEF Exclusion, Progress, TypeOK
<1>b. \A u \in Threads : step'[u] = IF u = t THEN step[u] + 1 ELSE step[u]
  BY <1>1, <1>3 DEF TypeOK
<1>c. next \in {"load", "unlock"} /\ (next = "load" <=> step[t] + 1 < Batch)
  BY DEF next
<1>6. TypeOK'
  <2>1. step' \in [Threads -> 0 .. Batch]
    BY <1>1, <1>3, <1>a DEF TypeOK
  <2>2. num' \in Nat
    BY <1>3, <1>a
  <2>. QED  BY <1>1, <1>3, <1>4, <1>5, <2>1, <2>2 DEF TypeOK, SyncTypeOK
<1>7. NoLostUpdate'
  <2>1. \A u \in Threads : /\ Increments(u) \in Nat
                           /\ Increments(u)' = Increments(u) + (IF u = t THEN 1 ELSE 0)
    <3>1. TAKE u \in Threads
    <3>2. /\ round[u] * Batch \in Nat
          /\ round[u] * Batch + (step[u] + 1) = (round[u] * Batch + step[u]) + 1
      BY <1>a, BatchArithmetic
    <3>3. round'[u] * Batch = round[u] * Batch
      BY <1>4
    <3>. HIDE BasicMutexAssumption
    <3>. QED  BY <1>a, <1>b, <3>2, <3>3 DEF Increments
  <2>2. num' = num + 1
    BY <1>3, <1>a
  <2>3. num = Increments("main") + Increments("worker")
    BY <1>1 DEF NoLostUpdate
  <2>4. num' = Increments("main")' + Increments("worker")'
    BY <2>1, <2>2, <2>3
  <2>5. failed' \subseteq {"create"}
    BY <1>1, <1>4 DEF NoLostUpdate
  <2>. QED  BY <2>4, <2>5 DEF NoLostUpdate, Increments
<1>8. ASSUME NEW u \in Threads PROVE Exclusion(u)' /\ Progress(u)'
  <2>1. CASE u = t
    <3>1. pc'[u] = next /\ step'[u] = step[u] + 1 /\ pc[u] = "store"
      BY <1>3, <1>5, <1>b, <2>1
    <3>2. Exclusion(u)'
      BY <1>2, <1>3, <1>c, <3>1, <2>1 DEF Exclusion, Critical
    <3>3. Progress(u)'
      BY <1>2, <1>3, <1>4, <1>a, <1>c, <3>1, <2>1 DEF Progress, Critical, Before, Behind, Loop
    <3>. QED  BY <3>2, <3>3
  <2>2. CASE u # t
    <3>1. pc[u] # "store"
      BY <1>2, <1>3, <2>2 DEF Exclusion, Critical
    <3>. QED  BY <1>2, <1>3, <1>4, <1>5, <1>b, <2>2, <3>1 DEF Exclusion, Progress
  <2>. QED  BY <2>1, <2>2
<1>9. Lifetime'
  <2>1. pc[t] \notin {"init", "create", "check", "destroy", "done", "none", "end"}
    BY <1>3
  <2>2. next \notin {"init", "create", "check", "destroy", "done", "none", "end"}
    BY <1>c
  <2>. QED  BY <1>1, <1>3, <1>5, <2>1, <2>2 DEF Lifetime
<1>. QED  BY <1>6, <1>7, <1>8, <1>9 DEF IInv

LEMMA UnlockKeeps ==
    ASSUME IInv, NEW t \in Threads, Unlock(t)
    PROVE  IInv'
<1>1. TypeOK /\ SyncTypeOK /\ NoLostUpdate /\ Lifetime
  BY DEF IInv, TypeOK
<1>2. \A u \in Threads : Exclusion(u) /\ Progress(u)
  BY DEF IInv
<1>. DEFINE next == IF round[t] + 1 < Rounds THEN "lock" ELSE After(t)
<1>3. /\ pc[t] = "unlock" /\ lock.owner = t
      /\ lock' = [lock EXCEPT !.owner = Nobody]
      /\ UNCHANGED <<cond, wait, leaked, fault>>
  <2>1. pc[t] = "unlock" /\ lock.owner = t
    BY <1>2 DEF Unlock, At, Exclusion, Critical
  <2>2. lock.init
    BY <1>1, <2>1 DEF Lifetime, TypeOK, MainStages, WorkerStages, Loop
  <2>. QED  BY <2>1, <2>2 DEF Unlock, bt_mutex_unlock, Uses
<1>4. /\ round' = [round EXCEPT ![t] = @ + 1]
      /\ step' = [step EXCEPT ![t] = 0]
      /\ UNCHANGED <<start, num, register, failed>> /\ Goto(t, next)
  BY DEF Unlock
<1>5. /\ \A u \in Threads : pc'[u] = IF u = t THEN next ELSE pc[u]
      /\ pc' \in [Threads -> MainStages \cup WorkerStages]
      /\ pc'["main"] \in MainStages /\ pc'["worker"] \in WorkerStages
  <2>1. next \in IF t = "main" THEN MainStages ELSE WorkerStages
    BY DEF MainStages, WorkerStages, Loop, After
  <2>. QED  BY <1>1, <1>4, <2>1, GotoMoves
<1>a. /\ round[t] < Rounds /\ step[t] = Batch
      /\ \A u \in Threads : step[u] \in 0 .. Batch /\ round[u] \in 0 .. Rounds
  BY <1>1, <1>2, <1>3 DEF Progress, Loop, TypeOK
<1>b. \A u \in Threads : /\ step'[u] = (IF u = t THEN 0 ELSE step[u])
                          /\ round'[u] = (IF u = t THEN round[u] + 1 ELSE round[u])
  BY <1>1, <1>4 DEF TypeOK
<1>c. IF round[t] + 1 < Rounds THEN next = "lock"
      ELSE next = IF t = "main" THEN "join" ELSE "end"
  BY DEF After
<1>. HIDE DEF next
<1>6. TypeOK'
  <2>1. step' \in [Threads -> 0 .. Batch] /\ round' \in [Threads -> 0 .. Rounds]
    BY <1>1, <1>4, <1>a DEF TypeOK
  <2>2. SyncTypeOK'
    BY <1>1, <1>3 DEF SyncTypeOK
  <2>. QED  BY <1>1, <1>4, <1>5, <2>1, <2>2 DEF TypeOK
<1>7. NoLostUpdate'
  <2>1. \A u \in Threads : Increments(u)' = Increments(u)
    <3>1. TAKE u \in Threads
    <3>2. (round[u] + 1) * Batch + 0 = round[u] * Batch + Batch
      BY <1>a, BatchArithmetic
    <3>3. u # t => Increments(u)' = Increments(u)
      BY <1>b DEF Increments
    <3>4. u = t => /\ Increments(u)' = (round[u] + 1) * Batch + 0
                   /\ Increments(u) = round[u] * Batch + Batch
      BY <1>a, <1>b DEF Increments
    <3>. QED  BY <3>2, <3>3, <3>4
  <2>. QED  BY <1>1, <1>4, <2>1 DEF NoLostUpdate
<1>8. ASSUME NEW u \in Threads PROVE Exclusion(u)' /\ Progress(u)'
  <2>1. CASE u = t
    <3>1. pc'[u] = next /\ step'[u] = 0 /\ round'[u] = round[u] + 1
      BY <1>5, <1>b, <2>1
    <3>2. Exclusion(u)'
      BY <1>1, <1>3, <1>c, <3>1, <2>1 DEF Exclusion, Critical, SyncTypeOK
    <3>3. Progress(u)'
      BY <1>a, <1>c, <3>1, <2>1 DEF Progress, Critical, Before, Behind, Loop
    <3>. QED  BY <3>2, <3>3
  <2>2. CASE u # t
    <3>1. pc[u] \notin Critical
      BY <1>2, <1>3, <2>2 DEF Exclusion
    <3>2. Exclusion(u)'
      BY <1>1, <1>3, <1>5, <2>2, <3>1 DEF Exclusion, Critical, SyncTypeOK
    <3>3. Progress(u)'
      BY <1>2, <1>5, <1>b, <2>2 DEF Progress
    <3>. QED  BY <3>2, <3>3
  <2>. QED  BY <2>1, <2>2
<1>9. Lifetime'
  <2>1. next \notin {"init", "create", "check", "destroy", "done", "none"}
    BY <1>c
  <2>2. t = "worker" => pc["main"] \notin {"init", "create"}
    BY <1>1, <1>3 DEF Lifetime
  <2>3. t = "worker" => pc["main"] \notin {"check", "destroy", "done"}
    BY <1>1, <1>3 DEF Lifetime
  <2>. QED  BY <1>1, <1>3, <1>5, <2>1, <2>2, <2>3 DEF Lifetime, SyncTypeOK
<1>. QED  BY <1>6, <1>7, <1>8, <1>9 DEF IInv

LEMMA BeginKeeps ==
    ASSUME IInv, Begin
    PROVE  IInv'
<1>1. TypeOK /\ SyncTypeOK /\ NoLostUpdate /\ Lifetime
  BY DEF IInv, TypeOK
<1>2. \A u \in Threads : Exclusion(u) /\ Progress(u)
  BY DEF IInv
<1>3. /\ pc["worker"] = "begin"
      /\ UNCHANGED <<lock, cond, wait, leaked, fault, num, register, round, step, failed>>
      /\ start' = TRUE
      /\ Goto("worker", "lock")
  BY <1>1 DEF Begin, At, sync
<1>5. /\ \A u \in Threads : pc'[u] = IF u = "worker" THEN "lock" ELSE pc[u]
      /\ pc' \in [Threads -> MainStages \cup WorkerStages]
      /\ pc'["main"] \in MainStages /\ pc'["worker"] \in WorkerStages
  BY <1>1, <1>3, GotoMoves DEF MainStages, WorkerStages, Loop
<1>6. TypeOK'
  BY <1>1, <1>3, <1>5 DEF TypeOK, SyncTypeOK, Canary
<1>7. NoLostUpdate'
  BY <1>1, <1>2, <1>3, <1>5 DEF NoLostUpdate, Increments
<1>8. ASSUME NEW u \in Threads PROVE Exclusion(u)' /\ Progress(u)'
  BY <1>1, <1>2, <1>3, <1>5 DEF Exclusion, Progress, Critical, Before, Behind, Loop, Lifetime, SyncTypeOK
<1>9. Lifetime'
  BY <1>1, <1>3, <1>5 DEF Lifetime, SyncTypeOK, Canary
<1>. QED  BY <1>6, <1>7, <1>8, <1>9 DEF IInv

LEMMA InitialiseKeeps ==
    ASSUME IInv, Initialise
    PROVE  IInv'
<1>1. TypeOK /\ SyncTypeOK /\ NoLostUpdate /\ Lifetime
  BY DEF IInv, TypeOK
<1>2. \A u \in Threads : Exclusion(u) /\ Progress(u)
  BY DEF IInv
<1>3. /\ pc["main"] = "init"
      /\ UNCHANGED <<cond, wait, leaked, fault, start, num, register, round, step, failed>>
      /\ lock'.init /\ lock'.canary \in {"null", "live"} /\ lock'.owner = Nobody
      /\ lock' \in [init : BOOLEAN, canary : Canary, owner : {Nobody}]
      /\ Goto("main", "create")
  BY <1>1 DEF Initialise, At, test, bt_mutex_init, Overwrites, Lifetime, Canary
<1>5. /\ \A u \in Threads : pc'[u] = IF u = "main" THEN "create" ELSE pc[u]
      /\ pc' \in [Threads -> MainStages \cup WorkerStages]
      /\ pc'["main"] \in MainStages /\ pc'["worker"] \in WorkerStages
  BY <1>1, <1>3, GotoMoves DEF MainStages, WorkerStages, Loop
<1>6. TypeOK'
  BY <1>1, <1>3, <1>5 DEF TypeOK, SyncTypeOK, Canary
<1>7. NoLostUpdate'
  BY <1>1, <1>2, <1>3, <1>5 DEF NoLostUpdate, Increments
<1>8. ASSUME NEW u \in Threads PROVE Exclusion(u)' /\ Progress(u)'
  BY <1>1, <1>2, <1>3, <1>5 DEF Exclusion, Progress, Critical, Before, Behind, Loop, Lifetime, SyncTypeOK
<1>9. Lifetime'
  BY <1>1, <1>3, <1>5 DEF Lifetime, SyncTypeOK, Canary
<1>. QED  BY <1>6, <1>7, <1>8, <1>9 DEF IInv

LEMMA CreateFailsKeeps ==
    ASSUME IInv, CreateFails
    PROVE  IInv'
<1>1. TypeOK /\ SyncTypeOK /\ NoLostUpdate /\ Lifetime
  BY DEF IInv, TypeOK
<1>2. \A u \in Threads : Exclusion(u) /\ Progress(u)
  BY DEF IInv
<1>3. /\ pc["main"] = "create"
      /\ UNCHANGED <<lock, cond, wait, leaked, fault, start, num, register, round, step>>
      /\ failed' = failed \cup {"create"}
      /\ Goto("main", "spin")
  BY <1>1 DEF CreateFails, At, sync
<1>5. /\ \A u \in Threads : pc'[u] = IF u = "main" THEN "spin" ELSE pc[u]
      /\ pc' \in [Threads -> MainStages \cup WorkerStages]
      /\ pc'["main"] \in MainStages /\ pc'["worker"] \in WorkerStages
  BY <1>1, <1>3, GotoMoves DEF MainStages, WorkerStages, Loop
<1>6. TypeOK'
  BY <1>1, <1>3, <1>5 DEF TypeOK, SyncTypeOK, Canary
<1>7. NoLostUpdate'
  BY <1>1, <1>2, <1>3, <1>5 DEF NoLostUpdate, Increments
<1>8. ASSUME NEW u \in Threads PROVE Exclusion(u)' /\ Progress(u)'
  BY <1>1, <1>2, <1>3, <1>5 DEF Exclusion, Progress, Critical, Before, Behind, Loop, Lifetime, SyncTypeOK
<1>9. Lifetime'
  BY <1>1, <1>3, <1>5 DEF Lifetime, SyncTypeOK, Canary
<1>. QED  BY <1>6, <1>7, <1>8, <1>9 DEF IInv

LEMMA SpinKeeps ==
    ASSUME IInv, Spin
    PROVE  IInv'
<1>1. TypeOK /\ SyncTypeOK /\ NoLostUpdate /\ Lifetime
  BY DEF IInv, TypeOK
<1>2. \A u \in Threads : Exclusion(u) /\ Progress(u)
  BY DEF IInv
<1>3. /\ pc["main"] = "spin"
      /\ UNCHANGED <<lock, cond, wait, leaked, fault, start, num, register, round, step, failed>>
      /\ Goto("main", IF start THEN "lock" ELSE "spin")
  BY <1>1 DEF Spin, At, sync, test
<1>5. /\ \A u \in Threads : pc'[u] = IF u = "main" THEN IF start THEN "lock" ELSE "spin" ELSE pc[u]
      /\ pc' \in [Threads -> MainStages \cup WorkerStages]
      /\ pc'["main"] \in MainStages /\ pc'["worker"] \in WorkerStages
  BY <1>1, <1>3, GotoMoves DEF MainStages, WorkerStages, Loop
<1>6. TypeOK'
  BY <1>1, <1>3, <1>5 DEF TypeOK, SyncTypeOK, Canary
<1>7. NoLostUpdate'
  BY <1>1, <1>2, <1>3, <1>5 DEF NoLostUpdate, Increments
<1>8. ASSUME NEW u \in Threads PROVE Exclusion(u)' /\ Progress(u)'
  BY <1>1, <1>2, <1>3, <1>5 DEF Exclusion, Progress, Critical, Before, Behind, Loop, Lifetime, SyncTypeOK
<1>9. Lifetime'
  BY <1>1, <1>3, <1>5 DEF Lifetime, SyncTypeOK, Canary
<1>. QED  BY <1>6, <1>7, <1>8, <1>9 DEF IInv

LEMMA JoinKeeps ==
    ASSUME IInv, Join
    PROVE  IInv'
<1>1. TypeOK /\ SyncTypeOK /\ NoLostUpdate /\ Lifetime
  BY DEF IInv, TypeOK
<1>2. \A u \in Threads : Exclusion(u) /\ Progress(u)
  BY DEF IInv
<1>3. /\ pc["main"] = "join"
      /\ UNCHANGED <<lock, cond, wait, leaked, fault, start, num, register, round, step, failed>>
      /\ pc["worker"] = "end"
      /\ Goto("main", "check")
  BY <1>1 DEF Join, At, sync, test
<1>5. /\ \A u \in Threads : pc'[u] = IF u = "main" THEN "check" ELSE pc[u]
      /\ pc' \in [Threads -> MainStages \cup WorkerStages]
      /\ pc'["main"] \in MainStages /\ pc'["worker"] \in WorkerStages
  BY <1>1, <1>3, GotoMoves DEF MainStages, WorkerStages, Loop
<1>6. TypeOK'
  BY <1>1, <1>3, <1>5 DEF TypeOK, SyncTypeOK, Canary
<1>7. NoLostUpdate'
  BY <1>1, <1>2, <1>3, <1>5 DEF NoLostUpdate, Increments
<1>8. ASSUME NEW u \in Threads PROVE Exclusion(u)' /\ Progress(u)'
  BY <1>1, <1>2, <1>3, <1>5 DEF Exclusion, Progress, Critical, Before, Behind, Loop, Lifetime, SyncTypeOK
<1>9. Lifetime'
  BY <1>1, <1>3, <1>5 DEF Lifetime, SyncTypeOK, Canary
<1>. QED  BY <1>6, <1>7, <1>8, <1>9 DEF IInv

LEMMA CreateKeeps ==
    ASSUME IInv, Create
    PROVE  IInv'
<1>1. TypeOK /\ SyncTypeOK /\ NoLostUpdate /\ Lifetime
  BY DEF IInv, TypeOK
<1>2. \A u \in Threads : Exclusion(u) /\ Progress(u)
  BY DEF IInv
<1>3. /\ pc["main"] = "create" /\ pc["worker"] = "none"
      /\ UNCHANGED <<lock, cond, wait, leaked, fault, start, num, register, round, step, failed>>
  BY <1>1 DEF Create, At, sync, test, Lifetime
<1>4. /\ pc' \in [Threads -> MainStages \cup WorkerStages]
      /\ pc'["main"] = "spin" /\ pc'["worker"] = "begin"
  BY <1>1 DEF Create, TypeOK, MainStages, WorkerStages
<1>5. TypeOK'
  BY <1>1, <1>3, <1>4 DEF TypeOK, SyncTypeOK, MainStages, WorkerStages
<1>6. NoLostUpdate'
  BY <1>1, <1>3 DEF NoLostUpdate, Increments
<1>7. ASSUME NEW u \in Threads PROVE Exclusion(u)' /\ Progress(u)'
  BY <1>2, <1>3, <1>4 DEF Exclusion, Progress, Critical, Before, Behind, Loop
<1>8. Lifetime'
  BY <1>1, <1>3, <1>4 DEF Lifetime
<1>. QED  BY <1>5, <1>6, <1>7, <1>8 DEF IInv

(* The assertion of the total: both threads have run all of their rounds. *)
LEMMA CheckKeeps ==
    ASSUME IInv, Check
    PROVE  IInv'
<1>1. TypeOK /\ SyncTypeOK /\ NoLostUpdate /\ Lifetime
  BY DEF IInv, TypeOK
<1>2. \A u \in Threads : Exclusion(u) /\ Progress(u)
  BY DEF IInv
<1>3. /\ pc["main"] = "check" /\ pc["worker"] = "end"
      /\ UNCHANGED <<lock, cond, wait, leaked, fault, start, num, register, round, step>>
      /\ Goto("main", "destroy")
  BY <1>1 DEF Check, At, sync, Lifetime
<1>4. failed' = failed
  <2>1. \A u \in Threads : round[u] = Rounds /\ step[u] = 0
    BY <1>2, <1>3 DEF Progress, Behind, Critical
  <2>2. \A u \in Threads : Increments(u) = Rounds * Batch
    BY <2>1 DEF Increments
  <2>3. num = 2 * (Rounds * Batch)
    BY <1>1, <2>2 DEF NoLostUpdate
  <2>. QED  BY <2>3 DEF Check
<1>5. /\ \A u \in Threads : pc'[u] = IF u = "main" THEN "destroy" ELSE pc[u]
      /\ pc' \in [Threads -> MainStages \cup WorkerStages]
      /\ pc'["main"] \in MainStages /\ pc'["worker"] \in WorkerStages
  BY <1>1, <1>3, GotoMoves DEF MainStages, WorkerStages, Loop
<1>6. TypeOK'
  BY <1>1, <1>3, <1>4, <1>5 DEF TypeOK, SyncTypeOK
<1>7. NoLostUpdate'
  BY <1>1, <1>3, <1>4 DEF NoLostUpdate, Increments
<1>8. ASSUME NEW u \in Threads PROVE Exclusion(u)' /\ Progress(u)'
  BY <1>2, <1>3, <1>5 DEF Exclusion, Progress, Critical, Before, Behind, Loop
<1>9. Lifetime'
  BY <1>1, <1>3, <1>5 DEF Lifetime
<1>. QED  BY <1>6, <1>7, <1>8, <1>9 DEF IInv

(* Nobody owns the mutex any more, so its destruction succeeds. *)
LEMMA DestroyKeeps ==
    ASSUME IInv, Destroy
    PROVE  IInv'
<1>1. TypeOK /\ SyncTypeOK /\ NoLostUpdate /\ Lifetime
  BY DEF IInv, TypeOK
<1>2. \A u \in Threads : Exclusion(u) /\ Progress(u)
  BY DEF IInv
<1>3. /\ pc["main"] = "destroy" /\ pc["worker"] = "end" /\ lock.init
      /\ lock.canary # "freed" /\ lock.owner = Nobody
  <2>1. pc["main"] = "destroy" /\ pc["worker"] = "end"
    BY <1>1 DEF Destroy, At, Lifetime
  <2>2. lock.init /\ lock.canary # "freed"
    BY <1>1, <2>1 DEF Lifetime
  <2>3. lock.owner = Nobody
    BY <1>1, <1>2, <2>1 DEF Exclusion, Critical, SyncTypeOK
  <2>. QED  BY <2>1, <2>2, <2>3
<1>4. /\ lock' = [lock EXCEPT !.init = FALSE, !.canary = Free(@)]
      /\ UNCHANGED <<cond, wait, leaked, fault, start, num, register, round, step, failed>>
      /\ Goto("main", "done")
  BY <1>1, <1>3 DEF Destroy, bt_mutex_destroy, FreeFault, Lifetime
<1>5. /\ \A u \in Threads : pc'[u] = IF u = "main" THEN "done" ELSE pc[u]
      /\ pc' \in [Threads -> MainStages \cup WorkerStages]
      /\ pc'["main"] \in MainStages /\ pc'["worker"] \in WorkerStages
  BY <1>1, <1>4, GotoMoves DEF MainStages, WorkerStages, Loop
<1>6. /\ lock' \in [init : BOOLEAN, canary : Canary, owner : Threads \cup {Nobody}]
      /\ ~lock'.init /\ lock'.canary # "live" /\ lock'.owner = Nobody
  BY <1>1, <1>3, <1>4 DEF SyncTypeOK, Free, Canary
<1>7. TypeOK'
  BY <1>1, <1>4, <1>5, <1>6 DEF TypeOK, SyncTypeOK
<1>8. NoLostUpdate'
  BY <1>1, <1>4 DEF NoLostUpdate, Increments
<1>9. ASSUME NEW u \in Threads PROVE Exclusion(u)' /\ Progress(u)'
  BY <1>2, <1>3, <1>4, <1>5, <1>6 DEF Exclusion, Progress, Critical, Before, Behind, Loop
<1>10. Lifetime'
  BY <1>1, <1>3, <1>4, <1>5, <1>6 DEF Lifetime
<1>. QED  BY <1>7, <1>8, <1>9, <1>10 DEF IInv

LEMMA StutterKeeps ==
    ASSUME IInv, UNCHANGED vars
    PROVE  IInv'
  BY DEF IInv, vars, TypeOK, SyncTypeOK, NoLostUpdate, Increments, Exclusion, Progress, Lifetime

LEMMA NextIsInductive == IInv /\ [Next]_vars => IInv'
<1>. SUFFICES ASSUME IInv, [Next]_vars PROVE IInv'
  OBVIOUS
<1>1. CASE Main
  BY <1>1, InitialiseKeeps, CreateKeeps, CreateFailsKeeps, SpinKeeps, LockKeeps, LoadKeeps,
     StoreKeeps, UnlockKeeps, JoinKeeps, CheckKeeps, DestroyKeeps DEF Main
<1>2. CASE Worker
  BY <1>2, BeginKeeps, LockKeeps, LoadKeeps, StoreKeeps, UnlockKeeps DEF Worker
<1>3. CASE Done \/ UNCHANGED vars
  BY <1>3, StutterKeeps DEF Done
<1>. QED  BY <1>1, <1>2, <1>3 DEF Next

THEOREM Inductive == Spec => []IInv
  BY InitIsInductive, NextIsInductive, PTL DEF Spec

(* Whatever the threads do at the same time, no increment is lost and the  *)
(* assertion of the total holds (the loops of 004_mutex.c:31-38, 59-67).   *)
THEOREM MutexLosesNoUpdate == Spec => []NoLostUpdate
  BY Inductive, PTL DEF IInv

(* No assertion of the wrappers stops the test, the mutex is destroyed     *)
(* after its last use and its canary is not left behind.                   *)
THEOREM MutexIsDestroyedLast == Spec => []DestroyedLast
<1>1. IInv => DestroyedLast
  BY DEF IInv, TypeOK, SyncTypeOK, Lifetime, Exclusion, DestroyedLast, Critical
<1>. QED  BY <1>1, Inductive, PTL
=============================================================================
