------------------------------- MODULE BtSync -------------------------------
(***************************************************************************)
(* include/bluetea/lib/mutex.h: the mutex and condition variable wrappers, *)
(* one operator per function, over one mutex and one condition variable.   *)
(* The wrappers add to pthread an `init` flag, which the debug build       *)
(* asserts, and a one-byte allocation, `__test_leak`, which makes valgrind *)
(* report an object that was never destroyed.                              *)
(*                                                                         *)
(* What pthread does inside is external: a mutex with one owner and the    *)
(* set of threads blocked on the condition variable.                       *)
(***************************************************************************)
EXTENDS Naturals

CONSTANTS
    Threads,
    Nobody,     \* the owner of an unlocked mutex
    NDEBUG      \* TRUE: the release build, without assertions

ASSUME SyncAssumption == Nobody \notin Threads /\ NDEBUG \in BOOLEAN

VARIABLES
    lock,       \* struct bt_mutex
    cond,       \* struct bt_cond
    wait,       \* for each thread: "no", "asleep" inside pthread_cond_wait, or
                \*   "woken", when it still has to get the mutex back
    leaked,     \* which objects' canary was overwritten while allocated
    fault       \* "none", "assert", "invalid" (pthread given a dead object) or
                \*   "double free"

sync == <<lock, cond, wait, leaked, fault>>

(* The canary is null when malloc(1) failed or nobody called it yet. *)
Canary == {"null", "live", "freed"}

SyncTypeOK ==
    /\ lock \in [init : BOOLEAN, canary : Canary, owner : Threads \cup {Nobody}]
    /\ cond \in [init : BOOLEAN, canary : Canary]
    /\ wait \in [Threads -> {"no", "asleep", "woken"}]
    /\ leaked \subseteq {"lock", "cond"}
    /\ fault \in {"none", "assert", "invalid", "double free"}

(* Both structures zeroed. *)
SyncInit ==
    /\ lock = [init |-> FALSE, canary |-> "null", owner |-> Nobody]
    /\ cond = [init |-> FALSE, canary |-> "null"]
    /\ wait = [t \in Threads |-> "no"]
    /\ leaked = {}
    /\ fault = "none"

Running == fault = "none"

(* An operation on an object whose flag is not set: the debug build stops  *)
(* on the assertion, the release build hands pthread a dead object.        *)
Refuse == /\ fault' = IF NDEBUG THEN "invalid" ELSE "assert"
          /\ UNCHANGED <<lock, cond, wait, leaked>>

Uses(flag, Effect) ==
    IF flag THEN Effect /\ UNCHANGED fault ELSE Refuse

(* malloc(1) and overwriting the pointer to the previous canary. *)
Overwrites(obj, canary) ==
    leaked' = IF canary = "live" THEN leaked \cup {obj} ELSE leaked

(* free(__test_leak): freeing NULL is harmless, freeing twice is not. *)
Free(canary) == IF canary = "live" THEN "freed" ELSE canary

FreeFault(canary) == IF canary = "freed" THEN "double free" ELSE "none"

bt_mutex_init ==
    /\ \E c \in {"null", "live"} :
           lock' = [init |-> TRUE, canary |-> c, owner |-> Nobody]
    /\ Overwrites("lock", lock.canary)
    /\ UNCHANGED <<cond, wait, fault>>

(* Variant: the lock does not exclude. *)
LockWithoutWaiting(t) ==
    Uses(lock.init, lock' = [lock EXCEPT !.owner = t] /\ UNCHANGED <<cond, wait, leaked>>)

(* pthread_mutex_lock blocks while somebody owns the mutex. *)
bt_mutex_lock(t) ==
    Uses(lock.init, /\ lock.owner = Nobody
                    /\ lock' = [lock EXCEPT !.owner = t]
                    /\ UNCHANGED <<cond, wait, leaked>>)

bt_mutex_unlock(t) ==
    Uses(lock.init, /\ lock.owner = t
                    /\ lock' = [lock EXCEPT !.owner = Nobody]
                    /\ UNCHANGED <<cond, wait, leaked>>)

(* Variant: no early return. *)
DestroyMutexAlways ==
    /\ lock' = [lock EXCEPT !.init = FALSE, !.canary = Free(@)]
    /\ fault' = FreeFault(lock.canary)
    /\ UNCHANGED <<cond, wait, leaked>>

(* Does nothing to a mutex already destroyed.  pthread refuses while       *)
(* somebody owns it, but only after the wrapper has taken its own part     *)
(* down.                                                                   *)
bt_mutex_destroy ==
    IF lock.init
    THEN /\ lock' = [lock EXCEPT !.init = FALSE, !.canary = Free(@)]
         /\ fault' = FreeFault(lock.canary)
         /\ UNCHANGED <<cond, wait, leaked>>
    ELSE UNCHANGED sync

bt_cond_init ==
    /\ \E c \in {"null", "live"} : cond' = [init |-> TRUE, canary |-> c]
    /\ Overwrites("cond", cond.canary)
    /\ UNCHANGED <<lock, wait, fault>>

(* The canary is freed whether or not the flag is set. *)
bt_cond_destroy ==
    /\ cond' = [cond EXCEPT !.init = FALSE, !.canary = Free(@)]
    /\ fault' = FreeFault(cond.canary)
    /\ UNCHANGED <<lock, wait, leaked>>

(* pthread_cond_wait gives the mutex back and blocks, atomically. *)
bt_cond_wait(t) ==
    Uses(cond.init /\ lock.init,
         /\ lock.owner = t
         /\ lock' = [lock EXCEPT !.owner = Nobody]
         /\ wait' = [wait EXCEPT ![t] = "asleep"]
         /\ UNCHANGED <<cond, leaked>>)

(* Variant: the signal wakes nobody. *)
SignalNobody == Uses(cond.init, UNCHANGED <<lock, cond, wait, leaked>>)

(* pthread_cond_signal wakes one of the sleepers, if there is any; nobody  *)
(* remembers a signal that found none.                                     *)
bt_cond_signal ==
    Uses(cond.init,
         /\ IF \E t \in Threads : wait[t] = "asleep"
            THEN \E t \in Threads : /\ wait[t] = "asleep"
                                    /\ wait' = [wait EXCEPT ![t] = "woken"]
            ELSE UNCHANGED wait
         /\ UNCHANGED <<lock, cond, leaked>>)

(* Inside pthread_cond_wait: a thread wakes up without a signal, or        *)
(* because its time is over.                                               *)
WakeUp(t) ==
    /\ wait[t] = "asleep"
    /\ wait' = [wait EXCEPT ![t] = "woken"]
    /\ UNCHANGED <<lock, cond, leaked, fault>>

(* Inside pthread_cond_wait: it gets the mutex back and returns. *)
ReturnFromWait(t) ==
    /\ wait[t] = "woken"
    /\ lock.owner = Nobody
    /\ lock' = [lock EXCEPT !.owner = t]
    /\ wait' = [wait EXCEPT ![t] = "no"]
    /\ UNCHANGED <<cond, leaked, fault>>
=============================================================================
