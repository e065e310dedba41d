------------------------------- MODULE Event --------------------------------
(***************************************************************************)
(* vglutil::Event (util/Mutex.cpp 25-137) as it is built on POSIX: a mutex, *)
(* a condition variable and the flag `ready'.  The other modules treat      *)
(* wait() and signal() as indivisible; this one shows that they may.        *)
(*                                                                         *)
(* pthread_cond_wait() releases the mutex and falls asleep in one step, may *)
(* wake up for no reason, and takes the mutex again before it returns.      *)
(* signal() unlocks before it calls pthread_cond_signal(), so other threads *)
(* run between the two.                                                     *)
(***************************************************************************)
EXTENDS Naturals

CONSTANTS
    Waiters,         \* threads that call isLocked() and wait()
    Signallers,      \* threads that call signal()
    Nobody             \* nobody

ASSUME EventAssumption ==
    Waiters \cap Signallers = {} /\ Nobody \notin Waiters \cup Signallers

Threads == Waiters \cup Signallers

VARIABLES
    ready,           \* Event::ready
    mutex,           \* the holder of Event::mutex
    pc,              \* where each thread is
    sawSet           \* the waiter saw the flag set, and nobody took it since

vars == <<ready, mutex, pc, sawSet>>

(* The constructor sets the flag; a Compressor's is consumed at once.        *)
Init == /\ ready \in BOOLEAN
        /\ mutex = Nobody
        /\ pc = [t \in Threads |-> "out"]
        /\ sawSet = [t \in Waiters |-> FALSE]

Goes(t, from, to) == pc[t] = from /\ pc' = [pc EXCEPT ![t] = to]

Acquire(t) == mutex = Nobody /\ mutex' = t
Unlock(t) == mutex = t /\ mutex' = Nobody

-----------------------------------------------------------------------------
(* The calls a thread may decide to make                                     *)
Call(t) ==
    /\ \/ t \in Waiters /\ Goes(t, "out", "wait")
       \/ t \in Waiters /\ Goes(t, "out", "isLocked")
       \/ t \in Signallers /\ Goes(t, "out", "signal")
    /\ UNCHANGED <<ready, mutex, sawSet>>

(* Mutation: if(!ready) where wait() has while(!ready).                      *)
Lock_If(t) ==
    /\ \/ /\ \/ Goes(t, "wait", "test") \/ Goes(t, "isLocked", "read")
             \/ Goes(t, "signal", "set")
          /\ UNCHANGED ready
       \/ Goes(t, "woken", "unlock") /\ ready' = FALSE
    /\ Acquire(t)
    /\ UNCHANGED sawSet

(* Every method starts by locking the mutex; so does a return from           *)
(* pthread_cond_wait().                                                      *)
Lock(t) ==
    /\ \/ Goes(t, "wait", "test") \/ Goes(t, "isLocked", "read")
       \/ Goes(t, "signal", "set") \/ Goes(t, "woken", "test")
    /\ Acquire(t)
    /\ UNCHANGED <<ready, sawSet>>

(* Mutation: wait() sleeps with the mutex held.                              *)
Test_KeepsLock(t) ==
    \/ /\ ready /\ ready' = FALSE
       /\ Goes(t, "test", "unlock")
       /\ sawSet' = [w \in Waiters |-> FALSE]
       /\ UNCHANGED mutex
    \/ /\ ~ready
       /\ Goes(t, "test", "asleep")
       /\ UNCHANGED <<ready, mutex, sawSet>>

(* while(!ready) pthread_cond_wait();  ready = false;                        *)
Test(t) ==
    \/ /\ ready /\ ready' = FALSE
       /\ Goes(t, "test", "unlock")
       /\ sawSet' = [w \in Waiters |-> FALSE]
       /\ UNCHANGED mutex
    \/ /\ ~ready
       /\ Goes(t, "test", "asleep") /\ Unlock(t)
       /\ UNCHANGED <<ready, sawSet>>

(* The condition variable wakes a thread although nobody signalled.          *)
Spurious(t) ==
    /\ Goes(t, "asleep", "woken")
    /\ UNCHANGED <<ready, mutex, sawSet>>

(* Mutation: isLocked() returns the flag itself.                             *)
IsLocked_Inverted(t) ==
    /\ Goes(t, "read", "out") /\ Unlock(t)
    /\ sawSet' = [sawSet EXCEPT ![t] = ~ready]
    /\ UNCHANGED ready

(* ret = !ready                                                              *)
IsLocked(t) ==
    /\ Goes(t, "read", "out") /\ Unlock(t)
    /\ sawSet' = [sawSet EXCEPT ![t] = ready]
    /\ UNCHANGED ready

(* wait() unlocks and returns.                                               *)
Return(t) ==
    /\ Goes(t, "unlock", "out") /\ Unlock(t)
    /\ UNCHANGED <<ready, sawSet>>

SetReady(t) ==
    /\ Goes(t, "set", "notify")
    /\ ready' = TRUE
    /\ Unlock(t)
    /\ UNCHANGED sawSet

(* Mutation: the condition variable is not signalled.                        *)
Notify_None(t) ==
    /\ Goes(t, "notify", "out")
    /\ UNCHANGED <<ready, mutex, sawSet>>

(* pthread_cond_signal(): one sleeper is woken, if there is one.             *)
Asleep == {t \in Waiters : pc[t] = "asleep"}

Notify(t) ==
    /\ pc[t] = "notify"
    /\ \/ /\ Asleep = {}
          /\ pc' = [pc EXCEPT ![t] = "out"]
       \/ \E w \in Asleep : pc' = [pc EXCEPT ![t] = "out", ![w] = "woken"]
    /\ UNCHANGED <<ready, mutex, sawSet>>

-----------------------------------------------------------------------------
WaiterStep(t) == Test(t) \/ IsLocked(t) \/ Return(t)
SignallerStep(t) == SetReady(t) \/ Notify(t)

Next == \/ \E t \in Threads : Call(t) \/ Lock(t)
        \/ \E t \in Waiters : WaiterStep(t) \/ Spurious(t)
        \/ \E t \in Signallers : SignallerStep(t)

(* Threads are scheduled and nobody is kept out of the mutex for ever by     *)
(* threads that come and go; nobody promises to call anything.               *)
Spec == /\ Init /\ [][Next]_vars
        /\ \A t \in Threads : SF_vars(Lock(t))
        /\ \A t \in Waiters : WF_vars(WaiterStep(t))
        /\ \A t \in Signallers : WF_vars(SignallerStep(t))

-----------------------------------------------------------------------------
(* Properties *)

Inside == {"test", "unlock", "read", "set"}

LockInv == \A t \in Threads : pc[t] \in Inside <=> mutex = t

(* The types of the variables; the mutex is held exactly by the thread that  *)
(* is between its lock and its unlock, and by nobody who sleeps.             *)
TypeOK ==
    /\ ready \in BOOLEAN /\ mutex \in Threads \cup {Nobody}
    /\ pc \in [Threads -> {"out", "wait", "test", "asleep", "woken", "unlock",
                           "isLocked", "read", "signal", "set", "notify"}]
    /\ sawSet \in [Waiters -> BOOLEAN]
    /\ LockInv

(* A waiter sleeps on a set flag only while another is on its way to take    *)
(* it, or while the thread that set it has yet to signal the condition       *)
(* variable: no wake-up falls between test and sleep.                        *)
NoLostWakeup ==
    ready /\ Asleep # {} =>
        \/ \E t \in Signallers : pc[t] = "notify"
        \/ \E t \in Waiters : pc[t] \in {"woken", "test"}

(* getFrame() of the transports scans for a buffer with isComplete(), which  *)
(* is !isLocked(), and then calls waitUntilComplete() on it: as long as      *)
(* nobody else takes the flag in between, that wait never sleeps.            *)
PolledIsFree == \A t \in Waiters : sawSet[t] => ready /\ pc[t] # "asleep"

(* wait() and signal() behave as single steps, in any number of threads, and *)
(* a flag left set is taken by a thread that waits for it.                   *)
Phase(t) == IF pc[t] \in {"wait", "test", "asleep", "woken", "signal", "set"}
            THEN "in"
            ELSE IF pc[t] \in {"unlock", "notify"} THEN "done" ELSE "out"

Atomic == INSTANCE EventSpec WITH
    set <- ready, phase <- [t \in Threads |-> Phase(t)]

ImplementsEvent == Atomic!EventFair
=============================================================================
