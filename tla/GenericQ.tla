------------------------------ MODULE GenericQ ------------------------------
(***************************************************************************)
(* vglutil::GenericQ (util/GenericQ.cpp): the linked list, counting         *)
(* semaphore and recursive mutex through which every transport hands        *)
(* frames to its worker thread.  The module has the queue's state and the   *)
(* indivisible steps its methods are made of.  A client module keeps the    *)
(* program counters of the threads and says in which order they take them:  *)
(* spoil() is QLock (QTake QPop)* QAppend, a blocking get() is QTake QPop.  *)
(*                                                                         *)
(* A consumer takes its semaphore token BEFORE it locks the list, so        *)
(* between QTake and QPop the list is longer than the semaphore says.       *)
(***************************************************************************)
EXTENDS Naturals, Sequences

CONSTANT None        \* no item, no thread (NULL)

VARIABLES
    entries,         \* the linked list start .. end, oldest item first
    hasItem,         \* value of the semaphore hasItem
    qDead,           \* GenericQ::deadYet
    qMutex           \* the thread inside spoil() or add(), or None

qvars == <<entries, hasItem, qDead, qMutex>>

QInit == /\ entries = <<>>
         /\ hasItem = 0
         /\ qDead = FALSE
         /\ qMutex = None

(* A thread enters the critical section of spoil() or add(). *)
QLock(t) == /\ qMutex = None
            /\ qMutex' = t
            /\ UNCHANGED <<entries, hasItem, qDead>>

(* hasItem.wait(), and hasItem.tryWait() when it succeeds. *)
QTake == /\ hasItem > 0
         /\ hasItem' = hasItem - 1
         /\ UNCHANGED <<entries, qDead, qMutex>>

(* The rest of get(): unlink the oldest entry under the mutex, which is     *)
(* recursive and may already be the caller's.                               *)
QPop(t) == /\ ~qDead
           /\ qMutex \in {None, t}
           /\ entries # <<>>
           /\ entries' = Tail(entries)
           /\ UNCHANGED <<hasItem, qDead, qMutex>>

(* Mutation: the new item goes to the head of the list. *)
QAppend_Front(t, item) == /\ ~qDead /\ qMutex = t
                          /\ entries' = <<item>> \o entries
                          /\ hasItem' = hasItem + 1
                          /\ qMutex' = None
                          /\ UNCHANGED qDead
(* Mutation: no post, the consumer is not told. *)
QAppend_NoPost(t, item) == /\ ~qDead /\ qMutex = t
                           /\ entries' = Append(entries, item)
                           /\ qMutex' = None
                           /\ UNCHANGED <<hasItem, qDead>>

(* add(), entered with the mutex held, and the return that releases it. *)
QAppend(t, item) == /\ ~qDead
                    /\ qMutex = t
                    /\ entries' = Append(entries, item)
                    /\ hasItem' = hasItem + 1
                    /\ qMutex' = None
                    /\ UNCHANGED qDead

(* release(): the flag first, the semaphore second, neither under the mutex. *)
QReleaseMark == /\ qDead' = TRUE
                /\ UNCHANGED <<entries, hasItem, qMutex>>

(* Mutation: the waiting consumer is not woken. *)
QReleasePost_None == UNCHANGED qvars

QReleasePost == /\ hasItem' = hasItem + 1
                /\ UNCHANGED <<entries, qDead, qMutex>>

items == hasItem
=============================================================================
