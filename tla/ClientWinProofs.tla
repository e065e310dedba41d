-------------------------- MODULE ClientWinProofs --------------------------
(***************************************************************************)
(* Proofs about ClientWin, for any number of images of either kind or both, *)
(* and whether or not decompressing and drawing may fail.                   *)
(***************************************************************************)
EXTENDS ClientWin, SequenceFacts, TLAPS

ListenerPcs == {"recv", "getFrame", "waitFrame", "fill", "drawFrame", "add",
                "delete", "release", "post", "join", "closed"}
WorkerPcs == {"top", "get", "wait", "pop", "got", "draw", "done", "failed",
              "signal", "exited"}

TypeOK ==
    /\ entries \in Seq(Slots) /\ hasItem \in Nat
    /\ qDead \in BOOLEAN /\ qMutex \in {None, "listener"}
    /\ complete \in [Slots -> BOOLEAN] /\ content \in [Slots -> Nat]
    /\ cfindex \in 0 .. 1 /\ kinds \in SUBSET Kinds
    /\ deadYet \in BOOLEAN /\ lastError \in BOOLEAN
    /\ lPc \in ListenerPcs /\ slot \in Slots \cup {None}
    /\ eye \in {"mono", "left", "right"}
    /\ wPc \in WorkerPcs /\ f \in Slots \cup {None}
    /\ received \in Nat /\ drawn \in Nat

(* The flags, the lock and the slot each thread has in hand follow from      *)
(* where it is; the Listener keeps its slot between the images of two eyes.  *)
ControlInv ==
    /\ deadYet <=> lPc \in {"release", "post", "join", "closed"}
    /\ qDead <=> lPc \in {"post", "join", "closed"}
    /\ qMutex = (IF lPc = "add" THEN "listener" ELSE None)
    /\ lPc \in {"waitFrame", "fill", "drawFrame", "add"} => slot # None
    /\ lPc = "recv" => (slot # None <=> eye = "left")
    /\ lPc = "getFrame" => slot = None
    /\ wPc \in {"draw", "done", "failed", "signal"} => f # None
    /\ wPc \in {"top", "get", "wait", "pop"} => f = None
    /\ wPc = "got" /\ f = None => deadYet
    /\ lastError => wPc \in {"signal", "exited"}

(* Until the queue is released the semaphore counts the entries that the     *)
(* worker has not claimed.                                                   *)
TokenInv ==
    ~qDead => Len(entries) = hasItem + (IF wPc = "pop" THEN 1 ELSE 0)

(* A slot that is not free is in one hand: the Listener's, once it has       *)
(* waited for it, the queue's or the worker's.                               *)
OwnershipInv ==
    /\ \A s \in Slots :
          ~complete[s] <=> \/ s = slot /\ lPc # "waitFrame"
                           \/ s = f
                           \/ s \in Range(entries)
    /\ slot # None /\ lPc # "waitFrame" => slot \notin Range(entries) /\ slot # f
    /\ IsInjective(entries) /\ f \notin Range(entries)

Alive == wPc \notin {"failed", "signal", "exited"}
InHand == IF f # None /\ wPc \in {"got", "draw"} THEN 1 ELSE 0
Filled == IF lPc \in {"drawFrame", "add"} THEN 1 ELSE 0

(* As long as the worker lives, the images on their way are numbered on from *)
(* the one drawn last to the one received last, without a gap.               *)
OrderInv ==
    /\ lPc \in {"drawFrame", "add"} => content[slot] = received
    /\ Alive =>
          /\ received = drawn + InHand + Len(entries) + Filled
          /\ InHand = 1 => content[f] = drawn + 1
          /\ \A i \in DOMAIN entries : content[entries[i]] = drawn + InHand + i

IndInv == TypeOK /\ ControlInv /\ TokenInv /\ OwnershipInv /\ OrderInv

(* The exception of get(), "Nothing in the queue", which QPop leaves out.    *)
EntryForToken == wPc = "pop" /\ ~qDead => entries # <<>>

(* The names of the slots are not the thread's, and taking the next index    *)
(* stays within the slots.                                                   *)
LEMMA SlotNames ==
    /\ None \notin Slots /\ None # "listener" /\ None # "worker"
    /\ \A kind \in Kinds, i \in 0 .. 1 :
          <<kind, i>> \in Slots /\ (i + 1) % NFRAMES \in 0 .. 1
<1>1. \A i \in 0 .. 1 : (i + 1) % 2 \in 0 .. 1
  OBVIOUS
<1> QED
  BY <1>1, SlotAssumption DEF Slots, NFRAMES

-----------------------------------------------------------------------------
(* Every variable keeps its type, and the flags, the lock and the slots in   *)
(* hand agree with where the threads are.                                    *)
THEOREM TypeCorrect == Spec => [](TypeOK /\ ControlInv)
<1>1. Init => TypeOK /\ ControlInv
  <2> SUFFICES ASSUME Init PROVE TypeOK /\ ControlInv
    OBVIOUS
  <2>1. entries \in Seq(Slots)
    BY EmptySeq DEF Init, QInit
  <2>2. /\ complete \in [Slots -> BOOLEAN] /\ content \in [Slots -> Nat]
        /\ kinds \in SUBSET Kinds /\ cfindex \in 0 .. 1
    BY DEF Init
  <2> QED
    BY <2>1, <2>2 DEF Init, QInit, TypeOK, ControlInv, ListenerPcs, WorkerPcs
<1>2. TypeOK /\ ControlInv /\ [Next]_vars => TypeOK' /\ ControlInv'
  <2> SUFFICES ASSUME TypeOK, ControlInv, [Next]_vars
               PROVE  TypeOK' /\ ControlInv'
    OBVIOUS
  <2> USE SlotNames
      DEF TypeOK, ControlInv, ListenerPcs, WorkerPcs, qvars, listener, worker,
          workerOnly
  <2>1. CASE RecvHeader
    BY <2>1 DEF RecvHeader
  <2>2. CASE getFrame
    <3>1. CASE lastError
      BY <2>2, <3>1 DEF getFrame
    <3>2. CASE ~lastError
      BY <2>2, <3>2, ZenonT(60) DEF getFrame
    <3> QED
      BY <3>1, <3>2
  <2>3. CASE WaitFrame
    BY <2>3 DEF WaitFrame
  <2>4. CASE Fill
    <3>1. CASE eye = "left"
      BY <2>4, <3>1 DEF Fill
    <3>2. CASE eye # "left"
      BY <2>4, <3>2 DEF Fill
    <3> QED
      BY <3>1, <3>2
  <2>5. CASE drawFrame
    <3>1. CASE lastError
      BY <2>5, <3>1 DEF drawFrame
    <3>2. CASE ~lastError
      BY <2>5, <3>2 DEF drawFrame, QLock
    <3> QED
      BY <3>1, <3>2
  <2>6. CASE Add
    BY <2>6, AppendFacts DEF Add, QAppend
  <2>7. CASE Disconnect
    BY <2>7 DEF Disconnect
  <2>8. CASE Delete
    <3>1. CASE lPc = "delete"
      BY <2>8, <3>1 DEF Delete
    <3>2. CASE lPc = "release"
      BY <2>8, <3>2 DEF Delete, QReleaseMark
    <3>3. CASE lPc = "post"
      BY <2>8, <3>3 DEF Delete, QReleasePost
    <3>4. CASE lPc = "join"
      BY <2>8, <3>4 DEF Delete
    <3> QED
      BY <2>8, <3>1, <3>2, <3>3, <3>4 DEF Delete
  <2>9. CASE Loop
    BY <2>9 DEF Loop
  <2>10. CASE GetEnter
    BY <2>10 DEF GetEnter
  <2>11. CASE GetWait
    BY <2>11 DEF GetWait, QTake
  <2>12. CASE GetPop
    <3>1. CASE qDead /\ UNCHANGED <<qvars, f>>
      BY <2>12, <3>1 DEF GetPop
    <3>2. CASE QPop("worker") /\ f' = Head(entries)
      <4>1. Tail(entries) \in Seq(Slots) /\ Head(entries) \in Slots
        BY <3>2, TailFacts DEF QPop
      <4> QED
        BY <2>12, <3>2, <4>1 DEF GetPop, QPop
    <3> QED
      BY <2>12, <3>1, <3>2 DEF GetPop
  <2>13. CASE Got
    BY <2>13 DEF Got
  <2>14. CASE Draw
    <3>1. content[f] \in Nat
      BY <2>14 DEF Draw
    <3> QED
      BY <2>14, <3>1 DEF Draw
  <2>15. CASE SignalComplete
    <3>1. f \in Slots
      BY <2>15 DEF SignalComplete
    <3> QED
      BY <2>15, <3>1 DEF SignalComplete
  <2>16. CASE Catch
    <3>1. CASE wPc = "failed"
      BY <2>16, <3>1 DEF Catch
    <3>2. CASE wPc = "signal"
      BY <2>16, <3>2, ZenonT(60) DEF Catch
    <3> QED
      BY <2>16, <3>1, <3>2 DEF Catch
  <2>17. CASE UNCHANGED vars
    BY <2>17 DEF vars
  <2> QED
    BY <2>1, <2>2, <2>3, <2>4, <2>5, <2>6, <2>7, <2>8, <2>9, <2>10, <2>11,
       <2>12, <2>13, <2>14, <2>15, <2>16, <2>17
       DEF Next, ListenerStep, WorkerStep, Closed
<1> QED
  BY <1>1, <1>2, PTL DEF Spec

-----------------------------------------------------------------------------
(* Every entry added is posted once and every token taken unlinks one entry. *)
LEMMA TokenStep ==
    ASSUME TypeOK, ControlInv, TokenInv, [Next]_vars
    PROVE  TokenInv'
<1> USE SlotNames
    DEF TypeOK, ControlInv, TokenInv, qvars, listener, worker, workerOnly
<1>len. Len(entries) \in Nat
  BY LenProperties
<1>1. CASE RecvHeader
  BY <1>1 DEF RecvHeader
<1>2. CASE getFrame
  BY <1>2 DEF getFrame
<1>3. CASE WaitFrame
  BY <1>3 DEF WaitFrame
<1>4. CASE Fill
  BY <1>4 DEF Fill
<1>5. CASE drawFrame
  BY <1>5 DEF drawFrame, QLock
<1>6. CASE Add
  <2>1. Len(Append(entries, slot)) = Len(entries) + 1
    BY <1>6, AppendFacts DEF Add
  <2> QED
    BY <1>6, <1>len, <2>1 DEF Add, QAppend
<1>7. CASE Disconnect
  BY <1>7 DEF Disconnect
<1>8. CASE Delete
  <2>1. CASE lPc = "delete"
    BY <1>8, <2>1 DEF Delete
  <2>2. CASE lPc = "release"
    BY <1>8, <2>2 DEF Delete, QReleaseMark
  <2>3. CASE lPc = "post"
    BY <1>8, <2>3 DEF Delete, QReleasePost
  <2>4. CASE lPc = "join"
    BY <1>8, <2>4 DEF Delete
  <2> QED
    BY <1>8, <2>1, <2>2, <2>3, <2>4 DEF Delete
<1>9. CASE Loop
  BY <1>9 DEF Loop
<1>10. CASE GetEnter
  BY <1>10 DEF GetEnter
<1>11. CASE GetWait
  BY <1>11, <1>len DEF GetWait, QTake
<1>12. CASE GetPop
  <2>1. CASE qDead /\ UNCHANGED <<qvars, f>>
    BY <1>12, <2>1 DEF GetPop
  <2>2. CASE QPop("worker") /\ f' = Head(entries)
    <3>1. Len(Tail(entries)) = Len(entries) - 1
      BY <2>2, TailFacts DEF QPop
    <3> QED
      BY <1>12, <2>2, <1>len, <3>1 DEF GetPop, QPop
  <2> QED
    BY <1>12, <2>1, <2>2 DEF GetPop
<1>13. CASE Got
  BY <1>13 DEF Got
<1>14. CASE Draw
  BY <1>14 DEF Draw
<1>15. CASE SignalComplete
  BY <1>15 DEF SignalComplete
<1>16. CASE Catch
  BY <1>16 DEF Catch
<1>17. CASE UNCHANGED vars
  BY <1>17 DEF vars
<1> QED
  BY <1>1, <1>2, <1>3, <1>4, <1>5, <1>6, <1>7, <1>8, <1>9, <1>10, <1>11,
     <1>12, <1>13, <1>14, <1>15, <1>16, <1>17
     DEF Next, ListenerStep, WorkerStep, Closed

-----------------------------------------------------------------------------
(* Every step that takes a slot out of one hand puts it into another.        *)
LEMMA OwnershipStep ==
    ASSUME TypeOK, ControlInv, OwnershipInv, [Next]_vars
    PROVE  OwnershipInv'
<1> USE SlotNames
    DEF TypeOK, ControlInv, OwnershipInv, qvars, listener, worker, workerOnly
<1>1. CASE RecvHeader
  BY <1>1 DEF RecvHeader
<1>2. CASE getFrame
  <2>1. CASE lastError
    BY <1>2, <2>1 DEF getFrame
  <2>2. CASE ~lastError
    <3>1. /\ slot = None /\ lPc = "getFrame" /\ lPc' = "waitFrame"
          /\ UNCHANGED <<entries, complete, f>>
      BY <1>2, <2>2 DEF getFrame
    <3> QED
      BY <3>1
  <2> QED
    BY <2>1, <2>2
<1>3. CASE WaitFrame
  <2>1. /\ complete[slot] /\ slot \in Slots /\ lPc = "waitFrame"
        /\ lPc' # "waitFrame" /\ complete' = [complete EXCEPT ![slot] = FALSE]
        /\ UNCHANGED <<entries, f, slot>>
    BY <1>3 DEF WaitFrame
  <2>2. slot \notin Range(entries) /\ slot # f
    BY <2>1
  <2>3. ASSUME NEW s \in Slots
        PROVE  ~complete'[s] <=> s = slot \/ s = f \/ s \in Range(entries)
    <3>1. CASE s = slot
      BY <2>1, <3>1
    <3>2. CASE s # slot
      BY <2>1, <3>2
    <3> QED
      BY <3>1, <3>2
  <2> QED
    BY <2>1, <2>2, <2>3
<1>4. CASE Fill
  BY <1>4 DEF Fill
<1>5. CASE drawFrame
  BY <1>5 DEF drawFrame, QLock
<1>6. CASE Add
  <2>1. /\ slot \in Slots /\ slot \notin Range(entries) /\ slot # f
        /\ lPc = "add" /\ lPc' = "recv" /\ slot' = None
        /\ entries' = Append(entries, slot) /\ UNCHANGED <<complete, f>>
    BY <1>6 DEF Add, QAppend
  <2>2. Range(entries') = Range(entries) \cup {slot} /\ IsInjective(entries')
    BY <2>1, AppendHoldsAll
  <2> QED
    BY <2>1, <2>2
<1>7. CASE Disconnect
  BY <1>7 DEF Disconnect
<1>8. CASE Delete
  <2>1. UNCHANGED <<entries, complete, slot, f>>
        /\ lPc # "waitFrame" /\ lPc' # "waitFrame"
    BY <1>8 DEF Delete, QReleaseMark, QReleasePost
  <2> QED
    BY <2>1
<1>9. CASE Loop
  BY <1>9 DEF Loop
<1>10. CASE GetEnter
  BY <1>10 DEF GetEnter
<1>11. CASE GetWait
  BY <1>11 DEF GetWait, QTake
<1>12. CASE GetPop
  <2>1. CASE qDead /\ UNCHANGED <<qvars, f>>
    BY <1>12, <2>1 DEF GetPop
  <2>2. CASE QPop("worker") /\ f' = Head(entries)
    <3>1. /\ Range(entries') = Range(entries) \ {Head(entries)}
          /\ Head(entries) \in Range(entries) /\ IsInjective(entries')
      BY <2>2, TailHoldsRest DEF QPop
    <3>2. Head(entries) \in Slots
      BY <2>2, TailFacts DEF QPop
    <3>3. f = None /\ UNCHANGED <<slot, lPc, complete>>
      BY <1>12 DEF GetPop
    <3> QED
      BY <2>2, <3>1, <3>2, <3>3
  <2> QED
    BY <1>12, <2>1, <2>2 DEF GetPop
<1>13. CASE Got
  BY <1>13 DEF Got
<1>14. CASE Draw
  BY <1>14 DEF Draw
<1>15. CASE SignalComplete
  <2>1. /\ UNCHANGED <<entries, slot, lPc>> /\ f \in Slots /\ f' = None
        /\ complete' = [complete EXCEPT ![f] = TRUE]
    BY <1>15 DEF SignalComplete
  <2>2. f \notin Range(entries)
    OBVIOUS
  <2>3. f = slot => lPc = "waitFrame"
    BY <2>1
  <2>4. ASSUME NEW s \in Slots
        PROVE  ~complete'[s] <=> \/ s = slot /\ lPc # "waitFrame"
                                 \/ s = None
                                 \/ s \in Range(entries)
    <3>1. CASE s = f
      BY <2>1, <2>2, <2>3, <3>1
    <3>2. CASE s # f
      BY <2>1, <3>2
    <3> QED
      BY <3>1, <3>2
  <2>5. None \notin Range(entries)
    BY LenProperties DEF Range
  <2> QED
    BY <2>1, <2>4, <2>5
<1>16. CASE Catch
  <2>1. CASE wPc = "failed"
    BY <1>16, <2>1 DEF Catch
  <2>2. CASE wPc = "signal"
    <3>1. /\ UNCHANGED <<entries, slot, lPc>> /\ f \in Slots /\ f' = None
          /\ complete' = [complete EXCEPT ![f] = TRUE]
      BY <1>16, <2>2 DEF Catch
    <3>2. f \notin Range(entries)
      OBVIOUS
    <3>3. f = slot => lPc = "waitFrame"
      BY <3>1
    <3>4. ASSUME NEW s \in Slots
          PROVE  ~complete'[s] <=> \/ s = slot /\ lPc # "waitFrame"
                                   \/ s = None
                                   \/ s \in Range(entries)
      <4>1. CASE s = f
        BY <3>1, <3>2, <3>3, <4>1
      <4>2. CASE s # f
        BY <3>1, <4>2
      <4> QED
        BY <4>1, <4>2
    <3>5. None \notin Range(entries)
      BY LenProperties DEF Range
    <3> QED
      BY <3>1, <3>4, <3>5
  <2> QED
    BY <1>16, <2>1, <2>2 DEF Catch
<1>17. CASE UNCHANGED vars
  BY <1>17 DEF vars
<1> QED
  BY <1>1, <1>2, <1>3, <1>4, <1>5, <1>6, <1>7, <1>8, <1>9, <1>10, <1>11,
     <1>12, <1>13, <1>14, <1>15, <1>16, <1>17
     DEF Next, ListenerStep, WorkerStep, Closed

-----------------------------------------------------------------------------
(* Images stay numbered without a gap from the worker back to the Listener.  *)
LEMMA OrderStep ==
    ASSUME TypeOK, ControlInv, OwnershipInv, OrderInv, [Next]_vars
    PROVE  OrderInv'
<1> USE SlotNames
    DEF TypeOK, ControlInv, OrderInv, Alive, InHand, Filled, qvars, listener,
        worker, workerOnly, ListenerPcs, WorkerPcs
<1>len. Len(entries) \in Nat /\ DOMAIN entries = 1 .. Len(entries)
  BY LenProperties
<1>1. CASE RecvHeader
  BY <1>1 DEF RecvHeader
<1>2. CASE getFrame
  BY <1>2 DEF getFrame
<1>3. CASE WaitFrame
  BY <1>3 DEF WaitFrame
<1>4. CASE Fill
  <2>1. CASE eye = "left"
    BY <1>4, <2>1 DEF Fill
  <2>2. CASE eye # "left"
    <3>1. /\ slot \in Slots /\ received' = received + 1 /\ lPc = "fill"
          /\ content' = [content EXCEPT ![slot] = received + 1]
          /\ lPc' = "drawFrame" /\ UNCHANGED <<entries, f, wPc, drawn, slot>>
      BY <1>4, <2>2 DEF Fill
    <3>2. slot # f /\ \A i \in DOMAIN entries : entries[i] # slot
      BY <3>1 DEF OwnershipInv, Range
    <3>3. \A i \in DOMAIN entries : content'[entries[i]] = content[entries[i]]
      BY <3>1, <3>2, <1>len
    <3>4. f # None => content'[f] = content[f]
      BY <3>1, <3>2
    <3>5. InHand' = InHand /\ Filled' = 1 /\ Filled = 0
      BY <3>1
    <3> QED
      BY <1>len, <3>1, <3>3, <3>4, <3>5
  <2> QED
    BY <2>1, <2>2
<1>5. CASE drawFrame
  <2>1. CASE lastError
    BY <1>5, <2>1 DEF drawFrame
  <2>2. CASE ~lastError
    BY <1>5, <2>2 DEF drawFrame, QLock
  <2> QED
    BY <2>1, <2>2
<1>6. CASE Add
  <2>1. /\ entries' = Append(entries, slot) /\ slot \in Slots /\ lPc = "add"
        /\ lPc' = "recv" /\ UNCHANGED <<content, f, wPc, drawn, received>>
    BY <1>6 DEF Add, QAppend
  <2>2. /\ Len(entries') = Len(entries) + 1
        /\ \A i \in DOMAIN entries' :
             \/ i \in DOMAIN entries /\ entries'[i] = entries[i]
             \/ i = Len(entries) + 1 /\ entries'[i] = slot
    BY <2>1, AppendFacts
  <2>3. InHand' = InHand /\ Filled = 1 /\ Filled' = 0 /\ content[slot] = received
    BY <2>1
  <2>4. Alive => \A i \in DOMAIN entries' :
                   content[entries'[i]] = drawn + InHand + i
    <3> SUFFICES ASSUME Alive, NEW i \in DOMAIN entries'
                 PROVE  content[entries'[i]] = drawn + InHand + i
      OBVIOUS
    <3>1. CASE i \in DOMAIN entries /\ entries'[i] = entries[i]
      BY <3>1
    <3>2. CASE i = Len(entries) + 1 /\ entries'[i] = slot
      <4>1. received = drawn + InHand + Len(entries) + 1 /\ InHand \in Nat
        BY <2>3
      <4> HIDE DEF InHand
      <4> QED
        BY <1>len, <2>3, <3>2, <4>1
    <3> QED
      BY <2>2, <3>1, <3>2
  <2>5. Alive' = Alive
    BY <2>1
  <2> HIDE DEF InHand, Filled, Alive
  <2>6. Alive => /\ received = drawn + InHand + Len(entries') + Filled'
                 /\ InHand = 1 => content[f] = drawn + 1
    BY <1>len, <2>1, <2>2, <2>3 DEF InHand
  <2> QED
    BY <2>1, <2>3, <2>4, <2>5, <2>6
<1>7. CASE Disconnect
  BY <1>7 DEF Disconnect
<1>8. CASE Delete
  <2>1. /\ UNCHANGED <<entries, content, slot, f, wPc, drawn, received>>
        /\ lPc \notin {"drawFrame", "add"} /\ lPc' \notin {"drawFrame", "add"}
    BY <1>8 DEF Delete, QReleaseMark, QReleasePost
  <2> QED
    BY <2>1
<1>9. CASE Loop
  BY <1>9 DEF Loop
<1>10. CASE GetEnter
  BY <1>10 DEF GetEnter
<1>11. CASE GetWait
  BY <1>11 DEF GetWait, QTake
<1>12. CASE GetPop
  <2>1. CASE qDead /\ UNCHANGED <<qvars, f>>
    BY <1>12, <2>1 DEF GetPop
  <2>2. CASE QPop("worker") /\ f' = Head(entries)
    <3>1. /\ f = None /\ wPc = "pop" /\ wPc' = "got"
          /\ UNCHANGED <<content, slot, lPc, drawn, received>>
      BY <1>12 DEF GetPop
    <3>2. /\ f' = entries[1] /\ 1 \in DOMAIN entries /\ f' \in Slots
          /\ Len(entries') = Len(entries) - 1
          /\ \A i \in DOMAIN entries' :
               /\ i \in DOMAIN entries /\ i + 1 \in DOMAIN entries
               /\ i \in Nat /\ entries'[i] = entries[i + 1]
      BY <2>2, TailFacts DEF QPop
    <3>3. InHand = 0 /\ InHand' = 1 /\ Filled' = Filled /\ Alive
      BY <3>1, <3>2
    <3> HIDE DEF InHand, Filled, Alive
    <3>4. content[f'] = drawn + 1
      BY <3>2, <3>3, SMTT(30)
    <3>5. \A i \in DOMAIN entries' : content[entries'[i]] = drawn + 1 + i
      BY <3>2, <3>3, SMTT(30)
    <3>6. received = drawn + 1 + Len(entries') + Filled
      BY <1>len, <3>2, <3>3 DEF Filled
    <3> QED
      BY <3>1, <3>3, <3>4, <3>5, <3>6 DEF Filled
  <2> QED
    BY <1>12, <2>1, <2>2 DEF GetPop
<1>13. CASE Got
  BY <1>13 DEF Got
<1>14. CASE Draw
  <2>1. content[f] \in Nat /\ wPc = "draw" /\ f # None
        /\ UNCHANGED <<entries, content, slot, lPc, f, received>>
    BY <1>14 DEF Draw
  <2>2. CASE wPc' = "done" /\ drawn' = content[f]
    BY <2>1, <2>2, <1>len
  <2>3. CASE wPc' = "failed"
    BY <2>1, <2>3
  <2> QED
    BY <1>14, <2>2, <2>3 DEF Draw
<1>15. CASE SignalComplete
  BY <1>15 DEF SignalComplete
<1>16. CASE Catch
  <2>1. CASE wPc = "failed"
    BY <1>16, <2>1 DEF Catch
  <2>2. CASE wPc = "signal"
    BY <1>16, <2>2 DEF Catch
  <2> QED
    BY <1>16, <2>1, <2>2 DEF Catch
<1>17. CASE UNCHANGED vars
  BY <1>17 DEF vars
<1> QED
  BY <1>1, <1>2, <1>3, <1>4, <1>5, <1>6, <1>7, <1>8, <1>9, <1>10, <1>11,
     <1>12, <1>13, <1>14, <1>15, <1>16, <1>17
     DEF Next, ListenerStep, WorkerStep, Closed

-----------------------------------------------------------------------------
(* The inductive invariant holds in every behaviour.                         *)
THEOREM Invariance == Spec => []IndInv
<1>1. Init => TokenInv /\ OwnershipInv /\ OrderInv
  <2> SUFFICES ASSUME Init PROVE TokenInv /\ OwnershipInv /\ OrderInv
    OBVIOUS
  <2>1. entries = <<>> /\ Len(entries) = 0 /\ DOMAIN entries = {}
    BY DEF Init, QInit
  <2>2. Range(entries) = {} /\ IsInjective(entries)
    BY <2>1 DEF Range, IsInjective
  <2>3. TokenInv
    BY <2>1 DEF Init, QInit, TokenInv
  <2>4. OwnershipInv
    BY <2>2, SlotNames DEF Init, OwnershipInv
  <2>5. OrderInv
    BY <2>1 DEF Init, OrderInv, InHand, Filled
  <2> QED
    BY <2>3, <2>4, <2>5
<1>2. TypeOK /\ ControlInv /\ TokenInv /\ OwnershipInv /\ OrderInv /\ [Next]_vars
        => TokenInv' /\ OwnershipInv' /\ OrderInv'
  BY TokenStep, OwnershipStep, OrderStep
<1> QED
  BY <1>1, <1>2, TypeCorrect, PTL DEF Spec, IndInv

-----------------------------------------------------------------------------
(* The slot the socket is read into is neither queued nor being drawn from.  *)
THEOREM SlotsNotShared == Spec => []SlotPrivate
<1>1. IndInv => SlotPrivate
  BY DEF IndInv, ControlInv, OwnershipInv, SlotPrivate
<1> QED
  BY <1>1, Invariance, PTL

(* The worker never throws "Invalid image received from queue": it comes     *)
(* back from get() empty-handed only when the window is being closed.        *)
THEOREM NoInvalidImage == Spec => []ImageBacked
<1>1. IndInv => ImageBacked
  BY DEF IndInv, ControlInv, ImageBacked
<1> QED
  BY <1>1, Invariance, PTL

(* GenericQ::get() never throws "Nothing in the queue".                      *)
THEOREM QueueNeverEmpty == Spec => []EntryForToken
<1>1. IndInv => EntryForToken
  BY EmptySeq DEF IndInv, TypeOK, TokenInv, EntryForToken
<1> QED
  BY <1>1, Invariance, PTL

(* Each image received is dealt with once and in the order it came, until    *)
(* the worker fails or the window is closed.                                 *)
THEOREM NoImageSkipped == Spec => DrawnInOrder
<1>1. IndInv /\ [Next]_vars => (drawn' # drawn => drawn' = drawn + 1)
  <2> SUFFICES ASSUME IndInv, [Next]_vars, drawn' # drawn
               PROVE  drawn' = drawn + 1
    OBVIOUS
  <2>1. Draw
    BY DEF Next, ListenerStep, WorkerStep, Closed, vars, worker, RecvHeader,
       getFrame, WaitFrame, Fill, drawFrame, Add, Disconnect, Delete, Loop,
       GetEnter, GetWait, GetPop, Got, SignalComplete, Catch
  <2>2. drawn' = content[f] /\ wPc = "draw" /\ f # None
    BY <2>1 DEF Draw, IndInv, ControlInv
  <2> QED
    BY <2>2 DEF IndInv, OrderInv, Alive, InHand
<1>2. IndInv /\ [Next]_vars => [drawn' # drawn => drawn' = drawn + 1]_vars
  BY <1>1
<1> QED
  BY <1>2, Invariance, PTL DEF Spec, DrawnInOrder
=============================================================================
