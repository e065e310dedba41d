--------------------------- MODULE VGLTransProofs ---------------------------
(***************************************************************************)
(* Proofs about VGLTrans, for any pool of at least four frames, any number  *)
(* of rendered frames, and whether or not spoiling is on and sends fail.    *)
(***************************************************************************)
EXTENDS VGLTrans, SequenceFacts, TLAPS

(* The exception of get(), "Nothing in the queue", which QPop leaves out.    *)
EntryForToken ==
    (sPc = "pop" /\ ~qDead) \/ appPc = "spoil" => entries # <<>>

-----------------------------------------------------------------------------
(* Every variable keeps its type, and the flags, the lock and the frames a   *)
(* thread holds agree with where it is.                                      *)
THEOREM TypeCorrect == Spec => [](TypeOK /\ ControlInv)
<1>1. Init => TypeOK /\ ControlInv
  <2> SUFFICES ASSUME Init PROVE TypeOK /\ ControlInv
    OBVIOUS
  <2>1. spoil \in BOOLEAN
    BY ModeAssumption DEF Init
  <2>2. entries \in Seq(Frames)
    BY EmptySeq DEF Init, QInit
  <2>3. TypeOK
    BY <2>1, <2>2 DEF Init, QInit, TypeOK, AppPcs, SenderPcs
  <2>4. ControlInv
    BY DEF Init, QInit, ControlInv
  <2> QED
    BY <2>3, <2>4
<1>2. TypeOK /\ ControlInv /\ [Next]_vars => TypeOK' /\ ControlInv'
  <2> SUFFICES ASSUME TypeOK, ControlInv, [Next]_vars
               PROVE  TypeOK' /\ ControlInv'
    OBVIOUS
  <2> USE PoolAssumption
      DEF TypeOK, ControlInv, AppPcs, SenderPcs, qvars
  <2>1. ASSUME NEW spoilLast \in BOOLEAN, Readback(spoilLast)
        PROVE TypeOK' /\ ControlInv'
    BY <2>1 DEF Readback, senderVars
  <2>2. CASE IsReady
    BY <2>2 DEF IsReady, senderVars
  <2>3. CASE Mode
    BY <2>3 DEF Mode, senderVars
  <2>4. CASE synchronize
    <3>1. unspoilable' \in SUBSET Nat
      BY <2>4 DEF synchronize
    <3> QED
      BY <2>4, <3>1, ZenonT(60) DEF synchronize, senderVars
  <2>5. CASE getFrame
    BY <2>5, ZenonT(60) DEF getFrame, senderVars
  <2>6. CASE ReadPixels
    BY <2>6 DEF ReadPixels, senderVars
  <2>7. CASE sendFrame
    BY <2>7 DEF sendFrame, senderVars
  <2>8. CASE SpoilLock
    BY <2>8 DEF SpoilLock, QLock, senderVars
  <2>9. CASE SpoilTryWait
    BY <2>9 DEF SpoilTryWait, QTake, senderVars
  <2>10. CASE SpoilOldest
    <3>1. Tail(entries) \in Seq(Frames) /\ Head(entries) \in Frames
      BY <2>10, TailFacts DEF SpoilOldest, QPop
    <3>2. content[Head(entries)] \in Nat
      BY <3>1
    <3>3. TypeOK'
      BY <2>10, <3>1, <3>2, ZenonT(60) DEF SpoilOldest, QPop, senderVars
    <3>4. ControlInv'
      BY <2>10 DEF SpoilOldest, QPop, senderVars
    <3> QED
      BY <3>3, <3>4
  <2>11. CASE SpoilAdd
    BY <2>11, AppendFacts DEF SpoilAdd, QAppend, senderVars
  <2>12. CASE Release
    <3>1. CASE appPc = "release"
      BY <2>12, <3>1 DEF Release, QReleaseMark, senderVars
    <3>2. CASE appPc = "post"
      BY <2>12, <3>2 DEF Release, QReleasePost, senderVars
    <3> QED
      BY <2>12, <3>1, <3>2 DEF Release
  <2>13. CASE Join
    BY <2>13 DEF Join, senderVars
  <2>14. CASE Destroy
    BY <2>14 DEF Destroy, senderVars
  <2>15. CASE Configure
    BY <2>15, ModeAssumption DEF Configure, senderVars
  <2>16. CASE Loop
    BY <2>16 DEF Loop, senderOnly, appVars
  <2>17. CASE GetEnter
    BY <2>17 DEF GetEnter, senderOnly, appVars
  <2>18. CASE GetWait
    BY <2>18 DEF GetWait, QTake, senderOnly, appVars
  <2>19. CASE GetPop
    <3>1. CASE qDead /\ UNCHANGED <<qvars, f>>
      BY <2>19, <3>1 DEF GetPop, senderOnly, appVars
    <3>2. CASE QPop("sender") /\ f' = Head(entries)
      <4>1. Tail(entries) \in Seq(Frames) /\ Head(entries) \in Frames
        BY <3>2, TailFacts DEF QPop
      <4> QED
        BY <2>19, <3>2, <4>1 DEF GetPop, QPop, senderOnly, appVars
    <3> QED
      BY <2>19, <3>1, <3>2 DEF GetPop
  <2>20. CASE Got
    <3>1. CASE deadYet
      BY <2>20, <3>1 DEF Got, senderOnly, appVars
    <3>2. CASE ~deadYet
      BY <2>20, <3>2, ZenonT(60) DEF Got, senderOnly, appVars
    <3> QED
      BY <3>1, <3>2
  <2>21. CASE CompressSend
    BY <2>21 DEF CompressSend, senderOnly, appVars
  <2>22. CASE SendEOF
    BY <2>22 DEF SendEOF, senderOnly, appVars
  <2>23. CASE CompleteLast
    BY <2>23 DEF CompleteLast, senderOnly, appVars
  <2>24. CASE Catch
    <3>1. CASE sPc = "failed"
      BY <2>24, <3>1 DEF Catch, appVars
    <3>2. CASE sPc = "wake"
      BY <2>24, <3>2 DEF Catch, appVars
    <3> QED
      BY <2>24, <3>1, <3>2 DEF Catch
  <2>25. CASE UNCHANGED vars
    BY <2>25 DEF vars, appVars, senderVars
  <2> QED
    BY <2>1, <2>2, <2>3, <2>4, <2>5, <2>6, <2>7, <2>8, <2>9, <2>10, <2>11,
       <2>12, <2>13, <2>14, <2>15, <2>16, <2>17, <2>18, <2>19, <2>20,
       <2>21, <2>22, <2>23, <2>24, <2>25
       DEF Next, AppStep, SenderStep, Terminated
<1> QED
  BY <1>1, <1>2, PTL DEF Spec

-----------------------------------------------------------------------------
(* The list and the semaphore stay within one claim per thread of each       *)
(* other, and the backlog within two frames: GenericQ::spoil() against the   *)
(* token a consumer takes before it locks.                                   *)
LEMMA TokenStep ==
    ASSUME TypeOK, ControlInv, TokenInv, [Next]_vars
    PROVE  TokenInv'
<1> USE PoolAssumption
    DEF TypeOK, ControlInv, TokenInv, Claims, AppPcs, SenderPcs, qvars
<1>len. Len(entries) \in Nat
  BY LenProperties
<1>1. ASSUME NEW spoilLast \in BOOLEAN, Readback(spoilLast) PROVE TokenInv'
  BY <1>1 DEF Readback, senderVars
<1>2. CASE IsReady
  BY <1>2 DEF IsReady, senderVars
<1>3. CASE Mode
  BY <1>3 DEF Mode, senderVars
<1>4. CASE synchronize
  BY <1>4 DEF synchronize, senderVars
<1>5. CASE getFrame
  BY <1>5 DEF getFrame, senderVars
<1>6. CASE ReadPixels
  BY <1>6 DEF ReadPixels, senderVars
<1>7. CASE sendFrame
  BY <1>7 DEF sendFrame, senderVars
<1>8. CASE SpoilLock
  BY <1>8 DEF SpoilLock, QLock, senderVars
<1>9. CASE SpoilTryWait
  BY <1>9 DEF SpoilTryWait, QTake, senderVars
<1>10. CASE SpoilOldest
  <2>1. Len(Tail(entries)) = Len(entries) - 1
    BY <1>10, TailFacts DEF SpoilOldest, QPop
  <2> QED
    BY <1>10, <2>1 DEF SpoilOldest, QPop, senderVars
<1>11. CASE SpoilAdd
  <2>1. Len(Append(entries, appFrame)) = Len(entries) + 1
    BY <1>11, AppendFacts DEF SpoilAdd
  <2> QED
    BY <1>11, <2>1, SMTT(30) DEF SpoilAdd, QAppend, senderVars
<1>12. CASE Release
  <2>1. CASE appPc = "release"
    BY <1>12, <2>1 DEF Release, QReleaseMark, senderVars
  <2>2. CASE appPc = "post"
    BY <1>12, <2>2 DEF Release, QReleasePost, senderVars
  <2> QED
    BY <1>12, <2>1, <2>2 DEF Release
<1>13. CASE Join
  BY <1>13 DEF Join, senderVars
<1>14. CASE Destroy
  BY <1>14 DEF Destroy, senderVars
<1>15. CASE Configure
  BY <1>15 DEF Configure, senderVars
<1>16. CASE Loop
  BY <1>16 DEF Loop, senderOnly, appVars
<1>17. CASE GetEnter
  BY <1>17 DEF GetEnter, senderOnly, appVars
<1>18. CASE GetWait
  BY <1>18 DEF GetWait, QTake, senderOnly, appVars
<1>19. CASE GetPop
  <2>1. CASE qDead /\ UNCHANGED <<qvars, f>>
    BY <1>19, <2>1 DEF GetPop, senderOnly, appVars
  <2>2. CASE QPop("sender") /\ f' = Head(entries)
    <3>1. Len(Tail(entries)) = Len(entries) - 1
      BY <2>2, TailFacts DEF QPop
    <3>2. /\ ~qDead /\ qMutex # "app" /\ sPc = "pop" /\ sPc' = "got"
          /\ entries' = Tail(entries)
          /\ UNCHANGED <<hasItem, qDead, appPc, deadYet>>
      BY <1>19, <2>2 DEF GetPop, QPop, senderOnly, appVars
    <3>3. Claims = 1 /\ Claims' = 0
      BY <3>2
    <3>4. Len(entries) = hasItem + 1 /\ hasItem <= 1 /\ appPc # "spoil"
      BY <3>2, <3>3
    <3>5. Len(entries') = hasItem' /\ hasItem' <= 1 /\ Len(entries') <= 1
      BY <3>1, <3>2, <3>4
    <3>6. appPc' \in {"spoil", "add"} => hasItem' = 0
      BY <3>2
    <3> QED
      BY <3>3, <3>5, <3>6
  <2> QED
    BY <1>19, <2>1, <2>2 DEF GetPop
<1>20. CASE Got
  BY <1>20 DEF Got, senderOnly, appVars
<1>21. CASE CompressSend
  BY <1>21 DEF CompressSend, senderOnly, appVars
<1>22. CASE SendEOF
  BY <1>22 DEF SendEOF, senderOnly, appVars
<1>23. CASE CompleteLast
  BY <1>23 DEF CompleteLast, appVars
<1>24. CASE Catch
  BY <1>24 DEF Catch, appVars
<1>25. CASE UNCHANGED vars
  BY <1>25 DEF vars, appVars, senderVars
<1> QED
  BY <1>1, <1>2, <1>3, <1>4, <1>5, <1>6, <1>7, <1>8, <1>9, <1>10, <1>11,
     <1>12, <1>13, <1>14, <1>15, <1>16, <1>17, <1>18, <1>19, <1>20,
     <1>21, <1>22, <1>23, <1>24, <1>25
     DEF Next, AppStep, SenderStep, Terminated

-----------------------------------------------------------------------------
(* A frame that is not free has one holder, and every step hands it on.      *)
LEMMA OwnershipStep ==
    ASSUME TypeOK, ControlInv, OwnershipInv, [Next]_vars
    PROVE  OwnershipInv'
<1> USE PoolAssumption
    DEF TypeOK, ControlInv, OwnershipInv, FramesDisjoint, AppPcs, SenderPcs,
        qvars
<1>1. ASSUME NEW spoilLast \in BOOLEAN, Readback(spoilLast) PROVE OwnershipInv'
  BY <1>1 DEF Readback, senderVars, Queued
<1>2. CASE IsReady
  BY <1>2 DEF IsReady, senderVars, Queued
<1>3. CASE Mode
  BY <1>3 DEF Mode, senderVars, Queued
<1>4. CASE synchronize
  BY <1>4 DEF synchronize, senderVars, Queued
<1>5. CASE getFrame
  <2>1. Queued' = Queued
    BY <1>5 DEF getFrame, Queued
  <2>2. CASE lastError
    BY <1>5, <2>1, <2>2 DEF getFrame, senderVars
  <2>3. CASE ~lastError
    <3>1. PICK x \in Frames : /\ complete[x] /\ appFrame' = x
                            /\ complete' = [complete EXCEPT ![x] = FALSE]
      BY <1>5, <2>3 DEF getFrame
    <3>2. x # f /\ x # lastf /\ x \notin Queued /\ appFrame = None
      BY <1>5, <3>1 DEF getFrame
    <3> QED
      BY <1>5, <2>1, <3>1, <3>2 DEF getFrame, senderVars
  <2> QED
    BY <2>2, <2>3
<1>6. CASE ReadPixels
  BY <1>6 DEF ReadPixels, senderVars, Queued
<1>7. CASE sendFrame
  BY <1>7 DEF sendFrame, senderVars, Queued
<1>8. CASE SpoilLock
  BY <1>8 DEF SpoilLock, QLock, senderVars, Queued
<1>9. CASE SpoilTryWait
  BY <1>9 DEF SpoilTryWait, QTake, senderVars, Queued
<1>10. CASE SpoilOldest
  <2>1. Queued' = Queued \ {Head(entries)} 
        /\ Head(entries) \in Queued /\ IsInjective(entries')
    BY <1>10, TailHoldsRest DEF SpoilOldest, QPop, Queued
  <2>2. Head(entries) # appFrame /\ Head(entries) # f
        /\ Head(entries) # lastf /\ Head(entries) \in Frames
    BY <2>1, <1>10, TailFacts DEF SpoilOldest, QPop
  <2> QED
    BY <1>10, <2>1, <2>2 DEF SpoilOldest, senderVars
<1>11. CASE SpoilAdd
  <2>1. appFrame \in Frames /\ appFrame \notin Queued
    BY <1>11 DEF SpoilAdd
  <2>2. Queued' = Queued \cup {appFrame} /\ IsInjective(entries')
    BY <1>11, <2>1, AppendHoldsAll DEF SpoilAdd, QAppend, Queued
  <2> QED
    BY <1>11, <2>1, <2>2 DEF SpoilAdd, senderVars
<1>12. CASE Release
  <2>1. UNCHANGED <<entries, complete, appFrame, f, lastf>>
    BY <1>12 DEF Release, QReleaseMark, QReleasePost, senderVars, Queued
  <2> QED
    BY <2>1 DEF Queued
<1>13. CASE Join
  BY <1>13 DEF Join, senderVars, Queued
<1>14. CASE Destroy
  BY <1>14 DEF Destroy, senderVars, Queued
<1>15. CASE Configure
  BY <1>15 DEF Configure, senderVars, Queued
<1>16. CASE Loop
  BY <1>16 DEF Loop, senderOnly, appVars, Queued
<1>17. CASE GetEnter
  BY <1>17 DEF GetEnter, senderOnly, appVars, Queued
<1>18. CASE GetWait
  BY <1>18 DEF GetWait, QTake, senderOnly, appVars, Queued
<1>19. CASE GetPop
  <2>1. CASE qDead /\ UNCHANGED <<qvars, f>>
    BY <1>19, <2>1 DEF GetPop, senderOnly, appVars, Queued
  <2>2. CASE QPop("sender") /\ f' = Head(entries)
    <3>1. Queued' = Queued \ {Head(entries)} 
        /\ Head(entries) \in Queued /\ IsInjective(entries')
      BY <2>2, TailHoldsRest DEF QPop, Queued
    <3>2. Head(entries) # appFrame /\ Head(entries) # lastf
          /\ Head(entries) \in Frames
      BY <3>1, <2>2, TailFacts DEF QPop
    <3>3. f = None /\ UNCHANGED <<appFrame, lastf, complete>>
      BY <1>19 DEF GetPop, senderOnly, appVars, Queued
    <3> QED
      BY <2>2, <3>1, <3>2, <3>3
  <2> QED
    BY <1>19, <2>1, <2>2 DEF GetPop
<1>20. CASE Got
  BY <1>20 DEF Got, senderOnly, appVars, Queued
<1>21. CASE CompressSend
  BY <1>21 DEF CompressSend, senderOnly, appVars, Queued
<1>22. CASE SendEOF
  BY <1>22 DEF SendEOF, senderOnly, appVars, Queued
<1>23. CASE CompleteLast
  <2>1. Queued' = Queued /\ UNCHANGED <<entries, appFrame>>
    BY <1>23 DEF CompleteLast, Queued, appVars, Queued
  <2>2. f \in Frames /\ lastf' = f /\ f' = None
    BY <1>23 DEF CompleteLast
  <2>3. CASE lastf = None
    BY <1>23, <2>1, <2>2, <2>3 DEF CompleteLast
  <2>4. CASE lastf # None
    BY <1>23, <2>1, <2>2, <2>4 DEF CompleteLast
  <2> QED
    BY <2>3, <2>4
<1>24. CASE Catch
  BY <1>24 DEF Catch, appVars, Queued
<1>25. CASE UNCHANGED vars
  BY <1>25 DEF vars, appVars, senderVars, Queued
<1> QED
  BY <1>1, <1>2, <1>3, <1>4, <1>5, <1>6, <1>7, <1>8, <1>9, <1>10, <1>11,
     <1>12, <1>13, <1>14, <1>15, <1>16, <1>17, <1>18, <1>19, <1>20,
     <1>21, <1>22, <1>23, <1>24, <1>25
     DEF Next, AppStep, SenderStep, Terminated

-----------------------------------------------------------------------------
(* Frame numbers increase along the way from the buffer being filled through *)
(* the queue and the sender to the viewer.                                   *)
LEMMA OrderStep ==
    ASSUME TypeOK, ControlInv, OwnershipInv, OrderInv, [Next]_vars
    PROVE  OrderInv'
<1> USE PoolAssumption
    DEF TypeOK, ControlInv, OwnershipInv, FramesDisjoint, OrderInv, AppPcs,
        SenderPcs, qvars
<1>type. \A i \in DOMAIN entries : entries[i] \in Frames
                                   /\ content[entries[i]] \in Nat
  BY LenProperties
<1>1. ASSUME NEW spoilLast \in BOOLEAN, Readback(spoilLast) PROVE OrderInv'
  BY <1>1 DEF Readback, senderVars
<1>2. CASE IsReady
  BY <1>2 DEF IsReady, senderVars
<1>3. CASE Mode
  BY <1>3 DEF Mode, senderVars
<1>4. CASE synchronize
  BY <1>4 DEF synchronize, senderVars
<1>5. CASE getFrame
  BY <1>5 DEF getFrame, senderVars
<1>6. CASE ReadPixels
  <2>1. /\ rendered' = rendered + 1 /\ appPc' = "sendFrame"
        /\ content' = [content EXCEPT ![appFrame] = rendered + 1]
        /\ UNCHANGED <<entries, f, lastf, sPc, shown, appFrame>>
    BY <1>6 DEF ReadPixels, senderVars
  <2>2. appFrame \in Frames /\ appFrame # f /\ appFrame # lastf
        /\ \A i \in DOMAIN entries : entries[i] # appFrame
    BY <1>6 DEF ReadPixels, Queued, Range
  <2>3. \A i \in DOMAIN entries : content'[entries[i]] = content[entries[i]]
    BY <2>1, <2>2, <1>type
  <2>4. content'[appFrame] = rendered'
    BY <2>1, <2>2
  <2>5. f # None => content'[f] = content[f]
    BY <2>1, <2>2
  <2>6. lastf # None => content'[lastf] = content[lastf]
    BY <2>1, <2>2
  <2>7. sPc = "sent" => f # None
    OBVIOUS
  <2> QED
    BY <2>1, <2>3, <2>4, <2>5, <2>6, <2>7, <1>type
<1>7. CASE sendFrame
  BY <1>7 DEF sendFrame, senderVars
<1>8. CASE SpoilLock
  BY <1>8 DEF SpoilLock, QLock, senderVars
<1>9. CASE SpoilTryWait
  BY <1>9 DEF SpoilTryWait, QTake, senderVars
<1>10. CASE SpoilOldest
  <2>1. /\ entries' = Tail(entries) /\ appPc = "spoil" /\ appPc' = "tryWait"
        /\ UNCHANGED <<content, f, lastf, sPc, shown, rendered, appFrame>>
    BY <1>10 DEF SpoilOldest, QPop, senderVars
  <2>2. \A i \in DOMAIN entries' : /\ i \in DOMAIN entries /\ i + 1 \in DOMAIN entries
                                   /\ i \in Int /\ entries'[i] = entries[i + 1]
    BY <1>10, <2>1, TailFacts DEF SpoilOldest, QPop
  <2>3. ASSUME NEW i \in DOMAIN entries', NEW j \in DOMAIN entries', i < j
        PROVE  content[entries'[i]] < content[entries'[j]]
    <3>1. /\ entries'[i] = entries[i + 1] /\ i + 1 \in DOMAIN entries
          /\ entries'[j] = entries[j + 1] /\ j + 1 \in DOMAIN entries
          /\ i + 1 < j + 1
      BY <2>2, <2>3
    <3> QED
      BY <3>1
  <2>4. \A i \in DOMAIN entries' : /\ shown < content[entries'[i]]
                                   /\ content[entries'[i]] <= rendered
    BY <2>2
  <2>5. sPc \in {"got", "compress", "eof"} /\ f # None =>
            \A i \in DOMAIN entries' : content[f] < content[entries'[i]]
    BY <2>2
  <2>6. \A i \in DOMAIN entries' : content[entries'[i]] < rendered
    BY <2>1, <2>2
  <2> QED
    BY <2>1, <2>3, <2>4, <2>5, <2>6
<1>11. CASE SpoilAdd
  <2>1. /\ entries' = Append(entries, appFrame) /\ appPc = "add"
        /\ appPc' = "idle" /\ appFrame \in Frames
        /\ UNCHANGED <<content, f, lastf, sPc, shown, rendered>>
    BY <1>11 DEF SpoilAdd, QAppend, senderVars
  <2>2. Len(entries) \in Nat
        /\ \A i \in DOMAIN entries' :
             \/ i \in DOMAIN entries /\ entries'[i] = entries[i]
                /\ i \in Int /\ i <= Len(entries)
             \/ i = Len(entries) + 1 /\ entries'[i] = appFrame
    BY <2>1, AppendFacts
  <2>3. ASSUME NEW i \in DOMAIN entries', NEW j \in DOMAIN entries', i < j
        PROVE  content[entries'[i]] < content[entries'[j]]
    BY <2>1, <2>2, <2>3, SMTT(30)
  <2>4. \A i \in DOMAIN entries' : /\ shown < content[entries'[i]]
                                   /\ content[entries'[i]] <= rendered
    BY <2>1, <2>2, <1>type
  <2>5. sPc \in {"got", "compress", "eof"} /\ f # None =>
            \A i \in DOMAIN entries' : content[f] < content[entries'[i]]
    BY <2>1, <2>2
  <2> QED
    BY <2>1, <2>3, <2>4, <2>5
<1>12. CASE Release
  BY <1>12 DEF Release, QReleaseMark, QReleasePost, senderVars
<1>13. CASE Join
  BY <1>13 DEF Join, senderVars
<1>14. CASE Destroy
  BY <1>14 DEF Destroy, senderVars
<1>15. CASE Configure
  BY <1>15 DEF Configure, senderVars
<1>16. CASE Loop
  BY <1>16 DEF Loop, senderOnly, appVars
<1>17. CASE GetEnter
  BY <1>17 DEF GetEnter, senderOnly, appVars
<1>18. CASE GetWait
  BY <1>18 DEF GetWait, QTake, senderOnly, appVars
<1>19. CASE GetPop
  <2>1. CASE qDead /\ UNCHANGED <<qvars, f>>
    BY <1>19, <2>1 DEF GetPop, senderOnly, appVars
  <2>2. CASE QPop("sender") /\ f' = Head(entries)
    <3>1. /\ entries' = Tail(entries) /\ sPc = "pop" /\ sPc' = "got"
          /\ UNCHANGED <<content, lastf, shown, rendered, appFrame, appPc>>
      BY <1>19, <2>2 DEF GetPop, QPop, senderOnly, appVars
    <3>2. /\ f' = entries[1] /\ 1 \in DOMAIN entries
          /\ \A i \in DOMAIN entries' :
               /\ i \in DOMAIN entries /\ i + 1 \in DOMAIN entries
               /\ i \in Int /\ 1 < i + 1 /\ entries'[i] = entries[i + 1]
      BY <2>2, TailFacts DEF QPop
    <3>3. ASSUME NEW i \in DOMAIN entries', NEW j \in DOMAIN entries', i < j
          PROVE  content[entries'[i]] < content[entries'[j]]
      <4>1. /\ entries'[i] = entries[i + 1] /\ i + 1 \in DOMAIN entries
            /\ entries'[j] = entries[j + 1] /\ j + 1 \in DOMAIN entries
            /\ i + 1 < j + 1
        BY <3>2, <3>3
      <4> QED
        BY <4>1
    <3>4. \A i \in DOMAIN entries' : content[f'] < content[entries'[i]]
      BY <3>2
    <3>5. shown < content[f'] /\ content[f'] <= rendered
      BY <3>2
    <3>6. appPc \in {"sendFrame", "lock", "tryWait", "spoil", "add"}
            => content[f'] < rendered
      BY <3>2
    <3> QED
      BY <3>1, <3>2, <3>3, <3>4, <3>5, <3>6, SMTT(30)
  <2> QED
    BY <1>19, <2>1, <2>2 DEF GetPop
<1>20. CASE Got
  BY <1>20 DEF Got, senderOnly, appVars
<1>21. CASE CompressSend
  BY <1>21 DEF CompressSend, senderOnly, appVars
<1>22. CASE SendEOF
  <2>1. CASE sPc' = "sent" /\ shown' = content[f]
    <3>1. /\ sPc = "eof" /\ f # None
          /\ UNCHANGED <<entries, content, f, lastf, rendered, appFrame, appPc>>
      BY <1>22 DEF SendEOF, senderOnly, appVars
    <3> QED
      BY <2>1, <3>1
  <2>2. CASE sPc' = "failed" /\ UNCHANGED shown
    BY <1>22, <2>2 DEF SendEOF, senderOnly, appVars
  <2> QED
    BY <1>22, <2>1, <2>2 DEF SendEOF
<1>23. CASE CompleteLast
  BY <1>23 DEF CompleteLast, appVars
<1>24. CASE Catch
  BY <1>24 DEF Catch, appVars
<1>25. CASE UNCHANGED vars
  BY <1>25 DEF vars, appVars, senderVars
<1> QED
  BY <1>1, <1>2, <1>3, <1>4, <1>5, <1>6, <1>7, <1>8, <1>9, <1>10, <1>11,
     <1>12, <1>13, <1>14, <1>15, <1>16, <1>17, <1>18, <1>19, <1>20,
     <1>21, <1>22, <1>23, <1>24, <1>25
     DEF Next, AppStep, SenderStep, Terminated

-----------------------------------------------------------------------------
(* While every frame waits in synchronize(), each signal of `ready' pays for *)
(* one frame: whoever passes finds nothing owed, so spoil() finds no token.  *)
LEMMA LosslessStep ==
    ASSUME TypeOK, ControlInv, TokenInv, LosslessInv, [Next]_vars
    PROVE  LosslessInv'
<1> DEFINE All == 1 .. rendered \subseteq unspoilable
<1>same. ASSUME UNCHANGED <<rendered, unspoilable>> PROVE All' = All
  BY <1>same
<1>len. Len(entries) \in Nat
  BY LenProperties DEF TypeOK
<1> USE PoolAssumption, <1>len
    DEF TypeOK, ControlInv, TokenInv, Claims, LosslessInv, Owed, Waited,
        AppPcs, SenderPcs, qvars
<1>rest. ASSUME UNCHANGED <<rendered, unspoilable, spoiled, ready, lastError,
                            entries, sPc, f>>,
                appPc' # "spoil", Waited' => Waited,
                \/ appPc' \in {"threw", "release", "post", "join", "destroyed"}
                \/ appPc' \notin {"getFrame", "readPixels"}
                   /\ appPc \notin {"getFrame", "readPixels", "threw",
                                    "release", "post", "join", "destroyed"}
                \/ appPc = "getFrame" /\ appPc' = "readPixels"
                \/ appPc' = appPc
         PROVE  LosslessInv'
  BY <1>rest, <1>same
<1>1. ASSUME NEW spoilLast \in BOOLEAN, Readback(spoilLast) PROVE LosslessInv'
  BY <1>1, <1>rest DEF Readback, senderVars
<1>2. CASE IsReady
  BY <1>2, <1>rest DEF IsReady, senderVars
<1>3. CASE Mode
  BY <1>3, <1>same DEF Mode, senderVars
<1>4. CASE synchronize
  <2>1. All' => All
    BY <1>4 DEF synchronize
  <2> QED
    BY <1>4, <2>1 DEF synchronize, senderVars
<1>5. CASE getFrame
  BY <1>5, <1>rest DEF getFrame, senderVars
<1>6. CASE ReadPixels
  <2>1. All' => All /\ rendered + 1 \in unspoilable
    BY <1>6 DEF ReadPixels
  <2> QED
    BY <1>6, <2>1 DEF ReadPixels, senderVars
<1>7. CASE sendFrame
  BY <1>7, <1>rest DEF sendFrame, senderVars
<1>8. CASE SpoilLock
  BY <1>8, <1>rest DEF SpoilLock, QLock, senderVars
<1>9. CASE SpoilTryWait
  <2>1. CASE hasItem > 0
    BY <1>9, <2>1, <1>same DEF SpoilTryWait, QTake, senderVars
  <2>2. CASE ~(hasItem > 0)
    BY <1>9, <2>2, <1>rest DEF SpoilTryWait, senderVars
  <2> QED
    BY <2>1, <2>2
<1>10. CASE SpoilOldest
  BY <1>10, <1>same DEF SpoilOldest, QPop, senderVars
<1>11. CASE SpoilAdd
  <2>1. Len(entries') = Len(entries) + 1
    BY <1>11, AppendFacts DEF SpoilAdd, QAppend
  <2> QED
    BY <1>11, <2>1, <1>same DEF SpoilAdd, QAppend, senderVars
<1>12. CASE Release
  BY <1>12, <1>rest DEF Release, QReleaseMark, QReleasePost, senderVars
<1>13. CASE Join
  BY <1>13, <1>rest DEF Join, senderVars
<1>14. CASE Destroy
  BY <1>14, <1>rest DEF Destroy, senderVars
<1>15. CASE Configure
  BY <1>15, <1>rest DEF Configure, senderVars
<1>16. CASE Loop
  BY <1>16, <1>same DEF Loop, senderOnly, appVars
<1>17. CASE GetEnter
  BY <1>17, <1>same DEF GetEnter, senderOnly, appVars
<1>18. CASE GetWait
  BY <1>18, <1>same DEF GetWait, QTake, senderOnly, appVars
<1>19. CASE GetPop
  <2>1. CASE qDead /\ UNCHANGED <<qvars, f>>
    BY <1>19, <2>1, <1>same DEF GetPop, senderOnly, appVars
  <2>2. CASE QPop("sender") /\ f' = Head(entries)
    <3>1. Len(entries') = Len(entries) - 1 /\ f' \in Frames
      BY <2>2, TailFacts DEF QPop
    <3>2. /\ sPc = "pop" /\ sPc' = "got"
          /\ UNCHANGED <<appPc, rendered, unspoilable, spoiled, ready, lastError>>
      BY <1>19, <2>2 DEF GetPop, QPop, senderOnly, appVars
    <3>3. Owed' = Owed
      BY <3>1, <3>2
    <3> HIDE DEF Owed
    <3> QED
      BY <3>2, <3>3, <1>same
  <2> QED
    BY <1>19, <2>1, <2>2 DEF GetPop
<1>20. CASE Got
  BY <1>20, <1>same DEF Got, senderOnly, appVars
<1>21. CASE CompressSend
  BY <1>21, <1>same DEF CompressSend, senderOnly, appVars
<1>22. CASE SendEOF
  BY <1>22, <1>same DEF SendEOF, senderOnly, appVars
<1>23. CASE CompleteLast
  BY <1>23, <1>same DEF CompleteLast, appVars
<1>24. CASE Catch
  <2>1. CASE sPc = "failed"
    BY <1>24, <2>1, <1>same DEF Catch, appVars
  <2>2. CASE sPc = "wake"
    BY <1>24, <2>2, <1>same DEF Catch, appVars
  <2> QED
    BY <1>24, <2>1, <2>2 DEF Catch
<1>25. CASE UNCHANGED vars
  BY <1>25, <1>rest DEF vars, appVars, senderVars
<1> QED
  BY <1>1, <1>2, <1>3, <1>4, <1>5, <1>6, <1>7, <1>8, <1>9, <1>10, <1>11,
     <1>12, <1>13, <1>14, <1>15, <1>16, <1>17, <1>18, <1>19, <1>20,
     <1>21, <1>22, <1>23, <1>24, <1>25
     DEF Next, AppStep, SenderStep, Terminated

-----------------------------------------------------------------------------
(* The inductive invariant holds in every behaviour: initially, and kept by  *)
(* each step of the application thread and of the sender.                    *)
THEOREM Invariance == Spec => []IndInv
<1>1. Init => TokenInv /\ OwnershipInv /\ OrderInv /\ LosslessInv
  <2> SUFFICES ASSUME Init
               PROVE  TokenInv /\ OwnershipInv /\ OrderInv /\ LosslessInv
    OBVIOUS
  <2>1. /\ entries = <<>> /\ Len(entries) = 0 /\ DOMAIN entries = {}
        /\ Queued = {} /\ IsInjective(entries)
    <3>1. entries = <<>> /\ Len(entries) = 0 /\ DOMAIN entries = {}
      BY DEF Init, QInit
    <3> QED
      BY <3>1 DEF Queued, Range, IsInjective
  <2>2. TokenInv
    BY <2>1 DEF Init, QInit, TokenInv, Claims
  <2>3. OwnershipInv
    BY <2>1, PoolAssumption DEF Init, OwnershipInv, FramesDisjoint
  <2>4. OrderInv
    BY <2>1 DEF Init, OrderInv
  <2>5. LosslessInv
    BY <2>1 DEF Init, LosslessInv, Owed, Waited
  <2> QED
    BY <2>2, <2>3, <2>4, <2>5
<1>2. TypeOK /\ ControlInv /\ TokenInv /\ OwnershipInv /\ OrderInv
        /\ LosslessInv /\ [Next]_vars
        => TokenInv' /\ OwnershipInv' /\ OrderInv' /\ LosslessInv'
  BY TokenStep, OwnershipStep, OrderStep, LosslessStep
<1> QED
  BY <1>1, <1>2, TypeCorrect, PTL DEF Spec, IndInv

-----------------------------------------------------------------------------
(* Five places hold every frame that is not free, and getFrame() runs when   *)
(* the fifth, the application's own, is empty; with f in hand the sender     *)
(* has no claim left, so at most one entry is queued.                        *)
LEMMA PoolNotHeld ==
    ASSUME IndInv, appPc = "getFrame"
    PROVE  \E x \in Frames : complete[x]
<1> USE PoolAssumption DEF IndInv, TypeOK, ControlInv
<1> SUFFICES ASSUME \A x \in Frames : ~complete[x] PROVE FALSE
  OBVIOUS
<1> DEFINE Holders == IF Len(entries) = 0 THEN {f, lastf}
                      ELSE IF Len(entries) = 1 THEN {f, lastf, entries[1]}
                      ELSE {lastf, entries[1], entries[2]}
<1>1. Len(entries) \in Nat /\ DOMAIN entries = 1 .. Len(entries)
  BY LenProperties
<1>2. /\ Len(entries) <= 2
      /\ Len(entries) = 2 => f = None
  BY DEF TokenInv
<1>3. Frames \subseteq Holders
  <2>1. \A x \in Frames : x = f \/ x = lastf \/ x \in Queued
    BY DEF OwnershipInv
  <2>2. \A x \in Queued : \/ x = entries[1] /\ Len(entries) >= 1
                          \/ x = entries[2] /\ Len(entries) = 2
    BY <1>2, TwoAtMost DEF Queued
  <2> QED
    BY <1>1, <1>2, <2>1, <2>2
<1>4. \A a, b, c : IsFiniteSet({a, b, c}) /\ Cardinality({a, b, c}) <= 3
  BY ThreeNamed
<1>5. PICK a, b, c : Holders \subseteq {a, b, c}
  <2>1. Holders \subseteq {f, lastf, entries[1]}
        \/ Holders \subseteq {lastf, entries[1], entries[2]}
    OBVIOUS
  <2> QED
    BY <2>1
<1>6. Cardinality(Frames) <= Cardinality({a, b, c})
  BY <1>3, <1>4, <1>5, FS_Subset
<1>7. Cardinality(Frames) \in Nat /\ Cardinality({a, b, c}) \in Nat
  BY <1>4, FS_CardinalityType
<1>8. Cardinality({a, b, c}) <= 3
  BY <1>4
<1> QED
  BY <1>6, <1>7, <1>8

(* getFrame() never throws "No free buffers in pool": four buffers are       *)
(* enough for one application thread, one queue and one sender.              *)
THEOREM PoolSuffices == Spec => []PoolNeverExhausted
<1>1. IndInv => PoolNeverExhausted
  BY PoolNotHeld DEF PoolNeverExhausted
<1> QED
  BY <1>1, Invariance, PTL

(* No buffer is drawn into while it is queued, compressed or compared with.  *)
THEOREM NoFrameShared == Spec => []FramesDisjoint
<1>1. IndInv => FramesDisjoint
  BY DEF IndInv, OwnershipInv
<1> QED
  BY <1>1, Invariance, PTL

(* GenericQ::get() never throws "Nothing in the queue", whether it is called *)
(* by the sender or by spoil().                                              *)
THEOREM QueueNeverEmpty == Spec => []EntryForToken
<1>1. IndInv => EntryForToken
  BY EmptySeq DEF IndInv, TypeOK, ControlInv, TokenInv, Claims, EntryForToken
<1> QED
  BY <1>1, Invariance, PTL

(* The frame kept for interframe comparison is the frame last sent in full   *)
(* and stays out of the pool.                                                *)
THEOREM ComparisonSound == Spec => []LastFrameIsShown
<1>1. IndInv => LastFrameIsShown
  BY PoolAssumption DEF IndInv, TypeOK, OwnershipInv, OrderInv, LastFrameIsShown
<1> QED
  BY <1>1, Invariance, PTL

(* A transport whose every readback() waited for the sender drops nothing.   *)
THEOREM SpoilingOffLosesNothing == Spec => []LosslessThroughout
<1>1. IndInv => LosslessThroughout
  BY DEF IndInv, LosslessInv, LosslessThroughout
<1> QED
  BY <1>1, Invariance, PTL

(* The viewer never sees an older frame after a newer one.                   *)
THEOREM NeverBackwards == Spec => ShownInOrder
<1>1. IndInv /\ [Next]_vars => (shown' # shown => shown' > shown)
  <2> SUFFICES ASSUME IndInv, [Next]_vars, shown' # shown
               PROVE  shown' > shown
    OBVIOUS
  <2>1. SendEOF
    BY DEF Next, AppStep, SenderStep, Terminated, vars, senderVars, Readback,
       IsReady, Mode, synchronize, getFrame, ReadPixels, sendFrame, SpoilLock,
       SpoilTryWait, SpoilOldest, SpoilAdd, Release, Join, Destroy, Configure,
       Loop, GetEnter, GetWait, GetPop, Got, CompressSend, CompleteLast, Catch
  <2>2. sPc = "eof" /\ shown' = content[f] /\ f # None
    BY <2>1 DEF SendEOF, IndInv, ControlInv
  <2>3. shown < content[f] /\ shown \in Nat /\ content[f] \in Nat
    BY <2>2 DEF IndInv, TypeOK, OrderInv
  <2> QED
    BY <2>2, <2>3
<1>2. IndInv /\ [Next]_vars => [shown' # shown => shown' > shown]_vars
  BY <1>1
<1> QED
  BY <1>2, Invariance, PTL DEF Spec, ShownInOrder

-----------------------------------------------------------------------------
(* The transport takes the steps of FrameChannel                             *)

(* Where spoiling is never on, every frame waits in synchronize(): that is   *)
(* why the queue finds nothing to spoil, as MaySpoil demands.                *)
ModeInv ==
    /\ spoil \in SpoilModes
    /\ TRUE \notin SpoilModes =>
          /\ 1 .. rendered \subseteq unspoilable
          /\ appPc \in {"getFrame", "readPixels"} => rendered + 1 \in unspoilable

(* Every step keeps it: ReadPixels numbers a frame that has waited.          *)
LEMMA ModeStep ==
    ASSUME TypeOK, ModeInv, [Next]_vars
    PROVE  ModeInv'
<1> USE DEF TypeOK, ModeInv
<1>1. CASE Mode
  BY <1>1 DEF Mode
<1>2. CASE synchronize
  BY <1>2 DEF synchronize
<1>3. CASE ReadPixels
  <2>1. /\ appPc = "readPixels" /\ appPc' = "sendFrame"
        /\ rendered' = rendered + 1 /\ UNCHANGED <<spoil, unspoilable>>
    BY <1>3 DEF ReadPixels
  <2>2. \A n \in 1 .. rendered' : n \in 1 .. rendered \/ n = rendered + 1
    BY <2>1
  <2> QED
    BY <2>1, <2>2
<1>4. CASE Configure
  BY <1>4 DEF Configure
<1>5. ASSUME UNCHANGED <<spoil, rendered, unspoilable>>,
             \/ appPc' \notin {"getFrame", "readPixels"}
             \/ appPc \in {"getFrame", "readPixels"}
      PROVE  ModeInv'
  BY <1>5
<1>6. ASSUME ~Mode, ~synchronize, ~ReadPixels, ~Configure
      PROVE  /\ UNCHANGED <<spoil, rendered, unspoilable>>
             /\ \/ appPc' \notin {"getFrame", "readPixels"}
                \/ appPc \in {"getFrame", "readPixels"}
  BY <1>6
     DEF Next, AppStep, SenderStep, Terminated, vars, appVars, Readback,
     IsReady, getFrame, sendFrame, SpoilLock, SpoilTryWait, SpoilOldest,
     SpoilAdd, Release, Join, Destroy, Loop, GetEnter, GetWait, GetPop, Got,
     CompressSend, SendEOF, CompleteLast, Catch, senderOnly
<1> QED
  BY <1>1, <1>2, <1>3, <1>4, <1>5, <1>6

(* What the mapping makes of the state; Channel's variables are these.       *)
Offering == appFrame # None /\ appPc # "readPixels"
Pending == inFlight \o Mapped(content, entries)
Open == sPc \notin {"failed", "wake"} /\ ~lastError /\ ~deadYet

(* A step that leaves what the mapping reads leaves the channel alone.       *)
LEMMA ChannelVariables ==
    ASSUME UNCHANGED <<rendered, shown>>, Offering' = Offering,
           Pending' = Pending, Open' = Open
    PROVE  UNCHANGED Channel!cvars
BY DEF Channel!cvars, Offering, Pending, Open, Mapped

(* The numbers of the queued frames, when the oldest is taken and when a     *)
(* frame is added                                                            *)
LEMMA ListNumbers ==
    ASSUME content \in [Frames -> Nat], entries \in Seq(Frames)
    PROVE  /\ Mapped(content, entries) \in Seq(Nat)
           /\ Len(Mapped(content, entries)) = Len(entries)
           /\ entries # <<>> =>
                 /\ Mapped(content, entries) # <<>>
                 /\ Head(Mapped(content, entries)) = content[Head(entries)]
                 /\ Mapped(content, Tail(entries)) = Tail(Mapped(content, entries))
           /\ \A x \in Frames : Mapped(content, Append(entries, x))
                                  = Append(Mapped(content, entries), content[x])
<1>1. content \in Numbering(Frames)
  BY DEF Numbering
<1>2. /\ Mapped(content, entries) \in Seq(Nat)
      /\ Len(Mapped(content, entries)) = Len(entries)
  BY <1>1, MappedType
<1>3. ASSUME entries # <<>>
      PROVE  /\ Mapped(content, entries) # <<>>
             /\ Head(Mapped(content, entries)) = content[Head(entries)]
             /\ Mapped(content, Tail(entries)) = Tail(Mapped(content, entries))
  BY <1>1, <1>3, MappedTail
<1>4. ASSUME NEW x \in Frames
      PROVE  Mapped(content, Append(entries, x))
                = Append(Mapped(content, entries), content[x])
  BY <1>1, MappedAppend
<1> QED
  BY <1>2, <1>3, <1>4

(* What is under way is a sequence of frame numbers, by where the actors are. *)
LEMMA PendingType ==
    ASSUME TypeOK
    PROVE  /\ Mapped(content, entries) \in Seq(Nat)
           /\ Pending \in Seq(Nat)
           /\ inFlight = <<>> => Pending = Mapped(content, entries)
           /\ Len(Mapped(content, entries)) = Len(entries)
           /\ inFlight # <<>> =>
                 /\ content[f] \in Nat /\ f # None
                 /\ inFlight = <<content[f]>> /\ Pending # <<>>
                 /\ Pending = <<content[f]>> \o Mapped(content, entries)
                 /\ Len(Pending) = Len(entries) + 1
                 /\ Head(Pending) = content[f]
                 /\ Tail(Pending) = Mapped(content, entries)
<1>1. /\ Mapped(content, entries) \in Seq(Nat)
      /\ Len(Mapped(content, entries)) = Len(entries)
  BY ListNumbers DEF TypeOK
<1>2. CASE inFlight = <<>>
  BY <1>1, <1>2, ConcatEmptySeq DEF Pending
<1>3. CASE inFlight # <<>>
  <2>1. f # None /\ inFlight = <<content[f]>>
    BY <1>3 DEF inFlight
  <2>2. content[f] \in Nat
    BY <2>1 DEF TypeOK
  <2> QED
    BY <1>1, <1>3, <2>1, <2>2, Prefixed DEF Pending
<1> QED
  BY <1>2, <1>3

(* Every step of the two threads is a step of the channel or none:           *)
(* ReadPixels offers, SpoilOldest spoils, SpoilAdd publishes, SendEOF        *)
(* delivers, and the destructor and an exception close it.                   *)
LEMMA ChannelStep ==
    ASSUME IndInv, ModeInv, [Next]_vars
    PROVE  Channel!ChannelNext \/ UNCHANGED Channel!cvars
<1> USE PoolAssumption DEF IndInv, TypeOK, ControlInv, AppPcs, SenderPcs, qvars
<1>pending. /\ Mapped(content, entries) \in Seq(Nat) /\ Pending \in Seq(Nat)
            /\ inFlight = <<>> => Pending = Mapped(content, entries)
            /\ Len(Mapped(content, entries)) = Len(entries)
            /\ inFlight # <<>> =>
                  /\ content[f] \in Nat /\ f # None
                  /\ inFlight = <<content[f]>> /\ Pending # <<>>
                  /\ Pending = <<content[f]>> \o Mapped(content, entries)
                  /\ Len(Pending) = Len(entries) + 1
                  /\ Head(Pending) = content[f]
                  /\ Tail(Pending) = Mapped(content, entries)
  BY PendingType
<1>list. /\ entries # <<>> =>
               /\ Mapped(content, entries) # <<>>
               /\ Head(Mapped(content, entries)) = content[Head(entries)]
               /\ Mapped(content, Tail(entries)) = Tail(Mapped(content, entries))
         /\ \A x \in Frames : Mapped(content, Append(entries, x))
                                = Append(Mapped(content, entries), content[x])
  BY ListNumbers
<1>len. Len(entries) \in Nat /\ DOMAIN entries = 1 .. Len(entries)
  BY LenProperties
<1>quiet. ASSUME UNCHANGED <<rendered, shown, content, entries>>,
                 Offering' = Offering, inFlight' = inFlight, Open' = Open
          PROVE  UNCHANGED Channel!cvars
  <2>1. Pending' = Pending
    BY <1>quiet DEF Pending, Mapped
  <2> QED
    BY <1>quiet, <2>1, ChannelVariables
<1>close. ASSUME UNCHANGED <<rendered, shown>>, Offering' = Offering, ~Open',
                 \/ Pending' = Pending
                 \/ Pending # <<>> /\ Pending' = Tail(Pending)
          PROVE  Channel!Close
  <2>1. Len(Pending) \in Nat
    BY <1>pending, LenProperties
  <2>2. CASE Pending' = Pending
    <3>1. Pending' = SubSeq(Pending, 0 + 1, Len(Pending)) /\ 0 \in 0 .. Len(Pending)
      BY <1>pending, <2>1, <2>2, SubSeqFull
    <3> QED
      BY <1>close, <3>1 DEF Channel!Close, Offering, Pending, Open, Mapped
  <2>3. CASE Pending # <<>> /\ Pending' = Tail(Pending)
    <3>1. Pending' = SubSeq(Pending, 1 + 1, Len(Pending)) /\ 1 \in 0 .. Len(Pending)
      BY <1>pending, <2>1, <2>3, TailIsSubSeq, EmptySeq
    <3> QED
      BY <1>close, <3>1 DEF Channel!Close, Offering, Pending, Open, Mapped
  <2> QED
    BY <1>close, <2>2, <2>3
<1>1. ASSUME NEW spoilLast \in BOOLEAN, Readback(spoilLast)
      PROVE  UNCHANGED Channel!cvars
  BY <1>1, <1>quiet DEF Readback, senderVars, Offering, Open, inFlight
<1>2. CASE IsReady
  BY <1>2, <1>quiet DEF IsReady, senderVars, Offering, Open, inFlight
<1>3. CASE Mode
  BY <1>3, <1>quiet DEF Mode, senderVars, Offering, Open, inFlight
<1>4. CASE synchronize
  BY <1>4, <1>quiet DEF synchronize, senderVars, Offering, Open, inFlight
<1>5. CASE getFrame
  BY <1>5, <1>quiet DEF getFrame, senderVars, Offering, Open, inFlight
<1>6. CASE ReadPixels
  <2>1. /\ rendered' = rendered + 1 /\ ~Offering /\ Offering' /\ Open' = Open
        /\ content' = [content EXCEPT ![appFrame] = rendered + 1]
        /\ UNCHANGED <<entries, f, sPc, shown>>
    BY <1>6 DEF ReadPixels, senderVars, Offering, Open
  <2>2. appFrame \in Frames /\ appFrame # f
        /\ \A i \in DOMAIN entries : entries[i] # appFrame
    BY <1>6 DEF ReadPixels, Queued, Range, OwnershipInv, FramesDisjoint
  <2>3. \A i \in DOMAIN entries : entries[i] \in Frames
    BY <1>len
  <2>4. Mapped(content, entries)' = Mapped(content, entries)
    BY <2>1, <2>2, <2>3 DEF Mapped
  <2>5. inFlight' = inFlight
    BY <2>1, <2>2 DEF inFlight
  <2>6. Pending' = Pending
    BY <2>4, <2>5 DEF Pending
  <2>7. Channel!Offer
    BY <2>1, <2>6 DEF Channel!Offer, Offering, Pending, Open, Mapped
  <2> QED
    BY <2>7 DEF Channel!ChannelNext
<1>7. CASE sendFrame
  BY <1>7, <1>quiet DEF sendFrame, senderVars, Offering, Open, inFlight
<1>8. CASE SpoilLock
  BY <1>8, <1>quiet DEF SpoilLock, QLock, senderVars, Offering, Open, inFlight
<1>9. CASE SpoilTryWait
  BY <1>9, <1>quiet DEF SpoilTryWait, QTake, senderVars, Offering, Open,
     inFlight
<1>10. CASE SpoilOldest
  <2>1. /\ appPc = "spoil" /\ entries # <<>> /\ entries' = Tail(entries)
        /\ Offering /\ Offering' /\ Open' = Open /\ inFlight' = inFlight
        /\ UNCHANGED <<rendered, shown, content>>
    BY <1>10 DEF SpoilOldest, QPop, senderVars, Offering, Open, inFlight
  <2>2. TRUE \in SpoilModes
    BY <2>1 DEF LosslessInv, ModeInv
  <2>3. /\ Mapped(content, entries) # <<>>
        /\ Mapped(content, entries)' = Tail(Mapped(content, entries))
    BY <2>1, <1>list
  <2>4. \E i \in DOMAIN Pending : Pending' = Channel!WithoutIndex(Pending, i)
    <3>1. CASE inFlight = <<>>
      <4>1. Pending' = Tail(Pending) /\ Pending # <<>>
        <5>1. Tail(Mapped(content, entries)) \in Seq(Nat)
          BY <1>pending, <2>3, TailFacts
        <5> QED
          BY <1>pending, <2>1, <2>3, <3>1, <5>1, ConcatEmptySeq DEF Pending
      <4>2. /\ 1 \in DOMAIN Pending
            /\ SubSeq(Pending, 1, 0) \o SubSeq(Pending, 2, Len(Pending))
                  = Tail(Pending)
        BY <1>pending, <4>1, WithoutOldest
      <4>3. Channel!WithoutIndex(Pending, 1) = Tail(Pending)
        BY <4>2 DEF Channel!WithoutIndex
      <4> QED
        BY <4>1, <4>2, <4>3
    <3>2. CASE inFlight # <<>>
      <4>1. /\ Pending = <<content[f]>> \o Mapped(content, entries)
            /\ Pending' = <<content[f]>> \o Tail(Mapped(content, entries))
        BY <1>pending, <2>1, <2>3, <3>2 DEF Pending
      <4>2. /\ 2 \in DOMAIN Pending
            /\ SubSeq(Pending, 1, 1) \o SubSeq(Pending, 3, Len(Pending))
                  = <<content[f]>> \o Tail(Mapped(content, entries))
        <5> DEFINE waiting == Mapped(content, entries)
        <5>1. /\ content[f] \in Nat /\ waiting \in Seq(Nat) /\ waiting # <<>>
              /\ Pending = <<content[f]>> \o waiting
          BY <1>pending, <2>3, <3>2, <4>1
        <5> HIDE DEF waiting
        <5>2. /\ SubSeq(Pending, 1, 1) \o SubSeq(Pending, 3, Len(Pending))
                    = <<content[f]>> \o Tail(waiting)
              /\ 2 \in DOMAIN Pending
          BY <5>1, WithoutSecond, SMTT(30)
        <5> QED
          BY <5>2 DEF waiting
      <4>3. Channel!WithoutIndex(Pending, 2) = Pending'
        BY <4>1, <4>2 DEF Channel!WithoutIndex
      <4> QED
        BY <4>2, <4>3
    <3> QED
      BY <3>1, <3>2
  <2>5. Channel!Spoil
    BY <2>1, <2>2, <2>4 DEF Channel!Spoil, Offering, Pending, Open, Mapped
  <2> QED
    BY <2>5 DEF Channel!ChannelNext
<1>11. CASE SpoilAdd
  <2>1. /\ appPc = "add" /\ entries' = Append(entries, appFrame)
        /\ appFrame \in Frames /\ Offering /\ ~Offering' /\ Open' = Open
        /\ inFlight' = inFlight /\ UNCHANGED <<rendered, shown, content>>
    BY <1>11 DEF SpoilAdd, QAppend, senderVars, Offering, Open, inFlight
  <2>2. content[appFrame] = rendered /\ rendered \in Nat
    BY <2>1 DEF OrderInv
  <2>3. Mapped(content, entries)' = Append(Mapped(content, entries), rendered)
    BY <2>1, <2>2, <1>list
  <2>4. /\ Len(entries) <= 1
        /\ inFlight # <<>> => Len(entries) = 0
    BY <2>1, <1>len, SMTT(30) DEF TokenInv, Claims, inFlight
  <2>5. Pending' = Append(Pending, rendered) /\ Len(Pending) < 2
    <3>1. CASE inFlight = <<>>
      <4>1. Append(Mapped(content, entries), rendered) \in Seq(Nat)
        BY <1>pending, <2>2, AppendFacts
      <4>2. Pending' = Append(Mapped(content, entries), rendered)
        BY <2>1, <2>3, <3>1, <4>1, ConcatEmptySeq, SMTT(30) DEF Pending
      <4>3. Pending = Mapped(content, entries) /\ Len(Pending) < 2
        BY <1>pending, <1>len, <2>4, <3>1
      <4> QED
        BY <4>2, <4>3
    <3>2. CASE inFlight # <<>>
      <4> DEFINE waiting == Mapped(content, entries)
                 sending == content[f]
      <4>1. /\ sending \in Nat /\ waiting \in Seq(Nat)
            /\ Pending = <<sending>> \o waiting
            /\ Pending' = <<sending>> \o Append(waiting, rendered)
        BY <1>pending, <2>1, <2>3, <3>2 DEF Pending
      <4> HIDE DEF waiting, sending
      <4>2. <<sending>> \o Append(waiting, rendered)
              = Append(<<sending>> \o waiting, rendered)
        <5>1. sending \in Nat
          BY <4>1
        <5>2. waiting \in Seq(Nat)
          BY <4>1
        <5>3. rendered \in Nat
          BY <2>2
        <5> QED
          BY ONLY <5>1, <5>2, <5>3, PrefixedAppend, Zenon
      <4>3. Pending' = Append(Pending, rendered)
        BY <4>1, <4>2
      <4>4. Len(Pending) = 1
        BY <1>pending, <2>4, <3>2, SMTT(30)
      <4> QED
        BY <4>3, <4>4, SMTT(30)
    <3> QED
      BY <3>1, <3>2
  <2>6. Channel!Publish
    BY <2>1, <2>5 DEF Channel!Publish, Offering, Pending, Open, Mapped
  <2> QED
    BY <2>6 DEF Channel!ChannelNext
<1>12. CASE Release
  BY <1>12, <1>quiet
     DEF Release, QReleaseMark, QReleasePost, senderVars, Offering, Open,
         inFlight
<1>13. CASE Join
  BY <1>13, <1>quiet DEF Join, senderVars, Offering, Open, inFlight
<1>14. CASE Destroy
  <2>1. /\ UNCHANGED <<rendered, shown, content, entries>>
        /\ Offering' = Offering /\ inFlight' = inFlight /\ ~Open'
    BY <1>14 DEF Destroy, senderVars, Offering, Open, inFlight
  <2>2. Pending' = Pending
    BY <2>1 DEF Pending, Mapped
  <2> QED
    BY <2>1, <2>2, <1>close DEF Channel!ChannelNext
<1>15. CASE Configure
  BY <1>15, <1>quiet DEF Configure, senderVars, Offering, Open, inFlight
<1>16. CASE Loop
  BY <1>16, <1>quiet DEF Loop, senderOnly, appVars, Offering, Open, inFlight
<1>17. CASE GetEnter
  BY <1>17, <1>quiet DEF GetEnter, senderOnly, appVars, Offering, Open, inFlight
<1>18. CASE GetWait
  BY <1>18, <1>quiet
     DEF GetWait, QTake, senderOnly, appVars, Offering, Open, inFlight
<1>19. CASE GetPop
  <2>1. CASE qDead /\ UNCHANGED <<qvars, f>>
    BY <1>19, <2>1, <1>quiet
       DEF GetPop, senderOnly, appVars, Offering, Open, inFlight
  <2>2. CASE QPop("sender") /\ f' = Head(entries)
    <3>1. /\ sPc = "pop" /\ sPc' = "got" /\ inFlight = <<>>
          /\ entries # <<>> /\ entries' = Tail(entries)
          /\ UNCHANGED <<rendered, shown, content>>
          /\ Offering' = Offering /\ Open' = Open
      BY <1>19, <2>2
         DEF GetPop, QPop, senderOnly, appVars, Offering, Open, inFlight
    <3>2. Head(entries) \in Frames
      BY <3>1, TailFacts
    <3>3. /\ Mapped(content, entries) # <<>>
          /\ Head(Mapped(content, entries)) = content[Head(entries)]
          /\ Mapped(content, entries)' = Tail(Mapped(content, entries))
      <4>1. /\ Mapped(content, entries) # <<>>
            /\ Head(Mapped(content, entries)) = content[Head(entries)]
            /\ Mapped(content, Tail(entries)) = Tail(Mapped(content, entries))
        BY <3>1, <1>list
      <4> QED
        BY <3>1, <4>1
    <3>4. inFlight' = <<Head(Mapped(content, entries))>>
      BY <2>2, <3>1, <3>2, <3>3 DEF inFlight
    <3>5. Pending' = Mapped(content, entries)
      <4>1. Head(Mapped(content, entries)) \in Nat
        BY <1>pending, <3>3, TailFacts
      <4> QED
        BY <1>pending, <3>3, <3>4, <4>1, Prefixed DEF Pending
    <3>6. Pending' = Pending
      BY <1>pending, <3>1, <3>5
    <3> QED
      BY <3>1, <3>6, ChannelVariables
  <2> QED
    BY <1>19, <2>1, <2>2 DEF GetPop
<1>lost. ASSUME UNCHANGED <<rendered, shown, content, entries>>,
                Offering' = Offering, inFlight' = <<>>, ~Open'
         PROVE  Channel!Close
  <2>1. Mapped(content, entries)' = Mapped(content, entries)
    BY <1>lost DEF Mapped
  <2>2. Pending' = Mapped(content, entries)
    BY <1>lost, <1>pending, <2>1, ConcatEmptySeq DEF Pending
  <2>3. \/ Pending' = Pending
        \/ Pending # <<>> /\ Pending' = Tail(Pending)
    BY <1>pending, <2>2
  <2> QED
    BY <1>lost, <2>3, <1>close
<1>20. CASE Got
  <2>1. /\ UNCHANGED <<rendered, shown, content, entries>> /\ sPc = "got"
        /\ Offering' = Offering /\ UNCHANGED <<f, deadYet, lastError>>
    BY <1>20 DEF Got, senderOnly, appVars, Offering
  <2>2. CASE deadYet /\ sPc' = "exited"
    BY <2>1, <2>2, <1>lost DEF Open, inFlight, Channel!ChannelNext
  <2>3. CASE sPc' = "compress"
    BY <2>1, <2>3, <1>quiet DEF Open, inFlight
  <2> QED
    BY <1>20, <2>2, <2>3 DEF Got
<1>21. CASE CompressSend
  <2>1. /\ UNCHANGED <<rendered, shown, content, entries>> /\ sPc = "compress"
        /\ Offering' = Offering /\ UNCHANGED <<f, deadYet, lastError>>
    BY <1>21 DEF CompressSend, senderOnly, appVars, Offering
  <2>2. CASE sPc' = "failed"
    BY <2>1, <2>2, <1>lost DEF Open, inFlight, Channel!ChannelNext
  <2>3. CASE sPc' = "eof"
    BY <2>1, <2>3, <1>quiet DEF Open, inFlight
  <2> QED
    BY <1>21, <2>2, <2>3 DEF CompressSend
<1>22. CASE SendEOF
  <2>1. /\ UNCHANGED <<rendered, content, entries>> /\ sPc = "eof"
        /\ Offering' = Offering /\ UNCHANGED <<f, deadYet, lastError>>
    BY <1>22 DEF SendEOF, senderOnly, appVars, Offering
  <2>2. CASE sPc' = "failed" /\ UNCHANGED shown
    BY <2>1, <2>2, <1>lost DEF Open, inFlight, Channel!ChannelNext
  <2>3. CASE sPc' = "sent" /\ shown' = content[f]
    <3>1. /\ inFlight # <<>> /\ inFlight' = <<>> /\ Open' = Open
          /\ Mapped(content, entries)' = Mapped(content, entries)
      BY <2>1, <2>3 DEF inFlight, Open, Mapped
    <3>2. /\ Pending # <<>> /\ Head(Pending) = content[f]
          /\ Tail(Pending) = Mapped(content, entries)
      BY <1>pending, <3>1
    <3>3. Pending' = Mapped(content, entries)
      BY <1>pending, <3>1, ConcatEmptySeq DEF Pending
    <3>4. Channel!Deliver
      BY <2>1, <2>3, <3>1, <3>2, <3>3
         DEF Channel!Deliver, Offering, Pending, Open, Mapped
    <3> QED
      BY <3>4 DEF Channel!ChannelNext
  <2> QED
    BY <1>22, <2>2, <2>3 DEF SendEOF
<1>23. CASE CompleteLast
  BY <1>23, <1>quiet DEF CompleteLast, appVars, Offering, Open, inFlight
<1>24. CASE Catch
  BY <1>24, <1>quiet DEF Catch, appVars, Offering, Open, inFlight, LosslessInv
<1>25. CASE UNCHANGED vars
  BY <1>25, <1>quiet DEF vars, appVars, senderVars, Offering, Open, inFlight
<1> QED
  BY <1>1, <1>2, <1>3, <1>4, <1>5, <1>6, <1>7, <1>8, <1>9, <1>10, <1>11,
     <1>12, <1>13, <1>14, <1>15, <1>16, <1>17, <1>18, <1>19, <1>20,
     <1>21, <1>22, <1>23, <1>24, <1>25
     DEF Next, AppStep, SenderStep, Terminated

(* The safety half of ImplementsChannel: whatever the threads do, frames are *)
(* numbered, published, spoiled and delivered as FrameChannel says; a frame  *)
(* is lost only to a newer one, and only where spoiling may be on.           *)
THEOREM StepsAreTheChannels == Spec => Channel!ChannelSafety
<1>1. Init => Channel!ChannelInit
  <2> SUFFICES ASSUME Init PROVE Channel!ChannelInit
    OBVIOUS
  <2>1. entries = <<>> /\ DOMAIN entries = {} /\ inFlight = <<>>
    BY DEF Init, QInit, inFlight
  <2>2. [i \in DOMAIN entries |-> content[entries[i]]] = <<>>
    BY <2>1
  <2>3. inFlight \o [i \in DOMAIN entries |-> content[entries[i]]] = <<>>
    BY <2>1, <2>2, ConcatEmptySeq, EmptySeq
  <2> QED
    BY <2>3 DEF Init, Channel!ChannelInit
<1>2. Init => ModeInv
  BY DEF Init, ModeInv
<1>3. IndInv /\ ModeInv /\ [Next]_vars => ModeInv'
  BY ModeStep DEF IndInv
<1>4. IndInv /\ ModeInv /\ [Next]_vars => [Channel!ChannelNext]_(Channel!cvars)
  BY ChannelStep
<1> QED
  BY <1>1, <1>2, <1>3, <1>4, Invariance, PTL DEF Spec, Channel!ChannelSafety
=============================================================================
