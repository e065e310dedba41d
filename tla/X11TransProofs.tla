--------------------------- MODULE X11TransProofs ---------------------------
(***************************************************************************)
(* Proofs about X11Trans, for any pool of at least three frames, any number *)
(* of rendered frames, and whichever settings may change while it runs.     *)
(***************************************************************************)
EXTENDS X11Trans, SequenceFacts, TLAPS

AppPcs == {"idle", "isReady", "mode", "synchronize", "getFrame", "readPixels",
           "sendFrame", "redraw", "lock", "tryWait", "spoil", "add", "threw",
           "release", "post", "join", "destroyed"}
WorkerPcs == {"top", "get", "wait", "pop", "got", "redraw", "drawn", "failed",
              "wake", "exited"}

TypeOK ==
    /\ entries \in Seq(Frames) /\ hasItem \in Nat
    /\ qDead \in BOOLEAN /\ qMutex \in {None, "app"}
    /\ spoil \in BOOLEAN /\ sync \in BOOLEAN /\ switching \in BOOLEAN
    /\ complete \in [Frames -> BOOLEAN] /\ content \in [Frames -> Nat]
    /\ ready \in BOOLEAN /\ deadYet \in BOOLEAN /\ lastError \in BOOLEAN
    /\ appPc \in AppPcs /\ appFrame \in Frames \cup {None}
    /\ syncArg \in BOOLEAN
    /\ wPc \in WorkerPcs /\ f \in Frames \cup {None}
    /\ rendered \in Nat /\ window \in Nat
    /\ behind \in SUBSET Nat

(* The flags, the lock and the frame each thread holds follow from where it  *)
(* is.  A frame whose redraw threw stays with the thread that drew it.       *)
ControlInv ==
    /\ deadYet <=> appPc \in {"release", "post", "join", "destroyed"}
    /\ qDead <=> appPc \in {"post", "join", "destroyed"}
    /\ qMutex = (IF appPc \in {"tryWait", "spoil", "add"} THEN "app" ELSE None)
    /\ appPc \in {"readPixels", "sendFrame", "redraw", "lock", "tryWait",
                  "spoil", "add"} => appFrame # None
    /\ appPc \in {"idle", "isReady", "mode", "synchronize", "getFrame"}
          => appFrame = None
    /\ wPc \in {"redraw", "drawn", "failed", "wake"} => f # None
    /\ wPc \in {"top", "get", "wait", "pop"} => f = None
    /\ wPc = "got" /\ f = None => deadYet

(* Tokens out: taken from the semaphore, their entry still in the list.      *)
Claims == (IF wPc = "pop" THEN 1 ELSE 0) + (IF appPc = "spoil" THEN 1 ELSE 0)

(* Until the queue is released, list and semaphore differ by the claims, and *)
(* a second entry is there only while the worker has claimed the first.      *)
TokenInv ==
    /\ ~qDead => Len(entries) = hasItem + Claims /\ hasItem <= 1
    /\ appPc \in {"spoil", "add"} => hasItem = 0
    /\ Len(entries) <= 2
    /\ Len(entries) = 2 => wPc = "pop" \/ deadYet

(* While fconfig.sync stays set every frame goes past the queue: nothing is  *)
(* ever queued, the worker never has a frame, and the window is up to date   *)
(* outside of a redraw.                                                      *)
SyncInv ==
    ~switching /\ sync =>
        /\ entries = <<>> /\ f = None /\ behind = {}
        /\ appPc \notin {"lock", "tryWait", "spoil", "add"}
        /\ appPc \in {"isReady", "mode", "synchronize", "getFrame",
                      "readPixels", "sendFrame", "redraw"} => syncArg
        /\ appPc \in {"idle", "isReady", "mode", "synchronize", "getFrame",
                      "readPixels"} => window = rendered
        /\ appPc \in {"sendFrame", "redraw"} => content[appFrame] = rendered

(* The application at work on the newest frame                               *)
Sending == appPc \in {"sendFrame", "redraw", "lock", "tryWait", "spoil", "add"}

(* What the worker has in hand is older than what is queued, and that is     *)
(* queued in order; the application's frame is newer than all of it and than *)
(* the window's, over which an older one is drawn only if it is in `behind'. *)
DirectInv ==
    /\ \A x \in Queued \cup InHand :
          /\ content[x] > window \/ content[x] \in behind
          /\ content[x] <= rendered /\ (Sending => content[x] < rendered)
    /\ \A x \in InHand, y \in Queued : content[x] < content[y]
    /\ \A i, j \in DOMAIN entries :
          i < j => content[entries[i]] < content[entries[j]]
    /\ window <= rendered
    /\ Sending => content[appFrame] = rendered /\ window < rendered

(* The exception of get(), "Nothing in the queue", which QPop leaves out.    *)
EntryForToken ==
    (wPc = "pop" /\ ~qDead) \/ appPc = "spoil" => entries # <<>>

IndInv == /\ TypeOK /\ ControlInv /\ TokenInv /\ FramesDisjoint /\ SyncInv
          /\ DirectInv

-----------------------------------------------------------------------------
(* Every variable keeps its type, and the flags, the lock and the frames a   *)
(* thread holds agree with where it is.                                      *)
THEOREM TypeCorrect == Spec => [](TypeOK /\ ControlInv)
<1>1. Init => TypeOK /\ ControlInv
  <2> SUFFICES ASSUME Init PROVE TypeOK /\ ControlInv
    OBVIOUS
  <2>1. spoil \in BOOLEAN /\ sync \in BOOLEAN
    BY X11ModeAssumption DEF Init
  <2>2. entries \in Seq(Frames)
    BY EmptySeq DEF Init, QInit
  <2>3. TypeOK
    BY <2>1, <2>2 DEF Init, QInit, TypeOK, AppPcs, WorkerPcs
  <2>4. ControlInv
    BY DEF Init, QInit, ControlInv
  <2> QED
    BY <2>3, <2>4
<1>2. TypeOK /\ ControlInv /\ [Next]_vars => TypeOK' /\ ControlInv'
  <2> SUFFICES ASSUME TypeOK, ControlInv, [Next]_vars
               PROVE  TypeOK' /\ ControlInv'
    OBVIOUS
  <2> USE X11PoolAssumption
      DEF TypeOK, ControlInv, AppPcs, WorkerPcs, qvars, config, app, worker,
          pool, flags, display
  <2>1. ASSUME NEW spoilLast \in BOOLEAN, Readback(spoilLast)
        PROVE TypeOK' /\ ControlInv'
    BY <2>1 DEF Readback
  <2>2. CASE IsReady
    BY <2>2 DEF IsReady, AppGoes
  <2>3. CASE Mode
    BY <2>3 DEF Mode, AppGoes
  <2>4. CASE synchronize
    BY <2>4, ZenonT(60) DEF synchronize, AppGoes
  <2>5. CASE getFrame
    BY <2>5, ZenonT(60) DEF getFrame
  <2>6. CASE ReadPixels
    BY <2>6 DEF ReadPixels
  <2>7. CASE sendFrame
    BY <2>7 DEF sendFrame, AppGoes
  <2>8. CASE RedrawSync
    <3>1. appFrame \in Frames /\ content[appFrame] \in Nat
      BY <2>8 DEF RedrawSync
    <3>2. CASE appPc' = "idle"
      <4>1. \A x \in Range(entries) \cup InHand : content[x] \in Nat
        BY LenProperties DEF Range, InHand
      <4>2. UnderWay \in SUBSET Nat
        BY <4>1 DEF UnderWay
      <4>3. window' \in Nat /\ behind' \in SUBSET Nat
        BY <2>8, <3>1, <3>2, <4>2 DEF RedrawSync, DrawDirect
      <4> QED
        BY <2>8, <3>1, <3>2, <4>3, ZenonT(60) DEF RedrawSync
    <3>3. CASE appPc' = "threw"
      <4>1. /\ appPc = "redraw"
            /\ UNCHANGED <<qvars, config, syncArg, rendered, worker, pool, flags,
                           display, appFrame>>
        BY <2>8, <3>3 DEF RedrawSync
      <4> QED
        BY <3>3, <4>1, ZenonT(60)
    <3> QED
      BY <2>8, <3>2, <3>3 DEF RedrawSync
  <2>9. CASE SpoilLock
    BY <2>9 DEF SpoilLock, AppGoes, QLock
  <2>10. CASE SpoilTryWait
    BY <2>10 DEF SpoilTryWait, AppGoes, QTake
  <2>11. CASE SpoilOldest
    <3>1. Tail(entries) \in Seq(Frames) /\ Head(entries) \in Frames
      BY <2>11, TailFacts DEF SpoilOldest, QPop
    <3> QED
      BY <2>11, <3>1 DEF SpoilOldest, AppGoes, QPop
  <2>12. CASE SpoilAdd
    BY <2>12, AppendFacts DEF SpoilAdd, QAppend
  <2>13. CASE Release
    <3>1. CASE appPc = "release"
      BY <2>13, <3>1 DEF Release, AppGoes, QReleaseMark
    <3>2. CASE appPc = "post"
      BY <2>13, <3>2 DEF Release, AppGoes, QReleasePost
    <3> QED
      BY <2>13, <3>1, <3>2 DEF Release, AppGoes
  <2>14. CASE Join
    BY <2>14 DEF Join, AppGoes
  <2>15. CASE Destroy
    BY <2>15 DEF Destroy, AppGoes
  <2>16. CASE Configure
    BY <2>16, X11ModeAssumption DEF Configure
  <2>17. CASE Loop
    BY <2>17 DEF Loop
  <2>18. CASE GetEnter
    BY <2>18 DEF GetEnter
  <2>19. CASE GetWait
    BY <2>19 DEF GetWait, QTake
  <2>20. CASE GetPop
    <3>1. CASE qDead /\ UNCHANGED <<qvars, f>>
      BY <2>20, <3>1 DEF GetPop
    <3>2. CASE QPop("worker") /\ f' = Head(entries)
      <4>1. Tail(entries) \in Seq(Frames) /\ Head(entries) \in Frames
        BY <3>2, TailFacts DEF QPop
      <4> QED
        BY <2>20, <3>2, <4>1 DEF GetPop, QPop
    <3> QED
      BY <2>20, <3>1, <3>2 DEF GetPop
  <2>21. CASE Got
    <3>1. CASE wPc' = "exited" /\ UNCHANGED ready
      BY <2>21, <3>1 DEF Got
    <3>2. CASE f # None /\ ready' = TRUE /\ wPc' = "redraw"
      BY <2>21, <3>2 DEF Got
    <3> QED
      BY <2>21, <3>1, <3>2 DEF Got
  <2>22. CASE Redraw
    <3>1. content[f] \in Nat
      BY <2>22 DEF Redraw
    <3> QED
      BY <2>22, <3>1 DEF Redraw
  <2>23. CASE SignalComplete
    <3>1. f \in Frames
      BY <2>23 DEF SignalComplete
    <3> QED
      BY <2>23, <3>1 DEF SignalComplete
  <2>24. CASE Catch
    <3>1. CASE wPc = "failed"
      BY <2>24, <3>1 DEF Catch
    <3>2. CASE wPc = "wake"
      BY <2>24, <3>2 DEF Catch
    <3> QED
      BY <2>24, <3>1, <3>2 DEF Catch
  <2>25. CASE UNCHANGED vars
    BY <2>25 DEF vars
  <2> QED
    BY <2>1, <2>2, <2>3, <2>4, <2>5, <2>6, <2>7, <2>8, <2>9, <2>10, <2>11,
       <2>12, <2>13, <2>14, <2>15, <2>16, <2>17, <2>18, <2>19, <2>20,
       <2>21, <2>22, <2>23, <2>24, <2>25
       DEF Next, AppStep, WorkerStep, Terminated
<1> QED
  BY <1>1, <1>2, PTL DEF Spec

-----------------------------------------------------------------------------
(* The list and the semaphore stay within one claim per thread of each       *)
(* other, also while synchronous frames go past the queue.                   *)
LEMMA TokenStep ==
    ASSUME TypeOK, ControlInv, TokenInv, [Next]_vars
    PROVE  TokenInv'
<1> USE X11PoolAssumption
    DEF TypeOK, ControlInv, TokenInv, Claims, AppPcs, WorkerPcs, qvars, config,
        app, worker, pool, flags, display
<1>len. Len(entries) \in Nat
  BY LenProperties
<1>1. ASSUME NEW spoilLast \in BOOLEAN, Readback(spoilLast) PROVE TokenInv'
  BY <1>1 DEF Readback
<1>2. CASE IsReady
  BY <1>2 DEF IsReady, AppGoes
<1>3. CASE Mode
  BY <1>3 DEF Mode, AppGoes
<1>4. CASE synchronize
  BY <1>4 DEF synchronize, AppGoes
<1>5. CASE getFrame
  BY <1>5 DEF getFrame
<1>6. CASE ReadPixels
  BY <1>6 DEF ReadPixels
<1>7. CASE sendFrame
  BY <1>7 DEF sendFrame, AppGoes
<1>8. CASE RedrawSync
  BY <1>8 DEF RedrawSync
<1>9. CASE SpoilLock
  BY <1>9 DEF SpoilLock, AppGoes, QLock
<1>10. CASE SpoilTryWait
  BY <1>10 DEF SpoilTryWait, AppGoes, QTake
<1>11. CASE SpoilOldest
  <2>1. Len(Tail(entries)) = Len(entries) - 1
    BY <1>11, TailFacts DEF SpoilOldest, QPop
  <2> QED
    BY <1>11, <1>len, <2>1 DEF SpoilOldest, AppGoes, QPop
<1>12. CASE SpoilAdd
  <2>1. Len(Append(entries, appFrame)) = Len(entries) + 1
    BY <1>12, AppendFacts DEF SpoilAdd
  <2> QED
    BY <1>12, <1>len, <2>1 DEF SpoilAdd, QAppend
<1>13. CASE Release
  <2>1. CASE appPc = "release"
    BY <1>13, <2>1 DEF Release, AppGoes, QReleaseMark
  <2>2. CASE appPc = "post"
    BY <1>13, <2>2 DEF Release, AppGoes, QReleasePost
  <2> QED
    BY <1>13, <2>1, <2>2 DEF Release, AppGoes
<1>14. CASE Join
  BY <1>14 DEF Join, AppGoes
<1>15. CASE Destroy
  BY <1>15 DEF Destroy, AppGoes
<1>16. CASE Configure
  BY <1>16 DEF Configure
<1>17. CASE Loop
  BY <1>17 DEF Loop
<1>18. CASE GetEnter
  BY <1>18 DEF GetEnter
<1>19. CASE GetWait
  BY <1>19 DEF GetWait, QTake
<1>20. CASE GetPop
  <2>1. CASE qDead /\ UNCHANGED <<qvars, f>>
    BY <1>20, <2>1 DEF GetPop
  <2>2. CASE QPop("worker") /\ f' = Head(entries)
    <3>1. Len(Tail(entries)) = Len(entries) - 1
      BY <2>2, TailFacts DEF QPop
    <3>2. /\ ~qDead /\ qMutex # "app" /\ wPc = "pop" /\ wPc' = "got"
          /\ entries' = Tail(entries)
          /\ UNCHANGED <<hasItem, qDead, appPc, deadYet>>
      BY <1>20, <2>2 DEF GetPop, QPop
    <3>3. Claims = 1 /\ Claims' = 0
      BY <3>2
    <3>4. Len(entries) = hasItem + 1 /\ hasItem <= 1 /\ appPc # "spoil"
      BY <3>2, <3>3
    <3>5. Len(entries') = hasItem' /\ hasItem' <= 1 /\ Len(entries') <= 1
      BY <3>1, <3>2, <3>4
    <3>6. appPc' \in {"spoil", "add"} => hasItem' = 0
      BY <3>2
    <3> QED
      BY <3>3, <3>5, <3>6
  <2> QED
    BY <1>20, <2>1, <2>2 DEF GetPop
<1>21. CASE Got
  BY <1>21 DEF Got
<1>22. CASE Redraw
  BY <1>22 DEF Redraw
<1>23. CASE SignalComplete
  BY <1>23 DEF SignalComplete
<1>24. CASE Catch
  BY <1>24 DEF Catch
<1>25. CASE UNCHANGED vars
  BY <1>25 DEF vars
<1> QED
  BY <1>1, <1>2, <1>3, <1>4, <1>5, <1>6, <1>7, <1>8, <1>9, <1>10, <1>11,
     <1>12, <1>13, <1>14, <1>15, <1>16, <1>17, <1>18, <1>19, <1>20,
     <1>21, <1>22, <1>23, <1>24, <1>25
     DEF Next, AppStep, WorkerStep, Terminated

-----------------------------------------------------------------------------
(* A frame that is not free has one holder, and every step hands it on; a    *)
(* frame whose redraw threw is never given back and is held for good.        *)
LEMMA OwnershipStep ==
    ASSUME TypeOK, ControlInv, FramesDisjoint, [Next]_vars
    PROVE  FramesDisjoint'
<1> USE X11PoolAssumption
    DEF TypeOK, ControlInv, FramesDisjoint, AppPcs, WorkerPcs, qvars, config,
        app, worker, pool, flags, display
<1>1. ASSUME NEW spoilLast \in BOOLEAN, Readback(spoilLast)
      PROVE FramesDisjoint'
  BY <1>1 DEF Readback, Queued
<1>2. CASE IsReady
  BY <1>2 DEF IsReady, AppGoes, Queued
<1>3. CASE Mode
  BY <1>3 DEF Mode, AppGoes, Queued
<1>4. CASE synchronize
  BY <1>4 DEF synchronize, AppGoes, Queued
<1>5. CASE getFrame
  <2>1. Queued' = Queued
    BY <1>5 DEF getFrame, Queued
  <2>2. CASE lastError
    BY <1>5, <2>1, <2>2 DEF getFrame
  <2>3. CASE ~lastError
    <3>1. PICK x \in Frames : /\ complete[x] /\ appFrame' = x
                              /\ complete' = [complete EXCEPT ![x] = FALSE]
      BY <1>5, <2>3 DEF getFrame
    <3>2. x # f /\ x \notin Queued /\ appFrame = None
      BY <1>5, <3>1 DEF getFrame
    <3> QED
      BY <1>5, <2>1, <3>1, <3>2 DEF getFrame
  <2> QED
    BY <2>2, <2>3
<1>6. CASE ReadPixels
  BY <1>6 DEF ReadPixels, Queued
<1>7. CASE sendFrame
  BY <1>7 DEF sendFrame, AppGoes, Queued
<1>8. CASE RedrawSync
  <2>1. UNCHANGED <<entries, f>> /\ Queued' = Queued /\ appFrame \in Frames
    BY <1>8 DEF RedrawSync, Queued
  <2> QED
    BY <1>8, <2>1 DEF RedrawSync
<1>9. CASE SpoilLock
  BY <1>9 DEF SpoilLock, AppGoes, QLock, Queued
<1>10. CASE SpoilTryWait
  BY <1>10 DEF SpoilTryWait, AppGoes, QTake, Queued
<1>11. CASE SpoilOldest
  <2>1. /\ Queued' = Queued \ {Head(entries)}
        /\ Head(entries) \in Queued /\ IsInjective(entries')
    BY <1>11, TailHoldsRest DEF SpoilOldest, QPop, Queued
  <2>2. /\ Head(entries) # appFrame /\ Head(entries) # f
        /\ Head(entries) \in Frames
    BY <2>1, <1>11, TailFacts DEF SpoilOldest, QPop
  <2> QED
    BY <1>11, <2>1, <2>2 DEF SpoilOldest, AppGoes
<1>12. CASE SpoilAdd
  <2>1. appFrame \in Frames /\ appFrame \notin Queued
    BY <1>12 DEF SpoilAdd
  <2>2. Queued' = Queued \cup {appFrame} /\ IsInjective(entries')
    BY <1>12, <2>1, AppendHoldsAll DEF SpoilAdd, QAppend, Queued
  <2> QED
    BY <1>12, <2>1, <2>2 DEF SpoilAdd
<1>13. CASE Release
  <2>1. UNCHANGED <<entries, complete, appFrame, f>>
    BY <1>13 DEF Release, AppGoes, QReleaseMark, QReleasePost
  <2> QED
    BY <2>1 DEF Queued
<1>14. CASE Join
  BY <1>14 DEF Join, AppGoes, Queued
<1>15. CASE Destroy
  BY <1>15 DEF Destroy, AppGoes, Queued
<1>16. CASE Configure
  BY <1>16 DEF Configure, Queued
<1>17. CASE Loop
  BY <1>17 DEF Loop, Queued
<1>18. CASE GetEnter
  BY <1>18 DEF GetEnter, Queued
<1>19. CASE GetWait
  BY <1>19 DEF GetWait, QTake, Queued
<1>20. CASE GetPop
  <2>1. CASE qDead /\ UNCHANGED <<qvars, f>>
    BY <1>20, <2>1 DEF GetPop, Queued
  <2>2. CASE QPop("worker") /\ f' = Head(entries)
    <3>1. /\ Queued' = Queued \ {Head(entries)}
          /\ Head(entries) \in Queued /\ IsInjective(entries')
      BY <2>2, TailHoldsRest DEF QPop, Queued
    <3>2. Head(entries) # appFrame /\ Head(entries) \in Frames
      BY <3>1, <2>2, TailFacts DEF QPop
    <3>3. f = None /\ UNCHANGED <<appFrame, complete>>
      BY <1>20 DEF GetPop
    <3> QED
      BY <2>2, <3>1, <3>2, <3>3
  <2> QED
    BY <1>20, <2>1, <2>2 DEF GetPop
<1>21. CASE Got
  BY <1>21 DEF Got, Queued
<1>22. CASE Redraw
  BY <1>22 DEF Redraw, Queued
<1>23. CASE SignalComplete
  <2>1. /\ UNCHANGED <<entries, appFrame>> /\ Queued' = Queued
        /\ f \in Frames /\ f' = None
        /\ complete' = [complete EXCEPT ![f] = TRUE]
    BY <1>23 DEF SignalComplete, Queued
  <2>2. f \notin Queued /\ f # appFrame
    BY <2>1
  <2>3. ASSUME NEW x \in Frames
        PROVE  ~complete'[x] <=> x = appFrame \/ x = None \/ x \in Queued
    <3>1. CASE x = f
      BY <2>1, <2>2, <3>1
    <3>2. CASE x # f
      BY <2>1, <3>2
    <3> QED
      BY <3>1, <3>2
  <2>4. None \notin Queued /\ IsInjective(entries') /\ appFrame' = appFrame
    BY <2>1, LenProperties DEF Queued, Range
  <2> QED
    BY <2>1, <2>2, <2>3, <2>4
<1>24. CASE Catch
  BY <1>24 DEF Catch, Queued
<1>25. CASE UNCHANGED vars
  BY <1>25 DEF vars, Queued
<1> QED
  BY <1>1, <1>2, <1>3, <1>4, <1>5, <1>6, <1>7, <1>8, <1>9, <1>10, <1>11,
     <1>12, <1>13, <1>14, <1>15, <1>16, <1>17, <1>18, <1>19, <1>20,
     <1>21, <1>22, <1>23, <1>24, <1>25
     DEF Next, AppStep, WorkerStep, Terminated

-----------------------------------------------------------------------------
(* With fconfig.sync set from the start, the queue and the worker stay       *)
(* without a frame, so the window follows the application step by step.      *)
LEMMA SyncStep ==
    ASSUME TypeOK, ControlInv, SyncInv, [Next]_vars
    PROVE  SyncInv'
<1> USE X11PoolAssumption
    DEF TypeOK, ControlInv, SyncInv, AppPcs, WorkerPcs, qvars, config, app,
        worker, pool, flags, display
<1>1. ASSUME NEW spoilLast \in BOOLEAN, Readback(spoilLast) PROVE SyncInv'
  BY <1>1 DEF Readback
<1>2. CASE IsReady
  BY <1>2 DEF IsReady, AppGoes
<1>3. CASE Mode
  BY <1>3 DEF Mode, AppGoes
<1>4. CASE synchronize
  BY <1>4 DEF synchronize, AppGoes
<1>5. CASE getFrame
  BY <1>5 DEF getFrame
<1>6. CASE ReadPixels
  BY <1>6 DEF ReadPixels
<1>7. CASE sendFrame
  BY <1>7 DEF sendFrame, AppGoes
<1>8. CASE RedrawSync
  <2>1. entries = <<>> /\ f = None => UnderWay = {}
    BY DEF UnderWay, InHand, Range
  <2> QED
    BY <1>8, <2>1 DEF RedrawSync, DrawDirect
<1>9. CASE SpoilLock
  BY <1>9 DEF SpoilLock, AppGoes, QLock
<1>10. CASE SpoilTryWait
  BY <1>10 DEF SpoilTryWait, AppGoes, QTake
<1>11. CASE SpoilOldest
  BY <1>11 DEF SpoilOldest, AppGoes, QPop
<1>12. CASE SpoilAdd
  BY <1>12 DEF SpoilAdd, QAppend
<1>13. CASE Release
  BY <1>13 DEF Release, AppGoes, QReleaseMark, QReleasePost
<1>14. CASE Join
  BY <1>14 DEF Join, AppGoes
<1>15. CASE Destroy
  BY <1>15 DEF Destroy, AppGoes
<1>16. CASE Configure
  BY <1>16 DEF Configure
<1>17. CASE Loop
  BY <1>17 DEF Loop
<1>18. CASE GetEnter
  BY <1>18 DEF GetEnter
<1>19. CASE GetWait
  BY <1>19 DEF GetWait, QTake
<1>20. CASE GetPop
  BY <1>20 DEF GetPop, QPop
<1>21. CASE Got
  BY <1>21 DEF Got
<1>22. CASE Redraw
  BY <1>22 DEF Redraw
<1>23. CASE SignalComplete
  BY <1>23 DEF SignalComplete
<1>24. CASE Catch
  BY <1>24 DEF Catch
<1>25. CASE UNCHANGED vars
  BY <1>25 DEF vars
<1> QED
  BY <1>1, <1>2, <1>3, <1>4, <1>5, <1>6, <1>7, <1>8, <1>9, <1>10, <1>11,
     <1>12, <1>13, <1>14, <1>15, <1>16, <1>17, <1>18, <1>19, <1>20,
     <1>21, <1>22, <1>23, <1>24, <1>25
     DEF Next, AppStep, WorkerStep, Terminated

-----------------------------------------------------------------------------
(* Unlinking the oldest entry leaves the others in order and newer.          *)
LEMMA OldestFirst ==
    ASSUME TypeOK, DirectInv, FramesDisjoint, entries # <<>>,
           entries' = Tail(entries), UNCHANGED content
    PROVE  /\ Queued' = Queued \ {Head(entries)} /\ Head(entries) \in Queued
           /\ \A y \in Queued' : content[Head(entries)] < content[y]
           /\ \A i, j \in DOMAIN entries' :
                 i < j => content'[entries'[i]] < content'[entries'[j]]
<1>1. entries \in Seq(Frames)
  BY DEF TypeOK
<1>2. Queued' = Queued \ {Head(entries)} /\ Head(entries) \in Queued
  BY <1>1, TailHoldsRest DEF Queued, FramesDisjoint
<1>3. /\ Head(entries) = entries[1] /\ Len(entries) \in Nat
      /\ DOMAIN entries = 1 .. Len(entries)
      /\ DOMAIN Tail(entries) = 1 .. (Len(entries) - 1)
      /\ \A i \in DOMAIN Tail(entries) :
            i \in DOMAIN entries /\ i + 1 \in DOMAIN entries
            /\ Tail(entries)[i] = entries[i + 1]
  BY <1>1, TailFacts
<1>4. \A i, j \in DOMAIN entries :
         i < j => content[entries[i]] < content[entries[j]]
  BY DEF DirectInv
<1>5. ASSUME NEW y \in Queued' PROVE content[Head(entries)] < content[y]
  <2>1. PICK i \in DOMAIN Tail(entries) : y = Tail(entries)[i]
    BY <1>5 DEF Queued, Range
  <2>2. y = entries[i + 1] /\ i + 1 \in DOMAIN entries /\ 1 \in DOMAIN entries
        /\ 1 < i + 1
    BY <1>3, <2>1
  <2> QED
    BY <1>3, <1>4, <2>2
<1>6. ASSUME NEW i \in DOMAIN entries', NEW j \in DOMAIN entries', i < j
      PROVE  content'[entries'[i]] < content'[entries'[j]]
  <2>1. /\ entries'[i] = entries[i + 1] /\ entries'[j] = entries[j + 1]
        /\ i + 1 \in DOMAIN entries /\ j + 1 \in DOMAIN entries /\ i + 1 < j + 1
    BY <1>3, <1>6
  <2> QED
    BY <1>4, <2>1
<1> QED
  BY <1>2, <1>5, <1>6

(* A frame is offered with a number above all that went before, the queue    *)
(* keeps the order, and what the caller's redraw finds under way is recorded. *)
LEMMA DirectStep ==
    ASSUME TypeOK, ControlInv, FramesDisjoint, DirectInv, [Next]_vars
    PROVE  DirectInv'
<1> USE X11PoolAssumption
    DEF TypeOK, ControlInv, AppPcs, WorkerPcs, qvars, config, app, worker,
        pool, flags, display
<1>quiet. ASSUME UNCHANGED <<content, rendered, behind, window, appFrame,
                             entries>>,
                 InHand' \subseteq InHand, Sending' => Sending
          PROVE  DirectInv'
  <2>1. Queued' = Queued
    BY <1>quiet DEF Queued
  <2> QED
    BY <1>quiet, <2>1 DEF DirectInv
<1>1. ASSUME NEW spoilLast \in BOOLEAN, Readback(spoilLast) PROVE DirectInv'
  BY <1>1, <1>quiet DEF Readback, Sending, InHand
<1>2. CASE IsReady
  BY <1>2, <1>quiet DEF IsReady, AppGoes, Sending, InHand
<1>3. CASE Mode
  BY <1>3, <1>quiet DEF Mode, AppGoes, Sending, InHand
<1>4. CASE synchronize
  BY <1>4, <1>quiet DEF synchronize, AppGoes, Sending, InHand
<1>5. CASE getFrame
  <2>1. /\ UNCHANGED <<content, rendered, behind, window, entries, f, wPc>>
        /\ appPc' \in {"threw", "readPixels"}
    BY <1>5 DEF getFrame
  <2>2. Queued' = Queued /\ InHand' = InHand /\ ~Sending'
    BY <2>1 DEF Queued, InHand, Sending
  <2> QED
    BY <2>1, <2>2 DEF DirectInv
<1>6. CASE ReadPixels
  <2>1. /\ Queued' = Queued /\ InHand' = InHand
        /\ UNCHANGED <<behind, window, appFrame, entries>>
        /\ rendered' = rendered + 1
        /\ appFrame \in Frames /\ content'[appFrame] = rendered'
        /\ \A x \in Frames : x # appFrame => content'[x] = content[x]
    BY <1>6 DEF ReadPixels, Queued, InHand
  <2>2. \A x \in Queued \cup InHand : x \in Frames /\ content'[x] = content[x]
    BY <1>6, <2>1, LenProperties
       DEF ReadPixels, FramesDisjoint, Queued, Range, InHand
  <2>3. \A i \in DOMAIN entries : entries[i] \in Queued
    BY DEF Queued, Range
  <2>4. \A x \in Queued \cup InHand :
           /\ content'[x] > window \/ content'[x] \in behind
           /\ content'[x] < rendered'
    BY <2>1, <2>2 DEF DirectInv
  <2>5. \A x \in InHand, y \in Queued : content'[x] < content'[y]
    BY <2>2 DEF DirectInv
  <2>6. \A i, j \in DOMAIN entries :
           i < j => content'[entries[i]] < content'[entries[j]]
    BY <2>2, <2>3 DEF DirectInv
  <2>7. window < rendered' /\ rendered' \in Nat
    BY <2>1 DEF DirectInv
  <2>8. \A x \in Queued \cup InHand : content'[x] \in Nat
    BY <2>2
  <2> QED
    BY <2>1, <2>4, <2>5, <2>6, <2>7, <2>8 DEF DirectInv
<1>7. CASE sendFrame
  BY <1>7, <1>quiet DEF sendFrame, AppGoes, Sending, InHand
<1>8. CASE RedrawSync
  <2>1. /\ Queued' = Queued /\ InHand' = InHand
        /\ UNCHANGED <<content, rendered, entries>>
    BY <1>8 DEF RedrawSync, Queued, InHand
  <2>2. CASE appPc' = "idle" /\ DrawDirect
    <3>1. \A x \in Queued \cup InHand : content[x] \in behind'
      BY <2>2 DEF DrawDirect, UnderWay, Queued
    <3>2. window' = rendered /\ ~Sending'
      BY <1>8, <2>2 DEF RedrawSync, DirectInv, DrawDirect, Sending
    <3> QED
      BY <2>1, <3>1, <3>2 DEF DirectInv
  <2>3. CASE appPc' = "threw" /\ UNCHANGED <<appFrame, display>>
    BY <2>1, <2>3, <1>quiet DEF Sending
  <2> QED
    BY <1>8, <2>2, <2>3 DEF RedrawSync
<1>9. CASE SpoilLock
  BY <1>9, <1>quiet DEF SpoilLock, AppGoes, QLock, Sending, InHand
<1>10. CASE SpoilTryWait
  BY <1>10, <1>quiet DEF SpoilTryWait, AppGoes, QTake, Sending, InHand
<1>11. CASE SpoilOldest
  <2>1. /\ entries # <<>> /\ entries' = Tail(entries)
        /\ UNCHANGED <<content, rendered, behind, window, appFrame>>
        /\ InHand' = InHand /\ Sending
    BY <1>11 DEF SpoilOldest, AppGoes, QPop, InHand, Sending
  <2> QED
    BY <2>1, OldestFirst DEF DirectInv
<1>12. CASE SpoilAdd
  <2>1. /\ appFrame \in Frames /\ appFrame \notin Queued /\ Sending
        /\ entries' = Append(entries, appFrame) /\ ~Sending'
        /\ UNCHANGED <<content, rendered, behind, window>>
    BY <1>12 DEF SpoilAdd, FramesDisjoint, QAppend, Sending
  <2>2. Queued' = Queued \cup {appFrame} /\ InHand' = InHand
    BY <1>12, <2>1, AppendHoldsAll DEF SpoilAdd, Queued, InHand, FramesDisjoint
  <2>3. content[appFrame] = rendered /\ window < rendered
    BY <2>1 DEF DirectInv
  <2>4. /\ Len(entries) \in Nat /\ DOMAIN entries = 1 .. Len(entries)
        /\ DOMAIN entries' = 1 .. (Len(entries) + 1)
        /\ \A i \in DOMAIN entries : entries'[i] = entries[i]
        /\ entries'[Len(entries) + 1] = appFrame
    BY <2>1, AppendFacts
  <2>5. ASSUME NEW i \in DOMAIN entries', NEW j \in DOMAIN entries', i < j
        PROVE  content[entries'[i]] < content[entries'[j]]
    <3>1. i \in DOMAIN entries /\ entries'[i] = entries[i] /\ entries[i] \in Queued
      BY <2>4, <2>5 DEF Queued, Range
    <3>2. CASE j \in DOMAIN entries
      BY <2>4, <2>5, <3>1, <3>2 DEF DirectInv
    <3>3. CASE j = Len(entries) + 1
      BY <2>1, <2>3, <2>4, <3>1, <3>3 DEF DirectInv
    <3> QED
      BY <2>4, <3>2, <3>3
  <2>6. \A x \in InHand, y \in Queued' : content[x] < content[y]
    BY <2>1, <2>2, <2>3 DEF DirectInv
  <2> QED
    BY <2>1, <2>2, <2>3, <2>5, <2>6 DEF DirectInv
<1>13. CASE Release
  BY <1>13, <1>quiet
     DEF Release, AppGoes, QReleaseMark, QReleasePost, Sending, InHand
<1>14. CASE Join
  BY <1>14, <1>quiet DEF Join, AppGoes, Sending, InHand
<1>15. CASE Destroy
  BY <1>15, <1>quiet DEF Destroy, AppGoes, Sending, InHand
<1>16. CASE Configure
  BY <1>16, <1>quiet DEF Configure, Sending, InHand
<1>17. CASE Loop
  BY <1>17, <1>quiet DEF Loop, Sending, InHand
<1>18. CASE GetEnter
  BY <1>18, <1>quiet DEF GetEnter, Sending, InHand
<1>19. CASE GetWait
  BY <1>19, <1>quiet DEF GetWait, QTake, Sending, InHand
<1>20. CASE GetPop
  <2>1. CASE qDead /\ UNCHANGED <<qvars, f>>
    BY <1>20, <2>1, <1>quiet DEF GetPop, Sending, InHand
  <2>2. CASE QPop("worker") /\ f' = Head(entries)
    <3>1. /\ entries # <<>> /\ entries' = Tail(entries)
          /\ UNCHANGED <<content, rendered, behind, window, appFrame, appPc>>
      BY <1>20, <2>2 DEF GetPop, QPop
    <3>2. InHand' \subseteq {Head(entries)}
      BY <2>2 DEF InHand
    <3>3. Sending' = Sending
      BY <3>1 DEF Sending
    <3> QED
      BY <3>1, <3>2, <3>3, OldestFirst DEF DirectInv
  <2> QED
    BY <1>20, <2>1, <2>2 DEF GetPop
<1>21. CASE Got
  BY <1>21, <1>quiet DEF Got, Sending, InHand
<1>22. CASE Redraw
  <2>1. /\ UNCHANGED <<content, rendered, behind, appFrame, appPc, entries>>
        /\ InHand' = {} /\ InHand = {f}
    BY <1>22 DEF Redraw, InHand
  <2>2. Queued' = Queued /\ Sending' = Sending
    BY <2>1 DEF Queued, Sending
  <2>3. CASE window' = window
    BY <2>1, <2>3, <1>quiet, <2>2
  <2>4. CASE window' = content[f]
    BY <2>1, <2>2, <2>4 DEF DirectInv
  <2> QED
    BY <1>22, <2>3, <2>4 DEF Redraw
<1>23. CASE SignalComplete
  BY <1>23, <1>quiet DEF SignalComplete, Sending, InHand
<1>24. CASE Catch
  BY <1>24, <1>quiet DEF Catch, Sending, InHand
<1>25. CASE UNCHANGED vars
  BY <1>25, <1>quiet DEF vars, Sending, InHand
<1> QED
  BY <1>1, <1>2, <1>3, <1>4, <1>5, <1>6, <1>7, <1>8, <1>9, <1>10, <1>11,
     <1>12, <1>13, <1>14, <1>15, <1>16, <1>17, <1>18, <1>19, <1>20,
     <1>21, <1>22, <1>23, <1>24, <1>25
     DEF Next, AppStep, WorkerStep, Terminated

-----------------------------------------------------------------------------
(* The inductive invariant holds in every behaviour.                         *)
THEOREM Invariance == Spec => []IndInv
<1>1. Init => TokenInv /\ FramesDisjoint /\ SyncInv /\ DirectInv
  <2> SUFFICES ASSUME Init
               PROVE TokenInv /\ FramesDisjoint /\ SyncInv /\ DirectInv
    OBVIOUS
  <2>1. entries = <<>> /\ Len(entries) = 0 /\ DOMAIN entries = {}
    BY DEF Init, QInit
  <2>2. Queued = {} /\ IsInjective(entries)
    BY <2>1 DEF Queued, Range, IsInjective
  <2>3. TokenInv
    BY <2>1 DEF Init, QInit, TokenInv, Claims
  <2>4. FramesDisjoint
    BY <2>2, X11PoolAssumption DEF Init, FramesDisjoint
  <2>5. SyncInv
    BY <2>1 DEF Init, SyncInv
  <2>6. DirectInv
    BY <2>1, <2>2 DEF Init, DirectInv, InHand, Sending
  <2> QED
    BY <2>3, <2>4, <2>5, <2>6
<1>2. (TypeOK /\ ControlInv /\ TokenInv /\ FramesDisjoint /\ SyncInv
       /\ DirectInv /\ [Next]_vars)
        => TokenInv' /\ FramesDisjoint' /\ SyncInv' /\ DirectInv'
  BY TokenStep, OwnershipStep, SyncStep, DirectStep
<1> QED
  BY <1>1, <1>2, TypeCorrect, PTL DEF Spec, IndInv

-----------------------------------------------------------------------------
(* When getFrame() runs, the application holds nothing; the worker's frame   *)
(* and one entry, or two entries of which it has claimed the older, are all  *)
(* that is not free.                                                         *)
LEMMA PoolNotHeld ==
    ASSUME IndInv, appPc = "getFrame"
    PROVE  \E x \in Frames : complete[x]
<1> USE X11PoolAssumption DEF IndInv, TypeOK, ControlInv
<1> SUFFICES ASSUME \A x \in Frames : ~complete[x] PROVE FALSE
  OBVIOUS
<1>1. Len(entries) \in Nat /\ DOMAIN entries = 1 .. Len(entries)
  BY LenProperties
<1>2. Len(entries) <= 2 /\ (Len(entries) = 2 => f = None)
  BY DEF TokenInv
<1>3. \A x \in Frames : x = f \/ x \in Queued
  BY DEF FramesDisjoint
<1>4. \A x \in Queued : \/ x = entries[1] /\ Len(entries) >= 1
                        \/ x = entries[2] /\ Len(entries) = 2
  BY <1>2, TwoAtMost DEF Queued
<1>5. PICK a, b : Frames \subseteq {a, b}
  <2>1. CASE Len(entries) = 2
    <3>1. Frames \subseteq {entries[1], entries[2]}
      BY <1>2, <1>3, <1>4, <2>1
    <3> QED
      BY <3>1
  <2>2. CASE Len(entries) # 2
    <3>1. Frames \subseteq {f, entries[1]}
      BY <1>3, <1>4, <2>2
    <3> QED
      BY <3>1
  <2> QED
    BY <2>1, <2>2
<1>6. IsFiniteSet({a, b}) /\ Cardinality({a, b}) <= 2
  BY TwoNamed
<1>7. Cardinality(Frames) <= Cardinality({a, b})
  BY <1>5, <1>6, FS_Subset
<1>8. Cardinality(Frames) \in Nat /\ Cardinality({a, b}) \in Nat
  BY <1>6, FS_CardinalityType
<1> QED
  BY <1>6, <1>7, <1>8

(* getFrame() never throws "No free buffers in pool": three buffers are      *)
(* enough for the application, the queue and the worker, in both modes.      *)
THEOREM PoolSuffices == Spec => []PoolNeverExhausted
<1>1. IndInv => PoolNeverExhausted
  BY PoolNotHeld DEF PoolNeverExhausted
<1> QED
  BY <1>1, Invariance, PTL

(* No buffer is drawn into while it is queued or being drawn, and none is    *)
(* queued twice.                                                             *)
THEOREM NoFrameShared == Spec => []FramesDisjoint
<1>1. IndInv => FramesDisjoint
  BY DEF IndInv
<1> QED
  BY <1>1, Invariance, PTL

(* GenericQ::get() never throws "Nothing in the queue", whether it is called *)
(* by the worker or by spoil().                                              *)
THEOREM QueueNeverEmpty == Spec => []EntryForToken
<1>1. IndInv => EntryForToken
  BY EmptySeq DEF IndInv, TypeOK, ControlInv, TokenInv, Claims, EntryForToken
<1> QED
  BY <1>1, Invariance, PTL

(* Whatever fconfig.sync does: the worker draws frames newer than what the   *)
(* window shows, and besides these at most what it had in hand or in its     *)
(* queue when the caller last drew a frame itself; nothing at all, and the   *)
(* window shows the last frame when readback() returns, if sync stays set.   *)
THEOREM SyncIsFinal == Spec => []SyncFrameStays
<1>1. IndInv => SyncFrameStays
  <2> SUFFICES ASSUME IndInv PROVE SyncFrameStays
    OBVIOUS
  <2>1. \A n \in UnderWay : n > window \/ n \in behind
    BY DEF IndInv, DirectInv, UnderWay, Queued
  <2> QED
    BY <2>1 DEF IndInv, DirectInv, SyncInv, SyncFrameStays
<1> QED
  BY <1>1, Invariance, PTL

-----------------------------------------------------------------------------
(* The transport takes the steps of FrameChannel                             *)

(* Frames queued that the worker has not yet signalled `ready' for.          *)
Owed == Len(entries) + (IF wPc = "got" /\ f # None THEN 1 ELSE 0)

(* The application has waited for the frame it is about to add.              *)
Waited == \/ appPc \in {"readPixels", "sendFrame", "lock", "tryWait", "add"}
          \/ appPc = "getFrame" /\ ~lastError

(* The buffer offered holds the frame rendered last; where fconfig.sync      *)
(* stays as it is, a readback() made with it set is made while it is set.    *)
OfferInv ==
    /\ spoil \in SpoilModes
    /\ wPc = "wake" => lastError
    /\ appPc \in {"sendFrame", "redraw", "lock", "tryWait", "spoil", "add"}
          => content[appFrame] = rendered
    /\ appPc = "redraw" => syncArg
    /\ appPc \in {"lock", "tryWait", "spoil", "add"} => ~syncArg
    /\ ~switching /\ syncArg => sync

(* Where spoiling is never on, each signal of `ready' pays for one frame, so *)
(* the queue finds nothing to spoil.                                         *)
PaidInv ==
    ~switching /\ TRUE \notin SpoilModes =>
        /\ appPc # "spoil" /\ Owed <= 1
        /\ ready /\ ~lastError => Owed = 0
        /\ Waited => Owed = 0 /\ (ready => lastError)

(* Each signal pays for one frame, whoever gives it.                         *)
LEMMA PaidStep ==
    ASSUME IndInv, OfferInv, PaidInv, [Next]_vars
    PROVE  PaidInv'
<1>len. Len(entries) \in Nat
  BY LenProperties DEF IndInv, TypeOK
<1> USE X11PoolAssumption, <1>len
    DEF IndInv, TypeOK, ControlInv, TokenInv, Claims, SyncInv, OfferInv,
        PaidInv, Owed, Waited, AppPcs, WorkerPcs, qvars, config, app, worker,
        pool, flags
<1>1. ASSUME NEW spoilLast \in BOOLEAN, Readback(spoilLast) PROVE PaidInv'
  BY <1>1 DEF Readback
<1>2. CASE IsReady
  BY <1>2 DEF IsReady, AppGoes
<1>3. CASE Mode
  BY <1>3 DEF Mode, AppGoes
<1>4. CASE synchronize
  BY <1>4 DEF synchronize, AppGoes
<1>5. CASE getFrame
  BY <1>5 DEF getFrame
<1>6. CASE ReadPixels
  <2>1. content'[appFrame] = rendered'
    BY <1>6 DEF ReadPixels
  <2> QED
    BY <1>6, <2>1 DEF ReadPixels
<1>7. CASE sendFrame
  BY <1>7 DEF sendFrame, AppGoes
<1>8. CASE RedrawSync
  <2>1. syncArg /\ (~switching => Owed = 0)
    BY <1>8, EmptySeq DEF RedrawSync
  <2>2. CASE appPc' = "idle" /\ ready'
    BY <1>8, <2>1, <2>2 DEF RedrawSync
  <2>3. CASE appPc' = "threw" /\ UNCHANGED ready
    BY <1>8, <2>1, <2>3 DEF RedrawSync
  <2> QED
    BY <1>8, <2>2, <2>3 DEF RedrawSync
<1>9. CASE SpoilLock
  BY <1>9 DEF SpoilLock, AppGoes, QLock
<1>10. CASE SpoilTryWait
  <2>1. CASE hasItem > 0
    <3>1. ASSUME ~switching, TRUE \notin SpoilModes PROVE FALSE
      <4>1. appPc = "tryWait" /\ ~qDead
        BY <1>10 DEF SpoilTryWait, AppGoes
      <4>2. Waited /\ Owed = 0
        BY <3>1, <4>1
      <4>3. Len(entries) = 0
        BY <4>2
      <4>4. Len(entries) = hasItem + Claims /\ Claims \in Nat
        BY <4>1
      <4> HIDE DEF Claims
      <4> QED
        BY <2>1, <4>3, <4>4
    <3> QED
      BY <1>10, <2>1, <3>1 DEF SpoilTryWait, AppGoes, QTake
  <2>2. CASE ~(hasItem > 0)
    BY <1>10, <2>2 DEF SpoilTryWait, AppGoes
  <2> QED
    BY <2>1, <2>2
<1>11. CASE SpoilOldest
  <2>1. /\ Len(entries') = Len(entries) - 1 /\ Len(entries') \in Nat
    BY <1>11, TailFacts DEF SpoilOldest, QPop
  <2> QED
    BY <1>11, <2>1 DEF SpoilOldest, AppGoes, QPop
<1>12. CASE SpoilAdd
  <2>1. appFrame \in Frames
    BY <1>12 DEF SpoilAdd
  <2>2. Len(entries') = Len(entries) + 1
    BY <1>12, <2>1, AppendFacts DEF SpoilAdd, QAppend
  <2>3. /\ appPc = "add" /\ appPc' = "idle"
        /\ UNCHANGED <<config, syncArg, rendered, f, wPc, content, ready, lastError>>
    BY <1>12 DEF SpoilAdd
  <2>4. Owed' = Owed + 1
    BY <2>2, <2>3
  <2> HIDE DEF Owed
  <2>5. ~switching /\ TRUE \notin SpoilModes => Owed = 0 /\ (ready => lastError)
    BY <2>3
  <2>6. Owed = 0 => Owed' = 1
    BY <2>4
  <2> QED
    BY <2>3, <2>5, <2>6
<1>13. CASE Release
  BY <1>13 DEF Release, AppGoes, QReleaseMark, QReleasePost
<1>14. CASE Join
  BY <1>14 DEF Join, AppGoes
<1>15. CASE Destroy
  <2>1. /\ appPc' = "release" /\ UNCHANGED <<qvars, config, f, wPc, content>>
        /\ UNCHANGED <<appFrame, rendered, ready, lastError, syncArg>>
    BY <1>15 DEF Destroy, AppGoes
  <2> QED
    BY <2>1
<1>16. CASE Configure
  BY <1>16 DEF Configure
<1>17. CASE Loop
  BY <1>17 DEF Loop
<1>18. CASE GetEnter
  BY <1>18 DEF GetEnter
<1>19. CASE GetWait
  BY <1>19 DEF GetWait, QTake
<1>20. CASE GetPop
  <2>1. CASE qDead /\ UNCHANGED <<qvars, f>>
    BY <1>20, <2>1 DEF GetPop
  <2>2. CASE QPop("worker") /\ f' = Head(entries)
    <3>1. Len(entries') = Len(entries) - 1 /\ f' \in Frames
      BY <2>2, TailFacts DEF QPop
    <3>2. /\ wPc = "pop" /\ wPc' = "got"
          /\ UNCHANGED <<config, app, content, flags>>
      BY <1>20, <2>2 DEF GetPop, QPop
    <3>3. Owed' = Owed
      BY <3>1, <3>2
    <3> HIDE DEF Owed
    <3> QED
      BY <3>2, <3>3
  <2> QED
    BY <1>20, <2>1, <2>2 DEF GetPop
<1>21. CASE Got
  <2>0. /\ wPc = "got" /\ wPc' \in {"exited", "redraw"}
        /\ UNCHANGED <<qvars, config, app, f, pool, deadYet, lastError>>
    BY <1>21 DEF Got
  <2>1. CASE wPc' = "exited" /\ UNCHANGED ready
    <3>1. Owed' <= Owed /\ Owed \in Nat /\ Owed' \in Nat
      BY <2>0
    <3> HIDE DEF Owed
    <3>2. Owed = 0 => Owed' = 0
      BY <3>1
    <3>3. Owed <= 1 => Owed' <= 1
      BY <3>1
    <3> QED
      BY <2>0, <2>1, <3>2, <3>3
  <2>2. CASE f # None /\ ready' = TRUE /\ wPc' = "redraw"
    <3>1. Owed' = Owed - 1 /\ Owed \in Nat \ {0}
      BY <2>0, <2>2
    <3> HIDE DEF Owed
    <3>2. Owed # 0 /\ (Owed <= 1 => Owed' = 0)
      BY <3>1
    <3>3. ~switching /\ TRUE \notin SpoilModes => Owed' = 0 /\ ~Waited
      BY <3>2
    <3>4. Waited' = Waited
      BY <2>0
    <3> HIDE DEF Waited
    <3> QED
      BY <2>0, <2>2, <3>3, <3>4
  <2> QED
    BY <1>21, <2>1, <2>2 DEF Got
<1>22. CASE Redraw
  BY <1>22 DEF Redraw
<1>23. CASE SignalComplete
  BY <1>23 DEF SignalComplete
<1>24. CASE Catch
  <2>1. CASE wPc = "failed"
    BY <1>24, <2>1 DEF Catch
  <2>2. CASE wPc = "wake"
    BY <1>24, <2>2 DEF Catch
  <2> QED
    BY <1>24, <2>1, <2>2 DEF Catch
<1>25. CASE UNCHANGED vars
  BY <1>25 DEF vars
<1> QED
  BY <1>1, <1>2, <1>3, <1>4, <1>5, <1>6, <1>7, <1>8, <1>9, <1>10, <1>11,
     <1>12, <1>13, <1>14, <1>15, <1>16, <1>17, <1>18, <1>19, <1>20,
     <1>21, <1>22, <1>23, <1>24, <1>25
     DEF Next, AppStep, WorkerStep, Terminated

(* What readback() was asked for, and the frame it offers, stay as they are. *)
LEMMA OfferStep ==
    ASSUME IndInv, OfferInv, [Next]_vars
    PROVE  OfferInv'
<1> USE X11PoolAssumption
    DEF IndInv, TypeOK, ControlInv, SyncInv, OfferInv, AppPcs, WorkerPcs,
        qvars, config, app, worker, pool, flags, display
<1>1. ASSUME NEW spoilLast \in BOOLEAN, Readback(spoilLast) PROVE OfferInv'
  BY <1>1 DEF Readback
<1>2. CASE IsReady
  BY <1>2 DEF IsReady, AppGoes
<1>3. CASE Mode
  BY <1>3 DEF Mode, AppGoes
<1>4. CASE synchronize
  BY <1>4 DEF synchronize, AppGoes
<1>5. CASE getFrame
  BY <1>5 DEF getFrame
<1>6. CASE ReadPixels
  <2>1. content'[appFrame] = rendered'
    BY <1>6 DEF ReadPixels
  <2> QED
    BY <1>6, <2>1 DEF ReadPixels
<1>7. CASE sendFrame
  BY <1>7 DEF sendFrame, AppGoes
<1>8. CASE RedrawSync
  BY <1>8 DEF RedrawSync
<1>9. CASE SpoilLock
  BY <1>9 DEF SpoilLock, AppGoes, QLock
<1>10. CASE SpoilTryWait
  BY <1>10 DEF SpoilTryWait, AppGoes, QTake
<1>11. CASE SpoilOldest
  BY <1>11 DEF SpoilOldest, AppGoes, QPop
<1>12. CASE SpoilAdd
  BY <1>12 DEF SpoilAdd, QAppend
<1>13. CASE Release
  BY <1>13 DEF Release, AppGoes, QReleaseMark, QReleasePost
<1>14. CASE Join
  BY <1>14 DEF Join, AppGoes
<1>15. CASE Destroy
  BY <1>15 DEF Destroy, AppGoes
<1>16. CASE Configure
  BY <1>16 DEF Configure
<1>17. CASE Loop
  BY <1>17 DEF Loop
<1>18. CASE GetEnter
  BY <1>18 DEF GetEnter
<1>19. CASE GetWait
  BY <1>19 DEF GetWait, QTake
<1>20. CASE GetPop
  BY <1>20 DEF GetPop, QPop
<1>21. CASE Got
  BY <1>21 DEF Got
<1>22. CASE Redraw
  BY <1>22 DEF Redraw
<1>23. CASE SignalComplete
  BY <1>23 DEF SignalComplete
<1>24. CASE Catch
  BY <1>24 DEF Catch
<1>25. CASE UNCHANGED vars
  BY <1>25 DEF vars
<1> QED
  BY <1>1, <1>2, <1>3, <1>4, <1>5, <1>6, <1>7, <1>8, <1>9, <1>10, <1>11,
     <1>12, <1>13, <1>14, <1>15, <1>16, <1>17, <1>18, <1>19, <1>20,
     <1>21, <1>22, <1>23, <1>24, <1>25
     DEF Next, AppStep, WorkerStep, Terminated

(* What the mapping makes of the state, as long as fconfig.sync stays as it  *)
(* is; Channel's variables are these.                                        *)
inFlight == IF f # None /\ wPc \in {"got", "redraw"} THEN <<content[f]>>
            ELSE <<>>
Waiting == inFlight \o Mapped(content, entries)
Pending == Waiting \o (IF Direct THEN <<content[appFrame]>> ELSE <<>>)
Offering == appFrame # None /\ appPc # "readPixels" /\ ~Direct
Open == /\ wPc \notin {"failed", "wake"} /\ ~lastError
        /\ ~deadYet /\ appPc # "threw"

(* A step that leaves what the mapping reads leaves the channel alone.       *)
LEMMA ChannelVariables ==
    ASSUME ~switching, UNCHANGED <<switching, rendered, window>>,
           Offering' = Offering, Pending' = Pending, Open' = Open
    PROVE  UNCHANGED Channel!cvars
BY DEF Channel!cvars, Steady, Offering, Pending, Waiting, inFlight, Open, Mapped

(* The numbers of the queued frames, when the oldest is taken and when a     *)
(* frame is added                                                            *)
LEMMA ListNumbers ==
    ASSUME content \in [Frames -> Nat], entries \in Seq(Frames)
    PROVE  /\ Mapped(content, entries) \in Seq(Nat)
           /\ Len(Mapped(content, entries)) = Len(entries)
           /\ entries # <<>> =>
                 /\ Mapped(content, entries) # <<>>
                 /\ Head(Mapped(content, entries)) = content[Head(entries)]
                 /\ Mapped(content, Tail(entries)) = Tail(Mapped(content, entries))
           /\ \A x \in Frames : Mapped(content, Append(entries, x))
                                  = Append(Mapped(content, entries), content[x])
<1>1. content \in Numbering(Frames)
  BY DEF Numbering
<1>2. /\ Mapped(content, entries) \in Seq(Nat)
      /\ Len(Mapped(content, entries)) = Len(entries)
  BY <1>1, MappedType
<1>3. ASSUME entries # <<>>
      PROVE  /\ Mapped(content, entries) # <<>>
             /\ Head(Mapped(content, entries)) = content[Head(entries)]
             /\ Mapped(content, Tail(entries)) = Tail(Mapped(content, entries))
  BY <1>1, <1>3, MappedTail
<1>4. ASSUME NEW x \in Frames
      PROVE  Mapped(content, Append(entries, x))
                = Append(Mapped(content, entries), content[x])
  BY <1>1, MappedAppend
<1> QED
  BY <1>2, <1>3, <1>4

(* What is under way is a sequence of frame numbers, by where the actors are. *)
LEMMA PendingType ==
    ASSUME IndInv, OfferInv, ~switching
    PROVE  /\ Mapped(content, entries) \in Seq(Nat) /\ Pending \in Seq(Nat)
           /\ Len(Mapped(content, entries)) = Len(entries)
           /\ Direct => /\ inFlight = <<>> /\ entries = <<>> /\ f = None
                        /\ content[appFrame] \in Nat
                        /\ Pending = <<content[appFrame]>>
           /\ ~Direct => Pending = Waiting
           /\ inFlight = <<>> => Waiting = Mapped(content, entries)
           /\ inFlight # <<>> =>
                 /\ content[f] \in Nat /\ f # None /\ ~Direct
                 /\ inFlight = <<content[f]>> /\ Pending # <<>>
                 /\ Pending = <<content[f]>> \o Mapped(content, entries)
                 /\ Len(Pending) = Len(entries) + 1
                 /\ Head(Pending) = content[f]
                 /\ Tail(Pending) = Mapped(content, entries)
<1>1. /\ Mapped(content, entries) \in Seq(Nat)
      /\ Len(Mapped(content, entries)) = Len(entries)
  BY ListNumbers DEF IndInv, TypeOK
<1>2. CASE Direct
  <2>1. entries = <<>> /\ f = None /\ content[appFrame] \in Nat
    BY <1>2 DEF IndInv, TypeOK, SyncInv, OfferInv, Direct
  <2>2. Mapped(content, entries) = <<>> /\ inFlight = <<>>
    BY <2>1 DEF Mapped, inFlight
  <2>3. Waiting = <<>>
    BY <2>2, EmptySeq, ConcatEmptySeq DEF Waiting
  <2>4. Pending = <<content[appFrame]>> /\ Pending \in Seq(Nat)
    <3>1. <<content[appFrame]>> \in Seq(Nat)
      BY <2>1
    <3> QED
      BY <1>2, <2>3, <3>1, ConcatEmptySeq DEF Pending
  <2> QED
    BY <1>1, <1>2, <2>1, <2>2, <2>3, <2>4
<1>3. CASE ~Direct
  <2>1. CASE inFlight = <<>>
    <3>1. Waiting = Mapped(content, entries)
      BY <1>1, <2>1, ConcatEmptySeq DEF Waiting
    <3>2. Pending = Waiting
      BY <1>1, <1>3, <3>1, ConcatEmptySeq DEF Pending
    <3> QED
      BY <1>1, <1>3, <2>1, <3>1, <3>2
  <2>2. CASE inFlight # <<>>
    <3>1. f # None /\ inFlight = <<content[f]>>
      BY <2>2 DEF inFlight
    <3>2. content[f] \in Nat
      BY <3>1 DEF IndInv, TypeOK
    <3>3. /\ Waiting = <<content[f]>> \o Mapped(content, entries)
          /\ Waiting \in Seq(Nat) /\ Waiting # <<>>
          /\ Len(Waiting) = Len(entries) + 1
          /\ Head(Waiting) = content[f]
          /\ Tail(Waiting) = Mapped(content, entries)
      BY <1>1, <3>1, <3>2, Prefixed DEF Waiting
    <3>4. Pending = Waiting
      BY <1>3, <3>3, ConcatEmptySeq DEF Pending
    <3> QED
      BY <1>1, <1>3, <2>2, <3>1, <3>2, <3>3, <3>4
  <2> QED
    BY <2>1, <2>2
<1> QED
  BY <1>2, <1>3

(* Every step of the two threads is a step of the channel or none: a         *)
(* synchronous frame is published by sendFrame() and delivered by the        *)
(* application's own redraw.                                                 *)
LEMMA ChannelStep ==
    ASSUME IndInv, OfferInv, PaidInv, [Next]_vars
    PROVE  Channel!ChannelNext \/ UNCHANGED Channel!cvars
<1> USE X11PoolAssumption
    DEF IndInv, TypeOK, ControlInv, AppPcs, WorkerPcs, qvars, config, app,
        worker, pool, flags, display
<1>same. UNCHANGED switching
  BY DEF Next, AppStep, WorkerStep, Terminated, vars, Readback, IsReady,
     AppGoes, Mode, synchronize, getFrame, ReadPixels, sendFrame, RedrawSync,
     SpoilLock, SpoilTryWait, SpoilOldest, SpoilAdd, Release, Join, Destroy,
     Configure, Loop, GetEnter, GetWait, GetPop, Got, Redraw, SignalComplete,
     Catch
<1>switching. CASE switching
  BY <1>same, <1>switching DEF Channel!cvars, Steady
<1>steady. CASE ~switching
  <2> USE <1>same, <1>steady
  <2>pending.
        /\ Mapped(content, entries) \in Seq(Nat) /\ Pending \in Seq(Nat)
        /\ Len(Mapped(content, entries)) = Len(entries)
        /\ Direct => /\ inFlight = <<>> /\ entries = <<>> /\ f = None
                     /\ content[appFrame] \in Nat
                     /\ Pending = <<content[appFrame]>>
        /\ ~Direct => Pending = Waiting
        /\ inFlight = <<>> => Waiting = Mapped(content, entries)
        /\ inFlight # <<>> =>
              /\ content[f] \in Nat /\ f # None /\ ~Direct
              /\ inFlight = <<content[f]>> /\ Pending # <<>>
              /\ Pending = <<content[f]>> \o Mapped(content, entries)
              /\ Len(Pending) = Len(entries) + 1
              /\ Head(Pending) = content[f]
              /\ Tail(Pending) = Mapped(content, entries)
    BY PendingType
  <2>list. /\ entries # <<>> =>
                 /\ Mapped(content, entries) # <<>>
                 /\ Head(Mapped(content, entries)) = content[Head(entries)]
                 /\ Mapped(content, Tail(entries)) = Tail(Mapped(content, entries))
           /\ \A x \in Frames : Mapped(content, Append(entries, x))
                                  = Append(Mapped(content, entries), content[x])
    BY ListNumbers
  <2>len. Len(entries) \in Nat /\ DOMAIN entries = 1 .. Len(entries)
    BY LenProperties
  <2>quiet. ASSUME UNCHANGED <<rendered, window, content, entries, appFrame>>,
                   Direct' = Direct, inFlight' = inFlight,
                   Offering' = Offering, Open' = Open
            PROVE  UNCHANGED Channel!cvars
    <3>1. Pending' = Pending
      BY <2>quiet DEF Pending, Waiting, Mapped
    <3> QED
      BY <2>quiet, <3>1, ChannelVariables
  <2>close. ASSUME UNCHANGED <<rendered, window>>, Offering' = Offering, ~Open',
                   \/ Pending' = Pending
                   \/ Pending # <<>> /\ Pending' = Tail(Pending)
            PROVE  Channel!Close
    <3>1. Len(Pending) \in Nat
      BY <2>pending, LenProperties
    <3>2. CASE Pending' = Pending
      <4>1. Pending' = SubSeq(Pending, 0 + 1, Len(Pending))
            /\ 0 \in 0 .. Len(Pending)
        BY <2>pending, <3>1, <3>2, SubSeqFull
      <4> QED
        BY <2>close, <4>1 DEF Channel!Close, Steady, Offering, Pending, Waiting,
           inFlight, Open, Mapped
    <3>3. CASE Pending # <<>> /\ Pending' = Tail(Pending)
      <4>1. Pending' = SubSeq(Pending, 1 + 1, Len(Pending))
            /\ 1 \in 0 .. Len(Pending)
        BY <2>pending, <3>1, <3>3, TailIsSubSeq, EmptySeq
      <4> QED
        BY <2>close, <4>1 DEF Channel!Close, Steady, Offering, Pending, Waiting,
           inFlight, Open, Mapped
    <3> QED
      BY <2>close, <3>2, <3>3
  <2>lost. ASSUME UNCHANGED <<rendered, window, content, entries, appFrame>>,
                  Direct' = Direct, inFlight' = <<>>,
                  Offering' = Offering, ~Open'
           PROVE  Channel!Close
    <3>1. Mapped(content, entries)' = Mapped(content, entries)
      BY <2>lost DEF Mapped
    <3>2. CASE inFlight = <<>>
      <4>1. Pending' = Pending
        BY <2>lost, <3>1, <3>2 DEF Pending, Waiting
      <4> QED
        BY <2>lost, <4>1, <2>close
    <3>3. CASE inFlight # <<>>
      <4>1. Waiting' = Mapped(content, entries)
        BY <2>lost, <2>pending, <3>1, ConcatEmptySeq DEF Waiting
      <4>2. Pending' = Mapped(content, entries)
        BY <2>lost, <2>pending, <3>3, <4>1, ConcatEmptySeq DEF Pending
      <4> QED
        BY <2>lost, <2>pending, <3>3, <4>2, <2>close
    <3> QED
      BY <3>2, <3>3
  <2>1. ASSUME NEW spoilLast \in BOOLEAN, Readback(spoilLast)
        PROVE  Channel!ChannelNext \/ UNCHANGED Channel!cvars
    BY <2>1, <2>quiet DEF Readback, Offering, Open, inFlight, Direct
  <2>2. CASE IsReady
    BY <2>2, <2>quiet DEF IsReady, AppGoes, Offering, Open, inFlight, Direct
  <2>3. CASE Mode
    BY <2>3, <2>quiet DEF Mode, AppGoes, Offering, Open, inFlight, Direct
  <2>4. CASE synchronize
    BY <2>4, <2>quiet DEF synchronize, AppGoes, Offering, Open, inFlight, Direct
  <2>5. CASE getFrame
    <3>1. /\ appPc = "getFrame" /\ appFrame = None /\ ~Direct /\ Offering = FALSE
          /\ UNCHANGED <<rendered, window, content, entries, f, wPc, syncArg>>
          /\ UNCHANGED <<lastError, deadYet>>
      BY <2>5 DEF getFrame, Direct, Offering
    <3>2. CASE lastError /\ appPc' = "threw" /\ UNCHANGED appFrame
      <4>1. /\ Offering' = Offering /\ Direct' = Direct /\ Open' = Open
            /\ inFlight' = inFlight
        BY <3>1, <3>2 DEF Direct, Offering, Open, inFlight
      <4> QED
        BY <3>1, <3>2, <4>1, <2>quiet
    <3>3. CASE appPc' = "readPixels"
      <4>1. /\ Offering' = FALSE /\ ~Direct' /\ Open' = Open
            /\ inFlight' = inFlight
        BY <3>1, <3>3 DEF Direct, Offering, Open, inFlight
      <4>2. Pending' = Pending
        BY <3>1, <4>1 DEF Pending, Waiting, Mapped
      <4>3. Offering' = Offering
        BY <3>1, <4>1
      <4> QED
        BY <3>1, <4>1, <4>2, <4>3, ChannelVariables
    <3> QED
      BY <2>5, <3>2, <3>3 DEF getFrame
  <2>6. CASE ReadPixels
    <3>1. /\ rendered' = rendered + 1 /\ Open' = Open
          /\ ~Offering /\ Offering' /\ ~Direct /\ ~Direct'
          /\ content' = [content EXCEPT ![appFrame] = rendered + 1]
          /\ UNCHANGED <<entries, f, wPc, window>>
      BY <2>6 DEF ReadPixels, Offering, Open, Direct
    <3>2. appFrame \in Frames /\ appFrame # f
          /\ \A i \in DOMAIN entries : entries[i] # appFrame
      BY <2>6 DEF ReadPixels, Queued, Range, FramesDisjoint
    <3>3. \A i \in DOMAIN entries : entries[i] \in Frames
      BY <2>len
    <3>4. Mapped(content, entries)' = Mapped(content, entries)
      BY <3>1, <3>2, <3>3 DEF Mapped
    <3>5. inFlight' = inFlight
      BY <3>1, <3>2 DEF inFlight
    <3>6. Pending' = Pending
      BY <3>1, <3>4, <3>5 DEF Pending, Waiting
    <3>7. Channel!Offer
      BY <3>1, <3>6
         DEF Channel!Offer, Steady, Offering, Pending, Waiting, inFlight, Open,
             Mapped
    <3> QED
      BY <3>7 DEF Channel!ChannelNext
  <2>7. CASE sendFrame
    <3>1. /\ appPc = "sendFrame" /\ ~Direct /\ Offering
          /\ appFrame \in Frames /\ content[appFrame] = rendered
          /\ UNCHANGED <<rendered, window, content, entries, f, wPc, appFrame>>
          /\ UNCHANGED <<syncArg, lastError, deadYet, switching>>
          /\ Open' = Open /\ inFlight' = inFlight
      BY <2>7 DEF sendFrame, AppGoes, Direct, Offering, Open, inFlight, OfferInv
    <3>2. CASE ~syncArg
      <4>1. Direct' = Direct /\ Offering' = Offering
        BY <2>7, <3>1, <3>2 DEF sendFrame, AppGoes, Direct, Offering
      <4> QED
        BY <3>1, <4>1, <2>quiet
    <3>3. CASE syncArg
      <4>1. Direct' /\ ~Offering'
        BY <2>7, <3>1, <3>3 DEF sendFrame, AppGoes, Direct, Offering
      <4>2. entries = <<>> /\ inFlight = <<>>
        BY <3>3 DEF OfferInv, SyncInv, inFlight
      <4>3. Mapped(content, entries) = <<>> /\ Mapped(content, entries)' = <<>>
        BY <3>1, <4>2 DEF Mapped
      <4>4. Waiting = <<>> /\ Waiting' = <<>>
        BY <3>1, <4>2, <4>3, EmptySeq, ConcatEmptySeq DEF Waiting
      <4>5. <<rendered>> \in Seq(Nat)
        OBVIOUS
      <4>6. Pending = <<>> /\ Pending' = <<rendered>>
        BY <3>1, <4>1, <4>4, <4>5, EmptySeq, ConcatEmptySeq DEF Pending
      <4>7. Pending' = Append(Pending, rendered) /\ Len(Pending) < 2
        BY <4>6
      <4>8. Channel!Publish
        BY <3>1, <4>1, <4>7
           DEF Channel!Publish, Steady, Offering, Pending, Waiting, inFlight,
               Open, Mapped
      <4> QED
        BY <4>8 DEF Channel!ChannelNext
    <3> QED
      BY <3>2, <3>3
  <2>8. CASE RedrawSync
    <3>1. /\ appPc = "redraw" /\ Direct /\ ~Offering
          /\ UNCHANGED <<rendered, content, entries, f, wPc, syncArg>>
      BY <2>8 DEF RedrawSync, OfferInv, Offering, Direct
    <3>2. CASE appPc' = "idle" /\ appFrame' = None /\ window' = content[appFrame]
      <4>1. /\ ~Direct' /\ ~Offering' /\ Open' = Open /\ inFlight' = <<>>
            /\ entries' = <<>>
        BY <2>8, <3>1, <3>2, <2>pending
           DEF RedrawSync, Direct, Offering, Open, inFlight
      <4>2. Mapped(content, entries)' = <<>>
        BY <4>1 DEF Mapped
      <4>3. Pending' = <<>>
        BY <4>1, <4>2, EmptySeq, ConcatEmptySeq DEF Pending, Waiting
      <4>4. /\ Pending # <<>> /\ Head(Pending) = content[appFrame]
            /\ Tail(Pending) = <<>>
        <5>1. /\ Pending = <<content[appFrame]>>
              /\ content[appFrame] \in Nat
          BY <3>1, <2>pending
        <5> QED
          BY ONLY <5>1
      <4>5. Channel!Deliver
        BY <3>1, <3>2, <4>1, <4>3, <4>4
           DEF Channel!Deliver, Steady, Offering, Pending, Waiting, inFlight,
               Open, Mapped
      <4> QED
        BY <4>5 DEF Channel!ChannelNext
    <3>3. CASE appPc' = "threw" /\ UNCHANGED <<appFrame, window>>
      <4>1. /\ Direct' /\ Offering' = Offering /\ ~Open'
            /\ inFlight' = inFlight
        BY <3>1, <3>3 DEF Direct, Offering, Open, inFlight
      <4>2. Pending' = Pending
        BY <3>1, <3>3, <4>1 DEF Pending, Waiting, Mapped
      <4> QED
        BY <3>1, <3>3, <4>1, <4>2, <2>close DEF Channel!ChannelNext
    <3> QED
      BY <2>8, <3>2, <3>3 DEF RedrawSync, DrawDirect
  <2>9. CASE SpoilLock
    BY <2>9, <2>quiet DEF SpoilLock, AppGoes, QLock, Offering, Open, inFlight,
       Direct
  <2>10. CASE SpoilTryWait
    BY <2>10, <2>quiet DEF SpoilTryWait, AppGoes, QTake, Offering, Open,
       inFlight, Direct
  <2>11. CASE SpoilOldest
    <3>1. /\ appPc = "spoil" /\ entries # <<>> /\ entries' = Tail(entries)
          /\ Offering /\ Offering' /\ ~Direct /\ ~Direct' /\ Open' = Open
          /\ inFlight' = inFlight /\ UNCHANGED <<rendered, window, content>>
      BY <2>11 DEF SpoilOldest, AppGoes, QPop, Offering, Direct, Open, inFlight
    <3>2. TRUE \in SpoilModes
      BY <3>1 DEF PaidInv
    <3>3. /\ Mapped(content, entries) # <<>>
          /\ Mapped(content, entries)' = Tail(Mapped(content, entries))
          /\ Tail(Mapped(content, entries)) \in Seq(Nat)
      <4>1. /\ Mapped(content, entries) # <<>>
            /\ Mapped(content, Tail(entries)) = Tail(Mapped(content, entries))
        BY <3>1, <2>list
      <4>2. Tail(Mapped(content, entries)) \in Seq(Nat)
        BY <4>1, <2>pending, TailFacts
      <4> QED
        BY <3>1, <4>1, <4>2
    <3>4. \E i \in DOMAIN Pending : Pending' = Channel!WithoutIndex(Pending, i)
      <4>1. CASE inFlight = <<>>
        <5>1. Waiting' = Tail(Mapped(content, entries))
          BY <3>1, <3>3, <4>1, ConcatEmptySeq DEF Waiting
        <5>2. Pending' = Tail(Pending) /\ Pending # <<>>
          BY <2>pending, <3>1, <3>3, <4>1, <5>1, ConcatEmptySeq DEF Pending
        <5>3. /\ 1 \in DOMAIN Pending
              /\ SubSeq(Pending, 1, 0) \o SubSeq(Pending, 2, Len(Pending))
                    = Tail(Pending)
          BY <2>pending, <5>2, WithoutOldest
        <5>4. Channel!WithoutIndex(Pending, 1) = Tail(Pending)
          BY <5>3 DEF Channel!WithoutIndex
        <5> QED
          BY <5>2, <5>3, <5>4
      <4>2. CASE inFlight # <<>>
        <5> DEFINE queue == Mapped(content, entries)
                   drawing == content[f]
        <5>1. /\ drawing \in Nat /\ queue \in Seq(Nat) /\ queue # <<>>
              /\ Pending = <<drawing>> \o queue /\ Tail(queue) \in Seq(Nat)
              /\ Waiting' = <<drawing>> \o Tail(queue)
          BY <2>pending, <3>1, <3>3, <4>2 DEF Waiting
        <5> HIDE DEF queue, drawing
        <5>2. /\ SubSeq(Pending, 1, 1) \o SubSeq(Pending, 3, Len(Pending))
                    = <<drawing>> \o Tail(queue)
              /\ 2 \in DOMAIN Pending
          BY <5>1, WithoutSecond, SMTT(30)
        <5>3. <<drawing>> \o Tail(queue) \in Seq(Nat)
          BY <5>1, Prefixed
        <5>4. Pending' = <<drawing>> \o Tail(queue)
          BY <3>1, <5>1, <5>3, ConcatEmptySeq DEF Pending
        <5>5. Channel!WithoutIndex(Pending, 2) = Pending'
          BY <5>2, <5>4 DEF Channel!WithoutIndex
        <5> QED
          BY <5>2, <5>5
      <4> QED
        BY <4>1, <4>2
    <3>5. Channel!Spoil
      BY <3>1, <3>2, <3>4
         DEF Channel!Spoil, Steady, Offering, Pending, Waiting, inFlight, Open,
             Mapped
    <3> QED
      BY <3>5 DEF Channel!ChannelNext
  <2>12. CASE SpoilAdd
    <3>1. /\ appPc = "add" /\ entries' = Append(entries, appFrame)
          /\ appFrame \in Frames /\ Offering /\ ~Offering'
          /\ ~Direct /\ ~Direct' /\ Open' = Open
          /\ inFlight' = inFlight /\ UNCHANGED <<rendered, window, content>>
      BY <2>12 DEF SpoilAdd, QAppend, Offering, Direct, Open, inFlight
    <3>2. content[appFrame] = rendered /\ rendered \in Nat
      BY <3>1 DEF OfferInv
    <3>3. Mapped(content, entries)' = Append(Mapped(content, entries), rendered)
      BY <3>1, <3>2, <2>list
    <3>4. Len(entries) <= 1 /\ (inFlight # <<>> => Len(entries) = 0)
      BY <3>1, <2>len DEF TokenInv, Claims, inFlight
    <3>5. Append(Mapped(content, entries), rendered) \in Seq(Nat)
      BY <2>pending, <3>2, AppendFacts
    <3>6. Pending' = Append(Pending, rendered) /\ Len(Pending) < 2
      <4>1. CASE inFlight = <<>>
        <5>1. Waiting' = Append(Mapped(content, entries), rendered)
          BY <3>1, <3>3, <3>5, <4>1, ConcatEmptySeq DEF Waiting
        <5>2. Pending' = Append(Mapped(content, entries), rendered)
          BY <3>1, <3>5, <5>1, ConcatEmptySeq DEF Pending
        <5> QED
          BY <2>pending, <3>1, <3>4, <4>1, <5>2
      <4>2. CASE inFlight # <<>>
        <5> DEFINE queue == Mapped(content, entries)
                   drawing == content[f]
        <5>1. /\ Pending = <<drawing>> \o queue
              /\ Waiting' = <<drawing>> \o Append(queue, rendered)
          BY <2>pending, <3>1, <3>3, <4>2 DEF Waiting
        <5>2. drawing \in Nat /\ queue \in Seq(Nat)
          BY <2>pending, <4>2
        <5>3. Append(queue, rendered) \in Seq(Nat)
          BY <3>5
        <5>4. rendered \in Nat
          OBVIOUS
        <5>5. queue \in Seq(Nat)
          BY <5>2
        <5>6. drawing \in Nat
          BY <5>2
        <5> HIDE DEF queue, drawing
        <5>7. <<drawing>> \o Append(queue, rendered)
                = Append(<<drawing>> \o queue, rendered)
          BY ONLY <5>4, <5>5, <5>6, PrefixedAppend, Zenon
        <5>8. <<drawing>> \o Append(queue, rendered) \in Seq(Nat)
          BY <5>3, <5>6, Prefixed
        <5>9. Pending' = Append(Pending, rendered)
          BY <3>1, <5>1, <5>7, <5>8, ConcatEmptySeq DEF Pending
        <5>10. Len(Pending) = 1
          BY <2>pending, <3>4, <4>2
        <5> QED
          BY <5>9, <5>10
      <4> QED
        BY <4>1, <4>2
    <3>7. Channel!Publish
      BY <3>1, <3>6
         DEF Channel!Publish, Steady, Offering, Pending, Waiting, inFlight,
             Open, Mapped
    <3> QED
      BY <3>7 DEF Channel!ChannelNext
  <2>13. CASE Release
    BY <2>13, <2>quiet DEF Release, AppGoes, QReleaseMark, QReleasePost,
       Offering, Open, inFlight, Direct
  <2>14. CASE Join
    BY <2>14, <2>quiet DEF Join, AppGoes, Offering, Open, inFlight, Direct
  <2>15. CASE Destroy
    <3>1. /\ UNCHANGED <<rendered, window, content, entries, appFrame>>
          /\ Direct' = Direct /\ Offering' = Offering
          /\ inFlight' = inFlight /\ ~Open'
      BY <2>15 DEF Destroy, AppGoes, Direct, Offering, Open, inFlight
    <3>2. Pending' = Pending
      BY <3>1 DEF Pending, Waiting, Mapped
    <3> QED
      BY <3>1, <3>2, <2>close DEF Channel!ChannelNext
  <2>16. CASE Configure
    BY <2>16, <2>quiet DEF Configure, Offering, Open, inFlight, Direct
  <2>17. CASE Loop
    BY <2>17, <2>quiet DEF Loop, Offering, Open, inFlight, Direct
  <2>18. CASE GetEnter
    BY <2>18, <2>quiet DEF GetEnter, Offering, Open, inFlight, Direct
  <2>19. CASE GetWait
    BY <2>19, <2>quiet DEF GetWait, QTake, Offering, Open, inFlight, Direct
  <2>20. CASE GetPop
    <3>1. CASE qDead /\ UNCHANGED <<qvars, f>>
      BY <2>20, <3>1, <2>quiet DEF GetPop, Offering, Direct, Open, inFlight
    <3>2. CASE QPop("worker") /\ f' = Head(entries)
      <4>1. /\ wPc = "pop" /\ wPc' = "got" /\ inFlight = <<>>
            /\ entries # <<>> /\ entries' = Tail(entries)
            /\ UNCHANGED <<rendered, window, content, appFrame>>
            /\ Offering' = Offering /\ Direct' = Direct /\ Open' = Open
        BY <2>20, <3>2 DEF GetPop, QPop, Offering, Direct, Open, inFlight
      <4>2. ~Direct /\ Head(entries) \in Frames
        BY <4>1, <2>pending, TailFacts
      <4>3. /\ Mapped(content, entries) # <<>>
            /\ Head(Mapped(content, entries)) = content[Head(entries)]
            /\ Mapped(content, entries)' = Tail(Mapped(content, entries))
        <5>1. /\ Mapped(content, entries) # <<>>
              /\ Head(Mapped(content, entries)) = content[Head(entries)]
              /\ Mapped(content, Tail(entries)) = Tail(Mapped(content, entries))
          BY <4>1, <2>list
        <5> QED
          BY <4>1, <5>1
      <4>4. inFlight' = <<Head(Mapped(content, entries))>>
        BY <3>2, <4>1, <4>2, <4>3 DEF inFlight
      <4>5. Waiting' = Mapped(content, entries)
        <5>1. Head(Mapped(content, entries)) \in Nat
          BY <2>pending, <4>3, TailFacts
        <5> QED
          BY <2>pending, <4>3, <4>4, <5>1, Prefixed DEF Waiting
      <4>6. Pending' = Pending
        BY <2>pending, <4>1, <4>2, <4>5, ConcatEmptySeq DEF Pending
      <4> QED
        BY <4>1, <4>6, ChannelVariables
    <3> QED
      BY <2>20, <3>1, <3>2 DEF GetPop
  <2>21. CASE Got
    <3>1. /\ UNCHANGED <<rendered, window, content, entries, appFrame>>
          /\ wPc = "got" /\ Offering' = Offering /\ Direct' = Direct
          /\ UNCHANGED <<f, deadYet, lastError, appPc>>
      BY <2>21 DEF Got, Offering, Direct
    <3>2. CASE deadYet /\ wPc' = "exited"
      BY <3>1, <3>2, <2>lost DEF Open, inFlight, Channel!ChannelNext
    <3>3. CASE wPc' = "redraw"
      BY <3>1, <3>3, <2>quiet DEF Open, inFlight
    <3> QED
      BY <2>21, <3>2, <3>3 DEF Got
  <2>22. CASE Redraw
    <3>1. /\ UNCHANGED <<rendered, content, entries, appFrame>> /\ wPc = "redraw"
          /\ Offering' = Offering /\ Direct' = Direct
          /\ UNCHANGED <<f, deadYet, lastError, appPc>>
      BY <2>22 DEF Redraw, Offering, Direct
    <3>2. CASE wPc' = "failed" /\ UNCHANGED window
      BY <3>1, <3>2, <2>lost DEF Open, inFlight, Channel!ChannelNext
    <3>3. CASE wPc' = "drawn" /\ window' = content[f]
      <4>1. /\ inFlight # <<>> /\ inFlight' = <<>> /\ Open' = Open
            /\ Mapped(content, entries)' = Mapped(content, entries)
        BY <3>1, <3>3 DEF inFlight, Open, Mapped
      <4>2. ~Direct
        BY <4>1, <2>pending
      <4>3. Waiting' = Mapped(content, entries)
        BY <2>pending, <4>1, ConcatEmptySeq DEF Waiting
      <4>4. Pending' = Mapped(content, entries)
        BY <2>pending, <3>1, <4>2, <4>3, ConcatEmptySeq DEF Pending
      <4>5. Channel!Deliver
        BY <3>1, <3>3, <4>1, <4>4, <2>pending
           DEF Channel!Deliver, Steady, Offering, Pending, Waiting, inFlight,
               Open, Mapped
      <4> QED
        BY <4>5 DEF Channel!ChannelNext
    <3> QED
      BY <2>22, <3>2, <3>3 DEF Redraw
  <2>23. CASE SignalComplete
    BY <2>23, <2>quiet DEF SignalComplete, Offering, Open, inFlight, Direct
  <2>24. CASE Catch
    BY <2>24, <2>quiet DEF Catch, OfferInv, Offering, Open, inFlight, Direct
  <2>25. CASE UNCHANGED vars
    BY <2>25, <2>quiet DEF vars, Offering, Open, inFlight, Direct
  <2> QED
    BY <2>1, <2>2, <2>3, <2>4, <2>5, <2>6, <2>7, <2>8, <2>9, <2>10, <2>11,
       <2>12, <2>13, <2>14, <2>15, <2>16, <2>17, <2>18, <2>19, <2>20,
       <2>21, <2>22, <2>23, <2>24, <2>25
       DEF Next, AppStep, WorkerStep, Terminated
<1> QED
  BY <1>switching, <1>steady

(* The safety half of ImplementsChannel: frames are numbered, published,     *)
(* spoiled and drawn as FrameChannel says, through the queue or past it, as  *)
(* long as fconfig.sync stays as it is.                                      *)
THEOREM StepsAreTheChannels == Spec => Channel!ChannelSafety
<1>1. Init => Channel!ChannelInit
  <2> SUFFICES ASSUME Init PROVE Channel!ChannelInit
    OBVIOUS
  <2>1. entries = <<>> /\ DOMAIN entries = {} /\ f = None /\ ~Direct
    BY DEF Init, QInit, Direct
  <2>2. [i \in DOMAIN entries |-> content[entries[i]]] = <<>>
    BY <2>1
  <2>3. <<>> \o <<>> = <<>>
    BY EmptySeq, ConcatEmptySeq
  <2> QED
    BY <2>1, <2>2, <2>3 DEF Init, Steady, Channel!ChannelInit
<1>2. Init => OfferInv /\ PaidInv
  BY EmptySeq DEF Init, QInit, OfferInv, PaidInv, Owed, Waited
<1>3. IndInv /\ OfferInv /\ PaidInv /\ [Next]_vars => OfferInv' /\ PaidInv'
  BY OfferStep, PaidStep
<1>4. IndInv /\ OfferInv /\ PaidInv /\ [Next]_vars
        => [Channel!ChannelNext]_(Channel!cvars)
  BY ChannelStep
<1> QED
  BY <1>1, <1>2, <1>3, <1>4, Invariance, PTL DEF Spec, Channel!ChannelSafety
=============================================================================
