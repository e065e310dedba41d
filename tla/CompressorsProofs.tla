------------------------- MODULE CompressorsProofs -------------------------
(***************************************************************************)
(* Proofs about Compressors, for any number of CPUs, tiles and frames, and  *)
(* whether or not compressing and sending may fail.                         *)
(***************************************************************************)
EXTENDS Compressors, Integers, TLAPS

MainPcs == {"next", "go", "work", "stop", "check", "send", "eof", "shutdown",
            "join", "exited", "failed"}
ThreadPcs == {"loop", "wait", "compress", "signal", "catch", "threw", "exited"}

Rank(t) == t % NProcs

TypeOK ==
    /\ mPc \in MainPcs /\ mi \in 1 .. NProcs /\ yuv \in BOOLEAN
    /\ frame \in Nat /\ image \in [Tiles -> Nat] /\ client \in [Tiles -> Nat]
    /\ todo \in [0 .. NProcs - 1 -> SUBSET Tiles]
    /\ stored \in [Threads -> SUBSET (Tiles \X Nat)]
    /\ ready \in [Threads -> BOOLEAN] /\ complete \in [Threads -> BOOLEAN]
    /\ deadYet \in [Threads -> BOOLEAN] /\ lastError \in [Threads -> BOOLEAN]
    /\ cPc \in [Threads -> ThreadPcs]

(* The index of each loop of run() stays within the loop's bound.            *)
LoopInv ==
    /\ mPc \in {"go", "stop"} => mi <= np
    /\ mPc \in {"check", "send"} => mi < np
    /\ mPc = "work" => mi = 1

(* Thread i has been told to go() and stop() has not returned for it.        *)
Out(i) ==
    /\ i < np
    /\ \/ mPc = "go" /\ i < mi
       \/ mPc = "work"
       \/ mPc = "stop" /\ mi <= i
       \/ mPc \in {"check", "send"} /\ mi < i

Busy(i) == cPc[i] \in {"compress", "signal", "catch"}

(* The rendezvous of one thread: while it is out exactly one of `ready is    *)
(* set', `it is busy' and `complete is set' is true, and none of them before *)
(* and after, but for the `ready' with which shutdown() wakes it.            *)
RendezvousInv ==
    mPc # "failed" => \A i \in Threads :
        /\ ready[i] => ~Busy(i) /\ ~complete[i]
        /\ Busy(i) => ~complete[i]
        /\ Out(i) => ready[i] \/ Busy(i) \/ complete[i]
        /\ ~Out(i) => ~Busy(i) /\ ~complete[i] /\ (ready[i] => deadYet[i])
        /\ deadYet[i] => mPc \in {"shutdown", "join", "exited"}

(* Compressed tiles wait only in the list of a thread that is out and done   *)
(* or at work, or whose list is being sent; each is of the frame as it is    *)
(* now, and a thread looks at no tile but those of its rank.                 *)
StoredInv ==
    mPc # "failed" => \A i \in Threads :
        /\ stored[i] # {} => \/ Out(i) /\ ~ready[i]
                             \/ mPc \in {"check", "send"} /\ i = mi
        /\ \A s \in stored[i] : Rank(s[1]) = i /\ s[2] = image[s[1]]
        /\ \A t \in todo[i] : Rank(t) = i

(* A tile that the client does not have yet is still to be looked at, by     *)
(* the main thread or by its own thread, or compressed and not sent.         *)
Unsent(t) ==
    \/ /\ yuv \/ Rank(t) = 0
       /\ mPc = "go" \/ (mPc = "work" /\ t \in todo[0])
    \/ /\ ~yuv /\ Rank(t) # 0
       /\ \/ mPc = "go" /\ mi <= Rank(t)
          \/ Out(Rank(t)) /\ ready[Rank(t)]
          \/ cPc[Rank(t)] = "compress" /\ t \in todo[Rank(t)]
          \/ <<t, image[t]>> \in stored[Rank(t)]

NoneFailed == \A i \in Threads : ~Failed(i)

(* Nothing of a frame is forgotten unless a compressor threw.                *)
DeliveryInv ==
    mPc # "failed" /\ NoneFailed => \A t \in Tiles :
        /\ image[t] <= frame
        /\ image[t] # frame => client[t] = image[t]
        /\ client[t] = image[t] \/ Unsent(t)

IndInv == TypeOK /\ LoopInv /\ RendezvousInv /\ StoredInv /\ DeliveryInv

(* Ranks: every tile has one, and a rank that is not 0 is a thread's.        *)
LEMMA RankFacts ==
    /\ NProcs \in Nat /\ NProcs >= 1
    /\ \A i \in Threads : i \in Nat /\ i >= 1 /\ i < NProcs
                          /\ i \in 0 .. NProcs - 1
    /\ \A t \in Tiles : /\ Rank(t) \in 0 .. NProcs - 1
                        /\ Rank(t) # 0 => Rank(t) \in Threads
    /\ \A i \in 0 .. NProcs - 1 : TilesOf(i) = {t \in Tiles : Rank(t) = i}
<1>1. \A t \in Tiles : t % NProcs \in 0 .. NProcs - 1
  BY CompressorsAssumption DEF Tiles
<1> QED
  BY <1>1, CompressorsAssumption DEF Rank, Threads, TilesOf

-----------------------------------------------------------------------------
(* Every variable keeps its type and the loops of run() their bounds.        *)
THEOREM TypeCorrect == Spec => [](TypeOK /\ LoopInv)
<1> USE CompressorsAssumption
<1>1. Init => TypeOK /\ LoopInv
  <2> SUFFICES ASSUME Init PROVE TypeOK /\ LoopInv
    OBVIOUS
  <2>1. mi \in 1 .. NProcs
    BY DEF Init
  <2>2. /\ image \in [Tiles -> Nat] /\ client \in [Tiles -> Nat]
        /\ todo \in [0 .. NProcs - 1 -> SUBSET Tiles]
        /\ stored \in [Threads -> SUBSET (Tiles \X Nat)]
    BY DEF Init
  <2> QED
    BY <2>1, <2>2 DEF Init, TypeOK, LoopInv, MainPcs, ThreadPcs
<1>2. TypeOK /\ LoopInv /\ [Next]_vars => TypeOK' /\ LoopInv'
  <2> SUFFICES ASSUME TypeOK, LoopInv, [Next]_vars
               PROVE  TypeOK' /\ LoopInv'
    OBVIOUS
  <2> USE RankFacts DEF TypeOK, LoopInv, MainPcs, ThreadPcs, np, main,
                        picture, events
  <2>1. ASSUME NEW changed \in SUBSET Tiles, NextFrame(changed)
        PROVE TypeOK' /\ LoopInv'
    <3>1. /\ frame' = frame + 1 /\ mi' = 1 /\ mPc' = "go" /\ yuv' \in BOOLEAN
          /\ UNCHANGED <<todo, stored, events, cPc, lastError, client>>
      BY <2>1 DEF NextFrame
    <3>2. image' \in [Tiles -> Nat]
      BY <2>1, <3>1 DEF NextFrame
    <3>3. mi' \in 1 .. NProcs /\ frame' \in Nat
      BY <3>1
    <3> QED
      BY <3>1, <3>2, <3>3
  <2>2. CASE Go
    <3>1. CASE mi < np /\ lastError[mi]
      BY <2>2, <3>1 DEF Go
    <3>2. CASE mi < np /\ ~lastError[mi]
      <4>1. /\ ready' = [ready EXCEPT ![mi] = TRUE] /\ mi' = mi + 1
            /\ UNCHANGED <<mPc, todo, yuv, picture, stored, complete, deadYet, cPc,
                           lastError, client>>
        BY <2>2, <3>2 DEF Go
      <4>2. mi' \in 1 .. NProcs /\ (mPc = "go" => mi' <= np)
        BY <3>2, <4>1
      <4>3. ready' \in [Threads -> BOOLEAN] /\ mPc = "go"
        BY <2>2, <4>1 DEF Go
      <4> QED
        BY <4>1, <4>2, <4>3
    <3>3. CASE mi >= np
      <4>1. TilesOf(0) \in SUBSET Tiles
        BY DEF TilesOf
      <4>2. /\ mPc' = "work" /\ mi' = 1
            /\ todo' = [todo EXCEPT ![0] = IF yuv THEN Tiles ELSE TilesOf(0)]
            /\ UNCHANGED <<yuv, picture, stored, events, cPc, lastError, client>>
        BY <2>2, <3>3 DEF Go
      <4> QED
        BY <4>1, <4>2
    <3> QED
      BY <2>2, <3>1, <3>2, <3>3 DEF Go
  <2>3. CASE Work
    <3>1. CASE todo[0] = {} /\ mPc' = "stop" /\ UNCHANGED <<todo, client>>
      BY <2>3, <3>1 DEF Work
    <3>2. ASSUME NEW t \in todo[0],
                 todo' = [todo EXCEPT ![0] = @ \ {t}],
                 client' = IF Changed(t) \/ yuv
                           THEN [client EXCEPT ![t] = image[t]] ELSE client,
                 UNCHANGED mPc
          PROVE  TypeOK' /\ LoopInv'
      <4>1. t \in Tiles
        OBVIOUS
      <4>2. todo' \in [0 .. NProcs - 1 -> SUBSET Tiles] /\ client' \in [Tiles -> Nat]
        BY <3>2, <4>1
      <4> QED
        BY <2>3, <3>2, <4>2 DEF Work
    <3>3. CASE mPc' = "failed" /\ UNCHANGED <<todo, client>>
      BY <2>3, <3>3 DEF Work
    <3> QED
      BY <2>3, <3>1, <3>2, <3>3 DEF Work
  <2>4. CASE Stop
    BY <2>4 DEF Stop
  <2>5. CASE CheckError
    <3>1. /\ mPc = "check" /\ mPc' \in {"failed", "send"}
          /\ UNCHANGED <<mi, yuv, picture, todo, stored, events, cPc, lastError,
                         client>>
      BY <2>5 DEF CheckError
    <3> QED
      BY <3>1
  <2>6. CASE Send
    <3>1. mPc = "send" /\ mi < np /\ mi \in Threads
          /\ UNCHANGED <<yuv, picture, todo, events, cPc, lastError>>
      BY <2>6 DEF Send, Threads
    <3>2. CASE mPc' = "stop" /\ mi' = mi + 1 /\ UNCHANGED <<stored, client>>
      BY <3>1, <3>2, SMTT(30)
    <3>3. ASSUME NEW s \in stored[mi], client' = [client EXCEPT ![s[1]] = s[2]],
                 stored' = [stored EXCEPT ![mi] = @ \ {s}], UNCHANGED <<mPc, mi>>
          PROVE  TypeOK' /\ LoopInv'
      <4>1. s \in Tiles \X Nat
        BY <3>1
      <4>2. s[1] \in Tiles /\ s[2] \in Nat
        BY <4>1
      <4>3. /\ client' \in [Tiles -> Nat]
            /\ stored' \in [Threads -> SUBSET (Tiles \X Nat)]
        BY <3>1, <3>3, <4>2
      <4> QED
        BY <3>1, <3>3, <4>3
    <3>4. CASE mPc' = "failed" /\ UNCHANGED <<mi, stored, client>>
      BY <3>1, <3>4
    <3> QED
      BY <2>6, <3>2, <3>3, <3>4 DEF Send
  <2>7. CASE SendEOF
    BY <2>7 DEF SendEOF
  <2>8. CASE Shutdown
    <3>1. CASE mi < NProcs
      <4>1. /\ mPc = "shutdown" /\ mi' = mi + 1
            /\ deadYet' = [deadYet EXCEPT ![mi] = TRUE]
            /\ ready' = [ready EXCEPT ![mi] = TRUE]
            /\ UNCHANGED <<mPc, yuv, picture, todo, stored, complete, cPc, lastError,
                           client>>
        BY <2>8, <3>1 DEF Shutdown
      <4>2. mi' \in 1 .. NProcs
        BY <3>1, <4>1
      <4>3. /\ ready' \in [Threads -> BOOLEAN]
            /\ deadYet' \in [Threads -> BOOLEAN]
        BY <4>1
      <4> QED
        BY <4>1, <4>2, <4>3
    <3>2. CASE ~(mi < NProcs)
      BY <2>8, <3>2 DEF Shutdown
    <3> QED
      BY <3>1, <3>2
  <2>9. CASE Join
    BY <2>9 DEF Join
  <2>10. CASE EndLoop
    BY <2>10 DEF EndLoop
  <2>11. ASSUME NEW i \in Threads, Loop(i) PROVE TypeOK' /\ LoopInv'
    BY <2>11 DEF Loop
  <2>12. ASSUME NEW i \in Threads, Woken(i) PROVE TypeOK' /\ LoopInv'
    <3>1. TilesOf(i) \in SUBSET Tiles
      BY DEF TilesOf
    <3>2. CASE deadYet[i]
      BY <2>12, <3>2 DEF Woken
    <3>3. CASE ~deadYet[i]
      BY <2>12, <3>1, <3>3, ZenonT(60) DEF Woken
    <3> QED
      BY <3>2, <3>3
  <2>13. ASSUME NEW i \in Threads, Compress(i) PROVE TypeOK' /\ LoopInv'
    <3>1. UNCHANGED <<main, picture, events, lastError, client>>
      BY <2>13 DEF Compress
    <3>2. ASSUME NEW t \in todo[i],
                 todo' = [todo EXCEPT ![i] = @ \ {t}],
                 stored' = IF Changed(t)
                           THEN [stored EXCEPT ![i] = @ \cup {<<t, image[t]>>}]
                           ELSE stored,
                 UNCHANGED cPc
          PROVE  TypeOK' /\ LoopInv'
      <4>1. t \in Tiles /\ <<t, image[t]>> \in Tiles \X Nat
        OBVIOUS
      <4>2. /\ todo' \in [0 .. NProcs - 1 -> SUBSET Tiles]
            /\ stored' \in [Threads -> SUBSET (Tiles \X Nat)]
        BY <3>2, <4>1
      <4> QED
        BY <3>1, <3>2, <4>2
    <3>3. CASE UNCHANGED <<todo, stored>>
      <4>1. \E pc \in ThreadPcs : cPc' = [cPc EXCEPT ![i] = pc]
        BY <2>13, <3>3 DEF Compress
      <4> QED
        BY <3>1, <3>3, <4>1
    <3>4. (\E t \in todo[i] :
             /\ todo' = [todo EXCEPT ![i] = @ \ {t}]
             /\ stored' = IF Changed(t)
                          THEN [stored EXCEPT ![i] = @ \cup {<<t, image[t]>>}]
                          ELSE stored
             /\ UNCHANGED cPc)
          \/ UNCHANGED <<todo, stored>>
      BY <2>13 DEF Compress
    <3> QED
      BY <3>2, <3>3, <3>4
  <2>14. ASSUME NEW i \in Threads, Signal(i) PROVE TypeOK' /\ LoopInv'
    BY <2>14 DEF Signal
  <2>15. ASSUME NEW i \in Threads, Record(i) PROVE TypeOK' /\ LoopInv'
    BY <2>15 DEF Record
  <2>16. CASE UNCHANGED vars
    BY <2>16 DEF vars
  <2> QED
    BY <2>1, <2>2, <2>3, <2>4, <2>5, <2>6, <2>7, <2>8, <2>9, <2>10, <2>11,
       <2>12, <2>13, <2>14, <2>15, <2>16
       DEF Next, MainStep, Compressor, Terminated
<1> QED
  BY <1>1, <1>2, PTL DEF Spec

-----------------------------------------------------------------------------
(* Each go() is answered by one signal of `complete' and each is waited for. *)
LEMMA RendezvousStep ==
    ASSUME TypeOK, LoopInv, RendezvousInv, [Next]_vars
    PROVE  RendezvousInv'
<1> USE RankFacts
    DEF TypeOK, LoopInv, RendezvousInv, Out, Busy, np, main, picture, events
<1>1. ASSUME NEW changed \in SUBSET Tiles, NextFrame(changed)
      PROVE RendezvousInv'
  <2>1. /\ mPc = "next" /\ mPc' = "go" /\ mi' = 1
        /\ UNCHANGED <<events, cPc>>
    BY <1>1 DEF NextFrame
  <2>2. \A i \in Threads : ~Out(i) /\ ~Out(i)'
    BY <2>1
  <2> QED
    BY <2>1, <2>2
<1>2. CASE Go
  <2>1. CASE mi < np /\ lastError[mi]
    BY <1>2, <2>1 DEF Go
  <2>2. CASE mi < np /\ ~lastError[mi]
    <3>1. /\ mPc = "go" /\ mPc' = "go" /\ mi' = mi + 1 /\ mi \in Threads
          /\ ready' = [ready EXCEPT ![mi] = TRUE]
          /\ UNCHANGED <<yuv, complete, deadYet, cPc>>
      BY <1>2, <2>2 DEF Go, Threads
    <3>2. \A i \in Threads : Out(i)' <=> Out(i) \/ i = mi
      BY <2>2, <3>1
    <3>3. ~Out(mi)
      BY <3>1
    <3> QED
      BY <3>1, <3>2, <3>3
  <2>3. CASE mi >= np
    <3>1. /\ mPc = "go" /\ mPc' = "work" /\ UNCHANGED <<yuv, events, cPc>>
      BY <1>2, <2>3 DEF Go
    <3>2. \A i \in Threads : Out(i)' <=> Out(i)
      BY <2>3, <3>1
    <3> QED
      BY <3>1, <3>2
  <2> QED
    BY <1>2, <2>1, <2>2, <2>3 DEF Go
<1>3. CASE Work
  <2>1. /\ mPc = "work" /\ mPc' \in {"work", "stop", "failed"}
        /\ UNCHANGED <<mi, yuv, events, cPc>>
    BY <1>3 DEF Work
  <2>2. mPc' = "stop" => mi' = 1
    BY <2>1
  <2>3. mPc' # "failed" => \A i \in Threads : Out(i)' <=> Out(i)
    BY <2>1, <2>2
  <2> QED
    BY <2>1, <2>3
<1>4. CASE Stop
  <2>1. /\ mPc = "stop" /\ UNCHANGED <<mi, yuv, ready, deadYet, cPc>>
    BY <1>4 DEF Stop
  <2>2. CASE mi < np /\ complete[mi]
    <3>1. /\ mPc' = "check" /\ mi \in Threads
          /\ complete' = [complete EXCEPT ![mi] = FALSE]
      BY <1>4, <2>2 DEF Stop, Threads
    <3>2. \A i \in Threads : Out(i)' <=> (Out(i) /\ i # mi)
      BY <2>1, <2>2, <3>1
    <3> QED
      BY <2>1, <2>2, <3>1, <3>2
  <2>3. CASE mi >= np /\ mPc' = "eof" /\ UNCHANGED complete
    BY <2>1, <2>3
  <2> QED
    BY <1>4, <2>2, <2>3 DEF Stop
<1>5. CASE CheckError
  BY <1>5 DEF CheckError
<1>6. CASE Send
  BY <1>6 DEF Send
<1>7. CASE SendEOF
  BY <1>7 DEF SendEOF
<1>8. CASE Shutdown
  BY <1>8, SMTT(30) DEF Shutdown
<1>9. CASE Join
  BY <1>9 DEF Join
<1>10. CASE EndLoop
  BY <1>10 DEF EndLoop
<1>11. ASSUME NEW i \in Threads, Loop(i) PROVE RendezvousInv'
  BY <1>11 DEF Loop
<1>12. ASSUME NEW i \in Threads, Woken(i) PROVE RendezvousInv'
  BY <1>12 DEF Woken
<1>13. ASSUME NEW i \in Threads, Compress(i) PROVE RendezvousInv'
  BY <1>13 DEF Compress
<1>14. ASSUME NEW i \in Threads, Signal(i) PROVE RendezvousInv'
  BY <1>14 DEF Signal
<1>15. ASSUME NEW i \in Threads, Record(i) PROVE RendezvousInv'
  BY <1>15 DEF Record
<1>16. CASE UNCHANGED vars
  BY <1>16 DEF vars
<1> QED
  BY <1>1, <1>2, <1>3, <1>4, <1>5, <1>6, <1>7, <1>8, <1>9, <1>10, <1>11,
     <1>12, <1>13, <1>14, <1>15, <1>16
     DEF Next, MainStep, Compressor, Terminated

-----------------------------------------------------------------------------
(* A thread's list is filled while it is out and emptied before the next     *)
(* frame.                                                                    *)
LEMMA StoredStep ==
    ASSUME TypeOK, LoopInv, RendezvousInv, StoredInv, [Next]_vars
    PROVE  StoredInv'
<1> USE RankFacts
    DEF TypeOK, LoopInv, RendezvousInv, StoredInv, Out, Busy, np, main, picture,
        events
<1>1. ASSUME NEW changed \in SUBSET Tiles, NextFrame(changed) PROVE StoredInv'
  <2>1. /\ mPc = "next" /\ UNCHANGED <<stored, todo>>
    BY <1>1 DEF NextFrame
  <2>2. \A i \in Threads : stored[i] = {}
    BY <2>1
  <2> QED
    BY <2>1, <2>2
<1>2. CASE Go
  <2>1. CASE mi < np /\ lastError[mi]
    BY <1>2, <2>1 DEF Go
  <2>2. CASE mi < np /\ ~lastError[mi]
    <3>1. /\ mPc = "go" /\ mPc' = "go" /\ mi' = mi + 1 /\ mi \in Threads
          /\ ready' = [ready EXCEPT ![mi] = TRUE]
          /\ UNCHANGED <<yuv, image, stored, todo>>
      BY <1>2, <2>2 DEF Go, Threads
    <3>2. stored[mi] = {}
      BY <3>1
    <3> QED
      BY <3>1, <3>2
  <2>3. CASE mi >= np
    BY <1>2, <2>3 DEF Go
  <2> QED
    BY <1>2, <2>1, <2>2, <2>3 DEF Go
<1>3. CASE Work
  <2>1. /\ mPc = "work" /\ mPc' \in {"work", "stop", "failed"}
        /\ UNCHANGED <<mi, yuv, picture, stored, events, cPc>>
    BY <1>3 DEF Work
  <2>2. mPc' = "stop" => mi' = 1
    BY <2>1
  <2>3. mPc' # "failed" => \A i \in Threads : Out(i)' <=> Out(i)
    BY <2>1, <2>2
  <2>4. \A i \in Threads : todo'[i] \subseteq todo[i]
    BY <1>3 DEF Work
  <2> QED
    BY <2>1, <2>3, <2>4
<1>4. CASE Stop
  BY <1>4 DEF Stop
<1>5. CASE CheckError
  <2>1. /\ mPc = "check" /\ mPc' \in {"failed", "send"}
        /\ UNCHANGED <<mi, yuv, picture, todo, stored, events, cPc>>
    BY <1>5 DEF CheckError
  <2> QED
    BY <2>1
<1>6. CASE Send
  <2>1. mPc = "send" /\ mi < np /\ mi \in Threads
        /\ UNCHANGED <<yuv, picture, todo, events, cPc>>
    BY <1>6 DEF Send, Threads
  <2>2. CASE stored[mi] = {} /\ mPc' = "stop" /\ mi' = mi + 1 /\ UNCHANGED stored
    BY <2>1, <2>2
  <2>3. ASSUME NEW s \in stored[mi], stored' = [stored EXCEPT ![mi] = @ \ {s}],
               UNCHANGED <<mPc, mi>>
        PROVE  StoredInv'
    <3>1. \A i \in Threads : stored'[i] \subseteq stored[i]
      BY <2>1, <2>3
    <3> QED
      BY <2>1, <2>3, <3>1
  <2>4. CASE mPc' = "failed"
    BY <2>4
  <2> QED
    BY <1>6, <2>2, <2>3, <2>4 DEF Send
<1>7. CASE SendEOF
  BY <1>7 DEF SendEOF
<1>8. CASE Shutdown
  BY <1>8 DEF Shutdown
<1>9. CASE Join
  BY <1>9 DEF Join
<1>10. CASE EndLoop
  BY <1>10 DEF EndLoop
<1>11. ASSUME NEW i \in Threads, Loop(i) PROVE StoredInv'
  BY <1>11 DEF Loop
<1>12. ASSUME NEW i \in Threads, Woken(i) PROVE StoredInv'
  <2>1. /\ UNCHANGED <<main, picture, stored, complete, deadYet>>
        /\ ready' = [ready EXCEPT ![i] = FALSE]
    BY <1>12 DEF Woken
  <2>2. \A j \in Threads : \A t \in todo'[j] : 
             t \in todo[j] \/ (j = i /\ t \in TilesOf(i))
    BY <1>12, SMTT(30) DEF Woken
  <2> QED
    BY <2>1, <2>2
<1>13. ASSUME NEW i \in Threads, Compress(i) PROVE StoredInv'
  <2>1. UNCHANGED <<main, picture, events>> /\ cPc[i] = "compress"
    BY <1>13 DEF Compress
  <2>2. mPc # "failed" => Out(i) /\ ~ready[i]
    BY <2>1
  <2>3. \A j \in Threads : todo'[j] \subseteq todo[j]
    <3>1. UNCHANGED todo \/ \E t \in todo[i] : todo' = [todo EXCEPT ![i] = @ \ {t}]
      BY <1>13 DEF Compress
    <3>2. CASE UNCHANGED todo
      BY <3>2
    <3>3. ASSUME NEW t \in todo[i], todo' = [todo EXCEPT ![i] = @ \ {t}],
                 NEW j \in Threads
          PROVE  todo'[j] \subseteq todo[j]
      <4>1. CASE j = i
        BY <3>3, <4>1
      <4>2. CASE j # i
        BY <3>3, <4>2
      <4> QED
        BY <4>1, <4>2
    <3> QED
      BY <3>1, <3>2, <3>3
  <2>4. ASSUME NEW t \in todo[i],
               stored' = IF Changed(t)
                         THEN [stored EXCEPT ![i] = @ \cup {<<t, image[t]>>}]
                         ELSE stored
        PROVE  StoredInv'
    <3>1. mPc # "failed" => Rank(t) = i
      BY <2>1
    <3>2. \A j \in Threads : \A s \in stored'[j] :
             s \in stored[j] \/ (j = i /\ s = <<t, image[t]>>)
      BY <2>4
    <3> QED
      BY <2>1, <2>2, <2>3, <3>1, <3>2
  <2>5. CASE UNCHANGED stored
    BY <2>1, <2>3, <2>5
  <2> QED
    BY <1>13, <2>4, <2>5 DEF Compress
<1>14. ASSUME NEW i \in Threads, Signal(i) PROVE StoredInv'
  BY <1>14 DEF Signal
<1>15. ASSUME NEW i \in Threads, Record(i) PROVE StoredInv'
  BY <1>15 DEF Record
<1>16. CASE UNCHANGED vars
  BY <1>16 DEF vars
<1> QED
  BY <1>1, <1>2, <1>3, <1>4, <1>5, <1>6, <1>7, <1>8, <1>9, <1>10, <1>11,
     <1>12, <1>13, <1>14, <1>15, <1>16
     DEF Next, MainStep, Compressor, Terminated

-----------------------------------------------------------------------------
(* An exception is never forgotten, neither a compressor's nor run()'s own.  *)
LEMMA FailureStays ==
    ASSUME TypeOK, [Next]_vars
    PROVE  /\ mPc = "failed" => mPc' = "failed"
           /\ \A j \in Threads : Failed(j) => Failed(j)'
<1> USE DEF TypeOK, Failed, main, events
<1>1. ASSUME NEW changed \in SUBSET Tiles, NextFrame(changed)
      PROVE  /\ mPc = "failed" => mPc' = "failed"
             /\ \A j \in Threads : Failed(j) => Failed(j)'
  BY <1>1 DEF NextFrame
<1>2. CASE Go
  BY <1>2 DEF Go
<1>3. CASE Work
  BY <1>3 DEF Work
<1>4. CASE Stop
  BY <1>4 DEF Stop
<1>5. CASE CheckError
  BY <1>5 DEF CheckError
<1>6. CASE Send
  BY <1>6 DEF Send
<1>7. CASE SendEOF
  BY <1>7 DEF SendEOF
<1>8. CASE Shutdown
  BY <1>8 DEF Shutdown
<1>9. CASE Join
  BY <1>9 DEF Join
<1>10. CASE EndLoop
  BY <1>10 DEF EndLoop
<1>11. ASSUME NEW i \in Threads, Loop(i)
       PROVE  /\ mPc = "failed" => mPc' = "failed"
              /\ \A j \in Threads : Failed(j) => Failed(j)'
  BY <1>11 DEF Loop
<1>12. ASSUME NEW i \in Threads, Woken(i)
       PROVE  /\ mPc = "failed" => mPc' = "failed"
              /\ \A j \in Threads : Failed(j) => Failed(j)'
  BY <1>12 DEF Woken
<1>13. ASSUME NEW i \in Threads, Compress(i)
       PROVE  /\ mPc = "failed" => mPc' = "failed"
              /\ \A j \in Threads : Failed(j) => Failed(j)'
  BY <1>13 DEF Compress
<1>14. ASSUME NEW i \in Threads, Signal(i)
       PROVE  /\ mPc = "failed" => mPc' = "failed"
              /\ \A j \in Threads : Failed(j) => Failed(j)'
  BY <1>14 DEF Signal
<1>15. ASSUME NEW i \in Threads, Record(i)
       PROVE  /\ mPc = "failed" => mPc' = "failed"
              /\ \A j \in Threads : Failed(j) => Failed(j)'
  BY <1>15 DEF Record
<1>16. CASE UNCHANGED vars
  BY <1>16 DEF vars
<1> QED
  BY <1>1, <1>2, <1>3, <1>4, <1>5, <1>6, <1>7, <1>8, <1>9, <1>10, <1>11,
     <1>12, <1>13, <1>14, <1>15, <1>16
     DEF Next, MainStep, Compressor, Terminated

(* What a tile is owed.                                                      *)
Delivered(t) == /\ image[t] <= frame
                /\ image[t] # frame => client[t] = image[t]
                /\ client[t] = image[t] \/ Unsent(t)

(* A tile leaves one hand that owes it only for the next or for the client.  *)
LEMMA DeliveryStep ==
    ASSUME TypeOK, LoopInv, RendezvousInv, StoredInv, DeliveryInv, [Next]_vars
    PROVE  DeliveryInv'
<1> SUFFICES ASSUME mPc' # "failed", NoneFailed', NEW t \in Tiles
             PROVE  Delivered(t)'
  BY DEF DeliveryInv, Delivered
<1>old. mPc # "failed" /\ NoneFailed
  BY FailureStays DEF NoneFailed
<1>was. Delivered(t)
  BY <1>old DEF DeliveryInv, Delivered
<1> DEFINE r == Rank(t)
<1>rank. /\ r \in 0 .. NProcs - 1 /\ r \in Nat /\ r < NProcs
         /\ r # 0 => r \in Threads /\ r >= 1
         /\ \A i \in 0 .. NProcs - 1 : t \in TilesOf(i) <=> r = i
         /\ r' = r
  BY RankFacts DEF Rank
<1>todo. \A i \in Threads : t \in todo[i] => r = i
  BY <1>old DEF StoredInv
<1>sent. \A i \in Threads : \A s \in stored[i] : s[1] = t => s[2] = image[t]
  BY <1>old DEF StoredInv
<1>unsent. /\ Unsent(t) <=>
               \/ (yuv \/ r = 0) /\ (mPc = "go" \/ (mPc = "work" /\ t \in todo[0]))
               \/ /\ ~yuv /\ r # 0
                  /\ \/ mPc = "go" /\ mi <= r
                     \/ Out(r) /\ ready[r]
                     \/ cPc[r] = "compress" /\ t \in todo[r]
                     \/ <<t, image[t]>> \in stored[r]
           /\ Unsent(t)' <=>
               \/ (yuv' \/ r = 0) /\ (mPc' = "go" \/ (mPc' = "work" /\ t \in todo'[0]))
               \/ /\ ~yuv' /\ r # 0
                  /\ \/ mPc' = "go" /\ mi' <= r
                     \/ Out(r)' /\ ready'[r]
                     \/ cPc'[r] = "compress" /\ t \in todo'[r]
                     \/ <<t, image'[t]>> \in stored'[r]
  BY <1>rank DEF Unsent
<1> HIDE DEF r
<1>meet. \A i \in Threads :
            /\ ready[i] => ~Busy(i) /\ ~complete[i]
            /\ Busy(i) => ~complete[i]
            /\ ~Out(i) => ~Busy(i) /\ ~complete[i] /\ (ready[i] => deadYet[i])
            /\ deadYet[i] => mPc \in {"shutdown", "join", "exited"}
  BY <1>old DEF RendezvousInv
<1>list. \A i \in Threads : stored[i] # {} =>
            (Out(i) /\ ~ready[i]) \/ (mPc \in {"check", "send"} /\ i = mi)
  BY <1>old DEF StoredInv
<1>same. ASSUME UNCHANGED <<image, frame, client>>, Unsent(t) => Unsent(t)'
         PROVE  Delivered(t)'
  BY <1>same, <1>was DEF Delivered
<1> USE RankFacts, <1>old, <1>was, <1>rank, <1>unsent, <1>meet
    DEF TypeOK, LoopInv, Out, Busy, np, main, picture, events
<1>1. ASSUME NEW changed \in SUBSET Tiles, NextFrame(changed)
      PROVE Delivered(t)'
  <2>1. /\ mPc = "next" /\ mPc' = "go" /\ mi' = 1 /\ frame' = frame + 1
        /\ image'[t] = IF t \in changed THEN frame + 1 ELSE image[t]
        /\ UNCHANGED client /\ yuv' \in BOOLEAN
    BY <1>1 DEF NextFrame
  <2>2. ~Unsent(t)
    BY <2>1, <1>list
  <2>3. client[t] = image[t] /\ image[t] <= frame /\ image[t] \in Nat
    BY <2>2 DEF Delivered
  <2>4. Unsent(t)'
    BY <2>1
  <2> QED
    BY <2>1, <2>3, <2>4 DEF Delivered
<1>2. CASE Go
  <2>1. /\ mPc = "go" /\ UNCHANGED <<yuv, image, frame, client, stored, cPc>>
    BY <1>2 DEF Go
  <2>2. CASE mi < np /\ ready' = [ready EXCEPT ![mi] = TRUE] /\ mi' = mi + 1
             /\ UNCHANGED <<mPc, todo>>
    <3>1. mi \in Threads
      BY <2>2 DEF Threads
    <3>2. Unsent(t) => Unsent(t)'
      BY <2>1, <2>2, <3>1
    <3> QED
      BY <2>1, <3>2, <1>same
  <2>3. CASE /\ mi >= np /\ mPc' = "work" /\ mi' = 1 /\ UNCHANGED ready
             /\ todo' = [todo EXCEPT ![0] = IF yuv THEN Tiles ELSE TilesOf(0)]
    <3>1. yuv \/ r = 0 => t \in todo'[0]
      BY <2>3
    <3>2. r # 0 => todo'[r] = todo[r]
      BY <2>3
    <3>3. Unsent(t) => Unsent(t)'
      BY <2>1, <2>3, <3>1, <3>2
    <3> QED
      BY <2>1, <3>3, <1>same
  <2> QED
    BY <1>2, <2>2, <2>3 DEF Go
<1>3. CASE Work
  <2>1. /\ mPc = "work" /\ mi = 1
        /\ UNCHANGED <<mi, yuv, picture, stored, events, cPc>>
    BY <1>3 DEF Work
  <2>2. CASE todo[0] = {} /\ mPc' = "stop" /\ UNCHANGED <<todo, client>>
    <3>1. Unsent(t) => Unsent(t)'
      BY <2>1, <2>2
    <3> QED
      BY <2>1, <2>2, <3>1, <1>same
  <2>3. ASSUME NEW u \in todo[0],
               todo' = [todo EXCEPT ![0] = @ \ {u}],
               client' = IF Changed(u) \/ yuv
                         THEN [client EXCEPT ![u] = image[u]] ELSE client,
               UNCHANGED mPc
        PROVE  Delivered(t)'
    <3>1. CASE u = t
      <4>1. client'[t] = image[t]
        BY <2>3, <3>1 DEF Changed, Delivered
      <4> QED
        BY <2>1, <4>1 DEF Delivered
    <3>2. CASE u # t
      <4>1. client'[t] = client[t]
        BY <2>3, <3>2
      <4>2. /\ t \in todo[0] => t \in todo'[0]
            /\ r # 0 => todo'[r] = todo[r]
        BY <2>3, <3>2
      <4>3. Unsent(t) => Unsent(t)'
        BY <2>1, <2>3, <4>2
      <4> QED
        BY <2>1, <4>1, <4>3 DEF Delivered
    <3> QED
      BY <3>1, <3>2
  <2> QED
    BY <1>3, <2>2, <2>3 DEF Work
<1>4. CASE Stop
  <2>1. /\ mPc = "stop"
        /\ UNCHANGED <<mi, yuv, picture, todo, stored, ready, cPc, client>>
    BY <1>4 DEF Stop
  <2>2. CASE mi < np /\ complete[mi] /\ mPc' = "check"
    <3>1. mi \in Threads
      BY <2>2 DEF Threads
    <3>2. ~ready[mi] /\ ~Busy(mi)
      BY <2>2, <3>1
    <3>3. Unsent(t) => Unsent(t)'
      BY <2>1, <2>2, <3>1, <3>2
    <3> QED
      BY <2>1, <3>3, <1>same
  <2>3. CASE mi >= np /\ mPc' = "eof"
    <3>1. Unsent(t) => Unsent(t)'
      BY <2>1, <2>3
    <3> QED
      BY <2>1, <3>1, <1>same
  <2> QED
    BY <1>4, <2>2, <2>3 DEF Stop
<1>5. CASE CheckError
  <2>1. /\ mPc = "check" /\ mPc' = "send"
        /\ UNCHANGED <<mi, yuv, picture, todo, stored, events, cPc, client>>
    BY <1>5 DEF CheckError
  <2>2. Unsent(t) => Unsent(t)'
    BY <2>1
  <2> QED
    BY <2>1, <2>2, <1>same
<1>6. CASE Send
  <2>1. /\ mPc = "send" /\ mi < np /\ mi \in Threads
        /\ UNCHANGED <<yuv, picture, todo, events, cPc>>
    BY <1>6 DEF Send, Threads
  <2>2. CASE mPc' = "stop" /\ mi' = mi + 1 /\ UNCHANGED <<stored, client>>
    <3>1. Unsent(t) => Unsent(t)'
      BY <2>1, <2>2
    <3> QED
      BY <2>1, <2>2, <3>1, <1>same
  <2>3. ASSUME NEW s \in stored[mi], client' = [client EXCEPT ![s[1]] = s[2]],
               stored' = [stored EXCEPT ![mi] = @ \ {s}], UNCHANGED <<mPc, mi>>
        PROVE  Delivered(t)'
    <3>1. s \in Tiles \X Nat
      BY <2>1
    <3>2. s[1] \in Tiles
      BY <3>1
    <3>3. CASE s[1] = t
      <4>1. client'[t] = image[t]
        BY <2>1, <2>3, <3>3, <1>sent
      <4> QED
        BY <2>1, <4>1 DEF Delivered
    <3>4. CASE s[1] # t
      <4>1. client'[t] = client[t] /\ s # <<t, image[t]>>
        BY <2>3, <3>2, <3>4
      <4>2. r # 0 /\ <<t, image[t]>> \in stored[r] => <<t, image[t]>> \in stored'[r]
        BY <2>1, <2>3, <4>1
      <4>3. Unsent(t) => Unsent(t)'
        BY <2>1, <2>3, <4>2
      <4> QED
        BY <2>1, <4>1, <4>3 DEF Delivered
    <3> QED
      BY <3>3, <3>4
  <2> QED
    BY <1>6, <2>2, <2>3 DEF Send
<1>7. CASE SendEOF
  <2>1. /\ mPc = "eof" /\ mPc' = "next"
        /\ UNCHANGED <<mi, yuv, picture, todo, stored, events, cPc, client>>
    BY <1>7 DEF SendEOF
  <2> QED
    BY <2>1, <1>same
<1>8. CASE Shutdown
  <2>1. /\ mPc = "shutdown" /\ mPc' \in {"shutdown", "join"}
        /\ UNCHANGED <<yuv, picture, todo, stored, cPc, client>>
    BY <1>8 DEF Shutdown
  <2> QED
    BY <2>1, <1>same
<1>9. CASE Join
  <2>1. /\ mPc = "join" /\ mPc' \in {"join", "exited"}
        /\ UNCHANGED <<yuv, picture, todo, stored, cPc, client>>
    BY <1>9 DEF Join
  <2> QED
    BY <2>1, <1>same
<1>10. CASE EndLoop
  <2>1. /\ mPc = "next" /\ mPc' = "shutdown"
        /\ UNCHANGED <<yuv, picture, todo, stored, events, cPc, client>>
    BY <1>10 DEF EndLoop
  <2> QED
    BY <2>1, <1>same
<1>11. ASSUME NEW i \in Threads, Loop(i) PROVE Delivered(t)'
  <2>1. /\ cPc[i] = "loop" /\ \A j \in Threads \ {i} : cPc'[j] = cPc[j]
        /\ UNCHANGED <<main, picture, todo, stored, events, client>>
    BY <1>11 DEF Loop
  <2>2. Unsent(t) => Unsent(t)'
    BY <2>1
  <2> QED
    BY <2>1, <2>2, <1>same
<1>12. ASSUME NEW i \in Threads, Woken(i) PROVE Delivered(t)'
  <2>1. /\ cPc[i] = "wait" /\ ready[i]
        /\ ready' = [ready EXCEPT ![i] = FALSE]
        /\ \A j \in Threads \ {i} : cPc'[j] = cPc[j]
        /\ \A j \in 0 .. NProcs - 1 : j # i => todo'[j] = todo[j]
        /\ UNCHANGED <<main, picture, stored, client>>
    BY <1>12 DEF Woken
  <2>2. ~deadYet[i] => cPc'[i] = "compress" /\ todo'[i] = TilesOf(i)
    BY <1>12 DEF Woken
  <2>3. Unsent(t) => Unsent(t)'
    <3>1. CASE r = i /\ Out(i)
      <4>1. ~deadYet[i] /\ t \in TilesOf(i)
        BY <3>1
      <4>2. cPc'[r] = "compress" /\ t \in todo'[r]
        BY <2>2, <3>1, <4>1
      <4>3. yuv \/ r = 0 => (Unsent(t) => Unsent(t)')
        BY <2>1, <3>1
      <4> QED
        BY <2>1, <4>2, <4>3
    <3>2. CASE r = i /\ ~Out(i)
      BY <2>1, <3>2
    <3>3. CASE r # i
      BY <2>1, <3>3
    <3> QED
      BY <3>1, <3>2, <3>3
  <2> QED
    BY <2>1, <2>3, <1>same
<1>13. ASSUME NEW i \in Threads, Compress(i) PROVE Delivered(t)'
  <2>1. cPc[i] = "compress" /\ UNCHANGED <<main, picture, events, client>>
    BY <1>13 DEF Compress
  <2>2. ASSUME NEW u \in todo[i],
               todo' = [todo EXCEPT ![i] = @ \ {u}],
               stored' = IF Changed(u)
                         THEN [stored EXCEPT ![i] = @ \cup {<<u, image[u]>>}]
                         ELSE stored,
               UNCHANGED cPc
        PROVE  Delivered(t)'
    <3>1. \A j \in Threads : stored[j] \subseteq stored'[j]
      BY <2>2
    <3>2. CASE u = t /\ ~Changed(t)
      BY <2>1, <3>2 DEF Changed, Delivered
    <3>3. CASE u = t /\ Changed(t)
      <4>1. <<t, image[t]>> \in stored'[i] /\ r = i
        BY <2>2, <3>3, <1>todo
      <4>2. ~yuv
        BY <2>1
      <4> QED
        BY <2>1, <4>1, <4>2, <1>same
    <3>4. CASE u # t
      <4>1. \A j \in 0 .. NProcs - 1 : t \in todo[j] => t \in todo'[j]
        BY <2>2, <3>4
      <4>2. Unsent(t) => Unsent(t)'
        BY <2>1, <2>2, <3>1, <4>1
      <4> QED
        BY <2>1, <4>2, <1>same
    <3> QED
      BY <3>2, <3>3, <3>4
  <2>3. CASE todo[i] = {} /\ cPc' = [cPc EXCEPT ![i] = "signal"]
             /\ UNCHANGED <<todo, stored>>
    <3>1. Unsent(t) => Unsent(t)'
      BY <2>1, <2>3
    <3> QED
      BY <2>1, <3>1, <1>same
  <2>4. CASE cPc' = [cPc EXCEPT ![i] = "catch"]
    BY <2>4 DEF NoneFailed, Failed
  <2> QED
    BY <1>13, <2>2, <2>3, <2>4 DEF Compress
<1>14. ASSUME NEW i \in Threads, Signal(i) PROVE Delivered(t)'
  <2>1. /\ cPc[i] # "compress" /\ \A j \in Threads \ {i} : cPc'[j] = cPc[j]
        /\ UNCHANGED <<main, picture, todo, stored, ready, client>>
    BY <1>14 DEF Signal
  <2>2. Unsent(t) => Unsent(t)'
    BY <2>1
  <2> QED
    BY <2>1, <2>2, <1>same
<1>15. ASSUME NEW i \in Threads, Record(i) PROVE Delivered(t)'
  <2>1. /\ cPc[i] # "compress" /\ \A j \in Threads \ {i} : cPc'[j] = cPc[j]
        /\ UNCHANGED <<main, picture, todo, stored, events, client>>
    BY <1>15 DEF Record
  <2>2. Unsent(t) => Unsent(t)'
    BY <2>1
  <2> QED
    BY <2>1, <2>2, <1>same
<1>16. CASE UNCHANGED vars
  BY <1>16, <1>same DEF vars
<1> QED
  BY <1>1, <1>2, <1>3, <1>4, <1>5, <1>6, <1>7, <1>8, <1>9, <1>10, <1>11,
     <1>12, <1>13, <1>14, <1>15, <1>16
     DEF Next, MainStep, Compressor, Terminated

-----------------------------------------------------------------------------
(* The inductive invariant holds in every behaviour.                         *)
THEOREM Invariance == Spec => []IndInv
<1>1. Init => RendezvousInv /\ StoredInv /\ DeliveryInv
  <2> SUFFICES ASSUME Init PROVE RendezvousInv /\ StoredInv /\ DeliveryInv
    OBVIOUS
  <2>1. RendezvousInv
    BY DEF Init, RendezvousInv, Out, Busy
  <2>2. StoredInv
    BY RankFacts DEF Init, StoredInv
  <2>3. DeliveryInv
    BY DEF Init, DeliveryInv
  <2> QED
    BY <2>1, <2>2, <2>3
<1>2. TypeOK /\ LoopInv /\ RendezvousInv /\ StoredInv /\ DeliveryInv
        /\ [Next]_vars => RendezvousInv' /\ StoredInv' /\ DeliveryInv'
  BY RendezvousStep, StoredStep, DeliveryStep
<1> QED
  BY <1>1, <1>2, TypeCorrect, PTL DEF Spec, IndInv

-----------------------------------------------------------------------------
(* A compressor thread touches the frame and its list of compressed tiles    *)
(* only between the go() and the stop() of that frame.                       *)
THEOREM NoStrayCompression == Spec => []CompressesInWindow
<1>1. IndInv => CompressesInWindow
  <2> SUFFICES ASSUME IndInv, NEW i \in Threads, cPc[i] = "compress", mPc # "failed"
               PROVE  \/ mPc = "go" /\ i < mi
                      \/ mPc = "work" /\ i < np
                      \/ mPc = "stop" /\ mi <= i /\ i < np
                      \/ mPc \in {"check", "send"} /\ mi < i /\ i < np
    BY DEF CompressesInWindow
  <2>1. Out(i)
    BY DEF IndInv, RendezvousInv, Busy
  <2> QED
    BY <2>1 DEF Out
<1> QED
  BY <1>1, Invariance, PTL

(* When the end of a frame has been sent the client has all of it, unless a  *)
(* compressor threw.                                                         *)
THEOREM NoTileMissing == Spec => []FrameWhole
<1>1. IndInv => FrameWhole
  <2> SUFFICES ASSUME IndInv, mPc = "next", \A i \in Threads : ~Failed(i)
               PROVE  client = image
    BY DEF FrameWhole
  <2>1. \A i \in Threads : ~Out(i) /\ ~Busy(i) /\ stored[i] = {}
    BY DEF IndInv, RendezvousInv, StoredInv, Out
  <2>2. ASSUME NEW t \in Tiles PROVE client[t] = image[t]
    <3>1. ~Unsent(t)
      BY <2>1, RankFacts DEF Unsent, Busy
    <3> QED
      BY <3>1 DEF IndInv, DeliveryInv, NoneFailed
  <2> QED
    BY <2>2 DEF IndInv, TypeOK
<1> QED
  BY <1>1, Invariance, PTL
=============================================================================
