---------------------------- MODULE Compressors -----------------------------
(***************************************************************************)
(* The inside of the sender's CompressSend step when more than one CPU is   *)
(* used: VGLTrans::run() splits each frame over Compressor 0, which it runs *)
(* itself, and Compressors 1 .. NProcs-1, one thread each (VGLTrans.h       *)
(* 68-142).  Two Events per thread make the rendezvous: go() hands out the  *)
(* frame, stop() waits until the thread has put its compressed tiles away;  *)
(* only then does the main thread send them, because one socket carries     *)
(* them all.  Tile n belongs to the Compressor of rank n % NProcs.          *)
(***************************************************************************)
EXTENDS Naturals, FiniteSets

CONSTANTS
    NProcs,          \* fconfig.np
    NTiles,          \* tiles of a frame
    SocketFails,     \* whether a send to the client may throw
    CompressFails,   \* whether compressing a tile may throw
    MaxFrames        \* bound: frames sent

ASSUME CompressorsAssumption ==
    /\ NProcs \in Nat /\ NProcs >= 1 /\ NTiles \in Nat /\ MaxFrames \in Nat
    /\ SocketFails \in BOOLEAN /\ CompressFails \in BOOLEAN

Tiles == 0 .. NTiles - 1
Threads == 1 .. NProcs - 1
TilesOf(rank) == {t \in Tiles : t % NProcs = rank}

VARIABLES
    mPc, mi,         \* where the main thread is in run(), its loop index i
    yuv,             \* f->hdr.compress == RRCOMP_YUV
    frame,           \* number of the frame f
    image,           \* per tile of f, the frame in which it last changed
    todo,            \* tiles that a Compressor has not looked at yet
    stored,          \* cframes[] of each thread: pairs of tile and version
    ready, complete, \* the two Events of each thread's Compressor
    deadYet,         \* its flag deadYet
    cPc,             \* where the thread is in Compressor::run()
    lastError,       \* cthread[i]->lastError is set
    client           \* per tile, the version the client has been sent

main == <<mPc, mi, yuv>>
np == IF yuv THEN 1 ELSE NProcs   \* CPUs used for this frame
picture == <<frame, image>>
events == <<ready, complete, deadYet>>
vars == <<main, picture, todo, stored, events, cPc, lastError, client>>

(* Mutation: the constructor leaves the Event as Event::Event() sets it.     *)
Init_Set ==
    /\ mPc = "next" /\ mi = 1 /\ yuv = FALSE
    /\ frame = 0 /\ image = [t \in Tiles |-> 0]
    /\ todo = [i \in 0 .. NProcs - 1 |-> {}]
    /\ stored = [i \in Threads |-> {}]
    /\ ready = [i \in Threads |-> FALSE]
    /\ complete = [i \in Threads |-> TRUE]
    /\ deadYet = [i \in Threads |-> FALSE]
    /\ cPc = [i \in Threads |-> "loop"]
    /\ lastError = [i \in Threads |-> FALSE]
    /\ client = [t \in Tiles |-> 0]

(* The constructor waits for both Events once, which leaves them reset.      *)
Init ==
    /\ mPc = "next" /\ mi = 1 /\ yuv = FALSE
    /\ frame = 0 /\ image = [t \in Tiles |-> 0]
    /\ todo = [i \in 0 .. NProcs - 1 |-> {}]
    /\ stored = [i \in Threads |-> {}]
    /\ ready = [i \in Threads |-> FALSE]
    /\ complete = [i \in Threads |-> FALSE]
    /\ deadYet = [i \in Threads |-> FALSE]
    /\ cPc = [i \in Threads |-> "loop"]
    /\ lastError = [i \in Threads |-> FALSE]
    /\ client = [t \in Tiles |-> 0]

-----------------------------------------------------------------------------
(* The main thread, VGLTrans::run() *)

(* q.get() delivers a frame of which some tiles equal the last frame's; a    *)
(* YUV frame is compressed whole and by this thread alone.                   *)
NextFrame(changed) ==
    /\ mPc = "next" /\ frame < MaxFrames
    /\ frame' = frame + 1
    /\ image' = [t \in Tiles |-> IF t \in changed THEN frame' ELSE image[t]]
    /\ yuv' \in BOOLEAN
    /\ mi' = 1 /\ mPc' = "go"
    /\ UNCHANGED <<todo, stored, events, cPc, lastError, client>>

(* for(i = 1; i < np; i++) { cthread[i]->checkError();  comp[i]->go(); }     *)
Go ==
    /\ mPc = "go"
    /\ \/ /\ mi < np /\ lastError[mi]
          /\ mPc' = "failed" /\ UNCHANGED <<mi, ready, todo>>
       \/ /\ mi < np /\ ~lastError[mi]
          /\ ready' = [ready EXCEPT ![mi] = TRUE]
          /\ mi' = mi + 1 /\ UNCHANGED <<mPc, todo>>
       \/ /\ mi >= np
          /\ mPc' = "work" /\ mi' = 1 /\ UNCHANGED ready
          /\ todo' = [todo EXCEPT ![0] = IF yuv THEN Tiles ELSE TilesOf(0)]
    /\ UNCHANGED <<yuv, picture, stored, complete, deadYet, cPc, lastError,
                   client>>

Changed(t) == image[t] = frame

(* comp[0]->compressSend(): a tile that differs is sent at once.             *)
Work ==
    /\ mPc = "work"
    /\ \/ /\ todo[0] = {}
          /\ mPc' = "stop" /\ UNCHANGED <<todo, client>>
       \/ \E t \in todo[0] :
             /\ todo' = [todo EXCEPT ![0] = @ \ {t}]
             /\ client' = IF Changed(t) \/ yuv
                          THEN [client EXCEPT ![t] = image[t]] ELSE client
             /\ UNCHANGED mPc
       \/ /\ SocketFails /\ mPc' = "failed" /\ UNCHANGED <<todo, client>>
    /\ UNCHANGED <<mi, yuv, picture, stored, events, cPc, lastError>>

(* Mutation: stop() returns without waiting.                                 *)
Stop_NoWait ==
    /\ mPc = "stop"
    /\ IF mi < np THEN mPc' = "check" ELSE mPc' = "eof"
    /\ UNCHANGED <<mi, yuv, picture, todo, stored, events, cPc, lastError,
                   client>>

(* comp[i]->stop(), for(i = 1; i < np; i++)                                  *)
Stop ==
    /\ mPc = "stop"
    /\ \/ /\ mi < np /\ complete[mi]
          /\ complete' = [complete EXCEPT ![mi] = FALSE]
          /\ mPc' = "check"
       \/ mi >= np /\ mPc' = "eof" /\ UNCHANGED complete
    /\ UNCHANGED <<mi, yuv, picture, todo, stored, ready, deadYet, cPc,
                   lastError, client>>

(* cthread[i]->checkError()                                                  *)
CheckError ==
    /\ mPc = "check"
    /\ mPc' = IF lastError[mi] THEN "failed" ELSE "send"
    /\ UNCHANGED <<mi, yuv, picture, todo, stored, events, cPc, lastError,
                   client>>

(* comp[i]->send(): everything the thread stored, then storedFrames = 0      *)
Send ==
    /\ mPc = "send"
    /\ \/ /\ stored[mi] = {} /\ mPc' = "stop" /\ mi' = mi + 1
          /\ UNCHANGED <<stored, client>>
       \/ \E s \in stored[mi] : /\ client' = [client EXCEPT ![s[1]] = s[2]]
                                /\ stored' = [stored EXCEPT ![mi] = @ \ {s}]
                                /\ UNCHANGED <<mPc, mi>>
       \/ SocketFails /\ mPc' = "failed" /\ UNCHANGED <<mi, stored, client>>
    /\ UNCHANGED <<yuv, picture, todo, events, cPc, lastError>>

(* sendHeader(f->hdr, true): the client may display what it was sent.        *)
SendEOF ==
    /\ mPc = "eof"
    /\ mPc' \in {"next"} \cup (IF SocketFails THEN {"failed"} ELSE {})
    /\ UNCHANGED <<mi, yuv, picture, todo, stored, events, cPc, lastError,
                   client>>

(* The transport's own deadYet ends the loop ...                             *)
EndLoop ==
    /\ mPc = "next" /\ mPc' = "shutdown" /\ mi' = 1
    /\ UNCHANGED <<yuv, picture, todo, stored, events, cPc, lastError, client>>

(* Mutation: the flag is set, the thread that waits is not woken.            *)
Shutdown_NoSignal ==
    /\ mPc = "shutdown"
    /\ IF mi < NProcs
       THEN /\ deadYet' = [deadYet EXCEPT ![mi] = TRUE]
            /\ mi' = mi + 1 /\ UNCHANGED mPc
       ELSE mPc' = "join" /\ mi' = 1 /\ UNCHANGED deadYet
    /\ UNCHANGED <<yuv, picture, todo, stored, ready, complete, cPc, lastError,
                   client>>

(* ... comp[i]->shutdown() for every i ...                                   *)
Shutdown ==
    /\ mPc = "shutdown"
    /\ IF mi < NProcs
       THEN /\ deadYet' = [deadYet EXCEPT ![mi] = TRUE]
            /\ ready' = [ready EXCEPT ![mi] = TRUE]
            /\ mi' = mi + 1 /\ UNCHANGED mPc
       ELSE mPc' = "join" /\ mi' = 1 /\ UNCHANGED <<deadYet, ready>>
    /\ UNCHANGED <<yuv, picture, todo, stored, complete, cPc, lastError, client>>

(* ... cthread[i]->stop() and checkError(), and run() returns.               *)
Join ==
    /\ mPc = "join"
    /\ IF mi < NProcs
       THEN /\ cPc[mi] = "exited"
            /\ mPc' = IF lastError[mi] THEN "failed" ELSE "join"
            /\ mi' = mi + 1
       ELSE mPc' = "exited" /\ UNCHANGED mi
    /\ UNCHANGED <<yuv, picture, todo, stored, events, cPc, lastError, client>>

-----------------------------------------------------------------------------
(* A compressor thread, Compressor::run() under Thread::threadFunc() *)

(* while(!deadYet)                                                           *)
Loop(i) ==
    /\ cPc[i] = "loop"
    /\ cPc' = [cPc EXCEPT ![i] = IF deadYet[i] THEN "exited" ELSE "wait"]
    /\ UNCHANGED <<main, picture, todo, stored, events, lastError, client>>

(* ready.wait();  if(deadYet) break;                                         *)
Woken(i) ==
    /\ cPc[i] = "wait" /\ ready[i]
    /\ ready' = [ready EXCEPT ![i] = FALSE]
    /\ IF deadYet[i]
       THEN cPc' = [cPc EXCEPT ![i] = "exited"] /\ UNCHANGED todo
       ELSE /\ cPc' = [cPc EXCEPT ![i] = "compress"]
            /\ todo' = [todo EXCEPT ![i] = TilesOf(i)]
    /\ UNCHANGED <<main, picture, stored, complete, deadYet, lastError, client>>

(* compressSend(): a tile that differs is compressed and stored.             *)
Compress(i) ==
    /\ cPc[i] = "compress"
    /\ \/ \E t \in todo[i] :
             /\ todo' = [todo EXCEPT ![i] = @ \ {t}]
             /\ stored' = IF Changed(t)
                          THEN [stored EXCEPT ![i] = @ \cup {<<t, image[t]>>}]
                          ELSE stored
             /\ UNCHANGED cPc
       \/ /\ todo[i] = {} /\ cPc' = [cPc EXCEPT ![i] = "signal"]
          /\ UNCHANGED <<todo, stored>>
       \/ /\ CompressFails /\ todo[i] # {}
          /\ cPc' = [cPc EXCEPT ![i] = "catch"] /\ UNCHANGED <<todo, stored>>
    /\ UNCHANGED <<main, picture, events, lastError, client>>

(* complete.signal(), on the way round the loop or out of the catch block    *)
Signal(i) ==
    /\ cPc[i] \in {"signal", "catch"}
    /\ complete' = [complete EXCEPT ![i] = TRUE]
    /\ cPc' = [cPc EXCEPT ![i] = IF @ = "signal" THEN "loop" ELSE "threw"]
    /\ UNCHANGED <<main, picture, todo, stored, ready, deadYet, lastError,
                   client>>

(* The exception reaches threadFunc(), which records it only now.            *)
Record(i) ==
    /\ cPc[i] = "threw"
    /\ lastError' = [lastError EXCEPT ![i] = TRUE]
    /\ cPc' = [cPc EXCEPT ![i] = "exited"]
    /\ UNCHANGED <<main, picture, todo, stored, events, client>>

-----------------------------------------------------------------------------
MainStep == \/ Go \/ Work \/ Stop \/ CheckError \/ Send \/ SendEOF
            \/ Shutdown \/ Join

Compressor(i) == Loop(i) \/ Woken(i) \/ Compress(i) \/ Signal(i) \/ Record(i)

(* run() has ended, by itself or with an exception.                          *)
Terminated == mPc \in {"exited", "failed"} /\ UNCHANGED vars

Next == \/ \E changed \in SUBSET Tiles : NextFrame(changed)
        \/ MainStep \/ EndLoop
        \/ \E i \in Threads : Compressor(i)
        \/ Terminated

(* Every thread is scheduled; frames come and the end comes when they do.    *)
Spec == /\ Init /\ [][Next]_vars
        /\ WF_vars(MainStep)
        /\ \A i \in Threads : WF_vars(Compressor(i))

-----------------------------------------------------------------------------
(* Properties *)

(* A thread whose compressSend() threw.                                      *)
Failed(i) == cPc[i] \in {"catch", "threw"} \/ lastError[i]

(* Once the end of a frame has been sent, the client has every tile of it,   *)
(* those it was not sent because interframe comparison found them unchanged  *)
(* included: no thread compressed an older frame, or was skipped.  Only a    *)
(* compressor that threw may leave a frame with tiles missing.               *)
FrameWhole == mPc = "next" /\ (\A i \in Threads : ~Failed(i)) => client = image

(* A compressor thread reads the frame and writes its list of compressed     *)
(* tiles only between go() and stop(), so neither is used by two threads and *)
(* no frame is given back while it is read.  (It may when run() fails.)      *)
CompressesInWindow ==
    \A i \in Threads :
        cPc[i] = "compress" /\ mPc # "failed" =>
            \/ mPc = "go" /\ i < mi
            \/ mPc = "work" /\ i < np
            \/ mPc = "stop" /\ mi <= i /\ i < np
            \/ mPc \in {"check", "send"} /\ mi < i /\ i < np

(* run() never hangs in stop() or in the join of a thread: every frame is    *)
(* dealt with, and the destructor's thread->stop() returns.  Only when a     *)
(* compressor has thrown can stop() wait for ever, for that very thread.     *)
SenderAdvances ==
    (mPc # "next") ~> \/ mPc \in {"next", "exited", "failed"}
                      \/ mPc = "stop" /\ mi < np /\ Failed(mi)
=============================================================================
