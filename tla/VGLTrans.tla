------------------------------ MODULE VGLTrans ------------------------------
(***************************************************************************)
(* The VGL Transport on the server (server/VGLTrans.cpp) together with the  *)
(* application thread that feeds it (VirtualWin::readback, sendVGL).        *)
(*                                                                         *)
(* Two actors.  The APPLICATION THREAD is whichever thread holds            *)
(* VirtualWin::mutex: it obtains a buffer from the pool, reads the pixels   *)
(* into it and puts it in the queue, spoiling what is queued there; the     *)
(* destructor runs under the same mutex, so it is a step of the same actor. *)
(* The SENDER is VGLTrans::run(): it takes a frame, compresses and sends    *)
(* it, and gives back the PREVIOUS frame, which interframe comparison has   *)
(* been reading.  A frame is free when its Event `complete' is set.         *)
(***************************************************************************)
EXTENDS GenericQ, FiniteSets, Functions

CONSTANTS
    Frames,          \* the pool, frames[0 .. NFRAMES - 1]
    SpoilModes,      \* values fconfig.spoil may take at run time
    MayFail,         \* whether a send to the client may throw
    MaxRendered      \* bound: frames the application renders

ASSUME PoolAssumption ==
    /\ IsFiniteSet(Frames) /\ Cardinality(Frames) >= 4   \* NFRAMES = 4
    /\ None \notin Frames /\ None # "app" /\ None # "sender"
ASSUME ModeAssumption ==
    /\ SpoilModes \in SUBSET BOOLEAN /\ SpoilModes # {}
    /\ MayFail \in BOOLEAN
    /\ MaxRendered \in Nat

VARIABLES
    spoil,           \* fconfig.spoil
    complete,        \* Frame::complete of every frame: set = free
    content,         \* number of the rendered frame a buffer holds, 0 = none
    ready,           \* the Event VGLTrans::ready
    deadYet,         \* VGLTrans::deadYet
    lastError,       \* thread->lastError is set
    appPc,           \* where the application thread is in readback()
    appFrame,        \* its frame f in sendVGL()
    sPc,             \* where the sender is in run()
    f, lastf,        \* the sender's locals
    rendered,        \* frames rendered so far
    shown,           \* number of the frame whose end-of-frame went out last
    unspoilable,     \* history: frames that waited in synchronize()
    spoiled          \* history: frames the queue discarded

appVars == <<spoil, appPc, appFrame, rendered, unspoilable>>
senderVars == <<sPc, f, lastf, shown>>
vars == <<qvars, appVars, senderVars, complete, content, ready, deadYet,
          lastError, spoiled>>

Init ==
    /\ QInit
    /\ spoil \in SpoilModes
    /\ complete = [x \in Frames |-> TRUE]
    /\ content = [x \in Frames |-> 0]
    /\ ready = TRUE
    /\ deadYet = FALSE
    /\ lastError = FALSE
    /\ appPc = "idle" /\ appFrame = None
    /\ sPc = "top" /\ f = None /\ lastf = None
    /\ rendered = 0 /\ shown = 0
    /\ unspoilable = {} /\ spoiled = {}

-----------------------------------------------------------------------------
(* The application thread *)

(* readback() is entered: by glFlush() with spoilLast set, otherwise not.    *)
Readback(spoilLast) ==
    /\ appPc = "idle" /\ rendered < MaxRendered
    /\ appPc' = IF spoilLast /\ spoil THEN "isReady" ELSE "mode"
    /\ UNCHANGED <<qvars, spoil, appFrame, rendered, unspoilable, senderVars,
                   complete, content, ready, deadYet, lastError, spoiled>>

(* isReady(): a "spoil last" frame is abandoned when others are queued.      *)
IsReady ==
    /\ appPc = "isReady"
    /\ appPc' = IF lastError THEN "threw"
                ELSE IF items > 0 THEN "idle" ELSE "mode"
    /\ UNCHANGED <<qvars, spoil, appFrame, rendered, unspoilable, senderVars,
                   complete, content, ready, deadYet, lastError, spoiled>>

(* if(!fconfig.spoil) vglconn->synchronize()                                 *)
Mode ==
    /\ appPc = "mode"
    /\ appPc' = IF spoil THEN "getFrame" ELSE "synchronize"
    /\ UNCHANGED <<qvars, spoil, appFrame, rendered, unspoilable, senderVars,
                   complete, content, ready, deadYet, lastError, spoiled>>

(* Mutation: the Event stays set once it has been set.                       *)
synchronize_NoReset ==
    /\ appPc = "synchronize" /\ ready
    /\ appPc' = "getFrame"
    /\ unspoilable' = unspoilable \cup {rendered + 1}
    /\ UNCHANGED <<qvars, spoil, appFrame, rendered, senderVars, complete,
                   content, ready, deadYet, lastError, spoiled>>

synchronize ==
    /\ appPc = "synchronize"
    /\ ready /\ ready' = FALSE
    /\ appPc' = "getFrame"
    /\ unspoilable' = unspoilable \cup {rendered + 1}
    /\ UNCHANGED <<qvars, spoil, appFrame, rendered, senderVars, complete,
                   content, deadYet, lastError, spoiled>>

(* getFrame(): the scan keeps the last free frame it meets, and the sender   *)
(* may free others while it runs, so any free frame may be the one.  It      *)
(* throws "No free buffers in pool" when there is none: PoolNeverExhausted.  *)
getFrame ==
    /\ appPc = "getFrame"
    /\ \/ /\ lastError
          /\ appPc' = "threw"
          /\ UNCHANGED <<appFrame, complete>>
       \/ /\ ~lastError
          /\ \E x \in Frames :
                /\ complete[x]
                /\ appFrame' = x
                /\ complete' = [complete EXCEPT ![x] = FALSE]
          /\ appPc' = "readPixels"
    /\ UNCHANGED <<qvars, spoil, rendered, unspoilable, senderVars, content,
                   ready, deadYet, lastError, spoiled>>

(* The pixels of the new image overwrite the buffer.                         *)
ReadPixels ==
    /\ appPc = "readPixels"
    /\ rendered' = rendered + 1
    /\ content' = [content EXCEPT ![appFrame] = rendered']
    /\ appPc' = "sendFrame"
    /\ UNCHANGED <<qvars, spoil, appFrame, unspoilable, senderVars, complete,
                   ready, deadYet, lastError, spoiled>>

(* sendFrame() checks for an error, then GenericQ::spoil() enters its lock.  *)
sendFrame ==
    /\ appPc = "sendFrame"
    /\ appPc' = IF lastError THEN "threw" ELSE "lock"
    /\ UNCHANGED <<qvars, spoil, appFrame, rendered, unspoilable, senderVars,
                   complete, content, ready, deadYet, lastError, spoiled>>

SpoilLock ==
    /\ appPc = "lock" /\ ~qDead
    /\ QLock("app")
    /\ appPc' = "tryWait"
    /\ UNCHANGED <<spoil, appFrame, rendered, unspoilable, senderVars,
                   complete, content, ready, deadYet, lastError, spoiled>>

SpoilTryWait ==
    /\ appPc = "tryWait"
    /\ IF hasItem > 0 THEN QTake /\ appPc' = "spoil"
                      ELSE UNCHANGED qvars /\ appPc' = "add"
    /\ UNCHANGED <<spoil, appFrame, rendered, unspoilable, senderVars,
                   complete, content, ready, deadYet, lastError, spoiled>>

(* The oldest entry is unlinked and spoilfct() gives its buffer back.        *)
SpoilOldest ==
    /\ appPc = "spoil"
    /\ QPop("app")
    /\ complete' = [complete EXCEPT ![Head(entries)] = TRUE]
    /\ spoiled' = spoiled \cup {content[Head(entries)]}
    /\ appPc' = "tryWait"
    /\ UNCHANGED <<spoil, appFrame, rendered, unspoilable, senderVars,
                   content, ready, deadYet, lastError>>

SpoilAdd ==
    /\ appPc = "add"
    /\ QAppend("app", appFrame)
    /\ appPc' = "idle" /\ appFrame' = None
    /\ UNCHANGED <<spoil, rendered, unspoilable, senderVars, complete,
                   content, ready, deadYet, lastError, spoiled>>

(* The destructor: deadYet, q.release(), thread->stop().                     *)
Destroy ==
    /\ appPc \in {"idle", "threw"}
    /\ deadYet' = TRUE
    /\ appPc' = "release"
    /\ UNCHANGED <<qvars, spoil, appFrame, rendered, unspoilable, senderVars,
                   complete, content, ready, lastError, spoiled>>

Release ==
    /\ \/ appPc = "release" /\ QReleaseMark /\ appPc' = "post"
       \/ appPc = "post" /\ QReleasePost /\ appPc' = "join"
    /\ UNCHANGED <<spoil, appFrame, rendered, unspoilable, senderVars,
                   complete, content, ready, deadYet, lastError, spoiled>>

Join ==
    /\ appPc = "join" /\ sPc = "exited"
    /\ appPc' = "destroyed"
    /\ UNCHANGED <<qvars, spoil, appFrame, rendered, unspoilable, senderVars,
                   complete, content, ready, deadYet, lastError, spoiled>>

(* VGL_SPOIL, or the toggle of the configuration dialog, changes.            *)
Configure ==
    /\ spoil' \in SpoilModes \ {spoil}
    /\ UNCHANGED <<qvars, appPc, appFrame, rendered, unspoilable, senderVars,
                   complete, content, ready, deadYet, lastError, spoiled>>

-----------------------------------------------------------------------------
(* The sender thread *)

senderOnly == <<appVars, complete, content, deadYet, lastError, spoiled>>

(* while(!deadYet), and after the loop the return of run()                   *)
Loop ==
    /\ sPc = "top"
    /\ sPc' = IF deadYet THEN "exited" ELSE "get"
    /\ UNCHANGED <<qvars, f, lastf, shown, ready, senderOnly>>

(* q.get(): returns at once with *item untouched (NULL) from a dead queue,   *)
(* and likewise when the queue dies while it waits for its token.            *)
GetEnter ==
    /\ sPc = "get"
    /\ sPc' = IF qDead THEN "got" ELSE "wait"
    /\ UNCHANGED <<qvars, f, lastf, shown, ready, senderOnly>>

GetWait ==
    /\ sPc = "wait"
    /\ QTake
    /\ sPc' = "pop"
    /\ UNCHANGED <<f, lastf, shown, ready, senderOnly>>

GetPop ==
    /\ sPc = "pop"
    /\ \/ qDead /\ UNCHANGED <<qvars, f>>
       \/ QPop("sender") /\ f' = Head(entries)
    /\ sPc' = "got"
    /\ UNCHANGED <<lastf, shown, ready, senderOnly>>

(* if(deadYet) break; if(!f) _throw("Queue has been shut down");             *)
(* ready.signal().  That the throw cannot happen is part of ControlInv.      *)
Got ==
    /\ sPc = "got"
    /\ \/ deadYet /\ sPc' = "exited" /\ UNCHANGED ready
       \/ ~deadYet /\ f # None /\ ready' = TRUE /\ sPc' = "compress"
    /\ UNCHANGED <<qvars, f, lastf, shown, senderOnly>>

(* compressSend() of every tile of f that differs from lastf, and            *)
(* sendHeader(f->hdr, true); a failing socket throws out of either.          *)
CompressSend ==
    /\ sPc = "compress"
    /\ sPc' \in {"eof"} \cup (IF MayFail THEN {"failed"} ELSE {})
    /\ UNCHANGED <<qvars, f, lastf, shown, ready, senderOnly>>

SendEOF ==
    /\ sPc = "eof"
    /\ \/ sPc' = "sent" /\ shown' = content[f]
       \/ MayFail /\ sPc' = "failed" /\ UNCHANGED shown
    /\ UNCHANGED <<qvars, f, lastf, ready, senderOnly>>

(* Mutation: the frame just sent is given back instead of the previous one.  *)
CompleteLast_Current ==
    /\ sPc = "sent" /\ sPc' = "top"
    /\ complete' = [complete EXCEPT ![f] = TRUE]
    /\ lastf' = f /\ f' = None
    /\ UNCHANGED <<qvars, shown, ready, appVars, content, deadYet, lastError,
                   spoiled>>
(* Mutation: the previous frame is not given back.                           *)
CompleteLast_Leak ==
    /\ sPc = "sent" /\ sPc' = "top"
    /\ lastf' = f /\ f' = None
    /\ UNCHANGED <<qvars, shown, ready, senderOnly>>

(* if(lastf) lastf->signalComplete(); lastf = f;                             *)
CompleteLast ==
    /\ sPc = "sent"
    /\ complete' = IF lastf = None THEN complete
                   ELSE [complete EXCEPT ![lastf] = TRUE]
    /\ lastf' = f /\ f' = None
    /\ sPc' = "top"
    /\ UNCHANGED <<qvars, shown, ready, appVars, content, deadYet, lastError,
                   spoiled>>

(* Mutation: an application waiting in synchronize() is not woken.           *)
Catch_NoSignal ==
    /\ \/ sPc = "failed" /\ lastError' = TRUE /\ sPc' = "wake"
       \/ sPc = "wake" /\ sPc' = "exited" /\ UNCHANGED lastError
    /\ UNCHANGED <<qvars, f, lastf, shown, ready, appVars, complete, content,
                   deadYet, spoiled>>

(* catch: setError() first, ready.signal() second, then the thread ends.     *)
Catch ==
    /\ \/ sPc = "failed" /\ lastError' = TRUE /\ sPc' = "wake"
          /\ UNCHANGED ready
       \/ sPc = "wake" /\ ready' = TRUE /\ sPc' = "exited"
          /\ UNCHANGED lastError
    /\ UNCHANGED <<qvars, f, lastf, shown, appVars, complete, content,
                   deadYet, spoiled>>

-----------------------------------------------------------------------------
(* What the application thread does once it is inside readback() or the      *)
(* destructor; entering either is its own decision.                          *)
AppStep == \/ IsReady \/ Mode \/ synchronize \/ getFrame \/ ReadPixels
           \/ sendFrame \/ SpoilLock \/ SpoilTryWait \/ SpoilOldest
           \/ SpoilAdd \/ Release \/ Join

SenderStep == \/ Loop \/ GetEnter \/ GetWait \/ GetPop \/ Got
              \/ CompressSend \/ SendEOF \/ CompleteLast \/ Catch

(* Nothing is left to do once the transport is destroyed.                    *)
Terminated == appPc = "destroyed" /\ UNCHANGED vars

Next == \/ \E spoilLast \in BOOLEAN : Readback(spoilLast)
        \/ AppStep
        \/ Destroy
        \/ Configure
        \/ SenderStep
        \/ Terminated

(* Both threads are scheduled, the client keeps reading (or the send fails)  *)
(* and no one promises that a further frame is rendered.                     *)
Spec == /\ Init
        /\ [][Next]_vars
        /\ WF_vars(AppStep)
        /\ WF_vars(SenderStep)

-----------------------------------------------------------------------------
(* Properties *)

AppPcs == {"idle", "isReady", "mode", "synchronize", "getFrame", "readPixels",
           "sendFrame", "lock", "tryWait", "spoil", "add", "threw",
           "release", "post", "join", "destroyed"}
SenderPcs == {"top", "get", "wait", "pop", "got", "compress", "eof", "sent",
              "failed", "wake", "exited"}

(* The types of the variables: locks and frames have the owners the code     *)
(* gives them.                                                               *)
TypeOK ==
    /\ entries \in Seq(Frames) /\ hasItem \in Nat
    /\ qDead \in BOOLEAN /\ qMutex \in {None, "app"}
    /\ spoil \in BOOLEAN /\ ready \in BOOLEAN /\ deadYet \in BOOLEAN
    /\ lastError \in BOOLEAN
    /\ complete \in [Frames -> BOOLEAN] /\ content \in [Frames -> Nat]
    /\ appPc \in AppPcs /\ appFrame \in Frames \cup {None}
    /\ sPc \in SenderPcs
    /\ f \in Frames \cup {None} /\ lastf \in Frames \cup {None}
    /\ rendered \in Nat /\ shown \in Nat
    /\ unspoilable \in SUBSET Nat /\ spoiled \in SUBSET Nat

(* Whenever the application asks for a buffer, one of the pool is free:      *)
(* the "No free buffers in pool" of getFrame() is never thrown, however the  *)
(* queue, the sender and the frame kept for comparison are interleaved.      *)
PoolNeverExhausted == appPc = "getFrame" => \E x \in Frames : complete[x]

Queued == Range(entries)

(* The buffer the application draws into is neither queued, nor being        *)
(* compressed, nor the one the sender compares with, nor queued twice: no    *)
(* pixel is overwritten while it is read.                                    *)
FramesDisjoint ==
    /\ appFrame # None => /\ appFrame \notin Queued
                          /\ appFrame # f /\ appFrame # lastf
    /\ IsInjective(entries)
    /\ f # None => f \notin Queued /\ f # lastf

(* Interframe comparison skips the tiles equal to lastf's, so lastf must     *)
(* hold the frame the client was last sent in full, until it is replaced.    *)
LastFrameIsShown ==
    lastf # None /\ sPc # "sent" => content[lastf] = shown /\ ~complete[lastf]

(* A frame rendered with spoiling off does not discard another that was      *)
(* rendered with spoiling off.  (That a frame rendered after spoiling has    *)
(* been turned on again may discard one is no part of it.)                   *)
SpoilingOffIsLossless ==
    appPc = "spoil" /\ rendered \in unspoilable
        => content[Head(entries)] \notin unspoilable

(* As long as every readback() has waited in synchronize(), the queue has    *)
(* discarded nothing: each signal of `ready' pays for one frame.             *)
LosslessThroughout == 1 .. rendered \subseteq unspoilable => spoiled = {}

(* Frames go out in the order in which they were rendered, none twice.       *)
ShownInOrder == [][shown' # shown => shown' > shown]_vars

(* A frame the application has sent is displayed, or overtaken by a newer    *)
(* one that is, unless the transport fails or is destroyed.                  *)
FrameGetsThrough ==
    \A n \in 1 .. MaxRendered :
        (rendered >= n /\ appPc = "idle")
            ~> (shown >= n \/ lastError \/ deadYet)

(* The application thread is never left waiting inside readback() or the     *)
(* destructor: not in synchronize() for a sender that died or for a signal   *)
(* that was consumed, not in thread->stop() for a sender that sleeps.        *)
ReadbackReturns ==
    (appPc \notin {"idle", "threw", "destroyed"})
        ~> (appPc \in {"idle", "threw", "destroyed"})

(* A sender failure reaches the application: a readback() that starts after  *)
(* it ends in an exception, whatever it was configured to wait for.          *)
FailureReported ==
    (lastError /\ appPc \in {"isReady", "mode", "synchronize"})
        ~> (appPc = "threw")

-----------------------------------------------------------------------------
(* The inductive invariant                                                   *)

(* Where each thread may be, given the flags and the lock.                   *)
ControlInv ==
    /\ deadYet <=> appPc \in {"release", "post", "join", "destroyed"}
    /\ qDead <=> appPc \in {"post", "join", "destroyed"}
    /\ qMutex = (IF appPc \in {"tryWait", "spoil", "add"} THEN "app" ELSE None)
    /\ appPc \in {"readPixels", "sendFrame", "lock", "tryWait", "spoil", "add"}
          => appFrame # None
    /\ appPc \in {"idle", "isReady", "mode", "synchronize", "getFrame"}
          => appFrame = None
    /\ sPc \in {"compress", "eof", "sent"} => f # None
    /\ sPc \in {"top", "get", "wait", "pop"} => f = None
    /\ sPc = "got" /\ f = None => deadYet

(* Tokens out: taken from the semaphore, their entry still in the list.      *)
Claims == (IF sPc = "pop" THEN 1 ELSE 0) + (IF appPc = "spoil" THEN 1 ELSE 0)

(* Until the queue is released, list and semaphore differ by the claims, and *)
(* a producer that spoils before it adds never leaves more than one token.   *)
TokenInv ==
    /\ ~qDead => Len(entries) = hasItem + Claims /\ hasItem <= 1
    /\ appPc \in {"spoil", "add"} => hasItem = 0
    /\ Len(entries) <= 2
    /\ Len(entries) = 2 => sPc = "pop" \/ deadYet

(* Every frame that is not free has exactly one holder.                      *)
OwnershipInv ==
    /\ \A x \in Frames :
          ~complete[x] <=> x = appFrame \/ x = f \/ x = lastf \/ x \in Queued
    /\ FramesDisjoint
    /\ lastf # None => lastf \notin Queued

(* The numbers of the frames under way increase from what is shown to what   *)
(* was rendered last.                                                        *)
OrderInv ==
    /\ shown <= rendered
    /\ \A i \in DOMAIN entries : /\ shown < content[entries[i]]
                                 /\ content[entries[i]] <= rendered
    /\ \A i, j \in DOMAIN entries :
          i < j => content[entries[i]] < content[entries[j]]
    /\ sPc \in {"got", "compress", "eof"} /\ f # None =>
          /\ shown < content[f] /\ content[f] <= rendered
          /\ \A i \in DOMAIN entries : content[f] < content[entries[i]]
    /\ appPc \in {"sendFrame", "lock", "tryWait", "spoil", "add"} =>
          /\ content[appFrame] = rendered /\ shown < rendered
          /\ \A i \in DOMAIN entries : content[entries[i]] < rendered
          /\ sPc \in {"got", "compress", "eof"} /\ f # None
                => content[f] < rendered
    /\ sPc = "sent" => content[f] = shown
    /\ lastf # None /\ sPc # "sent" => content[lastf] = shown

(* Frames sent that the sender has not yet signalled `ready' for.            *)
Owed == Len(entries) + (IF sPc = "got" /\ f # None THEN 1 ELSE 0)

(* The application has waited for the frame it is about to add.              *)
Waited == \/ appPc \in {"sendFrame", "lock", "tryWait", "add"}
          \/ /\ rendered + 1 \in unspoilable
             /\ appPc = "readPixels" \/ (appPc = "getFrame" /\ ~lastError)

(* While every frame has waited in synchronize(), the one signal there is    *)
(* says that nothing is owed, and whoever consumed it offers the only frame. *)
LosslessInv ==
    /\ sPc = "wake" => lastError
    /\ \A n \in unspoilable : n <= rendered + 1
    /\ rendered + 1 \in unspoilable =>
          appPc \in {"getFrame", "readPixels", "threw", "release", "post",
                    "join", "destroyed"}
    /\ 1 .. rendered \subseteq unspoilable =>
          /\ spoiled = {} /\ appPc # "spoil" /\ Owed <= 1
          /\ ready /\ ~lastError => Owed = 0
          /\ Waited => Owed = 0 /\ (ready => lastError)

IndInv == /\ TypeOK /\ ControlInv /\ TokenInv /\ OwnershipInv /\ OrderInv
          /\ LosslessInv

-----------------------------------------------------------------------------
(* The transport implements FrameChannel.                                    *)

inFlight == IF f # None /\ sPc \in {"got", "compress", "eof"}
            THEN <<content[f]>> ELSE <<>>

Channel == INSTANCE FrameChannel WITH
    MaySpoil <- TRUE \in SpoilModes,
    Depth    <- 2,
    newest   <- rendered,
    offering <- appFrame # None /\ appPc # "readPixels",
    pending  <- inFlight \o [i \in DOMAIN entries |-> content[entries[i]]],
    shown    <- shown,
    open     <- sPc \notin {"failed", "wake"} /\ ~lastError /\ ~deadYet

(* Whatever the threads do, the application sees the channel it was          *)
(* promised; without spoiling, one that drops nothing.                       *)
ImplementsChannel == Channel!ChannelSpec
=============================================================================
