------------------------------ MODULE X11Trans ------------------------------
(***************************************************************************)
(* The X11 Transport (server/X11Trans.cpp) and the application thread that  *)
(* feeds it (VirtualWin::sendX11).  The pool has one buffer less than the   *)
(* VGL Transport's, because the worker keeps no frame for comparison: it    *)
(* draws a frame into the window and gives it back.  A readback made while  *)
(* fconfig.sync is set by-passes the queue: the application thread draws    *)
(* the frame itself before it returns.                                      *)
(***************************************************************************)
EXTENDS GenericQ, FiniteSets, Functions

CONSTANTS
    Frames,          \* the pool, frames[0 .. NFRAMES - 1]
    SpoilModes,      \* values fconfig.spoil may take at run time
    SyncModes,       \* values of fconfig.sync
    MayFail,         \* whether FBXFrame::redraw() may throw
    MaxRendered      \* bound: frames the application renders

ASSUME X11PoolAssumption ==
    /\ IsFiniteSet(Frames) /\ Cardinality(Frames) >= 3   \* NFRAMES = 3
    /\ None \notin Frames /\ None # "app" /\ None # "worker"
ASSUME X11ModeAssumption ==
    /\ SpoilModes \in SUBSET BOOLEAN /\ SpoilModes # {}
    /\ SyncModes \in SUBSET BOOLEAN /\ SyncModes # {}
    /\ MayFail \in BOOLEAN /\ MaxRendered \in Nat

VARIABLES
    spoil, sync,     \* fconfig.spoil, fconfig.sync
    switching,       \* whether sync ever changes: fixed in Init
    complete,        \* Event `complete' of every buffer: set = free
    content,         \* number of the rendered frame a buffer holds, 0 = none
    ready,           \* the Event X11Trans::ready
    deadYet,         \* X11Trans::deadYet
    lastError,       \* thread->lastError is set
    appPc, appFrame, \* the application thread in sendX11(), its frame f
    syncArg,         \* the argument `sync' of the readback under way
    wPc, f,          \* the worker in run(), its frame f
    rendered,        \* frames rendered so far
    window,          \* number of the frame the window shows
    behind           \* history: see DrawDirect

config == <<spoil, sync, switching>>
app == <<appPc, appFrame, syncArg, rendered>>
worker == <<wPc, f>>
pool == <<complete, content>>
flags == <<ready, deadYet, lastError>>
display == <<window, behind>>
vars == <<qvars, config, app, worker, pool, flags, display>>

Init ==
    /\ QInit
    /\ spoil \in SpoilModes /\ sync \in SyncModes /\ switching \in BOOLEAN
    /\ complete = [x \in Frames |-> TRUE]
    /\ content = [x \in Frames |-> 0]
    /\ ready = TRUE /\ deadYet = FALSE /\ lastError = FALSE
    /\ appPc = "idle" /\ appFrame = None /\ syncArg = FALSE
    /\ wPc = "top" /\ f = None
    /\ rendered = 0 /\ window = 0 /\ behind = {}

-----------------------------------------------------------------------------
(* The application thread *)

(* The application is at `from' and goes to `to'; it keeps frame and count.  *)
AppGoes(from, to) == /\ appPc = from /\ appPc' = to
                     /\ UNCHANGED <<appFrame, syncArg, rendered>>

(* readback(drawBuf, spoilLast, fconfig.sync)                                *)
Readback(spoilLast) ==
    /\ appPc = "idle" /\ rendered < MaxRendered
    /\ appPc' = IF spoilLast /\ spoil THEN "isReady" ELSE "mode"
    /\ syncArg' = sync
    /\ UNCHANGED <<qvars, config, appFrame, rendered, worker, pool, flags,
                   display>>

IsReady ==
    /\ AppGoes("isReady", IF lastError THEN "threw"
                          ELSE IF items > 0 THEN "idle" ELSE "mode")
    /\ UNCHANGED <<qvars, config, worker, pool, flags, display>>

Mode ==
    /\ AppGoes("mode", IF spoil THEN "getFrame" ELSE "synchronize")
    /\ UNCHANGED <<qvars, config, worker, pool, flags, display>>

synchronize ==
    /\ AppGoes("synchronize", "getFrame")
    /\ ready /\ ready' = FALSE
    /\ UNCHANGED <<qvars, config, worker, pool, deadYet, lastError, display>>

(* An unallocated slot counts as free; which free slot the scan ends on      *)
(* depends on what the worker frees meanwhile.                               *)
getFrame ==
    /\ appPc = "getFrame"
    /\ \/ lastError /\ appPc' = "threw" /\ UNCHANGED <<appFrame, complete>>
       \/ /\ ~lastError
          /\ \E x \in Frames : /\ complete[x]
                               /\ appFrame' = x
                               /\ complete' = [complete EXCEPT ![x] = FALSE]
          /\ appPc' = "readPixels"
    /\ UNCHANGED <<qvars, config, syncArg, rendered, worker, content, flags,
                   display>>

ReadPixels ==
    /\ appPc = "readPixels" /\ appPc' = "sendFrame"
    /\ rendered' = rendered + 1
    /\ content' = [content EXCEPT ![appFrame] = rendered']
    /\ UNCHANGED <<qvars, config, appFrame, syncArg, worker, complete, flags,
                   display>>

sendFrame ==
    /\ AppGoes("sendFrame", IF lastError THEN "threw"
                            ELSE IF syncArg THEN "redraw" ELSE "lock")
    /\ UNCHANGED <<qvars, config, worker, pool, flags, display>>

(* The buffer the worker is about to draw, and the numbers of all the frames *)
(* that it has in hand or will draw later.                                   *)
InHand == IF f # None /\ wPc \in {"got", "redraw"} THEN {f} ELSE {}
UnderWay == {content[x] : x \in Range(entries) \cup InHand}

(* The caller's own redraw() of its frame, and the frames that are under way *)
(* to the worker then                                                        *)
DrawDirect == window' = content[appFrame] /\ behind' = UnderWay

(* Mutation: the next readback is not told that this one is done.            *)
RedrawSync_NoSignal ==
    /\ appPc = "redraw" /\ appPc' = "idle"
    /\ appFrame' = None
    /\ complete' = [complete EXCEPT ![appFrame] = TRUE]
    /\ DrawDirect
    /\ UNCHANGED <<qvars, config, syncArg, rendered, worker, content, flags>>
(* Mutation: the frame is queued as well (no else).                          *)
RedrawSync_ThenQueued ==
    /\ AppGoes("redraw", "lock")
    /\ DrawDirect
    /\ UNCHANGED <<qvars, config, worker, pool, flags>>

(* sync: redraw, signalComplete, ready.signal, all in the caller's thread;   *)
(* when redraw throws, the exception leaves with the frame still taken.      *)
RedrawSync ==
    /\ appPc = "redraw"
    /\ \/ /\ appPc' = "idle" /\ appFrame' = None
          /\ DrawDirect
          /\ complete' = [complete EXCEPT ![appFrame] = TRUE]
          /\ ready' = TRUE
       \/ /\ MayFail /\ appPc' = "threw"
          /\ UNCHANGED <<appFrame, display, complete, ready>>
    /\ UNCHANGED <<qvars, config, syncArg, rendered, worker, content, deadYet,
                   lastError>>

(* else q.spoil(f, spoilfct)                                                 *)
SpoilLock ==
    /\ AppGoes("lock", "tryWait") /\ ~qDead
    /\ QLock("app")
    /\ UNCHANGED <<config, worker, pool, flags, display>>

SpoilTryWait ==
    /\ AppGoes("tryWait", IF hasItem > 0 THEN "spoil" ELSE "add")
    /\ IF hasItem > 0 THEN QTake ELSE UNCHANGED qvars
    /\ UNCHANGED <<config, worker, pool, flags, display>>

(* Mutation: the item spoiled is not given back.                             *)
SpoilOldest_Leak ==
    /\ AppGoes("spoil", "tryWait")
    /\ QPop("app")
    /\ UNCHANGED <<config, worker, pool, flags, display>>

SpoilOldest ==
    /\ AppGoes("spoil", "tryWait")
    /\ QPop("app")
    /\ complete' = [complete EXCEPT ![Head(entries)] = TRUE]
    /\ UNCHANGED <<config, worker, content, flags, display>>

SpoilAdd ==
    /\ appPc = "add" /\ appPc' = "idle" /\ appFrame' = None
    /\ QAppend("app", appFrame)
    /\ UNCHANGED <<config, syncArg, rendered, worker, pool, flags, display>>

(* ~X11Trans(): deadYet, q.release(), thread->stop(), delete frames[i].      *)
Destroy ==
    /\ \E from \in {"idle", "threw"} : AppGoes(from, "release")
    /\ deadYet' = TRUE
    /\ UNCHANGED <<qvars, config, worker, pool, ready, lastError, display>>

Release ==
    /\ \/ AppGoes("release", "post") /\ QReleaseMark
       \/ AppGoes("post", "join") /\ QReleasePost
    /\ UNCHANGED <<config, worker, pool, flags, display>>

Join ==
    /\ AppGoes("join", "destroyed") /\ wPc = "exited"
    /\ UNCHANGED <<qvars, config, worker, pool, flags, display>>

(* fconfig_reloadenv(), or the configuration dialog, changes a setting.      *)
Configure ==
    /\ \/ spoil' \in SpoilModes \ {spoil} /\ UNCHANGED sync
       \/ switching /\ sync' \in SyncModes \ {sync} /\ UNCHANGED spoil
    /\ UNCHANGED <<switching, qvars, app, worker, pool, flags, display>>

-----------------------------------------------------------------------------
(* The worker thread *)

Loop ==
    /\ wPc = "top" /\ wPc' = IF deadYet THEN "exited" ELSE "get"
    /\ UNCHANGED <<qvars, config, app, f, pool, flags, display>>

GetEnter ==
    /\ wPc = "get" /\ wPc' = IF qDead THEN "got" ELSE "wait"
    /\ UNCHANGED <<qvars, config, app, f, pool, flags, display>>

GetWait ==
    /\ wPc = "wait" /\ wPc' = "pop"
    /\ QTake
    /\ UNCHANGED <<config, app, f, pool, flags, display>>

GetPop ==
    /\ wPc = "pop" /\ wPc' = "got"
    /\ \/ qDead /\ UNCHANGED <<qvars, f>>
       \/ QPop("worker") /\ f' = Head(entries)
    /\ UNCHANGED <<config, app, pool, flags, display>>

(* Mutation: the buffer is given back before it is drawn.                    *)
Got_Early ==
    /\ wPc = "got"
    /\ \/ deadYet /\ wPc' = "exited" /\ UNCHANGED <<ready, complete>>
       \/ /\ ~deadYet /\ f # None /\ ready' = TRUE /\ wPc' = "redraw"
          /\ complete' = [complete EXCEPT ![f] = TRUE]
    /\ UNCHANGED <<qvars, config, app, f, content, deadYet, lastError, display>>

(* if(deadYet) return; if(!f) _throw(...), impossible; ready.signal()        *)
Got ==
    /\ wPc = "got"
    /\ \/ deadYet /\ wPc' = "exited" /\ UNCHANGED ready
       \/ ~deadYet /\ f # None /\ ready' = TRUE /\ wPc' = "redraw"
    /\ UNCHANGED <<qvars, config, app, f, pool, deadYet, lastError, display>>

(* f->redraw(), then the sleeps that pace the worker                         *)
Redraw ==
    /\ wPc = "redraw"
    /\ \/ wPc' = "drawn" /\ window' = content[f]
       \/ MayFail /\ wPc' = "failed" /\ UNCHANGED window
    /\ UNCHANGED <<qvars, config, app, f, pool, flags, behind>>

SignalComplete ==
    /\ wPc = "drawn" /\ wPc' = "top"
    /\ complete' = [complete EXCEPT ![f] = TRUE]
    /\ f' = None
    /\ UNCHANGED <<qvars, config, app, content, flags, display>>

(* catch: setError(), ready.signal(), and the thread ends                    *)
Catch ==
    /\ \/ wPc = "failed" /\ wPc' = "wake" /\ lastError' = TRUE
          /\ UNCHANGED ready
       \/ wPc = "wake" /\ wPc' = "exited" /\ ready' = TRUE
          /\ UNCHANGED lastError
    /\ UNCHANGED <<qvars, config, app, f, pool, deadYet, display>>

-----------------------------------------------------------------------------
AppStep == \/ IsReady \/ Mode \/ synchronize \/ getFrame \/ ReadPixels
           \/ sendFrame \/ RedrawSync \/ SpoilLock \/ SpoilTryWait
           \/ SpoilOldest \/ SpoilAdd \/ Release \/ Join

WorkerStep == \/ Loop \/ GetEnter \/ GetWait \/ GetPop \/ Got \/ Redraw
              \/ SignalComplete \/ Catch

Terminated == appPc = "destroyed" /\ UNCHANGED vars

Next == \/ \E spoilLast \in BOOLEAN : Readback(spoilLast)
        \/ AppStep \/ Destroy \/ Configure \/ WorkerStep \/ Terminated

(* Both threads are scheduled; the 2D X server answers or the call fails.    *)
Spec == /\ Init /\ [][Next]_vars
        /\ WF_vars(AppStep) /\ WF_vars(WorkerStep)

-----------------------------------------------------------------------------
(* Properties *)

(* Three buffers are enough: getFrame() never throws "No free buffers in     *)
(* pool", whichever frames the queue and the worker hold.                    *)
PoolNeverExhausted == appPc = "getFrame" => \E x \in Frames : complete[x]

Queued == Range(entries)

(* No buffer is written while it waits or is being drawn.                    *)
FramesDisjoint ==
    /\ appFrame # None => appFrame \notin Queued /\ appFrame # f
    /\ IsInjective(entries) /\ f \notin Queued
    /\ \A x \in Frames :
          ~complete[x] <=> x = appFrame \/ x = f \/ x \in Queued

(* What is under way to the worker is newer than what the window shows, or   *)
(* was under way already when the caller last drew a frame itself: that is   *)
(* all that can be drawn over such a frame, whenever fconfig.sync changes.   *)
(* As long as it stays set there is no such frame, and every readback() ends *)
(* with its own frame in the window.                                         *)
SyncFrameStays ==
    /\ \A n \in UnderWay : n > window \/ n \in behind
    /\ ~switching /\ sync
          => behind = {} /\ (appPc = "idle" => window = rendered)

(* No readback() waits for ever, in whichever mode the one before it ran:    *)
(* the Event `ready' that synchronize() consumes is set again by the worker, *)
(* by a synchronous redraw, or by the worker's exception.                    *)
ReadbackReturns ==
    (appPc \notin {"idle", "threw", "destroyed"})
        ~> (appPc \in {"idle", "threw", "destroyed"})

(* The transport implements FrameChannel.  A frame sent synchronously is     *)
(* under way from sendFrame() until it is drawn.  Where fconfig.sync changes *)
(* nothing is promised: a synchronous frame overtakes what is queued.        *)
Direct == /\ syncArg /\ appFrame # None
          /\ appPc \in {"redraw", "threw", "release", "post", "join", "destroyed"}

Steady(value, otherwise) == IF switching THEN otherwise ELSE value

Channel == INSTANCE FrameChannel WITH
    MaySpoil <- TRUE \in SpoilModes,
    Depth    <- 2,
    newest   <- Steady(rendered, 0),
    offering <- ~switching /\ appFrame # None /\ appPc # "readPixels" /\ ~Direct,
    pending  <- Steady((IF f # None /\ wPc \in {"got", "redraw"}
                        THEN <<content[f]>> ELSE <<>>)
                       \o [i \in DOMAIN entries |-> content[entries[i]]]
                       \o (IF Direct THEN <<content[appFrame]>> ELSE <<>>), <<>>),
    shown    <- Steady(window, 0),
    open     <- Steady(/\ wPc \notin {"failed", "wake"} /\ ~lastError
                       /\ ~deadYet /\ appPc # "threw", TRUE)

(* Frames reach the window in order and none is lost but by spoiling.        *)
ImplementsChannel == Channel!ChannelSpec
=============================================================================
