----------------------------- MODULE ClientWin ------------------------------
(***************************************************************************)
(* One window of the VirtualGL Client: the Listener thread that reads the   *)
(* connection (VGLTransReceiver.cpp 159-261) and the worker thread that     *)
(* decompresses and draws (ClientWin.cpp 202-265).  Two slots, used in      *)
(* turn, are handed to and fro: the Listener waits for a slot, fills it     *)
(* from the socket and queues it; the worker gives it back.  There are two  *)
(* slots for compressed images and two for XV images, and one index.        *)
(***************************************************************************)
EXTENDS GenericQ, FiniteSets, Functions

CONSTANTS
    Kinds,           \* kinds of image received: "c" compressed, "x" YUV
    MayFail,         \* whether decompressing or drawing may throw
    MaxReceived      \* bound: messages read from the connection

ASSUME ClientAssumption ==
    /\ Kinds \subseteq {"c", "x"} /\ Kinds # {}
    /\ MayFail \in BOOLEAN /\ MaxReceived \in Nat

NFRAMES == 2
Slots == Kinds \X (0 .. NFRAMES - 1)      \* cframes[] and xvframes[]

ASSUME SlotAssumption == None \notin Slots \cup {"listener", "worker"}

VARIABLES
    complete,        \* Event `complete' of every slot: set = free
    content,         \* number of the message a slot holds
    cfindex,         \* ClientWin::cfindex
    deadYet,         \* ClientWin::deadYet
    lastError,       \* thread->lastError is set
    lPc, slot, eye,  \* the Listener: where it is, its f, flags of the header
    wPc, f,          \* the worker: where it is, its f
    received,        \* messages received so far
    kinds,           \* history: the kinds of image received
    drawn            \* number of the message the worker dealt with last

listener == <<lPc, slot, eye, cfindex, received, kinds>>
worker == <<wPc, f, drawn>>
vars == <<qvars, complete, content, deadYet, lastError, listener, worker>>

Init ==
    /\ QInit
    /\ complete = [s \in Slots |-> TRUE]
    /\ content = [s \in Slots |-> 0]
    /\ cfindex = 0 /\ deadYet = FALSE /\ lastError = FALSE
    /\ lPc = "recv" /\ slot = None /\ eye = "mono"
    /\ wPc = "top" /\ f = None
    /\ received = 0 /\ drawn = 0 /\ kinds = {}

-----------------------------------------------------------------------------
(* The Listener *)

(* A header is read: the right eye's image goes into the slot of the left    *)
(* eye's, anything else needs a slot.  Compressor 0 sends the two in a row.  *)
RecvHeader ==
    /\ lPc = "recv" /\ received < MaxReceived
    /\ IF eye = "left" THEN eye' = "right" /\ lPc' = "fill"
                       ELSE eye' \in {"mono", "left"} /\ lPc' = "getFrame"
    /\ UNCHANGED <<qvars, complete, content, deadYet, lastError, slot, cfindex,
                   received, kinds, worker>>

(* getFrame(useXV): checkError(), and the slots in turn                      *)
getFrame ==
    /\ lPc = "getFrame"
    /\ IF lastError THEN lPc' = "delete" /\ UNCHANGED <<slot, cfindex, kinds>>
       ELSE /\ \E kind \in Kinds : /\ eye = "left" => kind = "c"
                                   /\ slot' = <<kind, cfindex>>
                                   /\ kinds' = kinds \cup {kind}
            /\ cfindex' = (cfindex + 1) % NFRAMES
            /\ lPc' = "waitFrame"
    /\ UNCHANGED <<qvars, complete, content, deadYet, lastError, eye, received,
                   worker>>

(* f->waitUntilComplete(), and checkError() again                            *)
WaitFrame ==
    /\ lPc = "waitFrame"
    /\ complete[slot]
    /\ complete' = [complete EXCEPT ![slot] = FALSE]
    /\ lPc' = IF lastError THEN "delete" ELSE "fill"
    /\ UNCHANGED <<qvars, content, deadYet, lastError, slot, eye, cfindex,
                   received, kinds, worker>>

(* init() and recv() of the image; a left eye waits for the right one.       *)
Fill ==
    /\ lPc = "fill"
    /\ IF eye = "left" THEN lPc' = "recv" /\ UNCHANGED <<content, received>>
       ELSE /\ received' = received + 1
            /\ content' = [content EXCEPT ![slot] = received']
            /\ lPc' = "drawFrame"
    /\ UNCHANGED <<qvars, complete, deadYet, lastError, slot, eye, cfindex,
                   kinds, worker>>

(* drawFrame(): checkError(), then GenericQ::add() enters its lock           *)
drawFrame ==
    /\ lPc = "drawFrame"
    /\ IF lastError THEN lPc' = "delete" /\ UNCHANGED qvars
                    ELSE QLock("listener") /\ lPc' = "add"
    /\ UNCHANGED <<complete, content, deadYet, lastError, slot, eye, cfindex,
                   received, kinds, worker>>

Add ==
    /\ lPc = "add" /\ lPc' = "recv"
    /\ QAppend("listener", slot)
    /\ slot' = None /\ eye' = "mono"
    /\ UNCHANGED <<complete, content, deadYet, lastError, cfindex, received,
                   kinds, worker>>

(* The connection is lost while the Listener reads a header or an image.     *)
Disconnect ==
    /\ lPc \in {"recv", "fill"} /\ lPc' = "delete"
    /\ UNCHANGED <<qvars, complete, content, deadYet, lastError, slot, eye,
                   cfindex, received, kinds, worker>>

(* Mutation: the queue is released without setting the window's flag.        *)
Delete_NoFlag ==
    /\ \/ lPc = "delete" /\ lPc' = "release" /\ UNCHANGED <<qvars, deadYet>>
       \/ lPc = "release" /\ lPc' = "post" /\ QReleaseMark /\ UNCHANGED deadYet
       \/ lPc = "post" /\ lPc' = "join" /\ QReleasePost /\ UNCHANGED deadYet
       \/ /\ lPc = "join" /\ wPc = "exited" /\ lPc' = "closed"
          /\ UNCHANGED <<qvars, deadYet>>
    /\ UNCHANGED <<complete, content, lastError, slot, eye, cfindex, received,
                   kinds, worker>>

(* deleteWindow() or ~Listener(): ~ClientWin() sets its flag, releases the   *)
(* queue and joins the worker before anything is freed.                      *)
Delete ==
    /\ \/ lPc = "delete" /\ lPc' = "release" /\ deadYet' = TRUE
          /\ UNCHANGED qvars
       \/ lPc = "release" /\ lPc' = "post" /\ QReleaseMark /\ UNCHANGED deadYet
       \/ lPc = "post" /\ lPc' = "join" /\ QReleasePost /\ UNCHANGED deadYet
       \/ /\ lPc = "join" /\ wPc = "exited" /\ lPc' = "closed"
          /\ UNCHANGED <<qvars, deadYet>>
    /\ UNCHANGED <<complete, content, lastError, slot, eye, cfindex, received,
                   kinds, worker>>

-----------------------------------------------------------------------------
(* The worker *)

workerOnly == <<content, deadYet, listener>>

Loop ==
    /\ wPc = "top" /\ wPc' = IF deadYet THEN "exited" ELSE "get"
    /\ UNCHANGED <<qvars, complete, lastError, f, drawn, workerOnly>>

GetEnter ==
    /\ wPc = "get" /\ wPc' = IF qDead THEN "got" ELSE "wait"
    /\ UNCHANGED <<qvars, complete, lastError, f, drawn, workerOnly>>

GetWait ==
    /\ wPc = "wait" /\ wPc' = "pop"
    /\ QTake
    /\ UNCHANGED <<complete, lastError, f, drawn, workerOnly>>

GetPop ==
    /\ wPc = "pop" /\ wPc' = "got"
    /\ \/ qDead /\ UNCHANGED <<qvars, f>>
       \/ QPop("worker") /\ f' = Head(entries)
    /\ UNCHANGED <<complete, lastError, drawn, workerOnly>>

(* Mutation: the slot is given back before the image has been used.          *)
Got_Early ==
    /\ wPc = "got"
    /\ wPc' = IF deadYet THEN "exited" ELSE IF f = None THEN "failed" ELSE "draw"
    /\ complete' = IF f = None THEN complete ELSE [complete EXCEPT ![f] = TRUE]
    /\ UNCHANGED <<qvars, lastError, f, drawn, workerOnly>>

(* if(deadYet) break;  "Invalid image received from queue" if there is none  *)
Got ==
    /\ wPc = "got"
    /\ wPc' = IF deadYet THEN "exited" ELSE IF f = None THEN "failed" ELSE "draw"
    /\ UNCHANGED <<qvars, complete, lastError, f, drawn, workerOnly>>

(* Decompress a tile into fb, or redraw the window at the end of a frame.    *)
Draw ==
    /\ wPc = "draw"
    /\ \/ wPc' = "done" /\ drawn' = content[f]
       \/ MayFail /\ wPc' = "failed" /\ UNCHANGED drawn
    /\ UNCHANGED <<qvars, complete, lastError, f, workerOnly>>

SignalComplete ==
    /\ wPc = "done" /\ wPc' = "top"
    /\ complete' = [complete EXCEPT ![f] = TRUE]
    /\ f' = None
    /\ UNCHANGED <<qvars, lastError, drawn, workerOnly>>

(* Mutation: the Listener is not woken.                                      *)
Catch_NoSignal ==
    /\ \/ wPc = "failed" /\ wPc' = "signal" /\ lastError' = TRUE
          /\ UNCHANGED <<complete, f>>
       \/ /\ wPc = "signal" /\ wPc' = "exited" /\ f' = None
          /\ UNCHANGED <<complete, lastError>>
    /\ UNCHANGED <<qvars, drawn, workerOnly>>

(* catch: setError(), then f->signalComplete(), in this order                *)
Catch ==
    /\ \/ wPc = "failed" /\ wPc' = "signal" /\ lastError' = TRUE
          /\ UNCHANGED <<complete, f>>
       \/ /\ wPc = "signal" /\ wPc' = "exited" /\ f' = None
          /\ complete' = IF f = None THEN complete
                         ELSE [complete EXCEPT ![f] = TRUE]
          /\ UNCHANGED lastError
    /\ UNCHANGED <<qvars, drawn, workerOnly>>

-----------------------------------------------------------------------------
ListenerStep == getFrame \/ WaitFrame \/ Fill \/ drawFrame \/ Add \/ Delete
WorkerStep == \/ Loop \/ GetEnter \/ GetWait \/ GetPop \/ Got \/ Draw
              \/ SignalComplete \/ Catch

Closed == lPc = "closed" /\ UNCHANGED vars

Next == RecvHeader \/ ListenerStep \/ Disconnect \/ WorkerStep \/ Closed

(* Both threads are scheduled; the server need not send anything more.       *)
Spec == /\ Init /\ [][Next]_vars
        /\ WF_vars(ListenerStep) /\ WF_vars(WorkerStep)

-----------------------------------------------------------------------------
(* Properties *)

(* The slot the Listener reads the socket into is not waiting in the queue   *)
(* and not being decompressed, and no slot is queued twice.                  *)
SlotPrivate ==
    /\ lPc \in {"fill", "drawFrame", "add"} =>
          slot \notin Range(entries) /\ slot # f
    /\ IsInjective(entries) /\ f \notin Range(entries)

(* Every image is drawn, once, in the order received: a tile is never lost   *)
(* and the end of a frame is never reached before its tiles are.             *)
DrawnInOrder == [][drawn' # drawn => drawn' = drawn + 1]_vars

(* The worker is not sent on without an image: "Invalid image received from  *)
(* queue" is never thrown.                                                   *)
ImageBacked == wPc = "failed" => f # None

(* The Listener waits for a slot that is queued behind the one on which the  *)
(* worker died, after images of both kinds were received.                    *)
Wedged == /\ lastError /\ lPc = "waitFrame" /\ slot \in Range(entries)
          /\ kinds = {"c", "x"}

(* The Listener, which is what the server's socket waits for, is never stuck *)
(* for a slot of a worker that died, nor in the destructor for one asleep,   *)
(* but for the case above, which takes both kinds of image in one window.    *)
ListenerReturns ==
    (lPc \notin {"recv", "closed"}) ~> (lPc \in {"recv", "closed"} \/ Wedged)

(* What was received is drawn, unless the worker fails or the window closes. *)
ImageGetsDrawn ==
    \A n \in 1 .. MaxReceived :
        (received >= n /\ lPc = "recv") ~> (drawn >= n \/ lastError \/ deadYet)
=============================================================================
