----------------------------- MODULE EventTrack -----------------------------
(***************************************************************************)
(* How an input event is followed through the faker to the frame that shows *)
(* its effect (server/timetrack.h and the hooks around it).  The 2D X       *)
(* server gives the event a row of a shared table; XNextEvent() stamps the  *)
(* row and queues its index; glXSwapBuffers() takes one index per frame and *)
(* carries it in onque_event_index and shift_event_index to the frame after *)
(* it; sendX11() tags that frame and fbx_awrite() reports it in row 0.  The *)
(* event thread and the rendering thread share the EOI_LoopQueue without a  *)
(* lock; a data race gives what the overlapping reads and writes can give.  *)
(* SLOT_NUM is 1: head and tail stay 0, the ring is one index and a length. *)
(***************************************************************************)
EXTENDS Naturals, Sequences, FiniteSets

CONSTANTS NoIndex,      \* no index, no tag (-1 in the code)
          NumRow,    \* rows of the table, row 0 included
          MaxEvents  \* bound: events sent to the application

ASSUME TrackAssumption ==
    /\ NumRow \in Nat \ {0} /\ MaxEvents \in Nat
    /\ NoIndex \notin Nat /\ NoIndex \notin [index : Nat \cup {NoIndex}, id : Nat]

Rows == 1 .. NumRow - 1
Untagged == [index |-> NoIndex, id |-> 0]   \* kb_flag = 0
Ring == {"popId", "popLength"}           \* glXSwapBuffers() is inside pop()

VARIABLES
    row,             \* timeTracker[i]: eventID, valid and the stamps it holds
    row0,            \* timeTracker[0]: valid, eventID, index; read by the server
    inbox,           \* events on their way to XNextEvent()
    lastEvent,       \* keypointer_eventID
    queue,           \* eoi_loopque: id, length
    push,            \* index being pushed, "at" the step it has reached
    swap,            \* where glXSwapBuffers() is, and its tmp_index
    shift, onque,    \* shift_event_index, onque_event_index
    queued, drawing, \* tags of the frames in the X11 Transport
    taken,           \* the event last taken from the queue
    fate,            \* of every event: "open", "lost" or "reported"
    raced,           \* a push() and a pop() have overlapped
    strayed          \* a readback outside glXSwapBuffers() carried an index

tableVars == <<row, row0>>
eventVars == <<inbox, lastEvent, push>>
swapVars == <<swap, shift, onque>>
frameVars == <<queued, drawing>>
ghosts == <<fate, raced, strayed>>
trackVars == <<tableVars, eventVars, queue, swapVars, frameVars, taken, ghosts>>

TrackInit ==
    /\ row = [i \in Rows |-> [id |-> 0, valid |-> FALSE, stamps |-> {}]]
    /\ row0 = [valid |-> FALSE, id |-> 0, index |-> 0]
    /\ inbox = <<>> /\ lastEvent = 0
    /\ queue = [id |-> 0, length |-> 0]
    /\ push = [at |-> "idle", index |-> NoIndex]
    /\ swap = [at |-> "idle", tmp |-> NoIndex] /\ shift = NoIndex /\ onque = NoIndex
    /\ queued = NoIndex /\ drawing = NoIndex
    /\ taken = 0 /\ fate = [e \in 1 .. MaxEvents |-> "open"]
    /\ raced = FALSE /\ strayed = FALSE

Stamp(table, i, k) == IF i = NoIndex THEN table
                      ELSE [table EXCEPT ![i].stamps = @ \cup {k}]

(* The events of a set that have not been reported are lost.                 *)
Lose(events) == fate' = [e \in DOMAIN fate |->
                            IF e \in events /\ fate[e] = "open" THEN "lost"
                            ELSE fate[e]]

-----------------------------------------------------------------------------
(* The 2D X server: external *)

Sent == Len(inbox) + lastEvent           \* events are numbered as they come

(* An event gets the first row not in use, and is sent to the application.   *)
PostEvent ==
    /\ Sent < MaxEvents
    /\ \E i \in Rows :
          /\ ~row[i].valid /\ \A j \in 1 .. i - 1 : row[j].valid
          /\ row' = [row EXCEPT ![i] = [id |-> Sent + 1, valid |-> TRUE,
                                        stamps |-> {}]]
    /\ inbox' = Append(inbox, Sent + 1)
    /\ UNCHANGED <<row0, lastEvent, push, queue, swapVars, frameVars, taken,
                   ghosts>>

Unread == row0.valid /\ fate[row0.id] # "reported"

(* The frame that comes with a valid row 0 completes an event ...            *)
ReadReport ==
    /\ Unread
    /\ fate' = [fate EXCEPT ![row0.id] = "reported"]
    /\ UNCHANGED <<tableVars, eventVars, queue, swapVars, frameVars, taken,
                   raced, strayed>>

(* ... whose row is free some time later.                                    *)
ReleaseRow ==
    /\ \E i \in Rows : /\ row[i].valid /\ fate[row[i].id] = "reported"
                       /\ row' = [row EXCEPT ![i].valid = FALSE]
    /\ UNCHANGED <<row0, eventVars, queue, swapVars, frameVars, taken, ghosts>>

-----------------------------------------------------------------------------
(* XNextEvent() *)

(* The event's row is found by its time and stamped, and push() entered.     *)
XNextEvent ==
    /\ push.at = "idle" /\ inbox # <<>>
    /\ lastEvent' = Head(inbox) /\ inbox' = Tail(inbox)
    /\ LET found == {i \in Rows : row[i].id = lastEvent'}
       IN  IF found = {} THEN Lose({lastEvent'}) /\ UNCHANGED <<row, push>>
           ELSE \E i \in found :
                   /\ row' = Stamp(row, i, 4)
                   /\ push' = [at |-> "id", index |-> i]
                   /\ UNCHANGED fate
    /\ UNCHANGED <<row0, queue, swapVars, frameVars, taken, raced, strayed>>

Overlap == raced' = (raced \/ (push.at # "idle" /\ swap.at \in Ring))

(* push(): id_array[head] = EventID overwrites an index nobody has taken ... *)
PushId ==
    /\ push.at = "id"
    /\ queue' = [queue EXCEPT !.id = push.index]
    /\ push' = [push EXCEPT !.at = "length"]
    /\ Lose(IF queue.length > 0 THEN {row[queue.id].id} ELSE {})
    /\ Overlap
    /\ UNCHANGED <<tableVars, inbox, lastEvent, swapVars, frameVars, taken, strayed>>

(* ... and length = 1, or one more and back to SLOT_NUM.                     *)
PushLength ==
    /\ push.at = "length"
    /\ queue' = [queue EXCEPT !.length = 1]
    /\ push' = [at |-> "idle", index |-> NoIndex]
    /\ Overlap
    /\ UNCHANGED <<tableVars, inbox, lastEvent, swapVars, frameVars, taken, fate,
                   strayed>>

-----------------------------------------------------------------------------
(* glXSwapBuffers() *)

SwapAt(at) == swap' = [swap EXCEPT !.at = at]

(* The frame now ending carries the index taken at the end of the last one.  *)
SwapBuffers ==
    /\ swap.at = "idle"
    /\ shift' = onque
    /\ swap' = [at |-> IF queue.length = 0 THEN "window" ELSE "popId",
                tmp |-> NoIndex]
    /\ UNCHANGED <<tableVars, eventVars, queue, onque, frameVars, taken, ghosts>>

PopId ==
    /\ swap.at = "popId"
    /\ swap' = [at |-> "popLength", tmp |-> queue.id]
    /\ taken' = row[queue.id].id
    /\ Overlap
    /\ UNCHANGED <<tableVars, eventVars, queue, shift, onque, frameVars,
                   fate, strayed>>

(* Mutation: the index taken stays in the queue.                             *)
PopLength_Keeps ==
    /\ swap.at = "popLength"
    /\ row' = Stamp(row, swap.tmp, 5)
    /\ SwapAt("window") /\ Overlap
    /\ UNCHANGED <<row0, eventVars, queue, shift, onque, frameVars, taken,
                   fate, strayed>>

(* length -= 1, and the stamp "end of game logic"                            *)
PopLength ==
    /\ swap.at = "popLength"
    /\ queue' = [queue EXCEPT !.length = 0]
    /\ row' = Stamp(row, swap.tmp, 5)
    /\ SwapAt("window") /\ Overlap
    /\ UNCHANGED <<row0, eventVars, shift, onque, frameVars, taken,
                   fate, strayed>>

EventIn(i) == IF i = NoIndex THEN {} ELSE {row[i].id}

(* An excluded display or an overlay window returns at once: the index taken *)
(* is gone, and onque_event_index keeps its value.                           *)
Excluded ==
    /\ swap.at = "window"
    /\ SwapAt("idle")
    /\ Lose(EventIn(swap.tmp))
    /\ UNCHANGED <<tableVars, eventVars, queue, shift, onque, frameVars, taken,
                   raced, strayed>>

(* A window that is none of the faker's: swapped, but not read back.         *)
NotFound ==
    /\ swap.at = "window"
    /\ SwapAt("end")
    /\ Lose(EventIn(shift))
    /\ UNCHANGED <<tableVars, eventVars, queue, shift, onque, frameVars, taken,
                   raced, strayed>>

Found ==
    /\ swap.at = "window"
    /\ row' = Stamp(row, shift, 10)
    /\ SwapAt("readback")
    /\ UNCHANGED <<row0, eventVars, queue, shift, onque, frameVars, taken, ghosts>>

(* readback() for glFlush() and the like, between two swaps                  *)
Flush ==
    /\ swap.at = "idle"
    /\ SwapAt("flush")
    /\ strayed' = (strayed \/ shift # NoIndex)
    /\ UNCHANGED <<tableVars, eventVars, queue, shift, onque, frameVars, taken,
                   fate, raced>>

(* sendX11(): a valid row tags the frame, which may spoil the one queued.    *)
SendX11 ==
    /\ swap.at \in {"readback", "flush"}
    /\ queued' = IF shift # NoIndex /\ row[shift].valid
                 THEN [index |-> shift, id |-> row[shift].id] ELSE Untagged
    /\ Lose((IF queued = NoIndex THEN {} ELSE {queued.id})
            \cup (IF queued' = Untagged THEN EventIn(shift) ELSE {}))
    /\ SwapAt(IF swap.at = "flush" THEN "idle" ELSE "end")
    /\ UNCHANGED <<tableVars, eventVars, queue, shift, onque, drawing, taken,
                   raced, strayed>>

(* Mutation: when no new index was taken, the old one is kept.               *)
SwapEnd_Keeps ==
    /\ swap.at = "end"
    /\ row' = Stamp(row, shift, 11)
    /\ onque' = IF swap.tmp = NoIndex THEN onque ELSE swap.tmp
    /\ swap' = [at |-> "idle", tmp |-> NoIndex]
    /\ UNCHANGED <<row0, eventVars, queue, shift, frameVars, taken, ghosts>>

(* The stamp after readback(), on whatever event the row holds by now        *)
SwapEnd ==
    /\ swap.at = "end"
    /\ row' = Stamp(row, shift, 11)
    /\ onque' = swap.tmp
    /\ swap' = [at |-> "idle", tmp |-> NoIndex]
    /\ UNCHANGED <<row0, eventVars, queue, shift, frameVars, taken, ghosts>>

-----------------------------------------------------------------------------
(* The X11 Transport's thread *)

Got ==
    /\ drawing = NoIndex /\ queued # NoIndex
    /\ drawing' = queued /\ queued' = NoIndex
    /\ UNCHANGED <<tableVars, eventVars, queue, swapVars, taken, ghosts>>

(* Mutation: a tag is left alone, and row 0 with it.                         *)
fbx_awrite_NoReport ==
    /\ drawing # NoIndex /\ ~Unread
    /\ row0' = [row0 EXCEPT !.valid = FALSE]
    /\ drawing' = NoIndex
    /\ UNCHANGED <<row, eventVars, queue, swapVars, queued, taken, ghosts>>

(* fbx_awrite(): a tag that still fits its row is reported, any other frees  *)
(* the row.  The server has read row 0 when XSync() returns in fbx_write().  *)
fbx_awrite ==
    /\ drawing # NoIndex /\ ~Unread
    /\ IF drawing # Untagged /\ row[drawing.index].id = drawing.id
                             /\ row[drawing.index].valid
       THEN /\ row0' = [valid |-> TRUE, id |-> drawing.id,
                        index |-> drawing.index]
            /\ row' = Stamp(row, drawing.index, 6)
            /\ UNCHANGED fate
       ELSE /\ row0' = [row0 EXCEPT !.valid = FALSE]
            /\ row' = IF drawing = Untagged THEN row
                      ELSE [row EXCEPT ![drawing.index].valid = FALSE]
            /\ Lose(IF drawing = Untagged THEN {}
                    ELSE {drawing.id, row[drawing.index].id})
    /\ drawing' = NoIndex
    /\ UNCHANGED <<eventVars, queue, swapVars, queued, taken, raced, strayed>>

-----------------------------------------------------------------------------
Server == PostEvent \/ ReadReport \/ ReleaseRow
EventThread == XNextEvent \/ PushId \/ PushLength
Renderer == SwapBuffers \/ PopId \/ PopLength \/ Excluded \/ NotFound \/ Found
            \/ Flush \/ SendX11 \/ SwapEnd
Worker == Got \/ fbx_awrite

TrackNext == Server \/ EventThread \/ Renderer \/ Worker

TrackSpec == TrackInit /\ [][TrackNext]_trackVars

-----------------------------------------------------------------------------
(* Properties *)

(* An event that is reported has been through all of it: picked up, taken by *)
(* a swap and read back by the next, in this order, in the row reported; an  *)
(* event is never given the stamps of another but by a race of the two       *)
(* threads, by a readback outside glXSwapBuffers(), and in the stamp after   *)
(* the readback, which may be too late.                                      *)
StampsInOrder ==
    raced \/ strayed \/
    \A i \in Rows :
        /\ row[i].stamps \ {11} \in {{}, {4}, {4, 5}, {4, 5, 10}, {4, 5, 10, 6}}
        /\ Unread /\ row0.index = i =>
              row[i].id = row0.id /\ 6 \in row[i].stamps

(* Unless the threads have raced for the queue, or a readback outside        *)
(* glXSwapBuffers() has freed a row too early, an event is taken from the    *)
(* queue at most once, and never after a newer one.                          *)
TakenOnce ==
    [][PopId => raced' \/ strayed \/ taken' > taken]_trackVars

Holds(i, e) == i # NoIndex /\ row[i].id = e

(* Every place in which an event's index or tag can be                       *)
UnderWay(e) ==
    \/ Holds(push.index, e) \/ Holds(swap.tmp, e) \/ Holds(onque, e)
    \/ queue.length = 1 /\ Holds(queue.id, e)
    \/ swap.at \in Ring \cup {"window", "readback"} /\ Holds(shift, e)
    \/ \E tag \in {queued, drawing} \ {NoIndex} : tag.id = e
    \/ Unread /\ row0.id = e

(* No event disappears on its way: once picked up, and until it is reported, *)
(* its index is in the queue or in one of the variables that lead to a tag,  *)
(* or its tag is in a frame, unless a newer event overwrote it, its frame    *)
(* was spoiled or swapped unread, or the two threads raced for it.           *)
NothingForgotten ==
    raced \/ \A e \in 1 .. lastEvent : fate[e] = "open" => UnderWay(e)
=============================================================================
