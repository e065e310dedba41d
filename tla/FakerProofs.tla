---------------------------- MODULE FakerProofs -----------------------------
(***************************************************************************)
(* Proofs about what runs in the application's own threads.                 *)
(*                                                                         *)
(* EventTrack, for any size of the table and any number of events: none is  *)
(* forgotten on its way to the frame that shows it, none is given the       *)
(* stamps of another, and none is taken from the queue twice.  The          *)
(* invariant follows an event through the variables that may hold its       *)
(* index; it is one of the stages below that its stamps are those of its    *)
(* place.                                                                  *)
(*                                                                         *)
(* FakerLife, for any number of threads and calls: a thread inside          *)
(* VirtualWin::readback() has the VirtualWin to itself, and nothing deletes *)
(* it.  InsideIsSafe is not inductive: that the destructor waits for        *)
(* winMutex is of use only if winMutex is held by whoever is inside, and a  *)
(* VirtualWin found is alive, or known to be deleted, only if its entry     *)
(* leaves the hash before it is deleted and under the lock of the hash.     *)
(***************************************************************************)
EXTENDS EventTrack, FakerLife, SequenceFacts, TLAPS

-----------------------------------------------------------------------------
(* EventTrack *)

(* What a frame is tagged with, and the events a row can be of               *)
Tags == {Untagged} \cup [index : Rows, id : 1 .. MaxEvents]
Ids == 0 .. MaxEvents

(* The types of the variables. A valid row 0 names a row and an event; an    *)
(* index that is being pushed, is in the queue or is being taken is that     *)
(* of a row.                                                                 *)
RowType == row \in [Rows -> [id : Ids, valid : BOOLEAN,
                             stamps : SUBSET {4, 5, 6, 10, 11}]]

Row0Type ==
    /\ row0 \in [valid : BOOLEAN, id : Ids, index : 0 .. NumRow - 1]
    /\ row0.valid => row0.id # 0 /\ row0.index # 0

EventType ==
    /\ lastEvent \in Ids /\ inbox \in Seq(Nat) /\ Sent <= MaxEvents
    /\ push \in [at : {"idle", "id", "length"}, index : Rows \cup {NoIndex}]
    /\ push.at = "idle" <=> push.index = NoIndex

QueueType ==
    /\ queue \in [id : 0 .. NumRow - 1, length : {0, 1}]
    /\ queue.length = 1 \/ swap.at \in Ring \/ push.at = "length" => queue.id # 0

SwapType ==
    /\ swap \in [at : Ring \cup {"idle", "window", "readback", "end", "flush"},
                 tmp : Rows \cup {NoIndex}]
    /\ shift \in Rows \cup {NoIndex} /\ onque \in Rows \cup {NoIndex}
    /\ swap.at = "popId" => swap.tmp = NoIndex
    /\ swap.at = "popLength" => swap.tmp # NoIndex

TagType == queued \in Tags \cup {NoIndex} /\ drawing \in Tags \cup {NoIndex}

GhostType ==
    /\ fate \in [1 .. MaxEvents -> {"open", "lost", "reported"}]
    /\ taken \in Ids /\ raced \in BOOLEAN /\ strayed \in BOOLEAN

TrackType == /\ RowType /\ Row0Type /\ EventType /\ QueueType /\ SwapType
             /\ TagType /\ GhostType

(* An event has one row, and none before it is sent; a row is free only if   *)
(* its event has been dealt with.                                            *)
RowInv ==
    /\ \A i, j \in Rows : row[i].id = row[j].id => i = j \/ row[i].id = 0
    /\ \A i \in Rows : row[i].id <= Sent
    /\ \A i \in Rows : row[i].valid => row[i].id # 0
    /\ \A i \in Rows : ~row[i].valid => row[i].id = 0 \/ fate[row[i].id] # "open"

(* The events reach XNextEvent() in the order they were sent.                *)
InboxInv == \A k \in 1 .. Len(inbox) : inbox[k] = lastEvent + k

(* Inside glXSwapBuffers() the index carried to the frame is the one taken   *)
(* a frame ago; unless the threads have raced, the ring holds the index      *)
(* being pushed, or the one being taken.                                     *)
PlaceInv ==
    /\ swap.at \notin {"idle", "flush"} => shift = onque
    /\ ~raced /\ push.at = "length" => queue.id = push.index
    /\ ~raced /\ swap.at \in Ring => queue.length = 1
    /\ ~raced /\ swap.at = "popLength" => swap.tmp = queue.id

(* UnderWay without the places that tell nothing: outside glXSwapBuffers()   *)
(* tmp_index is left over from an earlier swap, and what shift_event_index   *)
(* holds inside it is in onque_event_index as well.                          *)
OnTheWay(e) ==
    \/ Holds(push.index, e)
    \/ queue.length = 1 /\ Holds(queue.id, e)
    \/ swap.at \notin {"idle", "flush"} /\ Holds(swap.tmp, e)
    \/ swap.at # "end" /\ Holds(onque, e)
    \/ \E tag \in {queued, drawing} \ {NoIndex} : tag.id = e
    \/ Unread /\ row0.id = e

(* NothingForgotten, and what makes it inductive                             *)
WayInv == raced \/ \A e \in 1 .. lastEvent : fate[e] = "open" => OnTheWay(e)

(* Row i is in use, its event is not reported, and s are its stamps, but     *)
(* for the one after the readback.                                           *)
At(i, s) ==
    /\ i \in Rows /\ row[i].valid /\ fate[row[i].id] # "reported"
    /\ row[i].stamps \ {11} = s

(* The stages of an event: in the queue, taken from it, read back and        *)
(* reported                                                                  *)
Lined == {4}
Popped == {4, 5}
Shown == {4, 5, 10}
Drawn == {4, 5, 10, 6}

(* A tag fits its row, whose event has been read back, and is not given      *)
(* twice.                                                                    *)
TagInv(tag) ==
    tag \notin {NoIndex, Untagged} =>
        /\ At(tag.index, Shown) /\ row[tag.index].id = tag.id
        /\ swap.at = "readback" => tag.index # shift

(* What has been pushed has not been taken, and is newer than what has.      *)
QueueStage ==
    /\ push.at # "idle" => /\ At(push.index, Lined)
                           /\ row[push.index].id = lastEvent /\ taken < lastEvent
    /\ queue.length = 1 => At(queue.id, Lined)
    /\ queue.length = 1 /\ swap.at # "popLength" => taken < row[queue.id].id

(* What has been taken has not been read back before its own swap does so.   *)
SwapStage ==
    /\ swap.at \in {"window", "readback", "end"} /\ swap.tmp # NoIndex =>
           At(swap.tmp, Popped)
    /\ swap.at \notin {"readback", "end"} /\ onque # NoIndex => At(onque, Popped)
    /\ swap.at = "window" /\ swap.tmp # NoIndex => swap.tmp # onque
    /\ swap.at = "readback" /\ shift # NoIndex => At(shift, Shown)
    /\ swap.at = "flush" => shift = NoIndex

(* The tags of the two frames and the report in row 0 are of different       *)
(* rows.                                                                     *)
FrameStage ==
    /\ TagInv(queued) /\ TagInv(drawing)
    /\ queued \notin {NoIndex, Untagged} /\ drawing \notin {NoIndex, Untagged} =>
           queued.index # drawing.index
    /\ Unread => At(row0.index, Drawn) /\ row[row0.index].id = row0.id

(* Every row has the stamps of one of the stages; an event yet to be         *)
(* picked up has none, and is not reported.                                  *)
TableStage ==
    /\ taken <= lastEvent
    /\ \A i \in Rows : row[i].stamps \ {11} \in {{}, Lined, Popped, Shown, Drawn}
    /\ \A i \in Rows : row[i].id > lastEvent => At(i, {})
    /\ \A e \in 1 .. MaxEvents : fate[e] = "reported" => e <= lastEvent

(* StampsInOrder and TakenOnce, and what makes them inductive                *)
StageInv == raced \/ strayed \/ (QueueStage /\ SwapStage /\ FrameStage /\ TableStage)

(* The inductive invariant                                                   *)
TrackInv == TrackType /\ RowInv /\ InboxInv /\ PlaceInv /\ WayInv /\ StageInv

(* A stamp changes the stamps of one row.                                    *)
LEMMA Stamped ==
    ASSUME RowType, NEW i \in Rows \cup {NoIndex}, NEW k \in {4, 5, 6, 10, 11},
           NEW t, t = Stamp(row, i, k)
    PROVE  /\ t \in [Rows -> [id : Ids, valid : BOOLEAN,
                              stamps : SUBSET {4, 5, 6, 10, 11}]]
           /\ \A j \in Rows :
                 /\ t[j].id = row[j].id /\ t[j].valid = row[j].valid
                 /\ j # i => t[j].stamps = row[j].stamps
                 /\ j = i => t[j].stamps = row[j].stamps \cup {k}
<1>1. CASE i = NoIndex
  <2>1. t = row /\ i \notin Rows
    BY <1>1, TrackAssumption DEF Stamp, Rows
  <2> QED
    BY <2>1 DEF RowType
<1>2. CASE i # NoIndex
  <2>1. i \in Rows /\ t = [row EXCEPT ![i].stamps = @ \cup {k}]
    BY <1>2 DEF Stamp
  <2> QED
    BY <2>1 DEF RowType
<1> QED
  BY <1>1, <1>2

(* A row is freed.                                                           *)
Freed(i, t) ==
    /\ t \in [Rows -> [id : Ids, valid : BOOLEAN,
                       stamps : SUBSET {4, 5, 6, 10, 11}]]
    /\ \A j \in Rows : /\ t[j].id = row[j].id /\ t[j].stamps = row[j].stamps
                       /\ j # i => t[j].valid = row[j].valid
    /\ ~t[i].valid

(* Freeing a row changes nothing else.                                       *)
LEMMA Released ==
    ASSUME RowType, NEW i \in Rows
    PROVE  Freed(i, [row EXCEPT ![i].valid = FALSE])
<1> DEFINE t == [row EXCEPT ![i].valid = FALSE]
<1> DEFINE S == SUBSET {4, 5, 6, 10, 11}
           T == [id : Ids, valid : BOOLEAN, stamps : S]
<1>1. row \in [Rows -> T]
  BY DEF RowType
<1> HIDE DEF S
<1>2. [row[i] EXCEPT !.valid = FALSE] \in T
  BY <1>1
<1>3. t = [row EXCEPT ![i] = [row[i] EXCEPT !.valid = FALSE]]
  OBVIOUS
<1>4. t \in [Rows -> T]
  BY <1>1, <1>2, <1>3
<1>5. \A j \in Rows : t[j] = IF j = i THEN [row[i] EXCEPT !.valid = FALSE] ELSE row[j]
  BY <1>1, <1>3
<1>6. \A j \in Rows : row[j] \in T
  BY <1>1
<1> QED
  BY <1>4, <1>5, <1>6 DEF S, Freed

(* What is lost was open, and nothing else changes.                          *)
LEMMA Lost ==
    ASSUME GhostType, NEW E, Lose(E)
    PROVE  /\ fate' \in [1 .. MaxEvents -> {"open", "lost", "reported"}]
           /\ \A e \in 1 .. MaxEvents :
                 /\ fate'[e] = "reported" <=> fate[e] = "reported"
                 /\ fate'[e] = "open" <=> fate[e] = "open" /\ e \notin E
  BY DEF GhostType, Lose

(* It holds before the first event.                                          *)
LEMMA TrackInitHolds == TrackInit => TrackInv
<1> SUFFICES ASSUME TrackInit PROVE TrackInv
  OBVIOUS
<1> USE TrackAssumption DEF TrackInit
<1>1. RowType /\ Row0Type
  BY DEF RowType, Row0Type, Ids
<1>2. EventType /\ QueueType
  BY DEF EventType, QueueType, Ids, Sent, Ring
<1>3. SwapType /\ TagType
  BY DEF SwapType, TagType, Ring
<1>4. GhostType
  <2>1. fate \in [1 .. MaxEvents -> {"open", "lost", "reported"}]
    <3>1. fate = [e \in 1 .. MaxEvents |-> "open"]
      OBVIOUS
    <3> HIDE DEF TrackInit
    <3> QED
      BY <3>1
  <2>2. raced \in BOOLEAN /\ strayed \in BOOLEAN
    BY Zenon
  <2>3. taken \in Ids
    BY DEF Ids
  <2> QED
    BY <2>1, <2>2, <2>3 DEF GhostType
<1>5. RowInv /\ InboxInv
  BY DEF RowInv, InboxInv, Sent
<1>6. PlaceInv /\ WayInv
  BY DEF PlaceInv, WayInv, Ring
<1>7. StageInv
  BY DEF StageInv, QueueStage, SwapStage, FrameStage, TableStage, TagInv,
         Unread
<1> QED
  BY <1>1, <1>2, <1>3, <1>4, <1>5, <1>6, <1>7 DEF TrackInv, TrackType

(* Every step keeps the types.                                               *)
LEMMA TrackTypeStep ==
    ASSUME TrackInv, [TrackNext]_trackVars
    PROVE  TrackType'
<1>0. /\ RowType /\ Row0Type /\ EventType /\ QueueType /\ SwapType
      /\ TagType /\ GhostType /\ RowInv /\ InboxInv
  BY DEF TrackInv, TrackType
<1>a. UNCHANGED row => RowType'
  BY <1>0 DEF RowType
<1>b. UNCHANGED row0 => Row0Type'
  BY <1>0 DEF Row0Type
<1>c. UNCHANGED eventVars => EventType'
  BY <1>0 DEF EventType, eventVars, Sent
<1>d. UNCHANGED <<queue, push, swap>> => QueueType'
  BY <1>0 DEF QueueType
<1>e. UNCHANGED swapVars => SwapType'
  BY <1>0 DEF SwapType, swapVars
<1>f. UNCHANGED frameVars => TagType'
  BY <1>0 DEF TagType, frameVars
<1>g. UNCHANGED <<taken, ghosts>> => GhostType'
  BY <1>0 DEF GhostType, ghosts
<1>h. \A E : Lose(E) => fate' \in [1 .. MaxEvents -> {"open", "lost", "reported"}]
  BY <1>0, Lost
<1>i. \A i \in Rows \cup {NoIndex}, k \in {4, 5, 6, 10, 11} :
         row' = Stamp(row, i, k) => RowType'
  BY <1>0, Stamped DEF RowType
<1> USE TrackAssumption DEF tableVars, eventVars, swapVars, frameVars, ghosts
<1>1. CASE PostEvent
  <2>1. PICK i \in Rows : row' = [row EXCEPT ![i] = [id |-> Sent + 1,
      valid |-> TRUE,
                                                     stamps |-> {}]]
    BY <1>1 DEF PostEvent
  <2>2. Sent \in Nat /\ Sent + 1 \in Ids /\ Len(inbox) \in Nat /\ lastEvent \in Nat
    BY <1>0, <1>1, LenProperties DEF PostEvent, EventType, Sent, Ids
  <2>3. RowType'
    BY <1>0, <2>1, <2>2 DEF RowType
  <2>4. inbox' \in Seq(Nat) /\ Len(inbox') = Len(inbox) + 1
    BY <1>0, <1>1, <2>2, AppendFacts DEF PostEvent, EventType, Ids
  <2>5. EventType'
    BY <1>0, <1>1, <2>2, <2>4 DEF PostEvent, EventType, Sent, Ids
  <2> QED
    BY <1>1, <1>b, <1>d, <1>e, <1>f, <1>g, <2>3, <2>5 DEF PostEvent, TrackType
<1>2. CASE ReadReport
  <2>1. GhostType'
    BY <1>0, <1>2 DEF ReadReport, GhostType
  <2> QED
    BY <1>2, <1>a, <1>b, <1>c, <1>d, <1>e, <1>f, <2>1 DEF ReadReport, TrackType
<1>3. CASE ReleaseRow
  <2>1. PICK i \in Rows : row' = [row EXCEPT ![i].valid = FALSE]
    BY <1>3 DEF ReleaseRow
  <2>2. RowType'
    BY <1>0, <2>1, Released DEF RowType, Freed
  <2> QED
    BY <1>3, <1>b, <1>c, <1>d, <1>e, <1>f, <1>g, <2>2 DEF ReleaseRow, TrackType
<1>4. CASE XNextEvent
  <2>1. /\ Len(inbox) \in Nat \ {0} /\ Tail(inbox) \in Seq(Nat)
        /\ Len(Tail(inbox)) = Len(inbox) - 1 /\ Head(inbox) = inbox[1]
    BY <1>0, <1>4, TailFacts DEF XNextEvent, EventType
  <2>2. lastEvent' = lastEvent + 1 /\ inbox' = Tail(inbox) /\ lastEvent \in Nat
    BY <1>0, <1>4, <2>1 DEF XNextEvent, InboxInv, EventType, Ids
  <2>3. Sent' = Sent /\ lastEvent' \in Ids /\ Sent <= MaxEvents
    BY <1>0, <2>1, <2>2 DEF Sent, Ids, EventType
  <2>4. \/ Lose({lastEvent'}) /\ UNCHANGED <<row, push>>
        \/ \E i \in Rows : /\ row' = Stamp(row, i, 4)
                           /\ push' = [at |-> "id", index |-> i]
                           /\ UNCHANGED fate
    BY <1>4 DEF XNextEvent
  <2>5. RowType'
    BY <1>a, <1>i, <2>4
  <2>6. EventType'
    <3>1. \/ push' = push
          \/ push' \in [at : {"id"}, index : Rows]
      BY <2>4
    <3> HIDE <2>4
    <3> QED
      BY <1>0, <2>1, <2>2, <2>3, <3>1 DEF EventType, Rows
  <2>7. QueueType'
    BY <1>0, <1>4, <2>4 DEF QueueType, XNextEvent
  <2>8. GhostType'
    BY <1>0, <1>4, <1>h, <2>4 DEF GhostType, XNextEvent
  <2> QED
    BY <1>4, <1>b, <1>e, <1>f, <2>5, <2>6, <2>7, <2>8 DEF XNextEvent, TrackType
<1>5. CASE PushId
  <2>1. EventType'
    BY <1>0, <1>5 DEF PushId, EventType, Sent
  <2>2. QueueType'
    BY <1>0, <1>5 DEF PushId, QueueType, EventType, Rows
  <2>3. GhostType'
    BY <1>0, <1>5, <1>h DEF PushId, GhostType, Overlap
  <2> QED
    BY <1>5, <1>a, <1>b, <1>e, <1>f, <2>1, <2>2, <2>3 DEF PushId, TrackType
<1>6. CASE PushLength
  <2>1. EventType'
    BY <1>0, <1>6 DEF PushLength, EventType, Sent
  <2>2. QueueType'
    BY <1>0, <1>6 DEF PushLength, QueueType, EventType
  <2>3. GhostType'
    BY <1>0, <1>6 DEF PushLength, GhostType, Overlap
  <2> QED
    BY <1>6, <1>a, <1>b, <1>e, <1>f, <2>1, <2>2, <2>3 DEF PushLength, TrackType
<1>7. CASE SwapBuffers
  <2>1. SwapType'
    BY <1>0, <1>7 DEF SwapBuffers, SwapType, Ring
  <2>2. QueueType'
    BY <1>0, <1>7 DEF SwapBuffers, QueueType, SwapType, Ring
  <2> QED
    BY <1>7, <1>a, <1>b, <1>c, <1>f, <1>g, <2>1, <2>2 DEF SwapBuffers, TrackType
<1>8. CASE PopId
  <2>1. queue.id \in Rows
    BY <1>0, <1>8 DEF PopId, QueueType, Rows, Ring
  <2>2. SwapType'
    BY <1>0, <1>8, <2>1 DEF PopId, SwapType, Ring, Rows
  <2>3. QueueType'
    BY <1>0, <1>8, <2>1 DEF PopId, QueueType, SwapType, Rows
  <2>4. GhostType'
    BY <1>0, <1>8, <2>1 DEF PopId, GhostType, Overlap, RowType
  <2> QED
    BY <1>8, <1>a, <1>b, <1>c, <1>f, <2>2, <2>3, <2>4 DEF PopId, TrackType
<1>9. CASE PopLength
  <2>1. SwapType'
    BY <1>0, <1>9 DEF PopLength, SwapType, Ring, SwapAt
  <2>2. QueueType'
    BY <1>0, <1>9 DEF PopLength, QueueType, SwapType, Ring, SwapAt
  <2>3. GhostType'
    BY <1>0, <1>9 DEF PopLength, GhostType, Overlap
  <2>4. RowType'
    BY <1>0, <1>9, <1>i DEF PopLength, SwapType
  <2> QED
    BY <1>9, <1>b, <1>c, <1>f, <2>1, <2>2, <2>3, <2>4 DEF PopLength, TrackType
<1>10. CASE Excluded \/ NotFound \/ Found \/ Flush
  <2>1. SwapType'
    BY <1>0, <1>10 DEF Excluded, NotFound, Found, Flush, SwapType, Ring, SwapAt
  <2>2. QueueType'
    BY <1>0, <1>10 DEF Excluded, NotFound, Found, Flush, QueueType, SwapType, Ring,
       SwapAt
  <2>3. GhostType'
    BY <1>0, <1>10, <1>h DEF Excluded, NotFound, Found, Flush, GhostType
  <2>4. RowType'
    BY <1>0, <1>10, <1>a, <1>i DEF Excluded, NotFound, Found, Flush, SwapType
  <2> QED
    BY <1>10, <1>b, <1>c, <1>f, <2>1, <2>2, <2>3, <2>4
       DEF Excluded, NotFound, Found, Flush, TrackType
<1>11. CASE SendX11
  <2>1. SwapType'
    BY <1>0, <1>11 DEF SendX11, SwapType, Ring, SwapAt
  <2>2. QueueType'
    BY <1>0, <1>11 DEF SendX11, QueueType, SwapType, Ring, SwapAt
  <2>3. GhostType'
    BY <1>0, <1>11, <1>h DEF SendX11, GhostType
  <2>4. shift # NoIndex /\ row[shift].valid =>
           shift \in Rows /\ row[shift].id \in 1 .. MaxEvents
    BY <1>0 DEF SwapType, RowInv, RowType, Ids
  <2>5. TagType'
    BY <1>0, <1>11, <2>4 DEF SendX11, TagType, Tags
  <2> QED
    BY <1>11, <1>a, <1>b, <1>c, <2>1, <2>2, <2>3, <2>5 DEF SendX11, TrackType
<1>12. CASE SwapEnd
  <2>1. SwapType'
    BY <1>0, <1>12 DEF SwapEnd, SwapType, Ring
  <2>2. QueueType'
    BY <1>0, <1>12 DEF SwapEnd, QueueType, SwapType, Ring
  <2>3. RowType'
    BY <1>0, <1>12, <1>i DEF SwapEnd, SwapType
  <2> QED
    BY <1>12, <1>b, <1>c, <1>f, <1>g, <2>1, <2>2, <2>3 DEF SwapEnd, TrackType
<1>13. CASE Got
  <2>1. TagType'
    BY <1>0, <1>13 DEF Got, TagType
  <2> QED
    BY <1>13, <1>a, <1>b, <1>c, <1>d, <1>e, <1>g, <2>1 DEF Got, TrackType
<1>14. CASE fbx_awrite
  <2>1. TagType' /\ UNCHANGED <<eventVars, queue, swapVars, taken, raced, strayed>>
    BY <1>0, <1>14 DEF fbx_awrite, TagType
  <2>2. drawing # Untagged =>
           drawing \in [index : Rows, id : 1 .. MaxEvents]
    BY <1>0, <1>14 DEF fbx_awrite, TagType, Tags
  <2>3. RowType'
    <3>1. CASE UNCHANGED row
      BY <3>1, <1>a
    <3>2. CASE drawing # Untagged /\ row' = Stamp(row, drawing.index, 6)
      BY <3>2, <2>2, <1>i
    <3>3. CASE drawing # Untagged /\ row' = [row EXCEPT ![drawing.index].valid = FALSE]
      <4>1. drawing.index \in Rows
        BY <2>2, <3>3
      <4> QED
        BY <1>0, <3>3, <4>1, Released DEF RowType, Freed
    <3> QED
      BY <1>14, <3>1, <3>2, <3>3 DEF fbx_awrite
  <2>4. Row0Type'
    <3>1. \/ row0' = [row0 EXCEPT !.valid = FALSE]
          \/ /\ drawing # Untagged
             /\ row0' = [valid |-> TRUE, id |-> drawing.id, index |-> drawing.index]
      BY <1>14 DEF fbx_awrite
    <3>2. drawing # Untagged => /\ drawing.id \in Ids /\ drawing.id # 0
                                /\ drawing.index \in 0 .. NumRow - 1
                                /\ drawing.index # 0
      BY <2>2 DEF Ids, Rows
    <3>3. CASE row0' = [row0 EXCEPT !.valid = FALSE]
      BY <1>0, <3>3 DEF Row0Type
    <3>4. CASE /\ drawing # Untagged
               /\ row0' = [valid |-> TRUE, id |-> drawing.id,
                          index |-> drawing.index]
      <4>1. row0' \in [valid : {TRUE}, id : Ids, index : 0 .. NumRow - 1]
        BY <3>2, <3>4
      <4>2. row0'.id # 0 /\ row0'.index # 0
        BY <3>2, <3>4
      <4> QED
        BY <4>1, <4>2 DEF Row0Type
    <3> QED
      BY <3>1, <3>3, <3>4
  <2>5. GhostType'
    BY <1>0, <1>14, <1>h DEF fbx_awrite, GhostType
  <2> QED
    BY <1>c, <1>d, <1>e, <2>1, <2>3, <2>4, <2>5 DEF TrackType
<1>15. CASE UNCHANGED trackVars
  BY <1>15, <1>a, <1>b, <1>c, <1>d, <1>e, <1>f, <1>g DEF trackVars, TrackType
<1> QED
  BY <1>1, <1>2, <1>3, <1>4, <1>5, <1>6, <1>7, <1>8, <1>9, <1>10, <1>11, <1>12,
     <1>13, <1>14, <1>15 DEF TrackNext, Server, EventThread, Renderer, Worker

(* The rows keep their events unless one is posted or freed.                 *)
SameRows == \A i \in Rows : row'[i].id = row[i].id /\ row'[i].valid = row[i].valid
(* No event that was lost or reported becomes open again.                    *)
NoneReopened == \A e \in 1 .. MaxEvents : fate'[e] = "open" => fate[e] = "open"

(* Only three actions change the event of a row or free it, only the         *)
(* server sends events, and no event is reopened.                            *)
LEMMA RowsKept ==
    ASSUME TrackInv, [TrackNext]_trackVars
    PROVE  /\ PostEvent \/ ReleaseRow \/ fbx_awrite \/ SameRows
           /\ NoneReopened
           /\ PostEvent \/ Sent' = Sent
<1>0. /\ RowType /\ EventType /\ SwapType /\ TagType /\ GhostType /\ InboxInv
  BY DEF TrackInv, TrackType
<1>a. UNCHANGED row => SameRows
  BY DEF SameRows
<1>b. \A i \in Rows \cup {NoIndex}, k \in {4, 5, 6, 10, 11} :
         row' = Stamp(row, i, k) => SameRows
  BY <1>0, Stamped DEF SameRows
<1>c. UNCHANGED fate => NoneReopened
  BY DEF NoneReopened
<1>d. \A E : Lose(E) => NoneReopened
  BY <1>0, Lost DEF NoneReopened
<1>e. UNCHANGED eventVars => Sent' = Sent
  BY DEF eventVars, Sent
<1> USE DEF tableVars, eventVars, ghosts
<1>1. CASE PostEvent
  BY <1>1, <1>c DEF PostEvent
<1>2. CASE ReadReport
  <2>1. NoneReopened
    BY <1>0, <1>2 DEF ReadReport, NoneReopened, GhostType
  <2> QED
    BY <1>2, <1>a, <1>e, <2>1 DEF ReadReport
<1>3. CASE ReleaseRow
  BY <1>3, <1>c, <1>e DEF ReleaseRow
<1>4. CASE XNextEvent
  <2>1. /\ Len(inbox) \in Nat \ {0} /\ Len(Tail(inbox)) = Len(inbox) - 1
        /\ Head(inbox) = lastEvent + 1 /\ lastEvent \in Nat
    BY <1>0, <1>4, TailFacts DEF XNextEvent, EventType, InboxInv, Ids
  <2>2. lastEvent' = lastEvent + 1 /\ inbox' = Tail(inbox)
    BY <1>4, <2>1 DEF XNextEvent
  <2>3. Sent' = Sent
    BY <2>1, <2>2 DEF Sent
  <2>4. \/ Lose({lastEvent'}) /\ UNCHANGED <<row, push>>
        \/ \E i \in Rows : row' = Stamp(row, i, 4) /\ UNCHANGED fate
    BY <1>4 DEF XNextEvent
  <2> QED
    BY <1>a, <1>b, <1>c, <1>d, <2>3, <2>4
<1>5. CASE PushId \/ PushLength
  <2>1. Sent' = Sent
    BY <1>5 DEF PushId, PushLength, Sent
  <2> QED
    BY <1>5, <1>a, <1>c, <1>d, <2>1 DEF PushId, PushLength
<1>6. CASE SwapBuffers \/ PopId \/ Flush
  BY <1>6, <1>a, <1>c, <1>e DEF SwapBuffers, PopId, Flush
<1>7. CASE PopLength \/ Found \/ SwapEnd
  <2>1. SameRows
    BY <1>0, <1>7, <1>b DEF PopLength, Found, SwapEnd, SwapType
  <2> QED
    BY <1>7, <1>c, <1>e, <2>1 DEF PopLength, Found, SwapEnd
<1>8. CASE Excluded \/ NotFound
  BY <1>8, <1>a, <1>d, <1>e DEF Excluded, NotFound
<1>9. CASE SendX11
  BY <1>9, <1>a, <1>d, <1>e DEF SendX11
<1>10. CASE Got
  BY <1>10, <1>a, <1>c, <1>e DEF Got
<1>11. CASE fbx_awrite
  BY <1>11, <1>c, <1>d, <1>e DEF fbx_awrite
<1>12. CASE UNCHANGED trackVars
  BY <1>12, <1>a, <1>c, <1>e DEF trackVars
<1> QED
  BY <1>1, <1>2, <1>3, <1>4, <1>5, <1>6, <1>7, <1>8, <1>9, <1>10, <1>11, <1>12
     DEF TrackNext, Server, EventThread, Renderer, Worker

(* No two rows are those of one event, and one that is free has no event     *)
(* that is still to be reported.                                             *)
LEMMA RowStep ==
    ASSUME TrackInv, [TrackNext]_trackVars
    PROVE  RowInv'
<1>0. /\ RowType /\ EventType /\ TagType /\ GhostType /\ RowInv
      /\ \A i \in Rows : row[i].id \in Ids
  BY DEF TrackInv, TrackType, RowType
<1>n. NoneReopened
  BY RowsKept
<1>s. Sent \in Nat
  BY <1>0, LenProperties DEF EventType, Sent, Ids
<1>1. CASE SameRows /\ Sent' = Sent
  BY <1>0, <1>1, <1>n DEF RowInv, SameRows, NoneReopened, Ids
<1>2. CASE PostEvent
  <2>1. PICK i \in Rows : row' = [row EXCEPT ![i] = [id |-> Sent + 1,
      valid |-> TRUE,
                                                     stamps |-> {}]]
    BY <1>2 DEF PostEvent
  <2>2. /\ row'[i].id = Sent + 1 /\ row'[i].valid
        /\ \A j \in Rows \ {i} : row'[j] = row[j]
    BY <1>0, <2>1 DEF RowType
  <2>3. Sent' = Sent + 1 /\ fate' = fate
    BY <1>0, <1>2, AppendFacts, <1>s, LenProperties
       DEF PostEvent, Sent, EventType, ghosts, Ids
  <2>4. \A j \in Rows : j # i => row[j].id <= Sent /\ row[j].id # Sent + 1
    BY <1>0, <1>s DEF RowInv, Ids
  <2>5. \A j \in Rows : row'[j].id = IF j = i THEN Sent + 1 ELSE row[j].id
    BY <2>2
  <2>6. \A j, k \in Rows : row'[j].id = row'[k].id => j = k \/ row'[j].id = 0
    BY <1>0, <2>4, <2>5 DEF RowInv
  <2>7. \A j \in Rows : row'[j].id <= Sent'
    BY <1>0, <1>s, <2>3, <2>4, <2>5 DEF Ids
  <2>8. /\ \A j \in Rows : row'[j].valid => row'[j].id # 0
        /\ \A j \in Rows : ~row'[j].valid =>
              row'[j].id = 0 \/ fate'[row'[j].id] # "open"
    BY <1>0, <1>s, <2>2, <2>3 DEF RowInv
  <2> QED
    BY <2>6, <2>7, <2>8 DEF RowInv
<1>3. CASE ReleaseRow
  <2>1. PICK i \in Rows : row' = [row EXCEPT ![i].valid = FALSE]
                          /\ row[i].valid /\ fate[row[i].id] = "reported"
    BY <1>3 DEF ReleaseRow
  <2>a. RowType /\ row' = [row EXCEPT ![i].valid = FALSE]
    BY <1>0, <2>1
  <2>2. \A j \in Rows : row'[j].id = row[j].id
                        /\ (j # i => row'[j].valid = row[j].valid)
    BY <2>a, Released DEF Freed
  <2>3. Sent' = Sent /\ fate' = fate
    BY <1>3 DEF ReleaseRow, eventVars, Sent, ghosts
  <2> QED
    BY <1>0, <2>1, <2>2, <2>3 DEF RowInv
<1>4. CASE fbx_awrite
  <2>1. Sent' = Sent
    BY <1>4 DEF fbx_awrite, eventVars, Sent
  <2>2. drawing # Untagged => drawing \in [index : Rows, id : 1 .. MaxEvents]
    BY <1>0, <1>4 DEF fbx_awrite, TagType, Tags
  <2>3. CASE UNCHANGED row
    BY <1>1, <2>1, <2>3 DEF SameRows
  <2>4. CASE drawing # Untagged /\ row' = Stamp(row, drawing.index, 6)
    <3>1. SameRows
      BY <1>0, <2>2, <2>4, Stamped DEF SameRows
    <3> QED
      BY <1>1, <2>1, <3>1
  <2>5. CASE /\ drawing # Untagged
             /\ row' = [row EXCEPT ![drawing.index].valid = FALSE]
             /\ Lose({drawing.id, row[drawing.index].id})
    <3> DEFINE i == drawing.index
    <3>1. i \in Rows
      BY <2>2, <2>5
    <3>2. \A j \in Rows : row'[j].id = row[j].id
                          /\ (j # i => row'[j].valid = row[j].valid)
      <4>1. RowType /\ row' = [row EXCEPT ![i].valid = FALSE]
        BY <1>0, <2>5
      <4> HIDE DEF i
      <4> QED
        BY <3>1, <4>1, Released DEF Freed
    <3>3. \A e \in 1 .. MaxEvents : e = row[i].id => fate'[e] # "open"
      BY <1>0, <2>5, Lost
    <3>4. /\ row[i].id = 0 \/ fate'[row[i].id] # "open"
          /\ row'[i].valid => row[i].valid
      BY <1>0, <2>5, <3>1, <3>3, Released DEF Ids, Freed
    <3> HIDE DEF i
    <3>5. \A j \in Rows : ~row'[j].valid => row'[j].id = 0 \/ fate'[row'[j].id] # "open"
      BY <1>0, <1>n, <3>2, <3>4 DEF RowInv, NoneReopened, Ids
    <3> QED
      BY <1>0, <2>1, <3>2, <3>4, <3>5 DEF RowInv
  <2> QED
    BY <1>4, <2>3, <2>4, <2>5 DEF fbx_awrite
<1> QED
  BY <1>1, <1>2, <1>3, <1>4, RowsKept

(* Events are sent and picked up in the order of their numbers.              *)
LEMMA InboxStep ==
    ASSUME TrackInv, [TrackNext]_trackVars
    PROVE  InboxInv'
<1>0. EventType /\ InboxInv /\ Len(inbox) \in Nat /\ lastEvent \in Nat
  BY LenProperties DEF TrackInv, TrackType, EventType, Ids
<1>1. CASE PostEvent
  <2>1. inbox' = Append(inbox,
      Sent + 1) /\ lastEvent' = lastEvent /\ Sent + 1 \in Nat
    BY <1>0, <1>1 DEF PostEvent, Sent
  <2>2. /\ Len(inbox') = Len(inbox) + 1 /\ inbox'[Len(inbox) + 1] = Sent + 1
        /\ \A k \in 1 .. Len(inbox) : inbox'[k] = inbox[k]
    BY <1>0, <2>1, AppendFacts DEF EventType
  <2> QED
    BY <1>0, <2>1, <2>2 DEF InboxInv, Sent
<1>2. CASE XNextEvent
  <2>1. /\ Len(inbox) \in Nat \ {0} /\ Len(Tail(inbox)) = Len(inbox) - 1
        /\ Head(inbox) = lastEvent + 1
        /\ \A k \in 1 .. Len(inbox) - 1 : Tail(inbox)[k] = inbox[k + 1]
    BY <1>0, <1>2, TailFacts DEF XNextEvent, EventType, InboxInv
  <2>2. lastEvent' = lastEvent + 1 /\ inbox' = Tail(inbox)
    BY <1>2, <2>1 DEF XNextEvent
  <2> QED
    BY <1>0, <2>1, <2>2 DEF InboxInv
<1>3. CASE UNCHANGED <<inbox, lastEvent>>
  BY <1>0, <1>3 DEF InboxInv
<1> QED
  BY <1>1, <1>2, <1>3 DEF TrackNext, Server, EventThread, Renderer, Worker,
      eventVars,
     trackVars, ReadReport, ReleaseRow, PushId, PushLength, SwapBuffers, PopId,
         PopLength,
     Excluded, NotFound, Found, Flush, SendX11, SwapEnd, Got, fbx_awrite

(* The queue and the variables of glXSwapBuffers() agree, action by          *)
(* action.                                                                   *)
LEMMA PlaceStep ==
    ASSUME TrackInv, [TrackNext]_trackVars
    PROVE  PlaceInv'
<1>0. EventType /\ QueueType /\ SwapType /\ GhostType /\ PlaceInv
  BY DEF TrackInv, TrackType
<1> USE <1>0 DEF eventVars, swapVars, ghosts
<1>1. CASE XNextEvent
  <2>1. UNCHANGED push \/ push'.at = "id"
    BY <1>1 DEF XNextEvent
  <2> QED
    BY <1>1, <2>1 DEF XNextEvent, PlaceInv, Ring
<1>2. CASE PushId
  BY <1>2 DEF PushId, PlaceInv, Ring, EventType, QueueType, Overlap, GhostType
<1>3. CASE PushLength
  BY <1>3 DEF PushLength, PlaceInv, Ring, EventType, QueueType, Overlap, GhostType
<1>4. CASE SwapBuffers
  BY <1>4 DEF SwapBuffers, PlaceInv, Ring, SwapType, QueueType
<1>5. CASE PopId
  BY <1>5 DEF PopId, PlaceInv, Ring, SwapType, QueueType, Overlap, GhostType
<1>6. CASE PopLength
  BY <1>6 DEF PopLength, PlaceInv, Ring, SwapType, QueueType, SwapAt, Overlap,
      GhostType
<1>7. CASE Excluded \/ NotFound \/ Found \/ Flush \/ SendX11
  BY <1>7 DEF Excluded, NotFound, Found, Flush, SendX11, SwapAt, PlaceInv, Ring,
      SwapType
<1>8. CASE SwapEnd
  BY <1>8 DEF SwapEnd, PlaceInv, Ring, SwapType
<1>9. CASE UNCHANGED <<push, queue, swapVars, raced>>
  BY <1>9 DEF PlaceInv
<1> QED
  BY <1>1, <1>2, <1>3, <1>4, <1>5, <1>6, <1>7, <1>8, <1>9
     DEF TrackNext, Server, EventThread, Renderer, Worker, trackVars, PostEvent,
         ReadReport, ReleaseRow, Got, fbx_awrite

(* The row of an event that is neither lost nor reported stays its own.      *)
LEMMA KeepsItsRow ==
    ASSUME TrackInv, [TrackNext]_trackVars, NEW e \in 1 .. MaxEvents,
           fate'[e] = "open"
    PROVE  fate[e] = "open" /\ \A i \in Rows : row[i].id = e => row'[i].id = e
<1>0. RowType /\ TagType /\ RowInv /\ fate[e] = "open"
  BY RowsKept DEF TrackInv, TrackType, NoneReopened
<1>1. CASE SameRows
  BY <1>0, <1>1 DEF SameRows
<1>2. CASE PostEvent
  <2>1. PICK i \in Rows : ~row[i].valid
                          /\ row' = [row EXCEPT ![i] = [id |-> Sent + 1,
                               valid |-> TRUE,
                                                        stamps |-> {}]]
    BY <1>2 DEF PostEvent
  <2>2. \A j \in Rows \ {i} : row'[j] = row[j]
    BY <1>0, <2>1 DEF RowType
  <2>3. row[i].id # e
    BY <1>0, <2>1 DEF RowInv
  <2> QED
    BY <1>0, <2>2, <2>3
<1>3. CASE ReleaseRow
  <2>1. PICK i \in Rows : row' = [row EXCEPT ![i].valid = FALSE]
    BY <1>3 DEF ReleaseRow
  <2> QED
    BY <1>0, <2>1, Released DEF Freed
<1>4. CASE fbx_awrite
  <2>2. drawing # Untagged => drawing.index \in Rows
    BY <1>0, <1>4 DEF fbx_awrite, TagType, Tags
  <2>3. CASE UNCHANGED row
    BY <1>0, <2>3
  <2>4. CASE drawing # Untagged /\ row' = Stamp(row, drawing.index, 6)
    BY <1>0, <2>2, <2>4, Stamped
  <2>5. CASE drawing # Untagged /\ row' = [row EXCEPT ![drawing.index].valid = FALSE]
    BY <1>0, <2>2, <2>5, Released DEF Freed
  <2> QED
    BY <1>4, <2>3, <2>4, <2>5 DEF fbx_awrite
<1> QED
  BY <1>1, <1>2, <1>3, <1>4, RowsKept

(* No step leaves an open event behind: each moves the index or the tag      *)
(* on, or declares the event lost.                                           *)
LEMMA WayStep ==
    ASSUME TrackInv, [TrackNext]_trackVars
    PROVE  WayInv'
<1> SUFFICES ASSUME ~raced', NEW e \in 1 .. lastEvent', fate'[e] = "open"
             PROVE  OnTheWay(e)'
  BY DEF WayInv
<1>0. TrackType /\ TrackType' /\ PlaceInv /\ PlaceInv' /\ RowInv
  BY TrackTypeStep, PlaceStep DEF TrackInv
<1>e. e \in 1 .. MaxEvents
  <2>1. lastEvent' \in Ids
    BY <1>0 DEF TrackType, EventType
  <2> QED
    BY <2>1, TrackAssumption DEF Ids
<1>h. fate[e] = "open" /\ \A i \in Rows : row[i].id = e => row'[i].id = e
  BY <1>e, KeepsItsRow
<1>l. \A E : Lose(E) => e \notin E
  BY <1>0, <1>e, <1>h, Lost DEF TrackType
<1>r. \A i \in Rows \cup {NoIndex} : Holds(i, e) => Holds(i, e)'
  BY <1>h DEF Holds
<1>t. /\ push.index \in Rows \cup {NoIndex} /\ swap.tmp \in Rows \cup {NoIndex}
      /\ onque \in Rows \cup {NoIndex} /\ shift \in Rows \cup {NoIndex}
      /\ queue.length = 1 => queue.id \in Rows
      /\ NoIndex \notin Rows
  BY <1>0, TrackAssumption DEF TrackType, EventType, SwapType, QueueType, Rows
<1>n. ~raced
  <2>1. Overlap => ~raced
    BY DEF Overlap
  <2>2. raced' = raced \/ Overlap
    BY DEF TrackNext, Server, EventThread, Renderer, Worker, trackVars, ghosts,
        PostEvent,
       ReadReport, ReleaseRow, XNextEvent, PushId, PushLength, SwapBuffers, PopId,
           PopLength,
       Excluded, NotFound, Found, Flush, SendX11, SwapEnd, Got, fbx_awrite
  <2> QED
    BY <2>1, <2>2
<1>w. e <= lastEvent => OnTheWay(e)
  BY <1>e, <1>h, <1>n DEF TrackInv, WayInv
<1>u. UNCHANGED row0 /\ Unread /\ row0.id = e => Unread' /\ row0'.id = e
  BY <1>0, <1>e DEF Unread
<1> USE DEF tableVars, eventVars, swapVars, frameVars, ghosts
<1>1. CASE PostEvent \/ ReleaseRow \/ UNCHANGED trackVars
  <2>1. e <= lastEvent
        /\ UNCHANGED <<push, queue, swap, onque, queued, drawing, row0>>
    BY <1>1 DEF PostEvent, ReleaseRow, trackVars
  <2> QED
    BY <1>r, <1>t, <1>w, <1>u, <2>1 DEF OnTheWay
<1>2. CASE ReadReport
  <2>1. e <= lastEvent /\ UNCHANGED <<push, queue, swap, onque, queued, drawing,
      row0>>
    BY <1>2 DEF ReadReport
  <2> QED
    BY <1>r, <1>t, <1>w, <1>u, <2>1 DEF OnTheWay
<1>3. CASE XNextEvent
  <2>1. /\ UNCHANGED <<queue, swap, onque, queued, drawing, row0>>
        /\ push.at = "idle"
    BY <1>3 DEF XNextEvent
  <2>2. \/ Lose({lastEvent'}) /\ UNCHANGED <<row, push>>
        \/ \E i \in Rows : /\ row[i].id = lastEvent' /\ push'.index = i
    BY <1>3 DEF XNextEvent
  <2>3. CASE e = lastEvent'
    <3>1. PICK i \in Rows : row[i].id = e /\ push'.index = i
      BY <1>l, <2>2, <2>3
    <3>2. Holds(push.index, e)'
      BY <1>h, <1>t, <3>1 DEF Holds
    <3> QED
      BY <3>2 DEF OnTheWay
  <2>4. CASE e # lastEvent'
    <3>1. e <= lastEvent
      <4>1. lastEvent' = lastEvent + 1 /\ lastEvent \in Nat
        <5>1. Head(inbox) = inbox[1] /\ Len(inbox) \in Nat \ {0}
          BY <1>0, <1>3, TailFacts DEF XNextEvent, TrackType, EventType
        <5> QED
          BY <1>0, <1>3, <5>1 DEF XNextEvent, TrackInv, InboxInv, TrackType,
              EventType,
             Ids
      <4> QED
        BY <2>4, <4>1
    <3>2. ~Holds(push.index, e)
      BY <1>0, <2>1 DEF TrackType, EventType, Holds
    <3> QED
      BY <1>r, <1>t, <1>w, <1>u, <2>1, <3>1, <3>2 DEF OnTheWay
  <2> QED
    BY <2>3, <2>4
<1>4. CASE PushId
  <2>1. /\ e <= lastEvent /\ UNCHANGED <<swap, onque, queued, drawing, row0>>
        /\ push'.index = push.index
        /\ queue.length = 1 => ~Holds(queue.id, e)
    BY <1>0, <1>l, <1>4 DEF PushId, Holds, TrackType, EventType
  <2> QED
    BY <1>r, <1>t, <1>w, <1>u, <2>1 DEF OnTheWay
<1>5. CASE PushLength
  <2>1. /\ e <= lastEvent /\ UNCHANGED <<swap, onque, queued, drawing, row0>>
        /\ queue.id = push.index /\ queue'.id = push.index /\ queue'.length = 1
    BY <1>0, <1>n, <1>5 DEF PushLength, PlaceInv, TrackType, QueueType
  <2> QED
    BY <1>r, <1>t, <1>w, <1>u, <2>1 DEF OnTheWay
<1>6. CASE SwapBuffers
  <2>1. /\ e <= lastEvent /\ UNCHANGED <<push, queue, onque, queued, drawing, row0>>
        /\ swap.at = "idle" /\ swap'.at # "end"
    BY <1>6 DEF SwapBuffers
  <2> QED
    BY <1>r, <1>t, <1>w, <1>u, <2>1 DEF OnTheWay
<1>7. CASE PopId
  <2>1. /\ e <= lastEvent /\ UNCHANGED <<push, queue, onque, queued, drawing, row0>>
        /\ swap.at = "popId" /\ swap'.at = "popLength"
    BY <1>7 DEF PopId
  <2>2. ~Holds(swap.tmp, e)
    BY <1>0, <1>7 DEF PopId, TrackType, SwapType, Holds
  <2> QED
    BY <1>r, <1>t, <1>w, <1>u, <2>1, <2>2 DEF OnTheWay
<1>8. CASE PopLength
  <2>1. /\ e <= lastEvent /\ UNCHANGED <<push, onque, queued, drawing, row0>>
        /\ swap'.at = "window" /\ swap'.tmp = swap.tmp /\ queue.length = 1
        /\ swap.at = "popLength" /\ swap.tmp = queue.id
    BY <1>0, <1>n, <1>8 DEF PopLength, SwapAt, PlaceInv, TrackType, SwapType, Ring
  <2> QED
    BY <1>r, <1>t, <1>w, <1>u, <2>1 DEF OnTheWay
<1>9. CASE Excluded \/ Found \/ Flush
  <2>1. /\ e <= lastEvent /\ UNCHANGED <<push, queue, onque, queued, drawing, row0>>
        /\ swap.at # "end" /\ swap'.at # "end" /\ swap'.tmp = swap.tmp
        /\ swap'.at \in {"idle", "flush"} /\ swap.at \notin {"idle", "flush"} =>
              ~Holds(swap.tmp, e)
    BY <1>0, <1>l, <1>9 DEF Excluded, Found, Flush, SwapAt, TrackType, SwapType,
        EventIn,
       Holds
  <2> QED
    BY <1>r, <1>t, <1>w, <1>u, <2>1 DEF OnTheWay
<1>10. CASE NotFound
  <2>1. /\ e <= lastEvent /\ UNCHANGED <<push, queue, onque, queued, drawing, row0>>
        /\ swap.at = "window" /\ swap'.at = "end" /\ swap'.tmp = swap.tmp
        /\ ~Holds(shift, e) /\ shift = onque
    BY <1>0, <1>l, <1>10 DEF NotFound, SwapAt, TrackType, SwapType, EventIn, Holds,
        PlaceInv
  <2> QED
    BY <1>r, <1>t, <1>w, <1>u, <2>1 DEF OnTheWay
<1>11. CASE SendX11
  <2>1. /\ e <= lastEvent /\ UNCHANGED <<push, queue, onque, shift, drawing, row0>>
        /\ swap'.tmp = swap.tmp
        /\ \/ swap.at = "flush" /\ swap'.at = "idle"
           \/ swap.at = "readback" /\ swap'.at = "end" /\ shift = onque
    BY <1>0, <1>11 DEF SendX11, SwapAt, TrackType, SwapType, PlaceInv
  <2>2. queued # NoIndex => queued.id # e
    BY <1>l, <1>11 DEF SendX11
  <2>3. Holds(shift, e) => queued' # NoIndex /\ queued'.id = e
    <3> SUFFICES ASSUME Holds(shift, e) PROVE queued' # NoIndex /\ queued'.id = e
      OBVIOUS
    <3>1. EventIn(shift) = {e}
      BY DEF Holds, EventIn
    <3>2. queued' # Untagged
      BY <1>l, <1>11, <3>1 DEF SendX11
    <3>3. queued' = [index |-> shift, id |-> row[shift].id]
      BY <1>11, <3>2 DEF SendX11
    <3>4. queued' = [index |-> shift, id |-> e] /\ shift \in Nat
      BY <1>t, <3>3 DEF Holds, Rows
    <3> QED
      BY <1>e, <3>4, TrackAssumption
  <2> QED
    BY <1>r, <1>t, <1>w, <1>u, <2>1, <2>2, <2>3 DEF OnTheWay
<1>12. CASE SwapEnd
  <2>1. /\ e <= lastEvent /\ UNCHANGED <<push, queue, queued, drawing, row0>>
        /\ swap.at = "end" /\ onque' = swap.tmp /\ swap'.at = "idle"
    BY <1>12 DEF SwapEnd
  <2> QED
    BY <1>r, <1>t, <1>w, <1>u, <2>1 DEF OnTheWay
<1>13. CASE Got
  <2>1. /\ e <= lastEvent /\ UNCHANGED <<push, queue, swap, onque, row0>>
        /\ drawing = NoIndex /\ drawing' = queued
    BY <1>13 DEF Got
  <2> QED
    BY <1>r, <1>t, <1>w, <1>u, <2>1 DEF OnTheWay
<1>14. CASE fbx_awrite
  <2>1. /\ e <= lastEvent /\ UNCHANGED <<push, queue, swap, onque, queued>>
        /\ ~Unread
    BY <1>14 DEF fbx_awrite
  <2>2. drawing.id = e => Unread' /\ row0'.id = e
    BY <1>e, <1>l, <1>14 DEF fbx_awrite, Unread, Untagged
  <2> QED
    BY <1>r, <1>t, <1>w, <2>1, <2>2 DEF OnTheWay
<1> QED
  BY <1>1, <1>2, <1>3, <1>4, <1>5, <1>6, <1>7, <1>8, <1>9, <1>10, <1>11, <1>12,
     <1>13, <1>14 DEF TrackNext, Server, EventThread, Renderer, Worker

(* The rows outside T stay where they are on their way, but for a new event. *)
Calm(T) ==
    /\ \A i \in Rows \ T : \A s : At(i, s) => At(i, s)' /\ row'[i].id = row[i].id
    /\ \A i \in Rows \ T : \/ row'[i].stamps \ {11} = row[i].stamps \ {11}
                           \/ row'[i].stamps \ {11} = {}
    /\ \A i \in Rows \ T : row'[i].id # row[i].id => At(i, {})'

(* A step that leaves the table alone and reports nothing is calm,           *)
LEMMA CalmTable ==
    ASSUME TrackInv, UNCHANGED row, UNCHANGED fate \/ \E E : Lose(E)
    PROVE  Calm({})
<1>1. \A e \in 1 .. MaxEvents : fate'[e] = "reported" <=> fate[e] = "reported"
  BY Lost DEF TrackInv, TrackType
<1>2. \A i \in Rows : row[i].valid => row[i].id \in 1 .. MaxEvents
  BY DEF TrackInv, TrackType, RowInv, RowType, Ids
<1> QED
  BY <1>1, <1>2 DEF Calm, At

(* so is one that stamps a row, but for that row,                            *)
LEMMA CalmStamp ==
    ASSUME TrackInv, UNCHANGED fate, NEW i \in Rows \cup {NoIndex},
           NEW k \in {4, 5, 6, 10, 11}, row' = Stamp(row, i, k)
    PROVE  /\ Calm({i}) /\ (k = 11 => Calm({}))
           /\ \A j \in Rows : row'[j].id = row[j].id
           /\ i \in Rows /\ k # 11 =>
                \A s : At(i, s) => At(i, s \cup {k})'
           /\ i \in Rows /\ k # 11 =>
                row'[i].stamps \ {11} = (row[i].stamps \ {11}) \cup {k}
<1>1. \A j \in Rows :
        /\ row'[j].id = row[j].id /\ row'[j].valid = row[j].valid
        /\ j # i => row'[j].stamps = row[j].stamps
        /\ j = i => row'[j].stamps = row[j].stamps \cup {k}
  BY Stamped DEF TrackInv, TrackType
<1>2. \A j \in Rows \ {i} : row'[j].stamps \ {11} = row[j].stamps \ {11}
  BY <1>1
<1>3. k = 11 => \A j \in Rows : row'[j].stamps \ {11} = row[j].stamps \ {11}
  BY <1>1
<1>4. i \in Rows /\ k # 11 =>
        row'[i].stamps \ {11} = (row[i].stamps \ {11}) \cup {k}
  BY <1>1
<1>5. Calm({i})
  BY <1>1, <1>2 DEF Calm, At
<1>6. k = 11 => Calm({})
  BY <1>1, <1>3 DEF Calm, At
<1> QED
  BY <1>1, <1>4, <1>5, <1>6 DEF At

(* and one in which the server posts an event or frees a row.                *)
LEMMA CalmServer ==
    ASSUME TrackInv, TableStage, PostEvent \/ ReleaseRow
    PROVE  Calm({})
<1>0. RowType /\ RowInv /\ EventType /\ GhostType
  BY DEF TrackInv, TrackType
<1>1. CASE PostEvent
  <2>1. PICK i \in Rows : ~row[i].valid
                          /\ row' = [row EXCEPT ![i] = [id |-> Sent + 1,
                               valid |-> TRUE,
                                                        stamps |-> {}]]
    BY <1>1 DEF PostEvent
  <2>2. \A j \in Rows \ {i} : row'[j] = row[j]
    BY <1>0, <2>1 DEF RowType
  <2>3. row'[i].valid /\ row'[i].id = Sent + 1 /\ row'[i].stamps = {}
    BY <1>0, <2>1 DEF RowType
  <2>4. fate' = fate
    BY <1>1 DEF PostEvent, ghosts
  <2>5. fate[Sent + 1] # "reported"
    <3>1. Sent + 1 \in 1 .. MaxEvents /\ Sent + 1 > lastEvent
      <4>1. Sent \in Nat /\ Sent < MaxEvents /\ lastEvent <= Sent /\ lastEvent \in Nat
        BY <1>0, <1>1, LenProperties DEF PostEvent, EventType, Sent, Ids
      <4> QED
        BY <4>1, TrackAssumption
    <3>2. lastEvent \in Nat /\ Sent \in Nat
      BY <1>0, LenProperties DEF EventType, Sent, Ids
    <3> QED
      BY <3>1, <3>2 DEF TableStage
  <2> QED
    BY <2>1, <2>2, <2>3, <2>4, <2>5 DEF Calm, At
<1>2. CASE ReleaseRow
  <2>1. PICK i \in Rows : row' = [row EXCEPT ![i].valid = FALSE]
                          /\ fate[row[i].id] = "reported"
    BY <1>2 DEF ReleaseRow
  <2>2. /\ \A j \in Rows : row'[j].id = row[j].id /\ row'[j].stamps = row[j].stamps
        /\ \A j \in Rows \ {i} : row'[j].valid = row[j].valid
    BY <1>0, <2>1, Released DEF Freed
  <2>3. fate' = fate
    BY <1>2 DEF ReleaseRow, ghosts
  <2> QED
    BY <2>1, <2>2, <2>3 DEF Calm, At
<1> QED
  BY <1>1, <1>2

(* The stages differ, and a stamp leads from one to the next.                *)
LEMMA Stages ==
    /\ Lined # {} /\ Popped # {} /\ Shown # {} /\ Drawn # {}
    /\ Lined # Popped /\ Lined # Shown /\ Lined # Drawn
    /\ Popped # Shown /\ Popped # Drawn /\ Shown # Drawn
    /\ {} \cup {4} = Lined /\ Lined \cup {5} = Popped
    /\ Popped \cup {10} = Shown /\ Shown \cup {6} = Drawn
<1>1. 4 \in Lined /\ 4 \in Popped /\ 4 \in Shown /\ 4 \in Drawn
  BY DEF Lined, Popped, Shown, Drawn
<1>2. 5 \notin Lined /\ 5 \in Popped /\ 5 \in Shown /\ 5 \in Drawn
  BY DEF Lined, Popped, Shown, Drawn
<1>3. 10 \notin Popped /\ 10 \in Shown /\ 10 \in Drawn
  BY DEF Popped, Shown, Drawn
<1>4. 6 \notin Shown /\ 6 \in Drawn
  BY DEF Shown, Drawn
<1>5. /\ {} \cup {4} = Lined /\ Lined \cup {5} = Popped
      /\ Popped \cup {10} = Shown /\ Shown \cup {6} = Drawn
  BY DEF Lined, Popped, Shown, Drawn
<1> QED
  BY <1>1, <1>2, <1>3, <1>4, <1>5

(* The next stamp on a row leads it to its next stage, and no other row.     *)
Advanced(i, s, t) ==
    /\ At(i, t)' /\ row'[i].id = row[i].id /\ TableStage'
    /\ \A j, u : At(j, u) /\ (j # i \/ u # s) => At(j, u)' /\ row'[j].id = row[j].id

(* Such a stamp leaves the table in order.                                   *)
LEMMA NextStage ==
    ASSUME TrackInv, TableStage, UNCHANGED <<fate, taken, lastEvent>>,
           NEW i, NEW s, At(i, s), NEW k, NEW t, row' = Stamp(row, i, k),
           \/ s = Lined /\ k = 5 /\ t = Popped
           \/ s = Popped /\ k = 10 /\ t = Shown
           \/ s = Shown /\ k = 6 /\ t = Drawn
    PROVE  Advanced(i, s, t)
<1>1. i \in Rows /\ row[i].stamps \ {11} = s /\ s # {} /\ t = s \cup {k}
  BY Stages DEF At
<1>a. k \in {4, 5, 6, 10, 11} /\ k # 11
  OBVIOUS
<1>2. /\ Calm({i}) /\ At(i, t)' /\ \A j \in Rows : row'[j].id = row[j].id
      /\ row'[i].stamps \ {11} = t
  BY <1>1, <1>a, CalmStamp
<1>3. \A j, u : At(j, u) /\ j # i => At(j, u)' /\ row'[j].id = row[j].id
  BY <1>2 DEF Calm, At
<1>4. \A u : At(i, u) => u = s
  BY DEF At
<1>5. \A j \in Rows : row'[j].stamps \ {11} \in {{}, Lined, Popped, Shown, Drawn}
  BY <1>2 DEF Calm, TableStage
<1>6. \A j \in Rows : row'[j].id > lastEvent => At(j, {})'
  BY <1>1, <1>2, <1>3, <1>4 DEF TableStage
<1>7. TableStage'
  BY <1>5, <1>6 DEF TableStage
<1> QED
  BY <1>1, <1>2, <1>3, <1>4, <1>7 DEF Advanced

(* Unless the threads race or a readback strays, every step keeps the        *)
(* stages: the heart of the proof, with one case for each action.            *)
LEMMA StageStep ==
    ASSUME TrackInv, [TrackNext]_trackVars
    PROVE  StageInv'
<1> SUFFICES ASSUME ~raced', ~strayed'
             PROVE  QueueStage' /\ SwapStage' /\ FrameStage' /\ TableStage'
  BY DEF StageInv
<1>0. TrackType /\ TrackType' /\ PlaceInv /\ PlaceInv' /\ RowInv
  BY TrackTypeStep, PlaceStep DEF TrackInv
<1>n. ~raced /\ ~strayed
  <2>1. Overlap => ~raced
    BY DEF Overlap
  <2>2. raced' = raced \/ Overlap
    BY DEF TrackNext, Server, EventThread, Renderer, Worker, trackVars, ghosts,
        PostEvent,
       ReadReport, ReleaseRow, XNextEvent, PushId, PushLength, SwapBuffers, PopId,
           PopLength,
       Excluded, NotFound, Found, Flush, SendX11, SwapEnd, Got, fbx_awrite
  <2>3. strayed' = strayed \/ strayed' = (strayed \/ shift # NoIndex)
    BY DEF TrackNext, Server, EventThread, Renderer, Worker, trackVars, ghosts,
        PostEvent,
       ReadReport, ReleaseRow, XNextEvent, PushId, PushLength, SwapBuffers, PopId,
           PopLength,
       Excluded, NotFound, Found, Flush, SendX11, SwapEnd, Got, fbx_awrite
  <2>4. ~raced
    BY <2>1, <2>2
  <2>5. ~strayed
    BY <2>3
  <2> QED
    BY <2>4, <2>5
<1>s. QueueStage /\ SwapStage /\ FrameStage /\ TableStage
  BY <1>n DEF TrackInv, StageInv
<1>t. /\ push.index \in Rows \cup {NoIndex} /\ swap.tmp \in Rows \cup {NoIndex}
      /\ onque \in Rows \cup {NoIndex} /\ shift \in Rows \cup {NoIndex}
      /\ lastEvent \in Nat /\ taken \in Nat /\ NoIndex \notin Rows
      /\ \A i \in Rows : row[i].id \in Nat
      /\ \A i \in Rows : row'[i].id \in Nat
  <2>1. /\ push.index \in Rows \cup {NoIndex} /\ swap.tmp \in Rows \cup {NoIndex}
        /\ onque \in Rows \cup {NoIndex} /\ shift \in Rows \cup {NoIndex}
    BY <1>0 DEF TrackType, EventType, SwapType
  <2>2. lastEvent \in Nat /\ taken \in Nat
    BY <1>0 DEF TrackType, EventType, GhostType, Ids
  <2>3. \A i \in Rows : row[i].id \in Nat
    BY <1>0 DEF TrackType, RowType, Ids
  <2>4. \A i \in Rows : row'[i].id \in Nat
    BY <1>0 DEF TrackType, RowType, Ids
  <2> QED
    BY <2>1, <2>2, <2>3, <2>4, TrackAssumption DEF Rows
<1>a. \A T, i, s : Calm(T) /\ i \notin T /\ At(i, s) => At(i,
    s)' /\ row'[i].id = row[i].id
  BY DEF Calm, At
<1>b. \A i, s, t : At(i, s) /\ At(i, t) => s = t
  BY DEF At
<1>c. \A i, s : At(i, s) => i \in Rows
  BY DEF At
<1>o. Calm({}) => \A i, s : At(i, s) => At(i, s)' /\ row'[i].id = row[i].id
  BY <1>a
(* What an action that does not touch it preserves.                          *)
<1>q. Calm({}) /\ UNCHANGED <<push, queue, swap, lastEvent, taken>> => QueueStage'
  BY <1>o, <1>s DEF QueueStage
<1>w. Calm({}) /\ UNCHANGED <<swap, onque, shift>> => SwapStage'
  BY <1>o, <1>s DEF SwapStage
<1>x. Calm({}) /\ UNCHANGED <<queued, swap, shift>> => TagInv(queued)'
  BY <1>o, <1>s DEF FrameStage, TagInv
<1>y. Calm({}) /\ UNCHANGED <<drawing, swap, shift>> => TagInv(drawing)'
  BY <1>o, <1>s DEF FrameStage, TagInv
<1>z. Calm({}) /\ UNCHANGED row0 /\ (Unread' => Unread) =>
        (Unread => At(row0.index, Drawn) /\ row[row0.index].id = row0.id)'
  BY <1>o, <1>s DEF FrameStage
<1>f. Calm({}) /\ UNCHANGED <<queued, drawing, row0, swap,
    shift>> /\ (Unread' => Unread)
        => FrameStage'
  BY <1>s, <1>x, <1>y, <1>z DEF FrameStage
<1>u. /\ UNCHANGED row0 /\ (UNCHANGED fate \/ \E E : Lose(E)) => (Unread' => Unread)
      /\ (UNCHANGED fate \/ \E E : Lose(E)) =>
           \A e \in 1 .. MaxEvents : fate'[e] = "reported" => fate[e] = "reported"
  <2>1. (UNCHANGED fate \/ \E E : Lose(E)) =>
           \A e \in 1 .. MaxEvents : fate'[e] = "reported" <=> fate[e] = "reported"
    BY <1>0, Lost DEF TrackType
  <2>2. row0.valid => row0.id \in 1 .. MaxEvents
    BY <1>0 DEF TrackType, Row0Type, Ids
  <2> QED
    BY <2>1, <2>2 DEF Unread
<1>e. ASSUME Calm({}), UNCHANGED <<taken, lastEvent>>,
             \A e \in 1 .. MaxEvents : fate'[e] = "reported" => fate[e] = "reported"
      PROVE  TableStage'
  <2>1. \A i \in Rows :
           row'[i].stamps \ {11} \in {{}, Lined, Popped, Shown, Drawn}
    BY <1>e, <1>s DEF Calm, TableStage
  <2>2. \A i \in Rows : row'[i].id > lastEvent => At(i, {})'
    BY <1>e, <1>s DEF Calm, TableStage
  <2> QED
    BY <1>e, <1>s, <2>1, <2>2 DEF TableStage
<1> USE DEF tableVars, eventVars, swapVars, frameVars, ghosts
<1>1. CASE PostEvent \/ ReleaseRow
  <2>1. Calm({})
    BY <1>1, <1>s, CalmServer
  <2>2. UNCHANGED <<row0, lastEvent, push, queue, swap, shift, onque, queued,
      drawing,
                    taken, fate>>
    BY <1>1 DEF PostEvent, ReleaseRow
  <2> QED
    BY <1>e, <1>f, <1>q, <1>u, <1>w, <2>1, <2>2
<1>2. CASE ReadReport
  <2> DEFINE T == {row0.index}
  <2>1. /\ Unread /\ fate' = [fate EXCEPT ![row0.id] = "reported"]
        /\ UNCHANGED <<row, row0, lastEvent, push, queue, swap, shift, onque,
             queued,
                       drawing, taken>>
    BY <1>2 DEF ReadReport
  <2>2. /\ At(row0.index, Drawn) /\ row[row0.index].id = row0.id
        /\ row0.id \in 1 .. MaxEvents /\ row0.index \in Rows
    BY <1>0, <1>s, <1>c, <2>1 DEF FrameStage, TrackType, Row0Type, Unread, Ids
  <2>3. /\ fate'[row0.id] = "reported"
        /\ \A e \in 1 .. MaxEvents : e # row0.id => fate'[e] = fate[e]
    BY <1>0, <2>1, <2>2 DEF TrackType, GhostType
  <2>4. Calm(T)
    <3>1. \A i \in Rows \ T : row[i].valid => row[i].id # row0.id
                                          /\ row[i].id \in 1 .. MaxEvents
      BY <1>0, <2>2 DEF RowInv, TrackType, RowType, Ids
    <3> QED
      BY <2>1, <2>3, <3>1 DEF Calm, At
  <2>5. \A i, s : At(i, s) /\ s # Drawn => At(i, s)' /\ row'[i].id = row[i].id
    BY <1>a, <1>b, <2>2, <2>4
  <2>6. QueueStage'
    BY <1>s, <2>1, <2>5, Stages DEF QueueStage
  <2>7. SwapStage'
    BY <1>s, <2>1, <2>5, Stages DEF SwapStage
  <2>8. ~Unread'
    BY <2>1, <2>3 DEF Unread
  <2>9. FrameStage'
    BY <1>s, <2>1, <2>5, <2>8, Stages DEF FrameStage, TagInv
  <2>10. TableStage'
    <3>1. row0.id <= lastEvent
      BY <1>b, <1>s, <1>t, <2>2, Stages DEF TableStage
    <3> QED
      BY <1>s, <2>1, <2>3, <2>5, <3>1, Stages DEF TableStage
  <2> QED
    BY <2>6, <2>7, <2>9, <2>10
<1>3. CASE XNextEvent
  <2>1. /\ lastEvent' = lastEvent + 1
        /\ UNCHANGED <<row0, queue, swap, shift, onque, queued, drawing, taken>>
    <3>1. Head(inbox) = inbox[1] /\ Len(inbox) \in Nat \ {0}
      BY <1>0, <1>3, TailFacts DEF XNextEvent, TrackType, EventType
    <3> QED
      BY <1>0, <1>3, <3>1 DEF XNextEvent, TrackInv, InboxInv, TrackType, EventType,
          Ids
  <2>2. push.at = "idle"
    BY <1>3 DEF XNextEvent
  <2>3. CASE Lose({lastEvent'}) /\ UNCHANGED <<row, push>>
    <3>1. Calm({})
      BY <2>3, CalmTable
    <3>2. QueueStage'
      BY <1>o, <1>s, <2>1, <2>2, <2>3, <3>1 DEF QueueStage
    <3>3. TableStage'
      <4>1. \A e \in 1 .. MaxEvents : fate'[e] = "reported" => fate[e] = "reported"
        BY <1>u, <2>3
      <4>2. \A i \in Rows :
              row'[i].stamps \ {11} \in {{}, Lined, Popped, Shown, Drawn}
        BY <1>s, <2>3 DEF TableStage
      <4>3. \A i \in Rows : row'[i].id > lastEvent' => At(i, {})'
        BY <1>o, <1>s, <1>t, <2>1, <2>3, <3>1 DEF TableStage
      <4> QED
        BY <1>s, <1>t, <2>1, <4>1, <4>2, <4>3 DEF TableStage
    <3> QED
      BY <1>f, <1>u, <1>w, <2>1, <2>3, <3>1, <3>2, <3>3
  <2>4. ASSUME NEW i \in Rows, row[i].id = lastEvent', row' = Stamp(row, i, 4),
               push' = [at |-> "id", index |-> i], UNCHANGED fate
        PROVE  QueueStage' /\ SwapStage' /\ FrameStage' /\ TableStage'
    <3> HIDE <2>4
    <3> DEFINE T == {i}
    <3>1. At(i, {})
      BY <1>s, <1>t, <2>1, <2>4 DEF TableStage
    <3>2. /\ Calm(T) /\ At(i, Lined)' /\ row'[i].id = row[i].id
          /\ row'[i].stamps \ {11} = Lined
      <4>1. row[i].stamps \ {11} = {}
        BY <3>1 DEF At
      <4> QED
        BY <2>4, <3>1, <4>1, CalmStamp, Stages
    <3>3. \A j, s : At(j, s) /\ s # {} => At(j, s)' /\ row'[j].id = row[j].id
      BY <1>a, <1>b, <3>1, <3>2
    <3>4. QueueStage'
      BY <1>s, <1>t, <2>1, <2>4, <3>2, <3>3, Stages DEF QueueStage, TableStage
    <3>5. SwapStage'
      BY <1>s, <2>1, <3>3, Stages DEF SwapStage
    <3>6. Unread' => Unread
      BY <1>u, <2>1, <2>4
    <3>7. FrameStage'
      BY <1>s, <2>1, <3>3, <3>6, Stages DEF FrameStage, TagInv
    <3>8. TableStage'
      <4>1. \A j \in Rows :
              row'[j].stamps \ {11} \in {{}, Lined, Popped, Shown, Drawn}
        BY <1>s, <3>2 DEF TableStage, Calm
      <4>2. \A j \in Rows : row'[j].id > lastEvent' => At(j, {})'
        <5> SUFFICES ASSUME NEW j \in Rows, row'[j].id > lastEvent' PROVE At(j, {})'
          OBVIOUS
        <5>1. j # i
          BY <1>t, <2>1, <2>4, <3>2
        <5>2. CASE row'[j].id = row[j].id
          <6>1. row[j].id > lastEvent
            BY <1>t, <2>1, <5>2
          <6>2. At(j, {})
            BY <1>s, <6>1 DEF TableStage
          <6> QED
            BY <1>a, <3>2, <5>1, <6>2
        <5>3. CASE row'[j].id # row[j].id
          BY <3>2, <5>1, <5>3 DEF Calm
        <5> QED
          BY <5>2, <5>3
      <4> QED
        BY <1>s, <1>t, <2>1, <2>4, <4>1, <4>2 DEF TableStage
    <3> QED
      BY <3>4, <3>5, <3>7, <3>8
  <2> QED
    <3>1. \/ Lose({lastEvent'}) /\ UNCHANGED <<row, push>>
          \/ \E i \in Rows : /\ row[i].id = lastEvent' /\ row' = Stamp(row, i, 4)
                             /\ push' = [at |-> "id", index |-> i] /\ UNCHANGED fate
      BY <1>3 DEF XNextEvent
    <3> QED
      BY <2>3, <2>4, <3>1
<1>4. CASE PushId
  <2>1. /\ push.at = "id" /\ queue' = [queue EXCEPT !.id = push.index]
        /\ push' = [push EXCEPT !.at = "length"] /\ swap.at \notin Ring
        /\ \E E : Lose(E)
        /\ UNCHANGED <<row, row0, lastEvent, swap, shift, onque, queued, drawing,
             taken>>
    BY <1>4, <1>n DEF PushId, Overlap
  <2>2. Calm({})
    BY <2>1, CalmTable
  <2>3. /\ queue'.id = push.index /\ queue'.length = queue.length
        /\ push'.index = push.index /\ push'.at = "length"
    BY <1>0, <2>1 DEF TrackType, EventType, QueueType
  <2>4. QueueStage'
    BY <1>o, <1>s, <2>1, <2>2, <2>3 DEF QueueStage
  <2> QED
    BY <1>e, <1>f, <1>u, <1>w, <2>1, <2>2, <2>4
<1>5. CASE PushLength
  <2>1. /\ push.at = "length" /\ queue' = [queue EXCEPT !.length = 1]
        /\ push' = [at |-> "idle", index |-> NoIndex] /\ swap.at \notin Ring
        /\ queue.id = push.index
        /\ UNCHANGED <<row, row0, lastEvent, swap, shift, onque, queued, drawing,
             taken,
                       fate>>
    BY <1>0, <1>5, <1>n DEF PushLength, Overlap, PlaceInv
  <2>2. Calm({})
    BY <2>1, CalmTable
  <2>3. queue'.id = push.index /\ push'.at = "idle"
    BY <1>0, <2>1 DEF TrackType, QueueType
  <2>4. QueueStage'
    BY <1>o, <1>s, <2>1, <2>2, <2>3 DEF QueueStage
  <2> QED
    BY <1>e, <1>f, <1>u, <1>w, <2>1, <2>2, <2>4
<1>6. CASE SwapBuffers
  <2>1. /\ swap.at = "idle" /\ shift' = onque
        /\ swap' = [at |-> IF queue.length = 0 THEN "window" ELSE "popId",
                    tmp |-> NoIndex]
        /\ UNCHANGED <<row, row0, lastEvent, push, queue, onque, queued, drawing,
             taken,
                       fate>>
    BY <1>6 DEF SwapBuffers
  <2>2. Calm({})
    BY <2>1, CalmTable
  <2>3. QueueStage'
    BY <1>o, <1>s, <2>1, <2>2 DEF QueueStage
  <2>4. SwapStage'
    BY <1>o, <1>s, <2>1, <2>2 DEF SwapStage
  <2>5. FrameStage'
    BY <1>o, <1>s, <1>u, <2>1, <2>2 DEF FrameStage, TagInv
  <2> QED
    BY <1>e, <1>u, <2>1, <2>2, <2>3, <2>4, <2>5
<1>7. CASE PopId
  <2>1. /\ swap.at = "popId" /\ swap' = [at |-> "popLength", tmp |-> queue.id]
        /\ taken' = row[queue.id].id /\ queue.length = 1 /\ push.at = "idle"
        /\ UNCHANGED <<row, row0, lastEvent, push, queue, shift, onque, queued,
             drawing,
                       fate>>
    BY <1>0, <1>7, <1>n DEF PopId, Overlap, PlaceInv, Ring
  <2>2. Calm({})
    BY <2>1, CalmTable
  <2>3. QueueStage'
    BY <1>o, <1>s, <2>1, <2>2 DEF QueueStage
  <2>4. SwapStage'
    BY <1>o, <1>s, <2>1, <2>2 DEF SwapStage
  <2>5. FrameStage'
    BY <1>o, <1>s, <1>u, <2>1, <2>2 DEF FrameStage, TagInv
  <2>6. At(queue.id, Lined) /\ queue.id \in Rows
    BY <1>c, <1>s, <2>1 DEF QueueStage
  <2>7. row[queue.id].id <= lastEvent
    BY <1>b, <1>s, <1>t, <2>6, Stages DEF TableStage
  <2>8. TableStage'
    BY <1>o, <1>s, <2>1, <2>2, <2>7 DEF TableStage
  <2> QED
    BY <2>3, <2>4, <2>5, <2>8
<1>8. CASE PopLength
  <2>1. /\ swap.at = "popLength" /\ push.at = "idle" /\ queue.length = 1
        /\ swap.tmp = queue.id /\ swap' = [swap EXCEPT !.at = "window"]
        /\ row' = Stamp(row, swap.tmp, 5) /\ queue' = [queue EXCEPT !.length = 0]
        /\ UNCHANGED <<row0, lastEvent, push, shift, onque, queued, drawing, taken,
             fate>>
    BY <1>0, <1>8, <1>n DEF PopLength, Overlap, PlaceInv, Ring, SwapAt
  <2>2. At(swap.tmp, Lined)
    BY <1>s, <2>1 DEF QueueStage
  <2>i. PICK i : i = swap.tmp
    OBVIOUS
  <2>3. Advanced(i, Lined, Popped)
    BY <1>s, <2>1, <2>2, <2>i, NextStage
  <2>4. push'.at = "idle" /\ queue'.length = 0 /\ swap'.at = "window"
        /\ swap'.tmp = swap.tmp
    BY <1>0, <2>1 DEF TrackType, SwapType, QueueType
  <2>5. QueueStage'
    BY <2>4 DEF QueueStage
  <2>6. SwapStage'
    <3>1. onque # NoIndex => At(onque, Popped)
      BY <1>s, <2>1 DEF SwapStage
    <3>2. onque # swap.tmp
      BY <1>b, <1>c, <1>t, <2>2, <3>1, Stages
    <3> QED
      BY <2>1, <2>3, <2>4, <2>i, <3>1, <3>2, Stages DEF SwapStage, Advanced
  <2>7. FrameStage'
    BY <1>s, <1>u, <2>1, <2>3, <2>4, Stages DEF FrameStage, TagInv, Advanced
  <2> QED
    BY <2>3, <2>5, <2>6, <2>7 DEF Advanced
<1>9. CASE Excluded \/ NotFound
  <2>1. /\ swap.at = "window" /\ swap'.at \in {"idle",
             "end"} /\ swap'.tmp = swap.tmp
        /\ \E E : Lose(E)
        /\ UNCHANGED <<row, row0, lastEvent, push, queue, shift, onque, queued,
             drawing,
                       taken>>
    BY <1>0, <1>9 DEF Excluded, NotFound, SwapAt, TrackType, SwapType
  <2>2. Calm({})
    BY <2>1, CalmTable
  <2>3. QueueStage'
    BY <1>o, <1>s, <2>1, <2>2 DEF QueueStage
  <2>4. SwapStage'
    BY <1>o, <1>s, <2>1, <2>2 DEF SwapStage
  <2>5. FrameStage'
    BY <1>o, <1>s, <1>u, <2>1, <2>2 DEF FrameStage, TagInv
  <2> QED
    BY <1>e, <1>u, <2>1, <2>2, <2>3, <2>4, <2>5
<1>10. CASE Found
  <2>1. /\ swap.at = "window" /\ swap'.at = "readback" /\ swap'.tmp = swap.tmp
        /\ row' = Stamp(row, shift, 10) /\ shift = onque
        /\ UNCHANGED <<row0, lastEvent, push, queue, shift, onque, queued, drawing,
                       taken, fate>>
    BY <1>0, <1>10 DEF Found, SwapAt, TrackType, SwapType, PlaceInv
  <2>2. CASE shift = NoIndex
    <3>1. Calm({})
      <4>1. UNCHANGED row
        BY <2>1, <2>2 DEF Stamp
      <4> QED
        BY <2>1, <4>1, CalmTable
    <3>2. QueueStage'
      BY <1>o, <1>s, <2>1, <3>1 DEF QueueStage
    <3>3. SwapStage'
      BY <1>o, <1>s, <2>1, <2>2, <3>1 DEF SwapStage
    <3>4. FrameStage'
      <4>1. \A tag : TagInv(tag) /\ tag \notin {NoIndex,
          Untagged} => tag.index # NoIndex
        BY <1>c, <1>t DEF TagInv
      <4> QED
        BY <1>o, <1>s, <1>u, <2>1, <2>2, <3>1, <4>1 DEF FrameStage, TagInv
    <3> QED
      BY <1>e, <1>u, <2>1, <3>1, <3>2, <3>3, <3>4
  <2>3. CASE shift # NoIndex
    <3>1. At(shift, Popped)
      BY <1>s, <2>1, <2>3 DEF SwapStage
    <3>i. PICK i : i = shift
      OBVIOUS
    <3>2. Advanced(i, Popped, Shown)
      BY <1>s, <2>1, <3>1, <3>i, NextStage
    <3>3. QueueStage'
      BY <1>s, <2>1, <3>2, Stages DEF QueueStage, Advanced
    <3>4. SwapStage'
      BY <1>s, <2>1, <3>2, <3>i, Stages DEF SwapStage, Advanced
    <3>5. FrameStage'
      <4>1. \A tag : TagInv(tag) /\ tag \notin {NoIndex,
          Untagged} => tag.index # shift
        BY <1>b, <3>1, Stages DEF TagInv
      <4> QED
        BY <1>s, <1>u, <2>1, <3>2, <3>i, <4>1, Stages
           DEF FrameStage, TagInv, Advanced
    <3> QED
      BY <3>2, <3>3, <3>4, <3>5 DEF Advanced
  <2> QED
    BY <2>2, <2>3
<1>11. CASE Flush
  <2>1. /\ swap.at = "idle" /\ swap'.at = "flush" /\ swap'.tmp = swap.tmp
        /\ shift = NoIndex
        /\ UNCHANGED <<row, row0, lastEvent, push, queue, shift, onque, queued,
             drawing,
                       taken, fate>>
    BY <1>0, <1>11 DEF Flush, SwapAt, TrackType, SwapType
  <2>2. Calm({})
    BY <2>1, CalmTable
  <2>3. QueueStage'
    BY <1>o, <1>s, <2>1, <2>2 DEF QueueStage
  <2>4. SwapStage'
    BY <1>o, <1>s, <2>1, <2>2 DEF SwapStage
  <2>5. FrameStage'
    BY <1>o, <1>s, <1>u, <2>1, <2>2 DEF FrameStage, TagInv
  <2> QED
    BY <1>e, <1>u, <2>1, <2>2, <2>3, <2>4, <2>5
<1>12. CASE SendX11
  <2>1. /\ swap.at \in {"readback", "flush"} /\ swap'.tmp = swap.tmp
        /\ swap'.at = (IF swap.at = "flush" THEN "idle" ELSE "end")
        /\ \E E : Lose(E)
        /\ UNCHANGED <<row, row0, lastEvent, push, queue, shift, onque, drawing,
             taken>>
    BY <1>0, <1>12 DEF SendX11, SwapAt, TrackType, SwapType
  <2>2. Calm({})
    BY <2>1, CalmTable
  <2>3. QueueStage'
    BY <1>o, <1>s, <2>1, <2>2 DEF QueueStage
  <2>4. SwapStage'
    BY <1>o, <1>s, <2>1, <2>2 DEF SwapStage
  <2>5. queued' # Untagged =>
          /\ queued' = [index |-> shift, id |-> row[shift].id]
          /\ swap.at = "readback" /\ At(shift, Shown)
    BY <1>s, <1>12 DEF SendX11, SwapStage
  <2>6. /\ TagInv(queued)'
        /\ (queued \notin {NoIndex, Untagged} /\ drawing \notin {NoIndex,
             Untagged} =>
               queued.index # drawing.index)'
    BY <1>o, <1>s, <2>1, <2>2, <2>5 DEF FrameStage, TagInv
  <2>7. TagInv(drawing)'
    BY <1>o, <1>s, <2>1, <2>2 DEF FrameStage, TagInv
  <2>8. FrameStage'
    BY <1>u, <1>z, <2>1, <2>2, <2>6, <2>7 DEF FrameStage
  <2> QED
    BY <1>e, <1>u, <2>1, <2>2, <2>3, <2>4, <2>8
<1>13. CASE SwapEnd
  <2>1. /\ swap.at = "end" /\ row' = Stamp(row, shift, 11) /\ onque' = swap.tmp
        /\ swap' = [at |-> "idle", tmp |-> NoIndex]
        /\ UNCHANGED <<row0, lastEvent, push, queue, shift, queued, drawing, taken,
             fate>>
    BY <1>13 DEF SwapEnd
  <2>2. Calm({})
    BY <1>t, <2>1, CalmStamp
  <2>3. QueueStage'
    BY <1>o, <1>s, <2>1, <2>2 DEF QueueStage
  <2>4. SwapStage'
    BY <1>o, <1>s, <2>1, <2>2 DEF SwapStage
  <2>5. FrameStage'
    BY <1>o, <1>s, <1>u, <2>1, <2>2 DEF FrameStage, TagInv
  <2> QED
    BY <1>e, <1>u, <2>1, <2>2, <2>3, <2>4, <2>5
<1>14. CASE Got
  <2>1. /\ drawing' = queued /\ queued' = NoIndex
        /\ UNCHANGED <<row, row0, lastEvent, push, queue, swap, shift, onque,
             taken, fate>>
    BY <1>14 DEF Got
  <2>2. Calm({})
    BY <2>1, CalmTable
  <2>3. FrameStage'
    BY <1>o, <1>s, <1>u, <2>1, <2>2 DEF FrameStage, TagInv
  <2> QED
    BY <1>e, <1>q, <1>u, <1>w, <2>1, <2>2, <2>3
<1>15. CASE fbx_awrite
  <2>1. /\ drawing # NoIndex /\ drawing' = NoIndex /\ ~Unread
        /\ UNCHANGED <<lastEvent, push, queue, swap, shift, onque, queued, taken>>
    BY <1>15 DEF fbx_awrite
  <2>2. CASE drawing = Untagged
    <3>1. UNCHANGED row /\ \E E : Lose(E)
      BY <1>15, <2>2 DEF fbx_awrite
    <3>2. Calm({}) /\ ~row0'.valid
      BY <1>0, <1>15, <2>2, <3>1, CalmTable DEF fbx_awrite, TrackType, Row0Type
    <3>3. TagInv(queued)'
      BY <1>x, <2>1, <3>2
    <3>4. FrameStage'
      BY <1>s, <2>1, <3>2, <3>3 DEF FrameStage, TagInv, Unread
    <3> QED
      BY <1>e, <1>q, <1>u, <1>w, <2>1, <3>1, <3>2, <3>4
  <2>3. CASE drawing # Untagged
    <3>i. PICK i : i = drawing.index
      OBVIOUS
    <3>1. At(i, Shown) /\ row[i].id = drawing.id
          /\ (swap.at = "readback" => i # shift)
      BY <1>s, <2>1, <2>3, <3>i DEF FrameStage, TagInv
    <3>2. /\ row0' = [valid |-> TRUE, id |-> row[i].id, index |-> i]
          /\ row' = Stamp(row, i, 6) /\ UNCHANGED fate
      BY <1>15, <2>3, <3>1, <3>i DEF fbx_awrite, At
    <3>3. Advanced(i, Shown, Drawn)
      BY <1>s, <2>1, <3>1, <3>2, NextStage
    <3>4. QueueStage'
      BY <1>s, <2>1, <3>3, Stages DEF QueueStage, Advanced
    <3>5. SwapStage'
      BY <1>s, <2>1, <3>1, <3>3, Stages DEF SwapStage, Advanced
    <3>6. TagInv(queued)'
      BY <1>s, <2>1, <2>3, <3>3, <3>i DEF FrameStage, TagInv, Advanced
    <3>7. FrameStage'
      <4>1. row0'.index = i /\ row0'.id = row'[i].id
        BY <3>2, <3>3 DEF Advanced
      <4>2. TagInv(drawing)'
        BY <2>1 DEF TagInv
      <4> QED
        BY <2>1, <3>3, <3>6, <4>1, <4>2 DEF FrameStage, Advanced
    <3> QED
      BY <3>3, <3>4, <3>5, <3>7 DEF Advanced
  <2> QED
    BY <2>2, <2>3
<1>16. CASE UNCHANGED trackVars
  <2>1. UNCHANGED <<row, row0, lastEvent, push, queue, swap, shift, onque, queued,
                    drawing, taken, fate>>
    BY <1>16 DEF trackVars
  <2>2. Calm({})
    BY <2>1, CalmTable
  <2> QED
    BY <1>e, <1>f, <1>q, <1>u, <1>w, <2>1, <2>2
<1> QED
  BY <1>1, <1>2, <1>3, <1>4, <1>5, <1>6, <1>7, <1>8, <1>9, <1>10, <1>11, <1>12,
     <1>13, <1>14, <1>15, <1>16 DEF TrackNext, Server, EventThread, Renderer, Worker

(* Table, queue, variables and tags agree in every reachable state.          *)
THEOREM TrackInvariant == TrackSpec => []TrackInv
<1>1. TrackInv /\ [TrackNext]_trackVars => TrackInv'
  BY TrackTypeStep, RowStep, InboxStep, PlaceStep, WayStep, StageStep DEF TrackInv
<1> QED
  BY <1>1, TrackInitHolds, PTL DEF TrackSpec

(* An event picked up is reported, or its index or tag is on its way to      *)
(* be, or a newer event, a spoiled frame or an unread swap made away with    *)
(* it: for any number of rows and events.                                    *)
THEOREM NothingIsForgotten == TrackSpec => []NothingForgotten
<1>1. TrackInv => NothingForgotten
  <2> SUFFICES ASSUME TrackInv, ~raced, NEW e \in 1 .. lastEvent, fate[e] = "open"
               PROVE  UnderWay(e)
    BY DEF NothingForgotten
  <2>1. OnTheWay(e)
    BY DEF TrackInv, WayInv
  <2> QED
    BY <2>1 DEF OnTheWay, UnderWay
<1> QED
  BY <1>1, TrackInvariant, PTL

(* Without a race and without a stray readback, the stamps of every row      *)
(* are those of one event, in the order of the stages, and a report has      *)
(* all of them.                                                              *)
THEOREM StampsAreInOrder == TrackSpec => []StampsInOrder
<1>1. TrackInv => StampsInOrder
  <2> SUFFICES ASSUME TrackInv, ~raced, ~strayed, NEW i \in Rows
               PROVE  /\ row[i].stamps \ {11}
                         \in {{}, {4}, {4, 5}, {4, 5, 10}, {4, 5, 10, 6}}
                      /\ Unread /\ row0.index = i =>
                            row[i].id = row0.id /\ 6 \in row[i].stamps
    BY DEF StampsInOrder
  <2>1. TableStage /\ FrameStage
    BY DEF TrackInv, StageInv
  <2> QED
    BY <2>1 DEF TableStage, FrameStage, At, Lined, Popped, Shown, Drawn
<1> QED
  BY <1>1, TrackInvariant, PTL

(* Without a race and without a stray readback, each event taken from the    *)
(* queue is newer than all taken before it.                                  *)
THEOREM EventsAreTakenOnce == TrackSpec => TakenOnce
<1>1. TrackInv /\ [TrackNext]_trackVars =>
        [PopId => raced' \/ strayed \/ taken' > taken]_trackVars
  <2> SUFFICES ASSUME TrackInv, PopId, ~raced', ~strayed PROVE taken' > taken
    OBVIOUS
  <2>1. ~raced /\ swap.at = "popId" /\ taken' = row[queue.id].id
    BY DEF PopId, Overlap, TrackInv, TrackType, GhostType
  <2>2. queue.length = 1
    BY <2>1 DEF TrackInv, PlaceInv, Ring
  <2>3. QueueStage
    BY <2>1 DEF TrackInv, StageInv
  <2>4. taken < row[queue.id].id /\ queue.id \in Rows
    BY <2>1, <2>2, <2>3 DEF QueueStage, At
  <2>5. taken \in Nat /\ row[queue.id].id \in Nat
    BY <2>4 DEF TrackInv, TrackType, GhostType, RowType, Ids
  <2> QED
    BY <2>1, <2>4, <2>5
<1> QED
  BY <1>1, TrackInvariant, PTL DEF TrackSpec, TakenOnce

-----------------------------------------------------------------------------
(* FakerLife *)


(* The places a thread can be in                                           *)
Places == Inside \cup {"idle", "make", "found", "compare", "delete", "deleting",
                       "stale", "die", "kill", "cleanup", "cleaning", "exit",
                       "atexit", "gone"}

(* The places in which a thread holds the lock of the hash, or of the        *)
(* VirtualWin; one that dies of a missing function can hold them longer.     *)
InHash == {"make", "compare", "delete", "deleting", "cleanup", "cleaning"}
InWin == Inside \cup {"deleting", "cleaning"}

(* The types of the variables                                               *)
TypeInv ==
    /\ pc \in [Thread -> Places]
    /\ winMutex \in Thread \cup {None} /\ hashMutex \in Thread \cup {None}
    /\ win \in {"none", "alive", "deleted"} /\ entry \in BOOLEAN

(* A thread between lock() and unlock() has the lock.                        *)
LockInv ==
    /\ \A t \in Thread : pc[t] \in InWin => winMutex = t
    /\ \A t \in Thread : pc[t] \in InHash => hashMutex = t

(* A VirtualWin in the hash is alive, and one about to be deleted is no      *)
(* longer in it; what was found exists or has existed.                       *)
LifeInv ==
    /\ entry => win = "alive"
    /\ \A t \in Thread :
          pc[t] \in {"delete", "deleting", "cleanup", "cleaning"} => ~entry
    /\ \A t \in Thread : pc[t] = "make" => win = "none"
    /\ \A t \in Thread : pc[t] \in {"found", "compare"} => win # "none"
    /\ \A t \in Thread : pc[t] \in Inside => win = "alive"

(* The inductive invariant                                                  *)
IInv == TypeInv /\ LockInv /\ LifeInv

USE DEF Places, Inside, InHash, InWin, locks, window

(* It holds before the first call.                                           *)
LEMMA InitHolds == Init => IInv
  BY FakerAssumption DEF Init, IInv, TypeInv, LockInv, LifeInv

(* Calls of the application, which find the lock of the hash free.           *)
LEMMA CallStep ==
    ASSUME IInv, NEW t \in Thread,
           initVW(t) \/ FindWindow(t) \/ FindDrawable(t) \/ Remove(t)
    PROVE  IInv'
<1> USE FakerAssumption DEF IInv, TypeInv, LockInv, LifeInv, Call, Goto
<1>1. CASE initVW(t)
  BY <1>1 DEF initVW
<1>2. CASE FindWindow(t)
  BY <1>2 DEF FindWindow
<1>3. CASE FindDrawable(t)
  BY <1>3 DEF FindDrawable
<1>4. CASE Remove(t)
  BY <1>4 DEF Remove
<1> QED BY <1>1, <1>2, <1>3, <1>4

(* A VirtualWin is made, and functions are looked up.                        *)
LEMMA MakeStep ==
    ASSUME IInv, NEW t \in Thread,
           Made(t) \/ MakeFails(t) \/ Load(t) \/ LoadFails(t)
    PROVE  IInv'
<1> USE FakerAssumption DEF IInv, TypeInv, LockInv, LifeInv, Goto
<1>1. CASE Made(t)
  BY <1>1 DEF Made
<1>2. CASE MakeFails(t)
  <2>1. CASE UNCHANGED <<entry, win>>
    BY <1>2, <2>1 DEF MakeFails
  <2>2. CASE entry' = TRUE /\ win' = "alive"
    BY <1>2, <2>2 DEF MakeFails
  <2> QED BY <1>2, <2>1, <2>2 DEF MakeFails, HalfMade
<1>3. CASE Load(t)
  BY <1>3 DEF Load
<1>4. CASE LoadFails(t)
  <2>1. CASE pc[t] = "make"
    BY <1>4, <2>1 DEF LoadFails, HalfMade
  <2>2. CASE pc[t] # "make"
    BY <1>4, <2>2 DEF LoadFails
  <2> QED BY <2>1, <2>2
<1> QED BY <1>1, <1>2, <1>3, <1>4

(* readback(), which neither adds nor deletes a VirtualWin.                  *)
LEMMA ReadbackStep ==
    ASSUME IInv, NEW t \in Thread,
           \/ Compared(t) \/ Enter(t) \/ Readback(t) \/ Connected(t)
           \/ ConnectFails(t) \/ synchronize(t) \/ getFrame(t) \/ Send(t)
    PROVE  IInv'
<1> USE FakerAssumption DEF IInv, TypeInv, LockInv, LifeInv, Goto
<1>1. CASE Compared(t)
  BY <1>1 DEF Compared
<1>2. CASE Enter(t)
  BY <1>2 DEF Enter
<1>3. CASE Readback(t)
  BY <1>3 DEF Readback
<1>4. CASE Connected(t)
  BY <1>4 DEF Connected
<1>5. CASE ConnectFails(t)
  BY <1>5 DEF ConnectFails
<1>6. CASE synchronize(t)
  BY <1>6 DEF synchronize
<1>7. CASE Send(t)
  BY <1>7 DEF Send
<1>8. CASE getFrame(t)
  BY <1>8 DEF getFrame
<1> QED BY <1>1, <1>2, <1>3, <1>4, <1>5, <1>6, <1>7, <1>8

(* XDestroyWindow() and the end of the faker: the destructor finds winMutex  *)
(* free, so nobody is inside.                                                *)
LEMMA EndStep ==
    ASSUME IInv, NEW t \in Thread,
           \/ LockWin(t) \/ Delete(t) \/ safeExit(t) \/ Kill(t) \/ Unlock(t)
           \/ ExitCalled(t) \/ GlobalCleanup(t)
    PROVE  IInv'
<1> USE FakerAssumption DEF IInv, TypeInv, LockInv, LifeInv, Goto
<1>1. CASE Delete(t)
  <2>1. \A u \in Thread : u # t => pc[u] \notin InWin /\ pc[u] \notin InHash
    BY <1>1 DEF Delete
  <2> QED BY <1>1, <2>1 DEF Delete
<1>2. CASE safeExit(t)
  BY <1>2 DEF safeExit, Without
<1>3. CASE Kill(t)
  BY <1>3, ZenonT(60) DEF Kill, Free
<1>4. CASE Unlock(t)
  BY <1>4 DEF Unlock
<1>5. CASE ExitCalled(t)
  BY <1>5 DEF ExitCalled
<1>6. CASE GlobalCleanup(t)
  BY <1>6 DEF GlobalCleanup
<1>7. CASE LockWin(t)
  BY <1>7 DEF LockWin, Free
<1> QED BY <1>1, <1>2, <1>3, <1>4, <1>5, <1>6, <1>7

(* Locks, hash and life of the VirtualWin agree in every reachable state.    *)
THEOREM LifeInvariance == Spec => []IInv
<1>1. IInv /\ [Next]_vars => IInv'
  <2> SUFFICES ASSUME IInv, [Next]_vars PROVE IInv'
    OBVIOUS
  <2>1. CASE Sender
    BY <2>1 DEF Sender, IInv, TypeInv, LockInv, LifeInv
  <2>2. CASE UNCHANGED vars
    BY <2>2 DEF vars, IInv, TypeInv, LockInv, LifeInv
  <2>3. ASSUME NEW t \in Thread,
               initVW(t) \/ FindWindow(t) \/ FindDrawable(t) \/ Remove(t)
        PROVE  IInv'
    BY <2>3, CallStep
  <2>4. ASSUME NEW t \in Thread, ExitCalled(t) \/ Progress(t)
        PROVE  IInv'
    BY <2>4, MakeStep, ReadbackStep, EndStep DEF Progress
  <2> QED BY <2>1, <2>2, <2>3, <2>4 DEF Next
<1> QED BY InitHolds, <1>1, PTL DEF Spec

(* Whoever is inside readback() holds the lock of a VirtualWin that is       *)
(* alive: neither XDestroyWindow() nor safeExit() deletes it meanwhile.      *)
THEOREM NoReadbackInDeleted == Spec => []InsideIsSafe
<1>1. IInv => InsideIsSafe
  BY DEF IInv, LockInv, LifeInv, InsideIsSafe
<1> QED BY LifeInvariance, <1>1, PTL
=============================================================================
