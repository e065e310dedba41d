---------------------------- MODULE FrameChannel ----------------------------
(***************************************************************************)
(* What an image transport promises the application, without its threads,   *)
(* buffers and locks: frames are numbered in the order they were rendered,  *)
(* they reach the viewer in that order, a frame is dropped only while a     *)
(* newer one is being offered, and no more than Depth frames are ever       *)
(* between the renderer and the viewer.                                     *)
(***************************************************************************)
EXTENDS Naturals, Sequences

CONSTANTS MaySpoil,  \* whether frames may be dropped at all (fconfig.spoil)
          Depth      \* frames that may be under way at once

VARIABLES
    newest,          \* number of the frame last rendered
    offering,        \* that frame has not reached the channel yet
    pending,         \* numbers of the frames under way, oldest first
    shown,           \* number of the frame the viewer sees, 0 at first
    open             \* the channel has neither failed nor been closed

cvars == <<newest, offering, pending, shown, open>>

WithoutIndex(s, i) == SubSeq(s, 1, i - 1) \o SubSeq(s, i + 1, Len(s))

ChannelInit == /\ newest = 0
               /\ offering = FALSE
               /\ pending = <<>>
               /\ shown = 0
               /\ open = TRUE

Offer == /\ ~offering
         /\ newest' = newest + 1
         /\ offering' = TRUE
         /\ UNCHANGED <<pending, shown, open>>

Spoil == /\ MaySpoil
         /\ offering
         /\ \E i \in DOMAIN pending : pending' = WithoutIndex(pending, i)
         /\ UNCHANGED <<newest, offering, shown, open>>

Publish == /\ offering
           /\ Len(pending) < Depth
           /\ pending' = Append(pending, newest)
           /\ offering' = FALSE
           /\ UNCHANGED <<newest, shown, open>>

Deliver == /\ pending # <<>>
           /\ shown' = Head(pending)
           /\ pending' = Tail(pending)
           /\ UNCHANGED <<newest, offering, open>>

(* The transport fails or is closed: the oldest frames under way are lost.   *)
Close == /\ open' = FALSE
         /\ \E n \in 0 .. Len(pending) :
                pending' = SubSeq(pending, n + 1, Len(pending))
         /\ UNCHANGED <<newest, offering, shown>>

ChannelNext == Offer \/ Spoil \/ Publish \/ Deliver \/ Close

ChannelSafety == ChannelInit /\ [][ChannelNext]_cvars

(* While the channel is open an offered frame is published and the oldest   *)
(* pending one is delivered.                                                *)
ChannelSpec == /\ ChannelSafety
               /\ WF_cvars(open /\ Publish)
               /\ WF_cvars(open /\ Deliver)
=============================================================================
