----------------------------- MODULE MCSession ------------------------------
(* Instances of Session for TLC: frames of two pixels.                       *)
EXTENDS Session
Left == {[p \in Pixels |-> 0], [p \in Pixels |-> p]}
Right == {[p \in Pixels |-> 0], [p \in Pixels |-> 1]}
Sizes == {0, 1}
WholeOnly == {0}
JPEGOnly == {"JPEG"}
All == {"JPEG", "RGB", "YUV"}
Written == {1, 8}
Dialog == {"dialog"}
AutoDraw == {<<"X11", TRUE>>, <<"X11", FALSE>>}
AllVersions == {10, 20, 21}
Current == {21}
=============================================================================
