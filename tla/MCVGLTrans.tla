----------------------------- MODULE MCVGLTrans -----------------------------
(* Instances of VGLTrans for TLC: the four buffers of the code's pool.       *)
EXTENDS VGLTrans, TLC
CONSTANTS f1, f2, f3, f4
Pool == {f1, f2, f3, f4}
(* Buffers are interchangeable; only the runs without liveness say so.       *)
Symmetry == Permutations(Pool)
BothModes == BOOLEAN
(* Spoiling is on from the start and is turned off once, at any moment.      *)
SpoilingInit == Init /\ spoil = TRUE
SpoilingNext == Next /\ (spoil' => spoil)
TurnedOff == SpoilingInit /\ [][SpoilingNext]_vars
=============================================================================
