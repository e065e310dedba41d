----------------------------- MODULE MCX11Trans -----------------------------
(* Instances of X11Trans for TLC: the three buffers of the code's pool.      *)
EXTENDS X11Trans
CONSTANTS f1, f2, f3
Pool == {f1, f2, f3}
BothModes == BOOLEAN
=============================================================================
