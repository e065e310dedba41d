---------------------------- MODULE MCClientWin -----------------------------
(* The instance of ClientWin for TLC: both kinds of image.                   *)
EXTENDS ClientWin
Mixed == {"c", "x"}
=============================================================================
