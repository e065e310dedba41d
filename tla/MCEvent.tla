------------------------------ MODULE MCEvent -------------------------------
(* The instance of Event for TLC: two threads on each side.                  *)
EXTENDS Event
CONSTANTS w1, w2, s1, s2
BothWait == {w1, w2}
BothSignal == {s1, s2}
=============================================================================
