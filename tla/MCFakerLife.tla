---------------------------- MODULE MCFakerLife -----------------------------
(* An instance of FakerLife for TLC.                                         *)
EXTENDS FakerLife
CONSTANTS t1, t2, t3
Threads == {t1, t2, t3}
=============================================================================
