---------------------------- MODULE MCEventTrack ----------------------------
(* An instance of EventTrack for TLC.                                        *)
EXTENDS EventTrack
=============================================================================
