---------------------------- MODULE MCRecording ----------------------------
(* Recording for TLC: the constants are given in the Recording*.cfg files. *)
EXTENDS Recording
=============================================================================
