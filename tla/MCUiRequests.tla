---------------------------- MODULE MCUiRequests ----------------------------
(* UiRequests for TLC: the constants are given in the configurations.      *)
EXTENDS UiRequests
=============================================================================
