----------------------------- MODULE MCUiUpload -----------------------------
(* UiUpload for TLC: the constants are given in UiUpload.cfg.              *)
EXTENDS UiUpload
=============================================================================
