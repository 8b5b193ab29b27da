----------------------------- MODULE MCUiPanels -----------------------------
(* UiPanels for TLC.                                                       *)
EXTENDS UiPanels

NoProtocols  == <<>>
OneProtocol == <<"redis">>
TwoProtocols == <<"redis", "mysql">>
=============================================================================
