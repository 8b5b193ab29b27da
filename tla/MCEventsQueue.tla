--------------------------- MODULE MCEventsQueue ---------------------------
(* EventsQueue for TLC: the constants are given in EventsQueue.cfg.        *)
EXTENDS EventsQueue
=============================================================================
