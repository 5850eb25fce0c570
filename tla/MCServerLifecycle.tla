------------------------- MODULE MCServerLifecycle -------------------------
(* Two handlers, one worker, a queue of one, and two calls of Shutdown, one *)
(* of which is main's.                                                      *)
EXTENDS ServerMain
=============================================================================
