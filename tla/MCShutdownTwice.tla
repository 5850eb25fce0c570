-------------------------- MODULE MCShutdownTwice --------------------------
(* One handler, one worker, and two calls of Shutdown.                      *)
EXTENDS ServerLifecycle
=============================================================================
