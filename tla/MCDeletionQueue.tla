-------------------------- MODULE MCDeletionQueue --------------------------
(* Two handlers, two workers, two calls of Shutdown, three ids and a buffer *)
(* of one, so that it fills up, drains, and is closed at every fill level.  *)
EXTENDS DeletionQueue
=============================================================================
