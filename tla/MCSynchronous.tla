---------------------------- MODULE MCSynchronous ----------------------------
(* Instances of Synchronous for TLC.  The .cfg files give the constants. *)
EXTENDS SynchronousRounds, SynchronousReplay
=============================================================================
