---------------------------- MODULE MCHandshake ----------------------------
(* Instances of Handshake for TLC.  The values of --client_id include -1    *)
(* (any), which a .cfg file cannot write.                                   *)
EXTENDS Handshake

AutoOrSeat == {-1} \union 0 .. NbClients - 1
AutoOrAnything == AutoOrSeat \union {NbClients}
=============================================================================
