-------------------------- MODULE MCMuxConnections --------------------------
(* Route keys for MuxConnections.  An accepted socket may name the key of  *)
(* the peer, as between two swbusds that list each other, or one of its    *)
(* own.                                                                    *)
EXTENDS MuxConnections

Keys == [c \in {"peer"} |-> "node"]
=============================================================================
