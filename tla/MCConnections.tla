--------------------------- MODULE MCConnections ---------------------------
(***************************************************************************)
(* A small instance of Connections.                                        *)
(***************************************************************************)
EXTENDS Connections
=============================================================================
