--------------------------- MODULE MCExternalPump ---------------------------
(* A small instance of ExternalPump for TLC. *)
EXTENDS ExternalPump
CONSTANTS t1, t2, t3
=============================================================================
