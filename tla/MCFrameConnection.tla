------------------------- MODULE MCFrameConnection -------------------------
(* Small instances of FrameConnection for TLC. *)
EXTENDS FrameConnection
=============================================================================
