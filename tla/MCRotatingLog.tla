--------------------------- MODULE MCRotatingLog ---------------------------
(* Small instances of RotatingLog.                                         *)
EXTENDS RotatingLog
=============================================================================
