--------------------------- MODULE MCCommMonitor ---------------------------
(***************************************************************************)
(* Small instances of CommMonitor for TLC.                                 *)
(***************************************************************************)
EXTENDS CommMonitor
=============================================================================
