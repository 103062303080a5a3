---------------------------- MODULE MCLogFanout ----------------------------
(***************************************************************************)
(* Small instances of LogFanout for TLC: a queue of one or two records.    *)
(***************************************************************************)
EXTENDS LogFanout
=============================================================================
