----------------------------- MODULE MCCommands -----------------------------
(***************************************************************************)
(* Small instances of Commands for TLC.                                    *)
(***************************************************************************)
EXTENDS Commands

CONSTANTS c1, c2, t1
=============================================================================
