------------------------------ MODULE MCEngine ------------------------------
(***************************************************************************)
(* Small instances of Engine for TLC.  The configurations choose how many  *)
(* reloads, stops and commands run at the same time.                       *)
(***************************************************************************)
EXTENDS Engine

CONSTANTS ch1, c1, c2

\* Every command addresses the first channel.
MCCmdChannel == [c \in Cmds |-> ch1]
=============================================================================
