------------------------------- MODULE MCLink -------------------------------
(***************************************************************************)
(* Small instances of Link for TLC: devices with two groups, one and none. *)
(***************************************************************************)
EXTENDS Link

CONSTANTS d1, d2, d3

MCGroups == [d \in Devices |-> IF d = d1 THEN 2 ELSE IF d = d2 THEN 1 ELSE 0]
=============================================================================
