----------------------------- MODULE MCExchange -----------------------------
(***************************************************************************)
(* Small instances of Exchange for TLC.  r1 reads a group from slave 1 and *)
(* r3 one of the same size from slave 2; w1 writes one register, w2 writes *)
(* two registers frame by frame, w3 in one frame, and w4 writes the same   *)
(* registers of slave 2 in one frame.                                      *)
(***************************************************************************)
EXTENDS Exchange, TLC

CONSTANTS r1, r3, w1, w2, w3, w4

MCFc == [r \in Requests |->
  CASE r \in {r1, r3} -> 3 [] r \in {w1, w2} -> 6 [] OTHER -> 16]
MCUnit == [r \in Requests |-> IF r \in {r3, w4} THEN 2 ELSE 1]
MCShape == [r \in Requests |->
  IF r \in {r1, r3} THEN "two registers" ELSE "address 7"]
MCFrames == [r \in Requests |-> IF r = w2 THEN 2 ELSE 1]
=============================================================================
