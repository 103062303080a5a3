---------------------------- MODULE CommandLedger ----------------------------
(***************************************************************************)
(* What the write path promises a caller, with no link, worker or queue in *)
(* sight: a command is accepted or turned down once, and an accepted       *)
(* command is answered at most once.  Module Engine implements it.         *)
(***************************************************************************)
CONSTANTS
  Cmds          \* write commands

VARIABLE state

States == {"new", "offered", "rejected", "accepted", "answered"}

Init == state = [c \in Cmds |-> "new"]

Move(c, from, to) == state[c] = from /\ state' = [state EXCEPT ![c] = to]

Offer(c)  == Move(c, "new", "offered")
Refuse(c) == Move(c, "new", "rejected") \/ Move(c, "offered", "rejected")
Accept(c) == Move(c, "offered", "accepted")
Answer(c) == Move(c, "accepted", "answered")

Next == \E c \in Cmds : Offer(c) \/ Refuse(c) \/ Accept(c) \/ Answer(c)

Spec == Init /\ [][Next]_state
=============================================================================
