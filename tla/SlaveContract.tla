--------------------------- MODULE SlaveContract ---------------------------
(***************************************************************************)
(* What a master can rely on of one slave, without its sockets, files and  *)
(* requests.                                                               *)
(*                                                                         *)
(* A slave serves at most one request between two reports.  Every report   *)
(* costs a unit of a budget that only a new life gives back; a slave that  *)
(* owes a report and has no budget left can only end.  A slave may lose    *)
(* the ability to serve, and a slave that has lost it goes on reporting    *)
(* and serves nobody until it ends.                                        *)
(***************************************************************************)
EXTENDS Naturals

CONSTANT Budget

VARIABLES
  phase,   \* "down", "idle", "serving", "owing" or "reporting"
  budget,  \* the reports the slave can still begin in this life
  lost     \* the slave cannot serve any more

vars == <<phase, budget, lost>>

Init ==
  /\ phase = "down"
  /\ budget = Budget
  /\ lost = FALSE

Start ==
  /\ phase = "down"
  /\ phase' = "idle"
  /\ UNCHANGED <<budget, lost>>

Serve ==
  /\ phase = "idle"
  /\ ~ lost
  /\ phase' = "serving"
  /\ UNCHANGED <<budget, lost>>

(* The request is answered, or the slave gave up on it or on waiting.      *)
Owe ==
  /\ phase \in {"idle", "serving"}
  /\ phase' = "owing"
  /\ lost' \in {lost, TRUE}
  /\ UNCHANGED budget

BeginReport ==
  /\ phase = "owing"
  /\ budget > 0
  /\ phase' = "reporting"
  /\ budget' = budget - 1
  /\ UNCHANGED lost

EndReport ==
  /\ phase = "reporting"
  /\ phase' = "idle"
  /\ UNCHANGED <<budget, lost>>

End ==
  /\ phase # "down"
  /\ phase' = "down"
  /\ budget' = Budget
  /\ lost' = FALSE

Next == Start \/ Serve \/ Owe \/ BeginReport \/ EndReport \/ End

Spec == Init /\ [][Next]_vars
=============================================================================
