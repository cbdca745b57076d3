---------------------------- MODULE AskContract ----------------------------
(***************************************************************************)
(* What the broker promises the sender of an ask, whatever happens in      *)
(* mailboxes: an ask stands in one of a few ways, a standing is left only  *)
(* along the edges below, and an answer can reach the sender as long as    *)
(* the ask has not been cancelled.  In one step any number of asks move,   *)
(* because one sweep settles every ask that is due.                        *)
(***************************************************************************)
EXTENDS Naturals

CONSTANT Ask

VARIABLES
  standing,   \* how each ask stands
  heard       \* how many answers its sender has been sent

Standing == {"unsent", "open", "responded", "parked", "cancelled", "forgotten"}

(* Where a standing may lead without an answer. *)
Leads(s) == CASE s = "unsent" -> {"open"}
              [] s = "open" -> {"parked", "cancelled"}
              [] s \in {"responded", "parked", "cancelled"} -> {"forgotten"}
              [] OTHER -> {}

(* Where it may lead when an answer is sent: an answer settles an open     *)
(* ask or leaves it open (a partial); a late one changes no standing.      *)
Answered(s) == CASE s = "open" -> {"open", "responded"}
                 [] s \in {"responded", "parked"} -> {s}
                 [] OTHER -> {}

Init ==
  /\ standing = [a \in Ask |-> "unsent"]
  /\ heard = [a \in Ask |-> 0]

(* The move of one ask in a step. *)
Move(a) ==
  \/ standing'[a] = standing[a] /\ heard'[a] = heard[a]
  \/ standing'[a] \in Leads(standing[a]) /\ heard'[a] = heard[a]
  \/ standing'[a] \in Answered(standing[a]) /\ heard'[a] = heard[a] + 1

Next == \A a \in Ask : Move(a)

Spec == Init /\ [][Next]_<<standing, heard>>
=============================================================================
