----------------------------- MODULE ActionLedger -----------------------------
(***************************************************************************)
(* What is promised about the actions taken on a host, whoever takes,      *)
(* books and undoes them: an action is ordered before it is attempted and  *)
(* attempted once; a refused one never is; only an attempted one is booked;*)
(* an effect leaves the host only for an event that was disowned and whose *)
(* action is booked; and a booking is closed only by a clerk who has undone*)
(* the action, and stays closed.                                           *)
(*                                                                         *)
(* Enforcement implements this specification.                              *)
(***************************************************************************)
CONSTANTS
  Events,       \* what actions are taken for
  Effects,      \* what actions leave on the host
  Lasting,      \* those that nothing undoes
  Clerks,       \* who may undo actions, concurrently
  None          \* no effect, no event

VARIABLES
  stage,        \* per event: "open", "refused", "ordered", "done" or "failed"
  aim,          \* per event: the effect its order asks for
  booking,      \* per event: "none", "standing" or "closed"
  disowned,     \* events that should not have been acted on
  undoing,      \* per clerk: the event whose action was undone and is not closed
  inForce       \* effects on the host

ledgerVars == <<stage, aim, booking, disowned, undoing, inForce>>

LedgerInit ==
  /\ stage = [e \in Events |-> "open"]
  /\ aim = [e \in Events |-> None]
  /\ booking = [e \in Events |-> "none"]
  /\ disowned = {}
  /\ undoing = [c \in Clerks |-> None]
  /\ inForce = {}

Order(e, x) ==
  /\ stage[e] = "open"
  /\ stage' = [stage EXCEPT ![e] = "ordered"]
  /\ aim' = [aim EXCEPT ![e] = x]
  /\ UNCHANGED <<booking, disowned, undoing, inForce>>

(* No action is to be taken, or no longer.                                 *)
Refuse(e) ==
  /\ stage[e] \in {"open", "ordered"}
  /\ stage' = [stage EXCEPT ![e] = "refused"]
  /\ aim' = [aim EXCEPT ![e] = None]
  /\ UNCHANGED <<booking, disowned, undoing, inForce>>

Attempt(e) ==
  /\ stage[e] = "ordered"
  /\ \/ stage' = [stage EXCEPT ![e] = "done"] /\ inForce' = inForce \cup {aim[e]}
     \/ stage' = [stage EXCEPT ![e] = "failed"] /\ UNCHANGED inForce
  /\ UNCHANGED <<aim, booking, disowned, undoing>>

Book(e) ==
  /\ stage[e] \in {"done", "failed"}
  /\ booking[e] = "none"
  /\ booking' = [booking EXCEPT ![e] = "standing"]
  /\ UNCHANGED <<stage, aim, disowned, undoing, inForce>>

Disown(e) ==
  /\ stage[e] # "open"
  /\ disowned' = disowned \cup {e}
  /\ UNCHANGED <<stage, aim, booking, undoing, inForce>>

Undo(c, e) ==
  /\ undoing[c] = None
  /\ e \in disowned
  /\ booking[e] # "none"
  /\ undoing' = [undoing EXCEPT ![c] = e]
  /\ inForce' = IF aim[e] \in Lasting THEN inForce ELSE inForce \ {aim[e]}
  /\ UNCHANGED <<stage, aim, booking, disowned>>

(* The clerk may fail to close the booking.                                *)
Close(c) ==
  /\ undoing[c] # None
  /\ undoing' = [undoing EXCEPT ![c] = None]
  /\ booking' \in {booking, [booking EXCEPT ![undoing[c]] = "closed"]}
  /\ UNCHANGED <<stage, aim, disowned, inForce>>

LedgerNext ==
  \/ \E e \in Events :
       \/ \E x \in Effects : Order(e, x)
       \/ Refuse(e)
       \/ Attempt(e)
       \/ Book(e)
       \/ Disown(e)
       \/ \E c \in Clerks : Undo(c, e)
  \/ \E c \in Clerks : Close(c)

LedgerSpec == LedgerInit /\ [][LedgerNext]_ledgerVars
=============================================================================
