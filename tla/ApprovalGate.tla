----------------------------- MODULE ApprovalGate -----------------------------
(***************************************************************************)
(* What every surface that takes decisions promises (docs/slack.md,        *)
(* docs/approval-api.md, docs/multi-user-authorization.md): a gate that is *)
(* asked for takes one decision, from somebody who may take it for this    *)
(* request; the decision stands until the action is used or lapses, and    *)
(* only the reopening of an action that was used asks again.               *)
(***************************************************************************)
CONSTANTS
  Action,          \* what passes the gate
  Decision,
  Target,          \* where a decision leads
  NoOne,
  Permitted        \* the triples <<request, decision, reviewer>> allowed

VARIABLES
  request,         \* Action -> what is asked for: it never changes
  gate,            \* Action -> its state
  by               \* Action -> who decided, while a decision stands

vars == <<request, gate, by>>

Init == gate = [a \in Action |-> "absent"] /\ by = [a \in Action |-> NoOne]

Move(a, from, to) ==
  /\ gate[a] \in from
  /\ gate' = [gate EXCEPT ![a] = to]
  /\ UNCHANGED by

Ask(a) == Move(a, {"absent"}, "pending")
Lapse(a) == Move(a, {"pending", "approved"}, "expired")
Use(a) == Move(a, {"approved"}, "used")

AskAgain(a) ==
  /\ gate[a] = "used"
  /\ gate' = [gate EXCEPT ![a] = "pending"]
  /\ by' = [by EXCEPT ![a] = NoOne]

Decide(a, decision, who) ==
  /\ gate[a] = "pending"
  /\ gate' = [gate EXCEPT ![a] = Target[decision]]
  /\ by' = [by EXCEPT ![a] = who]

Next ==
  /\ UNCHANGED request
  /\ \E a \in Action :
       \/ Ask(a) \/ Lapse(a) \/ Use(a) \/ AskAgain(a)
       \/ \E p \in Permitted : p[1] = request[a] /\ Decide(a, p[2], p[3])

Spec == Init /\ [][Next]_vars
===============================================================================
