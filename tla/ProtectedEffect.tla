---------------------------- MODULE ProtectedEffect ----------------------------
(***************************************************************************)
(* What AgentBarrier promises the owner of a consequential tool, without   *)
(* rows, receipts, leases, clocks, approvals or limits: for each           *)
(* idempotency key the effect happens at most once, only inside an         *)
(* execution, an execution is opened again only while the effect is known  *)
(* not to have happened, and after it settled every caller is told the     *)
(* same answer.                                                            *)
(***************************************************************************)
CONSTANTS
  Key,             \* idempotency keys
  Caller,          \* calls that ask for the effect of a key
  Answer,          \* possible results
  NoAnswer

VARIABLES
  phase,           \* Key -> "open", "started" or "settled"
  happened,        \* keys whose effect has happened
  answer,          \* Key -> the settled result
  told             \* Caller -> the result it was given

vars == <<phase, happened, answer, told>>

Init ==
  /\ phase = [k \in Key |-> "open"]
  /\ happened = {}
  /\ answer = [k \in Key |-> NoAnswer]
  /\ told = [c \in Caller |-> NoAnswer]

Start(k) ==
  /\ phase[k] = "open"
  /\ phase' = [phase EXCEPT ![k] = "started"]
  /\ UNCHANGED <<happened, answer, told>>

Happen(k) ==
  /\ phase[k] = "started"
  /\ k \notin happened
  /\ happened' = happened \cup {k}
  /\ UNCHANGED <<phase, answer, told>>

Reopen(k) ==
  /\ phase[k] = "started"
  /\ k \notin happened
  /\ phase' = [phase EXCEPT ![k] = "open"]
  /\ UNCHANGED <<happened, answer, told>>

(* Callers in who learn the answer in the same step.                       *)
Settle(k, a, who) ==
  /\ phase[k] = "started"
  /\ k \in happened
  /\ phase' = [phase EXCEPT ![k] = "settled"]
  /\ answer' = [answer EXCEPT ![k] = a]
  /\ told' = [c \in Caller |-> IF c \in who THEN a ELSE told[c]]
  /\ UNCHANGED happened

Tell(k, c) ==
  /\ phase[k] = "settled"
  /\ told' = [told EXCEPT ![c] = answer[k]]
  /\ UNCHANGED <<phase, happened, answer>>

Next ==
  \E k \in Key :
    \/ Start(k) \/ Happen(k) \/ Reopen(k)
    \/ \E a \in Answer, who \in SUBSET Caller : Settle(k, a, who)
    \/ \E c \in Caller : Tell(k, c)

Spec == Init /\ [][Next]_vars
================================================================================
