---------------------------- MODULE EventDelivery ----------------------------
(***************************************************************************)
(* What the webhook outbox promises the receivers (docs/webhooks.md,       *)
(* "Retries and duplicate handling"): a receiver is only ever sent events  *)
(* that are on record for it; an event recorded as delivered was accepted, *)
(* perhaps more than once; a delivered event stays so and an exhausted one *)
(* is taken up again only when an operator asks for it.                    *)
(***************************************************************************)
CONSTANTS
  Endpoints,       \* the receivers
  Sequences        \* the sequence numbers of the events

VARIABLES
  outcome,         \* what is on record for each event of each endpoint
  received         \* the events each receiver has accepted at least once

vars == <<outcome, received>>

Init ==
  /\ outcome = [e \in Endpoints |-> [n \in Sequences |-> "unseen"]]
  /\ received = {}

(* Some events the endpoint selected are put on record together.           *)
Notice(e, noticed) ==
  /\ \A n \in noticed : outcome[e][n] = "unseen"
  /\ outcome' = [outcome EXCEPT ![e] =
       [n \in Sequences |-> IF n \in noticed THEN "waiting" ELSE @[n]]]
  /\ UNCHANGED received

(* A receiver may accept an event late, again, or after it was given up.   *)
Receive(e, n) ==
  /\ outcome[e][n] # "unseen"
  /\ received' = received \cup {<<e, n>>}
  /\ UNCHANGED outcome

Become(e, n, from, to) ==
  /\ outcome[e][n] = from
  /\ outcome' = [outcome EXCEPT ![e][n] = to]
  /\ UNCHANGED received

Deliver(e, n) == <<e, n>> \in received /\ Become(e, n, "waiting", "delivered")
GiveUp(e, n) == Become(e, n, "waiting", "dead")
Retry(e, n) == Become(e, n, "dead", "waiting")

Next ==
  \E e \in Endpoints :
    \/ \E noticed \in SUBSET Sequences : Notice(e, noticed)
    \/ \E n \in Sequences :
         Receive(e, n) \/ Deliver(e, n) \/ GiveUp(e, n) \/ Retry(e, n)

Spec == Init /\ [][Next]_vars
==============================================================================
