--------------------------- MODULE MCWebhookOutbox ---------------------------
(***************************************************************************)
(* Two webhook workers over one outbox.                                    *)
(***************************************************************************)
EXTENDS WebhookOutbox, TLC

CONSTANTS w1, w2

Endpoint(id, events, maxAttempts, startFrom) ==
  [id |-> id, events |-> events, maxAttempts |-> maxAttempts,
   startFrom |-> startFrom]

History == Endpoint(1, {"approved", "limit_blocked"}, 1, "beginning")
Recent == Endpoint(2, {"expired"}, 1, "latest")
Edited == Endpoint(2, {"approved", "expired"}, 1, "latest")

(* Two endpoints, or only the second one and edited.                       *)
MCSync == {<<History, Recent>>, <<Edited>>}
MCDelivery == {<<Endpoint(1, {"approved"}, 2, "beginning")>>}
MCBlocked == {<<Endpoint(1, {"approved", "limit_blocked"}, 1, "beginning")>>}

MCSymmetry == Permutations(Workers)
==============================================================================
