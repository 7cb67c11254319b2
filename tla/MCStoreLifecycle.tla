--------------------------- MODULE MCStoreLifecycle ---------------------------
(***************************************************************************)
(* One idempotency key that two different exact requests compete for:      *)
(* expiry, leases, decisions, reconciliation, replay and conflicts.        *)
(***************************************************************************)
EXTENDS RuntimeStore

RequestWith(amount) ==
  [namespace |-> "ns", tool |-> "pay", key |-> "k1",
   amounts |-> [a \in Arguments |-> amount]]

MCRequests == {RequestWith(1), RequestWith(2)}

MCPauseScopes == {<<Global, Global>>}

MCTtls == {None, 2}
===============================================================================
