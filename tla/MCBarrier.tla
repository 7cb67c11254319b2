------------------------------ MODULE MCBarrier ------------------------------
(***************************************************************************)
(* Concurrent calls of one protected tool with one idempotency key.        *)
(***************************************************************************)
EXTENDS RuntimeBarrier

CONSTANTS c1, c2, c3, res1, res2

RequestWith(amount) ==
  [namespace |-> "ns", tool |-> "pay", key |-> "k1",
   amounts |-> [a \in Arguments |-> amount]]

MCOneRequest == {RequestWith(1)}
MCTwoRequests == {RequestWith(1), RequestWith(2)}
MCTtls == {None, 2}

MCSymmetry == Permutations(Calls) \cup Permutations(Results)
==============================================================================
