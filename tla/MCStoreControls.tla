--------------------------- MODULE MCStoreControls ---------------------------
(***************************************************************************)
(* Actions of two tools under emergency pauses and two limits: one counts  *)
(* executions everywhere, the other adds up the argument "amount" in one   *)
(* tool.  Policy allows everything, so that claims, blocks, releases and   *)
(* operator changes interleave.                                            *)
(***************************************************************************)
EXTENDS RuntimeStore

CONSTANTS k1, k2, l1, l2

MCRequest(tool, key, amount) ==
  [namespace |-> "ns", tool |-> tool, key |-> key,
   amounts |-> [a \in Arguments |-> amount]]

(* Two payments that a maximum of 3 admits one at a time.                  *)
MCPayments == {MCRequest("pay", k1, 2), MCRequest("pay", k2, 2)}

(* A payment and a note whose amount is no integer.                        *)
MCMixed == {MCRequest("pay", k1, 2), MCRequest("note", k1, None)}

Count(scope, window, max) ==
  [scope |-> scope, window |-> window, argument |-> NoArgument,
   maxActions |-> max, maxValue |-> None]
Total(scope, max) ==
  [scope |-> scope, window |-> 2, argument |-> "amount",
   maxActions |-> None, maxValue |-> max]

(* Two settings of the same limit but for the maximum, one of the same     *)
(* scope in another window, and a limit on the amount.                     *)
MCSettings == {Count(<<Global, Global>>, 2, 1), Count(<<Global, Global>>, 2, 2),
               Count(<<Global, Global>>, 1, 1), Total(<<"ns", "pay">>, 3)}
MCMixedSettings == {Count(<<"ns", Global>>, 2, 1), Total(<<Global, Global>>, 2)}

MCMixedScopes == {<<Global, Global>>, <<"ns", "pay">>}

MCTtls == {None}

(* Keys and limit identifiers are interchangeable in the first instance.   *)
MCSymmetry == Permutations({k1, k2}) \cup Permutations({l1, l2})
==============================================================================
