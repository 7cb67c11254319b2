--------------------------- MODULE MCSlackApprovals ---------------------------
(***************************************************************************)
(* One action and two services of different channels, one with an          *)
(* organization and separate approvers, one legacy.                        *)
(***************************************************************************)
EXTENDS SlackApprovals, TLC

CONSTANTS a1, s1, s2, k1, ann, bob, member, api, general, audit, acme, billing

Asked(requester, fits) ==
  [organization |-> acme, namespace |-> billing, requester |-> requester, fits |-> fits]

(* Ann's own action, Bob's, and one that does not fit into a message.      *)
MCRequests == {Asked(ann, TRUE), Asked(bob, TRUE), Asked(NoRequester, FALSE)}

Tenant ==
  [channel |-> general, organization |-> acme, namespaces |-> {billing},
   separate |-> TRUE,
   reviewer |-> (member :> [subject |-> ann, decisions |-> {"approve"}])]

Legacy ==
  [channel |-> audit, organization |-> "", namespaces |-> {}, separate |-> FALSE,
   reviewer |-> (member :> [subject |-> ann, decisions |-> {"reject"}])]

MCConfigs == s1 :> {Tenant} @@ s2 :> {Legacy}

MCOthers == {[actor |-> api, subject |-> bob, organization |-> acme,
              namespaces |-> {billing}, decisions |-> {"approve"}, separate |-> FALSE]}
==============================================================================
