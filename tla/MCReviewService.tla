--------------------------- MODULE MCReviewService ----------------------------
(***************************************************************************)
(* A tenant with two reviewers and a legacy document with the same two     *)
(* tokens, two actions, pages of one entry and a dashboard with room for   *)
(* one session.  ann has asked for one kind of action herself; the other   *)
(* kind is of another organization, in a namespace of the same name.       *)
(***************************************************************************)
EXTENDS ReviewService

CONSTANTS a1, a2, ann, eve, t1, t2, acme, globex, billing, c1, c2, k1, k2

MCRequests == {[organization |-> acme, namespace |-> billing, requester |-> ann,
                fits |-> TRUE],
               [organization |-> globex, namespace |-> billing,
                requester |-> NoRequester, fits |-> TRUE]}

Token(token, subject, organization, roles, scopes) ==
  [token |-> token, subject |-> subject, organization |-> organization,
   roles |-> roles, scopes |-> scopes]

Tenants ==
  [organizations |-> {[id |-> acme, namespaces |-> {billing}, separate |-> TRUE]},
   roles |-> {[id |-> "approver", scopes |-> {"read", "decide"}, decisions |-> {"approve"}],
              [id |-> "auditor", scopes |-> {"audit"}, decisions |-> {}]},
   tokens |-> {Token(t1, ann, acme, {"approver", "auditor"}, {}),
               Token(t2, eve, acme, {"approver"}, {})}]

Legacy ==
  [organizations |-> {}, roles |-> {},
   tokens |-> {Token(t1, ann, "", {}, {"read", "decide"}),
               Token(t2, eve, "", {}, {"read", "audit"})}]

MCDocuments == {Tenants, Legacy}

Interchangeable ==
  Permutations(Actions) \cup Permutations(Cookies)
==============================================================================
