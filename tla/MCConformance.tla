---------------------------- MODULE MCConformance -----------------------------
(***************************************************************************)
(* Suites with all capabilities or without one of them, and runs of two    *)
(* actions whose callers replay twice.                                     *)
(***************************************************************************)
EXTENDS Conformance

Everything == ToSet(Scenarios)
MCDeclared == {Everything, Everything \ {"timeout"}}

Delegated == [a \in Actions |-> IF a = Sibling THEN Primary ELSE NoParent]

Free(gated, parent, timed, evidence) ==
  [Simple EXCEPT !.actions = Actions, !.gated = gated, !.parent = parent,
                 !.timed = timed, !.block = TRUE, !.evidence = evidence]

(* The sentinel may be released at once, so that block stands for both.    *)
MCFreePlans ==
  {Free({}, Simple.parent, FALSE, "available"), Free({}, Simple.parent, TRUE, "available"),
   Free({}, Simple.parent, FALSE, "slow"), Free({Primary}, Delegated, FALSE, "available")}
==============================================================================
