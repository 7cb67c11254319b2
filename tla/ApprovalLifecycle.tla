-------------------------- MODULE ApprovalLifecycle --------------------------
(***************************************************************************)
(* The runtime store as the reviewers' services see it: actions that wait  *)
(* for a decision, the two decide operations with their authorization, and *)
(* the moves of workers and operators that open and end an approval.       *)
(* RuntimeStore has the other operations; here every status after a worker *)
(* started the action is one, "used", and only actions whose policy        *)
(* requires approval appear, for no other action is ever pending.          *)
(***************************************************************************)
EXTENDS Integers, FiniteSets

CONSTANTS
  Actions,         \* action ids; each stands for its request digest as well
  Requests,        \* what an action asks for, as far as reviewers are concerned
  Organizations, Namespaces, Subjects,
  Actors,          \* names decided_by takes: each surface writes its own
  NoRequester,     \* a request without requested_by
  NoOne,           \* decided_by is NULL
  MaxReopens       \* bound: reconciliations as not committed, over all actions

Decision == {"approve", "reject"}

(* The status a decision leads to.                                         *)
Target == [approve |-> "approved", reject |-> "rejected"]

Request == [organization : Organizations, namespace : Namespaces,
            requester : Subjects \cup {NoRequester}, fits : BOOLEAN]

(* Who decides: DecisionAuthorization, or a caller of decide, which is told *)
(* only an actor (organization "").                                         *)
Authorization == [actor : Actors, subject : Subjects,
                  organization : Organizations \cup {""},
                  namespaces : SUBSET Namespaces, decisions : SUBSET Decision,
                  separate : BOOLEAN]

ASSUME LifecycleAssumption ==
  /\ Requests \subseteq Request
  /\ NoRequester \notin Subjects /\ "" \notin Organizations
  /\ NoOne \notin Authorization
  /\ MaxReopens \in Nat

Status == {"absent", "pending", "approved", "rejected", "expired", "used"}

VARIABLES
  runtime,         \* Actions -> status, request and decided_by of its row, and
                   \* whether its lifetime is over (expires_at_ns has passed)
  reopens          \* counter of the bound

lifecycleVars == <<runtime, reopens>>

LifecycleTypeOK ==
  /\ runtime \in [Actions -> [status : Status, request : Requests, due : BOOLEAN,
                              by : Authorization \cup {NoOne}]]
  /\ reopens \in 0..MaxReopens

LifecycleInit ==
  /\ runtime \in [Actions -> [status : {"absent"}, request : Requests,
                              due : {FALSE}, by : {NoOne}]]
  /\ reopens = 0

(* Whoever reads an action applies its expiry first: a read finds it fresh. *)
Fresh(a) == ~runtime[a].due

Become(a, from, to) ==
  /\ Fresh(a) /\ runtime[a].status \in from
  /\ runtime' = [runtime EXCEPT ![a].status = to]
  /\ UNCHANGED reopens

-----------------------------------------------------------------------------
(* decide and decide_authorized, each one transaction.                     *)

(* Wrong: the requester's subject is compared with the decision's actor,   *)
(* which carries the name of the surface.                                  *)
WrongOwnRequest(request, auth) ==
  auth.separate /\ request.requester # NoRequester /\ request.requester = auth.actor
OwnRequest(request, auth) ==
  auth.separate /\ request.requester # NoRequester /\ request.requester = auth.subject

Forbidden(a, decision, auth) ==
  /\ auth.organization # ""
  /\ \/ runtime[a].request.organization # auth.organization
     \/ runtime[a].request.namespace \notin auth.namespaces
     \/ decision \notin auth.decisions
     \/ OwnRequest(runtime[a].request, auth)

(* Wrong: an approval may still be turned into a rejection.                *)
WrongOpen(a, decision) ==
  \/ Fresh(a) /\ runtime[a].status = "pending"
  \/ runtime[a].status = "approved" /\ decision = "reject"
Open(a, decision) == Fresh(a) /\ runtime[a].status = "pending"

(* The decision that stands is asked for again: the row is returned.       *)
Stands(a, decision) == Fresh(a) /\ runtime[a].status = Target[decision]

(* ApprovalExpired is raised with the row; where the expiry was applied    *)
(* only by this transaction, it is rolled back with it.                    *)
Lapsed(a) == ~Fresh(a) \/ runtime[a].status = "expired"

(* The decision is recorded.                                               *)
Decide(a, decision, auth) ==
  /\ ~Forbidden(a, decision, auth)
  /\ Open(a, decision)
  /\ runtime' = [runtime EXCEPT ![a].status = Target[decision], ![a].by = auth]
  /\ UNCHANGED reopens

(* InvalidActionState: the decision conflicts with what the action is now. *)
Conflicts(a, decision) ==
  /\ ~Lapsed(a) /\ ~Open(a, decision) /\ ~Stands(a, decision)
  /\ runtime[a].status # "absent"

-----------------------------------------------------------------------------
(* docs/multi-user-authorization.md, docs/slack.md: who may take which     *)
(* decision on a request.  What decide lets through is compared with it.   *)
May(request, decision, who) ==
  /\ decision \in who.decisions
  /\ who.organization # "" =>
       /\ who.organization = request.organization
       /\ request.namespace \in who.namespaces
       /\ ~(who.separate /\ who.subject = request.requester)

-----------------------------------------------------------------------------
(* Callers, workers and reconciling operators.                             *)

Submit(a) == Become(a, {"absent"}, "pending")

(* expires_at_ns of an approval passes.                                    *)
LifetimeEnds(a) ==
  /\ Fresh(a) /\ runtime[a].status \in {"pending", "approved"}
  /\ runtime' = [runtime EXCEPT ![a].due = TRUE]
  /\ UNCHANGED reopens

(* Somebody reads it: its expiry is applied.                               *)
Expire(a) ==
  /\ ~Fresh(a)
  /\ runtime' = [runtime EXCEPT ![a].status = "expired", ![a].due = FALSE]
  /\ UNCHANGED reopens

(* Both at once, for a module in which nobody meets an action in between.  *)
LapseAtOnce(a) == Become(a, {"pending", "approved"}, "expired")

Use(a) == Become(a, {"approved"}, "used")

(* An unknown outcome is reconciled as not committed: the approval is      *)
(* asked for again.                                                        *)
Reopen(a) ==
  /\ runtime[a].status = "used"
  /\ reopens < MaxReopens
  /\ reopens' = reopens + 1
  /\ runtime' = [runtime EXCEPT ![a].status = "pending", ![a].by = NoOne]

Lifecycle == \E a \in Actions :
               Submit(a) \/ LifetimeEnds(a) \/ Expire(a) \/ Use(a) \/ Reopen(a)
==============================================================================
