----------------------------- MODULE RuntimeStore -----------------------------
(***************************************************************************)
(* The durable action lifecycle of runtime/store.py: submit, decide,       *)
(* claim, complete, mark_unknown, reconcile and the lazy expiry that reads *)
(* apply.                                                                  *)
(*                                                                         *)
(* Every operation is one transaction under BEGIN IMMEDIATE, so it is one  *)
(* step.  An operation that raises inside its transaction is rolled back,  *)
(* the expiry it may have applied included: such a call leaves every       *)
(* variable alone and is not written as a step.                            *)
(*                                                                         *)
(* Definitions named Wrong... are not part of the model: each is the       *)
(* definition after it with one plausible mistake, kept to show which      *)
(* property notices the mistake.                                           *)
(***************************************************************************)
EXTENDS RuntimeControls, SequencesExt

CONSTANTS
  NoAction,        \* no row for a key
  Results,         \* JSON results of protected operations
  NoResult,        \* a NULL result_json
  Effects,         \* the policy effects in play
  Ttls,            \* approval_ttl_ns values in play, None for no expiry
  Lease,           \* execution_lease_ns
  Skew,            \* how old a clock reading can be when its transaction starts
  MaxReceipts      \* bound on the receipt chain

PolicyEffect == {"allow", "deny", "require_approval"}

RuntimeStatus == {"pending", "approved", "denied", "rejected", "expired",
                  "executing", "succeeded", "unknown"}

RuntimeEvent == {"policy_allowed", "policy_denied", "approval_requested",
                 "approved", "rejected", "expired", "execution_started",
                 "execution_succeeded", "execution_unknown",
                 "execution_abandoned", "reconciliation_committed",
                 "reconciliation_not_committed", "result_replayed",
                 "emergency_pause_blocked", "limit_blocked"}

(* decided_by: NULL, the policy itself, or a human reviewer.               *)
Decider == {"nobody", "policy", "reviewer"}

Action == [status : RuntimeStatus, request : Requests, effect : PolicyEffect,
           ttl : Nat \cup {None}, expires : Nat \cup {None},
           lease : Nat \cup {None}, decidedBy : Decider,
           result : Results \cup {NoResult}]

(* The placeholders are not values of their columns; the durations are     *)
(* what the constructor and the policy accept.                             *)
ASSUME StoreAssumption ==
  /\ NoResult \notin Results /\ NoAction \notin Action
  /\ Effects \subseteq PolicyEffect
  /\ Ttls \subseteq Nat \cup {None}
  /\ Lease \in Nat \ {0} /\ Skew \in Nat /\ MaxReceipts \in Nat

Receipt == [action : Keys, event : RuntimeEvent]

VARIABLES
  clock,           \* the true time
  actions,         \* Keys -> a runtime_actions row, or NoAction
  receipts         \* runtime_receipts in sequence order

storeVars == <<clock, actions, receipts, controlVars>>

TypeOK ==
  /\ clock \in 0..MaxClock
  /\ actions \in [Keys -> Action \cup {NoAction}]
  /\ receipts \in Seq(Receipt)
  /\ ControlsTypeOK

Init ==
  /\ clock = 0
  /\ actions = [k \in Keys |-> NoAction]
  /\ receipts = <<>>
  /\ ControlsInit

-----------------------------------------------------------------------------
(* Time.  Operations read the clock before they wait for the write lock,   *)
(* and hosts that share a PostgreSQL store read their own clocks.          *)

Readings == {t \in 0..clock : clock <= t + Skew}

Tick == /\ clock < MaxClock
        /\ clock' = clock + 1
        /\ UNCHANGED <<actions, receipts, controlVars>>

Exists(k) == actions[k] # NoAction

Due(deadline, now) == deadline # None /\ now >= deadline

ApprovalDue(row, now) == row.status \in {"pending", "approved"} /\ Due(row.expires, now)

(* Wrong: the lease check nested under the approval's expiry check.        *)
WrongLeaseDue(row, now) ==
  row.status = "executing" /\ row.expires # None /\ Due(row.lease, now)
LeaseDue(row, now) == row.status = "executing" /\ Due(row.lease, now)
Stale(row, now) == ApprovalDue(row, now) \/ LeaseDue(row, now)

(* Wrong: a lost execution is made available again instead of unknown.     *)
WrongRefreshed(row, now) ==
  IF ApprovalDue(row, now) THEN [row EXCEPT !.status = "expired"]
  ELSE IF LeaseDue(row, now) THEN [row EXCEPT !.status = "approved", !.lease = None]
  ELSE row

(* _refresh_state: expire a late approval, abandon a late execution.       *)
Refreshed(row, now) ==
  IF ApprovalDue(row, now) THEN [row EXCEPT !.status = "expired"]
  ELSE IF LeaseDue(row, now) THEN [row EXCEPT !.status = "unknown", !.lease = None]
  ELSE row

Entry(k, event) == [action |-> k, event |-> event]

(* The receipts a refresh of key k appends.                                *)
RefreshEntries(k, now) ==
  IF ApprovalDue(actions[k], now) THEN <<Entry(k, "expired")>>
  ELSE IF LeaseDue(actions[k], now) THEN <<Entry(k, "execution_abandoned")>>
  ELSE <<>>

(* Bound: callers leave room for the receipts that reads may still append. *)
HasRoom == Len(receipts) + Cardinality(Keys) + 2 <= MaxReceipts

Record(k, event) == /\ HasRoom
                    /\ receipts' = Append(receipts, Entry(k, event))

-----------------------------------------------------------------------------
(* submit: bind an idempotency key to one exact request, once.             *)

(* Wrong: the policy effect stored as the status.                          *)
WrongInitialStatus == [allow |-> "allow", deny |-> "deny",
                       require_approval |-> "pending"]
InitialStatus == [allow |-> "approved", deny |-> "denied",
                  require_approval |-> "pending"]
InitialEvent == [allow |-> "policy_allowed", deny |-> "policy_denied",
                 require_approval |-> "approval_requested"]

After(now, ttl) == IF ttl = None THEN None ELSE now + ttl

SubmitNew(r, effect, ttl, now) ==
  LET ownTtl == IF effect = "require_approval" THEN ttl ELSE None
  IN /\ ~Exists(KeyOf(r))
     /\ actions' = [actions EXCEPT ![KeyOf(r)] =
          [status    |-> InitialStatus[effect],
           request   |-> r,
           effect    |-> effect,
           ttl       |-> ownTtl,
           expires   |-> After(now, ownTtl),
           lease     |-> None,
           decidedBy |-> IF effect = "allow" THEN "policy" ELSE "nobody",
           result    |-> NoResult]]
     /\ Record(KeyOf(r), InitialEvent[effect])
     /\ UNCHANGED <<clock, controlVars>>

(* The one row refreshed by a read of key k.                               *)
RefreshKey(k, now) ==
  /\ actions' = [actions EXCEPT ![k] = Refreshed(@, now)]
  /\ receipts' = receipts \o RefreshEntries(k, now)
  /\ UNCHANGED <<clock, controlVars>>

(* The exact request again: the refreshed row is returned.  A different    *)
(* request under the same key raises ActionBindingError.                   *)
SubmitExisting(r, now) ==
  /\ Exists(KeyOf(r))
  /\ actions[KeyOf(r)].request = r
  /\ RefreshKey(KeyOf(r), now)

Submit(r, now) ==
  \/ SubmitExisting(r, now)
  \/ \E effect \in Effects, ttl \in Ttls : SubmitNew(r, effect, ttl, now)

GetAction(k, now) == Exists(k) /\ RefreshKey(k, now)

(* list_actions refreshes every row in one transaction, in creation order; *)
(* creation times come from the callers' clocks, so any order is possible. *)
ListActions(now) ==
  LET late == {k \in Keys : Exists(k) /\ Stale(actions[k], now)}
  IN /\ actions' = [k \in Keys |-> IF k \in late THEN Refreshed(actions[k], now)
                                   ELSE actions[k]]
     /\ \E order \in SetToSeqs(late) :
          receipts' = receipts \o [i \in DOMAIN order |->
                                     RefreshEntries(order[i], now)[1]]
     /\ UNCHANGED <<clock, controlVars>>

-----------------------------------------------------------------------------
(* decide: only a pending, unexpired request.  Repeating the decision that *)
(* stands returns the row; every other state raises.                       *)

Verdict == {"approved", "rejected"}

Decide(k, verdict, now) ==
  /\ Exists(k)
  /\ Refreshed(actions[k], now).status = "pending"
  /\ actions' = [actions EXCEPT ![k].status = verdict, ![k].decidedBy = "reviewer"]
  /\ Record(k, verdict)
  /\ UNCHANGED <<clock, controlVars>>

-----------------------------------------------------------------------------
(* claim: replay, start, block, or refuse.                                 *)

Bound(r) == Exists(KeyOf(r)) /\ actions[KeyOf(r)].request = r

ClaimReplay(r) ==
  /\ Bound(r)
  /\ actions[KeyOf(r)].status = "succeeded"
  /\ Record(KeyOf(r), "result_replayed")
  /\ UNCHANGED <<clock, actions, controlVars>>

(* Wrong: claim trusts the stored status without refreshing it.            *)
WrongClaimableUnrefreshed(r, now) == Bound(r) /\ actions[KeyOf(r)].status = "approved"

(* Wrong: an unknown outcome may be retried.                               *)
WrongClaimableUnknown(r, now) ==
  Bound(r) /\ Refreshed(actions[KeyOf(r)], now).status \in {"approved", "unknown"}

Claimable(r, now) == Bound(r) /\ Refreshed(actions[KeyOf(r)], now).status = "approved"

ClaimStart(r, now) ==
  /\ Claimable(r, now)
  /\ ~Paused(r)
  /\ HasCapacity(r, now)
  /\ Reserve(r, now)
  /\ actions' = [actions EXCEPT ![KeyOf(r)].status = "executing",
                                ![KeyOf(r)].lease = now + Lease]
  /\ Record(KeyOf(r), "execution_started")
  /\ UNCHANGED <<clock, operatorVars>>

(* Wrong: a block is recorded as a denial.                                 *)
WrongClaimBlocked(r, now) ==
  /\ Claimable(r, now)
  /\ \/ Paused(r) /\ Record(KeyOf(r), "emergency_pause_blocked")
     \/ ~Paused(r) /\ ~HasCapacity(r, now) /\ Record(KeyOf(r), "limit_blocked")
  /\ actions' = [actions EXCEPT ![KeyOf(r)].status = "denied"]
  /\ UNCHANGED <<clock, controlVars>>

(* A pause or an exhausted limit raises after the transaction commits: the *)
(* block is on record, the action stays approved, no capacity is taken.    *)
ClaimBlocked(r, now) ==
  /\ Claimable(r, now)
  /\ \/ Paused(r) /\ Record(KeyOf(r), "emergency_pause_blocked")
     \/ ~Paused(r) /\ ~HasCapacity(r, now) /\ Record(KeyOf(r), "limit_blocked")
  /\ UNCHANGED <<clock, actions, controlVars>>

(* Every other state, and a digest that is not the stored one, raises      *)
(* inside the transaction.                                                 *)
Claim(r, now) == ClaimReplay(r) \/ ClaimStart(r, now) \/ ClaimBlocked(r, now)

-----------------------------------------------------------------------------
(* The end of an execution.  Neither complete nor mark_unknown refreshes   *)
(* the row or asks who claimed it: the digest and the status suffice.      *)

(* Wrong: a late worker may still complete an abandoned execution.         *)
WrongExecuting(r) == Bound(r) /\ actions[KeyOf(r)].status \in {"executing", "unknown"}
Executing(r) == Bound(r) /\ actions[KeyOf(r)].status = "executing"

Complete(r, result) ==
  /\ Executing(r)
  /\ actions' = [actions EXCEPT ![KeyOf(r)].status = "succeeded",
                                ![KeyOf(r)].result = result,
                                ![KeyOf(r)].lease = None]
  /\ Record(KeyOf(r), "execution_succeeded")
  /\ UNCHANGED <<clock, controlVars>>

MarkUnknown(r) ==
  /\ Executing(r)
  /\ actions' = [actions EXCEPT ![KeyOf(r)].status = "unknown",
                                ![KeyOf(r)].lease = None]
  /\ Record(KeyOf(r), "execution_unknown")
  /\ UNCHANGED <<clock, controlVars>>

(* reconcile: an unknown outcome resolved with external evidence.  The     *)
(* refresh it starts with is kept, so one call can abandon an execution    *)
(* whose lease is over and resolve it.                                     *)
(* Wrong: a settled action may be reconciled to another result.            *)
WrongUnresolved(k, now) ==
  Exists(k) /\ Refreshed(actions[k], now).status \in {"unknown", "succeeded"}
Unresolved(k, now) == Exists(k) /\ Refreshed(actions[k], now).status = "unknown"

RecordReconciled(k, event, now) ==
  /\ HasRoom
  /\ receipts' = receipts \o RefreshEntries(k, now) \o <<Entry(k, event)>>

ReconcileCommitted(k, result, now) ==
  /\ Unresolved(k, now)
  /\ actions' = [actions EXCEPT ![k].status = "succeeded", ![k].result = result,
                                ![k].expires = None, ![k].lease = None]
  /\ RecordReconciled(k, "reconciliation_committed", now)
  /\ UNCHANGED <<clock, controlVars>>

(* Wrong: the earlier decision survives the reopening.                     *)
WrongReopened(row, now) ==
  IF row.effect = "require_approval"
  THEN [row EXCEPT !.status = "pending",
                   !.expires = After(now, row.ttl), !.lease = None, !.result = NoResult]
  ELSE [row EXCEPT !.status = "approved", !.decidedBy = "policy",
                   !.expires = None, !.lease = None, !.result = NoResult]

Reopened(row, now) ==
  IF row.effect = "require_approval"
  THEN [row EXCEPT !.status = "pending", !.decidedBy = "nobody",
                   !.expires = After(now, row.ttl), !.lease = None, !.result = NoResult]
  ELSE [row EXCEPT !.status = "approved", !.decidedBy = "policy",
                   !.expires = None, !.lease = None, !.result = NoResult]

ReconcileNotCommitted(k, now) ==
  /\ Unresolved(k, now)
  /\ actions[k].effect # "deny"
  /\ actions' = [actions EXCEPT ![k] = Reopened(@, now)]
  /\ Release(k)
  /\ RecordReconciled(k, "reconciliation_not_committed", now)
  /\ UNCHANGED <<clock, operatorVars>>

-----------------------------------------------------------------------------
Operator == OperatorStep /\ UNCHANGED <<clock, actions, receipts>>

Reviewer == \E k \in Keys, verdict \in Verdict, now \in Readings : Decide(k, verdict, now)

Reader == \E now \in Readings : ListActions(now) \/ \E k \in Keys : GetAction(k, now)

Worker == \E r \in Requests, now \in Readings :
            \/ Submit(r, now)
            \/ Claim(r, now)
            \/ \E result \in Results : Complete(r, result)
            \/ MarkUnknown(r)

Reconciler == \E k \in Keys, now \in Readings :
                \/ ReconcileNotCommitted(k, now)
                \/ \E result \in Results : ReconcileCommitted(k, result, now)

Next == Tick \/ Operator \/ Reviewer \/ Reader \/ Worker \/ Reconciler

Spec == Init /\ [][Next]_storeVars

-----------------------------------------------------------------------------
(* Properties.                                                             *)

(* The lifecycle documented in docs/runtime.md, as moves <<from, event,    *)
(* to>>; a not-committed reconciliation leads back to opening, the status  *)
(* the action was submitted with.                                          *)
Moves(opening) ==
  {<<"absent", "policy_allowed", "approved">>,
   <<"absent", "policy_denied", "denied">>,
   <<"absent", "approval_requested", "pending">>,
   <<"pending", "approved", "approved">>,
   <<"pending", "rejected", "rejected">>,
   <<"pending", "expired", "expired">>,
   <<"approved", "expired", "expired">>,
   <<"approved", "emergency_pause_blocked", "approved">>,
   <<"approved", "limit_blocked", "approved">>,
   <<"approved", "execution_started", "executing">>,
   <<"executing", "execution_succeeded", "succeeded">>,
   <<"executing", "execution_unknown", "unknown">>,
   <<"executing", "execution_abandoned", "unknown">>,
   <<"unknown", "reconciliation_committed", "succeeded">>,
   <<"unknown", "reconciliation_not_committed", opening>>,
   <<"succeeded", "result_replayed", "succeeded">>}

(* One more receipt in the replay of an action's trail.                    *)
Follow(at, event) ==
  LET legal == \E s \in RuntimeStatus : <<at.status, event, s>> \in Moves(at.opening)
      to    == IF legal
               THEN CHOOSE s \in RuntimeStatus : <<at.status, event, s>> \in Moves(at.opening)
               ELSE "illegal"
  IN [status |-> to, opening |-> IF at.status = "absent" THEN to ELSE at.opening]

Absent == [status |-> "absent", opening |-> "absent"]

(* Where the receipts of key k in a chain lead: "illegal" once they leave  *)
(* the lifecycle.                                                          *)
Replay(chain, k) ==
  LET at[n \in 0..Len(chain)] ==
        IF n = 0 THEN Absent
        ELSE IF chain[n].action = k THEN Follow(at[n - 1], chain[n].event)
        ELSE at[n - 1]
  IN at[Len(chain)]

(* The audit trail alone tells the state of every action: replaying its    *)
(* receipts through the lifecycle never breaks off and ends in the stored  *)
(* status.  In particular two starts of one action are separated by a      *)
(* not-committed reconciliation and, where a human must approve, by a new  *)
(* approval; nothing follows a rejection or an expiry.                     *)
AuditReplay ==
  \A k \in Keys :
    Replay(receipts, k).status = IF Exists(k) THEN actions[k].status ELSE "absent"

(* No action is pending with a decision, and none is executable, executing *)
(* or executed on anything but its own policy's decision: a reviewer's if  *)
(* the policy required one, given since the action last became pending.    *)
DecisionFresh ==
  \A k \in Keys : Exists(k) =>
    /\ actions[k].status = "pending" => actions[k].decidedBy = "nobody"
    /\ actions[k].status \in {"approved", "executing", "unknown", "succeeded"} =>
         actions[k].decidedBy = IF actions[k].effect = "allow" THEN "policy"
                                ELSE "reviewer"

(* Capacity is held only by actions that may have taken effect: running,   *)
(* unresolved or succeeded ones (docs/runtime.md, execution limits).  An   *)
(* action reconciled as not committed, or blocked, holds none.             *)
HeldOnlyWhileCounted ==
  \A k \in Keys :
    held[k] # NoCapacity =>
      Exists(k) /\ actions[k].status \in {"executing", "unknown", "succeeded"}

Started(k) == /\ actions[k] # actions'[k]
              /\ actions'[k].status = "executing"

(* No execution starts on an approval that had expired when the worker     *)
(* read its clock, whatever reads or decisions came between.               *)
NoLateStart ==
  [][\A k \in Keys : Started(k) =>
       actions[k].expires = None \/ clock < actions[k].expires + Skew]_actions

(* No execution starts in a scope whose latest control receipt set an      *)
(* emergency pause.                                                        *)
PauseStopsStarts ==
  [][\A k \in Keys : Started(k) =>
       \A scope \in Scope : Covers(scope, actions[k].request) =>
         LatestEvent(ControlTrail({"emergency_pause_set", "emergency_pause_cleared"}, scope))
           # "emergency_pause_set"]_actions

(* A denied, rejected, expired or succeeded action never changes again:    *)
(* its request, status and result are what every later caller will see.    *)
SettledForever ==
  [][\A k \in Keys :
       Exists(k) /\ actions[k].status \in {"denied", "rejected", "expired", "succeeded"}
         => actions'[k] = actions[k]]_actions
=============================================================================
