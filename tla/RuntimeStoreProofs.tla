-------------------------- MODULE RuntimeStoreProofs --------------------------
(***************************************************************************)
(* Machine-checked facts about RuntimeStore for every value of its         *)
(* constants.                                                              *)
(***************************************************************************)
EXTENDS RuntimeStore, FiniteSetTheorems, SequenceTheorems, TLAPS

(* Facts about rows and receipts that the action lemmas cite.              *)

LEMMA RefreshedType ==
  ASSUME NEW row \in Action, NEW now
  PROVE  Refreshed(row, now) \in Action
BY DEF Refreshed, Action, RuntimeStatus, None

LEMMA ExistsType ==
  ASSUME TypeOK, NEW k \in Keys, Exists(k)
  PROVE  actions[k] \in Action
BY DEF TypeOK, Exists

LEMMA EntryType ==
  ASSUME NEW k \in Keys, NEW event \in RuntimeEvent
  PROVE  Entry(k, event) \in Receipt
BY DEF Entry, Receipt

LEMMA RefreshEntriesType ==
  ASSUME NEW k \in Keys, NEW now
  PROVE  RefreshEntries(k, now) \in Seq(Receipt)
<1>1. /\ Entry(k, "expired") \in Receipt
      /\ Entry(k, "execution_abandoned") \in Receipt
  BY EntryType DEF RuntimeEvent
<1> QED BY <1>1 DEF RefreshEntries

LEMMA RecordType ==
  ASSUME TypeOK, NEW k \in Keys, NEW event \in RuntimeEvent, Record(k, event)
  PROVE  receipts' \in Seq(Receipt)
<1>1. Entry(k, event) \in Receipt
  BY EntryType
<1> QED BY <1>1, AppendProperties DEF Record, TypeOK

LEMMA KeyType == ASSUME NEW r \in Requests PROVE KeyOf(r) \in Keys
BY DEF Keys

LEMMA ReadingsType == ASSUME TypeOK PROVE Readings \subseteq Nat /\ Readings \subseteq Windows
BY ControlsAssumption DEF Readings, TypeOK, Windows

-------------------------------------------------------------------------------
(* Capacity arithmetic.                                                    *)

LEMMA AmountType ==
  ASSUME ControlsTypeOK, NEW r \in Requests, NEW l \in LimitIds, limits[l] # NoLimit
  PROVE  Amount(l, r) \in Int
<1>1. limits[l] \in Limit
  BY DEF ControlsTypeOK
<1>2. limits[l].setting.argument \in Arguments \cup {NoArgument}
  BY <1>1 DEF Limit, LimitSetting
<1>3. r \in Request
  BY ControlsAssumption
<1>4. r.amounts \in [Arguments -> Nat \cup {None}]
  BY <1>3 DEF Request
<1>5. CASE limits[l].setting.argument = NoArgument
  BY <1>5 DEF Amount
<1>6. CASE limits[l].setting.argument # NoArgument
  <2>1. r.amounts[limits[l].setting.argument] \in Nat \cup {None}
    BY <1>2, <1>4, <1>6
  <2> QED BY <2>1, <1>6 DEF Amount, None
<1> QED BY <1>5, <1>6

LEMMA ReservationType ==
  ASSUME ControlsTypeOK, NEW r \in Requests, NEW now
  PROVE  ReservationFor(r, now) \in [LimitWindows -> Capacity]
<1>1. ASSUME NEW lw \in LimitWindows, lw[1] \in MatchingLimits(r)
      PROVE  Amount(lw[1], r) \in Int
  BY <1>1, AmountType DEF MatchingLimits
<1>2. ASSUME NEW lw \in LimitWindows
      PROVE  (IF lw[1] \in MatchingLimits(r) /\ lw[2] = WindowStart(lw[1], now)
              THEN [actions |-> 1, value |-> Amount(lw[1], r)]
              ELSE [actions |-> 0, value |-> 0]) \in Capacity
  BY <1>1 DEF Capacity
<1> QED BY <1>2 DEF ReservationFor

LEMMA PlusType ==
  ASSUME NEW c \in [LimitWindows -> Capacity], NEW d \in [LimitWindows -> Capacity]
  PROVE  /\ Plus(c, d) \in [LimitWindows -> Capacity]
         /\ Minus(c, d) \in [LimitWindows -> Capacity]
BY DEF Plus, Minus, Capacity

LEMMA NoCapacityType == NoCapacity \in [LimitWindows -> Capacity]
BY DEF NoCapacity, Capacity

LEMMA ReserveType ==
  ASSUME ControlsTypeOK, NEW r \in Requests, NEW now, Reserve(r, now),
         UNCHANGED operatorVars
  PROVE  ControlsTypeOK'
<1>1. ReservationFor(r, now) \in [LimitWindows -> Capacity]
  BY ReservationType
<1>2. usage' \in [LimitWindows -> Capacity]
  BY <1>1, PlusType DEF Reserve, ControlsTypeOK
<1>3. held' \in [Keys -> [LimitWindows -> Capacity]]
  BY <1>1, PlusType, KeyType DEF Reserve, ControlsTypeOK
<1> QED BY <1>2, <1>3 DEF ControlsTypeOK, operatorVars

LEMMA ReleaseType ==
  ASSUME ControlsTypeOK, NEW k \in Keys, Release(k), UNCHANGED operatorVars
  PROVE  ControlsTypeOK'
<1>1. usage' \in [LimitWindows -> Capacity]
  BY PlusType DEF Release, ControlsTypeOK
<1>2. held' \in [Keys -> [LimitWindows -> Capacity]]
  BY NoCapacityType DEF Release, ControlsTypeOK
<1> QED BY <1>1, <1>2 DEF ControlsTypeOK, operatorVars

LEMMA OperatorStepType ==
  ASSUME ControlsTypeOK, OperatorStep
  PROVE  ControlsTypeOK'
<1>1. ASSUME NEW event \in ControlEvent, NEW subject \in Scope \cup LimitIds,
             RecordControl(event, subject)
      PROVE  controlReceipts' \in Seq(ControlReceipt)
  BY <1>1, AppendProperties DEF RecordControl, ControlReceipt, ControlsTypeOK
<1>2. ASSUME NEW scope \in PauseScopes, SetPause(scope) \/ ClearPause(scope)
      PROVE  ControlsTypeOK'
  <2>1. scope \in Scope
    BY ControlsAssumption
  <2>2. controlReceipts' \in Seq(ControlReceipt)
    BY <1>1, <1>2, <2>1 DEF SetPause, ClearPause, ControlEvent
  <2> QED BY <1>2, <2>1, <2>2 DEF SetPause, ClearPause, ControlsTypeOK
<1>3. ASSUME NEW l \in LimitIds, DisableLimit(l)
      PROVE  ControlsTypeOK'
  <2>1. controlReceipts' \in Seq(ControlReceipt)
    BY <1>1, <1>3 DEF DisableLimit, ControlEvent
  <2>2. limits[l] \in Limit
    BY <1>3 DEF DisableLimit, ControlsTypeOK
  <2>3. [setting |-> limits[l].setting, enabled |-> FALSE] \in Limit
    BY <2>2 DEF Limit
  <2> QED BY <1>3, <2>1, <2>3 DEF DisableLimit, ControlsTypeOK
<1>4. ASSUME NEW l \in LimitIds, NEW setting \in LimitSettings, ConfigureLimit(l, setting)
      PROVE  ControlsTypeOK'
  <2>1. controlReceipts' \in Seq(ControlReceipt)
    BY <1>1, <1>4 DEF ConfigureLimit, ControlEvent
  <2>2. [setting |-> setting, enabled |-> TRUE] \in Limit
    BY ControlsAssumption DEF Limit
  <2> QED BY <1>4, <2>1, <2>2 DEF ConfigureLimit, ControlsTypeOK
<1> QED BY <1>2, <1>3, <1>4 DEF OperatorStep

-------------------------------------------------------------------------------
(* Type correctness, one lemma per store operation.                        *)

LEMMA InitType == Init => TypeOK
<1> SUFFICES ASSUME Init PROVE TypeOK
  OBVIOUS
<1>1. ControlsTypeOK
  BY NoCapacityType DEF Init, ControlsInit, ControlsTypeOK, LimitWindows, NoCapacity
<1>2. clock \in 0..MaxClock
  BY ControlsAssumption DEF Init
<1> QED BY <1>1, <1>2 DEF Init, TypeOK

LEMMA ControlsUnchanged ==
  ASSUME ControlsTypeOK, UNCHANGED controlVars
  PROVE  ControlsTypeOK'
BY DEF ControlsTypeOK, controlVars

LEMMA RefreshKeyType ==
  ASSUME TypeOK, NEW k \in Keys, NEW now, Exists(k), RefreshKey(k, now)
  PROVE  TypeOK'
<1>1. actions' \in [Keys -> Action \cup {NoAction}]
  BY ExistsType, RefreshedType DEF RefreshKey, TypeOK
<1>2. receipts' \in Seq(Receipt)
  BY RefreshEntriesType, ConcatProperties DEF RefreshKey, TypeOK
<1> QED BY <1>1, <1>2, ControlsUnchanged DEF RefreshKey, TypeOK

LEMMA SubmitType ==
  ASSUME TypeOK, NEW r \in Requests, NEW now \in Nat, Submit(r, now)
  PROVE  TypeOK'
<1>1. CASE SubmitExisting(r, now)
  BY <1>1, RefreshKeyType, KeyType DEF SubmitExisting
<1>2. ASSUME NEW effect \in Effects, NEW ttl \in Ttls, SubmitNew(r, effect, ttl, now)
      PROVE  TypeOK'
  <2> DEFINE own == IF effect = "require_approval" THEN ttl ELSE None
  <2>1. effect \in PolicyEffect /\ own \in Nat \cup {None}
    BY StoreAssumption
  <2>2. After(now, own) \in Nat \cup {None}
    BY <2>1 DEF After, None
  <2>3. InitialStatus[effect] \in RuntimeStatus /\ InitialEvent[effect] \in RuntimeEvent
    BY <2>1 DEF InitialStatus, InitialEvent, PolicyEffect, RuntimeStatus, RuntimeEvent
  <2>4. actions' \in [Keys -> Action \cup {NoAction}]
    BY <1>2, <2>1, <2>2, <2>3 DEF SubmitNew, TypeOK, Action, Decider
  <2>5. receipts' \in Seq(Receipt)
    BY <1>2, <2>3, RecordType, KeyType DEF SubmitNew
  <2> QED BY <1>2, <2>4, <2>5, ControlsUnchanged DEF SubmitNew, TypeOK
<1> QED BY <1>1, <1>2 DEF Submit

LEMMA ListActionsType ==
  ASSUME TypeOK, NEW now, ListActions(now)
  PROVE  TypeOK'
<1> DEFINE late == {k \in Keys : Exists(k) /\ Stale(actions[k], now)}
<1>1. IsFiniteSet(late)
  BY FS_Subset, ControlsAssumption
<1>2. Cardinality(late) \in Nat
  BY <1>1, FS_CardinalityType
<1>3. actions' \in [Keys -> Action \cup {NoAction}]
  BY ExistsType, RefreshedType DEF ListActions, TypeOK
<1>4. PICK order \in SetToSeqs(late) :
        receipts' = receipts \o [i \in DOMAIN order |-> RefreshEntries(order[i], now)[1]]
  BY DEF ListActions
<1>5. order \in [1..Cardinality(late) -> late]
  BY <1>4 DEF SetToSeqs
<1>6. ASSUME NEW k \in late
      PROVE  RefreshEntries(k, now)[1] \in Receipt
  <2>1. ApprovalDue(actions[k], now) \/ LeaseDue(actions[k], now)
    BY <1>6 DEF Stale
  <2>2. /\ Entry(k, "expired") \in Receipt
        /\ Entry(k, "execution_abandoned") \in Receipt
    BY EntryType DEF RuntimeEvent
  <2> QED BY <2>1, <2>2 DEF RefreshEntries
<1>7. [i \in DOMAIN order |-> RefreshEntries(order[i], now)[1]] \in Seq(Receipt)
  <2>1. [i \in DOMAIN order |-> RefreshEntries(order[i], now)[1]]
          \in [1..Cardinality(late) -> Receipt]
    BY <1>5, <1>6
  <2> HIDE DEF late
  <2> QED BY <2>1, <1>2, SeqDef
<1>8. receipts' \in Seq(Receipt)
  BY <1>4, <1>7, ConcatProperties DEF TypeOK
<1> QED BY <1>3, <1>8, ControlsUnchanged DEF ListActions, TypeOK

LEMMA DecideType ==
  ASSUME TypeOK, NEW k \in Keys, NEW verdict \in Verdict, NEW now, Decide(k, verdict, now)
  PROVE  TypeOK'
<1>1. actions[k] \in Action
  BY ExistsType DEF Decide
<1>2. verdict \in RuntimeStatus /\ verdict \in RuntimeEvent
  BY DEF Verdict, RuntimeStatus, RuntimeEvent
<1>3. actions' \in [Keys -> Action \cup {NoAction}]
  BY <1>1, <1>2 DEF Decide, TypeOK, Action, Decider
<1>4. receipts' \in Seq(Receipt)
  BY <1>2, RecordType DEF Decide
<1> QED BY <1>3, <1>4, ControlsUnchanged DEF Decide, TypeOK

LEMMA BoundType ==
  ASSUME TypeOK, NEW r \in Requests, Bound(r)
  PROVE  KeyOf(r) \in Keys /\ actions[KeyOf(r)] \in Action
BY KeyType, ExistsType DEF Bound

LEMMA ClaimType ==
  ASSUME TypeOK, NEW r \in Requests, NEW now \in Nat, Claim(r, now)
  PROVE  TypeOK'
<1>1. CASE ClaimReplay(r)
  <2>1. receipts' \in Seq(Receipt)
    BY <1>1, RecordType, KeyType DEF ClaimReplay, RuntimeEvent
  <2> QED BY <1>1, <2>1, ControlsUnchanged DEF ClaimReplay, TypeOK
<1>2. CASE ClaimStart(r, now)
  <2>1. receipts' \in Seq(Receipt)
    BY <1>2, RecordType, KeyType DEF ClaimStart, RuntimeEvent
  <2>2. actions[KeyOf(r)] \in Action /\ KeyOf(r) \in Keys
    BY <1>2, BoundType DEF ClaimStart, Claimable
  <2>3. now + Lease \in Nat
    BY StoreAssumption
  <2>4. actions' \in [Keys -> Action \cup {NoAction}]
    BY <1>2, <2>2, <2>3 DEF ClaimStart, TypeOK, Action, RuntimeStatus
  <2>5. ControlsTypeOK'
    BY <1>2, ReserveType DEF ClaimStart, TypeOK
  <2> QED BY <1>2, <2>1, <2>4, <2>5 DEF ClaimStart, TypeOK
<1>3. CASE ClaimBlocked(r, now)
  <2>1. receipts' \in Seq(Receipt)
    BY <1>3, RecordType, KeyType DEF ClaimBlocked, RuntimeEvent
  <2> QED BY <1>3, <2>1, ControlsUnchanged DEF ClaimBlocked, TypeOK
<1> QED BY <1>1, <1>2, <1>3 DEF Claim

LEMMA CompleteType ==
  ASSUME TypeOK, NEW r \in Requests, NEW result \in Results \cup {NoResult},
         Complete(r, result)
  PROVE  TypeOK'
<1>1. receipts' \in Seq(Receipt)
  BY RecordType, KeyType DEF Complete, RuntimeEvent
<1>2. actions[KeyOf(r)] \in Action /\ KeyOf(r) \in Keys
  BY BoundType DEF Complete, Executing
<1>3. actions' \in [Keys -> Action \cup {NoAction}]
  BY <1>2 DEF Complete, TypeOK, Action, RuntimeStatus
<1> QED BY <1>1, <1>3, ControlsUnchanged DEF Complete, TypeOK

LEMMA MarkUnknownType ==
  ASSUME TypeOK, NEW r \in Requests, MarkUnknown(r)
  PROVE  TypeOK'
<1>1. receipts' \in Seq(Receipt)
  BY RecordType, KeyType DEF MarkUnknown, RuntimeEvent
<1>2. actions[KeyOf(r)] \in Action /\ KeyOf(r) \in Keys
  BY BoundType DEF MarkUnknown, Executing
<1>3. actions' \in [Keys -> Action \cup {NoAction}]
  BY <1>2 DEF MarkUnknown, TypeOK, Action, RuntimeStatus
<1> QED BY <1>1, <1>3, ControlsUnchanged DEF MarkUnknown, TypeOK

LEMMA RecordReconciledType ==
  ASSUME TypeOK, NEW k \in Keys, NEW event \in RuntimeEvent, NEW now,
         RecordReconciled(k, event, now)
  PROVE  receipts' \in Seq(Receipt)
<1>1. <<Entry(k, event)>> \in Seq(Receipt)
  BY EntryType
<1>2. receipts \o RefreshEntries(k, now) \in Seq(Receipt)
  BY RefreshEntriesType, ConcatProperties DEF TypeOK
<1> QED BY <1>1, <1>2, ConcatProperties DEF RecordReconciled

LEMMA ReconcileCommittedType ==
  ASSUME TypeOK, NEW k \in Keys, NEW result \in Results, NEW now,
         ReconcileCommitted(k, result, now)
  PROVE  TypeOK'
<1>1. receipts' \in Seq(Receipt)
  BY RecordReconciledType DEF ReconcileCommitted, RuntimeEvent
<1>2. actions[k] \in Action
  BY ExistsType DEF ReconcileCommitted, Unresolved
<1>3. actions' \in [Keys -> Action \cup {NoAction}]
  BY <1>2 DEF ReconcileCommitted, TypeOK, Action, RuntimeStatus
<1> QED BY <1>1, <1>3, ControlsUnchanged DEF ReconcileCommitted, TypeOK

LEMMA ReconcileNotCommittedType ==
  ASSUME TypeOK, NEW k \in Keys, NEW now \in Nat, ReconcileNotCommitted(k, now)
  PROVE  TypeOK'
<1>1. receipts' \in Seq(Receipt)
  BY RecordReconciledType DEF ReconcileNotCommitted, RuntimeEvent
<1>2. actions[k] \in Action
  BY ExistsType DEF ReconcileNotCommitted, Unresolved
<1>3. After(now, actions[k].ttl) \in Nat \cup {None}
  BY <1>2 DEF After, Action, None
<1>4. Reopened(actions[k], now) \in Action
  BY <1>2, <1>3 DEF Reopened, Action, RuntimeStatus, Decider
<1>5. actions' \in [Keys -> Action \cup {NoAction}]
  BY <1>4 DEF ReconcileNotCommitted, TypeOK
<1>6. ControlsTypeOK'
  BY ReleaseType DEF ReconcileNotCommitted, TypeOK
<1> QED BY <1>1, <1>5, <1>6 DEF ReconcileNotCommitted, TypeOK

LEMMA StepType == TypeOK /\ [Next]_storeVars => TypeOK'
<1> SUFFICES ASSUME TypeOK, [Next]_storeVars PROVE TypeOK'
  OBVIOUS
<1>r. Readings \subseteq Nat
  BY ReadingsType
<1>1. CASE Tick
  <2>1. clock' \in 0..MaxClock
    BY <1>1, ControlsAssumption DEF Tick, TypeOK
  <2> QED BY <1>1, <2>1, ControlsUnchanged DEF Tick, TypeOK
<1>2. CASE Operator
  BY <1>2, OperatorStepType DEF Operator, TypeOK
<1>3. CASE Reviewer
  BY <1>3, DecideType DEF Reviewer
<1>4. CASE Reader
  BY <1>4, ListActionsType, RefreshKeyType DEF Reader, GetAction
<1>5. CASE Worker
  <2>1. PICK r \in Requests, now \in Readings :
          \/ Submit(r, now) \/ Claim(r, now)
          \/ \E result \in Results : Complete(r, result)
          \/ MarkUnknown(r)
    BY <1>5 DEF Worker
  <2> QED BY <1>r, <2>1, SubmitType, ClaimType, CompleteType, MarkUnknownType
<1>6. CASE Reconciler
  BY <1>6, <1>r, ReconcileCommittedType, ReconcileNotCommittedType DEF Reconciler
<1>7. CASE UNCHANGED storeVars
  BY <1>7, ControlsUnchanged DEF storeVars, TypeOK, controlVars
<1> QED BY <1>1, <1>2, <1>3, <1>4, <1>5, <1>6, <1>7 DEF Next

(* Every reachable state of the store is well typed: rows, receipts,       *)
(* limits and counters stay within what runtime/store.py declares, for any *)
(* set of requests, limits, deadlines and clock skew.                      *)
THEOREM StoreTypes == Spec => []TypeOK
BY InitType, StepType, PTL DEF Spec

-------------------------------------------------------------------------------
(* The inductive invariant.  DecisionFresh alone is not inductive: that a  *)
(* reviewer's approval leaves a reviewer on record needs to know that only *)
(* actions whose policy requires approval are ever pending.                *)

RowInv(row) ==
  /\ row.status = "pending" =>
       row.decidedBy = "nobody" /\ row.effect = "require_approval"
  /\ row.status \in {"approved", "executing", "unknown", "succeeded"} =>
       row.decidedBy = IF row.effect = "allow" THEN "policy" ELSE "reviewer"

StoreInv ==
  /\ \A k \in Keys : Exists(k) => RowInv(actions[k])
  /\ HeldOnlyWhileCounted

Counted(row) == row.status \in {"executing", "unknown", "succeeded"}

(* Changing the row of one key, and leaving capacity alone or releasing    *)
(* it, keeps the invariant if the new row satisfies it.                    *)
LEMMA OneRow ==
  ASSUME TypeOK, StoreInv, NEW k \in Keys, NEW row \in Action,
         actions' = [actions EXCEPT ![k] = row], RowInv(row),
         \/ UNCHANGED held /\ (Exists(k) /\ Counted(actions[k]) => Counted(row))
         \/ held' = [held EXCEPT ![k] = NoCapacity]
  PROVE  StoreInv'
<1>1. \A j \in Keys : j # k => actions'[j] = actions[j]
  BY DEF TypeOK
<1>2. actions'[k] = row /\ row # NoAction
  BY StoreAssumption DEF TypeOK
<1>3. (\A j \in Keys : Exists(j) => RowInv(actions[j]))'
  BY <1>1, <1>2 DEF StoreInv, Exists, RowInv
<1>4. HeldOnlyWhileCounted'
  <2> SUFFICES ASSUME NEW j \in Keys, held'[j] # NoCapacity
               PROVE  (Exists(j) /\ Counted(actions[j]))'
    BY DEF HeldOnlyWhileCounted, Counted
  <2>1. CASE j = k
    <3>1. held' = held
      BY <2>1 DEF TypeOK, ControlsTypeOK
    <3>2. Exists(k) /\ Counted(actions[k])
      BY <2>1, <3>1 DEF StoreInv, HeldOnlyWhileCounted, Counted
    <3>3. Counted(row)
      BY <2>1, <3>1, <3>2 DEF TypeOK, ControlsTypeOK
    <3> QED BY <1>2, <2>1, <3>3 DEF Exists, Counted
  <2>2. CASE j # k
    <3>1. held'[j] = held[j]
      BY <2>2 DEF TypeOK, ControlsTypeOK
    <3> QED BY <1>1, <2>2, <3>1 DEF StoreInv, HeldOnlyWhileCounted, Exists, Counted
  <2> QED BY <2>1, <2>2
<1> QED BY <1>3, <1>4 DEF StoreInv

LEMMA RefreshedInv ==
  ASSUME NEW row \in Action, NEW now, RowInv(row)
  PROVE  RowInv(Refreshed(row, now)) /\ (Counted(row) => Counted(Refreshed(row, now)))
BY DEF RowInv, Refreshed, Action, ApprovalDue, LeaseDue, Counted

LEMMA RefreshKeyInv ==
  ASSUME TypeOK, StoreInv, NEW k \in Keys, NEW now, Exists(k), RefreshKey(k, now)
  PROVE  StoreInv'
<1>1. Refreshed(actions[k], now) \in Action /\ actions[k] \in Action
  BY ExistsType, RefreshedType
<1>2. /\ RowInv(Refreshed(actions[k], now))
      /\ Counted(actions[k]) => Counted(Refreshed(actions[k], now))
  BY <1>1, RefreshedInv DEF StoreInv
<1>3. actions' = [actions EXCEPT ![k] = Refreshed(actions[k], now)] /\ UNCHANGED held
  BY DEF RefreshKey, controlVars
<1> QED BY <1>1, <1>2, <1>3, OneRow

LEMMA ListActionsInv ==
  ASSUME TypeOK, StoreInv, NEW now, ListActions(now)
  PROVE  StoreInv'
<1>1. ASSUME NEW k \in Keys
      PROVE  \/ actions'[k] = actions[k]
             \/ Exists(k) /\ actions'[k] = Refreshed(actions[k], now)
  BY DEF ListActions
<1>2. ASSUME NEW k \in Keys, Exists(k)
      PROVE  /\ actions'[k] \in Action
             /\ RowInv(actions'[k])
             /\ Counted(actions[k]) => Counted(actions'[k])
  <2>1. actions[k] \in Action /\ RowInv(actions[k])
    BY <1>2, ExistsType DEF StoreInv
  <2> QED BY <1>1, <2>1, RefreshedInv, RefreshedType
<1>3. (\A k \in Keys : Exists(k) => RowInv(actions[k]))'
  BY <1>1, <1>2 DEF Exists, RowInv
<1>4. ASSUME NEW k \in Keys, held[k] # NoCapacity
      PROVE  actions'[k] # NoAction /\ Counted(actions'[k])
  <2>1. Exists(k) /\ Counted(actions[k])
    BY <1>4 DEF StoreInv, HeldOnlyWhileCounted, Counted
  <2> QED BY <1>2, <2>1, StoreAssumption
<1>5. held' = held
  BY DEF ListActions, controlVars
<1>6. HeldOnlyWhileCounted'
  BY <1>4, <1>5 DEF HeldOnlyWhileCounted, Exists, Counted
<1> QED BY <1>3, <1>6 DEF StoreInv

LEMMA SubmitInv ==
  ASSUME TypeOK, StoreInv, NEW r \in Requests, NEW now \in Nat, Submit(r, now)
  PROVE  StoreInv'
<1>1. CASE SubmitExisting(r, now)
  BY <1>1, RefreshKeyInv, KeyType DEF SubmitExisting
<1>2. ASSUME NEW effect \in Effects, NEW ttl \in Ttls, SubmitNew(r, effect, ttl, now)
      PROVE  StoreInv'
  <2> DEFINE row == actions'[KeyOf(r)]
  <2>1. TypeOK'
    BY <1>2, SubmitType DEF Submit
  <2>2. /\ KeyOf(r) \in Keys /\ effect \in PolicyEffect
        /\ row.status = InitialStatus[effect] /\ row.effect = effect
        /\ row.decidedBy = IF effect = "allow" THEN "policy" ELSE "nobody"
        /\ row # NoAction
    <3>1. effect \in PolicyEffect /\ KeyOf(r) \in Keys
      BY StoreAssumption, KeyType
    <3>2. row = [status    |-> InitialStatus[effect],
                 request   |-> r,
                 effect    |-> effect,
                 ttl       |-> IF effect = "require_approval" THEN ttl ELSE None,
                 expires   |-> After(now, IF effect = "require_approval"
                                          THEN ttl ELSE None),
                 lease     |-> None,
                 decidedBy |-> IF effect = "allow" THEN "policy" ELSE "nobody",
                 result    |-> NoResult]
      BY <1>2, <3>1 DEF SubmitNew, TypeOK
    <3>3. row \in Action
      <4>1. After(now, IF effect = "require_approval" THEN ttl ELSE None)
              \in Nat \cup {None}
        BY StoreAssumption DEF After, None
      <4>2. InitialStatus[effect] \in RuntimeStatus
        BY <3>1 DEF InitialStatus, PolicyEffect, RuntimeStatus
      <4> QED BY <3>1, <3>2, <4>1, <4>2, StoreAssumption DEF Action, Decider
    <3> QED BY <3>1, <3>2, <3>3, StoreAssumption
  <2>3. RowInv(row)
    BY <2>2 DEF RowInv, InitialStatus, PolicyEffect
  <2>4. row \in Action
    BY <2>1, <2>2 DEF TypeOK
  <2>5. actions' = [actions EXCEPT ![KeyOf(r)] = row] /\ UNCHANGED held /\ ~Exists(KeyOf(r))
    BY <1>2, <2>2 DEF SubmitNew, TypeOK, controlVars
  <2> QED BY <2>2, <2>3, <2>4, <2>5, OneRow
<1> QED BY <1>1, <1>2 DEF Submit

LEMMA DecideInv ==
  ASSUME TypeOK, StoreInv, NEW k \in Keys, NEW verdict \in Verdict, NEW now,
         Decide(k, verdict, now)
  PROVE  StoreInv'
<1> DEFINE row == [actions[k] EXCEPT !.status = verdict, !.decidedBy = "reviewer"]
<1>1. actions[k] \in Action /\ RowInv(actions[k])
  BY ExistsType DEF Decide, StoreInv
<1>2. actions[k].status = "pending"
  BY <1>1 DEF Decide, Refreshed, Action
<1>3. row \in Action /\ RowInv(row)
  BY <1>1, <1>2 DEF RowInv, Action, Verdict, RuntimeStatus, Decider
<1>4. actions' = [actions EXCEPT ![k] = row] /\ UNCHANGED held
  BY DEF Decide, controlVars
<1>5. ~Counted(actions[k])
  BY <1>2 DEF Counted
<1> QED BY <1>3, <1>4, <1>5, OneRow

LEMMA ClaimInv ==
  ASSUME TypeOK, StoreInv, NEW r \in Requests, NEW now \in Nat, Claim(r, now)
  PROVE  StoreInv'
<1>1. CASE ClaimReplay(r) \/ ClaimBlocked(r, now)
  BY <1>1 DEF ClaimReplay, ClaimBlocked, StoreInv, HeldOnlyWhileCounted, Exists,
              RowInv, controlVars
<1>2. CASE ClaimStart(r, now)
  <2> DEFINE k == KeyOf(r)
             row == [actions[k] EXCEPT !.status = "executing", !.lease = now + Lease]
  <2>1. k \in Keys /\ actions[k] \in Action /\ RowInv(actions[k])
    BY <1>2, BoundType DEF ClaimStart, Claimable, Bound, StoreInv
  <2>2. actions[k].status = "approved"
    BY <1>2, <2>1 DEF ClaimStart, Claimable, Refreshed, Action
  <2>3. now + Lease \in Nat
    BY StoreAssumption
  <2>4. row \in Action /\ RowInv(row) /\ row.status = "executing"
    BY <2>1, <2>2, <2>3 DEF RowInv, Action, RuntimeStatus
  <2>5. actions' = [actions EXCEPT ![k] = row]
    BY <1>2 DEF ClaimStart
  <2> HIDE DEF row
  <2>6. /\ \A j \in Keys : j # k => actions'[j] = actions[j] /\ held'[j] = held[j]
        /\ actions'[k] = row /\ row # NoAction
    BY <1>2, <2>1, <2>4, <2>5, StoreAssumption DEF ClaimStart, Reserve, TypeOK, ControlsTypeOK
  <2>7. (\A j \in Keys : Exists(j) => RowInv(actions[j]))'
    BY <2>4, <2>6 DEF StoreInv, Exists, RowInv
  <2>8. HeldOnlyWhileCounted'
    BY <2>4, <2>6 DEF StoreInv, HeldOnlyWhileCounted, Exists
  <2> QED BY <2>7, <2>8 DEF StoreInv
<1> QED BY <1>1, <1>2 DEF Claim

LEMMA CompleteInv ==
  ASSUME TypeOK, StoreInv, NEW r \in Requests, NEW result \in Results \cup {NoResult},
         Complete(r, result)
  PROVE  StoreInv'
<1> DEFINE k == KeyOf(r)
           row == [actions[k] EXCEPT !.status = "succeeded", !.result = result,
                                     !.lease = None]
<1>1. k \in Keys /\ actions[k] \in Action /\ RowInv(actions[k])
  BY BoundType DEF Complete, Executing, Bound, StoreInv
<1>2. row \in Action /\ RowInv(row) /\ Counted(row)
  BY <1>1 DEF RowInv, Action, RuntimeStatus, Complete, Executing, Counted
<1>3. actions' = [actions EXCEPT ![k] = row] /\ UNCHANGED held
  BY DEF Complete, controlVars
<1> QED BY <1>1, <1>2, <1>3, OneRow

LEMMA MarkUnknownInv ==
  ASSUME TypeOK, StoreInv, NEW r \in Requests, MarkUnknown(r)
  PROVE  StoreInv'
<1> DEFINE k == KeyOf(r)
           row == [actions[k] EXCEPT !.status = "unknown", !.lease = None]
<1>1. k \in Keys /\ actions[k] \in Action /\ RowInv(actions[k])
  BY BoundType DEF MarkUnknown, Executing, Bound, StoreInv
<1>2. row \in Action /\ RowInv(row) /\ Counted(row)
  BY <1>1 DEF RowInv, Action, RuntimeStatus, MarkUnknown, Executing, Counted
<1>3. actions' = [actions EXCEPT ![k] = row] /\ UNCHANGED held
  BY DEF MarkUnknown, controlVars
<1> QED BY <1>1, <1>2, <1>3, OneRow

LEMMA UnresolvedStatus ==
  ASSUME TypeOK, NEW k \in Keys, NEW now, Unresolved(k, now)
  PROVE  actions[k] \in Action /\ actions[k].status \in {"executing", "unknown"}
<1>1. actions[k] \in Action
  BY ExistsType DEF Unresolved
<1> QED BY <1>1 DEF Unresolved, Refreshed, LeaseDue, Action

LEMMA ReconcileCommittedInv ==
  ASSUME TypeOK, StoreInv, NEW k \in Keys, NEW result \in Results, NEW now,
         ReconcileCommitted(k, result, now)
  PROVE  StoreInv'
<1> DEFINE row == [actions[k] EXCEPT !.status = "succeeded", !.result = result,
                                     !.expires = None, !.lease = None]
<1>1. /\ actions[k] \in Action /\ RowInv(actions[k])
      /\ actions[k].status \in {"executing", "unknown"}
  BY UnresolvedStatus DEF ReconcileCommitted, Unresolved, StoreInv
<1>2. row \in Action /\ RowInv(row) /\ Counted(row)
  BY <1>1 DEF RowInv, Action, RuntimeStatus, Counted
<1>3. actions' = [actions EXCEPT ![k] = row] /\ UNCHANGED held
  BY DEF ReconcileCommitted, controlVars
<1> QED BY <1>2, <1>3, OneRow

LEMMA ReconcileNotCommittedInv ==
  ASSUME TypeOK, StoreInv, NEW k \in Keys, NEW now \in Nat, ReconcileNotCommitted(k, now)
  PROVE  StoreInv'
<1> DEFINE row == Reopened(actions[k], now)
<1>1. /\ actions[k] \in Action /\ RowInv(actions[k])
      /\ actions[k].status \in {"executing", "unknown"}
      /\ actions[k].effect \in {"allow", "require_approval"}
  BY UnresolvedStatus
  DEF ReconcileNotCommitted, Unresolved, StoreInv, Action, PolicyEffect
<1>2. After(now, actions[k].ttl) \in Nat \cup {None}
  BY <1>1 DEF After, Action, None
<1>3. row \in Action /\ RowInv(row)
  BY <1>1, <1>2 DEF Reopened, RowInv, Action, RuntimeStatus, Decider
<1>4. /\ actions' = [actions EXCEPT ![k] = row]
      /\ held' = [held EXCEPT ![k] = NoCapacity]
  BY DEF ReconcileNotCommitted, Release
<1> HIDE DEF row
<1> QED BY <1>3, <1>4, OneRow

LEMMA SameRowsInv ==
  ASSUME StoreInv, UNCHANGED <<actions, held>>
  PROVE  StoreInv'
BY DEF StoreInv, HeldOnlyWhileCounted, Exists, RowInv

LEMMA InitInv == Init => StoreInv
BY DEF Init, ControlsInit, StoreInv, Exists, HeldOnlyWhileCounted

LEMMA StepInv == TypeOK /\ StoreInv /\ [Next]_storeVars => StoreInv'
<1> SUFFICES ASSUME TypeOK, StoreInv, [Next]_storeVars PROVE StoreInv'
  OBVIOUS
<1>r. Readings \subseteq Nat
  BY ReadingsType
<1>1. CASE Tick
  BY <1>1, SameRowsInv DEF Tick, controlVars
<1>2. CASE Operator
  BY <1>2, SameRowsInv
  DEF Operator, OperatorStep, SetPause, ClearPause, ConfigureLimit, DisableLimit
<1>3. CASE Reviewer
  BY <1>3, DecideInv DEF Reviewer
<1>4. CASE Reader
  BY <1>4, ListActionsInv, RefreshKeyInv DEF Reader, GetAction
<1>5. CASE Worker
  <2>1. PICK r \in Requests, now \in Readings :
          \/ Submit(r, now) \/ Claim(r, now)
          \/ \E result \in Results : Complete(r, result)
          \/ MarkUnknown(r)
    BY <1>5 DEF Worker
  <2> QED BY <1>r, <2>1, SubmitInv, ClaimInv, CompleteInv, MarkUnknownInv
<1>6. CASE Reconciler
  BY <1>6, <1>r, ReconcileCommittedInv, ReconcileNotCommittedInv DEF Reconciler
<1>7. CASE UNCHANGED storeVars
  BY <1>7, SameRowsInv DEF storeVars, controlVars
<1> QED BY <1>1, <1>2, <1>3, <1>4, <1>5, <1>6, <1>7 DEF Next

(* The invariant holds in every reachable state.                           *)
THEOREM StoreInvariant == Spec => []StoreInv
BY InitInv, StepInv, StoreTypes, PTL DEF Spec

(* No decision outlives the reopening of its action: what executes was     *)
(* allowed by policy, or approved by a reviewer since it last became       *)
(* pending, for any number of actions, deadlines and clock skew.           *)
THEOREM DecisionsAreFresh == Spec => []DecisionFresh
<1>1. StoreInv => DecisionFresh
  BY DEF StoreInv, RowInv, DecisionFresh
<1> QED BY <1>1, StoreInvariant, PTL

(* Limit capacity is held only by actions that may have taken effect, for  *)
(* any set of limits and any operator changes to them.                     *)
THEOREM CapacityIsAccounted == Spec => []HeldOnlyWhileCounted
<1>1. StoreInv => HeldOnlyWhileCounted
  BY DEF StoreInv
<1> QED BY <1>1, StoreInvariant, PTL

-------------------------------------------------------------------------------
(* What one step may do to a row.                                          *)

Settled(row) == row.status \in {"denied", "rejected", "expired", "succeeded"}

(* The row of key k stays, is refreshed, or is changed by exactly one of   *)
(* the operations, which names the state it found the row in.              *)
LEMMA RowStep ==
  ASSUME TypeOK, NEW k \in Keys, Exists(k), [Next]_storeVars
  PROVE  \/ actions'[k] = actions[k]
         \/ \E now \in Readings : actions'[k] = Refreshed(actions[k], now)
         \/ actions[k].status = "pending" /\ actions'[k].status \in Verdict
         \/ \E now \in Readings, r \in Requests :
              ClaimStart(r, now) /\ KeyOf(r) = k
         \/ /\ actions[k].status \in {"executing", "unknown"}
            /\ actions'[k].status \in {"pending", "approved", "unknown", "succeeded"}
<1> DEFINE Goal == \/ actions'[k] = actions[k]
                   \/ \E now \in Readings : actions'[k] = Refreshed(actions[k], now)
                   \/ actions[k].status = "pending" /\ actions'[k].status \in Verdict
                   \/ \E now \in Readings, r \in Requests :
                        ClaimStart(r, now) /\ KeyOf(r) = k
                   \/ /\ actions[k].status \in {"executing", "unknown"}
                      /\ actions'[k].status \in {"pending", "approved", "unknown", "succeeded"}
<1>a. actions[k] \in Action /\ actions \in [Keys -> Action \cup {NoAction}]
  BY ExistsType DEF TypeOK
<1>1. CASE Tick \/ Operator \/ UNCHANGED storeVars
  BY <1>1 DEF Tick, Operator, storeVars
<1>2. ASSUME NEW j \in Keys, NEW now \in Readings, NEW verdict \in Verdict,
             Decide(j, verdict, now)
      PROVE  Goal
  <2>1. CASE j = k
    <3>1. actions[k].status = "pending"
      BY <1>2, <1>a, <2>1 DEF Decide, Refreshed, Action
    <3>2. actions'[k].status = verdict
      BY <1>2, <1>a, <2>1 DEF Decide, Action
    <3> QED BY <3>1, <3>2
  <2>2. CASE j # k
    BY <1>2, <1>a, <2>2 DEF Decide
  <2> QED BY <2>1, <2>2
<1>3. ASSUME NEW now \in Readings, NEW j \in Keys, RefreshKey(j, now)
      PROVE  Goal
  BY <1>3, <1>a DEF RefreshKey
<1>4. ASSUME NEW now \in Readings, ListActions(now)
      PROVE  Goal
  BY <1>4, <1>a DEF ListActions
<1>5. ASSUME NEW now \in Readings, NEW r \in Requests, Submit(r, now)
      PROVE  Goal
  <2>1. KeyOf(r) \in Keys
    BY KeyType
  <2>2. CASE SubmitExisting(r, now)
    BY <1>3, <2>1, <2>2 DEF SubmitExisting
  <2>3. CASE ~SubmitExisting(r, now)
    BY <1>5, <1>a, <2>1, <2>3 DEF Submit, SubmitNew
  <2> QED BY <2>2, <2>3
<1>6. ASSUME NEW now \in Readings, NEW r \in Requests, Claim(r, now)
      PROVE  Goal
  <2>1. CASE ClaimStart(r, now) /\ KeyOf(r) = k
    BY <2>1
  <2>2. CASE ClaimStart(r, now) /\ KeyOf(r) # k
    BY <1>a, <2>2 DEF ClaimStart
  <2>3. CASE ~ClaimStart(r, now)
    BY <1>6, <2>3 DEF Claim, ClaimReplay, ClaimBlocked
  <2> QED BY <2>1, <2>2, <2>3
<1>7. ASSUME NEW r \in Requests, NEW result \in Results, Complete(r, result)
      PROVE  Goal
  <2>1. CASE KeyOf(r) = k
    BY <1>7, <1>a, <2>1 DEF Complete, Executing, Bound, Action
  <2>2. CASE KeyOf(r) # k
    BY <1>7, <1>a, <2>2 DEF Complete
  <2> QED BY <2>1, <2>2
<1>8. ASSUME NEW r \in Requests, MarkUnknown(r)
      PROVE  Goal
  <2>1. CASE KeyOf(r) = k
    BY <1>8, <1>a, <2>1 DEF MarkUnknown, Executing, Bound, Action
  <2>2. CASE KeyOf(r) # k
    BY <1>8, <1>a, <2>2 DEF MarkUnknown
  <2> QED BY <2>1, <2>2
<1>9. ASSUME NEW j \in Keys, NEW now \in Readings, NEW result \in Results,
             ReconcileCommitted(j, result, now)
      PROVE  Goal
  <2>1. CASE j = k
    BY <1>9, <1>a, <2>1, UnresolvedStatus DEF ReconcileCommitted, Action
  <2>2. CASE j # k
    BY <1>9, <1>a, <2>2 DEF ReconcileCommitted
  <2> QED BY <2>1, <2>2
<1>10. ASSUME NEW j \in Keys, NEW now \in Readings, ReconcileNotCommitted(j, now)
       PROVE  Goal
  <2>1. CASE j = k
    BY <1>10, <1>a, <2>1, UnresolvedStatus DEF ReconcileNotCommitted, Reopened, Action
  <2>2. CASE j # k
    BY <1>10, <1>a, <2>2 DEF ReconcileNotCommitted
  <2> QED BY <2>1, <2>2
<1> HIDE DEF Goal
<1>11. ASSUME Reviewer PROVE Goal
  BY <1>2, <1>11 DEF Reviewer
<1>12. ASSUME Reader PROVE Goal
  BY <1>3, <1>4, <1>12 DEF Reader, GetAction
<1>13. ASSUME Worker PROVE Goal
  BY <1>5, <1>6, <1>7, <1>8, <1>13 DEF Worker
<1>14. ASSUME Reconciler PROVE Goal
  BY <1>9, <1>10, <1>14 DEF Reconciler
<1>15. Goal
  BY <1>1, <1>11, <1>12, <1>13, <1>14 DEF Next, Goal
<1> QED BY <1>15 DEF Goal

LEMMA SettledStep ==
  ASSUME TypeOK, [Next]_storeVars, NEW k \in Keys, Exists(k), Settled(actions[k])
  PROVE  actions'[k] = actions[k]
<1>1. ASSUME NEW now PROVE Refreshed(actions[k], now) = actions[k]
  BY DEF Settled, Refreshed, ApprovalDue, LeaseDue
<1>2. ASSUME NEW now \in Readings, NEW r \in Requests, ClaimStart(r, now), KeyOf(r) = k
      PROVE  FALSE
  BY <1>1, <1>2 DEF ClaimStart, Claimable, Settled
<1> QED BY <1>1, <1>2, RowStep DEF Settled

(* Nothing changes an action that was denied, rejected or succeeded, or    *)
(* that expired: no late worker, decision, refresh or reconciliation.      *)
THEOREM SettledStays == Spec => SettledForever
<1>1. TypeOK /\ [Next]_storeVars =>
        [\A k \in Keys :
           Exists(k) /\ actions[k].status \in {"denied", "rejected", "expired", "succeeded"}
             => actions'[k] = actions[k]]_actions
  BY SettledStep DEF Settled
<1> QED BY <1>1, StoreTypes, PTL DEF Spec, SettledForever

LEMMA NewRowStep ==
  ASSUME TypeOK, [Next]_storeVars, NEW k \in Keys, ~Exists(k)
  PROVE  \/ actions'[k] = actions[k]
         \/ actions'[k].status \in {"approved", "denied", "pending"}
<1>a. actions \in [Keys -> Action \cup {NoAction}]
  BY DEF TypeOK
<1>1. ASSUME NEW now \in Readings, NEW r \in Requests, NEW effect \in Effects,
             NEW ttl \in Ttls, SubmitNew(r, effect, ttl, now)
      PROVE  \/ actions'[k] = actions[k]
             \/ actions'[k].status \in {"approved", "denied", "pending"}
  <2>1. effect \in PolicyEffect
    BY StoreAssumption
  <2>2. InitialStatus[effect] \in {"approved", "denied", "pending"}
    BY <2>1 DEF InitialStatus, PolicyEffect
  <2>3. CASE KeyOf(r) = k
    BY <1>1, <1>a, <2>2, <2>3 DEF SubmitNew
  <2>4. CASE KeyOf(r) # k
    BY <1>1, <1>a, <2>4 DEF SubmitNew
  <2> QED BY <2>3, <2>4
<1>2. ASSUME NEW now \in Readings, NEW j \in Keys, Exists(j), RefreshKey(j, now)
      PROVE  actions'[k] = actions[k]
  BY <1>2, <1>a DEF RefreshKey
<1>3. ASSUME NEW now \in Readings, NEW r \in Requests, Submit(r, now)
      PROVE  \/ actions'[k] = actions[k]
             \/ actions'[k].status \in {"approved", "denied", "pending"}
  BY <1>1, <1>2, <1>3, KeyType DEF Submit, SubmitExisting
<1>4. CASE Reader
  BY <1>2, <1>4 DEF Reader, GetAction, ListActions
<1>5. CASE Reviewer
  BY <1>5, <1>a DEF Reviewer, Decide
<1>6. ASSUME NEW now \in Readings, NEW r \in Requests, Claim(r, now)
      PROVE  actions'[k] = actions[k]
  BY <1>6, <1>a DEF Claim, ClaimReplay, ClaimStart, ClaimBlocked, Claimable, Bound
<1>7. ASSUME NEW r \in Requests, NEW result \in Results, Complete(r, result)
      PROVE  actions'[k] = actions[k]
  BY <1>7, <1>a DEF Complete, Executing, Bound
<1>8. ASSUME NEW r \in Requests, MarkUnknown(r)
      PROVE  actions'[k] = actions[k]
  BY <1>8, <1>a DEF MarkUnknown, Executing, Bound
<1>9. CASE Worker
  BY <1>3, <1>6, <1>7, <1>8, <1>9 DEF Worker
<1>10. CASE Reconciler
  BY <1>10, <1>a DEF Reconciler, ReconcileCommitted, ReconcileNotCommitted, Unresolved
<1>11. CASE Tick \/ Operator \/ UNCHANGED storeVars
  BY <1>11 DEF Tick, Operator, storeVars
<1> QED BY <1>4, <1>5, <1>9, <1>10, <1>11 DEF Next

(* Only a claim starts an execution.                                       *)
LEMMA StartedByClaim ==
  ASSUME TypeOK, [Next]_storeVars, NEW k \in Keys, Started(k)
  PROVE  \E now \in Readings, r \in Requests : ClaimStart(r, now) /\ KeyOf(r) = k
<1>1. Exists(k)
  BY NewRowStep DEF Started
<1>2. ASSUME NEW now, actions'[k] = Refreshed(actions[k], now) PROVE FALSE
  <2>1. actions[k] \in Action
    BY <1>1, ExistsType
  <2> QED BY <1>2, <2>1 DEF Started, Refreshed, Action
<1> QED BY <1>1, <1>2, RowStep DEF Started, Verdict

(* Nothing starts on an approval that was over when its worker read the    *)
(* clock, for any deadlines and any skew.                                  *)
THEOREM NothingStartsLate == Spec => NoLateStart
<1>1. ASSUME TypeOK, [Next]_storeVars, NEW k \in Keys, Started(k)
      PROVE  actions[k].expires = None \/ clock < actions[k].expires + Skew
  <2>1. PICK now \in Readings, r \in Requests : ClaimStart(r, now) /\ KeyOf(r) = k
    BY <1>1, StartedByClaim
  <2>2. actions[k] \in Action
    BY <1>1, <2>1, ExistsType DEF ClaimStart, Claimable, Bound
  <2>3. ~ApprovalDue(actions[k], now) /\ actions[k].status = "approved"
    BY <2>1, <2>2 DEF ClaimStart, Claimable, Refreshed, Action
  <2>4. actions[k].expires = None \/ now < actions[k].expires
    <3>1. now \in Nat
      BY <1>1, ReadingsType
    <3>2. actions[k].expires \in Nat \cup {None}
      BY <2>2 DEF Action
    <3> QED BY <2>3, <3>1, <3>2 DEF ApprovalDue, Due, None
  <2>5. now \in Nat /\ clock \in Nat /\ clock <= now + Skew
    BY <1>1, ControlsAssumption DEF Readings, TypeOK
  <2> QED BY <2>2, <2>4, <2>5, StoreAssumption DEF Action, None
<1>2. TypeOK /\ [Next]_storeVars =>
        [\A k \in Keys : Started(k) =>
           actions[k].expires = None \/ clock < actions[k].expires + Skew]_actions
  BY <1>1
<1> QED BY <1>2, StoreTypes, PTL DEF Spec, NoLateStart

-------------------------------------------------------------------------------
(* Limits.  That a release never raises a counter needs to know that what  *)
(* an action holds is never negative.                                      *)

HeldNatural ==
  \A k \in Keys, lw \in LimitWindows :
    held[k][lw].actions \in Nat /\ held[k][lw].value \in Nat

(* The only steps that touch the counters.                                 *)
LEMMA CapacityStep ==
  ASSUME [Next]_storeVars
  PROVE  \/ UNCHANGED <<usage, held>>
         \/ \E now \in Readings, r \in Requests : ClaimStart(r, now)
         \/ \E k \in Keys : Release(k)
<1>1. CASE Tick \/ UNCHANGED storeVars
  BY <1>1 DEF Tick, storeVars, controlVars
<1>2. CASE Operator
  BY <1>2
  DEF Operator, OperatorStep, SetPause, ClearPause, ConfigureLimit, DisableLimit
<1>3. CASE Reviewer \/ Reader
  BY <1>3 DEF Reviewer, Decide, Reader, ListActions, GetAction, RefreshKey, controlVars
<1>4. CASE Worker
  <2> SUFFICES ASSUME NEW r \in Requests, NEW now \in Readings,
                      \/ Submit(r, now) \/ Claim(r, now) \/ MarkUnknown(r)
                      \/ \E result \in Results : Complete(r, result)
               PROVE  \/ UNCHANGED <<usage, held>>
                      \/ ClaimStart(r, now)
                      \/ \E k \in Keys : Release(k)
    BY <1>4 DEF Worker
  <2>1. CASE Submit(r, now)
    BY <2>1 DEF Submit, SubmitExisting, SubmitNew, RefreshKey, controlVars
  <2>2. CASE Claim(r, now)
    BY <2>2 DEF Claim, ClaimReplay, ClaimBlocked, RefreshKey, controlVars
  <2>3. CASE \E result \in Results : Complete(r, result)
    BY <2>3 DEF Complete, controlVars
  <2>4. CASE MarkUnknown(r)
    BY <2>4 DEF MarkUnknown, controlVars
  <2> QED BY <2>1, <2>2, <2>3, <2>4
<1>5. CASE Reconciler
  BY <1>5 DEF Reconciler, ReconcileCommitted, ReconcileNotCommitted, controlVars
<1>6. CASE UNCHANGED storeVars \/ Tick \/ Operator \/ Reviewer \/ Reader
  BY <1>1, <1>2, <1>3, <1>6
<1> QED BY <1>4, <1>5, <1>6 DEF Next

LEMMA AdmittedAmount ==
  ASSUME ControlsTypeOK, NEW r \in Requests, NEW now, HasCapacity(r, now),
         NEW l \in MatchingLimits(r)
  PROVE  Amount(l, r) \in Nat
<1>1. limits[l] \in Limit /\ l \in LimitIds
  BY DEF ControlsTypeOK, MatchingLimits
<1>2. limits[l].setting.argument \in Arguments \cup {NoArgument}
  BY <1>1 DEF Limit, LimitSetting
<1>3. r.amounts \in [Arguments -> Nat \cup {None}]
  BY ControlsAssumption DEF Request
<1>4. Amount(l, r) # None
  BY DEF HasCapacity, Admits
<1> QED BY <1>2, <1>3, <1>4 DEF Amount

LEMMA ReservationNatural ==
  ASSUME ControlsTypeOK, NEW r \in Requests, NEW now, HasCapacity(r, now),
         NEW lw \in LimitWindows
  PROVE  /\ ReservationFor(r, now)[lw].actions \in Nat
         /\ ReservationFor(r, now)[lw].value \in Nat
BY AdmittedAmount DEF ReservationFor

LEMMA HeldInit == Init => HeldNatural
BY DEF Init, ControlsInit, HeldNatural, NoCapacity

LEMMA HeldStep == TypeOK /\ HeldNatural /\ [Next]_storeVars => HeldNatural'
<1> SUFFICES ASSUME TypeOK, HeldNatural, [Next]_storeVars,
                    NEW k \in Keys, NEW lw \in LimitWindows
             PROVE  held'[k][lw].actions \in Nat /\ held'[k][lw].value \in Nat
  BY DEF HeldNatural
<1>t. held \in [Keys -> [LimitWindows -> Capacity]] /\ ControlsTypeOK
  BY DEF TypeOK, ControlsTypeOK
<1>h. held[k][lw].actions \in Nat /\ held[k][lw].value \in Nat
  BY DEF HeldNatural
<1>1. ASSUME NEW now \in Readings, NEW r \in Requests, ClaimStart(r, now)
      PROVE  held'[k][lw].actions \in Nat /\ held'[k][lw].value \in Nat
  <2>1. /\ ReservationFor(r, now)[lw].actions \in Nat
        /\ ReservationFor(r, now)[lw].value \in Nat
    BY <1>1, <1>t, ReservationNatural DEF ClaimStart
  <2>2. CASE k = KeyOf(r)
    BY <1>1, <1>t, <1>h, <2>1, <2>2 DEF ClaimStart, Reserve, Plus
  <2>3. CASE k # KeyOf(r)
    BY <1>1, <1>t, <1>h, <2>3 DEF ClaimStart, Reserve
  <2> QED BY <2>2, <2>3
<1>2. ASSUME NEW j \in Keys, Release(j)
      PROVE  held'[k][lw].actions \in Nat /\ held'[k][lw].value \in Nat
  BY <1>2, <1>t, <1>h DEF Release, NoCapacity
<1> QED BY <1>1, <1>2, <1>h, CapacityStep

LEMMA WithinMaximaStep ==
  ASSUME TypeOK, HeldNatural, [Next]_storeVars
  PROVE  WithinMaxima
<1>t. /\ held \in [Keys -> [LimitWindows -> Capacity]] /\ ControlsTypeOK
      /\ usage \in [LimitWindows -> Capacity]
  BY DEF TypeOK, ControlsTypeOK
<1> SUFFICES ASSUME NEW l \in LimitIds, NEW w \in Windows,
                    \/ usage'[<<l, w>>].actions > usage[<<l, w>>].actions
                    \/ usage'[<<l, w>>].value > usage[<<l, w>>].value
             PROVE  /\ limits[l].enabled
                    /\ limits[l].setting.maxActions # None =>
                         usage'[<<l, w>>].actions <= limits[l].setting.maxActions
                    /\ limits[l].setting.maxValue # None =>
                         usage'[<<l, w>>].value <= limits[l].setting.maxValue
  BY DEF WithinMaxima
<1>l. <<l, w>> \in LimitWindows
  BY DEF LimitWindows
<1>u. usage[<<l, w>>].actions \in Int /\ usage[<<l, w>>].value \in Int
  BY <1>t, <1>l DEF Capacity
<1>1. usage' # usage
  BY <1>u
<1>2. ASSUME NEW k \in Keys, Release(k) PROVE FALSE
  <2>1. held[k][<<l, w>>].actions \in Nat /\ held[k][<<l, w>>].value \in Nat
    BY <1>l DEF HeldNatural
  <2>2. /\ usage'[<<l, w>>].actions = usage[<<l, w>>].actions - held[k][<<l, w>>].actions
        /\ usage'[<<l, w>>].value = usage[<<l, w>>].value - held[k][<<l, w>>].value
    BY <1>2, <1>l DEF Release, Minus
  <2> QED BY <1>u, <2>1, <2>2
<1>3. PICK now \in Readings, r \in Requests : ClaimStart(r, now)
  BY <1>1, <1>2, CapacityStep
<1> DEFINE taken == ReservationFor(r, now)[<<l, w>>]
<1>4. /\ usage'[<<l, w>>].actions = usage[<<l, w>>].actions + taken.actions
      /\ usage'[<<l, w>>].value = usage[<<l, w>>].value + taken.value
  BY <1>3, <1>l DEF ClaimStart, Reserve, Plus
<1>5. CASE l \in MatchingLimits(r) /\ w = WindowStart(l, now)
  <2>1. Admits(l, r, now)
    BY <1>3, <1>5 DEF ClaimStart, HasCapacity
  <2>2. taken.actions = 1 /\ taken.value = Amount(l, r)
    BY <1>5, <1>l DEF ReservationFor
  <2> QED BY <1>4, <1>5, <2>1, <2>2 DEF Admits, MatchingLimits
<1>6. CASE ~(l \in MatchingLimits(r) /\ w = WindowStart(l, now))
  <2>1. taken.actions = 0 /\ taken.value = 0
    BY <1>6, <1>l DEF ReservationFor
  <2> QED BY <1>4, <1>u, <2>1
<1> QED BY <1>5, <1>6

(* No claim takes a window beyond the maxima in force, for any number of   *)
(* limits, however operators lower, disable and re-enable them.            *)
THEOREM LimitsAreRespected == Spec => LimitRespected
<1>1. TypeOK /\ HeldNatural /\ [Next]_storeVars => [WithinMaxima]_usage
  BY WithinMaximaStep
<1> QED BY <1>1, HeldInit, HeldStep, StoreTypes, PTL DEF Spec, LimitRespected
===============================================================================
