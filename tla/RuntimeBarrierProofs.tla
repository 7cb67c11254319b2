------------------------- MODULE RuntimeBarrierProofs -------------------------
(***************************************************************************)
(* Machine-checked facts about RuntimeBarrier for every number of calls,   *)
(* requests, keys, limits and results, and every lease and clock skew.     *)
(*                                                                         *)
(* The proofs go in four layers: what the calls alone keep true (CallInv); *)
(* that every barrier step is a store step, so that the theorems about the *)
(* store hold under the barrier; what each store operation does to the     *)
(* phase of its key; and the invariant that relates phases, operations and *)
(* answers (EffectInv), from which the properties and the refinement of    *)
(* ProtectedEffect follow.                                                 *)
(***************************************************************************)
EXTENDS RuntimeBarrier, RuntimeStoreProofs

-------------------------------------------------------------------------------
(* The calls alone.                                                        *)

CallTypes ==
  /\ pc \in [Calls -> Stage]
  /\ request \in [Calls -> Requests \cup {NoRequest}]
  /\ operation \in [Calls -> Operation]
  /\ produced \in [Calls -> Results \cup {NoResult}]

CallInv ==
  /\ CallTypes
  /\ \A c \in Calls :
       /\ pc[c] # "idle" => request[c] \in Requests
       /\ operation[c] # "none" => pc[c] \notin {"idle", "prepared"}
       /\ pc[c] = "completing" => operation[c] = "committed" /\ produced[c] \in Results

Live(c) == operation[c] \in {"inflight", "committed"}

LEMMA CallInit == BarrierInit => CallInv
BY DEF BarrierInit, CallInv, CallTypes, Stage, Operation

LEMMA CallKept == CallInv /\ UNCHANGED callVars => CallInv'
BY DEF CallInv, CallTypes, callVars

LEMMA CallStepInv ==
  ASSUME CallInv, NEW c \in Calls, CallStep(c)
  PROVE  CallInv'
<1>1. ASSUME NEW r \in Requests, NEW now \in Readings,
             Prepare(c, r, now) \/ PrepareRaises(c, r, now)
      PROVE  CallInv'
  BY <1>1 DEF Prepare, PrepareRaises, Goto, CallInv, CallTypes, Stage
<1>2. ASSUME NEW now \in Readings, ClaimExecute(c, now)
      PROVE  CallInv'
  BY <1>2 DEF ClaimExecute, Goto, CallInv, CallTypes, Stage, Operation
<1>3. ASSUME NEW now \in Readings, ClaimRaises(c, now)
      PROVE  CallInv'
  BY <1>3 DEF ClaimRaises, Goto, CallInv, CallTypes, Stage
<1>4. CASE ReturnReplay(c)
  BY <1>4 DEF ReturnReplay, Goto, CallInv, CallTypes, Stage
<1>5. CASE Commit(c) \/ Abort(c)
  BY <1>5 DEF Commit, Abort, CallInv, CallTypes, Operation
<1>6. ASSUME NEW result \in Results, OperationReturns(c, result)
      PROVE  CallInv'
  BY <1>6 DEF OperationReturns, Goto, CallInv, CallTypes, Stage
<1>7. CASE OperationRaises(c)
  BY <1>7 DEF OperationRaises, Goto, CallInv, CallTypes, Stage
<1>8. CASE ReturnResult(c) \/ CompleteRaises(c) \/ RecordUnknown(c)
  BY <1>8 DEF ReturnResult, CompleteRaises, RecordUnknown, Goto, CallInv, CallTypes, Stage
<1>9. CASE Crash(c)
  BY <1>9 DEF Crash, CallInv, CallTypes, Stage
<1> QED BY <1>1, <1>2, <1>3, <1>4, <1>5, <1>6, <1>7, <1>8, <1>9 DEF CallStep

(* What a call knows of itself, whatever the store does.                   *)
THEOREM CallInvariant == BarrierSpec => []CallInv
<1>1. CallInv /\ [BarrierNext]_vars => CallInv'
  BY CallKept, CallStepInv DEF BarrierNext, Environment, vars
<1> QED BY <1>1, CallInit, PTL DEF BarrierSpec

-------------------------------------------------------------------------------
(* Every barrier step is a store step or leaves the store alone.           *)

LEMMA CallStepOfStore ==
  ASSUME TypeOK, CallInv, NEW c \in Calls, CallStep(c)
  PROVE  Worker \/ UNCHANGED storeVars
<1>r. pc[c] # "idle" => request[c] \in Requests
  BY DEF CallInv
<1>n. clock \in Readings
  BY StoreAssumption, ControlsAssumption DEF Readings, TypeOK
<1>1. ASSUME NEW r \in Requests, NEW now \in Readings,
             Prepare(c, r, now) \/ PrepareRaises(c, r, now)
      PROVE  Worker \/ UNCHANGED storeVars
  BY <1>1 DEF Prepare, PrepareRaises, Raises, Worker
<1>2. ASSUME NEW now \in Readings, ClaimExecute(c, now) \/ ClaimRaises(c, now)
      PROVE  Worker \/ UNCHANGED storeVars
  BY <1>2, <1>r DEF ClaimExecute, ClaimRaises, Raises, Goto, Worker, Claim
<1>3. CASE ReturnReplay(c)
  BY <1>3, <1>r, <1>n DEF ReturnReplay, Goto, Worker, Claim
<1>4. CASE ReturnResult(c) \/ CompleteRaises(c)
  <2>1. request[c] \in Requests /\ produced[c] \in Results
    BY <1>4, <1>r DEF ReturnResult, CompleteRaises, Goto, CallInv
  <2> QED BY <1>4, <1>n, <2>1 DEF ReturnResult, CompleteRaises, Raises, Worker
<1>5. CASE RecordUnknown(c)
  BY <1>5, <1>r, <1>n DEF RecordUnknown, Raises, Goto, Worker
<1>6. CASE Commit(c) \/ Abort(c) \/ OperationRaises(c) \/ Crash(c)
  BY <1>6 DEF Commit, Abort, OperationRaises, Crash
<1>7. ASSUME NEW result \in Results, OperationReturns(c, result)
      PROVE  Worker \/ UNCHANGED storeVars
  BY <1>7 DEF OperationReturns
<1> QED BY <1>1, <1>2, <1>3, <1>4, <1>5, <1>6, <1>7 DEF CallStep

LEMMA BarrierStepOfStore ==
  TypeOK /\ CallInv /\ [BarrierNext]_vars => [Next]_storeVars
<1> SUFFICES ASSUME TypeOK, CallInv, [BarrierNext]_vars PROVE [Next]_storeVars
  OBVIOUS
<1>1. CASE Environment
  BY <1>1 DEF Environment, HonestReconciler, Reconciler, Next
<1>2. ASSUME NEW c \in Calls, CallStep(c) PROVE [Next]_storeVars
  BY <1>2, CallStepOfStore DEF Next
<1>3. CASE UNCHANGED vars
  BY <1>3 DEF vars
<1> QED BY <1>1, <1>2, <1>3 DEF BarrierNext

(* The calls use the store only as its specification allows: everything    *)
(* proved of the store holds under crashes, lost answers and retries.      *)
THEOREM BarrierUsesStore == BarrierSpec => Spec
<1>1. BarrierInit => Init
  BY DEF BarrierInit
<1>2. TypeOK /\ [Next]_storeVars => TypeOK'
  BY StepType
<1> QED BY <1>1, <1>2, InitType, BarrierStepOfStore, CallInvariant, PTL DEF BarrierSpec, Spec

LEMMA ReturnedType ==
  ASSUME CallInv, TypeOK, BarrierTypeOK, [BarrierNext]_vars
  PROVE  returned' \in [Calls -> Results \cup {NoResult}]
<1>1. ASSUME NEW c \in Calls, ReturnResult(c)
      PROVE  returned' \in [Calls -> Results \cup {NoResult}]
  BY <1>1 DEF ReturnResult, BarrierTypeOK
<1>2. ASSUME NEW c \in Calls, ReturnReplay(c)
      PROVE  returned' \in [Calls -> Results \cup {NoResult}]
  <2>1. actions[KeyOf(request[c])] \in Action
    BY <1>2, BoundType DEF ReturnReplay, ClaimReplay, Goto, CallInv
  <2> QED BY <1>2, <2>1 DEF ReturnReplay, BarrierTypeOK, Action
<1>3. ASSUME NEW c \in Calls, CallStep(c), ~ReturnResult(c), ~ReturnReplay(c)
      PROVE  UNCHANGED returned
  BY <1>3 DEF CallStep, Prepare, PrepareRaises, ClaimExecute, ClaimRaises, Commit, Abort,
              OperationReturns, OperationRaises, CompleteRaises, RecordUnknown, Crash
<1>4. CASE Environment \/ UNCHANGED vars
  BY <1>4 DEF Environment, vars, callVars, BarrierTypeOK
<1> QED BY <1>1, <1>2, <1>3, <1>4 DEF BarrierNext, BarrierTypeOK

(* Every reachable state of the calls and the store is well typed.         *)
THEOREM BarrierTypes == BarrierSpec => []BarrierTypeOK
<1>1. BarrierInit => BarrierTypeOK
  BY InitType, CallInit DEF BarrierInit, BarrierTypeOK, CallInv, CallTypes
<1>2. TypeOK /\ TypeOK' /\ CallInv /\ CallInv' /\ BarrierTypeOK /\ [BarrierNext]_vars
        => BarrierTypeOK'
  <2> SUFFICES ASSUME TypeOK, TypeOK', CallInv, CallInv', BarrierTypeOK, [BarrierNext]_vars
               PROVE  BarrierTypeOK'
    OBVIOUS
  <2>1. returned' \in [Calls -> Results \cup {NoResult}]
    BY ReturnedType
  <2> QED BY <2>1 DEF BarrierTypeOK, CallInv, CallTypes
<1> QED BY <1>1, <1>2, CallInvariant, BarrierUsesStore, StoreTypes, PTL DEF BarrierSpec

-------------------------------------------------------------------------------
(* What a store operation does to the keys, as far as a caller can tell.   *)

ResultOf(k) == IF Exists(k) THEN actions[k].result ELSE NoResult

(* Key k stays bound to its request, in its phase, with its result.        *)
Kept(k) ==
  /\ PhaseOf(k)' = PhaseOf(k)
  /\ ResultOf(k)' = ResultOf(k)
  /\ Exists(k) => Exists(k)' /\ actions'[k].request = actions[k].request

AllKept == \A k \in Keys : Kept(k)

(* Key k goes from one phase to another with a result, the others are kept. *)
Moved(k, from, to, result) ==
  /\ Exists(k) /\ Exists(k)' /\ actions'[k].request = actions[k].request
  /\ PhaseOf(k) = from /\ PhaseOf(k)' = to /\ ResultOf(k)' = result
  /\ \A j \in Keys \ {k} : Kept(j)

LEMMA SameRowKept ==
  ASSUME NEW k \in Keys, actions'[k] = actions[k]
  PROVE  Kept(k)
BY DEF Kept, PhaseOf, ResultOf, Exists

LEMMA RefreshedKept ==
  ASSUME TypeOK, NEW k \in Keys, NEW now, Exists(k),
         actions'[k] = Refreshed(actions[k], now)
  PROVE  Kept(k)
<1>1. actions[k] \in Action /\ actions'[k] \in Action
  BY ExistsType, RefreshedType
<1>2. Exists(k)'
  BY <1>1, StoreAssumption DEF Exists
<1> QED BY <1>1, <1>2 DEF Kept, PhaseOf, ResultOf, Refreshed, ApprovalDue, LeaseDue, Action

LEMMA OthersKept ==
  ASSUME NEW k \in Keys, \A j \in Keys \ {k} : actions'[j] = actions[j]
  PROVE  \A j \in Keys \ {k} : Kept(j)
BY SameRowKept

LEMMA RefreshKeyKept ==
  ASSUME TypeOK, NEW k \in Keys, NEW now, Exists(k), RefreshKey(k, now)
  PROVE  AllKept
<1>1. actions'[k] = Refreshed(actions[k], now) /\ \A j \in Keys \ {k} : actions'[j] = actions[j]
  BY DEF RefreshKey, TypeOK
<1> QED BY <1>1, RefreshedKept, OthersKept DEF AllKept

LEMMA ListActionsKept ==
  ASSUME TypeOK, NEW now, ListActions(now)
  PROVE  AllKept
<1>1. ASSUME NEW k \in Keys
      PROVE  \/ actions'[k] = actions[k]
             \/ Exists(k) /\ actions'[k] = Refreshed(actions[k], now)
  BY DEF ListActions
<1> QED BY <1>1, SameRowKept, RefreshedKept DEF AllKept

LEMMA SubmitKept ==
  ASSUME TypeOK, NEW r \in Requests, NEW now \in Nat, Submit(r, now)
  PROVE  AllKept
<1>1. CASE SubmitExisting(r, now)
  BY <1>1, RefreshKeyKept, KeyType DEF SubmitExisting
<1>2. ASSUME NEW effect \in Effects, NEW ttl \in Ttls, SubmitNew(r, effect, ttl, now)
      PROVE  AllKept
  <2>1. KeyOf(r) \in Keys /\ effect \in PolicyEffect
    BY KeyType, StoreAssumption
  <2>2. /\ actions'[KeyOf(r)].status = InitialStatus[effect]
        /\ actions'[KeyOf(r)].result = NoResult
        /\ \A j \in Keys \ {KeyOf(r)} : actions'[j] = actions[j]
        /\ ~Exists(KeyOf(r))
    BY <1>2, <2>1 DEF SubmitNew, TypeOK
  <2>3. InitialStatus[effect] \in {"approved", "denied", "pending"}
    BY <2>1 DEF InitialStatus, PolicyEffect
  <2>4. Kept(KeyOf(r))
    BY <1>2, <2>2, <2>3 DEF SubmitNew, Kept, PhaseOf, ResultOf
  <2> QED BY <2>1, <2>2, <2>4, OthersKept DEF AllKept
<1> QED BY <1>1, <1>2 DEF Submit

LEMMA DecideKept ==
  ASSUME TypeOK, NEW k \in Keys, NEW verdict \in Verdict, NEW now, Decide(k, verdict, now)
  PROVE  AllKept
<1> DEFINE row == [actions[k] EXCEPT !.status = verdict, !.decidedBy = "reviewer"]
<1>1. actions[k] \in Action /\ Exists(k)
  BY ExistsType DEF Decide
<1>2. actions[k].status = "pending"
  BY <1>1 DEF Decide, Refreshed, Action
<1>3. actions'[k] = row /\ \A j \in Keys \ {k} : actions'[j] = actions[j]
  BY DEF Decide, TypeOK
<1>4. row \in Action /\ row.status = verdict
  BY <1>1 DEF Action, Verdict, RuntimeStatus, Decider
<1>5. row.request = actions[k].request /\ row.result = actions[k].result
  BY <1>1 DEF Action
<1> HIDE DEF row
<1>6. Kept(k)
  BY <1>1, <1>2, <1>3, <1>4, <1>5, StoreAssumption DEF Kept, PhaseOf, ResultOf, Exists, Verdict
<1> QED BY <1>3, <1>6, OthersKept DEF AllKept

LEMMA SameActionsKept == UNCHANGED actions => AllKept
BY SameRowKept DEF AllKept

LEMMA ClaimStartMoved ==
  ASSUME TypeOK, NEW r \in Requests, NEW now \in Nat, ClaimStart(r, now)
  PROVE  Moved(KeyOf(r), "open", "started", ResultOf(KeyOf(r)))
<1> DEFINE k == KeyOf(r)
           row == [actions[k] EXCEPT !.status = "executing", !.lease = now + Lease]
<1>1. k \in Keys /\ actions[k] \in Action /\ Exists(k)
  BY BoundType DEF ClaimStart, Claimable, Bound
<1>2. actions[k].status = "approved"
  BY <1>1 DEF ClaimStart, Claimable, Refreshed, Action
<1>3. actions'[k] = row /\ \A j \in Keys \ {k} : actions'[j] = actions[j]
  BY <1>1 DEF ClaimStart, TypeOK
<1>4. /\ row.status = "executing" /\ row.request = actions[k].request
      /\ row.result = actions[k].result /\ row \in Action
  <2>1. now + Lease \in Nat
    BY StoreAssumption
  <2> QED BY <1>1, <2>1 DEF Action, RuntimeStatus
<1> HIDE DEF row, k
<1> QED BY <1>1, <1>2, <1>3, <1>4, OthersKept, StoreAssumption DEF Moved, PhaseOf, ResultOf, Exists, k

LEMMA CompleteMoved ==
  ASSUME TypeOK, NEW r \in Requests, NEW result \in Results, Complete(r, result)
  PROVE  Moved(KeyOf(r), "started", "settled", result)
<1> DEFINE k == KeyOf(r)
           row == [actions[k] EXCEPT !.status = "succeeded", !.result = result,
                                     !.lease = None]
<1>1. /\ k \in Keys /\ actions[k] \in Action /\ Exists(k)
      /\ actions[k].status = "executing"
  BY BoundType DEF Complete, Executing, Bound
<1>2. actions'[k] = row /\ \A j \in Keys \ {k} : actions'[j] = actions[j]
  BY <1>1 DEF Complete, TypeOK
<1>3. /\ row.status = "succeeded" /\ row.request = actions[k].request
      /\ row.result = result /\ row \in Action
  BY <1>1 DEF Action, RuntimeStatus
<1> HIDE DEF row, k
<1> QED BY <1>1, <1>2, <1>3, OthersKept, StoreAssumption DEF Moved, PhaseOf, ResultOf, Exists, k

LEMMA MarkUnknownKept ==
  ASSUME TypeOK, NEW r \in Requests, MarkUnknown(r)
  PROVE  AllKept
<1> DEFINE k == KeyOf(r)
           row == [actions[k] EXCEPT !.status = "unknown", !.lease = None]
<1>1. /\ k \in Keys /\ actions[k] \in Action /\ Exists(k)
      /\ actions[k].status = "executing"
  BY BoundType DEF MarkUnknown, Executing, Bound
<1>2. actions'[k] = row /\ \A j \in Keys \ {k} : actions'[j] = actions[j]
  BY <1>1 DEF MarkUnknown, TypeOK
<1>3. /\ row.status = "unknown" /\ row.request = actions[k].request
      /\ row.result = actions[k].result /\ row \in Action
  BY <1>1 DEF Action, RuntimeStatus
<1> HIDE DEF row, k
<1>4. Kept(k)
  BY <1>1, <1>2, <1>3, StoreAssumption DEF Kept, PhaseOf, ResultOf, Exists
<1> QED BY <1>1, <1>2, <1>4, OthersKept DEF AllKept

LEMMA ReconcileCommittedMoved ==
  ASSUME TypeOK, NEW k \in Keys, NEW result \in Results, NEW now,
         ReconcileCommitted(k, result, now)
  PROVE  Moved(k, "started", "settled", result)
<1> DEFINE row == [actions[k] EXCEPT !.status = "succeeded", !.result = result,
                                     !.expires = None, !.lease = None]
<1>1. /\ actions[k] \in Action /\ Exists(k)
      /\ actions[k].status \in {"executing", "unknown"}
  BY UnresolvedStatus DEF ReconcileCommitted, Unresolved
<1>2. actions'[k] = row /\ \A j \in Keys \ {k} : actions'[j] = actions[j]
  BY DEF ReconcileCommitted, TypeOK
<1>3. /\ row.status = "succeeded" /\ row.request = actions[k].request
      /\ row.result = result /\ row \in Action
  BY <1>1 DEF Action, RuntimeStatus
<1> HIDE DEF row
<1> QED BY <1>1, <1>2, <1>3, OthersKept, StoreAssumption DEF Moved, PhaseOf, ResultOf, Exists

LEMMA ReconcileNotCommittedMoved ==
  ASSUME TypeOK, NEW k \in Keys, NEW now \in Nat, ReconcileNotCommitted(k, now)
  PROVE  Moved(k, "started", "open", NoResult)
<1> DEFINE row == Reopened(actions[k], now)
<1>1. /\ actions[k] \in Action /\ Exists(k)
      /\ actions[k].status \in {"executing", "unknown"}
  BY UnresolvedStatus DEF ReconcileNotCommitted, Unresolved
<1>2. actions'[k] = row /\ \A j \in Keys \ {k} : actions'[j] = actions[j]
  BY DEF ReconcileNotCommitted, TypeOK
<1>3. After(now, actions[k].ttl) \in Nat \cup {None}
  BY <1>1 DEF After, Action, None
<1>4. /\ row.status \in {"pending", "approved"} /\ row.request = actions[k].request
      /\ row.result = NoResult /\ row \in Action
  BY <1>1, <1>3 DEF Reopened, Action, RuntimeStatus, Decider
<1> HIDE DEF row
<1> QED BY <1>1, <1>2, <1>4, OthersKept, StoreAssumption DEF Moved, PhaseOf, ResultOf, Exists

-------------------------------------------------------------------------------
(* The invariant that relates the store, the operations and the answers.   *)

(* Only settled actions have a result.                                     *)
Unanswered == \A k \in Keys : PhaseOf(k) # "settled" => ResultOf(k) = NoResult

(* A live operation runs for the exact request its key is bound to, in an  *)
(* execution that has not been reopened; a returned call was answered.     *)
LiveInv(c) ==
  /\ Live(c) => Bound(request[c])
  /\ operation[c] = "inflight" => PhaseOf(KeyOf(request[c])) = "started"
  /\ operation[c] = "committed" => PhaseOf(KeyOf(request[c])) \in {"started", "settled"}
  /\ pc[c] = "returned" =>
       /\ Bound(request[c])
       /\ PhaseOf(KeyOf(request[c])) = "settled"
       /\ returned[c] = ResultOf(KeyOf(request[c]))

OneLive ==
  \A c, d \in Calls :
    Live(c) /\ Live(d) /\ KeyOf(request[c]) = KeyOf(request[d]) => c = d

SettledHasEffect ==
  \A k \in Keys : PhaseOf(k) = "settled" =>
    \E c \in Calls : /\ operation[c] = "committed" /\ KeyOf(request[c]) = k
                     /\ request[c] = actions[k].request

EffectInv ==
  /\ Unanswered
  /\ \A c \in Calls : LiveInv(c)
  /\ OneLive
  /\ SettledHasEffect

LEMMA EffectInit == BarrierInit => EffectInv
BY DEF BarrierInit, Init, EffectInv, Unanswered, LiveInv, Live, OneLive, SettledHasEffect,
       PhaseOf, ResultOf, Exists

LEMMA SettledExists ==
  ASSUME NEW k, PhaseOf(k) # "open" PROVE Exists(k)
BY DEF PhaseOf

(* A kept key keeps what is bound to it.                                   *)
LEMMA KeptBound ==
  ASSUME NEW r \in Requests, Bound(r), Kept(KeyOf(r))
  PROVE  /\ Bound(r)'
         /\ PhaseOf(KeyOf(r))' = PhaseOf(KeyOf(r))
         /\ ResultOf(KeyOf(r))' = ResultOf(KeyOf(r))
BY DEF Bound, Kept, Exists

(* Steps that move no key: operations may become void, a call may be given *)
(* the answer of a settled key.                                            *)
LEMMA QuietInv ==
  ASSUME CallInv, EffectInv, AllKept,
         \A c \in Calls :
           /\ \/ operation'[c] = operation[c]
              \/ operation[c] = "inflight" /\ operation'[c] = "void"
           /\ pc[c] # "idle" => request'[c] = request[c]
           /\ pc'[c] = "returned" =>
                \/ pc[c] = "returned" /\ returned'[c] = returned[c]
                \/ /\ pc[c] = "prepared" /\ Bound(request[c])
                   /\ PhaseOf(KeyOf(request[c])) = "settled"
                   /\ returned'[c] = ResultOf(KeyOf(request[c]))
  PROVE  EffectInv'
<1>1. Unanswered'
  BY DEF EffectInv, Unanswered, AllKept, Kept
<1>2. ASSUME NEW c \in Calls PROVE LiveInv(c)'
  <2>1. pc[c] # "idle" => request[c] \in Requests /\ KeyOf(request[c]) \in Keys
    BY KeyType DEF CallInv
  <2>2. operation[c] # "none" => pc[c] # "idle"
    BY DEF CallInv
  <2>3. ASSUME pc[c] # "idle", Bound(request[c])
        PROVE  /\ request'[c] = request[c] /\ Bound(request[c])'
               /\ PhaseOf(KeyOf(request[c]))' = PhaseOf(KeyOf(request[c]))
               /\ ResultOf(KeyOf(request[c]))' = ResultOf(KeyOf(request[c]))
    BY <2>1, <2>3, KeptBound DEF AllKept
  <2>4. LiveInv(c)
    BY DEF EffectInv
  <2> QED BY <2>2, <2>3, <2>4 DEF LiveInv, Live
<1>3. OneLive'
  BY DEF EffectInv, OneLive, Live, CallInv
<1>4. SettledHasEffect'
  <2> SUFFICES ASSUME NEW k \in Keys, PhaseOf(k)' = "settled"
               PROVE  \E c \in Calls : /\ operation'[c] = "committed"
                                       /\ KeyOf(request'[c]) = k
                                       /\ request'[c] = actions'[k].request
    BY DEF SettledHasEffect
  <2>1. PhaseOf(k) = "settled" /\ actions'[k].request = actions[k].request
    BY SettledExists DEF AllKept, Kept
  <2>2. PICK c \in Calls : /\ operation[c] = "committed" /\ KeyOf(request[c]) = k
                           /\ request[c] = actions[k].request
    BY <2>1 DEF EffectInv, SettledHasEffect
  <2>3. operation'[c] = "committed" /\ request'[c] = request[c]
    BY <2>2 DEF CallInv
  <2> QED BY <2>1, <2>2, <2>3
<1> QED BY <1>1, <1>2, <1>3, <1>4 DEF EffectInv

(* A moved key stays bound, and so does every key that is kept.            *)
LEMMA MovedBound ==
  ASSUME NEW k \in Keys, NEW from, NEW to, NEW result, Moved(k, from, to, result),
         NEW r \in Requests, Bound(r)
  PROVE  /\ Bound(r)'
         /\ KeyOf(r) # k => /\ PhaseOf(KeyOf(r))' = PhaseOf(KeyOf(r))
                            /\ ResultOf(KeyOf(r))' = ResultOf(KeyOf(r))
         /\ KeyOf(r) = k => PhaseOf(KeyOf(r)) = from /\ PhaseOf(KeyOf(r))' = to
BY KeyType, KeptBound DEF Moved, Bound

(* A claim starts its key, with the operation of call c launched or not.   *)
LEMMA StartInv ==
  ASSUME CallInv, EffectInv, NEW r \in Requests, Bound(r),
         Moved(KeyOf(r), "open", "started", ResultOf(KeyOf(r))),
         NEW c \in Calls, request[c] = r, pc[c] = "prepared",
         \A d \in Calls : \/ operation'[d] = operation[d]
                          \/ d = c /\ operation'[d] = "inflight",
         UNCHANGED <<request, returned>>,
         \A d \in Calls : pc'[d] = "returned" => pc[d] = "returned"
  PROVE  EffectInv'
<1>k. KeyOf(r) \in Keys /\ PhaseOf(KeyOf(r)) = "open" /\ operation[c] = "none"
  BY KeyType DEF Moved, CallInv
<1>n. ASSUME NEW d \in Calls, Live(d) PROVE KeyOf(request[d]) # KeyOf(r)
  BY <1>n, <1>k DEF EffectInv, LiveInv, Live
<1>1. Unanswered'
  <2> SUFFICES ASSUME NEW k \in Keys, PhaseOf(k)' # "settled" PROVE ResultOf(k)' = NoResult
    BY DEF Unanswered
  <2>1. CASE k = KeyOf(r)
    BY <2>1, <1>k DEF Moved, EffectInv, Unanswered
  <2>2. CASE k # KeyOf(r)
    BY <2>2 DEF Moved, Kept, EffectInv, Unanswered
  <2> QED BY <2>1, <2>2
<1>2. ASSUME NEW d \in Calls PROVE LiveInv(d)'
  <2>1. Live(d) \/ pc[d] = "returned" => request[d] \in Requests /\ Bound(request[d])
    BY DEF Live, CallInv, EffectInv, LiveInv
  <2>2. ASSUME Live(d) \/ pc[d] = "returned"
        PROVE  KeyOf(request[d]) # KeyOf(r)
    BY <2>2, <1>n, <1>k DEF EffectInv, LiveInv
  <2>3. ASSUME Live(d) \/ pc[d] = "returned"
        PROVE  /\ Bound(request[d])'
               /\ PhaseOf(KeyOf(request[d]))' = PhaseOf(KeyOf(request[d]))
               /\ ResultOf(KeyOf(request[d]))' = ResultOf(KeyOf(request[d]))
    BY <2>1, <2>2, <2>3, <1>k, MovedBound
  <2>4. Bound(request[c])' /\ PhaseOf(KeyOf(request[c]))' = "started"
    BY <1>k, MovedBound DEF Moved
  <2>5. LiveInv(d)
    BY DEF EffectInv
  <2>6. CASE operation'[d] = operation[d]
    BY <2>3, <2>5, <2>6 DEF LiveInv, Live
  <2>7. CASE d = c /\ operation'[d] = "inflight"
    BY <2>4, <2>7 DEF LiveInv, Live
  <2> QED BY <2>6, <2>7
<1>3. OneLive'
  BY <1>n DEF EffectInv, OneLive, Live
<1>4. SettledHasEffect'
  <2> SUFFICES ASSUME NEW k \in Keys, PhaseOf(k)' = "settled"
               PROVE  \E d \in Calls : /\ operation'[d] = "committed"
                                       /\ KeyOf(request'[d]) = k
                                       /\ request'[d] = actions'[k].request
    BY DEF SettledHasEffect
  <2>1. k # KeyOf(r)
    BY DEF Moved
  <2>2. PhaseOf(k) = "settled" /\ actions'[k].request = actions[k].request
    BY <2>1, SettledExists DEF Moved, Kept
  <2>3. PICK d \in Calls : /\ operation[d] = "committed" /\ KeyOf(request[d]) = k
                           /\ request[d] = actions[k].request
    BY <2>2 DEF EffectInv, SettledHasEffect
  <2>4. operation'[d] = "committed"
    BY <2>3, <1>k
  <2> QED BY <2>2, <2>3, <2>4
<1> QED BY <1>1, <1>2, <1>3, <1>4 DEF EffectInv

(* A completion or a committed reconciliation settles a key whose effect   *)
(* is there; callers may be given its result in the same step.             *)
LEMMA SettleInv ==
  ASSUME CallInv, EffectInv, NEW k \in Keys, NEW result \in Results,
         Moved(k, "started", "settled", result),
         NEW c \in Calls, operation[c] = "committed", KeyOf(request[c]) = k,
         UNCHANGED <<request, operation>>,
         \A d \in Calls : pc'[d] = "returned" =>
            \/ pc[d] = "returned" /\ returned'[d] = returned[d]
            \/ d = c /\ returned'[d] = result
  PROVE  EffectInv'
<1>c. request[c] \in Requests /\ Bound(request[c])
  BY DEF CallInv, EffectInv, LiveInv, Live
<1>n. ASSUME NEW d \in Calls, Live(d), KeyOf(request[d]) = k PROVE d = c
  BY <1>n DEF EffectInv, OneLive, Live
<1>1. Unanswered'
  BY DEF Moved, Kept, EffectInv, Unanswered
<1>2. ASSUME NEW d \in Calls PROVE LiveInv(d)'
  <2>1. Live(d) \/ pc[d] = "returned" => request[d] \in Requests /\ Bound(request[d])
    BY DEF Live, CallInv, EffectInv, LiveInv
  <2>2. LiveInv(d)
    BY DEF EffectInv
  <2>3. CASE d = c
    <3>1. Bound(request[c])' /\ PhaseOf(k)' = "settled" /\ ResultOf(k)' = result
      BY <1>c, MovedBound DEF Moved
    <3>2. pc[c] # "returned"
      BY <2>2, <2>3 DEF LiveInv, Moved
    <3> QED BY <2>3, <3>1, <3>2 DEF LiveInv, Live
  <2>4. CASE d # c
    <3>1. ASSUME Live(d) \/ pc[d] = "returned"
          PROVE  KeyOf(request[d]) # k
      BY <1>n, <2>2, <2>4, <3>1 DEF LiveInv, Moved
    <3>2. ASSUME Live(d) \/ pc[d] = "returned"
          PROVE  /\ Bound(request[d])'
                 /\ PhaseOf(KeyOf(request[d]))' = PhaseOf(KeyOf(request[d]))
                 /\ ResultOf(KeyOf(request[d]))' = ResultOf(KeyOf(request[d]))
      BY <2>1, <3>1, <3>2, MovedBound
    <3> QED BY <2>2, <2>4, <3>2 DEF LiveInv, Live
  <2> QED BY <2>3, <2>4
<1>3. OneLive'
  BY DEF EffectInv, OneLive, Live
<1>4. SettledHasEffect'
  <2> SUFFICES ASSUME NEW j \in Keys, PhaseOf(j)' = "settled"
               PROVE  \E d \in Calls : /\ operation[d] = "committed"
                                       /\ KeyOf(request[d]) = j
                                       /\ request[d] = actions'[j].request
    BY DEF SettledHasEffect
  <2>1. CASE j = k
    BY <1>c, <2>1 DEF Moved, Bound
  <2>2. CASE j # k
    BY <2>2, SettledExists DEF Moved, Kept, EffectInv, SettledHasEffect
  <2> QED BY <2>1, <2>2
<1> QED BY <1>1, <1>2, <1>3, <1>4 DEF EffectInv

(* A not-committed reconciliation reopens a key for which no operation is  *)
(* live.                                                                   *)
LEMMA ReopenInv ==
  ASSUME CallInv, EffectInv, NEW k \in Keys, Moved(k, "started", "open", NoResult),
         \A c \in Calls : Live(c) => KeyOf(request[c]) # k,
         UNCHANGED callVars
  PROVE  EffectInv'
<1>1. Unanswered'
  BY DEF Moved, Kept, EffectInv, Unanswered
<1>2. ASSUME NEW d \in Calls PROVE LiveInv(d)'
  <2>1. Live(d) \/ pc[d] = "returned" => request[d] \in Requests /\ Bound(request[d])
    BY DEF Live, CallInv, EffectInv, LiveInv
  <2>2. LiveInv(d)
    BY DEF EffectInv
  <2>3. ASSUME Live(d) \/ pc[d] = "returned"
        PROVE  KeyOf(request[d]) # k
    BY <2>2, <2>3 DEF LiveInv, Moved
  <2>5. UNCHANGED <<pc, request, operation, returned>>
    BY DEF callVars
  <2>4. ASSUME Live(d) \/ pc[d] = "returned"
        PROVE  /\ Bound(request[d])'
               /\ PhaseOf(KeyOf(request[d]))' = PhaseOf(KeyOf(request[d]))
               /\ ResultOf(KeyOf(request[d]))' = ResultOf(KeyOf(request[d]))
    BY <2>1, <2>3, <2>4, <2>5, MovedBound
  <2> QED BY <2>2, <2>4, <2>5 DEF LiveInv, Live
<1>3. OneLive'
  BY DEF EffectInv, OneLive, Live, callVars
<1>4. SettledHasEffect'
  <2> SUFFICES ASSUME NEW j \in Keys, PhaseOf(j)' = "settled"
               PROVE  \E d \in Calls : /\ operation[d] = "committed"
                                       /\ KeyOf(request[d]) = j
                                       /\ request[d] = actions'[j].request
    BY DEF SettledHasEffect, callVars
  <2> QED BY SettledExists DEF Moved, Kept, EffectInv, SettledHasEffect
<1> QED BY <1>1, <1>2, <1>3, <1>4 DEF EffectInv

LEMMA CommitInv ==
  ASSUME CallInv, EffectInv, NEW c \in Calls, Commit(c)
  PROVE  EffectInv'
<1>1. AllKept /\ UNCHANGED actions
  BY SameActionsKept DEF Commit, storeVars
<1>2. Unanswered'
  BY <1>1 DEF EffectInv, Unanswered, AllKept, Kept
<1>3. ASSUME NEW d \in Calls PROVE LiveInv(d)'
  <2>1. LiveInv(d)
    BY DEF EffectInv
  <2>2. /\ PhaseOf(KeyOf(request[d]))' = PhaseOf(KeyOf(request[d]))
        /\ ResultOf(KeyOf(request[d]))' = ResultOf(KeyOf(request[d]))
        /\ Bound(request[d])' <=> Bound(request[d])
    BY <1>1 DEF Commit, PhaseOf, ResultOf, Bound, Exists
  <2> QED BY <2>1, <2>2 DEF Commit, LiveInv, Live, CallInv, CallTypes
<1>4. OneLive'
  BY DEF Commit, EffectInv, OneLive, Live, CallInv, CallTypes
<1>5. SettledHasEffect'
  BY <1>1 DEF Commit, EffectInv, SettledHasEffect, PhaseOf, Exists, CallInv, CallTypes
<1> QED BY <1>2, <1>3, <1>4, <1>5 DEF EffectInv

-------------------------------------------------------------------------------
(* Every step keeps the invariant.                                         *)

LEMMA EnvironmentInv ==
  ASSUME TypeOK, CallInv, EffectInv, Environment
  PROVE  EffectInv'
<1>r. Readings \subseteq Nat
  BY ReadingsType
<1>u. UNCHANGED callVars /\ UNCHANGED <<pc, request, operation, returned>>
  BY DEF Environment, callVars
<1>q. ASSUME AllKept PROVE EffectInv'
  BY <1>q, <1>u, QuietInv
<1>1. CASE Tick \/ Operator
  BY <1>1, <1>q, SameActionsKept DEF Tick, Operator
<1>2. CASE Reviewer
  BY <1>2, <1>q, DecideKept DEF Reviewer
<1>3. CASE Reader
  BY <1>3, <1>q, ListActionsKept, RefreshKeyKept DEF Reader, GetAction
<1>4. CASE HonestReconciler
  <2>1. PICK k \in Keys, now \in Readings :
          \/ LaunchedFor(k) = {} /\ ReconcileNotCommitted(k, now)
          \/ TookEffect(k) /\ \E result \in Results : ReconcileCommitted(k, result, now)
    BY <1>4 DEF HonestReconciler
  <2>2. CASE LaunchedFor(k) = {} /\ ReconcileNotCommitted(k, now)
    <3>1. Moved(k, "started", "open", NoResult)
      BY <1>r, <2>2, ReconcileNotCommittedMoved
    <3>2. \A c \in Calls : Live(c) => KeyOf(request[c]) # k
      BY <2>2, CallsAssumption DEF LaunchedFor, Live, CallInv
    <3> QED BY <1>u, <3>1, <3>2, ReopenInv
  <2>3. ASSUME TookEffect(k), NEW result \in Results, ReconcileCommitted(k, result, now)
        PROVE  EffectInv'
    <3>1. Moved(k, "started", "settled", result)
      BY <2>3, ReconcileCommittedMoved
    <3>2. PICK c \in Calls : operation[c] = "committed" /\ KeyOf(request[c]) = k
      BY <2>3 DEF TookEffect, LaunchedFor
    <3> QED BY <1>u, <3>1, <3>2, SettleInv
  <2> QED BY <2>1, <2>2, <2>3
<1> QED BY <1>1, <1>2, <1>3, <1>4 DEF Environment

LEMMA CallStepEffectInv ==
  ASSUME BarrierTypeOK, CallInv, EffectInv, NEW c \in Calls, CallStep(c)
  PROVE  EffectInv'
<1>o. TypeOK
  BY DEF BarrierTypeOK
<1>r. Readings \subseteq Nat
  BY <1>o, ReadingsType
<1>s. pc[c] # "idle" => request[c] \in Requests
  BY DEF CallInv
<1>t. CallTypes /\ returned \in [Calls -> Results \cup {NoResult}]
  BY DEF CallInv, BarrierTypeOK
<1>u. ASSUME UNCHANGED storeVars PROVE AllKept
  BY <1>u, SameActionsKept DEF storeVars
<1>1. ASSUME NEW r \in Requests, NEW now \in Readings,
             Prepare(c, r, now) \/ PrepareRaises(c, r, now)
      PROVE  EffectInv'
  <2>1. AllKept
    BY <1>1, <1>r, <1>u, <1>o, SubmitKept DEF Prepare, PrepareRaises, Raises
  <2> QED BY <1>1, <1>t, <2>1, QuietInv DEF Prepare, PrepareRaises, Goto, CallTypes
<1>2. ASSUME NEW now \in Readings, ClaimStart(request[c], now), pc[c] = "prepared",
             ClaimExecute(c, now) \/ ClaimRaises(c, now)
      PROVE  EffectInv'
  <2>1. request[c] \in Requests /\ Bound(request[c])
    BY <1>2, <1>s DEF ClaimStart, Claimable
  <2>2. Moved(KeyOf(request[c]), "open", "started", ResultOf(KeyOf(request[c])))
    BY <1>r, <1>2, <2>1, <1>o, ClaimStartMoved
  <2>3. /\ UNCHANGED <<request, returned>>
        /\ \A d \in Calls : \/ operation'[d] = operation[d]
                            \/ d = c /\ operation'[d] = "inflight"
        /\ \A d \in Calls : pc'[d] = "returned" => pc[d] = "returned"
    BY <1>2, <1>t DEF ClaimExecute, ClaimRaises, Goto, CallTypes
  <2> QED BY <1>2, <2>1, <2>2, <2>3, StartInv
<1>3. ASSUME NEW now \in Readings, ClaimRaises(c, now), ~ClaimStart(request[c], now)
      PROVE  EffectInv'
  <2>1. AllKept
    BY <1>3, <1>u, SameActionsKept DEF ClaimRaises, Raises, ClaimBlocked, ClaimReplay
  <2> QED BY <1>3, <1>t, <2>1, QuietInv DEF ClaimRaises, Goto, CallTypes
<1>4. CASE ReturnReplay(c)
  <2>1. AllKept
    BY <1>4, SameActionsKept DEF ReturnReplay, ClaimReplay
  <2>2. /\ pc[c] = "prepared" /\ Bound(request[c])
        /\ PhaseOf(KeyOf(request[c])) = "settled"
        /\ returned'[c] = ResultOf(KeyOf(request[c]))
        /\ UNCHANGED <<request, operation>>
        /\ \A d \in Calls : d # c => pc'[d] = pc[d] /\ returned'[d] = returned[d]
    BY <1>4, <1>t DEF ReturnReplay, ClaimReplay, Bound, PhaseOf, ResultOf, Goto, CallTypes
  <2> QED BY <2>1, <2>2, QuietInv
<1>5. CASE Commit(c)
  BY <1>5, CommitInv
<1>6. CASE Abort(c) \/ OperationRaises(c) \/ Crash(c)
  <2>1. AllKept
    BY <1>6, <1>u DEF Abort, OperationRaises, Crash
  <2> QED BY <1>6, <1>t, <2>1, QuietInv DEF Abort, OperationRaises, Crash, Goto, CallTypes
<1>7. ASSUME NEW result \in Results, OperationReturns(c, result)
      PROVE  EffectInv'
  <2>1. AllKept
    BY <1>7, <1>u DEF OperationReturns
  <2> QED BY <1>7, <1>t, <2>1, QuietInv DEF OperationReturns, Goto, CallTypes
<1>8. ASSUME ReturnResult(c) \/ CompleteRaises(c), Complete(request[c], produced[c])
      PROVE  EffectInv'
  <2>1. /\ operation[c] = "committed" /\ produced[c] \in Results
        /\ request[c] \in Requests
    BY <1>8 DEF ReturnResult, CompleteRaises, Goto, CallInv
  <2>2. Moved(KeyOf(request[c]), "started", "settled", produced[c])
    BY <1>8, <2>1, <1>o, CompleteMoved
  <2>3. /\ UNCHANGED <<request, operation>>
        /\ \A d \in Calls : pc'[d] = "returned" =>
              \/ pc[d] = "returned" /\ returned'[d] = returned[d]
              \/ d = c /\ returned'[d] = produced[c]
    <3>1. CASE ReturnResult(c)
      BY <3>1, <1>t DEF ReturnResult, Goto, CallTypes
    <3>2. CASE CompleteRaises(c)
      BY <3>2, <1>t DEF CompleteRaises, Goto, CallTypes
    <3> QED BY <1>8, <3>1, <3>2
  <2> QED BY <2>1, <2>2, <2>3, KeyType, SettleInv
<1>9. CASE CompleteRaises(c) /\ UNCHANGED storeVars
  BY <1>9, <1>t, <1>u, QuietInv DEF CompleteRaises, Goto, CallTypes
<1>10. CASE RecordUnknown(c)
  <2>1. AllKept
    BY <1>10, <1>s, <1>u, <1>o, MarkUnknownKept DEF RecordUnknown, Raises, Goto
  <2> QED BY <1>10, <1>t, <2>1, QuietInv DEF RecordUnknown, Goto, CallTypes
<1>11. ASSUME NEW now \in Readings, ClaimExecute(c, now) \/ ClaimRaises(c, now)
       PROVE  EffectInv'
  BY <1>2, <1>3, <1>11 DEF ClaimExecute, ClaimRaises, Goto
<1>12. CASE ReturnResult(c) \/ CompleteRaises(c)
  BY <1>8, <1>9, <1>12 DEF ReturnResult, CompleteRaises, Raises
<1> QED BY <1>1, <1>4, <1>5, <1>6, <1>7, <1>10, <1>11, <1>12 DEF CallStep

LEMMA BarrierStepInv ==
  BarrierTypeOK /\ CallInv /\ EffectInv /\ [BarrierNext]_vars => EffectInv'
<1> SUFFICES ASSUME BarrierTypeOK, CallInv, EffectInv, [BarrierNext]_vars PROVE EffectInv'
  OBVIOUS
<1>o. TypeOK
  BY DEF BarrierTypeOK
<1>1. CASE UNCHANGED vars
  BY <1>1, SameActionsKept, QuietInv DEF vars, storeVars, callVars
<1> QED BY <1>o, <1>1, EnvironmentInv, CallStepEffectInv DEF BarrierNext

(* The inductive invariant holds in every reachable state.                 *)
THEOREM EffectInvariant == BarrierSpec => []EffectInv
BY EffectInit, BarrierStepInv, CallInvariant, BarrierTypes, PTL
DEF BarrierSpec

(* The protected effect of a key happens at most once, for any number of   *)
(* callers, crashes, lost answers and late workers.                        *)
THEOREM AtMostOnce == BarrierSpec => []EffectAtMostOnce
<1>1. EffectInv => EffectAtMostOnce
  BY DEF EffectInv, OneLive, Live, EffectAtMostOnce
<1> QED BY <1>1, EffectInvariant, PTL

(* The store never shows an action as open, expired or denied while its    *)
(* effect exists or is under way.                                          *)
THEOREM AlwaysFailsClosed == BarrierSpec => []FailClosed
<1>1. EffectInv => FailClosed
  BY DEF EffectInv, LiveInv, PhaseOf, FailClosed
<1> QED BY <1>1, EffectInvariant, PTL

(* A succeeded action had its effect, through its exact request.           *)
THEOREM SuccessIsReal == BarrierSpec => []SucceededTookEffect
<1>1. ASSUME BarrierTypeOK, CallInv, EffectInv PROVE SucceededTookEffect
  <2> SUFFICES ASSUME NEW k \in Keys, Exists(k), actions[k].status = "succeeded"
               PROVE  \E c \in LaunchedFor(k) :
                        operation[c] = "committed" /\ request[c] = actions[k].request
    BY DEF SucceededTookEffect
  <2>1. PhaseOf(k) = "settled"
    BY DEF PhaseOf
  <2>2. PICK c \in Calls : /\ operation[c] = "committed" /\ KeyOf(request[c]) = k
                           /\ request[c] = actions[k].request
    BY <1>1, <2>1 DEF EffectInv, SettledHasEffect
  <2>3. c \in LaunchedFor(k)
    BY <1>1, <2>2, CallsAssumption DEF CallInv, LaunchedFor
  <2> QED BY <2>2, <2>3
<1> QED BY <1>1, EffectInvariant, CallInvariant, BarrierTypes, PTL

(* All callers of a key that are given a result are given the stored one.  *)
THEOREM AllCallersAgree == BarrierSpec => []CallersAgree
<1>1. EffectInv => CallersAgree
  BY DEF EffectInv, LiveInv, PhaseOf, ResultOf, Bound, CallersAgree
<1> QED BY <1>1, EffectInvariant, PTL

-------------------------------------------------------------------------------
(* Refinement of ProtectedEffect: every step maps to a step of the promise *)
(* or to a stutter.                                                        *)

Phases == [k \in Keys |-> PhaseOf(k)]
Happened == {k \in Keys : TookEffect(k)}
Answers == [k \in Keys |-> ResultOf(k)]

PromiseStep == [Promise!Next]_(Promise!vars)

LEMMA MappedVars ==
  /\ Promise!vars = <<Phases, Happened, Answers, returned>>
  /\ Promise!vars' = <<Phases', Happened', Answers', returned'>>
BY DEF Promise!vars, Phases, Happened, Answers, ResultOf

LEMMA StutterMaps ==
  ASSUME UNCHANGED <<Phases, Happened, Answers, returned>>
  PROVE  PromiseStep
BY MappedVars DEF PromiseStep

LEMMA StartMaps ==
  ASSUME NEW k \in Keys, Phases[k] = "open", Phases' = [Phases EXCEPT ![k] = "started"],
         UNCHANGED <<Happened, Answers, returned>>
  PROVE  PromiseStep
<1>1. Promise!Start(k)
  BY DEF Promise!Start, Phases, Happened, Answers, ResultOf
<1> QED BY <1>1 DEF PromiseStep, Promise!Next

LEMMA HappenMaps ==
  ASSUME NEW k \in Keys, Phases[k] = "started", k \notin Happened,
         Happened' = Happened \cup {k}, UNCHANGED <<Phases, Answers, returned>>
  PROVE  PromiseStep
<1>1. Promise!Happen(k)
  BY DEF Promise!Happen, Phases, Happened, Answers, ResultOf
<1> QED BY <1>1 DEF PromiseStep, Promise!Next

LEMMA ReopenMaps ==
  ASSUME NEW k \in Keys, Phases[k] = "started", k \notin Happened,
         Phases' = [Phases EXCEPT ![k] = "open"], UNCHANGED <<Happened, Answers, returned>>
  PROVE  PromiseStep
<1>1. Promise!Reopen(k)
  BY DEF Promise!Reopen, Phases, Happened, Answers, ResultOf
<1> QED BY <1>1 DEF PromiseStep, Promise!Next

LEMMA SettleMaps ==
  ASSUME NEW k \in Keys, NEW result \in Results, NEW who \in SUBSET Calls,
         Phases[k] = "started", k \in Happened,
         Phases' = [Phases EXCEPT ![k] = "settled"],
         Answers' = [Answers EXCEPT ![k] = result],
         returned' = [c \in Calls |-> IF c \in who THEN result ELSE returned[c]],
         UNCHANGED Happened
  PROVE  PromiseStep
<1>1. Promise!Settle(k, result, who)
  BY DEF Promise!Settle, Phases, Happened, Answers, ResultOf
<1> QED BY <1>1 DEF PromiseStep, Promise!Next

LEMMA TellMaps ==
  ASSUME NEW k \in Keys, NEW c \in Calls, Phases[k] = "settled",
         returned' = [returned EXCEPT ![c] = Answers[k]],
         UNCHANGED <<Phases, Happened, Answers>>
  PROVE  PromiseStep
<1>1. Promise!Tell(k, c)
  BY DEF Promise!Tell, Phases, Happened, Answers, ResultOf
<1> QED BY <1>1 DEF PromiseStep, Promise!Next

LEMMA KeptMapped == AllKept => UNCHANGED <<Phases, Answers>>
BY DEF AllKept, Kept, Phases, Answers

LEMMA MovedMapped ==
  ASSUME NEW k \in Keys, NEW from, NEW to, NEW result, Moved(k, from, to, result)
  PROVE  /\ Phases[k] = from
         /\ Phases' = [Phases EXCEPT ![k] = to]
         /\ Answers' = [Answers EXCEPT ![k] = result]
BY DEF Moved, Kept, Phases, Answers

LEMMA TookEffectIff ==
  ASSUME CallInv, NEW k
  PROVE  TookEffect(k) <=>
           \E c \in Calls : operation[c] = "committed" /\ KeyOf(request[c]) = k
BY CallsAssumption DEF TookEffect, LaunchedFor, CallInv

(* Unless an operation commits, the same effects have happened.            *)
LEMMA HappenedMapped ==
  ASSUME CallInv, CallInv',
         \A c \in Calls :
           /\ operation'[c] = "committed" <=> operation[c] = "committed"
           /\ pc[c] # "idle" => request'[c] = request[c]
  PROVE  UNCHANGED Happened
<1>1. ASSUME NEW c \in Calls, operation[c] = "committed" PROVE request'[c] = request[c]
  BY <1>1 DEF CallInv
<1>2. ASSUME NEW k \in Keys PROVE TookEffect(k)' <=> TookEffect(k)
  <2>1. TookEffect(k)' <=>
          \E c \in Calls : operation'[c] = "committed" /\ KeyOf(request'[c]) = k
    BY CallsAssumption DEF TookEffect, LaunchedFor, CallInv
  <2> QED BY <1>1, <2>1, TookEffectIff
<1> QED BY <1>2 DEF Happened

LEMMA EnvironmentMaps ==
  ASSUME BarrierTypeOK, CallInv, CallInv', EffectInv, Environment
  PROVE  PromiseStep
<1>o. TypeOK
  BY DEF BarrierTypeOK
<1>r. Readings \subseteq Nat
  BY <1>o, ReadingsType
<1>u. UNCHANGED <<pc, request, operation, returned>> /\ UNCHANGED Happened
  BY HappenedMapped DEF Environment, callVars
<1>q. ASSUME AllKept PROVE PromiseStep
  BY <1>q, <1>u, KeptMapped, StutterMaps
<1>1. CASE Tick \/ Operator
  BY <1>1, <1>q, SameActionsKept DEF Tick, Operator
<1>2. CASE Reviewer
  BY <1>2, <1>q, <1>o, DecideKept DEF Reviewer
<1>3. CASE Reader
  BY <1>3, <1>q, <1>o, ListActionsKept, RefreshKeyKept DEF Reader, GetAction
<1>4. CASE HonestReconciler
  <2>1. PICK k \in Keys, now \in Readings :
          \/ LaunchedFor(k) = {} /\ ReconcileNotCommitted(k, now)
          \/ TookEffect(k) /\ \E result \in Results : ReconcileCommitted(k, result, now)
    BY <1>4 DEF HonestReconciler
  <2>2. CASE LaunchedFor(k) = {} /\ ReconcileNotCommitted(k, now)
    <3>1. Moved(k, "started", "open", NoResult)
      BY <1>r, <2>2, <1>o, ReconcileNotCommittedMoved
    <3>2. k \notin Happened
      BY <2>2 DEF Happened, TookEffect
    <3>3. Answers[k] = NoResult
      BY <3>1 DEF Moved, EffectInv, Unanswered, Answers
    <3>4. Answers' = Answers
      BY <3>1, <3>3 DEF Moved, Kept, Answers
    <3> QED BY <1>u, <3>1, <3>2, <3>4, MovedMapped, ReopenMaps
  <2>3. ASSUME TookEffect(k), NEW result \in Results, ReconcileCommitted(k, result, now)
        PROVE  PromiseStep
    <3>1. Moved(k, "started", "settled", result)
      BY <2>3, <1>o, ReconcileCommittedMoved
    <3>2. k \in Happened
      BY <2>3 DEF Happened
    <3>3. returned' = [c \in Calls |-> IF c \in {} THEN result ELSE returned[c]]
      BY <1>u DEF BarrierTypeOK
    <3>4. /\ Phases[k] = "started"
          /\ Phases' = [Phases EXCEPT ![k] = "settled"]
          /\ Answers' = [Answers EXCEPT ![k] = result]
      BY <3>1, MovedMapped
    <3>5. PICK who \in SUBSET Calls :
            returned' = [c \in Calls |-> IF c \in who THEN result ELSE returned[c]]
      <4>1. {} \in SUBSET Calls
        OBVIOUS
      <4> QED BY <3>3, <4>1
    <3> QED BY <1>u, <3>2, <3>4, <3>5, SettleMaps
  <2> QED BY <2>1, <2>2, <2>3
<1> QED BY <1>1, <1>2, <1>3, <1>4 DEF Environment

LEMMA CallStepMaps ==
  ASSUME BarrierTypeOK, CallInv, CallInv', EffectInv, NEW c \in Calls, CallStep(c)
  PROVE  PromiseStep
<1>o. TypeOK /\ returned \in [Calls -> Results \cup {NoResult}]
  BY DEF BarrierTypeOK
<1>r. Readings \subseteq Nat
  BY <1>o, ReadingsType
<1>s. pc[c] # "idle" => request[c] \in Requests /\ KeyOf(request[c]) \in Keys
  BY KeyType DEF CallInv
<1>t. CallTypes
  BY DEF CallInv
<1>u. ASSUME UNCHANGED storeVars PROVE AllKept
  BY <1>u, SameActionsKept DEF storeVars
<1>q. ASSUME AllKept, UNCHANGED <<Happened, returned>> PROVE PromiseStep
  BY <1>q, KeptMapped, StutterMaps
<1>1. ASSUME NEW r \in Requests, NEW now \in Readings,
             Prepare(c, r, now) \/ PrepareRaises(c, r, now)
      PROVE  PromiseStep
  <2>1. AllKept
    BY <1>1, <1>r, <1>u, <1>o, SubmitKept DEF Prepare, PrepareRaises, Raises
  <2>2. UNCHANGED Happened
    BY <1>1, <1>t, HappenedMapped DEF Prepare, PrepareRaises, Goto, CallTypes
  <2> QED BY <1>1, <1>q, <2>1, <2>2 DEF Prepare, PrepareRaises
<1>2. ASSUME NEW now \in Readings, ClaimExecute(c, now) \/ ClaimRaises(c, now)
      PROVE  PromiseStep
  <2>1. pc[c] = "prepared" /\ operation[c] = "none" /\ UNCHANGED <<request, returned>>
    BY <1>2 DEF ClaimExecute, ClaimRaises, Goto, CallInv
  <2>2. UNCHANGED Happened
    BY <1>2, <1>t, <2>1, HappenedMapped DEF ClaimExecute, ClaimRaises, CallTypes
  <2>3. CASE ClaimStart(request[c], now)
    <3>1. Moved(KeyOf(request[c]), "open", "started", ResultOf(KeyOf(request[c])))
      BY <1>o, <1>r, <1>s, <2>1, <2>3, ClaimStartMoved
    <3>2. UNCHANGED Answers
      BY <2>1, <3>1 DEF Moved, Kept, Answers
    <3> QED BY <1>s, <2>1, <2>2, <3>1, <3>2, MovedMapped, StartMaps
  <2>4. CASE ~ClaimStart(request[c], now)
    <3>1. AllKept
      BY <1>2, <1>u, <2>4, SameActionsKept
      DEF ClaimExecute, ClaimRaises, Raises, ClaimBlocked, ClaimReplay
    <3> QED BY <1>q, <2>1, <2>2, <3>1
  <2> QED BY <2>3, <2>4
<1>3. CASE ReturnReplay(c)
  <2>1. AllKept /\ UNCHANGED Happened
    BY <1>3, SameActionsKept, HappenedMapped DEF ReturnReplay, ClaimReplay
  <2>2. /\ KeyOf(request[c]) \in Keys
        /\ Phases[KeyOf(request[c])] = "settled"
        /\ returned' = [returned EXCEPT ![c] = Answers[KeyOf(request[c])]]
    BY <1>3, <1>s DEF ReturnReplay, ClaimReplay, Bound, Phases, Answers, PhaseOf, ResultOf, Goto
  <2> QED BY <2>1, <2>2, KeptMapped, TellMaps
<1>4. CASE Commit(c)
  <2> DEFINE k == KeyOf(request[c])
  <2>1. k \in Keys
    BY <1>4, <1>s DEF Commit, CallInv
  <2>2. UNCHANGED <<Phases, Answers, returned>>
    BY <1>4, <1>u, KeptMapped DEF Commit
  <2>3. Phases[k] = "started"
    BY <1>4, <2>1 DEF Commit, EffectInv, LiveInv, Phases
  <2>4. k \notin Happened
    BY <1>4, TookEffectIff DEF Commit, Happened, EffectInv, OneLive, Live
  <2>5. ASSUME NEW j \in Keys PROVE TookEffect(j)' <=> TookEffect(j) \/ j = k
    <3>1. TookEffect(j)' <=>
            \E d \in Calls : operation'[d] = "committed" /\ KeyOf(request'[d]) = j
      BY CallsAssumption DEF TookEffect, LaunchedFor, CallInv
    <3>2. /\ request' = request /\ operation'[c] = "committed"
          /\ \A d \in Calls : d # c => operation'[d] = operation[d]
      BY <1>4, <1>t DEF Commit, CallTypes
    <3>3. operation[c] # "committed"
      BY <1>4 DEF Commit
    <3> QED BY <3>1, <3>2, <3>3, TookEffectIff
  <2>6. Happened' = Happened \cup {k}
    BY <2>1, <2>5 DEF Happened
  <2> HIDE DEF k
  <2> QED BY <2>1, <2>2, <2>3, <2>4, <2>6, HappenMaps
<1>5. CASE Abort(c) \/ OperationRaises(c) \/ Crash(c)
  <2>1. AllKept /\ UNCHANGED <<request, returned>>
    BY <1>5, <1>u DEF Abort, OperationRaises, Crash
  <2>2. UNCHANGED Happened
    BY <1>5, <1>t, <2>1, HappenedMapped DEF Abort, OperationRaises, Crash, CallTypes
  <2> QED BY <1>q, <2>1, <2>2
<1>6. ASSUME NEW result \in Results, OperationReturns(c, result)
      PROVE  PromiseStep
  <2>1. AllKept /\ UNCHANGED <<Happened, returned>>
    BY <1>6, <1>u, HappenedMapped DEF OperationReturns
  <2> QED BY <1>q, <2>1
<1>7. CASE ReturnResult(c) \/ CompleteRaises(c)
  <2>1. /\ operation[c] = "committed" /\ produced[c] \in Results
        /\ request[c] \in Requests /\ KeyOf(request[c]) \in Keys
    BY <1>7, <1>s DEF ReturnResult, CompleteRaises, Goto, CallInv
  <2>2. UNCHANGED Happened
    BY <1>7, HappenedMapped DEF ReturnResult, CompleteRaises
  <2>3. CASE Complete(request[c], produced[c])
    <3>1. Moved(KeyOf(request[c]), "started", "settled", produced[c])
      BY <1>o, <2>1, <2>3, CompleteMoved
    <3>2. KeyOf(request[c]) \in Happened
      BY <2>1, TookEffectIff DEF Happened
    <3>3. PICK who \in SUBSET Calls :
            returned' = [d \in Calls |-> IF d \in who THEN produced[c] ELSE returned[d]]
      <4>1. CASE ReturnResult(c)
        <5>1. returned' = [d \in Calls |-> IF d \in {c} THEN produced[c] ELSE returned[d]]
          BY <1>o, <4>1 DEF ReturnResult
        <5> QED BY <5>1
      <4>2. CASE CompleteRaises(c)
        <5>1. returned' = [d \in Calls |-> IF d \in {} THEN produced[c] ELSE returned[d]]
          BY <1>o, <4>2 DEF CompleteRaises
        <5>2. {} \in SUBSET Calls
          OBVIOUS
        <5> QED BY <5>1, <5>2
      <4> QED BY <1>7, <4>1, <4>2
    <3> QED BY <2>1, <2>2, <3>1, <3>2, <3>3, MovedMapped, SettleMaps
  <2>4. CASE CompleteRaises(c) /\ UNCHANGED storeVars
    BY <2>2, <2>4, <1>u, <1>q DEF CompleteRaises
  <2> QED BY <1>7, <2>3, <2>4 DEF ReturnResult, CompleteRaises, Raises
<1>8. CASE RecordUnknown(c)
  <2>1. AllKept
    BY <1>8, <1>o, <1>s, <1>u, MarkUnknownKept DEF RecordUnknown, Raises, Goto
  <2>2. UNCHANGED <<Happened, returned>>
    BY <1>8, HappenedMapped DEF RecordUnknown
  <2> QED BY <1>q, <2>1, <2>2
<1> QED BY <1>1, <1>2, <1>3, <1>4, <1>5, <1>6, <1>7, <1>8 DEF CallStep

(* execute over the store implements ProtectedEffect.                      *)
THEOREM BarrierKeepsPromise == BarrierSpec => KeepsPromise
<1>1. BarrierInit => Promise!Init
  BY DEF BarrierInit, Init, Promise!Init, PhaseOf, Exists, TookEffect, LaunchedFor
<1>2. BarrierTypeOK /\ CallInv /\ CallInv' /\ EffectInv /\ [BarrierNext]_vars
        => [Promise!Next]_(Promise!vars)
  <2> SUFFICES ASSUME BarrierTypeOK, CallInv, CallInv', EffectInv, [BarrierNext]_vars
               PROVE  PromiseStep
    BY DEF PromiseStep
  <2>1. CASE UNCHANGED vars
    <3>1. AllKept /\ UNCHANGED <<pc, request, operation, returned>>
      BY <2>1, SameActionsKept DEF vars, storeVars, callVars
    <3> QED BY <3>1, KeptMapped, HappenedMapped, StutterMaps
  <2> QED BY <2>1, EnvironmentMaps, CallStepMaps DEF BarrierNext
<1> QED BY <1>1, <1>2, BarrierTypes, CallInvariant, EffectInvariant, PTL
        DEF BarrierSpec, KeepsPromise, Promise!Spec
===============================================================================
