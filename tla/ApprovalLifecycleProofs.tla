------------------------ MODULE ApprovalLifecycleProofs ------------------------
(***************************************************************************)
(* Machine-checked facts about the operations of ApprovalLifecycle that    *)
(* the proofs about the reviewers' services rest on.                       *)
(***************************************************************************)
EXTENDS ApprovalLifecycle, TLAPS

(* Only what may still lapse has a lifetime that can be over.              *)
DueInv ==
  \A a \in Actions : runtime[a].due => runtime[a].status \in {"pending", "approved"}

LifecycleInv == LifecycleTypeOK /\ DueInv

(* What the services see of the actions.                                   *)
Requested == [a \in Actions |-> runtime[a].request]
Statuses == [a \in Actions |-> runtime[a].status]
Deciders == [a \in Actions |-> runtime[a].by]

(* Action a moves, and nothing else does.                                  *)
Moved(a, to, by) ==
  /\ Requested' = Requested
  /\ Statuses' = [Statuses EXCEPT ![a] = to]
  /\ Deciders' = [Deciders EXCEPT ![a] = by]

LEMMA LifecycleStart ==
  ASSUME LifecycleInit
  PROVE  LifecycleInv
<1> DEFINE First == [status : {"absent"}, request : Requests, due : {FALSE}, by : {NoOne}]
           Row == [status : Status, request : Requests, due : BOOLEAN,
                   by : Authorization \cup {NoOne}]
<1>1. runtime \in [Actions -> First] /\ reopens = 0
  BY DEF LifecycleInit
<1>2. First \subseteq Row
  BY DEF Status
<1>3. runtime \in [Actions -> Row]
  <2> HIDE DEF First, Row
  <2> QED BY <1>1, <1>2
<1>4. reopens \in 0..MaxReopens
  <2>1. MaxReopens \in Nat
    BY LifecycleAssumption
  <2> QED BY <1>1, <2>1
<1>5. DueInv
  BY <1>1 DEF DueInv
<1> QED BY <1>3, <1>4, <1>5 DEF LifecycleInv, LifecycleTypeOK

LEMMA LifecycleSame ==
  ASSUME LifecycleInv, UNCHANGED lifecycleVars
  PROVE  /\ LifecycleInv'
         /\ Requested' = Requested /\ Statuses' = Statuses /\ Deciders' = Deciders
BY DEF LifecycleInv, LifecycleTypeOK, DueInv, lifecycleVars, Requested, Statuses, Deciders

LEMMA BecomeKeeps ==
  ASSUME LifecycleInv, NEW a \in Actions, NEW from, NEW to \in Status, Become(a, from, to)
  PROVE  LifecycleInv' /\ Moved(a, to, runtime[a].by) /\ runtime[a].status \in from
<1>1. LifecycleTypeOK'
  BY DEF Become, LifecycleInv, LifecycleTypeOK
<1>2. DueInv'
  BY DEF Become, Fresh, LifecycleInv, LifecycleTypeOK, DueInv
<1>3. Moved(a, to, runtime[a].by)
  BY DEF Become, LifecycleInv, LifecycleTypeOK, Moved, Requested, Statuses, Deciders
<1> QED BY <1>1, <1>2, <1>3 DEF LifecycleInv, Become

LEMMA SubmitKeeps ==
  ASSUME LifecycleInv, NEW a \in Actions, Submit(a)
  PROVE  LifecycleInv' /\ Moved(a, "pending", runtime[a].by) /\ runtime[a].status = "absent"
BY BecomeKeeps DEF Submit, Status

LEMMA UseKeeps ==
  ASSUME LifecycleInv, NEW a \in Actions, Use(a)
  PROVE  LifecycleInv' /\ Moved(a, "used", runtime[a].by) /\ runtime[a].status = "approved"
BY BecomeKeeps DEF Use, Status

LEMMA LapseAtOnceKeeps ==
  ASSUME LifecycleInv, NEW a \in Actions, LapseAtOnce(a)
  PROVE  /\ LifecycleInv' /\ Moved(a, "expired", runtime[a].by)
         /\ runtime[a].status \in {"pending", "approved"}
BY BecomeKeeps DEF LapseAtOnce, Status

LEMMA ExpireKeeps ==
  ASSUME LifecycleInv, NEW a \in Actions, Expire(a)
  PROVE  /\ LifecycleInv' /\ Moved(a, "expired", runtime[a].by)
         /\ runtime[a].status \in {"pending", "approved"}
<1>1. LifecycleTypeOK'
  <2>1. runtime' = [runtime EXCEPT ![a].status = "expired", ![a].due = FALSE]
    BY DEF Expire
  <2>2. "expired" \in Status
    BY DEF Status
  <2>3. runtime' \in [Actions -> [status : Status, request : Requests, due : BOOLEAN,
                                  by : Authorization \cup {NoOne}]]
    BY <2>1, <2>2 DEF LifecycleInv, LifecycleTypeOK
  <2> QED BY <2>3 DEF Expire, LifecycleInv, LifecycleTypeOK
<1>2. DueInv'
  BY DEF Expire, LifecycleInv, LifecycleTypeOK, DueInv
<1>3. Moved(a, "expired", runtime[a].by)
  BY DEF Expire, LifecycleInv, LifecycleTypeOK, Moved, Requested, Statuses, Deciders
<1>4. runtime[a].status \in {"pending", "approved"}
  BY DEF Expire, Fresh, LifecycleInv, DueInv
<1> QED BY <1>1, <1>2, <1>3, <1>4 DEF LifecycleInv

LEMMA LifetimeEndsKeeps ==
  ASSUME LifecycleInv, NEW a \in Actions, LifetimeEnds(a)
  PROVE  /\ LifecycleInv'
         /\ Requested' = Requested /\ Statuses' = Statuses /\ Deciders' = Deciders
<1>1. LifecycleTypeOK'
  BY DEF LifetimeEnds, LifecycleInv, LifecycleTypeOK
<1>2. DueInv'
  BY DEF LifetimeEnds, LifecycleInv, LifecycleTypeOK, DueInv
<1>3. Requested' = Requested /\ Statuses' = Statuses /\ Deciders' = Deciders
  BY DEF LifetimeEnds, LifecycleInv, LifecycleTypeOK, Requested, Statuses, Deciders
<1> QED BY <1>1, <1>2, <1>3 DEF LifecycleInv

LEMMA ReopenKeeps ==
  ASSUME LifecycleInv, NEW a \in Actions, Reopen(a)
  PROVE  LifecycleInv' /\ Moved(a, "pending", NoOne) /\ runtime[a].status = "used"
<1>1. LifecycleTypeOK'
  <2>1. reopens' \in 0..MaxReopens
    <3>1. MaxReopens \in Nat
      BY LifecycleAssumption
    <3> QED BY <3>1 DEF Reopen, LifecycleInv, LifecycleTypeOK
  <2>2. runtime' \in [Actions -> [status : Status, request : Requests, due : BOOLEAN,
                                  by : Authorization \cup {NoOne}]]
    <3>1. runtime' = [runtime EXCEPT ![a].status = "pending", ![a].by = NoOne]
      BY DEF Reopen
    <3>2. "pending" \in Status
      BY DEF Status
    <3> QED BY <3>1, <3>2 DEF LifecycleInv, LifecycleTypeOK
  <2> QED BY <2>1, <2>2 DEF LifecycleTypeOK
<1>2. DueInv'
  BY DEF Reopen, LifecycleInv, LifecycleTypeOK, DueInv
<1>3. Moved(a, "pending", NoOne)
  BY DEF Reopen, LifecycleInv, LifecycleTypeOK, Moved, Requested, Statuses, Deciders
<1> QED BY <1>1, <1>2, <1>3 DEF LifecycleInv, Reopen

LEMMA TargetType ==
  ASSUME NEW decision \in Decision
  PROVE  /\ Target[decision] \in {"approved", "rejected"}
         /\ Target[decision] = "approved" <=> decision = "approve"
BY DEF Target, Decision

LEMMA DecideKeeps ==
  ASSUME LifecycleInv, NEW a \in Actions, NEW decision \in Decision,
         NEW auth \in Authorization, Decide(a, decision, auth)
  PROVE  /\ LifecycleInv' /\ Moved(a, Target[decision], auth)
         /\ runtime[a].status = "pending"
<1>1. LifecycleTypeOK'
  <2>1. runtime' = [runtime EXCEPT ![a].status = Target[decision], ![a].by = auth]
    BY DEF Decide
  <2>2. Target[decision] \in Status
    BY TargetType DEF Status
  <2>3. runtime' \in [Actions -> [status : Status, request : Requests, due : BOOLEAN,
                                  by : Authorization \cup {NoOne}]]
    BY <2>1, <2>2 DEF LifecycleInv, LifecycleTypeOK
  <2> QED BY <2>3 DEF Decide, LifecycleInv, LifecycleTypeOK
<1>2. DueInv'
  BY DEF Decide, Open, Fresh, LifecycleInv, LifecycleTypeOK, DueInv
<1>3. Moved(a, Target[decision], auth)
  BY DEF Decide, LifecycleInv, LifecycleTypeOK, Moved, Requested, Statuses, Deciders
<1> QED BY <1>1, <1>2, <1>3 DEF LifecycleInv, Decide, Open

(* Whom decide lets decide for an organization may take the decision.      *)
LEMMA DecidedMay ==
  ASSUME LifecycleInv, NEW a \in Actions, NEW decision \in Decision,
         NEW auth \in Authorization, ~Forbidden(a, decision, auth),
         auth.organization = "" => decision \in auth.decisions
  PROVE  /\ runtime[a].request \in Requests
         /\ May(runtime[a].request, decision, auth)
<1>1. runtime[a].request \in Requests
  BY DEF LifecycleInv, LifecycleTypeOK
<1>2. decision \in auth.decisions
  BY DEF Forbidden
<1>3. ASSUME auth.organization # ""
      PROVE  /\ auth.organization = runtime[a].request.organization
             /\ runtime[a].request.namespace \in auth.namespaces
             /\ ~(auth.separate /\ auth.subject = runtime[a].request.requester)
  <2>1. auth.subject # NoRequester
    BY LifecycleAssumption DEF Authorization
  <2> QED BY <1>3, <2>1 DEF Forbidden, OwnRequest
<1> QED BY <1>1, <1>2, <1>3 DEF May

(* What a move of the lifecycle does to the row of one action.             *)
LifecycleMoved(a) ==
  \/ Moved(a, "pending", runtime[a].by) /\ runtime[a].status = "absent"
  \/ Moved(a, "expired", runtime[a].by) /\ runtime[a].status \in {"pending", "approved"}
  \/ Moved(a, "used", runtime[a].by) /\ runtime[a].status = "approved"
  \/ Moved(a, "pending", NoOne) /\ runtime[a].status = "used"
  \/ Requested' = Requested /\ Statuses' = Statuses /\ Deciders' = Deciders

LEMMA LifecycleKeeps ==
  ASSUME LifecycleInv, Lifecycle
  PROVE  LifecycleInv' /\ \E a \in Actions : LifecycleMoved(a)
<1>1. PICK a \in Actions : Submit(a) \/ LifetimeEnds(a) \/ Expire(a) \/ Use(a) \/ Reopen(a)
  BY DEF Lifecycle
<1>2. LifecycleInv' /\ LifecycleMoved(a)
  <2>1. CASE Submit(a)
    BY <2>1, SubmitKeeps DEF LifecycleMoved
  <2>2. CASE LifetimeEnds(a)
    BY <2>2, LifetimeEndsKeeps DEF LifecycleMoved
  <2>3. CASE Expire(a)
    BY <2>3, ExpireKeeps DEF LifecycleMoved
  <2>4. CASE Use(a)
    BY <2>4, UseKeeps DEF LifecycleMoved
  <2>5. CASE Reopen(a)
    BY <2>5, ReopenKeeps DEF LifecycleMoved
  <2> QED BY <1>1, <2>1, <2>2, <2>3, <2>4, <2>5
<1> QED BY <1>2

(* What a move means for one row.                                          *)
LEMMA MovedRow ==
  ASSUME NEW a \in Actions, NEW to, NEW by, Moved(a, to, by), NEW b \in Actions
  PROVE  /\ runtime'[b].request = runtime[b].request
         /\ runtime'[b].status = IF b = a THEN to ELSE runtime[b].status
         /\ runtime'[b].by = IF b = a THEN by ELSE runtime[b].by
<1>1. Requested'[b] = Requested[b]
  BY DEF Moved
<1>2. Statuses'[b] = IF b = a THEN to ELSE runtime[b].status
  BY DEF Moved, Statuses
<1>3. Deciders'[b] = IF b = a THEN by ELSE runtime[b].by
  BY DEF Moved, Deciders
<1> QED BY <1>1, <1>2, <1>3 DEF Requested, Statuses, Deciders

LEMMA SameRow ==
  ASSUME Requested' = Requested, Statuses' = Statuses, Deciders' = Deciders, NEW b \in Actions
  PROVE  /\ runtime'[b].request = runtime[b].request
         /\ runtime'[b].status = runtime[b].status
         /\ runtime'[b].by = runtime[b].by
<1>1. Requested'[b] = Requested[b] /\ Statuses'[b] = Statuses[b] /\ Deciders'[b] = Deciders[b]
  OBVIOUS
<1> QED BY <1>1 DEF Requested, Statuses, Deciders
================================================================================
