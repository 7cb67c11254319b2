-------------------------- MODULE RuntimeAuditProofs --------------------------
(***************************************************************************)
(* Machine-checked facts about what RuntimeStore keeps beside the rows:    *)
(* the windows and the sums of limit capacity, the operator audit trail    *)
(* and the receipt chain, for every value of the constants.                *)
(***************************************************************************)
EXTENDS RuntimeStoreProofs, WellFoundedInduction

(* Only operators change pauses, limits and their audit trail.             *)
LEMMA OperatorUnchanged ==
  ASSUME [Next]_storeVars, ~Operator
  PROVE  UNCHANGED operatorVars
<1>1. CASE Tick \/ UNCHANGED storeVars
  BY <1>1 DEF Tick, storeVars, controlVars, operatorVars
<1>2. CASE Reviewer \/ Reader
  BY <1>2
  DEF Reviewer, Decide, Reader, ListActions, GetAction, RefreshKey, controlVars, operatorVars
<1>3. CASE Worker
  <2> SUFFICES ASSUME NEW r \in Requests, NEW now \in Readings,
                      \/ Submit(r, now) \/ Claim(r, now) \/ MarkUnknown(r)
                      \/ \E result \in Results : Complete(r, result)
               PROVE  UNCHANGED operatorVars
    BY <1>3 DEF Worker
  <2>1. CASE Submit(r, now)
    BY <2>1 DEF Submit, SubmitExisting, SubmitNew, RefreshKey, controlVars, operatorVars
  <2>2. CASE Claim(r, now)
    BY <2>2 DEF Claim, ClaimReplay, ClaimStart, ClaimBlocked, controlVars, operatorVars
  <2>3. CASE \E result \in Results : Complete(r, result)
    BY <2>3 DEF Complete, controlVars, operatorVars
  <2>4. CASE MarkUnknown(r)
    BY <2>4 DEF MarkUnknown, controlVars, operatorVars
  <2> QED BY <2>1, <2>2, <2>3, <2>4
<1>4. CASE Reconciler
  BY <1>4
  DEF Reconciler, ReconcileCommitted, ReconcileNotCommitted, controlVars, operatorVars
<1> QED BY <1>1, <1>2, <1>3, <1>4 DEF Next

(* How one step may change the limits: it keeps every limit that is there, *)
(* with its window.                                                        *)
LEMMA LimitsKept ==
  ASSUME TypeOK, [Next]_storeVars, NEW l \in LimitIds, limits[l] # NoLimit
  PROVE  limits'[l] # NoLimit /\ limits'[l].setting.window = limits[l].setting.window
<1>t. limits \in [LimitIds -> Limit \cup {NoLimit}]
  BY DEF TypeOK, ControlsTypeOK
<1>1. CASE UNCHANGED limits
  BY <1>1
<1>2. ASSUME NEW m \in LimitIds, DisableLimit(m)
      PROVE  limits'[l] # NoLimit /\ limits'[l].setting.window = limits[l].setting.window
  <2>1. CASE l = m
    <3>1. limits'[l] = [setting |-> limits[l].setting, enabled |-> FALSE]
      BY <1>2, <1>t, <2>1 DEF DisableLimit
    <3>2. limits'[l] \in Limit
      BY <1>t, <3>1 DEF Limit
    <3>3. limits'[l] # NoLimit
      BY <3>2, LimitAssumption
    <3> QED BY <3>1, <3>3
  <2>2. CASE l # m
    BY <1>2, <1>t, <2>2 DEF DisableLimit
  <2> QED BY <2>1, <2>2
<1>3. ASSUME NEW m \in LimitIds, NEW setting \in LimitSettings, ConfigureLimit(m, setting)
      PROVE  limits'[l] # NoLimit /\ limits'[l].setting.window = limits[l].setting.window
  <2>1. CASE l = m
    <3>1. limits'[l] = [setting |-> setting, enabled |-> TRUE]
      BY <1>3, <1>t, <2>1 DEF ConfigureLimit
    <3>2. limits'[l] \in Limit
      BY <3>1, ControlsAssumption DEF Limit
    <3>3. setting.window = limits[l].setting.window
      BY <1>3, <2>1 DEF ConfigureLimit, SameIdentity
    <3>4. limits'[l] # NoLimit
      BY <3>2, LimitAssumption
    <3> QED BY <3>1, <3>3, <3>4
  <2>2. CASE l # m
    BY <1>3, <1>t, <2>2 DEF ConfigureLimit
  <2> QED BY <2>1, <2>2
<1>4. CASE Operator
  BY <1>1, <1>2, <1>3, <1>4 DEF Operator, OperatorStep, SetPause, ClearPause
<1>5. CASE ~Operator
  BY <1>1, <1>5, OperatorUnchanged DEF operatorVars
<1> QED BY <1>4, <1>5

-------------------------------------------------------------------------------
(* Windows.  What HeldInItsWindow needs beside itself: what is held is     *)
(* never negative, so a positive sum had a positive part.                  *)

LEMMA WindowAligned ==
  ASSUME NEW now \in Nat, NEW window \in Nat \ {0}
  PROVE  (now - (now % window)) % window = 0
<1>1. now = (window * (now \div window)) + (now % window) /\ now \div window \in Nat
  OBVIOUS
<1>2. now % window \in Nat
  OBVIOUS
<1>3. now - (now % window) = window * (now \div window)
  BY <1>1, <1>2
<1>4. ASSUME NEW q \in Nat PROVE (window * q) % window = 0
  OBVIOUS
<1> QED BY <1>1, <1>3, <1>4

LEMMA LimitWindow ==
  ASSUME TypeOK, NEW l \in LimitIds, limits[l] # NoLimit
  PROVE  limits[l].setting.window \in Nat \ {0}
BY DEF TypeOK, ControlsTypeOK, Limit, LimitSetting

(* What a claim reserves is reserved in the window of its clock reading.   *)
LEMMA ReservedInWindow ==
  ASSUME TypeOK, NEW r \in Requests, NEW now \in Nat, NEW l \in LimitIds, NEW w \in Windows,
         ReservationFor(r, now)[<<l, w>>].actions # 0
  PROVE  limits[l] # NoLimit /\ w % limits[l].setting.window = 0
<1>1. <<l, w>> \in LimitWindows
  BY DEF LimitWindows
<1>2. l \in MatchingLimits(r) /\ w = WindowStart(l, now)
  BY <1>1 DEF ReservationFor
<1>3. limits[l] # NoLimit
  BY <1>2 DEF MatchingLimits
<1>4. limits[l].setting.window \in Nat \ {0}
  BY <1>3, LimitWindow
<1> QED BY <1>2, <1>3, <1>4, WindowAligned DEF WindowStart

LEMMA HeldInItsWindowStep ==
  TypeOK /\ HeldNatural /\ HeldInItsWindow /\ [Next]_storeVars => HeldInItsWindow'
<1> SUFFICES ASSUME TypeOK, HeldNatural, HeldInItsWindow, [Next]_storeVars,
                    NEW k \in Keys, NEW l \in LimitIds, NEW w \in Windows,
                    held'[k][<<l, w>>].actions > 0
             PROVE  limits'[l] # NoLimit /\ w % limits'[l].setting.window = 0
  BY DEF HeldInItsWindow
<1>t. held \in [Keys -> [LimitWindows -> Capacity]] /\ <<l, w>> \in LimitWindows
  BY DEF TypeOK, ControlsTypeOK, LimitWindows
<1>h. held[k][<<l, w>>].actions \in Nat
  BY <1>t DEF HeldNatural
<1>1. CASE held[k][<<l, w>>].actions > 0
  <2>1. limits[l] # NoLimit /\ w % limits[l].setting.window = 0
    BY <1>1 DEF HeldInItsWindow
  <2> QED BY <2>1, LimitsKept
<1>2. CASE held[k][<<l, w>>].actions = 0
  <2>1. ASSUME NEW j \in Keys, Release(j) PROVE FALSE
    BY <1>2, <1>t, <2>1 DEF Release, NoCapacity
  <2>2. PICK now \in Readings, r \in Requests : ClaimStart(r, now)
    BY <1>2, <2>1, CapacityStep
  <2>3. k = KeyOf(r)
    BY <1>2, <1>t, <2>2 DEF ClaimStart, Reserve
  <2>4. held'[k][<<l, w>>].actions
          = held[k][<<l, w>>].actions + ReservationFor(r, now)[<<l, w>>].actions
    BY <1>t, <2>2, <2>3 DEF ClaimStart, Reserve, Plus
  <2>5. ReservationFor(r, now)[<<l, w>>].actions # 0
    BY <1>2, <2>4
  <2>6. now \in Nat
    BY ReadingsType
  <2>7. limits[l] # NoLimit /\ w % limits[l].setting.window = 0
    BY <2>5, <2>6, ReservedInWindow
  <2> QED BY <2>7, LimitsKept
<1> QED BY <1>1, <1>2, <1>h

LEMMA HeldInItsWindowInit == Init => HeldInItsWindow
BY DEF Init, ControlsInit, HeldInItsWindow, NoCapacity, LimitWindows

(* Every reservation stays in a window of its limit, whatever operators do *)
(* to the limit afterwards: reconfiguring a limit never moves its windows, *)
(* and disabling one keeps its row.                                        *)
THEOREM ReservationsStayInWindows == Spec => []HeldInItsWindow
BY StoreTypes, HeldInit, HeldStep, HeldInItsWindowInit, HeldInItsWindowStep, PTL DEF Spec

-------------------------------------------------------------------------------
(* The operator audit trail.                                               *)

(* Non-empty sets of numbers have a least element, bounded ones a greatest. *)
LEMMA Least ==
  ASSUME NEW T \in SUBSET Nat, T # {}
  PROVE  \E x \in T : \A y \in T : x <= y
<1>1. IsWellFoundedOn(OpToRel(<, Nat), Nat)
  BY NatLessThanWellFounded
<1>2. PICK x \in T : \A y \in T : ~(<<y, x>> \in OpToRel(<, Nat))
  BY <1>1, WFMin
<1>3. \A y \in T : ~(y < x)
  BY <1>2 DEF OpToRel
<1> QED BY <1>3

LEMMA Greatest ==
  ASSUME NEW n \in Nat, NEW S \in SUBSET (1..n), S # {}
  PROVE  Max(S) \in S /\ \A y \in S : y <= Max(S)
<1> DEFINE Bounds == {m \in Nat : \A y \in S : y <= m}
<1>1. n \in Bounds
  OBVIOUS
<1>2. PICK m \in Bounds : \A k \in Bounds : m <= k
  BY <1>1, Least
<1>3. m \in S
  <2> SUFFICES ASSUME m \notin S PROVE FALSE
    OBVIOUS
  <2>1. \A y \in S : y \in Nat /\ y <= m - 1 /\ y >= 1
    BY <1>2
  <2>2. m - 1 \in Nat
    <3>1. PICK y : y \in S
      OBVIOUS
    <3>2. y \in Nat /\ y <= m - 1 /\ y >= 1 /\ m \in Nat
      BY <1>2, <2>1, <3>1
    <3> QED BY <3>2
  <2>3. m - 1 \in Bounds
    BY <2>1, <2>2
  <2>4. m <= m - 1
    BY <1>2, <2>3
  <2> QED BY <1>2, <2>4
<1>4. \A y \in S : m >= y
  BY <1>2
<1>5. Max(S) \in S /\ \A y \in S : Max(S) >= y
  BY <1>3, <1>4 DEF Max
<1> QED BY <1>5

PauseEvents == {"emergency_pause_set", "emergency_pause_cleared"}
LimitEvents == {"limit_configured", "limit_disabled"}

Latest(events, subject) == LatestEvent(ControlTrail(events, subject))

(* The receipt an operator's change appends is the latest of its subject,  *)
(* and leaves the latest of every other subject alone.                     *)
LEMMA LatestAfter ==
  ASSUME TypeOK, NEW event, NEW subject, RecordControl(event, subject),
         NEW events, NEW other
  PROVE  Latest(events, other)' = IF event \in events /\ subject = other THEN event
                                  ELSE Latest(events, other)
<1> DEFINE n == Len(controlReceipts)
           before == ControlTrail(events, other)
           after == ControlTrail(events, other)'
           mine == event \in events /\ subject = other
<1>n. n \in Nat /\ DOMAIN controlReceipts = 1..n /\ controlReceipts \in Seq(ControlReceipt)
  BY DEF TypeOK, ControlsTypeOK
<1>1. controlReceipts' = Append(controlReceipts, [event |-> event, subject |-> subject])
  BY DEF RecordControl
<1>2. /\ DOMAIN controlReceipts' = 1..(n + 1)
      /\ \A i \in 1..n : controlReceipts'[i] = controlReceipts[i]
      /\ controlReceipts'[n + 1] = [event |-> event, subject |-> subject]
  BY <1>n, <1>1
<1>3. before \subseteq 1..n
  BY <1>n DEF ControlTrail
<1>4. after = IF mine THEN before \cup {n + 1} ELSE before
  BY <1>n, <1>2 DEF ControlTrail
<1>5. CASE mine
  <2>1. n + 1 \in after /\ \A i \in after : n + 1 >= i
    BY <1>3, <1>4, <1>5, <1>n
  <2>2. ASSUME NEW i \in after, \A j \in after : i >= j PROVE i = n + 1
    <3>1. i \in Int
      BY <1>3, <1>4, <1>5, <1>n
    <3> QED BY <2>1, <2>2, <3>1, <1>n
  <2> HIDE DEF after, n
  <2>3. Max(after) = n + 1
    BY <2>1, <2>2 DEF Max
  <2>4. after # {}
    BY <2>1
  <2>5. controlReceipts'[Max(after)].event = event
    BY <1>2, <2>3
  <2> QED BY <1>5, <2>4, <2>5 DEF Latest, LatestEvent, after
<1>6. CASE ~mine
  <2>1. after = before
    BY <1>4, <1>6
  <2>2. CASE before = {}
    BY <1>6, <2>1, <2>2 DEF Latest, LatestEvent
  <2>3. CASE before # {}
    <3>1. Latest(events, other)' = controlReceipts'[Max(before)].event
      BY <2>1, <2>3 DEF Latest, LatestEvent
    <3>2. Max(before) \in 1..n
      BY <1>n, <1>3, <2>3, Greatest
    <3> QED BY <1>2, <1>6, <2>3, <3>1, <3>2 DEF Latest, LatestEvent
  <2> QED BY <2>2, <2>3
<1> QED BY <1>5, <1>6

(* ControlsAudited, in the terms of LatestAfter.                           *)
LEMMA AuditedMeans ==
  ControlsAudited <=>
    /\ \A scope \in Scope :
         scope \in pauses <=> Latest(PauseEvents, scope) = "emergency_pause_set"
    /\ \A l \in LimitIds :
         (limits[l] # NoLimit /\ limits[l].enabled)
           <=> Latest(LimitEvents, l) = "limit_configured"
BY DEF ControlsAudited, Latest, PauseEvents, LimitEvents

LEMMA AuditedInit == Init => ControlsAudited
<1> SUFFICES ASSUME Init PROVE ControlsAudited
  OBVIOUS
<1>1. DOMAIN controlReceipts = {}
  BY DEF Init, ControlsInit
<1>2. ASSUME NEW events, NEW subject PROVE Latest(events, subject) = "none"
  BY <1>1 DEF Latest, LatestEvent, ControlTrail
<1> QED BY <1>2, AuditedMeans DEF Init, ControlsInit

LEMMA AuditedKept ==
  ASSUME ControlsAudited, UNCHANGED operatorVars
  PROVE  ControlsAudited'
BY DEF ControlsAudited, ControlTrail, LatestEvent, operatorVars

(* A change of one pause keeps the trail in agreement with the pauses.     *)
LEMMA AuditedPause ==
  ASSUME TypeOK, ControlsAudited, NEW scope \in Scope, NEW event \in PauseEvents,
         pauses' = IF event = "emergency_pause_set" THEN pauses \cup {scope}
                   ELSE pauses \ {scope},
         RecordControl(event, scope), limits' = limits
  PROVE  ControlsAudited'
<1>1. ASSUME NEW other \in Scope
      PROVE  other \in pauses' <=> Latest(PauseEvents, other)' = "emergency_pause_set"
  <2>1. Latest(PauseEvents, other)' = IF scope = other THEN event ELSE Latest(PauseEvents, other)
    BY LatestAfter
  <2> QED BY <2>1, AuditedMeans DEF PauseEvents
<1>2. ASSUME NEW l \in LimitIds
      PROVE  Latest(LimitEvents, l)' = Latest(LimitEvents, l)
  <2>1. event \notin LimitEvents
    BY DEF PauseEvents, LimitEvents
  <2> QED BY <2>1, LatestAfter
<1>3. /\ \A other \in Scope :
           other \in pauses' <=> Latest(PauseEvents, other)' = "emergency_pause_set"
      /\ \A l \in LimitIds :
           (limits'[l] # NoLimit /\ limits'[l].enabled)
             <=> Latest(LimitEvents, l)' = "limit_configured"
  BY <1>1, <1>2, AuditedMeans
<1> QED BY <1>3 DEF ControlsAudited, Latest, PauseEvents, LimitEvents

(* A change of one limit keeps the trail in agreement with the limits.     *)
LEMMA AuditedLimit ==
  ASSUME TypeOK, ControlsAudited, NEW l \in LimitIds, NEW event \in LimitEvents,
         NEW row \in Limit, row.enabled <=> (event = "limit_configured"),
         limits' = [limits EXCEPT ![l] = row],
         RecordControl(event, l), pauses' = pauses
  PROVE  ControlsAudited'
<1>t. limits \in [LimitIds -> Limit \cup {NoLimit}] /\ row # NoLimit
  BY LimitAssumption DEF TypeOK, ControlsTypeOK
<1>1. ASSUME NEW other \in LimitIds
      PROVE  (limits'[other] # NoLimit /\ limits'[other].enabled)
               <=> Latest(LimitEvents, other)' = "limit_configured"
  <2>1. Latest(LimitEvents, other)' = IF l = other THEN event ELSE Latest(LimitEvents, other)
    BY LatestAfter
  <2>2. CASE other = l
    BY <1>t, <2>1, <2>2
  <2>3. CASE other # l
    <3>1. limits'[other] = limits[other]
      BY <1>t, <2>3
    <3> QED BY <2>1, <2>3, <3>1, AuditedMeans
  <2> QED BY <2>2, <2>3
<1>2. ASSUME NEW scope \in Scope
      PROVE  Latest(PauseEvents, scope)' = Latest(PauseEvents, scope)
  <2>1. event \notin PauseEvents
    BY DEF PauseEvents, LimitEvents
  <2> QED BY <2>1, LatestAfter
<1>3. /\ \A scope \in Scope :
           scope \in pauses' <=> Latest(PauseEvents, scope)' = "emergency_pause_set"
      /\ \A m \in LimitIds :
           (limits'[m] # NoLimit /\ limits'[m].enabled)
             <=> Latest(LimitEvents, m)' = "limit_configured"
  BY <1>1, <1>2, AuditedMeans
<1> QED BY <1>3 DEF ControlsAudited, Latest, PauseEvents, LimitEvents

LEMMA AuditedStep == TypeOK /\ ControlsAudited /\ [Next]_storeVars => ControlsAudited'
<1> SUFFICES ASSUME TypeOK, ControlsAudited, [Next]_storeVars PROVE ControlsAudited'
  OBVIOUS
<1>1. ASSUME NEW scope \in PauseScopes, SetPause(scope) \/ ClearPause(scope)
      PROVE  ControlsAudited'
  <2>1. scope \in Scope
    BY ControlsAssumption
  <2>2. CASE SetPause(scope)
    BY <2>1, <2>2, AuditedPause DEF SetPause, PauseEvents
  <2>3. CASE ClearPause(scope)
    BY <2>1, <2>3, AuditedPause DEF ClearPause, PauseEvents
  <2> QED BY <1>1, <2>2, <2>3
<1>2. ASSUME NEW l \in LimitIds, DisableLimit(l) PROVE ControlsAudited'
  <2>1. PICK row : row = [setting |-> limits[l].setting, enabled |-> FALSE]
    OBVIOUS
  <2>2. row \in Limit /\ row.enabled = FALSE
    BY <1>2, <2>1 DEF DisableLimit, TypeOK, ControlsTypeOK, Limit
  <2> QED BY <1>2, <2>1, <2>2, AuditedLimit DEF DisableLimit, LimitEvents
<1>3. ASSUME NEW l \in LimitIds, NEW setting \in LimitSettings, ConfigureLimit(l, setting)
      PROVE  ControlsAudited'
  <2>1. PICK row : row = [setting |-> setting, enabled |-> TRUE]
    OBVIOUS
  <2>2. row \in Limit /\ row.enabled = TRUE
    BY <2>1, ControlsAssumption DEF Limit
  <2> QED BY <1>3, <2>1, <2>2, AuditedLimit DEF ConfigureLimit, LimitEvents
<1>4. CASE Operator
  BY <1>1, <1>2, <1>3, <1>4 DEF Operator, OperatorStep
<1> QED BY <1>4, OperatorUnchanged, AuditedKept

(* The operator audit trail tells what claims obey, for any number of      *)
(* scopes and limits and any sequence of operator changes.                 *)
THEOREM ControlsAreAudited == Spec => []ControlsAudited
BY StoreTypes, AuditedInit, AuditedStep, PTL DEF Spec

(* No execution starts in a scope whose latest control receipt set a       *)
(* pause: the pause a claim looks up is the one the trail shows.           *)
THEOREM PausesStopStarts == Spec => PauseStopsStarts
<1>1. ASSUME TypeOK, ControlsAudited, [Next]_storeVars, NEW k \in Keys, Started(k),
             NEW scope \in Scope, Covers(scope, actions[k].request)
      PROVE  Latest(PauseEvents, scope) # "emergency_pause_set"
  <2>1. PICK now \in Readings, r \in Requests : ClaimStart(r, now) /\ KeyOf(r) = k
    BY <1>1, StartedByClaim
  <2>2. actions[k].request = r /\ ~Paused(r)
    BY <2>1 DEF ClaimStart, Claimable, Bound
  <2>3. scope \notin pauses
    BY <1>1, <2>2 DEF Paused
  <2> QED BY <1>1, <2>3, AuditedMeans
<1>2. TypeOK /\ ControlsAudited /\ [Next]_storeVars =>
        [\A k \in Keys : Started(k) =>
           \A scope \in Scope : Covers(scope, actions[k].request) =>
             LatestEvent(ControlTrail({"emergency_pause_set", "emergency_pause_cleared"}, scope))
               # "emergency_pause_set"]_actions
  BY <1>1 DEF Latest, PauseEvents
<1> QED BY <1>2, StoreTypes, ControlsAreAudited, PTL DEF Spec, PauseStopsStarts

-------------------------------------------------------------------------------
(* Sums over a finite set.  SumOf is a recursive function: that one exists *)
(* is proved by induction on the size of the subsets it is defined for.    *)

LEMMA Induction ==
  ASSUME NEW T \in SUBSET Nat, 0 \in T, \A n \in T : n + 1 \in T
  PROVE  T = Nat
<1> SUFFICES ASSUME Nat \ T # {} PROVE FALSE
  OBVIOUS
<1>1. PICK x \in Nat \ T : \A y \in Nat \ T : x <= y
  BY Least
<1>2. x # 0
  OBVIOUS
<1>3. x - 1 \in Nat /\ x - 1 \in T
  BY <1>1, <1>2
<1> QED BY <1>3

Chosen(T) == CHOOSE x \in T : TRUE

IsSum(sum, f, S) ==
  sum = [T \in SUBSET S |-> IF T = {} THEN 0 ELSE f[Chosen(T)] + sum[T \ {Chosen(T)}]]

(* Taking the chosen element out of a non-empty subset.                    *)
LEMMA ChosenOut ==
  ASSUME NEW S, IsFiniteSet(S), NEW T \in SUBSET S, T # {}
  PROVE  /\ Chosen(T) \in T
         /\ T \ {Chosen(T)} \in SUBSET S
         /\ IsFiniteSet(T) /\ Cardinality(T) \in Nat
         /\ Cardinality(T \ {Chosen(T)}) = Cardinality(T) - 1
         /\ Cardinality(T) - 1 \in Nat
<1>1. Chosen(T) \in T
  BY DEF Chosen
<1>2. IsFiniteSet(T)
  BY FS_Subset
<1>3. Cardinality(T) \in Nat
  BY <1>2, FS_CardinalityType
<1>4. Cardinality(T \ {Chosen(T)}) = Cardinality(T) - 1
  BY <1>1, <1>2, FS_RemoveElement
<1>5. Cardinality(T) # 0
  BY <1>2, FS_EmptySet
<1> QED BY <1>1, <1>2, <1>3, <1>4, <1>5

LEMMA SubsetCardinality ==
  ASSUME NEW S, IsFiniteSet(S), NEW T \in SUBSET S
  PROVE  IsFiniteSet(T) /\ Cardinality(T) \in Nat /\ Cardinality(T) <= Cardinality(S)
BY FS_Subset, FS_CardinalityType

(* A property of finite subsets that holds of the empty one and passes     *)
(* from T without its chosen element to T holds of all of them.            *)
LEMMA SubsetInduction ==
  ASSUME NEW S, IsFiniteSet(S), NEW Good \in SUBSET (SUBSET S), {} \in Good,
         \A T \in SUBSET S : T # {} /\ T \ {Chosen(T)} \in Good => T \in Good
  PROVE  Good = SUBSET S
<1> DEFINE N == {n \in Nat : \A T \in SUBSET S : Cardinality(T) = n => T \in Good}
<1>1. 0 \in N
  <2> SUFFICES ASSUME NEW T \in SUBSET S, Cardinality(T) = 0 PROVE T \in Good
    OBVIOUS
  <2> QED BY ChosenOut, FS_EmptySet, FS_Subset
<1>2. ASSUME NEW n \in N PROVE n + 1 \in N
  <2> SUFFICES ASSUME NEW T \in SUBSET S, Cardinality(T) = n + 1 PROVE T \in Good
    OBVIOUS
  <2>1. T # {}
    <3>1. Cardinality(T) # 0
      BY <1>2
    <3> QED BY <3>1, FS_EmptySet
  <2>2. T \ {Chosen(T)} \in SUBSET S /\ Cardinality(T \ {Chosen(T)}) = n
    BY <2>1, ChosenOut
  <2> QED BY <2>1, <2>2
<1> HIDE DEF N
<1>3. N = Nat
  BY <1>1, <1>2, Induction DEF N
<1> QED BY <1>3, SubsetCardinality DEF N

(* sum obeys the recursion of SumOf on the subsets of at most n elements.  *)
SumUpTo(sum, f, S, n) ==
  \A T \in SUBSET S : Cardinality(T) <= n =>
    sum[T] = IF T = {} THEN 0 ELSE f[Chosen(T)] + sum[T \ {Chosen(T)}]

LEMMA SumUpToExists ==
  ASSUME NEW S, IsFiniteSet(S), NEW f \in [S -> Int], NEW n \in Nat
  PROVE  \E sum \in [SUBSET S -> Int] : SumUpTo(sum, f, S, n)
<1> DEFINE N == {m \in Nat : \E sum \in [SUBSET S -> Int] : SumUpTo(sum, f, S, m)}
<1>1. 0 \in N
  <2>1. [T \in SUBSET S |-> 0] \in [SUBSET S -> Int]
    OBVIOUS
  <2>2. ASSUME NEW T \in SUBSET S, Cardinality(T) <= 0 PROVE T = {}
    BY <2>2, SubsetCardinality, FS_EmptySet
  <2>3. SumUpTo([T \in SUBSET S |-> 0], f, S, 0)
    BY <2>2 DEF SumUpTo
  <2> QED BY <2>1, <2>3
<1>2. ASSUME NEW m \in N PROVE m + 1 \in N
  <2>1. PICK sum \in [SUBSET S -> Int] : SumUpTo(sum, f, S, m)
    OBVIOUS
  <2>m. m \in Nat
    OBVIOUS
  <2> DEFINE next == [T \in SUBSET S |->
                        IF T = {} THEN 0 ELSE f[Chosen(T)] + sum[T \ {Chosen(T)}]]
  <2>2. next \in [SUBSET S -> Int]
    <3> SUFFICES ASSUME NEW T \in SUBSET S, T # {}
                 PROVE  f[Chosen(T)] + sum[T \ {Chosen(T)}] \in Int
      OBVIOUS
    <3>1. Chosen(T) \in S /\ T \ {Chosen(T)} \in SUBSET S
      BY ChosenOut
    <3>2. f[Chosen(T)] \in Int /\ sum[T \ {Chosen(T)}] \in Int
      BY <3>1
    <3> QED BY <3>2
  <2>3. ASSUME NEW T \in SUBSET S, Cardinality(T) <= m
        PROVE  next[T] = sum[T]
    BY <2>1, <2>3 DEF SumUpTo
  <2>4. ASSUME NEW T \in SUBSET S, Cardinality(T) <= m + 1, T # {}
        PROVE  next[T] = f[Chosen(T)] + next[T \ {Chosen(T)}]
    <3>1. /\ T \ {Chosen(T)} \in SUBSET S
          /\ Cardinality(T \ {Chosen(T)}) <= m
      BY <2>4, <2>m, ChosenOut
    <3>2. next[T \ {Chosen(T)}] = sum[T \ {Chosen(T)}]
      BY <2>3, <3>1
    <3>3. next[T] = f[Chosen(T)] + sum[T \ {Chosen(T)}]
      BY <2>4
    <3> QED BY <3>2, <3>3
  <2>5. next[{}] = 0
    OBVIOUS
  <2> HIDE DEF next
  <2>6. SumUpTo(next, f, S, m + 1)
    BY <2>4, <2>5 DEF SumUpTo
  <2> QED BY <2>2, <2>6, <2>m
<1> HIDE DEF N
<1>3. N = Nat
  BY <1>1, <1>2, Induction DEF N
<1> QED BY <1>3 DEF N

(* The sum is an integer and obeys its recursion.                          *)
LEMMA SumExists ==
  ASSUME NEW S, IsFiniteSet(S), NEW f \in [S -> Int]
  PROVE  \E sum : /\ IsSum(sum, f, S) /\ SumOf(f, S) = sum[S]
                  /\ \A T \in SUBSET S : sum[T] \in Int
<1>1. PICK F \in [SUBSET S -> Int] : SumUpTo(F, f, S, Cardinality(S))
  BY SumUpToExists, FS_CardinalityType
<1>2. F = [T \in SUBSET S |-> IF T = {} THEN 0 ELSE f[Chosen(T)] + F[T \ {Chosen(T)}]]
  BY <1>1, SubsetCardinality DEF SumUpTo
<1>3. IsSum(F, f, S)
  BY <1>2 DEF IsSum
<1>4. PICK sum : IsSum(sum, f, S) /\ SumOf(f, S) = sum[S]
  BY <1>3 DEF SumOf, IsSum, Chosen
<1> DEFINE Good == {T \in SUBSET S : sum[T] \in Int}
<1>5. {} \in Good
  BY <1>4 DEF IsSum
<1>6. ASSUME NEW T \in SUBSET S, T # {}, T \ {Chosen(T)} \in Good PROVE T \in Good
  <2>1. sum[T] = f[Chosen(T)] + sum[T \ {Chosen(T)}]
    BY <1>4, <1>6 DEF IsSum
  <2>2. Chosen(T) \in S
    BY <1>6, ChosenOut
  <2>3. f[Chosen(T)] \in Int
    BY <2>2
  <2> QED BY <1>6, <2>1, <2>3
<1>g. Good \in SUBSET (SUBSET S)
  OBVIOUS
<1> HIDE DEF Good
<1>7. Good = SUBSET S
  BY <1>5, <1>6, <1>g, SubsetInduction
<1> QED BY <1>4, <1>7 DEF Good

(* Changing one summand changes the sum by as much.                        *)
LEMMA SumChange ==
  ASSUME NEW S, IsFiniteSet(S), NEW f \in [S -> Int], NEW g \in [S -> Int], NEW x \in S,
         \A y \in S : y # x => g[y] = f[y]
  PROVE  /\ SumOf(f, S) \in Int
         /\ SumOf(g, S) = SumOf(f, S) + (g[x] - f[x])
<1>1. PICK F : IsSum(F, f, S) /\ SumOf(f, S) = F[S] /\ \A T \in SUBSET S : F[T] \in Int
  BY SumExists
<1>2. PICK G : IsSum(G, g, S) /\ SumOf(g, S) = G[S] /\ \A T \in SUBSET S : G[T] \in Int
  BY SumExists
<1> DEFINE Good == {T \in SUBSET S : G[T] = F[T] + (IF x \in T THEN g[x] - f[x] ELSE 0)}
<1>3. {} \in Good
  BY <1>1, <1>2 DEF IsSum
<1>4. ASSUME NEW T \in SUBSET S, T # {}, T \ {Chosen(T)} \in Good PROVE T \in Good
  <2> DEFINE c == Chosen(T)
             R == T \ {c}
  <2>1. F[T] = f[c] + F[R] /\ G[T] = g[c] + G[R]
    BY <1>1, <1>2, <1>4 DEF IsSum
  <2>2. c \in T /\ c \in S /\ R \in SUBSET S
    BY <1>4, ChosenOut
  <2>3. /\ f[c] \in Int /\ g[c] \in Int /\ F[R] \in Int /\ G[R] \in Int
        /\ f[x] \in Int /\ g[x] \in Int
    BY <1>1, <1>2, <2>2
  <2>4. G[R] = F[R] + (IF x \in R THEN g[x] - f[x] ELSE 0)
    BY <1>4
  <2>5. CASE c = x
    <3>1. x \in T /\ x \notin R
      BY <2>2, <2>5
    <3> HIDE DEF R, c
    <3>2. G[T] = F[T] + (g[x] - f[x])
      BY <2>1, <2>3, <2>4, <2>5, <3>1
    <3> QED BY <3>1, <3>2
  <2>6. CASE c # x
    <3>1. g[c] = f[c] /\ (x \in T <=> x \in R)
      BY <2>2, <2>6
    <3> HIDE DEF R, c
    <3>2. G[T] = F[T] + (IF x \in T THEN g[x] - f[x] ELSE 0)
      BY <2>1, <2>3, <2>4, <3>1
    <3> QED BY <3>2
  <2> QED BY <2>5, <2>6
<1>g. Good \in SUBSET (SUBSET S)
  OBVIOUS
<1> HIDE DEF Good
<1>5. Good = SUBSET S
  BY <1>3, <1>4, <1>g, SubsetInduction
<1>6. G[S] = F[S] + (g[x] - f[x])
  BY <1>5 DEF Good
<1> QED BY <1>1, <1>2, <1>6

LEMMA SumOfZeros ==
  ASSUME NEW S, IsFiniteSet(S), NEW f \in [S -> Int], \A x \in S : f[x] = 0
  PROVE  SumOf(f, S) = 0
<1>1. PICK F : IsSum(F, f, S) /\ SumOf(f, S) = F[S]
  BY SumExists
<1> DEFINE Good == {T \in SUBSET S : F[T] = 0}
<1>2. {} \in Good
  BY <1>1 DEF IsSum
<1>3. ASSUME NEW T \in SUBSET S, T # {}, T \ {Chosen(T)} \in Good PROVE T \in Good
  <2>1. F[T] = f[Chosen(T)] + F[T \ {Chosen(T)}]
    BY <1>1, <1>3 DEF IsSum
  <2>2. Chosen(T) \in S
    BY <1>3, ChosenOut
  <2>3. f[Chosen(T)] = 0
    BY <2>2
  <2> QED BY <1>3, <2>1, <2>3
<1>g. Good \in SUBSET (SUBSET S)
  OBVIOUS
<1> HIDE DEF Good
<1>4. Good = SUBSET S
  BY <1>2, <1>3, <1>g, SubsetInduction
<1> QED BY <1>1, <1>4 DEF Good

-------------------------------------------------------------------------------
(* The usage counters.                                                     *)

ActionsHeld(lw) == [k \in Keys |-> held[k][lw].actions]
ValueHeld(lw) == [k \in Keys |-> held[k][lw].value]

LEMMA HeldTypes ==
  ASSUME TypeOK, NEW lw \in LimitWindows
  PROVE  /\ ActionsHeld(lw) \in [Keys -> Int] /\ ValueHeld(lw) \in [Keys -> Int]
         /\ usage[lw].actions \in Int /\ usage[lw].value \in Int
<1>1. held \in [Keys -> [LimitWindows -> Capacity]] /\ usage \in [LimitWindows -> Capacity]
  BY DEF TypeOK, ControlsTypeOK
<1>2. ASSUME NEW k \in Keys
      PROVE  held[k][lw].actions \in Int /\ held[k][lw].value \in Int
  BY <1>1 DEF Capacity
<1>3. usage[lw].actions \in Int /\ usage[lw].value \in Int
  BY <1>1 DEF Capacity
<1> QED BY <1>2, <1>3 DEF ActionsHeld, ValueHeld

LEMMA UsageMeans ==
  UsageIsHeld <=> \A lw \in LimitWindows :
                    /\ usage[lw].actions = SumOf(ActionsHeld(lw), Keys)
                    /\ usage[lw].value = SumOf(ValueHeld(lw), Keys)
BY DEF UsageIsHeld, ActionsHeld, ValueHeld

(* A step that changes what one key holds, and the counters by as much,    *)
(* keeps them equal to the sums.                                           *)
LEMMA UsageMoves ==
  ASSUME TypeOK, TypeOK', UsageIsHeld, NEW k \in Keys,
         \A j \in Keys : j # k => held'[j] = held[j],
         NEW lw \in LimitWindows,
         usage'[lw].actions
           = usage[lw].actions + (held'[k][lw].actions - held[k][lw].actions),
         usage'[lw].value = usage[lw].value + (held'[k][lw].value - held[k][lw].value)
  PROVE  /\ usage'[lw].actions = SumOf([j \in Keys |-> held'[j][lw].actions], Keys)
         /\ usage'[lw].value = SumOf([j \in Keys |-> held'[j][lw].value], Keys)
<1> DEFINE a == ActionsHeld(lw)
           b == [j \in Keys |-> held'[j][lw].actions]
           c == ValueHeld(lw)
           d == [j \in Keys |-> held'[j][lw].value]
<1>1. a \in [Keys -> Int] /\ c \in [Keys -> Int]
  BY HeldTypes
<1>2. b \in [Keys -> Int] /\ d \in [Keys -> Int]
  <2>1. held' \in [Keys -> [LimitWindows -> Capacity]]
    BY DEF TypeOK, ControlsTypeOK
  <2>2. ASSUME NEW j \in Keys
        PROVE  held'[j][lw].actions \in Int /\ held'[j][lw].value \in Int
    BY <2>1 DEF Capacity
  <2> QED BY <2>2
<1>3. \A j \in Keys : j # k => b[j] = a[j] /\ d[j] = c[j]
  BY DEF ActionsHeld, ValueHeld
<1>4. usage[lw].actions = SumOf(a, Keys) /\ usage[lw].value = SumOf(c, Keys)
  BY UsageMeans
<1>5. /\ b[k] - a[k] = held'[k][lw].actions - held[k][lw].actions
      /\ d[k] - c[k] = held'[k][lw].value - held[k][lw].value
  BY DEF ActionsHeld, ValueHeld
<1> HIDE DEF a, b, c, d
<1>6. IsFiniteSet(Keys)
  BY ControlsAssumption
<1>7. SumOf(b, Keys) = SumOf(a, Keys) + (b[k] - a[k])
  BY <1>1, <1>2, <1>3, <1>6, SumChange
<1>8. SumOf(d, Keys) = SumOf(c, Keys) + (d[k] - c[k])
  BY <1>1, <1>2, <1>3, <1>6, SumChange
<1>9. usage'[lw].actions = SumOf(b, Keys) /\ usage'[lw].value = SumOf(d, Keys)
  BY <1>4, <1>5, <1>7, <1>8
<1> QED BY <1>9 DEF b, d

LEMMA UsageInit == Init => UsageIsHeld
<1> SUFFICES ASSUME Init, NEW lw \in LimitWindows
             PROVE  /\ usage[lw].actions = SumOf(ActionsHeld(lw), Keys)
                    /\ usage[lw].value = SumOf(ValueHeld(lw), Keys)
  BY UsageMeans
<1>1. /\ \A k \in Keys : ActionsHeld(lw)[k] = 0 /\ ValueHeld(lw)[k] = 0
      /\ usage[lw].actions = 0 /\ usage[lw].value = 0
  BY DEF Init, ControlsInit, NoCapacity, ActionsHeld, ValueHeld
<1>2. ActionsHeld(lw) \in [Keys -> Int] /\ ValueHeld(lw) \in [Keys -> Int]
  BY InitType, HeldTypes
<1>3. SumOf(ActionsHeld(lw), Keys) = 0 /\ SumOf(ValueHeld(lw), Keys) = 0
  BY <1>1, <1>2, SumOfZeros, ControlsAssumption
<1> QED BY <1>1, <1>3

LEMMA UsageStep == TypeOK /\ UsageIsHeld /\ [Next]_storeVars => UsageIsHeld'
<1> SUFFICES ASSUME TypeOK, UsageIsHeld, [Next]_storeVars PROVE UsageIsHeld'
  OBVIOUS
<1>t. TypeOK'
  BY StepType
<1>h. held \in [Keys -> [LimitWindows -> Capacity]] /\ usage \in [LimitWindows -> Capacity]
  BY DEF TypeOK, ControlsTypeOK
<1>1. CASE UNCHANGED <<usage, held>>
  BY <1>1 DEF UsageIsHeld
<1>2. ASSUME NEW now \in Readings, NEW r \in Requests, ClaimStart(r, now)
      PROVE  UsageIsHeld'
  <2>1. KeyOf(r) \in Keys
    BY KeyType
  <2>2. \A j \in Keys : j # KeyOf(r) => held'[j] = held[j]
    BY <1>2, <1>h DEF ClaimStart, Reserve
  <2>3. ASSUME NEW lw \in LimitWindows
        PROVE  /\ usage'[lw].actions = usage[lw].actions
                    + (held'[KeyOf(r)][lw].actions - held[KeyOf(r)][lw].actions)
               /\ usage'[lw].value = usage[lw].value
                    + (held'[KeyOf(r)][lw].value - held[KeyOf(r)][lw].value)
    <3> DEFINE taken == ReservationFor(r, now)[lw]
    <3>1. taken.actions \in Int /\ taken.value \in Int
      BY <1>2, ReservationNatural DEF ClaimStart, TypeOK
    <3>2. /\ usage'[lw].actions = usage[lw].actions + taken.actions
          /\ usage'[lw].value = usage[lw].value + taken.value
      BY <1>2 DEF ClaimStart, Reserve, Plus
    <3>3. /\ held'[KeyOf(r)][lw].actions = held[KeyOf(r)][lw].actions + taken.actions
          /\ held'[KeyOf(r)][lw].value = held[KeyOf(r)][lw].value + taken.value
      BY <1>2, <1>h, <2>1 DEF ClaimStart, Reserve, Plus
    <3>4. held[KeyOf(r)][lw].actions \in Int /\ held[KeyOf(r)][lw].value \in Int
      BY <1>h, <2>1 DEF Capacity
    <3> HIDE DEF taken
    <3> QED BY <3>1, <3>2, <3>3, <3>4, HeldTypes
  <2> QED BY <1>t, <2>1, <2>2, <2>3, UsageMoves DEF UsageIsHeld
<1>3. ASSUME NEW k \in Keys, Release(k)
      PROVE  UsageIsHeld'
  <2>2. \A j \in Keys : j # k => held'[j] = held[j]
    BY <1>3, <1>h DEF Release
  <2>3. ASSUME NEW lw \in LimitWindows
        PROVE  /\ usage'[lw].actions = usage[lw].actions
                    + (held'[k][lw].actions - held[k][lw].actions)
               /\ usage'[lw].value = usage[lw].value
                    + (held'[k][lw].value - held[k][lw].value)
    <3>1. held'[k][lw].actions = 0 /\ held'[k][lw].value = 0
      BY <1>3, <1>h DEF Release, NoCapacity
    <3>2. /\ usage'[lw].actions = usage[lw].actions - held[k][lw].actions
          /\ usage'[lw].value = usage[lw].value - held[k][lw].value
      BY <1>3 DEF Release, Minus
    <3>3. held[k][lw].actions \in Int /\ held[k][lw].value \in Int
      BY <1>h DEF Capacity
    <3> QED BY <3>1, <3>2, <3>3, HeldTypes
  <2> QED BY <1>t, <2>2, <2>3, UsageMoves DEF UsageIsHeld
<1> QED BY <1>1, <1>2, <1>3, CapacityStep

(* The counters are the sums of the unreleased reservations, for any       *)
(* number of actions, limits and windows: a claim adds to a counter what   *)
(* it marks as held, and a reconciliation takes off what it unmarks.       *)
THEOREM UsageIsAccounted == Spec => []UsageIsHeld
BY StoreTypes, UsageInit, UsageStep, PTL DEF Spec

-------------------------------------------------------------------------------
(* Replays.  As for SumOf, that Replay's recursive function exists is      *)
(* proved by induction, here on the length of the chain.                   *)

ReplayNext(at, entry, k) == IF entry.action = k THEN Follow(at, entry.event) ELSE at

(* at replays the first n receipts of the chain for key k.                 *)
IsReplay(at, chain, k, n) ==
  at = [m \in 0..n |-> IF m = 0 THEN Absent ELSE ReplayNext(at[m - 1], chain[m], k)]

LEMMA ReplayExists ==
  ASSUME NEW chain, NEW k, NEW n \in Nat
  PROVE  \E at : IsReplay(at, chain, k, n)
<1> DEFINE N == {m \in Nat : \E at : IsReplay(at, chain, k, m)}
<1>1. 0 \in N
  <2> DEFINE at == [m \in 0..0 |-> Absent]
  <2>1. at = [m \in 0..0 |-> IF m = 0 THEN Absent ELSE ReplayNext(at[m - 1], chain[m], k)]
    OBVIOUS
  <2> HIDE DEF at
  <2> QED BY <2>1 DEF IsReplay
<1>2. ASSUME NEW m \in N PROVE m + 1 \in N
  <2>1. PICK at : IsReplay(at, chain, k, m)
    OBVIOUS
  <2>m. m \in Nat
    OBVIOUS
  <2> DEFINE next == [i \in 0..(m + 1) |->
                        IF i = m + 1 THEN ReplayNext(at[m], chain[m + 1], k) ELSE at[i]]
  <2>2. ASSUME NEW i \in 0..(m + 1)
        PROVE  next[i] = IF i = 0 THEN Absent ELSE ReplayNext(next[i - 1], chain[i], k)
    <3>1. CASE i = m + 1
      <4>1. next[i] = ReplayNext(at[m], chain[m + 1], k) /\ next[m] = at[m]
        BY <3>1, <2>m
      <4>2. i # 0 /\ i - 1 = m
        BY <3>1, <2>m
      <4> HIDE DEF next
      <4> QED BY <3>1, <4>1, <4>2
    <3>2. CASE i # m + 1 /\ i # 0
      <4>1. i \in 0..m /\ i - 1 \in 0..m /\ i - 1 # m + 1
        BY <3>2, <2>m
      <4>2. next[i] = at[i] /\ next[i - 1] = at[i - 1]
        BY <4>1, <2>m
      <4>3. at[i] = ReplayNext(at[i - 1], chain[i], k)
        BY <2>1, <3>2, <4>1 DEF IsReplay
      <4> HIDE DEF next
      <4> QED BY <3>2, <4>2, <4>3
    <3>3. CASE i = 0
      <4>1. 0 \in 0..m /\ 0 # m + 1
        BY <2>m
      <4>2. next[i] = at[0]
        BY <3>3, <4>1, <2>m
      <4>3. at[0] = Absent
        BY <2>1, <4>1 DEF IsReplay
      <4> HIDE DEF next
      <4> QED BY <3>3, <4>2, <4>3
    <3> QED BY <3>1, <3>2, <3>3
  <2>3. next = [i \in 0..(m + 1) |->
                  IF i = 0 THEN Absent ELSE ReplayNext(next[i - 1], chain[i], k)]
    <3>1. next = [i \in 0..(m + 1) |-> next[i]]
      OBVIOUS
    <3> HIDE DEF next
    <3> QED BY <2>2, <3>1
  <2> HIDE DEF next
  <2>4. IsReplay(next, chain, k, m + 1)
    BY <2>3 DEF IsReplay
  <2> QED BY <2>4, <2>m
<1> HIDE DEF N
<1>3. N = Nat
  <2>1. N \in SUBSET Nat
    BY DEF N
  <2> QED BY <1>1, <1>2, <2>1, Induction
<1> QED BY <1>3 DEF N

LEMMA ReplayIs ==
  ASSUME NEW chain, NEW k, Len(chain) \in Nat
  PROVE  \E at : IsReplay(at, chain, k, Len(chain)) /\ Replay(chain, k) = at[Len(chain)]
<1>0. \E at : IsReplay(at, chain, k, Len(chain))
  BY ReplayExists
<1>1. \E at : at = [m \in 0..Len(chain) |->
                      IF m = 0 THEN Absent
                      ELSE IF chain[m].action = k THEN Follow(at[m - 1], chain[m].event)
                      ELSE at[m - 1]]
  BY <1>0 DEF IsReplay, ReplayNext
<1> QED BY <1>1 DEF Replay, IsReplay, ReplayNext

(* A longer chain is replayed through the end of the shorter one.          *)
LEMMA ReplayExtends ==
  ASSUME NEW chain, NEW longer, NEW k, Len(chain) \in Nat, Len(longer) \in Nat,
         Len(chain) <= Len(longer),
         \A i \in 1..Len(chain) : longer[i] = chain[i]
  PROVE  \E at : /\ IsReplay(at, longer, k, Len(longer))
                 /\ at[Len(chain)] = Replay(chain, k)
                 /\ at[Len(longer)] = Replay(longer, k)
<1>1. PICK at : IsReplay(at, longer, k, Len(longer)) /\ Replay(longer, k) = at[Len(longer)]
  BY ReplayIs
<1>2. PICK from : IsReplay(from, chain, k, Len(chain)) /\ Replay(chain, k) = from[Len(chain)]
  BY ReplayIs
<1>3. PICK p : p = Len(chain)
  OBVIOUS
<1>4. PICK q : q = Len(longer)
  OBVIOUS
<1>5. p \in Nat /\ q \in Nat /\ p <= q
  BY <1>3, <1>4
<1> DEFINE N == {m \in Nat : m <= p => at[m] = from[m]}
<1>6. 0 \in N
  BY <1>1, <1>2, <1>3, <1>4, <1>5 DEF IsReplay
<1>7. ASSUME NEW m \in N PROVE m + 1 \in N
  <2> SUFFICES ASSUME m + 1 <= p PROVE at[m + 1] = from[m + 1]
    OBVIOUS
  <2>m. m \in Nat /\ m <= p /\ at[m] = from[m]
    BY <1>5
  <2>1. m + 1 \in 0..p /\ m + 1 \in 0..q /\ m + 1 \in 1..p /\ m + 1 # 0 /\ (m + 1) - 1 = m
    BY <1>5, <2>m
  <2>2. at[m + 1] = ReplayNext(at[m], longer[m + 1], k)
    BY <1>1, <1>4, <2>1 DEF IsReplay
  <2>3. from[m + 1] = ReplayNext(from[m], chain[m + 1], k)
    BY <1>2, <1>3, <2>1 DEF IsReplay
  <2>4. longer[m + 1] = chain[m + 1]
    BY <1>3, <2>1
  <2> QED BY <2>m, <2>2, <2>3, <2>4
<1>8. N \in SUBSET Nat
  OBVIOUS
<1> HIDE DEF N
<1>9. N = Nat
  BY <1>6, <1>7, <1>8, Induction
<1>10. at[p] = from[p]
  BY <1>5, <1>9 DEF N
<1> QED BY <1>1, <1>2, <1>3, <1>10

(* Receipts of other actions do not disturb a replay.                      *)
LEMMA ReplayQuiet ==
  ASSUME NEW chain, NEW longer, NEW k, Len(chain) \in Nat, Len(longer) \in Nat,
         Len(chain) <= Len(longer),
         \A i \in 1..Len(chain) : longer[i] = chain[i],
         \A i \in (Len(chain) + 1)..Len(longer) : longer[i].action # k
  PROVE  Replay(longer, k) = Replay(chain, k)
<1>1. PICK at : /\ IsReplay(at, longer, k, Len(longer))
                /\ at[Len(chain)] = Replay(chain, k)
                /\ at[Len(longer)] = Replay(longer, k)
  BY ReplayExtends
<1>3. PICK p : p = Len(chain)
  OBVIOUS
<1>4. PICK q : q = Len(longer)
  OBVIOUS
<1>5. p \in Nat /\ q \in Nat /\ p <= q
  BY <1>3, <1>4
<1> DEFINE N == {m \in Nat : p + m <= q => at[p + m] = at[p]}
<1>6. 0 \in N
  BY <1>5
<1>7. ASSUME NEW m \in N PROVE m + 1 \in N
  <2> SUFFICES ASSUME p + (m + 1) <= q PROVE at[p + (m + 1)] = at[p]
    OBVIOUS
  <2>m. m \in Nat /\ p + m <= q /\ at[p + m] = at[p]
    BY <1>5
  <2> DEFINE i == p + (m + 1)
  <2>1. i \in 0..q /\ i # 0 /\ i - 1 = p + m /\ i \in (p + 1)..q
    BY <1>5, <2>m
  <2> HIDE DEF i
  <2>2. at[i] = ReplayNext(at[p + m], longer[i], k)
    BY <1>1, <1>4, <2>1 DEF IsReplay
  <2>3. longer[i].action # k
    BY <1>3, <1>4, <2>1
  <2>4. at[i] = at[p]
    BY <2>m, <2>2, <2>3 DEF ReplayNext
  <2> QED BY <2>4 DEF i
<1>8. N \in SUBSET Nat
  OBVIOUS
<1> HIDE DEF N
<1>9. N = Nat
  BY <1>6, <1>7, <1>8, Induction
<1>10. PICK d \in Nat : p + d = q
  <2>1. q - p \in Nat /\ p + (q - p) = q
    BY <1>5
  <2> QED BY <2>1
<1>11. at[p + d] = at[p]
  <2>1. p + d <= q => at[p + d] = at[p]
    BY <1>9 DEF N
  <2>2. p + d <= q
    BY <1>5, <1>10
  <2> QED BY <2>1, <2>2
<1>12. at[q] = at[p]
  BY <1>10, <1>11
<1> QED BY <1>1, <1>3, <1>4, <1>12

(* The next receipt moves a replay by one step.                            *)
LEMMA ReplayAppend ==
  ASSUME NEW chain, NEW longer, NEW k, Len(chain) \in Nat,
         Len(longer) = Len(chain) + 1,
         \A i \in 1..Len(chain) : longer[i] = chain[i]
  PROVE  Replay(longer, k) = ReplayNext(Replay(chain, k), longer[Len(longer)], k)
<1>1. Len(longer) \in Nat /\ Len(chain) <= Len(longer)
  OBVIOUS
<1>2. PICK at : /\ IsReplay(at, longer, k, Len(longer))
                /\ at[Len(chain)] = Replay(chain, k)
                /\ at[Len(longer)] = Replay(longer, k)
  BY <1>1, ReplayExtends
<1>3. PICK q : q = Len(longer)
  OBVIOUS
<1>4. q \in 0..q /\ q # 0 /\ q - 1 = Len(chain)
  BY <1>1, <1>3
<1>5. at[q] = ReplayNext(at[q - 1], longer[q], k)
  BY <1>2, <1>3, <1>4 DEF IsReplay
<1> QED BY <1>2, <1>3, <1>4, <1>5

(* Among receipts of other actions, one receipt moves a replay by one step. *)
LEMMA ReplayOnce ==
  ASSUME NEW S, NEW chain \in Seq(S), NEW longer \in Seq(S), NEW k,
         Len(chain) <= Len(longer),
         \A i \in 1..Len(chain) : longer[i] = chain[i],
         NEW j \in (Len(chain) + 1)..Len(longer),
         \A i \in (Len(chain) + 1)..Len(longer) : i # j => longer[i].action # k
  PROVE  Replay(longer, k) = ReplayNext(Replay(chain, k), longer[j], k)
<1>n. Len(chain) \in Nat /\ Len(longer) \in Nat /\ j \in Nat /\ j - 1 \in Nat
  OBVIOUS
<1> DEFINE before == [i \in 1..(j - 1) |-> longer[i]]
           upto == [i \in 1..j |-> longer[i]]
<1>1. before \in Seq(S) /\ Len(before) = j - 1
  <2>1. \A i \in 1..(j - 1) : longer[i] \in S
    BY <1>n
  <2> QED BY <1>n, <2>1
<1>2. upto \in Seq(S) /\ Len(upto) = j
  <2>1. \A i \in 1..j : longer[i] \in S
    BY <1>n
  <2> QED BY <1>n, <2>1
<1>3. \A i \in 1..(j - 1) : before[i] = longer[i]
  OBVIOUS
<1>4. \A i \in 1..j : upto[i] = longer[i]
  OBVIOUS
<1> HIDE DEF before, upto
<1>5. Replay(before, k) = Replay(chain, k)
  <2>1. Len(chain) <= Len(before) /\ Len(before) \in Nat
    BY <1>1, <1>n
  <2>2. \A i \in 1..Len(chain) : before[i] = chain[i]
    BY <1>1, <1>3, <1>n
  <2>3. \A i \in (Len(chain) + 1)..Len(before) : before[i].action # k
    BY <1>1, <1>3, <1>n
  <2> QED BY <1>n, <2>1, <2>2, <2>3, ReplayQuiet
<1>6. Replay(upto, k) = ReplayNext(Replay(before, k), upto[Len(upto)], k)
  <2>1. Len(before) \in Nat /\ Len(upto) = Len(before) + 1
    BY <1>1, <1>2, <1>n
  <2>2. \A i \in 1..Len(before) : upto[i] = before[i]
    BY <1>1, <1>3, <1>4, <1>n
  <2> QED BY <2>1, <2>2, ReplayAppend
<1>7. upto[Len(upto)] = longer[j]
  BY <1>2, <1>4, <1>n
<1>8. Replay(longer, k) = Replay(upto, k)
  <2>1. Len(upto) <= Len(longer) /\ Len(upto) \in Nat
    BY <1>2, <1>n
  <2>2. \A i \in 1..Len(upto) : longer[i] = upto[i]
    BY <1>2, <1>4
  <2>3. \A i \in (Len(upto) + 1)..Len(longer) : longer[i].action # k
    BY <1>2, <1>n
  <2> QED BY <1>n, <2>1, <2>2, <2>3, ReplayQuiet
<1> QED BY <1>5, <1>6, <1>7, <1>8

(* The lifecycle is deterministic.                                         *)
LEMMA MovesDeterministic ==
  ASSUME NEW opening, NEW from, NEW event, NEW s, NEW t,
         <<from, event, s>> \in Moves(opening), <<from, event, t>> \in Moves(opening)
  PROVE  s = t
BY DEF Moves

LEMMA FollowMove ==
  ASSUME NEW from, NEW opening, NEW event, NEW to \in RuntimeStatus,
         <<from, event, to>> \in Moves(opening)
  PROVE  Follow([status |-> from, opening |-> opening], event)
           = [status |-> to, opening |-> IF from = "absent" THEN to ELSE opening]
<1> DEFINE at == [status |-> from, opening |-> opening]
<1>1. at.status = from /\ at.opening = opening
  OBVIOUS
<1> HIDE DEF at
<1>2. <<at.status, event, to>> \in Moves(at.opening)
  BY <1>1
<1>3. (CHOOSE s \in RuntimeStatus : <<at.status, event, s>> \in Moves(at.opening)) = to
  BY <1>2, MovesDeterministic
<1>4. Follow(at, event) = [status |-> to, opening |-> IF from = "absent" THEN to ELSE opening]
  BY <1>1, <1>2, <1>3 DEF Follow
<1> QED BY <1>4 DEF at

-------------------------------------------------------------------------------
(* The receipt chain.  AuditReplay alone is not inductive: where a         *)
(* not-committed reconciliation leads depends on how the replay began, so  *)
(* the invariant also says that it began as the row's policy effect does.  *)

At(row) == IF row = NoAction THEN Absent
           ELSE [status |-> row.status, opening |-> InitialStatus[row.effect]]

Agrees(chain, rows) == \A k \in Keys : Replay(chain, k) = At(rows[k])

(* A row's change from old is the move that event stands for.              *)
Moved(old, event, row) ==
  IF old = NoAction
  THEN /\ <<"absent", event, row.status>> \in Moves("absent")
       /\ row.status = InitialStatus[row.effect]
  ELSE /\ <<old.status, event, row.status>> \in Moves(InitialStatus[old.effect])
       /\ row.effect = old.effect

LEMMA AtMoves ==
  ASSUME NEW old \in Action \cup {NoAction}, NEW row \in Action, NEW event, NEW k,
         Moved(old, event, row)
  PROVE  ReplayNext(At(old), Entry(k, event), k) = At(row)
<1>r. row # NoAction /\ row.status \in RuntimeStatus
  BY StoreAssumption DEF Action
<1>e. Entry(k, event).action = k /\ Entry(k, event).event = event
  BY DEF Entry
<1>1. CASE old = NoAction
  <2>1. At(old) = [status |-> "absent", opening |-> "absent"]
    BY <1>1 DEF At, Absent
  <2>2. <<"absent", event, row.status>> \in Moves("absent")
    BY <1>1 DEF Moved
  <2>3. Follow(At(old), event) = [status |-> row.status, opening |-> row.status]
    BY <1>r, <2>1, <2>2, FollowMove
  <2>4. At(row) = [status |-> row.status, opening |-> row.status]
    BY <1>1, <1>r DEF At, Moved
  <2> QED BY <1>e, <2>3, <2>4 DEF ReplayNext
<1>2. CASE old # NoAction
  <2>1. At(old) = [status |-> old.status, opening |-> InitialStatus[old.effect]]
    BY <1>2 DEF At
  <2>2. <<old.status, event, row.status>> \in Moves(InitialStatus[old.effect])
    BY <1>2 DEF Moved
  <2>3. old.status # "absent"
    BY <1>2 DEF Action, RuntimeStatus
  <2>4. Follow(At(old), event)
          = [status |-> row.status, opening |-> InitialStatus[old.effect]]
    BY <1>r, <2>1, <2>2, <2>3, FollowMove
  <2>5. At(row) = [status |-> row.status, opening |-> InitialStatus[old.effect]]
    BY <1>2, <1>r DEF At, Moved
  <2> QED BY <1>e, <2>4, <2>5 DEF ReplayNext
<1> QED BY <1>1, <1>2

(* Appending the receipt of a move and moving the row keep the agreement.  *)
LEMMA AgreesMove ==
  ASSUME NEW chain \in Seq(Receipt), NEW rows \in [Keys -> Action \cup {NoAction}],
         Agrees(chain, rows), NEW k \in Keys, NEW event \in RuntimeEvent,
         NEW row \in Action, Moved(rows[k], event, row),
         NEW longer, longer = Append(chain, Entry(k, event)),
         NEW next, next = [rows EXCEPT ![k] = row]
  PROVE  Agrees(longer, next) /\ longer \in Seq(Receipt)
         /\ next \in [Keys -> Action \cup {NoAction}]
<1>e. Entry(k, event) \in Receipt /\ Entry(k, event).action = k
  BY EntryType DEF Entry
<1>1. /\ longer \in Seq(Receipt)
      /\ Len(chain) \in Nat /\ Len(longer) = Len(chain) + 1
      /\ \A i \in 1..Len(chain) : longer[i] = chain[i]
      /\ longer[Len(longer)] = Entry(k, event)
  BY <1>e, AppendProperties
<1>2. next \in [Keys -> Action \cup {NoAction}] /\ next[k] = row
  OBVIOUS
<1>3. ASSUME NEW j \in Keys PROVE Replay(longer, j) = At(next[j])
  <2>1. Replay(longer, j) = ReplayNext(Replay(chain, j), Entry(k, event), j)
    BY <1>1, ReplayAppend
  <2>2. Replay(chain, j) = At(rows[j])
    BY DEF Agrees
  <2>3. CASE j = k
    <3>1. rows[k] \in Action \cup {NoAction}
      OBVIOUS
    <3>2. ReplayNext(At(rows[k]), Entry(k, event), k) = At(row)
      BY <3>1, AtMoves
    <3> QED BY <1>2, <2>1, <2>2, <2>3, <3>2
  <2>4. CASE j # k
    <3>1. next[j] = rows[j]
      BY <2>4
    <3>2. ReplayNext(At(rows[j]), Entry(k, event), j) = At(rows[j])
      BY <1>e, <2>4 DEF ReplayNext
    <3> QED BY <2>1, <2>2, <3>1, <3>2
  <2> QED BY <2>3, <2>4
<1> QED BY <1>1, <1>2, <1>3 DEF Agrees

(* A refresh is the move its receipt stands for.                           *)
LEMMA RefreshMoves ==
  ASSUME NEW row \in Action, NEW now
  PROVE  /\ ApprovalDue(row, now) => Moved(row, "expired", Refreshed(row, now))
         /\ LeaseDue(row, now) => Moved(row, "execution_abandoned", Refreshed(row, now))
         /\ ~Stale(row, now) => Refreshed(row, now) = row
<1>n. row # NoAction
  BY StoreAssumption
<1>1. ASSUME ApprovalDue(row, now)
      PROVE  Moved(row, "expired", Refreshed(row, now))
  <2>1. row.status \in {"pending", "approved"}
    BY <1>1 DEF ApprovalDue
  <2>2. Refreshed(row, now).status = "expired" /\ Refreshed(row, now).effect = row.effect
    BY <1>1 DEF Refreshed, Action
  <2> QED BY <1>n, <2>1, <2>2 DEF Moved, Moves
<1>2. ASSUME LeaseDue(row, now)
      PROVE  Moved(row, "execution_abandoned", Refreshed(row, now))
  <2>1. row.status = "executing" /\ ~ApprovalDue(row, now)
    BY <1>2 DEF LeaseDue, ApprovalDue
  <2>2. Refreshed(row, now).status = "unknown" /\ Refreshed(row, now).effect = row.effect
    BY <1>2, <2>1 DEF Refreshed, Action
  <2> QED BY <1>n, <2>1, <2>2 DEF Moved, Moves
<1>3. ~Stale(row, now) => Refreshed(row, now) = row
  BY DEF Stale, Refreshed
<1> QED BY <1>1, <1>2, <1>3

LEMMA OneReceipt ==
  ASSUME NEW chain \in Seq(Receipt), NEW entry \in Receipt
  PROVE  chain \o <<entry>> = Append(chain, entry) /\ chain \o <<>> = chain
OBVIOUS

LEMMA AgreesRefresh ==
  ASSUME TypeOK, Agrees(receipts, actions), NEW k \in Keys, Exists(k), NEW now,
         NEW longer, longer = receipts \o RefreshEntries(k, now),
         NEW next, next = [actions EXCEPT ![k] = Refreshed(actions[k], now)]
  PROVE  /\ Agrees(longer, next) /\ longer \in Seq(Receipt)
         /\ next \in [Keys -> Action \cup {NoAction}]
<1>t. /\ receipts \in Seq(Receipt) /\ actions \in [Keys -> Action \cup {NoAction}]
      /\ actions[k] \in Action /\ Refreshed(actions[k], now) \in Action
  BY ExistsType, RefreshedType DEF TypeOK
<1>1. CASE ApprovalDue(actions[k], now)
  <2>1. "expired" \in RuntimeEvent /\ Entry(k, "expired") \in Receipt
    BY EntryType DEF RuntimeEvent
  <2>2. RefreshEntries(k, now) = <<Entry(k, "expired")>>
    BY <1>1 DEF RefreshEntries
  <2>3. longer = Append(receipts, Entry(k, "expired"))
    BY <1>t, <2>1, <2>2, OneReceipt
  <2>4. Moved(actions[k], "expired", Refreshed(actions[k], now))
    BY <1>1, <1>t, RefreshMoves
  <2> QED BY <1>t, <2>1, <2>3, <2>4, AgreesMove
<1>2. CASE ~ApprovalDue(actions[k], now) /\ LeaseDue(actions[k], now)
  <2>1. "execution_abandoned" \in RuntimeEvent /\ Entry(k, "execution_abandoned") \in Receipt
    BY EntryType DEF RuntimeEvent
  <2>2. RefreshEntries(k, now) = <<Entry(k, "execution_abandoned")>>
    BY <1>2 DEF RefreshEntries
  <2>3. longer = Append(receipts, Entry(k, "execution_abandoned"))
    BY <1>t, <2>1, <2>2, OneReceipt
  <2>4. Moved(actions[k], "execution_abandoned", Refreshed(actions[k], now))
    BY <1>2, <1>t, RefreshMoves
  <2> QED BY <1>t, <2>1, <2>3, <2>4, AgreesMove
<1>3. CASE ~ApprovalDue(actions[k], now) /\ ~LeaseDue(actions[k], now)
  <2>1. RefreshEntries(k, now) = <<>> /\ Refreshed(actions[k], now) = actions[k]
    BY <1>3 DEF RefreshEntries, Refreshed
  <2>2. longer = receipts
    BY <1>t, <2>1
  <2>3. next = actions
    BY <1>t, <2>1
  <2> QED BY <1>t, <2>2, <2>3
<1> QED BY <1>1, <1>2, <1>3

(* An operation that records one receipt and changes one row.              *)
LEMMA AgreesRecord ==
  ASSUME TypeOK, Agrees(receipts, actions), NEW k \in Keys, NEW event \in RuntimeEvent,
         Record(k, event), NEW row \in Action, Moved(actions[k], event, row),
         actions' = [actions EXCEPT ![k] = row]
  PROVE  Agrees(receipts', actions')
<1>1. receipts' = Append(receipts, Entry(k, event))
  BY DEF Record
<1> QED BY <1>1, AgreesMove DEF TypeOK

(* An operation that only records a receipt.                               *)
LEMMA AgreesNote ==
  ASSUME TypeOK, Agrees(receipts, actions), NEW k \in Keys, NEW event \in RuntimeEvent,
         Record(k, event), Exists(k), Moved(actions[k], event, actions[k]),
         actions' = actions
  PROVE  Agrees(receipts', actions')
<1>1. actions' = [actions EXCEPT ![k] = actions[k]] /\ actions[k] \in Action
  BY ExistsType DEF TypeOK
<1> QED BY <1>1, AgreesRecord

LEMMA SubmitNewAgrees ==
  ASSUME TypeOK, Agrees(receipts, actions), NEW r \in Requests, NEW effect \in Effects,
         NEW ttl \in Ttls, NEW now \in Nat, SubmitNew(r, effect, ttl, now)
  PROVE  Agrees(receipts', actions')
<1>1. PICK row : row = [status    |-> InitialStatus[effect],
                        request   |-> r,
                        effect    |-> effect,
                        ttl       |-> IF effect = "require_approval" THEN ttl ELSE None,
                        expires   |-> After(now, IF effect = "require_approval" THEN ttl ELSE None),
                        lease     |-> None,
                        decidedBy |-> IF effect = "allow" THEN "policy" ELSE "nobody",
                        result    |-> NoResult]
  OBVIOUS
<1>2. actions' = [actions EXCEPT ![KeyOf(r)] = row] /\ KeyOf(r) \in Keys
  BY <1>1, KeyType DEF SubmitNew
<1>3. effect \in PolicyEffect /\ row.effect = effect /\ row.status = InitialStatus[effect]
  BY <1>1, StoreAssumption
<1>4. row \in Action
  <2> DEFINE own == IF effect = "require_approval" THEN ttl ELSE None
  <2>1. own \in Nat \cup {None} /\ After(now, own) \in Nat \cup {None}
    BY StoreAssumption DEF After, None
  <2>2. InitialStatus[effect] \in RuntimeStatus
    BY <1>3 DEF InitialStatus, PolicyEffect, RuntimeStatus
  <2> QED BY <1>1, <1>3, <2>1, <2>2 DEF Action, Decider
<1>5. InitialEvent[effect] \in RuntimeEvent
  BY <1>3 DEF InitialEvent, PolicyEffect, RuntimeEvent
<1>6. <<"absent", InitialEvent[effect], InitialStatus[effect]>> \in Moves("absent")
  BY <1>3 DEF InitialEvent, InitialStatus, PolicyEffect, Moves
<1>7. Moved(actions[KeyOf(r)], InitialEvent[effect], row)
  BY <1>3, <1>6 DEF Moved, SubmitNew, Exists
<1> QED BY <1>2, <1>4, <1>5, <1>7, AgreesRecord DEF SubmitNew

(* Reconciling keeps the refresh it started with: up to two receipts.      *)
LEMMA AgreesReconcile ==
  ASSUME TypeOK, Agrees(receipts, actions), NEW k \in Keys, NEW event \in RuntimeEvent,
         NEW now, Exists(k), RecordReconciled(k, event, now), NEW row \in Action,
         Moved(Refreshed(actions[k], now), event, row),
         actions' = [actions EXCEPT ![k] = row]
  PROVE  Agrees(receipts', actions')
<1>t. /\ receipts \in Seq(Receipt) /\ actions \in [Keys -> Action \cup {NoAction}]
      /\ RefreshEntries(k, now) \in Seq(Receipt) /\ Entry(k, event) \in Receipt
  BY RefreshEntriesType, EntryType DEF TypeOK
<1>1. PICK middle : middle = receipts \o RefreshEntries(k, now)
  OBVIOUS
<1>2. PICK rows : rows = [actions EXCEPT ![k] = Refreshed(actions[k], now)]
  OBVIOUS
<1>3. /\ Agrees(middle, rows) /\ middle \in Seq(Receipt)
      /\ rows \in [Keys -> Action \cup {NoAction}]
  BY <1>1, <1>2, AgreesRefresh
<1>4. rows[k] = Refreshed(actions[k], now)
  BY <1>2, <1>t
<1>5. receipts' = Append(middle, Entry(k, event))
  <2>1. receipts' = receipts \o RefreshEntries(k, now) \o <<Entry(k, event)>>
    BY DEF RecordReconciled
  <2>2. receipts' = middle \o <<Entry(k, event)>>
    BY <1>1, <2>1
  <2> QED BY <1>t, <1>3, <2>2, OneReceipt
<1>6. actions' = [rows EXCEPT ![k] = row]
  BY <1>2, <1>t
<1>7. Moved(rows[k], event, row)
  BY <1>4
<1>8. ASSUME NEW longer, longer = Append(middle, Entry(k, event)),
             NEW next, next = [rows EXCEPT ![k] = row]
      PROVE  Agrees(longer, next)
  BY <1>3, <1>7, <1>8, AgreesMove
<1> QED BY <1>5, <1>6, <1>8

LEMMA ReconcileCommittedAgrees ==
  ASSUME TypeOK, Agrees(receipts, actions), NEW k \in Keys, NEW result \in Results,
         NEW now \in Nat, ReconcileCommitted(k, result, now)
  PROVE  Agrees(receipts', actions')
<1>1. /\ Exists(k) /\ actions[k] \in Action /\ Refreshed(actions[k], now) \in Action
      /\ Refreshed(actions[k], now).status = "unknown"
  BY ExistsType, RefreshedType DEF ReconcileCommitted, Unresolved
<1>2. PICK row : row = [actions[k] EXCEPT !.status = "succeeded", !.result = result,
                                          !.expires = None, !.lease = None]
  OBVIOUS
<1>3. actions' = [actions EXCEPT ![k] = row]
  BY <1>2 DEF ReconcileCommitted, TypeOK
<1>4. row \in Action /\ row.status = "succeeded" /\ row.effect = actions[k].effect
  BY <1>1, <1>2 DEF Action, RuntimeStatus, None
<1>5. Refreshed(actions[k], now).effect = actions[k].effect
  BY <1>1 DEF Refreshed, Action
<1>6. Refreshed(actions[k], now) # NoAction
  BY <1>1, StoreAssumption
<1>7. Moved(Refreshed(actions[k], now), "reconciliation_committed", row)
  BY <1>1, <1>4, <1>5, <1>6 DEF Moved, Moves
<1> QED BY <1>1, <1>3, <1>4, <1>7, AgreesReconcile DEF ReconcileCommitted, RuntimeEvent

LEMMA ReconcileNotCommittedAgrees ==
  ASSUME TypeOK, Agrees(receipts, actions), NEW k \in Keys, NEW now \in Nat,
         ReconcileNotCommitted(k, now)
  PROVE  Agrees(receipts', actions')
<1>1. /\ Exists(k) /\ actions[k] \in Action /\ Refreshed(actions[k], now) \in Action
      /\ Refreshed(actions[k], now).status = "unknown"
  BY ExistsType, RefreshedType DEF ReconcileNotCommitted, Unresolved
<1>2. PICK row : row = Reopened(actions[k], now)
  OBVIOUS
<1>3. actions' = [actions EXCEPT ![k] = row]
  BY <1>2 DEF ReconcileNotCommitted, TypeOK
<1>4. row.effect = actions[k].effect /\ row.status = InitialStatus[row.effect]
  <2>1. actions[k].effect \in {"allow", "require_approval"}
    BY <1>1 DEF ReconcileNotCommitted, Action, PolicyEffect
  <2>2. row.effect = actions[k].effect
    BY <1>1, <1>2 DEF Reopened, Action
  <2>3. row.status = IF actions[k].effect = "require_approval" THEN "pending" ELSE "approved"
    BY <1>1, <1>2 DEF Reopened, Action
  <2> QED BY <2>1, <2>2, <2>3 DEF InitialStatus
<1>5. row \in Action
  <2>1. actions[k].ttl \in Nat \cup {None} /\ After(now, actions[k].ttl) \in Nat \cup {None}
    BY <1>1 DEF Action, After, None
  <2>2. CASE actions[k].effect = "require_approval"
    BY <1>1, <1>2, <2>1, <2>2 DEF Reopened, Action, RuntimeStatus, Decider
  <2>3. CASE actions[k].effect # "require_approval"
    BY <1>1, <1>2, <2>1, <2>3 DEF Reopened, Action, RuntimeStatus, Decider
  <2> QED BY <2>2, <2>3
<1>6. Refreshed(actions[k], now).effect = actions[k].effect
  BY <1>1 DEF Refreshed, Action
<1>7. Refreshed(actions[k], now) # NoAction
  BY <1>1, StoreAssumption
<1>8. <<"unknown", "reconciliation_not_committed", row.status>> \in Moves(row.status)
  BY DEF Moves
<1>9. Moved(Refreshed(actions[k], now), "reconciliation_not_committed", row)
  BY <1>1, <1>4, <1>6, <1>7, <1>8 DEF Moved
<1> QED BY <1>1, <1>3, <1>5, <1>9, AgreesReconcile DEF ReconcileNotCommitted, RuntimeEvent

(* The entry a late row's refresh appends, and the move it stands for.     *)
LEMMA LateEntry ==
  ASSUME TypeOK, NEW k \in Keys, Exists(k), NEW now, Stale(actions[k], now)
  PROVE  \E event \in RuntimeEvent :
           /\ RefreshEntries(k, now)[1] = Entry(k, event)
           /\ Moved(actions[k], event, Refreshed(actions[k], now))
<1>1. actions[k] \in Action
  BY ExistsType
<1>2. CASE ApprovalDue(actions[k], now)
  BY <1>1, <1>2, RefreshMoves DEF RefreshEntries, RuntimeEvent
<1>3. CASE ~ApprovalDue(actions[k], now) /\ LeaseDue(actions[k], now)
  BY <1>1, <1>3, RefreshMoves DEF RefreshEntries, RuntimeEvent
<1> QED BY <1>2, <1>3 DEF Stale

LEMMA SequenceOfSet ==
  ASSUME NEW S, IsFiniteSet(S), NEW order \in SetToSeqs(S)
  PROVE  /\ Cardinality(S) \in Nat
         /\ order \in [1..Cardinality(S) -> S]
         /\ \A i, j \in 1..Cardinality(S) : i # j => order[i] # order[j]
         /\ \A x \in S : \E i \in 1..Cardinality(S) : order[i] = x
<1> DEFINE n == Cardinality(S)
<1>1. n \in Nat
  BY FS_CardinalityType
<1>2. order \in [1..n -> S] /\ \A i, j \in 1..n : i # j => order[i] # order[j]
  BY DEF SetToSeqs
<1>3. Cardinality(1..n) = n
  BY <1>1, FS_Interval
<1> HIDE DEF n
<1>4. order \in Injection(1..n, S)
  BY <1>2 DEF Injection, IsInjective
<1>5. order \in Surjection(1..n, S)
  BY <1>3, <1>4, FS_Injection DEF n
<1>6. \A x \in S : \E i \in 1..n : order[i] = x
  BY <1>5 DEF Surjection
<1> QED BY <1>1, <1>2, <1>6 DEF n

LEMMA ListActionsAgrees ==
  ASSUME TypeOK, Agrees(receipts, actions), NEW now, ListActions(now)
  PROVE  Agrees(receipts', actions')
<1> DEFINE late == {k \in Keys : Exists(k) /\ Stale(actions[k], now)}
<1>1. IsFiniteSet(late)
  BY FS_Subset, ControlsAssumption
<1>2. PICK order \in SetToSeqs(late) :
        receipts' = receipts \o [i \in DOMAIN order |-> RefreshEntries(order[i], now)[1]]
  BY DEF ListActions
<1>3. \A k \in Keys : actions'[k] = IF k \in late THEN Refreshed(actions[k], now)
                                    ELSE actions[k]
  BY DEF ListActions
<1>4. \A k \in late : k \in Keys /\ Exists(k) /\ Stale(actions[k], now)
  OBVIOUS
<1> HIDE DEF late
<1>5. PICK n : n = Cardinality(late)
  OBVIOUS
<1>6. /\ n \in Nat /\ order \in [1..n -> late]
      /\ \A i, j \in 1..n : i # j => order[i] # order[j]
      /\ \A x \in late : \E i \in 1..n : order[i] = x
  BY <1>1, <1>5, SequenceOfSet
<1>7. PICK entries : entries = [i \in DOMAIN order |-> RefreshEntries(order[i], now)[1]]
  OBVIOUS
<1>8. ASSUME NEW i \in 1..n
      PROVE  /\ order[i] \in late
             /\ \E event \in RuntimeEvent :
                  /\ entries[i] = Entry(order[i], event)
                  /\ Moved(actions[order[i]], event, Refreshed(actions[order[i]], now))
  <2>1. order[i] \in late /\ i \in DOMAIN order
    BY <1>6
  <2>2. entries[i] = RefreshEntries(order[i], now)[1]
    BY <1>7, <2>1
  <2> QED BY <1>4, <2>1, <2>2, LateEntry
<1>9. ASSUME NEW i \in 1..n
      PROVE  entries[i] \in Receipt /\ entries[i].action = order[i]
  <2>1. PICK event \in RuntimeEvent : entries[i] = Entry(order[i], event)
    BY <1>8
  <2>2. order[i] \in Keys
    BY <1>4, <1>8
  <2>3. Entry(order[i], event) \in Receipt
    BY <2>2, EntryType
  <2> QED BY <2>1, <2>3 DEF Entry
<1>10. entries \in Seq(Receipt) /\ Len(entries) = n
  <2>1. entries \in [1..n -> Receipt]
    BY <1>6, <1>7, <1>9
  <2> QED BY <1>6, <2>1
<1>t. receipts \in Seq(Receipt) /\ actions \in [Keys -> Action \cup {NoAction}]
  BY DEF TypeOK
<1>11. PICK p : p = Len(receipts)
  OBVIOUS
<1>12. p \in Nat
  BY <1>t, <1>11
<1>13. PICK longer : longer = receipts \o entries
  OBVIOUS
<1>s. longer \in Seq(Receipt)
  BY <1>t, <1>10, <1>13, ConcatProperties
<1>14. /\ Len(longer) = p + n
       /\ \A i \in 1..p : longer[i] = receipts[i]
       /\ \A i \in 1..n : longer[p + i] = entries[i]
  <2>1. Len(longer) = p + n
    BY <1>t, <1>10, <1>11, <1>13, ConcatProperties
  <2>2. \A i \in 1..(p + n) : longer[i] = IF i <= p THEN receipts[i] ELSE entries[i - p]
    BY <1>t, <1>10, <1>11, <1>13, ConcatProperties
  <2>3. ASSUME NEW i \in 1..n PROVE longer[p + i] = entries[i]
    <3>1. p + i \in 1..(p + n) /\ ~(p + i <= p) /\ (p + i) - p = i
      BY <1>6, <1>12
    <3> QED BY <2>2, <3>1
  <2>4. \A i \in 1..p : longer[i] = receipts[i]
    BY <2>2, <1>6, <1>12
  <2> QED BY <2>1, <2>3, <2>4
<1>15. ASSUME NEW i \in (p + 1)..(p + n)
       PROVE  i - p \in 1..n /\ longer[i] = entries[i - p]
  <2>1. i - p \in 1..n /\ p + (i - p) = i
    BY <1>6, <1>12
  <2> QED BY <1>14, <2>1
<1>16. ASSUME NEW k \in Keys PROVE Replay(longer, k) = At(actions'[k])
  <2>1. Replay(receipts, k) = At(actions[k])
    BY DEF Agrees
  <2>2. CASE k \notin late
    <3>1. \A i \in (p + 1)..(p + n) : longer[i].action # k
      BY <1>8, <1>9, <1>15, <2>2
    <3>2. Len(receipts) <= Len(longer) /\ Len(receipts) \in Nat /\ Len(longer) \in Nat
      BY <1>6, <1>11, <1>12, <1>14
    <3>3. Replay(longer, k) = Replay(receipts, k)
      BY <1>11, <1>14, <3>1, <3>2, ReplayQuiet
    <3> QED BY <1>3, <2>1, <2>2, <3>3
  <2>3. CASE k \in late
    <3>1. PICK m \in 1..n : order[m] = k
      BY <1>6, <2>3
    <3>2. PICK event \in RuntimeEvent :
            /\ entries[m] = Entry(k, event)
            /\ Moved(actions[k], event, Refreshed(actions[k], now))
      BY <1>8, <3>1
    <3>3. p + m \in (p + 1)..(p + n) /\ longer[p + m] = entries[m]
      BY <1>6, <1>12, <1>14
    <3>4. ASSUME NEW i \in (p + 1)..(p + n), i # p + m
          PROVE  longer[i].action # k
      <4>1. i - p \in 1..n /\ i - p # m
        BY <1>12, <1>15, <3>4
      <4>2. order[i - p] # order[m]
        BY <1>6, <4>1
      <4> QED BY <1>9, <1>15, <3>1, <4>1, <4>2
    <3>5. Len(receipts) <= Len(longer)
      BY <1>6, <1>11, <1>12, <1>14
    <3>6. Replay(longer, k) = ReplayNext(Replay(receipts, k), longer[p + m], k)
      <4>1. PICK j : j = p + m
        OBVIOUS
      <4>2. /\ j \in (Len(receipts) + 1)..Len(longer)
            /\ \A i \in 1..Len(receipts) : longer[i] = receipts[i]
            /\ \A i \in (Len(receipts) + 1)..Len(longer) : i # j => longer[i].action # k
        BY <1>11, <1>14, <3>3, <3>4, <4>1
      <4>3. receipts \in Seq(Receipt)
        BY <1>t
      <4>4. Replay(longer, k) = ReplayNext(Replay(receipts, k), longer[j], k)
        BY <1>s, <3>5, <4>2, <4>3, ReplayOnce
      <4> QED BY <4>1, <4>4
    <3>7. actions[k] \in Action /\ Refreshed(actions[k], now) \in Action
      BY <1>4, <2>3, ExistsType, RefreshedType
    <3>8. ReplayNext(At(actions[k]), Entry(k, event), k) = At(Refreshed(actions[k], now))
      BY <3>2, <3>7, AtMoves
    <3> QED BY <1>3, <2>1, <2>3, <3>2, <3>3, <3>6, <3>8
  <2> QED BY <2>2, <2>3
<1>17. receipts' = longer
  BY <1>2, <1>7, <1>13
<1> QED BY <1>16, <1>17 DEF Agrees

LEMMA DecideAgrees ==
  ASSUME TypeOK, Agrees(receipts, actions), NEW k \in Keys, NEW verdict \in Verdict,
         NEW now, Decide(k, verdict, now)
  PROVE  Agrees(receipts', actions')
<1>1. actions[k] \in Action /\ actions[k].status = "pending" /\ actions[k] # NoAction
  BY ExistsType, StoreAssumption DEF Decide, Refreshed, Action
<1>2. PICK row : row = [actions[k] EXCEPT !.status = verdict, !.decidedBy = "reviewer"]
  OBVIOUS
<1>3. actions' = [actions EXCEPT ![k] = row]
  BY <1>2 DEF Decide, TypeOK
<1>4. row \in Action /\ row.status = verdict /\ row.effect = actions[k].effect
  BY <1>1, <1>2 DEF Action, RuntimeStatus, Verdict, Decider
<1>5. Moved(actions[k], verdict, row) /\ verdict \in RuntimeEvent
  BY <1>1, <1>4 DEF Moved, Moves, Verdict, RuntimeEvent
<1> QED BY <1>3, <1>4, <1>5, AgreesRecord DEF Decide

LEMMA ClaimAgrees ==
  ASSUME TypeOK, Agrees(receipts, actions), NEW r \in Requests, NEW now \in Nat,
         Claim(r, now)
  PROVE  Agrees(receipts', actions')
<1> DEFINE k == KeyOf(r)
<1>k. k \in Keys
  BY KeyType
<1>1. CASE ClaimReplay(r)
  <2>1. actions[k] \in Action /\ actions[k].status = "succeeded" /\ Exists(k)
    BY <1>1, <1>k, ExistsType DEF ClaimReplay, Bound
  <2>2. Moved(actions[k], "result_replayed", actions[k])
    BY <2>1 DEF Moved, Moves, Exists
  <2> QED BY <1>1, <1>k, <2>1, <2>2, AgreesNote DEF ClaimReplay, RuntimeEvent
<1>2. CASE ClaimBlocked(r, now)
  <2>1. actions[k] \in Action /\ actions[k].status = "approved" /\ Exists(k)
    BY <1>2, <1>k, ExistsType DEF ClaimBlocked, Claimable, Bound, Refreshed, Action
  <2>2. /\ Moved(actions[k], "emergency_pause_blocked", actions[k])
        /\ Moved(actions[k], "limit_blocked", actions[k])
    BY <2>1 DEF Moved, Moves, Exists
  <2>3. CASE Record(k, "emergency_pause_blocked")
    BY <1>2, <1>k, <2>1, <2>2, <2>3, AgreesNote DEF ClaimBlocked, RuntimeEvent
  <2>4. CASE Record(k, "limit_blocked")
    BY <1>2, <1>k, <2>1, <2>2, <2>4, AgreesNote DEF ClaimBlocked, RuntimeEvent
  <2> QED BY <1>2, <2>3, <2>4 DEF ClaimBlocked
<1>3. CASE ClaimStart(r, now)
  <2>1. actions[k] \in Action /\ actions[k].status = "approved" /\ actions[k] # NoAction
    BY <1>3, <1>k, ExistsType, StoreAssumption
    DEF ClaimStart, Claimable, Bound, Refreshed, Action
  <2>2. PICK row : row = [actions[k] EXCEPT !.status = "executing", !.lease = now + Lease]
    OBVIOUS
  <2>3. actions' = [actions EXCEPT ![k] = row]
    BY <1>3, <2>2 DEF ClaimStart, TypeOK
  <2>4. now + Lease \in Nat
    BY StoreAssumption
  <2>5. row \in Action /\ row.status = "executing" /\ row.effect = actions[k].effect
    BY <2>1, <2>2, <2>4 DEF Action, RuntimeStatus
  <2>6. Moved(actions[k], "execution_started", row)
    BY <2>1, <2>5 DEF Moved, Moves
  <2> QED BY <1>3, <1>k, <2>3, <2>5, <2>6, AgreesRecord DEF ClaimStart, RuntimeEvent
<1> QED BY <1>1, <1>2, <1>3 DEF Claim

LEMMA CompleteAgrees ==
  ASSUME TypeOK, Agrees(receipts, actions), NEW r \in Requests, NEW result \in Results,
         Complete(r, result)
  PROVE  Agrees(receipts', actions')
<1> DEFINE k == KeyOf(r)
<1>1. /\ k \in Keys /\ actions[k] \in Action /\ actions[k].status = "executing"
      /\ actions[k] # NoAction
  BY KeyType, ExistsType, StoreAssumption DEF Complete, Executing, Bound
<1>2. PICK row : row = [actions[k] EXCEPT !.status = "succeeded", !.result = result,
                                          !.lease = None]
  OBVIOUS
<1>3. actions' = [actions EXCEPT ![k] = row]
  BY <1>2 DEF Complete, TypeOK
<1>4. row \in Action /\ row.status = "succeeded" /\ row.effect = actions[k].effect
  BY <1>1, <1>2 DEF Action, RuntimeStatus, None
<1>5. Moved(actions[k], "execution_succeeded", row)
  BY <1>1, <1>4 DEF Moved, Moves
<1> QED BY <1>1, <1>3, <1>4, <1>5, AgreesRecord DEF Complete, RuntimeEvent

LEMMA MarkUnknownAgrees ==
  ASSUME TypeOK, Agrees(receipts, actions), NEW r \in Requests, MarkUnknown(r)
  PROVE  Agrees(receipts', actions')
<1> DEFINE k == KeyOf(r)
<1>1. /\ k \in Keys /\ actions[k] \in Action /\ actions[k].status = "executing"
      /\ actions[k] # NoAction
  BY KeyType, ExistsType, StoreAssumption DEF MarkUnknown, Executing, Bound
<1>2. PICK row : row = [actions[k] EXCEPT !.status = "unknown", !.lease = None]
  OBVIOUS
<1>3. actions' = [actions EXCEPT ![k] = row]
  BY <1>2 DEF MarkUnknown, TypeOK
<1>4. row \in Action /\ row.status = "unknown" /\ row.effect = actions[k].effect
  BY <1>1, <1>2 DEF Action, RuntimeStatus, None
<1>5. Moved(actions[k], "execution_unknown", row)
  BY <1>1, <1>4 DEF Moved, Moves
<1> QED BY <1>1, <1>3, <1>4, <1>5, AgreesRecord DEF MarkUnknown, RuntimeEvent

LEMMA AgreesInit == Init => Agrees(receipts, actions)
<1> SUFFICES ASSUME Init, NEW k \in Keys PROVE Replay(receipts, k) = At(actions[k])
  BY DEF Agrees
<1>1. receipts = <<>> /\ actions[k] = NoAction
  BY DEF Init
<1>2. Len(receipts) = 0 /\ 0 \in 0..0
  BY <1>1
<1>3. PICK at : IsReplay(at, receipts, k, 0) /\ Replay(receipts, k) = at[0]
  BY <1>2, ReplayIs
<1>4. at[0] = Absent
  BY <1>2, <1>3 DEF IsReplay
<1> QED BY <1>1, <1>3, <1>4 DEF At

LEMMA AgreesStep ==
  TypeOK /\ Agrees(receipts, actions) /\ [Next]_storeVars => Agrees(receipts', actions')
<1> SUFFICES ASSUME TypeOK, Agrees(receipts, actions), [Next]_storeVars
             PROVE  Agrees(receipts', actions')
  OBVIOUS
<1>r. Readings \subseteq Nat
  BY ReadingsType
<1>1. CASE Tick \/ Operator \/ UNCHANGED storeVars
  BY <1>1 DEF Tick, Operator, storeVars
<1>2. CASE Reviewer
  BY <1>2, DecideAgrees DEF Reviewer
<1>3. ASSUME NEW k \in Keys, NEW now \in Readings, Exists(k), RefreshKey(k, now)
      PROVE  Agrees(receipts', actions')
  <2>1. /\ receipts' = receipts \o RefreshEntries(k, now)
        /\ actions' = [actions EXCEPT ![k] = Refreshed(actions[k], now)]
    BY <1>3 DEF RefreshKey
  <2> QED BY <1>3, <2>1, AgreesRefresh
<1>4. CASE Reader
  BY <1>3, <1>4, ListActionsAgrees DEF Reader, GetAction
<1>5. CASE Worker
  <2>1. PICK r \in Requests, now \in Readings :
          \/ Submit(r, now) \/ Claim(r, now)
          \/ \E result \in Results : Complete(r, result)
          \/ MarkUnknown(r)
    BY <1>5 DEF Worker
  <2>2. CASE Submit(r, now)
    BY <1>3, <1>r, <2>2, KeyType, SubmitNewAgrees DEF Submit, SubmitExisting
  <2> QED BY <1>r, <2>1, <2>2, ClaimAgrees, CompleteAgrees, MarkUnknownAgrees
<1>6. CASE Reconciler
  BY <1>6, <1>r, ReconcileCommittedAgrees, ReconcileNotCommittedAgrees DEF Reconciler
<1> QED BY <1>1, <1>2, <1>4, <1>5, <1>6 DEF Next

ReceiptsInv == Agrees(receipts, actions)

(* The receipt chain alone tells the state of every action, for any number *)
(* of actions, deadlines, skewed clocks and concurrent callers: replaying  *)
(* what submit, decide, claim, complete, reconcile and the lazy refreshes  *)
(* recorded never leaves the documented lifecycle, and ends in the row.    *)
THEOREM ReceiptsReplay == Spec => []AuditReplay
<1>1. Init => ReceiptsInv
  BY AgreesInit DEF ReceiptsInv
<1>2. TypeOK /\ ReceiptsInv /\ [Next]_storeVars => ReceiptsInv'
  BY AgreesStep DEF ReceiptsInv
<1>3. ReceiptsInv => AuditReplay
  <2> SUFFICES ASSUME ReceiptsInv, NEW k \in Keys
               PROVE  Replay(receipts, k).status
                        = IF Exists(k) THEN actions[k].status ELSE "absent"
    BY DEF AuditReplay
  <2>1. Replay(receipts, k) = At(actions[k])
    BY DEF ReceiptsInv, Agrees
  <2> QED BY <2>1 DEF At, Absent, Exists
<1> QED BY <1>1, <1>2, <1>3, StoreTypes, PTL DEF Spec

===============================================================================
