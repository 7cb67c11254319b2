--------------------------- MODULE RuntimeControls ---------------------------
(***************************************************************************)
(* Emergency pauses and fixed-window execution limits: the operator side   *)
(* of runtime/store.py and the capacity a claim reserves.                  *)
(*                                                                         *)
(* The module owns the tables runtime_pauses, runtime_limits,              *)
(* runtime_limit_usage, runtime_limit_reservations and                     *)
(* runtime_control_receipts.  RuntimeStore extends it with the actions     *)
(* and calls Reserve and Release inside its own transactions.              *)
(*                                                                         *)
(* Definitions named Wrong... are not part of the model: each is the       *)
(* definition after it with one plausible mistake, kept to show which      *)
(* property notices the mistake.                                           *)
(***************************************************************************)
EXTENDS Integers, Sequences, FiniteSets, FiniteSetsExt

CONSTANTS
  Namespaces,      \* namespaces the requests use
  Tools,           \* tool names the requests use
  Global,          \* the empty string of a scope column: any namespace or tool
  IdempotencyKeys, \* caller-chosen idempotency keys
  Arguments,       \* dotted argument paths a limit may measure
  NoArgument,      \* a NULL value_argument
  Requests,        \* the exact requests; two requests are equal iff their digests are
  LimitIds,        \* identifiers of limits
  NoLimit,         \* no row for a limit identifier
  PauseScopes,     \* scopes operators pause
  LimitSettings,   \* what operators pass to configure_limit
  MaxClock,        \* bound on the clock
  MaxControls      \* bound on the control receipts, hence on operator changes

None == -1         \* SQL NULL in an integer column

Scope == (Namespaces \cup {Global}) \X (Tools \cup {Global})

Request == [namespace : Namespaces, tool : Tools, key : IdempotencyKeys,
            amounts : [Arguments -> Nat \cup {None}]]

LimitSetting == [scope : Scope, window : Nat \ {0},
                 argument : Arguments \cup {NoArgument},
                 maxActions : (Nat \ {0}) \cup {None},
                 maxValue : (Nat \ {0}) \cup {None}]

(* The unique index of runtime_actions: one row per namespace, tool and    *)
(* idempotency key.                                                        *)
KeyOf(r) == <<r.namespace, r.tool, r.key>>
Keys == {KeyOf(r) : r \in Requests}

(* What configure_limit validates before its transaction, and that the     *)
(* placeholder values are not values of the columns they stand for.        *)
ASSUME ControlsAssumption ==
  /\ Global \notin Namespaces /\ Global \notin Tools
  /\ NoArgument \notin Arguments
  /\ Requests \subseteq Request
  /\ IsFiniteSet(Keys)
  /\ PauseScopes \subseteq Scope
  /\ LimitSettings \subseteq LimitSetting
  /\ \A s \in LimitSettings :
       /\ (s.argument = NoArgument) <=> (s.maxValue = None)
       /\ s.maxActions # None \/ s.maxValue # None
  /\ MaxClock \in Nat /\ MaxControls \in Nat

Windows == 0..MaxClock
LimitWindows == LimitIds \X Windows

(* A quantity of limit capacity: executions, and units of the measured     *)
(* argument.                                                               *)
Capacity == [actions : Int, value : Int]
NoCapacity == [lw \in LimitWindows |-> [actions |-> 0, value |-> 0]]

Limit == [setting : LimitSetting, enabled : BOOLEAN]

ASSUME LimitAssumption == NoLimit \notin Limit

ControlEvent == {"emergency_pause_set", "emergency_pause_cleared",
                 "limit_configured", "limit_disabled"}
ControlReceipt == [event : ControlEvent, subject : Scope \cup LimitIds]

VARIABLES
  pauses,          \* scopes with an active emergency pause
  limits,          \* LimitIds -> a limit row, or NoLimit
  usage,           \* capacity used per limit and window
  held,            \* Keys -> what its unreleased reservations add up to
  controlReceipts  \* the operator audit trail, in sequence order

operatorVars == <<pauses, limits, controlReceipts>>
capacityVars == <<usage, held>>
controlVars == <<pauses, limits, usage, held, controlReceipts>>

ControlsTypeOK ==
  /\ pauses \subseteq Scope
  /\ limits \in [LimitIds -> Limit \cup {NoLimit}]
  /\ usage \in [LimitWindows -> Capacity]
  /\ held \in [Keys -> [LimitWindows -> Capacity]]
  /\ controlReceipts \in Seq(ControlReceipt)

ControlsInit ==
  /\ pauses = {}
  /\ limits = [l \in LimitIds |-> NoLimit]
  /\ usage = NoCapacity
  /\ held = [k \in Keys |-> NoCapacity]
  /\ controlReceipts = <<>>

-----------------------------------------------------------------------------
(* Matching: a NULL namespace or tool in a scope is stored as '' and       *)
(* matches everything.                                                     *)

Covers(scope, r) == /\ scope[1] \in {Global, r.namespace}
                    /\ scope[2] \in {Global, r.tool}

(* Wrong: a pause matches its exact scope only.                            *)
WrongPaused(r) == <<r.namespace, r.tool>> \in pauses
Paused(r) == \E scope \in pauses : Covers(scope, r)

MatchingLimits(r) ==
  {l \in LimitIds : /\ limits[l] # NoLimit
                    /\ limits[l].enabled
                    /\ Covers(limits[l].setting.scope, r)}

WindowStart(l, now) == now - (now % limits[l].setting.window)

(* What request r takes from limit l: NoArgument counts executions only.   *)
Amount(l, r) == IF limits[l].setting.argument = NoArgument THEN 0
                ELSE r.amounts[limits[l].setting.argument]

(* Wrong: compares what was used before the claim.                         *)
WrongAdmits(l, r, now) ==
  LET setting == limits[l].setting
      used    == usage[<<l, WindowStart(l, now)>>]
  IN /\ Amount(l, r) # None
     /\ setting.maxActions # None => used.actions <= setting.maxActions
     /\ setting.maxValue # None => used.value <= setting.maxValue

(* A limit admits r when the measured argument is a non-negative integer   *)
(* and neither configured maximum would be passed.                         *)
Admits(l, r, now) ==
  LET setting == limits[l].setting
      used    == usage[<<l, WindowStart(l, now)>>]
  IN /\ Amount(l, r) # None
     /\ setting.maxActions # None => used.actions + 1 <= setting.maxActions
     /\ setting.maxValue # None => used.value + Amount(l, r) <= setting.maxValue

HasCapacity(r, now) == \A l \in MatchingLimits(r) : Admits(l, r, now)

(* The rows _reserve_limit_capacity inserts: one per matching limit, in    *)
(* the window of the claim's clock reading.                                *)
ReservationFor(r, now) ==
  [lw \in LimitWindows |->
    IF lw[1] \in MatchingLimits(r) /\ lw[2] = WindowStart(lw[1], now)
    THEN [actions |-> 1, value |-> Amount(lw[1], r)]
    ELSE [actions |-> 0, value |-> 0]]

Plus(c, d)  == [lw \in LimitWindows |-> [actions |-> c[lw].actions + d[lw].actions,
                                         value   |-> c[lw].value + d[lw].value]]
Minus(c, d) == [lw \in LimitWindows |-> [actions |-> c[lw].actions - d[lw].actions,
                                         value   |-> c[lw].value - d[lw].value]]

(* _reserve_limit_capacity once every matching limit admits the request.   *)
Reserve(r, now) ==
  /\ usage' = Plus(usage, ReservationFor(r, now))
  /\ held' = [held EXCEPT ![KeyOf(r)] = Plus(@, ReservationFor(r, now))]

(* Wrong: the usage goes down, the reservations are not marked released.   *)
WrongReleaseTwice(k) ==
  /\ usage' = Minus(usage, held[k])
  /\ held' = held

(* Wrong: nothing is released.                                             *)
WrongReleaseNothing(k) == UNCHANGED <<usage, held>>

(* _release_limit_capacity: give back every reservation key k still holds. *)
Release(k) ==
  /\ usage' = Minus(usage, held[k])
  /\ held' = [held EXCEPT ![k] = NoCapacity]

-----------------------------------------------------------------------------
(* Operator calls.  Each is one transaction that appends its receipt.      *)

RecordControl(event, subject) ==
  /\ Len(controlReceipts) < MaxControls
  /\ controlReceipts' = Append(controlReceipts, [event |-> event, subject |-> subject])

SetPause(scope) ==
  /\ pauses' = pauses \cup {scope}
  /\ RecordControl("emergency_pause_set", scope)
  /\ UNCHANGED <<limits, usage, held>>

ClearPause(scope) ==
  /\ scope \in pauses
  /\ pauses' = pauses \ {scope}
  /\ RecordControl("emergency_pause_cleared", scope)
  /\ UNCHANGED <<limits, usage, held>>

(* Wrong: the window of an existing limit may change.                      *)
WrongSameIdentity(s, t) == s.scope = t.scope /\ s.argument = t.argument

(* The scope, window and value argument of an existing limit never change. *)
SameIdentity(s, t) == /\ s.scope = t.scope
                      /\ s.window = t.window
                      /\ s.argument = t.argument

(* Wrong: configuring a disabled limit again leaves it disabled.           *)
WrongConfigureLimit(l, setting) ==
  /\ limits[l] # NoLimit => SameIdentity(limits[l].setting, setting)
  /\ limits' = [limits EXCEPT ![l] =
       [setting |-> setting, enabled |-> limits[l] = NoLimit \/ limits[l].enabled]]
  /\ RecordControl("limit_configured", l)
  /\ UNCHANGED <<pauses, usage, held>>

ConfigureLimit(l, setting) ==
  /\ limits[l] # NoLimit => SameIdentity(limits[l].setting, setting)
  /\ limits' = [limits EXCEPT ![l] = [setting |-> setting, enabled |-> TRUE]]
  /\ RecordControl("limit_configured", l)
  /\ UNCHANGED <<pauses, usage, held>>

DisableLimit(l) ==
  /\ limits[l] # NoLimit
  /\ limits[l].enabled
  /\ limits' = [limits EXCEPT ![l] = [setting |-> limits[l].setting, enabled |-> FALSE]]
  /\ RecordControl("limit_disabled", l)
  /\ UNCHANGED <<pauses, usage, held>>

OperatorStep ==
  \/ \E scope \in PauseScopes : SetPause(scope) \/ ClearPause(scope)
  \/ \E l \in LimitIds :
       \/ DisableLimit(l)
       \/ \E setting \in LimitSettings : ConfigureLimit(l, setting)

-----------------------------------------------------------------------------
(* Properties.                                                             *)

(* The sum of f over the finite set S.                                     *)
SumOf(f, S) ==
  LET sum[T \in SUBSET S] ==
        IF T = {} THEN 0
        ELSE LET x == CHOOSE x \in T : TRUE IN f[x] + sum[T \ {x}]
  IN sum[S]

(* The usage counters of every window add up to the unreleased             *)
(* reservations taken in it: nothing is counted twice by a claim, released *)
(* twice by a reconciliation, or left counted after a release.             *)
UsageIsHeld ==
  \A lw \in LimitWindows :
    /\ usage[lw].actions = SumOf([k \in Keys |-> held[k][lw].actions], Keys)
    /\ usage[lw].value = SumOf([k \in Keys |-> held[k][lw].value], Keys)

(* A step that takes capacity from a limit leaves its use of that window   *)
(* within the maxima configured at that moment, however the limit was      *)
(* lowered, disabled or re-enabled before.                                 *)
WithinMaxima ==
  \A l \in LimitIds, w \in Windows :
    LET before == usage[<<l, w>>]
        after  == usage'[<<l, w>>]
    IN after.actions > before.actions \/ after.value > before.value =>
         /\ limits[l].enabled
         /\ limits[l].setting.maxActions # None =>
              after.actions <= limits[l].setting.maxActions
         /\ limits[l].setting.maxValue # None =>
              after.value <= limits[l].setting.maxValue
LimitRespected == [][WithinMaxima]_usage

(* Every reservation lies in a window of its limit as the limit stands     *)
(* now, so current-window usage reports never miss part of it.             *)
HeldInItsWindow ==
  \A k \in Keys, l \in LimitIds, w \in Windows :
    held[k][<<l, w>>].actions > 0 =>
      limits[l] # NoLimit /\ w % limits[l].setting.window = 0

(* Where the receipts of subject stand in the operator audit trail.        *)
ControlTrail(events, subject) ==
  {i \in DOMAIN controlReceipts : /\ controlReceipts[i].event \in events
                                  /\ controlReceipts[i].subject = subject}

LatestEvent(trail) == IF trail = {} THEN "none" ELSE controlReceipts[Max(trail)].event

(* The control receipts account for what claims obey: a scope is paused    *)
(* iff its latest receipt set the pause, and a limit is enforced iff its   *)
(* latest receipt configured it.                                           *)
ControlsAudited ==
  /\ \A scope \in Scope :
       scope \in pauses <=>
         LatestEvent(ControlTrail({"emergency_pause_set", "emergency_pause_cleared"}, scope))
           = "emergency_pause_set"
  /\ \A l \in LimitIds :
       (limits[l] # NoLimit /\ limits[l].enabled) <=>
         LatestEvent(ControlTrail({"limit_configured", "limit_disabled"}, l))
           = "limit_configured"

=============================================================================
