------------------------------ MODULE Conformance -----------------------------
(***************************************************************************)
(* The conformance harness (runner.py, scenarios.py) over the reference    *)
(* adapter.  Either a suite runs: one scenario after the other, each a     *)
(* script of calls with the evidence it expects after some of them; or     *)
(* callers that follow no script use one logical run.                      *)
(***************************************************************************)
EXTENDS ReferenceAdapter

CONSTANTS
  Primary, Sibling,
  FreePlans,       \* what callers without a script begin runs with
  Declared         \* sets of scenarios whose capability an adapter may declare

ASSUME HarnessAssumption ==
  /\ Actions = {Primary, Sibling} /\ Primary # Sibling
  /\ \A p \in FreePlans : p \in Plan /\ ValidPlan(p)

-----------------------------------------------------------------------------
(* The scenarios in their order.  The four parts of outcome_reconciliation *)
(* use four actions on one run_id and share nothing but the adapter: here  *)
(* each is a scenario.                                                     *)
Scenarios ==
  <<"approval_hold", "rejection", "argument_binding", "replay", "outcome_ambiguity",
    "reconcile_committed", "reconcile_not_committed", "reconcile_conflict",
    "reconcile_unavailable", "cancellation", "timeout", "parallel_barrier",
    "delegation", "audit_receipts">>

Simple == [actions |-> {Primary}, gated |-> {},
           parent |-> [a \in Actions |-> NoParent],
           timed |-> FALSE, block |-> FALSE, evidence |-> "available"]

PlanOf(s) ==
  CASE s \in {"approval_hold", "rejection", "argument_binding"} ->
         [Simple EXCEPT !.gated = {Primary}]
    [] s = "reconcile_unavailable" -> [Simple EXCEPT !.evidence = "slow"]
    [] s = "cancellation" -> [Simple EXCEPT !.block = TRUE]
    [] s = "timeout" -> [Simple EXCEPT !.block = TRUE, !.timed = TRUE]
    [] s = "parallel_barrier" -> [Simple EXCEPT !.actions = Actions, !.gated = {Primary}]
    [] s = "delegation" ->
         [Simple EXCEPT !.actions = Actions, !.gated = {Primary}, !.parent[Sibling] = Primary]
    [] s = "audit_receipts" -> [Simple EXCEPT !.actions = Actions, !.gated = Actions]
    [] OTHER -> Simple

LosesOf(s) ==
  CASE s \in {"outcome_ambiguity", "reconcile_committed", "reconcile_conflict",
              "reconcile_unavailable"} -> "after_commit"
    [] s = "reconcile_not_committed" -> "before_commit"
    [] OTHER -> "no"

(* The calls of each exercise, each with the evidence that must hold after *)
(* it.                                                                     *)
ApprovalHold ==
  << <<"pending", "all_asked">>, <<"settle", "nothing">>, <<"approve", "any">>,
     <<"outcome", "done_once">> >>
Rejection ==
  << <<"pending", "any">>, <<"reject", "any">>, <<"outcome", "any">>,
     <<"settle", "nothing">> >>
ArgumentBinding ==
  << <<"pending", "any">>, <<"revise", "any">>, <<"outcome", "as_reviewed">> >>
Replayed ==
  << <<"outcome", "done">>, <<"replay", "any">>, <<"outcome", "any">>,
     <<"settle", "once">> >>
OutcomeAmbiguity ==
  << <<"outcome", "unknown_once">>, <<"replay", "any">>, <<"outcome", "any">>,
     <<"settle", "once">> >>
ReconcileCommitted ==
  << <<"outcome", "unknown_once">>, <<"reconcile", "committed">>, <<"replay", "any">>,
     <<"outcome", "done_once">> >>
ReconcileNotCommitted ==
  << <<"outcome", "unknown_none">>, <<"reconcile", "not_committed">>,
     <<"replay", "any">>, <<"outcome", "done_once">> >>
ReconcileConflict ==
  << <<"outcome", "unknown_once">>, <<"interfere", "any">>, <<"reconcile", "conflict">> >>
ReconcileUnavailable ==
  << <<"outcome", "unknown_once">>, <<"reconcile", "unavailable">> >>
Cancellation ==
  << <<"started", "any">>, <<"cancel", "any">>, <<"outcome", "any">>,
     <<"release", "any">>, <<"settle", "cancelled">> >>
Timeout ==
  << <<"started", "any">>, <<"outcome", "any">>, <<"release", "any">>,
     <<"settle", "timed_out">> >>
ParallelBarrier ==
  << <<"pending", "any">>, <<"settle", "profile">>, <<"approve", "any">>,
     <<"outcome", "both_once">> >>
Delegation ==
  << <<"pending", "any">>, <<"settle", "nothing">>, <<"reject", "any">>,
     <<"outcome", "any">>, <<"settle", "nothing">> >>
AuditReceipts ==
  << <<"pending", "all_asked">>, <<"approve", "any">>, <<"reject_sibling", "any">>,
     <<"outcome", "trail">> >>

Script ==
  [approval_hold |-> ApprovalHold, rejection |-> Rejection,
   argument_binding |-> ArgumentBinding, replay |-> Replayed,
   outcome_ambiguity |-> OutcomeAmbiguity, reconcile_committed |-> ReconcileCommitted,
   reconcile_not_committed |-> ReconcileNotCommitted,
   reconcile_conflict |-> ReconcileConflict,
   reconcile_unavailable |-> ReconcileUnavailable, cancellation |-> Cancellation,
   timeout |-> Timeout, parallel_barrier |-> ParallelBarrier,
   delegation |-> Delegation, audit_receipts |-> AuditReceipts]

VARIABLES
  suite,           \* options, what the adapter declares, and the results
  at               \* the scenario under way: its name and the next call

vars == <<adapterVars, suite, at>>

Verdict == {"none", "passed", "failed", "error", "skipped"}

TypeOK ==
  /\ AdapterTypeOK
  /\ suite \in [perAction : BOOLEAN, failFast : BOOLEAN, strict : BOOLEAN,
                declared : Declared, results : [ToSet(Scenarios) -> Verdict]]
  /\ at \in [name : ToSet(Scenarios) \cup {"free", "none"}, step : 1..6]

-----------------------------------------------------------------------------
(* The expectations of the scenarios; a scenario that misses one raises a  *)
(* finding.  They look at the state after the call.                        *)

Total(c) == Len(c[Primary]) + Len(c[Sibling])

Trail(log) ==
  LET Event(e, a) == ActionEvent(e, a, "proposed")
      asked == {Event("approval_requested", a) : a \in Actions}
      decided == {Event("approved", Primary), Event("rejected", Sibling)}
      Place(e) == CHOOSE i \in 1..Len(log) : log[i] = e IN
  /\ Len(log) = 6
  /\ ToSet(log) = asked \cup decided \cup {RunEvent("run_started"), RunEvent("completed")}
  /\ log[1] = RunEvent("run_started") /\ log[Len(log)] = RunEvent("completed")
  /\ Place(Event("approval_requested", Primary)) < Place(Event("approved", Primary))
  /\ Place(Event("approval_requested", Sibling)) < Place(Event("rejected", Sibling))

Reconciled(e) ==
  LET log == receipts'
      end == IF plan.evidence = "slow" THEN "reconciliation_timed_out" ELSE e IN
  /\ runs'[1].evidence[Primary] = e
  /\ \E i, j \in 1..Len(log) :
       /\ i < j
       /\ log[i] = ActionEvent("reconciliation_started", Primary, "proposed")
       /\ log[j] = ActionEvent(end, Primary, "proposed")

Expected(e) ==
  LET status == runs'[Len(runs')].status IN
  CASE e = "any" -> TRUE
    [] e = "all_asked" ->
         {a \in Actions : runs'[1].decision[a] # "none"} = plan.gated
    [] e = "nothing" -> Total(commits') = 0
    [] e = "done" -> status = "completed"
    [] e = "once" -> Total(commits') = 1
    [] e = "done_once" -> status = "completed" /\ Total(commits') = 1
    [] e = "as_reviewed" -> commits'[Primary] = <<"reviewed">>
    [] e = "unknown_once" -> status = "unknown" /\ Total(commits') = 1
    [] e = "unknown_none" -> status = "unknown" /\ Total(commits') = 0
    [] e = "cancelled" -> status = "cancelled" /\ Total(commits') = 0
    [] e = "timed_out" -> status = "timed_out" /\ Total(commits') = 0
    [] e = "profile" -> IF suite.perAction THEN commits'[Primary] = <<>>
                        ELSE Total(commits') = 0
    [] e = "both_once" -> status = "completed" /\ \A a \in Actions : Len(commits'[a]) = 1
    [] e = "trail" -> /\ status = "completed" /\ Trail(receipts')
                      /\ Len(commits'[Primary]) = 1 /\ commits'[Sibling] = <<>>
    [] OTHER -> Reconciled(e)

(* What each call does; those that wait for something do nothing else.     *)
Calls(op) ==
  CASE op = "pending" -> Asked(1) /\ UNCHANGED adapterVars
    [] op = "settle" -> UNCHANGED adapterVars
    [] op = "approve" -> Decide(Current, Primary, "approve")
    [] op = "revise" -> Decide(Current, Primary, "revise")
    [] op = "reject" -> Decide(Current, Primary, "reject")
    [] op = "reject_sibling" -> Decide(Current, Sibling, "reject")
    [] op = "started" -> started /\ UNCHANGED adapterVars
    [] op = "outcome" -> Done(Current) /\ UNCHANGED adapterVars
    [] op = "cancel" -> Cancel(Current)
    [] op = "release" -> Release
    [] op = "replay" -> Replay
    [] op = "reconcile" -> Reconcile(1, Primary)
    [] op = "interfere" ->
         /\ commits' = Committed(Primary, "foreign")
         /\ UNCHANGED <<plan, probe, runs, completed, started, receipts>>

-----------------------------------------------------------------------------
(* SuiteRunner.                                                            *)

Begin(p, lose) ==
  LET b == Begun(p, lose) IN
  /\ plan = b.plan /\ probe = b.probe /\ runs = b.runs /\ completed = b.completed
  /\ commits = b.commits /\ started = b.started /\ receipts = b.receipts

Result(s, verdict) == suite' = [suite EXCEPT !.results[s] = verdict]

Stopped == \E s \in ToSet(Scenarios) :
             suite.failFast /\ suite.results[s] \in {"failed", "error"}

(* The scenarios without a result, by their places, and the next of them.  *)
Remaining == {i \in 1..Len(Scenarios) : suite.results[Scenarios[i]] = "none"}
Upcoming == Scenarios[Min(Remaining)]

Skip ==
  /\ at.name = "none" /\ ~Stopped /\ Remaining # {}
  /\ Upcoming \notin suite.declared
  /\ Result(Upcoming, "skipped")
  /\ UNCHANGED <<adapterVars, at>>

StartScenario ==
  LET s == Upcoming
      b == Begun(PlanOf(s), LosesOf(s)) IN
  /\ at.name = "none" /\ ~Stopped /\ Remaining # {}
  /\ s \in suite.declared
  /\ at' = [name |-> s, step |-> 1]
  /\ plan' = b.plan /\ probe' = b.probe /\ runs' = b.runs /\ completed' = b.completed
  /\ commits' = b.commits /\ started' = b.started /\ receipts' = b.receipts
  /\ UNCHANGED suite

(* The handles are closed and the journal is dropped: nothing of the       *)
(* scenario is left.                                                       *)
Over(s, verdict) == Result(s, verdict) /\ at' = [name |-> "none", step |-> 1]

ScriptStep ==
  LET script == Script[at.name]
      call == script[at.step] IN
  /\ at.name \notin {"free", "none"}
  /\ Calls(call[1])
  /\ IF ~Expected(call[2]) THEN Over(at.name, "failed")
     ELSE IF at.step = Len(script) THEN Over(at.name, "passed")
     ELSE at' = [at EXCEPT !.step = @ + 1] /\ UNCHANGED suite

(* wait_started is given up: the run ended before its effect started.      *)
GivesUp ==
  /\ at.name \notin {"free", "none"}
  /\ Script[at.name][at.step][1] = "started"
  /\ Done(Current) /\ ~started
  /\ Over(at.name, "error")
  /\ UNCHANGED adapterVars

(* Callers without a script.                                               *)
FreeCall ==
  /\ at.name = "free"
  /\ \/ \E h \in 1..Len(runs), a \in Actions :
          (\E d \in Decision : Decide(h, a, d)) \/ Reconcile(h, a)
     \/ Cancel(Current) \/ Release \/ Replay
  /\ UNCHANGED <<suite, at>>

Init ==
  /\ suite \in [perAction : BOOLEAN, failFast : BOOLEAN, strict : BOOLEAN,
                declared : Declared, results : {[s \in ToSet(Scenarios) |-> "none"]}]
  /\ \/ at = [name |-> "none", step |-> 1] /\ Begin(PlanOf("replay"), "no")
     \/ /\ at = [name |-> "free", step |-> 1]
        /\ \E p \in FreePlans : \E lose \in {"no", "before_commit", "after_commit"} :
             Begin(p, lose)
        /\ ~suite.perAction /\ ~suite.failFast /\ ~suite.strict
        /\ suite.declared = ToSet(Scenarios)

SuiteOver == at.name = "none" /\ (Stopped \/ Remaining = {})

(* A suite that is over, or callers that have nothing left to do.          *)
AtRest ==
  /\ SuiteOver \/ at.name = "free"
  /\ UNCHANGED vars

Next ==
  \/ at.name # "none" /\ Steps /\ UNCHANGED <<suite, at>>
  \/ ScriptStep \/ GivesUp \/ Skip \/ StartScenario
  \/ FreeCall \/ AtRest

Spec == Init /\ [][Next]_vars

-----------------------------------------------------------------------------
(* SuiteResult.exit_code is 0.                                             *)
Passed ==
  /\ \A s \in ToSet(Scenarios) : suite.results[s] \notin {"failed", "error"}
  /\ suite.strict => \A s \in ToSet(Scenarios) : suite.results[s] # "skipped"

(* The reference adapter is "the executable contract" (docs/adapters.md):  *)
(* no scenario ever raises a finding against it, whatever the order of the *)
(* tasks; only the timeout scenario can end in an error, when the timeout  *)
(* fires before the effect has started; and a suite without errors on an   *)
(* adapter that declares everything passes under both profiles.            *)
ScenariosPass ==
  /\ \A s \in ToSet(Scenarios) :
       /\ suite.results[s] # "failed"
       /\ suite.results[s] = "error" => s = "timeout"
  /\ SuiteOver /\ suite.declared = ToSet(Scenarios)
     /\ suite.results["timeout"] # "error" => Passed

(* A commit is one that the run may make: every approval of the run is     *)
(* decided, none against the action or what it is delegated by, with the   *)
(* arguments that were reviewed; it is the first of this action, and when  *)
(* its response was lost before, somebody has proved that it was not       *)
(* committed; and the run is not over.                                     *)
Sanctioned(h, a) ==
  /\ ~Done(h)
  /\ \A b \in plan.gated : runs[h].decision[b] \in Decision
  /\ \A b \in {a} \cup AncestorsOf(plan, a) :
       b \in plan.gated => runs[h].decision[b] \in {"approve", "revise"}
  /\ commits'[a] = <<ArgumentsOf(runs[h], a)>>
  /\ \A g \in 1..(h - 1) : runs[g].task[a] = "ambiguous" =>
       \E f \in 1..(h - 1) : runs[f].evidence[a] = "not_committed"

(* An outcome is one that the effects bear out: completed means that every *)
(* action that was let through is committed, or its response was lost and  *)
(* nobody has proved that it was not committed; unknown means that one was *)
(* lost.                                                                   *)
Honest(h) ==
  /\ runs'[h].status = "completed" =>
       \A a \in Executable(runs'[h]) :
         \/ commits'[a] # <<>>
         \/ /\ \E g \in 1..h : runs'[g].task[a] = "ambiguous"
            /\ \A g \in 1..h : runs'[g].evidence[a] # "not_committed"
  /\ runs'[h].status = "unknown" => Ambiguous(runs'[h]) # {}

(* docs/adapters.md, of every run of callers that follow no script.        *)
ContractKept ==
  [][at.name = "free" =>
       /\ \A a \in Actions : commits'[a] # commits[a] => Sanctioned(Current, a)
       /\ Done(Current)' /\ ~Done(Current) => Honest(Current)]_vars
==============================================================================
