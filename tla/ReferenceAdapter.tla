--------------------------- MODULE ReferenceAdapter ---------------------------
(***************************************************************************)
(* The reference adapter of the conformance harness and the sentinel it    *)
(* drives (adapters/reference.py, adapter.py, probe.py, journal.py): one   *)
(* logical run, its replays, and the effects, which are tasks of an event  *)
(* loop.  A task runs from one await to the next without interruption; a   *)
(* cancellation is an exception it gets at its next step.                  *)
(*                                                                         *)
(* Definitions named Wrong... are not part of the model: each is the       *)
(* definition after it with one plausible mistake, kept to show which      *)
(* property notices the mistake.                                           *)
(***************************************************************************)
EXTENDS Integers, SequencesExt

CONSTANTS
  Actions,         \* the actions of the logical run
  NoParent,
  MaxRuns          \* bound: handles, the first and those of its replays

ASSUME AdapterAssumption == NoParent \notin Actions /\ MaxRuns \in Nat \ {0}

Decision == {"approve", "revise", "reject"}      \* revise: with a replacement

(* What a run is begun with, and how its sentinel behaves.                 *)
Plan == [actions : SUBSET Actions, gated : SUBSET Actions,
         parent : [Actions -> Actions \cup {NoParent}], timed : BOOLEAN,
         block : BOOLEAN, evidence : {"available", "slow", "unavailable"}]

AncestorsOf(p, a) ==
  LET Parents(S) == {p.parent[b] : b \in S} \ {NoParent}
      up[n \in Nat] == IF n = 0 THEN Parents({a}) ELSE up[n - 1] \cup Parents(up[n - 1])
  IN up[Cardinality(Actions)]

(* validate_actions; identities are distinct, the actions being a set.     *)
ValidPlan(p) ==
  /\ p.actions # {} /\ p.gated \subseteq p.actions
  /\ \A a \in p.actions :
       /\ p.parent[a] \in p.actions \cup {NoParent}
       /\ a \notin AncestorsOf(p, a)

VARIABLES
  plan,
  probe,           \* the sentinel's release event and the response it will lose
  runs,            \* the handles
  completed,       \* _completed of the adapter: not to be executed again
  commits,         \* the journal's commits of each action: their arguments
  started,         \* an invocation has crossed the execution boundary
  receipts         \* the journal's audit receipts

adapterVars == <<plan, probe, runs, completed, commits, started, receipts>>

Undecided == {"none", "pending"}
(* "no_outcome": the run's task ended by an exception of its own.          *)
RunStatus == {"none", "no_outcome", "completed", "cancelled", "timed_out", "unknown"}
ReconciliationStatus == {"committed", "not_committed", "conflict", "unavailable"}

Run == [phase : {"created", "approvals", "executing", "settling", "done"},
        decision : [Actions -> Decision \cup Undecided \cup {"cancelled"}],
        task : [Actions -> {"none", "ready", "blocked", "done", "ambiguous", "stopped"}],
        stop : {"no", "cancelled", "timed_out"},
        status : RunStatus,
        evidence : [Actions -> ReconciliationStatus \cup {"none"}]]

Arguments == {"proposed", "reviewed", "foreign"}

AuditEvent == {"run_started", "approval_requested", "approved", "rejected", "completed",
               "cancelled", "timed_out", "unknown", "reconciliation_started",
               "reconciliation_timed_out"} \cup ReconciliationStatus

AuditReceipt == [event : AuditEvent, action : Actions \cup {NoParent},
                 arguments : Arguments]

Unfinished(r) == {a \in Actions : r.task[a] \in {"ready", "blocked"}}
Ambiguous(r) == {a \in Actions : r.task[a] = "ambiguous"}

(* A handle that is done has an outcome and no task of it is left running. *)
AdapterTypeOK ==
  /\ plan \in Plan /\ ValidPlan(plan)
  /\ probe \in [released : BOOLEAN, lose : {"no", "before_commit", "after_commit"}]
  /\ runs \in Seq(Run) /\ Len(runs) \leq MaxRuns
  /\ \A h \in 1..Len(runs) :
       /\ runs[h].phase = "done" <=> runs[h].status # "none"
       /\ runs[h].phase = "done" => Unfinished(runs[h]) = {}
       /\ h < Len(runs) => runs[h].phase = "done"
  /\ completed \subseteq plan.actions
  /\ commits \in [Actions -> Seq(Arguments)]
  /\ started \in BOOLEAN
  /\ receipts \in Seq(AuditReceipt)

NewRun == [phase |-> "created", decision |-> [a \in Actions |-> "none"],
           task |-> [a \in Actions |-> "none"], stop |-> "no", status |-> "none",
           evidence |-> [a \in Actions |-> "none"]]

RunEvent(event) == [event |-> event, action |-> NoParent, arguments |-> "proposed"]
ActionEvent(event, a, arguments) == [event |-> event, action |-> a, arguments |-> arguments]

NewProbe(p, lose) == [released |-> ~p.block, lose |-> lose]

(* begin: a journal, an adapter and a run that are new.                    *)
Begun(p, lose) ==
  [plan |-> p, probe |-> NewProbe(p, lose), runs |-> <<NewRun>>,
   completed |-> {}, commits |-> [a \in Actions |-> <<>>], started |-> FALSE,
   receipts |-> <<RunEvent("run_started")>>]

Current == Len(runs)
Becomes(h, r) == runs' = [runs EXCEPT ![h] = r]
(* wait_for_pending.                                                       *)
Asked(h) == plan.gated # {} /\ runs[h].phase # "created"
Done(h) == runs[h].phase = "done"
Record(event) == receipts' = Append(receipts, event)

-----------------------------------------------------------------------------
(* _drive, _resolve_approvals and _execute_all.                            *)

(* Wrong: the decision on its parent does not bind a delegated action.     *)
WrongAllowed(r, a) == TRUE
Allowed(r, a) ==
  \A b \in AncestorsOf(plan, a) \cap plan.gated : r.decision[b] \in {"approve", "revise"}

Executable(r) ==
  {a \in plan.actions : /\ Allowed(r, a)
                        /\ a \in plan.gated => r.decision[a] \in {"approve", "revise"}}

ArgumentsOf(r, a) == IF r.decision[a] = "revise" THEN "reviewed" ELSE "proposed"

Ended(r, status) == [r EXCEPT !.phase = "done", !.status = status]

(* One task for each action that is not completed; nothing is awaited when *)
(* there is none.                                                          *)
Execute(h, r) ==
  LET tasks == Executable(r) \ completed IN
  IF tasks = {}
  THEN Becomes(h, Ended(r, "completed")) /\ Record(RunEvent("completed"))
  ELSE /\ Becomes(h, [r EXCEPT !.phase = "executing",
                       !.task = [a \in Actions |-> IF a \in tasks THEN "ready" ELSE "none"]])
       /\ UNCHANGED receipts

(* The first step of the run: approvals are requested.                     *)
Drive(h) ==
  /\ runs[h].phase = "created"
  /\ IF plan.gated = {} THEN Execute(h, runs[h])
     ELSE /\ Becomes(h, [runs[h] EXCEPT !.phase = "approvals", !.decision =
                          [a \in Actions |-> IF a \in plan.gated THEN "pending" ELSE "none"]])
          /\ receipts' = receipts \o [i \in 1..Cardinality(plan.gated) |->
               ActionEvent("approval_requested", SetToSeq(plan.gated)[i], "proposed")]
  /\ UNCHANGED <<plan, probe, completed, commits, started>>

(* approve and reject, which check only that the decision is outstanding.  *)
Decide(h, a, d) ==
  /\ runs[h].decision[a] = "pending"
  /\ Becomes(h, [runs[h] EXCEPT !.decision[a] = d])
  /\ Record(ActionEvent(IF d = "reject" THEN "rejected" ELSE "approved", a,
                        IF d = "revise" THEN "reviewed" ELSE "proposed"))
  /\ UNCHANGED <<plan, probe, completed, commits, started>>

(* With a timeout, Python before 3.12 runs the lifecycle as a task of its  *)
(* own, which a cancellation reaches only after a step of the driver.      *)
GoesOn(r) == r.stop = "no" \/ plan.timed

Resolved(r) == \A a \in plan.gated : r.decision[a] \in Decision

Resolve(h) ==
  /\ runs[h].phase = "approvals" /\ Resolved(runs[h]) /\ GoesOn(runs[h])
  /\ Execute(h, runs[h])
  /\ UNCHANGED <<plan, probe, completed, commits, started>>

(* Wrong: an action whose response was lost is not marked as completed.    *)
WrongCompletes(a) == IF probe.lose = "no" THEN {a} ELSE {}
Completes(a) == {a}

Committed(a, arguments) == [commits EXCEPT ![a] = Append(@, arguments)]

(* _execute_one and the sentinel from its release on: no await in between. *)
Commit(h, a) ==
  /\ completed' = completed \cup Completes(a)
  /\ commits' = IF probe.lose = "before_commit" THEN commits
                ELSE Committed(a, ArgumentsOf(runs[h], a))
  /\ Becomes(h, [runs[h] EXCEPT !.task[a] = IF probe.lose = "no" THEN "done" ELSE "ambiguous"])
  /\ probe' = [probe EXCEPT !.lose = "no"]

(* The task of one effect, up to the sentinel's wait and after it.         *)
Effect(h, a) ==
  /\ runs[h].phase = "executing" /\ runs[h].task[a] \in {"ready", "blocked"}
  /\ IF probe.released THEN Commit(h, a)
     ELSE /\ runs[h].task[a] = "ready"
          /\ Becomes(h, [runs[h] EXCEPT !.task[a] = "blocked"])
          /\ UNCHANGED <<probe, completed, commits>>
  /\ started' = TRUE
  /\ UNCHANGED <<plan, receipts>>

Release ==
  /\ ~probe.released
  /\ probe' = [probe EXCEPT !.released = TRUE]
  /\ UNCHANGED <<plan, runs, completed, commits, started, receipts>>

-----------------------------------------------------------------------------
(* Cancellation, timeout and the end of a run.                             *)

(* The driver waits for the first decision that is outstanding; cancelling *)
(* it cancels that one.                                                    *)
Awaited(r) ==
  LET outstanding == SelectSeq(SetToSeq(plan.gated), LAMBDA a : r.decision[a] = "pending") IN
  IF r.phase = "approvals" /\ outstanding # <<>> THEN {Head(outstanding)} ELSE {}

(* Wrong: effects that have not finished go on after the end of the run.   *)
WrongFenced(r) == r
Fenced(r) ==
  [r EXCEPT
     !.task = [a \in Actions |-> IF a \in Unfinished(r) THEN "stopped" ELSE r.task[a]],
     !.decision = [a \in Actions |-> IF a \in Awaited(r) THEN "cancelled" ELSE r.decision[a]]]

(* cancel and close.  A run that never took its first step never gets to   *)
(* its handlers: it ends without an outcome, and cancel and wait raise     *)
(* CancelledError.  The effects of a run without a timeout are cancelled   *)
(* with it, unless one of them has raised already.                         *)
Cancel(h) ==
  LET r == [runs[h] EXCEPT !.stop = "cancelled"] IN
  /\ ~Done(h)
  /\ Becomes(h, IF r.phase = "created" THEN Ended(runs[h], "no_outcome")
                ELSE IF ~plan.timed /\ Ambiguous(r) = {} THEN Fenced(r) ELSE r)
  /\ UNCHANGED <<plan, probe, completed, commits, started, receipts>>

TimesOut(h) ==
  /\ plan.timed /\ runs[h].phase \notin {"created", "done"} /\ runs[h].stop = "no"
  /\ Becomes(h, [runs[h] EXCEPT !.stop = "timed_out"])
  /\ UNCHANGED <<plan, probe, completed, commits, started, receipts>>

(* The driver gets the exception of an effect or of whoever stopped it,    *)
(* cancels the effects that are left and waits for them.                   *)
Settle(h) ==
  LET r == Fenced(runs[h]) IN
  /\ \/ /\ runs[h].phase = "approvals" /\ r.stop # "no"
        /\ Becomes(h, Ended(r, r.stop)) /\ Record(RunEvent(r.stop))
     \/ /\ runs[h].phase = "executing" /\ (r.stop # "no" \/ Ambiguous(r) # {})
        /\ Becomes(h, [r EXCEPT !.phase = "settling"]) /\ UNCHANGED receipts
  /\ UNCHANGED <<plan, probe, completed, commits, started>>

(* What the effects themselves amount to.                                  *)
OwnOutcome(r) ==
  IF Ambiguous(r) # {} THEN {"unknown"}
  ELSE IF \E a \in Actions : r.task[a] = "stopped" THEN {} ELSE {"completed"}

Outcomes(r) == (IF r.stop = "no" THEN {} ELSE {r.stop})
               \cup (IF GoesOn(r) THEN OwnOutcome(r) ELSE {})

Finish(h) ==
  /\ \/ runs[h].phase = "settling"
     \/ /\ runs[h].phase = "executing" /\ Ambiguous(runs[h]) = {}
        /\ Unfinished(runs[h]) = {}
  /\ \E status \in Outcomes(runs[h]) :
       Becomes(h, Ended(runs[h], status)) /\ Record(RunEvent(status))
  /\ UNCHANGED <<plan, probe, completed, commits, started>>

-----------------------------------------------------------------------------
(* Reconciliation and replay, asked for when nothing runs.                 *)

(* EffectProbe.reconcile, and the timeout of the adapter's reconcile.  The *)
(* digest that is expected is the one of the proposed arguments.           *)
Evidence(a) ==
  IF plan.evidence # "available" THEN "unavailable"
  ELSE IF commits[a] = <<>> THEN "not_committed"
  ELSE IF commits[a] = <<"proposed">> THEN "committed" ELSE "conflict"

Reconcile(h, a) ==
  /\ Done(Current)
  /\ runs[h].status = "unknown" /\ a \in plan.actions
  /\ runs[h].evidence[a] = "none"
  /\ Becomes(h, [runs[h] EXCEPT !.evidence[a] = Evidence(a)])
  /\ completed' = CASE Evidence(a) = "committed" -> completed \cup {a}
                    [] Evidence(a) = "not_committed" -> completed \ {a}
                    [] OTHER -> completed
  /\ receipts' = receipts \o
       <<ActionEvent("reconciliation_started", a, "proposed"),
         ActionEvent(IF plan.evidence = "slow" THEN "reconciliation_timed_out"
                     ELSE Evidence(a), a, "proposed")>>
  /\ UNCHANGED <<plan, probe, commits, started>>

Replay ==
  /\ Done(Current)
  /\ Len(runs) < MaxRuns
  /\ runs' = Append(runs, NewRun)
  /\ Record(RunEvent("run_started"))
  /\ UNCHANGED <<plan, probe, completed, commits, started>>

-----------------------------------------------------------------------------
(* The event loop's steps of the run that is not done.                     *)
Steps ==
  \/ Drive(Current) \/ Resolve(Current) \/ Settle(Current) \/ Finish(Current)
  \/ \E a \in Actions : Effect(Current, a)
  \/ TimesOut(Current)
==============================================================================
