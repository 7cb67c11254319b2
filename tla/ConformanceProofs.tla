--------------------------- MODULE ConformanceProofs ---------------------------
(***************************************************************************)
(* Machine-checked facts about Conformance for every set of plans callers  *)
(* may begin with, every declaration and every number of handles.          *)
(***************************************************************************)
EXTENDS Conformance, SequenceTheorems, FiniteSetTheorems,
        WellFoundedInduction, TLAPS

-------------------------------------------------------------------------------
(* The inductive invariant.                                                *)

(* What a handle is worth by itself.  An action has a task only if the run *)
(* has the action, no task of a run that is settling or over is left, and  *)
(* only an ambiguous effect makes an outcome unknown, which alone is       *)
(* reconciled.                                                             *)
RunInv(r) ==
  /\ r \in Run
  /\ r.phase = "done" <=> r.status # "none"
  /\ r.phase \in {"settling", "done"} => Unfinished(r) = {}
  /\ r.phase \in {"created", "approvals"} => \A a \in Actions : r.task[a] = "none"
  /\ \A a \in Actions : r.task[a] # "none" => a \in plan.actions
  /\ r.status = "unknown" => Ambiguous(r) # {}
  /\ \A a \in Actions : r.evidence[a] # "none" => r.status = "unknown"

(* Effects run only once every approval is decided, only of actions that   *)
(* were let through and are not completed; and every action that was let   *)
(* through is completed, about to be, or stopped.                          *)
Underway(r) ==
  r.phase \in {"executing", "settling"} =>
    /\ Resolved(r)
    /\ \A a \in Unfinished(r) : a \in Executable(r) \ completed
    /\ \A a \in Executable(r) \ completed : r.task[a] \in {"ready", "blocked", "stopped"}

RunsInv ==
  /\ plan \in Plan /\ ValidPlan(plan)
  /\ runs \in Seq(Run) /\ Len(runs) \in 1..MaxRuns
  /\ \A h \in 1..Len(runs) :
       /\ RunInv(runs[h]) /\ Underway(runs[h])
       /\ h < Len(runs) => runs[h].phase = "done"

DataInv ==
  /\ probe \in [released : BOOLEAN, lose : {"no", "before_commit", "after_commit"}]
  /\ completed \subseteq plan.actions
  /\ commits \in [Actions -> Seq(Arguments)]
  /\ started \in BOOLEAN
  /\ receipts \in Seq(AuditReceipt)

(* The next call is one of the script.                                     *)
SuiteInv ==
  /\ suite \in [perAction : BOOLEAN, failFast : BOOLEAN, strict : BOOLEAN,
                declared : Declared, results : [ToSet(Scenarios) -> Verdict]]
  /\ at \in [name : ToSet(Scenarios) \cup {"free", "none"}, step : 1..6]
  /\ at.name \in ToSet(Scenarios) => at.step \leq Len(Script[at.name])

HarnessInv == RunsInv /\ DataInv /\ SuiteInv

Lost(a) == \E h \in 1..Len(runs) : runs[h].task[a] = "ambiguous"
Disproved(a) == \E h \in 1..Len(runs) : runs[h].evidence[a] = "not_committed"

(* What completed says about the journal, when only the adapter commits:   *)
(* a committed action is completed; one that is not, though its response   *)
(* was lost, was reconciled; a completed one is committed, or its response *)
(* was lost and nobody has proved that it was not committed.  Responses    *)
(* are lost at most once.                                                  *)
JournalInv ==
  /\ \A a \in Actions :
       /\ commits[a] # <<>> => a \in completed
       /\ a \notin completed /\ Lost(a) => Disproved(a)
       /\ a \in completed => commits[a] # <<>> \/ (Lost(a) /\ ~Disproved(a))
  /\ probe.lose # "no" => \A a \in Actions : ~Lost(a)

ConformanceInv == HarnessInv /\ (at.name = "free" => JournalInv)

-------------------------------------------------------------------------------
(* Plans.                                                                  *)

LEMMA TwoActions == /\ IsFiniteSet(Actions) /\ Cardinality(Actions) = 2
                    /\ Primary \in Actions /\ Sibling \in Actions
<1>1. IsFiniteSet({Primary}) /\ Cardinality({Primary}) = 1
  BY FS_Singleton
<1>2. Actions = {Primary} \cup {Sibling} /\ Sibling \notin {Primary}
  BY HarnessAssumption
<1>3. IsFiniteSet({Primary} \cup {Sibling}) /\ Cardinality({Primary} \cup {Sibling}) = 2
  BY <1>1, <1>2, FS_AddElement
<1> QED BY <1>2, <1>3

(* The ancestors, when those of the first generation have no others.       *)
LEMMA AncestorsClosed ==
  ASSUME NEW p, NEW a, NEW C, C = {p.parent[a]} \ {NoParent},
         {p.parent[b] : b \in C} \ {NoParent} \subseteq C
  PROVE  AncestorsOf(p, a) = C
<1> DEFINE Parents(S) == {p.parent[b] : b \in S} \ {NoParent}
           IsUp(up) == up = [n \in Nat |-> IF n = 0 THEN Parents({a})
                                          ELSE up[n - 1] \cup Parents(up[n - 1])]
           g == [n \in Nat |-> C]
<1>1. Parents({a}) = C /\ C \cup Parents(C) = C
  OBVIOUS
<1> HIDE DEF Parents
<1>2. ASSUME NEW n \in Nat
      PROVE  C = IF n = 0 THEN Parents({a}) ELSE g[n - 1] \cup Parents(g[n - 1])
  <2>1. CASE n = 0
    BY <1>1, <2>1
  <2>2. CASE n # 0
    <3>1. n - 1 \in Nat
      BY <2>2
    <3>2. g[n - 1] = C
      BY <3>1
    <3> QED BY <1>1, <2>2, <3>2
  <2> QED BY <2>1, <2>2
<1>3. IsUp(g)
  BY <1>2, Zenon
<1>4. PICK up : IsUp(up) /\ AncestorsOf(p, a) = up[Cardinality(Actions)]
  BY <1>3, Zenon DEF AncestorsOf, Parents
<1>5. ASSUME NEW n \in Nat
      PROVE  up[n] = IF n = 0 THEN Parents({a}) ELSE up[n - 1] \cup Parents(up[n - 1])
  BY <1>4, Zenon
<1> HIDE DEF IsUp, g
<1>6. up[0] = C /\ up[1] = up[0] \cup Parents(up[0]) /\ up[2] = up[1] \cup Parents(up[1])
  <2>1. up[0] = C
    BY <1>1, <1>5
  <2>2. /\ 1 \in Nat /\ 2 \in Nat /\ 1 # 0 /\ 2 # 0 /\ 1 - 1 = 0 /\ 2 - 1 = 1
    OBVIOUS
  <2>3. up[1] = up[0] \cup Parents(up[0])
    BY <1>5, <2>2, Zenon
  <2>4. up[2] = up[1] \cup Parents(up[1])
    BY <1>5, <2>2, Zenon
  <2> QED BY <2>1, <2>3, <2>4
<1>7. up[2] = C
  BY <1>1, <1>6
<1> QED BY <1>4, <1>7, TwoActions

LEMMA SimplePlan ==
  ASSUME NEW p \in Plan, p.actions # {}, p.gated \subseteq p.actions,
         \A a \in Actions : p.parent[a] = NoParent
  PROVE  ValidPlan(p)
<1> SUFFICES ASSUME NEW a \in p.actions
             PROVE  p.parent[a] = NoParent /\ a \notin AncestorsOf(p, a)
  BY DEF ValidPlan
<1>1. a \in Actions
  BY DEF Plan
<1>2. AncestorsOf(p, a) = {}
  <2> DEFINE C == {}
  <2>1. C = {p.parent[a]} \ {NoParent} /\ {p.parent[b] : b \in C} \ {NoParent} \subseteq C
    BY <1>1
  <2> QED BY <2>1, AncestorsClosed
<1> QED BY <1>1, <1>2

LEMMA SimpleType ==
  /\ Simple \in Plan /\ Simple.actions = {Primary} /\ Simple.gated = {}
  /\ \A a \in Actions : Simple.parent[a] = NoParent
BY TwoActions DEF Simple, Plan

LEMMA PlansAreValid ==
  ASSUME NEW s
  PROVE  PlanOf(s) \in Plan /\ ValidPlan(PlanOf(s))
<1>1. CASE s = "delegation"
  <2> DEFINE p == PlanOf(s)
  <2>1. p = [Simple EXCEPT !.actions = Actions, !.gated = {Primary}, !.parent[Sibling] = Primary]
    BY <1>1 DEF PlanOf
  <2>2. /\ p \in Plan /\ p.actions = Actions /\ p.gated = {Primary}
        /\ p.parent[Primary] = NoParent /\ p.parent[Sibling] = Primary
    <3>1. p.parent = [Simple.parent EXCEPT ![Sibling] = Primary]
      BY <2>1 DEF Simple
    <3>2. p.actions = Actions /\ p.gated = {Primary}
      BY <2>1 DEF Simple
    <3>3. p.parent \in [Actions -> Actions \cup {NoParent}]
      BY <3>1, TwoActions DEF Simple
    <3>4. p.parent[Primary] = NoParent /\ p.parent[Sibling] = Primary
      BY <3>1, TwoActions, HarnessAssumption DEF Simple
    <3>5. p \in Plan
      BY <2>1, <3>2, <3>3, TwoActions DEF Simple, Plan
    <3> QED BY <3>2, <3>4, <3>5
  <2> HIDE DEF p
  <2>3. AncestorsOf(p, Primary) = {}
    <3> DEFINE C == {}
    <3>1. C = {p.parent[Primary]} \ {NoParent} /\ {p.parent[b] : b \in C} \ {NoParent} \subseteq C
      BY <2>2
    <3> QED BY <3>1, AncestorsClosed
  <2>4. AncestorsOf(p, Sibling) = {Primary}
    <3> DEFINE C == {Primary}
    <3>1. C = {p.parent[Sibling]} \ {NoParent} /\ {p.parent[b] : b \in C} \ {NoParent} \subseteq C
      BY <2>2, TwoActions, AdapterAssumption
    <3> QED BY <3>1, AncestorsClosed
  <2>5. ValidPlan(p)
    BY <2>2, <2>3, <2>4, TwoActions, HarnessAssumption DEF ValidPlan
  <2> QED BY <2>2, <2>5 DEF p
<1>2. CASE s # "delegation"
  <2> DEFINE p == PlanOf(s)
  <2>1. /\ p \in Plan /\ p.actions # {} /\ p.gated \subseteq p.actions
        /\ p.parent = Simple.parent
    BY <1>2, TwoActions DEF PlanOf, Simple, Plan
  <2> HIDE DEF p
  <2>2. ValidPlan(p)
    BY <2>1, SimpleType, SimplePlan
  <2> QED BY <2>1, <2>2 DEF p
<1> QED BY <1>1, <1>2

-------------------------------------------------------------------------------
(* Scripts.                                                                *)

Call == {"pending", "settle", "approve", "revise", "reject", "reject_sibling", "started",
         "outcome", "cancel", "release", "replay", "reconcile", "interfere"}

LEMMA ScenarioNames ==
  /\ Len(Scenarios) = 14
  /\ \A i \in 1..14 : Scenarios[i] \in ToSet(Scenarios)
  /\ ToSet(Scenarios) = DOMAIN Script
<1>1. Len(Scenarios) = 14 /\ DOMAIN Scenarios = 1..14
  BY DEF Scenarios
<1>2. \A i \in 1..14 : Scenarios[i] \in ToSet(Scenarios)
  BY <1>1 DEF ToSet
<1>3. \A i \in 1..14 : Scenarios[i] \in DOMAIN Script
  BY DEF Scenarios, Script
<1>4. \A s \in DOMAIN Script : \E i \in 1..14 : s = Scenarios[i]
  <2>1. /\ Scenarios[1] = "approval_hold" /\ Scenarios[2] = "rejection"
        /\ Scenarios[3] = "argument_binding" /\ Scenarios[4] = "replay"
        /\ Scenarios[5] = "outcome_ambiguity" /\ Scenarios[6] = "reconcile_committed"
        /\ Scenarios[7] = "reconcile_not_committed" /\ Scenarios[8] = "reconcile_conflict"
        /\ Scenarios[9] = "reconcile_unavailable" /\ Scenarios[10] = "cancellation"
        /\ Scenarios[11] = "timeout" /\ Scenarios[12] = "parallel_barrier"
        /\ Scenarios[13] = "delegation" /\ Scenarios[14] = "audit_receipts"
    BY DEF Scenarios
  <2>2. DOMAIN Script =
          {"approval_hold", "rejection", "argument_binding", "replay", "outcome_ambiguity",
           "reconcile_committed", "reconcile_not_committed", "reconcile_conflict",
           "reconcile_unavailable", "cancellation", "timeout", "parallel_barrier",
           "delegation", "audit_receipts"}
    BY DEF Script
  <2> QED BY <2>1, <2>2
<1> QED BY <1>1, <1>2, <1>3, <1>4 DEF ToSet

(* No script has more than five calls.                                     *)
Sound(script) == /\ Len(script) \in 1..5
                 /\ \A i \in 1..Len(script) : script[i][1] \in Call

LEMMA SoundThree ==
  \A c1, c2, c3 : c1[1] \in Call /\ c2[1] \in Call /\ c3[1] \in Call => Sound(<<c1, c2, c3>>)
BY DEF Sound

LEMMA SoundTwo == \A c1, c2 : c1[1] \in Call /\ c2[1] \in Call => Sound(<<c1, c2>>)
BY DEF Sound

LEMMA SoundFour ==
  \A c1, c2, c3, c4 : c1[1] \in Call /\ c2[1] \in Call /\ c3[1] \in Call /\ c4[1] \in Call
                     => Sound(<<c1, c2, c3, c4>>)
BY DEF Sound

LEMMA SoundFive ==
  \A c1, c2, c3, c4, c5 :
    /\ c1[1] \in Call /\ c2[1] \in Call /\ c3[1] \in Call /\ c4[1] \in Call /\ c5[1] \in Call
    => Sound(<<c1, c2, c3, c4, c5>>)
BY DEF Sound

LEMMA ScriptCalls == \A s \in ToSet(Scenarios) : Sound(Script[s])
<1>1. Sound(ApprovalHold)
  BY SoundFour DEF ApprovalHold, Call
<1>2. Sound(Rejection)
  BY SoundFour DEF Rejection, Call
<1>3. Sound(ArgumentBinding)
  BY SoundThree DEF ArgumentBinding, Call
<1>4. Sound(Replayed)
  BY SoundFour DEF Replayed, Call
<1>5. Sound(OutcomeAmbiguity)
  BY SoundFour DEF OutcomeAmbiguity, Call
<1>6. Sound(ReconcileCommitted)
  BY SoundFour DEF ReconcileCommitted, Call
<1>7. Sound(ReconcileNotCommitted)
  BY SoundFour DEF ReconcileNotCommitted, Call
<1>8. Sound(ReconcileConflict)
  BY SoundThree DEF ReconcileConflict, Call
<1>9. Sound(ReconcileUnavailable)
  BY SoundTwo DEF ReconcileUnavailable, Call
<1>10. Sound(Cancellation)
  BY SoundFive DEF Cancellation, Call
<1>11. Sound(Timeout)
  BY SoundFour DEF Timeout, Call
<1>12. Sound(ParallelBarrier)
  BY SoundFour DEF ParallelBarrier, Call
<1>13. Sound(Delegation)
  BY SoundFive DEF Delegation, Call
<1>14. Sound(AuditReceipts)
  BY SoundFour DEF AuditReceipts, Call
<1> QED BY <1>1, <1>2, <1>3, <1>4, <1>5, <1>6, <1>7, <1>8, <1>9, <1>10, <1>11, <1>12,
           <1>13, <1>14, ScenarioNames DEF Script

-------------------------------------------------------------------------------
(* One handle changes.                                                     *)

RunGoes(h) ==
  \E r : /\ Becomes(h, r) /\ RunInv(r) /\ Underway(r)'
         /\ runs[h].phase = "done" => r.phase = "done"

LEMMA RunsKept ==
  ASSUME RunsInv, UNCHANGED plan, NEW h \in 1..Len(runs), RunGoes(h),
         completed' = completed \/ h = Len(runs) \/ runs[Len(runs)].phase = "done"
  PROVE  RunsInv'
<1>1. PICK r : /\ Becomes(h, r) /\ RunInv(r) /\ Underway(r)'
               /\ runs[h].phase = "done" => r.phase = "done"
  BY DEF RunGoes
<1>2. r \in Run /\ runs \in Seq(Run) /\ Len(runs) \in Nat
  BY <1>1 DEF RunInv, RunsInv
<1>3. /\ runs' \in Seq(Run) /\ Len(runs') = Len(runs)
      /\ \A g \in 1..Len(runs) : runs'[g] = IF g = h THEN r ELSE runs[g]
  BY <1>1, <1>2 DEF Becomes
<1>4. RunInv(r)'
  BY <1>1 DEF RunInv
<1>5. ASSUME NEW g \in 1..Len(runs)
      PROVE  /\ RunInv(runs[g])' /\ Underway(runs[g])'
             /\ g < Len(runs) => runs'[g].phase = "done"
  <2>1. CASE g = h
    <3>1. runs'[g] = r
      BY <1>3, <2>1
    <3>2. g < Len(runs) => runs[g].phase = "done"
      BY DEF RunsInv
    <3>3. RunInv(runs[g])'
      BY <1>4, <3>1 DEF RunInv, Unfinished, Ambiguous
    <3>4. Underway(runs[g])'
      BY <1>1, <3>1 DEF Underway, Unfinished, Resolved, Executable, Allowed
    <3> QED BY <1>1, <2>1, <3>1, <3>2, <3>3, <3>4
  <2>2. CASE g # h
    <3>1. PICK s : s = runs[g]
      OBVIOUS
    <3>2. runs'[g] = s
      BY <1>3, <2>2, <3>1
    <3>3. /\ RunInv(s) /\ Underway(s)
          /\ g < Len(runs) => s.phase = "done"
      BY <3>1 DEF RunsInv
    <3>4. completed' = completed \/ s.phase = "done"
      BY <2>2, <3>1 DEF RunsInv
    <3>5. RunInv(s)'
      BY <3>3 DEF RunInv, Unfinished, Ambiguous
    <3>6. Underway(s)'
      <4>1. CASE s.phase = "done"
        BY <4>1 DEF Underway
      <4>2. CASE completed' = completed
        BY <3>3, <4>2 DEF Underway, Unfinished, Resolved, Executable, Allowed
      <4> QED BY <3>4, <4>1, <4>2
    <3>7. RunInv(runs[g])'
      BY <3>2, <3>5 DEF RunInv, Unfinished, Ambiguous
    <3>8. Underway(runs[g])'
      BY <3>2, <3>6 DEF Underway, Unfinished, Resolved, Executable, Allowed
    <3> QED BY <3>2, <3>3, <3>7, <3>8
  <2> QED BY <2>1, <2>2
<1>6. plan' \in Plan /\ ValidPlan(plan')
  BY DEF RunsInv
<1>7. (/\ plan \in Plan /\ ValidPlan(plan)
       /\ runs \in Seq(Run) /\ Len(runs) \in 1..MaxRuns
       /\ \A g \in 1..Len(runs) :
            /\ RunInv(runs[g]) /\ Underway(runs[g])
            /\ g < Len(runs) => runs[g].phase = "done")'
  <2>1. Len(runs') \in 1..MaxRuns
    BY <1>3 DEF RunsInv
  <2> QED BY <1>3, <1>5, <1>6, <2>1
<1> QED BY <1>7 DEF RunsInv

-------------------------------------------------------------------------------
(* The journal's receipts.                                                 *)

LEMMA EventTypes ==
  ASSUME NEW e \in AuditEvent
  PROVE  /\ RunEvent(e) \in AuditReceipt
         /\ \A a \in Actions, x \in Arguments : ActionEvent(e, a, x) \in AuditReceipt
BY DEF RunEvent, ActionEvent, AuditReceipt, Arguments

LEMMA Recorded ==
  ASSUME receipts \in Seq(AuditReceipt), NEW e \in AuditReceipt, Record(e)
  PROVE  receipts' \in Seq(AuditReceipt)
BY DEF Record

LEMMA OutcomeEvents == {"completed", "cancelled", "timed_out", "unknown", "run_started",
                        "approval_requested", "approved", "rejected"} \subseteq AuditEvent
BY DEF AuditEvent

-------------------------------------------------------------------------------
(* The driver's steps.                                                     *)

LEMMA RunTypes ==
  ASSUME NEW r \in Run, NEW a \in Actions
  PROVE  /\ r = [phase |-> r.phase, decision |-> r.decision, task |-> r.task,
                 stop |-> r.stop, status |-> r.status, evidence |-> r.evidence]
         /\ r.decision \in [Actions -> Decision \cup Undecided \cup {"cancelled"}]
         /\ r.task \in [Actions -> {"none", "ready", "blocked", "done", "ambiguous", "stopped"}]
         /\ r.evidence \in [Actions -> ReconciliationStatus \cup {"none"}]
         /\ r.decision[a] \in Decision \cup Undecided \cup {"cancelled"}
         /\ r.task[a] \in {"none", "ready", "blocked", "done", "ambiguous", "stopped"}
BY DEF Run

LEMMA ExecuteGoes ==
  ASSUME RunsInv, NEW h \in 1..Len(runs), runs[h].phase \in {"created", "approvals"},
         Resolved(runs[h]), Execute(h, runs[h]), UNCHANGED <<plan, completed>>
  PROVE  RunGoes(h)
<1>1. PICK r : r = runs[h]
  OBVIOUS
<1>2. /\ RunInv(r) /\ r \in Run /\ r.phase \in {"created", "approvals"} /\ Resolved(r)
      /\ Execute(h, r)
  BY <1>1 DEF RunsInv, RunInv
<1>3. /\ \A a \in Actions : r.task[a] = "none" /\ r.evidence[a] = "none"
      /\ r.status = "none"
  BY <1>2 DEF RunInv, Run
<1>4. CASE Executable(r) \ completed = {}
  <2>1. PICK s : s = Ended(r, "completed")
    OBVIOUS
  <2>2. Becomes(h, s)
    BY <1>2, <1>4, <2>1 DEF Execute
  <2>3. /\ s \in Run /\ s.phase = "done" /\ s.status = "completed" /\ s.task = r.task
        /\ s.evidence = r.evidence
    BY <1>2, <2>1 DEF Ended, Run, RunStatus
  <2>4. RunInv(s)
    BY <1>3, <2>3 DEF RunInv, Unfinished, Ambiguous
  <2>5. Underway(s)'
    BY <2>3 DEF Underway
  <2> QED BY <2>2, <2>3, <2>4, <2>5 DEF RunGoes
<1>5. CASE Executable(r) \ completed # {}
  <2>1. PICK s : s = [r EXCEPT !.phase = "executing",
                       !.task = [a \in Actions |-> IF a \in Executable(r) \ completed
                                                   THEN "ready" ELSE "none"]]
    OBVIOUS
  <2>2. Becomes(h, s)
    BY <1>2, <1>5, <2>1 DEF Execute
  <2>3. /\ s \in Run /\ s.phase = "executing" /\ s.status = r.status
        /\ s.evidence = r.evidence /\ s.decision = r.decision
        /\ \A a \in Actions :
             s.task[a] = IF a \in Executable(r) \ completed THEN "ready" ELSE "none"
    BY <1>2, <2>1 DEF Run
  <2>4. Executable(r) \subseteq plan.actions
    BY DEF Executable
  <2>5. RunInv(s)
    BY <1>2, <1>3, <2>3, <2>4 DEF RunInv
  <2>6. Executable(s)' = Executable(r)
    BY <2>3 DEF Executable, Allowed, AncestorsOf
  <2>7. Resolved(s)'
    BY <1>2, <2>3 DEF Resolved
  <2>8. Underway(s)'
    <3>1. Unfinished(s) = {a \in Actions : a \in Executable(r) \ completed}
      BY <2>3 DEF Unfinished
    <3>2. Executable(r) \subseteq Actions
      BY <2>4 DEF RunsInv, Plan
    <3> QED BY <2>3, <2>6, <2>7, <3>1, <3>2 DEF Underway, Unfinished
  <2> QED BY <1>1, <1>2, <2>2, <2>3, <2>5, <2>8 DEF RunGoes
<1> QED BY <1>4, <1>5

LEMMA SameDecisions ==
  ASSUME UNCHANGED plan, NEW r, NEW s, s.decision = r.decision
  PROVE  Executable(s)' = Executable(r) /\ (Resolved(s)' <=> Resolved(r))
BY DEF Executable, Allowed, Resolved

LEMMA DriveGoes ==
  ASSUME RunsInv, NEW h \in 1..Len(runs), Drive(h)
  PROVE  RunGoes(h)
<1>1. PICK r : r = runs[h]
  OBVIOUS
<1>2. RunInv(r) /\ r \in Run /\ r.phase = "created" /\ UNCHANGED <<plan, completed>>
  BY <1>1 DEF RunsInv, RunInv, Drive
<1>3. CASE plan.gated = {}
  <2>1. Resolved(runs[h]) /\ Execute(h, runs[h])
    BY <1>3 DEF Drive, Resolved
  <2> QED BY <1>1, <1>2, <2>1, ExecuteGoes
<1>4. CASE plan.gated # {}
  <2>1. PICK s : s = [r EXCEPT !.phase = "approvals", !.decision =
                        [a \in Actions |-> IF a \in plan.gated THEN "pending" ELSE "none"]]
    OBVIOUS
  <2>2. Becomes(h, s)
    BY <1>1, <1>4, <2>1 DEF Drive
  <2>3. /\ s \in Run /\ s.phase = "approvals" /\ s.status = r.status /\ s.task = r.task
        /\ s.evidence = r.evidence
    BY <1>2, <2>1 DEF Run, Undecided
  <2>4. RunInv(s)
    BY <1>2, <2>3 DEF RunInv, Unfinished, Ambiguous
  <2>5. Underway(s)'
    BY <2>3 DEF Underway
  <2> QED BY <1>1, <1>2, <2>2, <2>4, <2>5 DEF RunGoes
<1> QED BY <1>3, <1>4

LEMMA ResolveGoes ==
  ASSUME RunsInv, NEW h \in 1..Len(runs), Resolve(h)
  PROVE  RunGoes(h)
BY ExecuteGoes DEF Resolve

(* A decision on an effect that runs would be a second one.                *)
LEMMA DecideGoes ==
  ASSUME RunsInv, NEW h \in 1..Len(runs), NEW a \in Actions, NEW d \in Decision,
         Decide(h, a, d)
  PROVE  RunGoes(h)
<1>1. PICK r : r = runs[h]
  OBVIOUS
<1>2. /\ RunInv(r) /\ Underway(r) /\ r \in Run /\ r.decision[a] = "pending"
      /\ UNCHANGED <<plan, completed>>
  BY <1>1 DEF RunsInv, RunInv, Decide
<1>3. PICK s : s = [r EXCEPT !.decision[a] = d]
  OBVIOUS
<1>4. Becomes(h, s)
  BY <1>1, <1>3 DEF Decide
<1>5. /\ s \in Run /\ s.phase = r.phase /\ s.status = r.status /\ s.task = r.task
      /\ s.evidence = r.evidence /\ \A b \in Actions \ {a} : s.decision[b] = r.decision[b]
  BY <1>2, <1>3 DEF Run
<1>6. RunInv(s)
  BY <1>2, <1>5 DEF RunInv, Unfinished, Ambiguous
<1>7. Underway(s)'
  <2>1. SUFFICES ASSUME s.phase \in {"executing", "settling"} PROVE Underway(s)'
    BY DEF Underway
  <2>2. Underway(r) /\ Resolved(r)
    BY <1>2, <1>5, <2>1 DEF Underway
  <2>3. a \notin plan.gated
    BY <1>2, <2>2 DEF Resolved, Decision
  <2>4. plan.gated \subseteq Actions /\ plan.actions \subseteq Actions
    BY DEF RunsInv, Plan
  <2>5. Executable(s)' = Executable(r)
    BY <1>2, <1>5, <2>3, <2>4 DEF Executable, Allowed
  <2>6. Resolved(s)'
    BY <1>2, <1>5, <2>2, <2>3, <2>4 DEF Resolved
  <2> QED BY <1>2, <1>5, <2>2, <2>5, <2>6 DEF Underway, Unfinished
<1> QED BY <1>1, <1>4, <1>5, <1>6, <1>7 DEF RunGoes

LEMMA EffectGoes ==
  ASSUME RunsInv, NEW h \in 1..Len(runs), NEW a \in Actions, Effect(h, a)
  PROVE  /\ RunGoes(h) /\ a \in plan.actions
         /\ a \in Executable(runs[h]) /\ a \notin completed /\ Resolved(runs[h])
<1>1. PICK r : r = runs[h]
  OBVIOUS
<1>2. /\ RunInv(r) /\ Underway(r) /\ r \in Run /\ r.phase = "executing"
      /\ r.task[a] \in {"ready", "blocked"} /\ plan' = plan
  BY <1>1 DEF RunsInv, RunInv, Effect
<1>3. a \in plan.actions /\ a \in Executable(r) /\ a \notin completed /\ Resolved(r)
  BY <1>2 DEF RunInv, Underway, Unfinished
<1>4. ASSUME NEW s \in Run, Becomes(h, s), NEW t, s = [r EXCEPT !.task[a] = t],
             t \in {"blocked", "done", "ambiguous"},
             IF t = "blocked" THEN completed' = completed ELSE completed' = completed \cup {a}
      PROVE  RunGoes(h)
  <2>1. /\ s.phase = r.phase /\ s.status = r.status /\ s.decision = r.decision
        /\ s.evidence = r.evidence /\ s.task[a] = t
        /\ \A b \in Actions \ {a} : s.task[b] = r.task[b]
    BY <1>2, <1>4 DEF Run
  <2>2. r.status = "none" /\ \A b \in Actions : r.evidence[b] = "none"
    BY <1>2 DEF RunInv
  <2>3. RunInv(s)
    BY <1>2, <1>3, <1>4, <2>1, <2>2 DEF RunInv
  <2>4. Executable(s)' = Executable(r) /\ Resolved(s)'
    BY <1>2, <1>3, <2>1, SameDecisions
  <2>5. Unfinished(s) = IF t = "blocked" THEN Unfinished(r) ELSE Unfinished(r) \ {a}
    BY <1>2, <1>4, <2>1 DEF Unfinished
  <2>6. Underway(s)'
    <3>1. Unfinished(s)' = Unfinished(s)
      BY DEF Unfinished
    <3>2. /\ \A b \in Unfinished(r) : b \in Executable(r) \ completed
          /\ \A b \in Executable(r) \ completed : r.task[b] \in {"ready", "blocked", "stopped"}
      BY <1>2 DEF Underway
    <3>3. Executable(r) \subseteq Actions
      BY DEF Executable, RunsInv, Plan
    <3> QED BY <1>2, <1>4, <2>1, <2>4, <2>5, <3>1, <3>2, <3>3 DEF Underway
  <2> QED BY <1>1, <1>2, <1>4, <2>1, <2>3, <2>6 DEF RunGoes
<1>5. CASE probe.released
  <2>1. Commit(h, a)
    BY <1>5 DEF Effect
  <2>2. PICK t : t = IF probe.lose = "no" THEN "done" ELSE "ambiguous"
    OBVIOUS
  <2>3. PICK s : s = [r EXCEPT !.task[a] = t]
    OBVIOUS
  <2>4. Becomes(h, s) /\ completed' = completed \cup {a}
    BY <1>1, <2>1, <2>2, <2>3 DEF Commit, Completes
  <2>5. s \in Run /\ t \in {"done", "ambiguous"}
    BY <1>2, <2>2, <2>3 DEF Run
  <2> QED BY <1>1, <1>3, <1>4, <2>3, <2>4, <2>5
<1>6. CASE ~probe.released
  <2>1. PICK s : s = [r EXCEPT !.task[a] = "blocked"]
    OBVIOUS
  <2>2. Becomes(h, s) /\ completed' = completed
    BY <1>1, <1>6, <2>1 DEF Effect
  <2>3. s \in Run
    BY <1>2, <2>1 DEF Run
  <2> QED BY <1>1, <1>3, <1>4, <2>1, <2>2, <2>3
<1> QED BY <1>5, <1>6

LEMMA FencedRun ==
  ASSUME NEW r \in Run
  PROVE  /\ Fenced(r) \in Run
         /\ Fenced(r).phase = r.phase /\ Fenced(r).status = r.status
         /\ Fenced(r).stop = r.stop /\ Fenced(r).evidence = r.evidence
         /\ \A a \in Actions :
              Fenced(r).task[a] = IF a \in Unfinished(r) THEN "stopped" ELSE r.task[a]
         /\ r.phase # "approvals" => Fenced(r).decision = r.decision
         /\ Unfinished(Fenced(r)) = {} /\ Ambiguous(Fenced(r)) = Ambiguous(r)
<1> DEFINE tasks == [a \in Actions |-> IF a \in Unfinished(r) THEN "stopped" ELSE r.task[a]]
           decisions == [a \in Actions |-> IF a \in Awaited(r) THEN "cancelled"
                                                               ELSE r.decision[a]]
<1>1. /\ tasks \in [Actions -> {"none", "ready", "blocked", "done", "ambiguous", "stopped"}]
      /\ decisions \in [Actions -> Decision \cup Undecided \cup {"cancelled"}]
  BY RunTypes
<1>2. Fenced(r) = [r EXCEPT !.task = tasks, !.decision = decisions]
  BY DEF Fenced
<1>3. ASSUME r.phase # "approvals" PROVE decisions = r.decision
  <2>1. Awaited(r) = {}
    BY <1>3 DEF Awaited
  <2>2. r.decision \in [Actions -> Decision \cup Undecided \cup {"cancelled"}]
    BY DEF Run
  <2>3. decisions = [a \in Actions |-> r.decision[a]]
    BY <2>1
  <2> QED BY <2>2, <2>3
<1>4. \A a \in Actions : tasks[a] = IF a \in Unfinished(r) THEN "stopped" ELSE r.task[a]
  OBVIOUS
<1> HIDE DEF tasks, decisions
<1>5. /\ Fenced(r) \in Run
      /\ Fenced(r).phase = r.phase /\ Fenced(r).status = r.status
      /\ Fenced(r).stop = r.stop /\ Fenced(r).evidence = r.evidence
      /\ Fenced(r).task = tasks /\ Fenced(r).decision = decisions
  <2>1. PICK t, d : t = tasks /\ d = decisions
    OBVIOUS
  <2>2. PICK s : s = [[r EXCEPT !.task = t] EXCEPT !.decision = d]
    OBVIOUS
  <2>3. s = Fenced(r)
    BY <1>2, <2>1, <2>2
  <2>4. /\ t \in [Actions -> {"none", "ready", "blocked", "done", "ambiguous", "stopped"}]
        /\ d \in [Actions -> Decision \cup Undecided \cup {"cancelled"}]
    BY <1>1, <2>1
  <2>5. /\ s \in Run /\ s.phase = r.phase /\ s.status = r.status /\ s.stop = r.stop
        /\ s.evidence = r.evidence /\ s.task = t /\ s.decision = d
    BY <2>2, <2>4 DEF Run
  <2> QED BY <2>1, <2>3, <2>5
<1>6. Unfinished(Fenced(r)) = {} /\ Ambiguous(Fenced(r)) = Ambiguous(r)
  BY <1>4, <1>5 DEF Unfinished, Ambiguous
<1> QED BY <1>3, <1>4, <1>5, <1>6

(* A handle that goes on, fenced or not, with another phase and stop.      *)
LEMMA FencedGoes ==
  ASSUME RunsInv, UNCHANGED <<plan, completed>>, NEW h \in 1..Len(runs),
         NEW r, r = runs[h], r.phase \in {"approvals", "executing", "settling"},
         NEW s \in Run, Becomes(h, s), s.status = r.status, s.evidence = r.evidence,
         \/ s.phase = r.phase
         \/ r.phase = "executing" /\ s.phase = "settling" /\ Unfinished(s) = {},
         r.phase # "approvals" => s.decision = r.decision,
         \A a \in Actions : s.task[a] = r.task[a] \/ (a \in Unfinished(r) /\ s.task[a] = "stopped")
  PROVE  RunGoes(h)
<1>1. RunInv(r) /\ Underway(r) /\ r \in Run
  BY DEF RunsInv, RunInv
<1>2. r.status = "none" /\ s.phase # "done" /\ \A a \in Actions : r.evidence[a] = "none"
  BY <1>1 DEF RunInv
<1>3. Unfinished(s) \subseteq Unfinished(r)
  BY DEF Unfinished
<1>4. RunInv(s)
  BY <1>1, <1>2, <1>3 DEF RunInv, Unfinished
<1>5. Underway(s)'
  <2>1. SUFFICES ASSUME s.phase \in {"executing", "settling"} PROVE Underway(s)'
    BY DEF Underway
  <2>2. r.phase \in {"executing", "settling"} /\ s.decision = r.decision
    BY <2>1
  <2>3. Executable(s)' = Executable(r) /\ Resolved(s)'
    BY <1>1, <2>2, SameDecisions DEF Underway
  <2>4. Executable(r) \subseteq Actions
    BY DEF Executable, RunsInv, Plan
  <2>5. \A a \in Executable(r) \ completed : s.task[a] \in {"ready", "blocked", "stopped"}
    BY <1>1, <2>2, <2>4 DEF Underway
  <2>6. \A a \in Unfinished(s) : a \in Executable(r) \ completed
    BY <1>1, <1>3, <2>2 DEF Underway
  <2>7. Unfinished(s)' = Unfinished(s)
    BY DEF Unfinished
  <2> QED BY <2>3, <2>5, <2>6, <2>7 DEF Underway
<1> QED BY <1>2, <1>4, <1>5 DEF RunGoes

(* A handle ends.                                                          *)
LEMMA EndedGoes ==
  ASSUME RunsInv, UNCHANGED plan, NEW h \in 1..Len(runs), runs[h].phase # "done",
         NEW r \in Run, NEW status \in RunStatus \ {"none"}, Becomes(h, Ended(r, status)),
         Unfinished(r) = {}, r.evidence = runs[h].evidence,
         \A a \in Actions : r.task[a] # "none" => a \in plan.actions,
         status = "unknown" => Ambiguous(r) # {}
  PROVE  RunGoes(h)
<1>1. PICK s : s = Ended(r, status)
  OBVIOUS
<1>2. /\ s \in Run /\ s.phase = "done" /\ s.status = status /\ s.task = r.task
      /\ s.evidence = r.evidence
  BY <1>1 DEF Ended, Run
<1>3. \A a \in Actions : r.evidence[a] = "none"
  <2>1. RunInv(runs[h]) /\ runs[h].status = "none"
    BY DEF RunsInv, RunInv
  <2> QED BY <2>1 DEF RunInv
<1>4. RunInv(s)
  BY <1>2, <1>3 DEF RunInv, Unfinished, Ambiguous
<1>5. Underway(s)'
  BY <1>2 DEF Underway
<1> QED BY <1>1, <1>2, <1>4, <1>5 DEF RunGoes

LEMMA CancelGoes ==
  ASSUME RunsInv, NEW h \in 1..Len(runs), Cancel(h)
  PROVE  RunGoes(h)
<1>1. PICK r : r = runs[h]
  OBVIOUS
<1>2. PICK q : q = [r EXCEPT !.stop = "cancelled"]
  OBVIOUS
<1>3. /\ RunInv(r) /\ r \in Run /\ r.phase # "done" /\ UNCHANGED <<plan, completed>>
  BY <1>1 DEF RunsInv, RunInv, Cancel, Done
<1>4. /\ q \in Run /\ q.phase = r.phase /\ q.status = r.status /\ q.task = r.task
      /\ q.evidence = r.evidence /\ q.decision = r.decision
  BY <1>2, <1>3 DEF Run
<1>5. Unfinished(q) = Unfinished(r)
  BY <1>4 DEF Unfinished
<1>6. Becomes(h, IF r.phase = "created" THEN Ended(r, "no_outcome")
                 ELSE IF ~plan.timed /\ Ambiguous(q) = {} THEN Fenced(q) ELSE q)
  BY <1>1, <1>2, <1>4 DEF Cancel
<1>7. CASE r.phase = "created"
  <2>1. Unfinished(r) = {} /\ \A a \in Actions : r.task[a] = "none"
    BY <1>3, <1>7 DEF RunInv, Unfinished
  <2>2. "no_outcome" \in RunStatus \ {"none"} /\ Becomes(h, Ended(r, "no_outcome"))
    BY <1>6, <1>7 DEF RunStatus
  <2> QED BY <1>1, <1>3, <2>1, <2>2, EndedGoes
<1>8. CASE r.phase # "created"
  <2>1. r.phase \in {"approvals", "executing", "settling"}
    BY <1>3, <1>8 DEF Run
  <2>2. CASE ~plan.timed /\ Ambiguous(q) = {}
    <3>1. PICK s : s = Fenced(q)
      OBVIOUS
    <3>2. Becomes(h, s)
      BY <1>6, <1>8, <2>2, <3>1
    <3>3. /\ s \in Run /\ s.phase = r.phase /\ s.status = r.status /\ s.evidence = r.evidence
          /\ r.phase # "approvals" => s.decision = r.decision
          /\ \A a \in Actions : s.task[a] = IF a \in Unfinished(r) THEN "stopped" ELSE r.task[a]
      BY <1>4, <1>5, <3>1, FencedRun
    <3> QED BY <1>1, <1>3, <2>1, <3>2, <3>3, FencedGoes
  <2>3. CASE ~(~plan.timed /\ Ambiguous(q) = {})
    <3>1. Becomes(h, q)
      BY <1>6, <1>8, <2>3
    <3> QED BY <1>1, <1>3, <1>4, <2>1, <3>1, FencedGoes
  <2> QED BY <2>2, <2>3
<1> QED BY <1>7, <1>8

LEMMA TimesOutGoes ==
  ASSUME RunsInv, NEW h \in 1..Len(runs), TimesOut(h)
  PROVE  RunGoes(h)
<1>1. PICK r : r = runs[h]
  OBVIOUS
<1>2. PICK s : s = [r EXCEPT !.stop = "timed_out"]
  OBVIOUS
<1>3. /\ RunInv(r) /\ r \in Run /\ r.phase \in {"approvals", "executing", "settling"}
      /\ UNCHANGED <<plan, completed>> /\ Becomes(h, s)
  <2>1. RunInv(r) /\ r \in Run
    BY <1>1 DEF RunsInv, RunInv
  <2> QED BY <1>1, <1>2, <2>1 DEF TimesOut, Run
<1>4. /\ s \in Run /\ s.phase = r.phase /\ s.status = r.status /\ s.task = r.task
      /\ s.evidence = r.evidence /\ s.decision = r.decision
  BY <1>2, <1>3 DEF Run
<1> QED BY <1>1, <1>3, <1>4, FencedGoes

LEMMA SettleGoes ==
  ASSUME RunsInv, NEW h \in 1..Len(runs), Settle(h)
  PROVE  RunGoes(h)
<1>1. PICK r : r = runs[h]
  OBVIOUS
<1>2. RunInv(r) /\ r \in Run /\ r.phase \in {"approvals", "executing"}
      /\ UNCHANGED <<plan, completed>>
  BY <1>1 DEF RunsInv, RunInv, Settle
<1>3. PICK q : q = Fenced(r)
  OBVIOUS
<1>4. /\ q \in Run /\ q.phase = r.phase /\ q.status = r.status /\ q.stop = r.stop
      /\ q.evidence = r.evidence
      /\ r.phase # "approvals" => q.decision = r.decision
      /\ Unfinished(q) = {} /\ Ambiguous(q) = Ambiguous(r)
      /\ \A a \in Actions : q.task[a] = IF a \in Unfinished(r) THEN "stopped" ELSE r.task[a]
  BY <1>2, <1>3, FencedRun
<1>5. CASE r.phase = "approvals" /\ q.stop # "no" /\ Becomes(h, Ended(q, q.stop))
  <2>1. q.stop \in RunStatus \ {"none"} /\ q.stop # "unknown"
    BY <1>4, <1>5 DEF Run, RunStatus
  <2>2. \A a \in Actions : q.task[a] = "none"
    BY <1>2, <1>4, <1>5 DEF RunInv, Unfinished
  <2> QED BY <1>1, <1>2, <1>4, <1>5, <2>1, <2>2, EndedGoes
<1>6. CASE r.phase = "executing" /\ Becomes(h, [q EXCEPT !.phase = "settling"])
  <2>1. PICK s : s = [q EXCEPT !.phase = "settling"]
    OBVIOUS
  <2>2. /\ s \in Run /\ s.phase = "settling" /\ s.status = q.status /\ s.task = q.task
        /\ s.evidence = q.evidence /\ s.decision = q.decision
    BY <1>4, <2>1 DEF Run
  <2>3. Unfinished(s) = {}
    BY <1>4, <2>2 DEF Unfinished
  <2>4. /\ Becomes(h, s) /\ s.status = r.status /\ s.evidence = r.evidence
        /\ s.decision = r.decision
        /\ \A a \in Actions :
             s.task[a] = r.task[a] \/ (a \in Unfinished(r) /\ s.task[a] = "stopped")
    BY <1>4, <1>6, <2>1, <2>2
  <2> QED BY <1>1, <1>2, <1>6, <2>2, <2>3, <2>4, FencedGoes
<1> QED BY <1>1, <1>3, <1>5, <1>6 DEF Settle

LEMMA FinishGoes ==
  ASSUME RunsInv, NEW h \in 1..Len(runs), Finish(h)
  PROVE  RunGoes(h)
<1>1. PICK r : r = runs[h]
  OBVIOUS
<1>2. RunInv(r) /\ r \in Run /\ r.phase \in {"settling", "executing"} /\ Unfinished(r) = {}
  BY <1>1 DEF RunsInv, RunInv, Finish
<1>3. PICK status \in Outcomes(r) : Becomes(h, Ended(r, status))
  BY <1>1 DEF Finish
<1>4. status \in RunStatus \ {"none"} /\ (status = "unknown" => Ambiguous(r) # {})
  BY <1>2, <1>3 DEF Outcomes, OwnOutcome, Run, RunStatus
<1>5. UNCHANGED plan /\ \A a \in Actions : r.task[a] # "none" => a \in plan.actions
  BY <1>2 DEF RunInv, Finish
<1> QED BY <1>1, <1>2, <1>3, <1>4, <1>5, EndedGoes

LEMMA EvidenceType == \A a : Evidence(a) \in ReconciliationStatus
BY DEF Evidence, ReconciliationStatus

LEMMA ReconcileGoes ==
  ASSUME RunsInv, NEW h \in 1..Len(runs), NEW a \in Actions, Reconcile(h, a)
  PROVE  RunGoes(h) /\ runs[Len(runs)].phase = "done"
<1>1. PICK r, e : r = runs[h] /\ e = Evidence(a)
  OBVIOUS
<1>2. /\ RunInv(r) /\ r \in Run /\ r.status = "unknown" /\ r.phase = "done"
      /\ UNCHANGED plan /\ runs[Len(runs)].phase = "done"
  BY <1>1 DEF RunsInv, RunInv, Reconcile, Done, Current
<1>3. PICK s : s = [r EXCEPT !.evidence[a] = e]
  OBVIOUS
<1>4. Becomes(h, s) /\ e \in ReconciliationStatus
  BY <1>1, <1>3, EvidenceType DEF Reconcile
<1>5. /\ s \in Run /\ s.phase = r.phase /\ s.status = r.status /\ s.task = r.task
  BY <1>2, <1>3, <1>4 DEF Run
<1>6. RunInv(s)
  BY <1>2, <1>5 DEF RunInv, Unfinished, Ambiguous
<1>7. Underway(s)'
  BY <1>2, <1>5 DEF Underway
<1> QED BY <1>1, <1>2, <1>4, <1>5, <1>6, <1>7 DEF RunGoes

LEMMA NewRunType ==
  /\ NewRun \in Run /\ RunInv(NewRun) /\ Underway(NewRun)
  /\ NewRun.phase = "created" /\ NewRun.status = "none"
  /\ \A a \in Actions : NewRun.task[a] = "none" /\ NewRun.evidence[a] = "none"
<1>1. /\ NewRun \in Run
      /\ NewRun.phase = "created" /\ NewRun.status = "none"
      /\ \A a \in Actions : NewRun.task[a] = "none" /\ NewRun.evidence[a] = "none"
  BY DEF NewRun, Run, Undecided, RunStatus
<1> QED BY <1>1 DEF RunInv, Underway, Unfinished

LEMMA ReplayKept ==
  ASSUME RunsInv, Replay
  PROVE  RunsInv'
<1>1. PICK s : s = NewRun
  OBVIOUS
<1>2. /\ s \in Run /\ RunInv(s) /\ Underway(s)
  BY <1>1, NewRunType
<1>3. /\ runs \in Seq(Run) /\ Len(runs) \in Nat /\ runs' = Append(runs, s)
      /\ UNCHANGED <<plan, completed>> /\ Len(runs) < MaxRuns /\ runs[Len(runs)].phase = "done"
  BY <1>1, AdapterAssumption DEF RunsInv, Replay, Done, Current
<1>4. /\ runs' \in Seq(Run) /\ Len(runs') = Len(runs) + 1 /\ runs'[Len(runs) + 1] = s
      /\ \A g \in 1..Len(runs) : runs'[g] = runs[g]
  BY <1>2, <1>3
<1>5. ASSUME NEW g \in 1..Len(runs')
      PROVE  /\ RunInv(runs[g])' /\ Underway(runs[g])'
             /\ g < Len(runs') => runs'[g].phase = "done"
  <2>1. PICK r : r = runs'[g]
    OBVIOUS
  <2>2. RunInv(r) /\ Underway(r) /\ (g < Len(runs') => r.phase = "done")
    <3>1. CASE g = Len(runs) + 1
      BY <1>2, <1>4, <2>1, <3>1
    <3>2. CASE g \in 1..Len(runs)
      <4>1. r = runs[g]
        BY <1>4, <2>1, <3>2
      <4>2. RunInv(r) /\ Underway(r)
        BY <3>2, <4>1 DEF RunsInv
      <4>3. r.phase = "done"
        BY <1>3, <3>2, <4>1 DEF RunsInv
      <4> QED BY <4>2, <4>3
    <3> QED BY <1>3, <1>4, <3>1, <3>2
  <2>3. RunInv(r)'
    BY <1>3, <2>2 DEF RunInv, Unfinished, Ambiguous
  <2>4. Underway(r)'
    BY <1>3, <2>2 DEF Underway, Unfinished, Resolved, Executable, Allowed
  <2>5. RunInv(runs[g])'
    BY <2>1, <2>3 DEF RunInv, Unfinished, Ambiguous
  <2>6. Underway(runs[g])'
    BY <2>1, <2>4 DEF Underway, Unfinished, Resolved, Executable, Allowed
  <2> QED BY <2>1, <2>2, <2>5, <2>6
<1>6. plan' \in Plan /\ ValidPlan(plan') /\ Len(runs') \in 1..MaxRuns
  BY <1>3, <1>4, AdapterAssumption DEF RunsInv
<1> QED BY <1>4, <1>5, <1>6 DEF RunsInv

-------------------------------------------------------------------------------
(* The journal and the rest.                                               *)

LEMMA PlacesOfSet ==
  ASSUME NEW S, IsFiniteSet(S)
  PROVE  Cardinality(S) \in Nat /\ SetToSeq(S) \in [1..Cardinality(S) -> S]
<1>1. Cardinality(S) \in Nat /\ ExistsBijection(1..Cardinality(S), S)
  BY FS_CardinalityType
<1>2. PICK f \in [1..Cardinality(S) -> S] : IsInjective(f)
  BY <1>1 DEF ExistsBijection, Bijection, Injection
<1> QED BY <1>1, <1>2, Zenon DEF SetToSeq

LEMMA ExecuteData ==
  ASSUME DataInv, NEW h, NEW r, Execute(h, r)
  PROVE  receipts' \in Seq(AuditReceipt)
<1>1. RunEvent("completed") \in AuditReceipt /\ receipts \in Seq(AuditReceipt)
  BY OutcomeEvents, EventTypes DEF DataInv
<1>2. UNCHANGED receipts \/ Record(RunEvent("completed"))
  BY DEF Execute
<1> QED BY <1>1, <1>2, Recorded

LEMMA DriveData ==
  ASSUME RunsInv, DataInv, NEW h \in 1..Len(runs), Drive(h)
  PROVE  DataInv'
<1>1. receipts' \in Seq(AuditReceipt)
  <2>1. CASE plan.gated = {}
    BY <2>1, ExecuteData DEF Drive
  <2>2. CASE plan.gated # {}
    <3> DEFINE n == Cardinality(plan.gated)
               asked == [i \in 1..n |-> ActionEvent("approval_requested",
                                                    SetToSeq(plan.gated)[i], "proposed")]
    <3>1. plan.gated \subseteq Actions
      BY DEF RunsInv, Plan
    <3>2. IsFiniteSet(plan.gated)
      BY <3>1, TwoActions, FS_Subset
    <3>3. n \in Nat /\ \A i \in 1..n : SetToSeq(plan.gated)[i] \in Actions
      BY <3>1, <3>2, PlacesOfSet
    <3>4. \A a \in Actions : ActionEvent("approval_requested", a, "proposed") \in AuditReceipt
      BY OutcomeEvents, EventTypes DEF Arguments
    <3>5. receipts' = receipts \o asked /\ receipts \in Seq(AuditReceipt)
      BY <2>2 DEF Drive, DataInv
    <3> HIDE DEF n
    <3>6. asked \in Seq(AuditReceipt)
      BY <3>3, <3>4
    <3> QED BY <3>5, <3>6
  <2> QED BY <2>1, <2>2
<1> QED BY <1>1 DEF DataInv, Drive

LEMMA ResolveData ==
  ASSUME DataInv, NEW h, Resolve(h)
  PROVE  DataInv'
<1>1. receipts' \in Seq(AuditReceipt)
  BY ExecuteData DEF Resolve
<1> QED BY <1>1 DEF DataInv, Resolve

LEMMA DecideData ==
  ASSUME DataInv, NEW h, NEW a \in Actions, NEW d \in Decision, Decide(h, a, d)
  PROVE  DataInv'
<1>1. \A e \in {"rejected", "approved"}, x \in {"reviewed", "proposed"} :
        ActionEvent(e, a, x) \in AuditReceipt
  BY OutcomeEvents, EventTypes DEF Arguments
<1>2. \E e \in {"rejected", "approved"}, x \in {"reviewed", "proposed"} :
        Record(ActionEvent(e, a, x))
  BY DEF Decide
<1>3. receipts' \in Seq(AuditReceipt)
  BY <1>1, <1>2, Recorded DEF DataInv
<1> QED BY <1>3 DEF DataInv, Decide

LEMMA EffectData ==
  ASSUME RunsInv, DataInv, NEW h \in 1..Len(runs), NEW a \in Actions, Effect(h, a)
  PROVE  DataInv'
<1>1. /\ a \in plan.actions /\ started' \in BOOLEAN /\ UNCHANGED <<plan, receipts>>
  BY EffectGoes DEF Effect
<1>2. completed' \subseteq plan.actions
  BY <1>1 DEF Effect, Commit, Completes, DataInv
<1>3. probe' \in [released : BOOLEAN, lose : {"no", "before_commit", "after_commit"}]
  BY DEF Effect, Commit, DataInv
<1>4. commits' \in [Actions -> Seq(Arguments)]
  <2>1. PICK x : x = ArgumentsOf(runs[h], a)
    OBVIOUS
  <2>2. x \in Arguments
    BY <2>1 DEF ArgumentsOf, Arguments
  <2>3. UNCHANGED commits \/ commits' = [commits EXCEPT ![a] = Append(@, x)]
    BY <2>1 DEF Effect, Commit, Committed
  <2>4. Append(commits[a], x) \in Seq(Arguments)
    <3>1. commits[a] \in Seq(Arguments)
      BY DEF DataInv
    <3> QED BY <2>2, <3>1
  <2> QED BY <2>3, <2>4 DEF DataInv
<1> QED BY <1>1, <1>2, <1>3, <1>4 DEF DataInv

LEMMA SettleData ==
  ASSUME RunsInv, DataInv, NEW h \in 1..Len(runs), Settle(h)
  PROVE  DataInv'
<1>1. PICK q : q = Fenced(runs[h])
  OBVIOUS
<1>2. q.stop \in {"no", "cancelled", "timed_out"}
  <2>1. runs[h] \in Run
    BY DEF RunsInv
  <2>2. q \in Run
    BY <1>1, <2>1, FencedRun
  <2> QED BY <2>2 DEF Run
<1>3. UNCHANGED receipts \/ (q.stop # "no" /\ Record(RunEvent(q.stop)))
  BY <1>1 DEF Settle
<1>4. receipts' \in Seq(AuditReceipt)
  BY <1>2, <1>3, OutcomeEvents, EventTypes, Recorded DEF DataInv
<1> QED BY <1>4 DEF DataInv, Settle

LEMMA FinishData ==
  ASSUME RunsInv, DataInv, NEW h \in 1..Len(runs), Finish(h)
  PROVE  DataInv'
<1>1. PICK status \in Outcomes(runs[h]) : Record(RunEvent(status))
  BY DEF Finish
<1>2. status \in {"cancelled", "timed_out", "unknown", "completed"}
  <2>1. runs[h] \in Run
    BY DEF RunsInv
  <2> QED BY <1>1, <2>1 DEF Outcomes, OwnOutcome, Run
<1>3. receipts' \in Seq(AuditReceipt)
  BY <1>1, <1>2, OutcomeEvents, EventTypes, Recorded DEF DataInv
<1> QED BY <1>3 DEF DataInv, Finish

LEMMA ReconcileData ==
  ASSUME DataInv, NEW h, NEW a \in Actions, Reconcile(h, a)
  PROVE  DataInv'
<1>1. /\ a \in plan.actions /\ UNCHANGED <<plan, probe, commits, started>>
  BY DEF Reconcile
<1>2. completed' \subseteq plan.actions
  BY <1>1 DEF Reconcile, DataInv
<1>3. PICK e : e = IF plan.evidence = "slow" THEN "reconciliation_timed_out" ELSE Evidence(a)
  OBVIOUS
<1>4. e \in AuditEvent /\ "reconciliation_started" \in AuditEvent
  BY <1>3, EvidenceType DEF AuditEvent
<1>5. PICK x, y : /\ x = ActionEvent("reconciliation_started", a, "proposed")
                  /\ y = ActionEvent(e, a, "proposed")
  OBVIOUS
<1>6. receipts' = receipts \o <<x, y>>
  BY <1>3, <1>5 DEF Reconcile
<1>7. x \in AuditReceipt /\ y \in AuditReceipt
  BY <1>4, <1>5, EventTypes DEF Arguments
<1>8. receipts' \in Seq(AuditReceipt)
  <2>1. <<x, y>> \in Seq(AuditReceipt)
    BY <1>7
  <2>2. receipts \in Seq(AuditReceipt)
    BY DEF DataInv
  <2> QED BY <1>6, <2>1, <2>2
<1> QED BY <1>1, <1>2, <1>8 DEF DataInv

LEMMA OtherData ==
  ASSUME DataInv, \/ \E h \in 1..Len(runs) : Cancel(h) \/ TimesOut(h)
                  \/ Release \/ Replay
  PROVE  DataInv'
<1>1. CASE \E h \in 1..Len(runs) : Cancel(h) \/ TimesOut(h)
  BY <1>1 DEF DataInv, Cancel, TimesOut
<1>2. CASE Release
  BY <1>2 DEF DataInv, Release
<1>3. CASE Replay
  <2>1. receipts' \in Seq(AuditReceipt)
    BY <1>3, OutcomeEvents, EventTypes, Recorded DEF DataInv, Replay
  <2> QED BY <1>3, <2>1 DEF DataInv, Replay
<1> QED BY <1>1, <1>2, <1>3

-------------------------------------------------------------------------------
(* All steps of the adapter.                                               *)

(* What its callers may do to a handle.                                    *)
Asks(h) ==
  \/ \E a \in Actions : (\E d \in Decision : Decide(h, a, d)) \/ Reconcile(h, a)
  \/ Cancel(h) \/ Release \/ Replay

LEMMA CurrentRun == ASSUME RunsInv PROVE Current \in 1..Len(runs) /\ Current = Len(runs)
BY DEF RunsInv, Current

LEMMA StepsKeep ==
  ASSUME RunsInv, DataInv, Steps
  PROVE  RunsInv' /\ DataInv'
<1> DEFINE h == Current
<1>0. h \in 1..Len(runs) /\ h = Len(runs)
  BY CurrentRun
<1> HIDE DEF h
<1>1. CASE Drive(h)
  BY <1>0, <1>1, DriveGoes, DriveData, RunsKept DEF Drive
<1>2. CASE Resolve(h)
  BY <1>0, <1>2, ResolveGoes, ResolveData, RunsKept DEF Resolve
<1>3. CASE Settle(h)
  BY <1>0, <1>3, SettleGoes, SettleData, RunsKept DEF Settle
<1>4. CASE Finish(h)
  BY <1>0, <1>4, FinishGoes, FinishData, RunsKept DEF Finish
<1>5. CASE \E a \in Actions : Effect(h, a)
  BY <1>0, <1>5, EffectGoes, EffectData, RunsKept DEF Effect
<1>6. CASE TimesOut(h)
  BY <1>0, <1>6, TimesOutGoes, OtherData, RunsKept DEF TimesOut
<1> QED BY <1>1, <1>2, <1>3, <1>4, <1>5, <1>6 DEF Steps, h

LEMMA AsksKeep ==
  ASSUME RunsInv, DataInv, NEW h \in 1..Len(runs), Asks(h)
  PROVE  RunsInv' /\ DataInv'
<1>1. CASE \E a \in Actions, d \in Decision : Decide(h, a, d)
  BY <1>1, DecideGoes, DecideData, RunsKept DEF Decide
<1>2. CASE \E a \in Actions : Reconcile(h, a)
  BY <1>2, ReconcileGoes, ReconcileData, RunsKept DEF Reconcile
<1>3. CASE Cancel(h)
  BY <1>3, CancelGoes, OtherData, RunsKept DEF Cancel
<1>4. CASE Release
  <2>1. DataInv'
    BY <1>4, OtherData
  <2>2. RunsInv'
    BY <1>4 DEF Release, RunsInv, RunInv, Underway, Unfinished, Ambiguous, Resolved,
                Executable, Allowed
  <2> QED BY <2>1, <2>2
<1>5. CASE Replay
  BY <1>5, ReplayKept, OtherData
<1> QED BY <1>1, <1>2, <1>3, <1>4, <1>5 DEF Asks

LEMMA AdapterSame ==
  ASSUME RunsInv, DataInv, UNCHANGED adapterVars
  PROVE  RunsInv' /\ DataInv'
<1>1. RunsInv'
  BY DEF adapterVars, RunsInv, RunInv, Underway, Unfinished, Ambiguous, Resolved,
         Executable, Allowed
<1>2. DataInv'
  BY DEF adapterVars, DataInv
<1> QED BY <1>1, <1>2

-------------------------------------------------------------------------------
(* The suite.                                                              *)

Lose == {"no", "before_commit", "after_commit"}

BeginSound ==
  \A p \in Plan, lose \in Lose : ValidPlan(p) /\ Begin(p, lose) => RunsInv /\ DataInv

LEMMA BeginIsSound == BeginSound
<1> SUFFICES ASSUME NEW p \in Plan, NEW lose \in Lose, ValidPlan(p), Begin(p, lose)
             PROVE  RunsInv /\ DataInv
  BY DEF BeginSound
<1>1. /\ plan = p /\ probe = NewProbe(p, lose) /\ runs = <<NewRun>> /\ completed = {}
      /\ commits = [a \in Actions |-> <<>>] /\ started = FALSE
      /\ receipts = <<RunEvent("run_started")>>
  BY DEF Begin, Begun
<1>2. RunsInv
  <2>1. Len(runs) = 1 /\ runs[1] = NewRun /\ runs \in Seq(Run)
    BY <1>1, NewRunType
  <2>2. \A h \in 1..Len(runs) : runs[h] = NewRun /\ h = Len(runs)
    BY <2>1
  <2>3. Len(runs) \in 1..MaxRuns
    BY <2>1, AdapterAssumption
  <2> QED BY <1>1, <2>1, <2>2, <2>3, NewRunType DEF RunsInv
<1>3. DataInv
  <2>1. probe \in [released : BOOLEAN, lose : {"no", "before_commit", "after_commit"}]
    BY <1>1 DEF NewProbe, Plan, Lose
  <2>2. commits \in [Actions -> Seq(Arguments)]
    BY <1>1
  <2>3. RunEvent("run_started") \in AuditReceipt
    BY OutcomeEvents, EventTypes
  <2>4. receipts \in Seq(AuditReceipt)
    BY <1>1, <2>3
  <2> QED BY <1>1, <2>1, <2>2, <2>4 DEF DataInv
<1> QED BY <1>2, <1>3

LEMMA LosesType == \A s : LosesOf(s) \in Lose
BY DEF LosesOf, Lose

LEMMA CallKeeps ==
  ASSUME RunsInv, DataInv, NEW op \in Call, Calls(op)
  PROVE  RunsInv' /\ DataInv'
<1>0. /\ Current \in 1..Len(runs) /\ 1 \in 1..Len(runs)
      /\ Primary \in Actions /\ Sibling \in Actions
  BY CurrentRun, TwoActions DEF RunsInv
<1>1. CASE op \in {"pending", "settle", "started", "outcome"}
  BY <1>1, AdapterSame DEF Calls
<1>2. CASE op \in {"approve", "revise", "reject", "reject_sibling", "cancel", "release", "replay"}
  <2>1. Asks(Current)
    BY <1>0, <1>2 DEF Calls, Asks, Decision
  <2> QED BY <1>0, <2>1, AsksKeep
<1>3. CASE op = "reconcile"
  <2>1. Asks(1)
    BY <1>0, <1>3 DEF Calls, Asks
  <2> QED BY <1>0, <2>1, AsksKeep
<1>4. CASE op = "interfere"
  <2>1. /\ commits' = [commits EXCEPT ![Primary] = Append(@, "foreign")]
        /\ UNCHANGED <<plan, probe, runs, completed, started, receipts>>
    BY <1>4 DEF Calls, Committed
  <2>2. RunsInv'
    BY <2>1 DEF RunsInv, RunInv, Underway, Unfinished, Ambiguous, Resolved, Executable, Allowed
  <2>3. Append(commits[Primary], "foreign") \in Seq(Arguments)
    <3>1. commits[Primary] \in Seq(Arguments) /\ "foreign" \in Arguments
      BY <1>0 DEF DataInv, Arguments
    <3> QED BY <3>1
  <2>4. commits' \in [Actions -> Seq(Arguments)]
    BY <1>0, <2>1, <2>3 DEF DataInv
  <2>5. DataInv'
    BY <2>1, <2>4 DEF DataInv
  <2> QED BY <2>2, <2>5
<1> QED BY <1>1, <1>2, <1>3, <1>4 DEF Call

LEMMA ResultKept ==
  ASSUME SuiteInv, NEW s, NEW verdict \in Verdict, Result(s, verdict)
  PROVE  suite' \in [perAction : BOOLEAN, failFast : BOOLEAN, strict : BOOLEAN,
                     declared : Declared, results : [ToSet(Scenarios) -> Verdict]]
<1>1. PICK f : f = [suite.results EXCEPT ![s] = verdict]
  OBVIOUS
<1>2. f \in [ToSet(Scenarios) -> Verdict]
  BY <1>1 DEF SuiteInv
<1>3. suite' = [suite EXCEPT !.results = f]
  BY <1>1 DEF Result
<1> QED BY <1>2, <1>3 DEF SuiteInv

LEMMA OverKept ==
  ASSUME SuiteInv, NEW s, NEW verdict \in Verdict, Over(s, verdict)
  PROVE  SuiteInv'
<1>1. at' = [name |-> "none", step |-> 1]
  BY DEF Over
<1>2. "none" \notin ToSet(Scenarios)
  BY ScenarioNames DEF Script
<1>3. suite' \in [perAction : BOOLEAN, failFast : BOOLEAN, strict : BOOLEAN,
                  declared : Declared, results : [ToSet(Scenarios) -> Verdict]]
  BY ResultKept DEF Over
<1> QED BY <1>1, <1>2, <1>3 DEF SuiteInv

LEMMA SuiteSame ==
  ASSUME SuiteInv, UNCHANGED <<suite, at>>
  PROVE  SuiteInv'
BY DEF SuiteInv

LEMMA ScriptStepKeeps ==
  ASSUME HarnessInv, ScriptStep
  PROVE  HarnessInv'
<1>1. PICK script, n, s : script = Script[at.name] /\ n = at.step /\ s = at.name
  OBVIOUS
<1>2. /\ s \in ToSet(Scenarios) /\ n \in 1..Len(script) /\ Len(script) \in 1..5
      /\ script[n][1] \in Call /\ at = [name |-> s, step |-> n]
  <2>1. s \in ToSet(Scenarios)
    BY <1>1 DEF ScriptStep, HarnessInv, SuiteInv
  <2>2. Sound(script)
    BY <1>1, <2>1, ScriptCalls
  <2> QED BY <1>1, <2>1, <2>2 DEF Sound, HarnessInv, SuiteInv
<1>3. Calls(script[n][1])
  BY <1>1 DEF ScriptStep
<1>4. RunsInv' /\ DataInv'
  BY <1>2, <1>3, CallKeeps DEF HarnessInv
<1>5. CASE \E verdict \in {"failed", "passed"} : Over(s, verdict)
  BY <1>4, <1>5, OverKept DEF HarnessInv, Verdict
<1>6. CASE n # Len(script) /\ at' = [at EXCEPT !.step = @ + 1] /\ UNCHANGED suite
  <2>1. at' = [name |-> s, step |-> n + 1] /\ n + 1 \in 1..Len(script) /\ n + 1 \in 1..6
    BY <1>2, <1>6
  <2>2. SuiteInv'
    BY <1>1, <1>2, <1>6, <2>1 DEF HarnessInv, SuiteInv
  <2> QED BY <1>4, <2>2 DEF HarnessInv
<1> QED BY <1>1, <1>5, <1>6 DEF ScriptStep

LEMMA Least ==
  ASSUME NEW T \in SUBSET Nat, T # {}
  PROVE  \E x \in T : \A y \in T : x <= y
<1>1. IsWellFoundedOn(OpToRel(<, Nat), Nat)
  BY NatLessThanWellFounded
<1>2. PICK x \in T : \A y \in T : ~(<<y, x>> \in OpToRel(<, Nat))
  BY <1>1, WFMin
<1>3. \A y \in T : ~(y < x)
  BY <1>2 DEF OpToRel
<1> QED BY <1>3

LEMMA UpcomingName == ASSUME Remaining # {} PROVE Upcoming \in ToSet(Scenarios)
<1>1. Remaining \subseteq 1..14
  BY ScenarioNames DEF Remaining
<1>2. PICK m \in Remaining : \A n \in Remaining : m <= n
  <2>1. Remaining \in SUBSET Nat
    BY <1>1
  <2> QED BY <2>1, Least
<1>3. Min(Remaining) \in Remaining
  BY <1>2 DEF Min
<1> QED BY <1>1, <1>3, ScenarioNames DEF Upcoming

LEMMA StartKeeps ==
  ASSUME HarnessInv, StartScenario
  PROVE  HarnessInv'
<1>1. PICK s : s = Upcoming
  OBVIOUS
<1>2. s \in ToSet(Scenarios) /\ UNCHANGED suite /\ at' = [name |-> s, step |-> 1]
  BY <1>1, UpcomingName DEF StartScenario
<1>3. PlanOf(s) \in Plan /\ ValidPlan(PlanOf(s)) /\ LosesOf(s) \in Lose
  BY PlansAreValid, LosesType
<1>4. Begin(PlanOf(s), LosesOf(s))'
  BY <1>1 DEF StartScenario, Begin
<1>5. BeginSound'
  BY BeginIsSound, PTL
<1>6. RunsInv' /\ DataInv'
  BY <1>3, <1>4, <1>5 DEF BeginSound
<1>7. SuiteInv'
  <2>1. Len(Script[s]) \in 1..5
    BY <1>2, ScriptCalls DEF Sound
  <2>2. at' \in [name : ToSet(Scenarios) \cup {"free", "none"}, step : 1..6]
    BY <1>2
  <2>3. at'.name = s /\ at'.step = 1
    BY <1>2
  <2>4. at'.step \leq Len(Script[at'.name])
    <3>1. PICK n : n = Len(Script[s])
      OBVIOUS
    <3>2. n \in 1..5
      BY <2>1, <3>1, Zenon
    <3>3. 1 \leq n
      BY <3>2
    <3> QED BY <2>3, <3>1, <3>3, Zenon
  <2> QED BY <1>2, <2>2, <2>4 DEF HarnessInv, SuiteInv
<1> QED BY <1>6, <1>7 DEF HarnessInv

LEMMA SuiteStepKeeps ==
  ASSUME HarnessInv, Skip \/ GivesUp
  PROVE  HarnessInv'
<1>1. RunsInv' /\ DataInv'
  BY AdapterSame DEF HarnessInv, Skip, GivesUp
<1>2. CASE Skip
  <2>1. suite' \in [perAction : BOOLEAN, failFast : BOOLEAN, strict : BOOLEAN,
                    declared : Declared, results : [ToSet(Scenarios) -> Verdict]]
    BY <1>2, ResultKept DEF Skip, Verdict, HarnessInv
  <2> QED BY <1>1, <1>2, <2>1 DEF HarnessInv, SuiteInv, Skip
<1>3. CASE GivesUp
  BY <1>1, <1>3, OverKept DEF HarnessInv, GivesUp, Verdict
<1> QED BY <1>2, <1>3

LEMMA FreeCallAsks ==
  ASSUME RunsInv, FreeCall
  PROVE  \E h \in 1..Len(runs) : Asks(h)
<1>1. Current \in 1..Len(runs)
  BY CurrentRun
<1> QED BY <1>1 DEF FreeCall, Asks

LEMMA HarnessStep == HarnessInv /\ [Next]_vars => HarnessInv'
<1> SUFFICES ASSUME HarnessInv, [Next]_vars
             PROVE  HarnessInv'
  OBVIOUS
<1>1. CASE at.name # "none" /\ Steps /\ UNCHANGED <<suite, at>>
  BY <1>1, StepsKeep, SuiteSame DEF HarnessInv
<1>2. CASE ScriptStep
  BY <1>2, ScriptStepKeeps
<1>3. CASE GivesUp \/ Skip
  BY <1>3, SuiteStepKeeps
<1>4. CASE StartScenario
  BY <1>4, StartKeeps
<1>5. CASE FreeCall
  BY <1>5, FreeCallAsks, AsksKeep, SuiteSame DEF HarnessInv, FreeCall
<1>6. CASE UNCHANGED vars
  BY <1>6, AdapterSame, SuiteSame DEF HarnessInv, vars
<1> QED BY <1>1, <1>2, <1>3, <1>4, <1>5, <1>6 DEF Next, AtRest

LEMMA HarnessInit == Init => HarnessInv
<1> SUFFICES ASSUME Init PROVE HarnessInv
  OBVIOUS
<1>1. RunsInv /\ DataInv
  <2>1. CASE Begin(PlanOf("replay"), "no")
    BY <2>1, PlansAreValid, BeginIsSound DEF BeginSound, Lose
  <2>2. CASE \E p \in FreePlans : \E lose \in {"no", "before_commit", "after_commit"} :
               Begin(p, lose)
    BY <2>2, HarnessAssumption, BeginIsSound DEF BeginSound, Lose
  <2> QED BY <2>1, <2>2 DEF Init
<1>2. suite \in [perAction : BOOLEAN, failFast : BOOLEAN, strict : BOOLEAN,
                 declared : Declared, results : [ToSet(Scenarios) -> Verdict]]
  <2>1. [s \in ToSet(Scenarios) |-> "none"] \in [ToSet(Scenarios) -> Verdict]
    BY DEF Verdict
  <2> QED BY <2>1 DEF Init
<1>3. "none" \notin ToSet(Scenarios) /\ "free" \notin ToSet(Scenarios)
  BY ScenarioNames DEF Script
<1>4. at = [name |-> "none", step |-> 1] \/ at = [name |-> "free", step |-> 1]
  BY DEF Init
<1>5. SuiteInv
  BY <1>2, <1>3, <1>4 DEF SuiteInv
<1> QED BY <1>1, <1>5 DEF HarnessInv

LEMMA HarnessInvariant == Spec => []HarnessInv
BY HarnessInit, HarnessStep, PTL DEF Spec

(* Type correctness of the harness and of the reference adapter: among     *)
(* others a handle that is done has an outcome and no effect of it is left *)
(* running (_drive's gather after an exception), and only the last handle  *)
(* is not done.                                                            *)
THEOREM HarnessTypes == Spec => []TypeOK
<1>1. HarnessInv => TypeOK
  <2> SUFFICES ASSUME HarnessInv PROVE TypeOK
    OBVIOUS
  <2>1. AdapterTypeOK
    <3>1. Len(runs) \leq MaxRuns
      BY AdapterAssumption DEF HarnessInv, RunsInv
    <3>2. \A h \in 1..Len(runs) :
            /\ runs[h].phase = "done" <=> runs[h].status # "none"
            /\ runs[h].phase = "done" => Unfinished(runs[h]) = {}
            /\ h < Len(runs) => runs[h].phase = "done"
      BY DEF HarnessInv, RunsInv, RunInv
    <3> QED BY <3>1, <3>2 DEF HarnessInv, RunsInv, DataInv, AdapterTypeOK
  <2> QED BY <2>1 DEF HarnessInv, SuiteInv, TypeOK
<1> QED BY <1>1, HarnessInvariant, PTL

-------------------------------------------------------------------------------
(* The journal, when only the adapter commits.                             *)

(* A handle changes, but no response of it is lost and nothing is          *)
(* reconciled.                                                             *)
Quiet(h) ==
  \E r : /\ Becomes(h, r) /\ r.evidence = runs[h].evidence
         /\ \A a \in Actions : r.task[a] = "ambiguous" <=> runs[h].task[a] = "ambiguous"

LEMMA QuietJournal ==
  ASSUME RunsInv, JournalInv, UNCHANGED <<completed, commits>>, probe'.lose = probe.lose,
         \A a \in Actions : (Lost(a)' <=> Lost(a)) /\ (Disproved(a)' <=> Disproved(a))
  PROVE  JournalInv'
BY DEF JournalInv

LEMMA QuietKeeps ==
  ASSUME RunsInv, JournalInv, UNCHANGED <<completed, commits>>, probe'.lose = probe.lose,
         NEW h \in 1..Len(runs), Quiet(h)
  PROVE  JournalInv'
<1>1. PICK r : /\ Becomes(h, r) /\ r.evidence = runs[h].evidence
               /\ \A a \in Actions : r.task[a] = "ambiguous" <=> runs[h].task[a] = "ambiguous"
  BY DEF Quiet
<1>2. /\ Len(runs') = Len(runs)
      /\ \A g \in 1..Len(runs) : runs'[g] = IF g = h THEN r ELSE runs[g]
  BY <1>1 DEF Becomes, RunsInv
<1>3. \A g \in 1..Len(runs), a \in Actions :
        /\ runs'[g].task[a] = "ambiguous" <=> runs[g].task[a] = "ambiguous"
        /\ runs'[g].evidence[a] = runs[g].evidence[a]
  BY <1>1, <1>2
<1>4. \A a \in Actions : (Lost(a)' <=> Lost(a)) /\ (Disproved(a)' <=> Disproved(a))
  BY <1>2, <1>3 DEF Lost, Disproved
<1> QED BY <1>4, QuietJournal

LEMMA ExecuteQuiet ==
  ASSUME RunsInv, NEW h \in 1..Len(runs), runs[h].phase \in {"created", "approvals"},
         Execute(h, runs[h])
  PROVE  Quiet(h)
<1>1. PICK r : r = runs[h]
  OBVIOUS
<1>2. RunInv(r) /\ r \in Run /\ \A a \in Actions : r.task[a] = "none"
  BY <1>1 DEF RunsInv, RunInv
<1>3. PICK s : /\ Becomes(h, s)
               /\ \/ s = Ended(r, "completed")
                  \/ s = [r EXCEPT !.phase = "executing",
                       !.task = [a \in Actions |-> IF a \in Executable(r) \ completed
                                                   THEN "ready" ELSE "none"]]
  BY <1>1 DEF Execute
<1>4. s.evidence = r.evidence /\ \A a \in Actions : s.task[a] # "ambiguous"
  <2>1. CASE s = Ended(r, "completed")
    BY <1>2, <2>1 DEF Ended, Run
  <2>2. CASE s # Ended(r, "completed")
    <3>1. PICK t : t = [a \in Actions |-> IF a \in Executable(r) \ completed
                                         THEN "ready" ELSE "none"]
      OBVIOUS
    <3>2. s = [r EXCEPT !.phase = "executing", !.task = t]
      BY <1>3, <2>2, <3>1
    <3>3. s.evidence = r.evidence /\ s.task = t
      BY <1>2, <3>2 DEF Run
    <3> QED BY <3>1, <3>3
  <2> QED BY <2>1, <2>2
<1> QED BY <1>1, <1>2, <1>3, <1>4 DEF Quiet

LEMMA DriverQuiet ==
  ASSUME RunsInv, NEW h \in 1..Len(runs), Drive(h) \/ Resolve(h) \/ Settle(h) \/ Finish(h)
  PROVE  Quiet(h)
<1>1. PICK r : r = runs[h]
  OBVIOUS
<1>2. r \in Run
  BY <1>1 DEF RunsInv
<1>3. CASE Drive(h)
  <2>1. CASE plan.gated = {}
    BY <1>3, <2>1, ExecuteQuiet DEF Drive
  <2>2. CASE plan.gated # {}
    <3>1. PICK s : s = [r EXCEPT !.phase = "approvals", !.decision =
                          [a \in Actions |-> IF a \in plan.gated THEN "pending" ELSE "none"]]
      OBVIOUS
    <3>2. Becomes(h, s) /\ s.task = r.task /\ s.evidence = r.evidence
      BY <1>1, <1>2, <1>3, <2>2, <3>1 DEF Drive, Run
    <3> QED BY <1>1, <3>2 DEF Quiet
  <2> QED BY <2>1, <2>2
<1>4. CASE Resolve(h)
  BY <1>4, ExecuteQuiet DEF Resolve
<1>5. CASE Settle(h)
  <2>1. PICK q : q = Fenced(r)
    OBVIOUS
  <2>2. /\ q \in Run /\ q.evidence = r.evidence
        /\ \A a \in Actions : q.task[a] = IF a \in Unfinished(r) THEN "stopped" ELSE r.task[a]
    BY <1>2, <2>1, FencedRun
  <2>3. PICK s : Becomes(h, s) /\ (s = Ended(q, q.stop) \/ s = [q EXCEPT !.phase = "settling"])
    BY <1>1, <1>5, <2>1 DEF Settle
  <2>4. s.task = q.task /\ s.evidence = q.evidence
    BY <2>2, <2>3 DEF Ended, Run
  <2> QED BY <1>1, <2>2, <2>3, <2>4 DEF Quiet, Unfinished
<1>6. CASE Finish(h)
  <2>1. PICK status : Becomes(h, Ended(r, status))
    BY <1>1, <1>6 DEF Finish
  <2>2. PICK s : s = Ended(r, status)
    OBVIOUS
  <2>3. s.task = r.task /\ s.evidence = r.evidence
    BY <1>2, <2>2 DEF Ended, Run
  <2> QED BY <1>1, <2>1, <2>2, <2>3 DEF Quiet
<1> QED BY <1>3, <1>4, <1>5, <1>6

LEMMA CallerQuiet ==
  ASSUME RunsInv, NEW h \in 1..Len(runs),
         \/ \E a \in Actions, d \in Decision : Decide(h, a, d)
         \/ Cancel(h) \/ TimesOut(h)
  PROVE  Quiet(h)
<1>1. PICK r : r = runs[h]
  OBVIOUS
<1>2. r \in Run
  BY <1>1 DEF RunsInv
<1>3. CASE \E a \in Actions, d \in Decision : Decide(h, a, d)
  <2>1. PICK a \in Actions, d \in Decision : Becomes(h, [r EXCEPT !.decision[a] = d])
    BY <1>1, <1>3 DEF Decide
  <2>2. PICK s : s = [r EXCEPT !.decision[a] = d]
    OBVIOUS
  <2>3. s.task = r.task /\ s.evidence = r.evidence
    BY <1>2, <2>2 DEF Run
  <2> QED BY <1>1, <2>1, <2>2, <2>3 DEF Quiet
<1>4. CASE Cancel(h)
  <2>1. PICK q : q = [r EXCEPT !.stop = "cancelled"]
    OBVIOUS
  <2>2. q \in Run /\ q.task = r.task /\ q.evidence = r.evidence
    BY <1>2, <2>1 DEF Run
  <2>3. PICK s : Becomes(h, s) /\ s \in {Ended(r, "no_outcome"), Fenced(q), q}
    BY <1>1, <1>4, <2>1 DEF Cancel
  <2>4. /\ Fenced(q).evidence = r.evidence
        /\ \A a \in Actions :
             Fenced(q).task[a] = IF a \in Unfinished(q) THEN "stopped" ELSE q.task[a]
    BY <2>2, FencedRun
  <2>5. Ended(r, "no_outcome").task = r.task /\ Ended(r, "no_outcome").evidence = r.evidence
    BY <1>2 DEF Ended, Run
  <2>6. s.evidence = r.evidence
    BY <2>2, <2>3, <2>4, <2>5
  <2>7. \A a \in Actions : s.task[a] = "ambiguous" <=> r.task[a] = "ambiguous"
    BY <2>2, <2>3, <2>4, <2>5 DEF Unfinished
  <2> QED BY <1>1, <2>3, <2>6, <2>7 DEF Quiet
<1>5. CASE TimesOut(h)
  <2>1. PICK s : s = [r EXCEPT !.stop = "timed_out"]
    OBVIOUS
  <2>2. Becomes(h, s) /\ s.task = r.task /\ s.evidence = r.evidence
    BY <1>1, <1>2, <1>5, <2>1 DEF TimesOut, Run
  <2> QED BY <1>1, <2>2 DEF Quiet
<1> QED BY <1>3, <1>4, <1>5

(* An action is disproved only after a response was lost.                  *)
LEMMA DisprovedAfterLost ==
  ASSUME RunsInv, NEW a \in Actions, Disproved(a)
  PROVE  \E b \in Actions : Lost(b)
<1>1. PICK h \in 1..Len(runs) : runs[h].evidence[a] = "not_committed"
  BY DEF Disproved
<1>2. Ambiguous(runs[h]) # {}
  BY <1>1 DEF RunsInv, RunInv
<1> QED BY <1>2 DEF Ambiguous, Lost

LEMMA CommitJournal ==
  ASSUME RunsInv, DataInv, JournalInv, NEW h \in 1..Len(runs), NEW a \in Actions,
         Effect(h, a), probe.released
  PROVE  JournalInv'
<1>1. PICK r, t : r = runs[h] /\ t = IF probe.lose = "no" THEN "done" ELSE "ambiguous"
  OBVIOUS
<1>2. PICK s : s = [r EXCEPT !.task[a] = t]
  OBVIOUS
<1>3. Commit(h, a) /\ Becomes(h, s) /\ r.task[a] \in {"ready", "blocked"} /\ r \in Run
  <2>1. Commit(h, a) /\ r.task[a] \in {"ready", "blocked"} /\ r \in Run
    BY <1>1 DEF Effect, RunsInv
  <2>2. Becomes(h, s)
    BY <1>1, <1>2, <2>1 DEF Commit
  <2> QED BY <2>1, <2>2
<1>4. /\ s.evidence = r.evidence /\ s.task[a] = t
      /\ \A b \in Actions \ {a} : s.task[b] = r.task[b]
  BY <1>2, <1>3 DEF Run
<1>5. /\ Len(runs') = Len(runs)
      /\ \A g \in 1..Len(runs) : runs'[g] = IF g = h THEN s ELSE runs[g]
  BY <1>3 DEF Becomes, RunsInv
<1>6. \A b \in Actions : Disproved(b)' <=> Disproved(b)
  <2>1. \A g \in 1..Len(runs), b \in Actions : runs'[g].evidence[b] = runs[g].evidence[b]
    BY <1>1, <1>4, <1>5
  <2> QED BY <1>5, <2>1 DEF Disproved
<1>7. \A b \in Actions \ {a} : Lost(b)' <=> Lost(b)
  <2>1. \A g \in 1..Len(runs), b \in Actions \ {a} : runs'[g].task[b] = runs[g].task[b]
    BY <1>1, <1>4, <1>5
  <2> QED BY <1>5, <2>1 DEF Lost
<1>8. probe.lose # "no" => Lost(a)'
  BY <1>1, <1>4, <1>5 DEF Lost
<1>9. completed' = completed \cup {a} /\ probe'.lose = "no"
  BY <1>3 DEF Commit, Completes, DataInv
<1>10. \A b \in Actions \ {a} : commits'[b] = commits[b]
  BY <1>3 DEF Commit, Committed, DataInv
<1>11. commits'[a] # <<>> \/ (Lost(a)' /\ ~Disproved(a)')
  <2>1. CASE probe.lose = "before_commit"
    <3>1. ~Disproved(a)
      BY <2>1, DisprovedAfterLost DEF JournalInv
    <3> QED BY <1>6, <1>8, <2>1, <3>1
  <2>2. CASE probe.lose # "before_commit"
    <3>1. PICK x : x = ArgumentsOf(runs[h], a)
      OBVIOUS
    <3>2. commits'[a] = Append(commits[a], x) /\ commits[a] \in Seq(Arguments) /\ x \in Arguments
      BY <1>3, <2>2, <3>1 DEF Commit, Committed, DataInv, ArgumentsOf, Arguments
    <3>3. Append(commits[a], x) # <<>>
      BY <3>2
    <3> QED BY <3>2, <3>3
  <2> QED BY <2>1, <2>2
<1>12. ASSUME NEW b \in Actions
       PROVE  (/\ commits[b] # <<>> => b \in completed
               /\ b \notin completed /\ Lost(b) => Disproved(b)
               /\ b \in completed => commits[b] # <<>> \/ (Lost(b) /\ ~Disproved(b)))'
  <2>1. CASE b = a
    BY <1>9, <1>11, <2>1
  <2>2. CASE b # a
    BY <1>6, <1>7, <1>9, <1>10, <2>2 DEF JournalInv
  <2> QED BY <2>1, <2>2
<1> QED BY <1>9, <1>12 DEF JournalInv

LEMMA EffectJournal ==
  ASSUME RunsInv, DataInv, JournalInv, NEW h \in 1..Len(runs), NEW a \in Actions,
         Effect(h, a)
  PROVE  JournalInv'
<1>1. CASE probe.released
  BY <1>1, CommitJournal
<1>2. CASE ~probe.released
  <2>1. PICK r : r = runs[h]
    OBVIOUS
  <2>2. PICK s : s = [r EXCEPT !.task[a] = "blocked"]
    OBVIOUS
  <2>3. /\ Becomes(h, s) /\ UNCHANGED <<probe, completed, commits>>
        /\ r.task[a] = "ready" /\ r \in Run
    BY <1>2, <2>1, <2>2 DEF Effect, RunsInv
  <2>4. /\ s.evidence = r.evidence
        /\ \A b \in Actions : s.task[b] = "ambiguous" <=> r.task[b] = "ambiguous"
    BY <2>2, <2>3 DEF Run
  <2>5. Quiet(h)
    BY <2>1, <2>3, <2>4 DEF Quiet
  <2> QED BY <2>3, <2>5, QuietKeeps
<1> QED BY <1>1, <1>2

LEMMA ReconcileJournal ==
  ASSUME RunsInv, DataInv, JournalInv, NEW h \in 1..Len(runs), NEW a \in Actions,
         Reconcile(h, a)
  PROVE  JournalInv'
<1>1. PICK r, e : r = runs[h] /\ e = Evidence(a)
  OBVIOUS
<1>2. PICK s : s = [r EXCEPT !.evidence[a] = e]
  OBVIOUS
<1>3. /\ Becomes(h, s) /\ r \in Run /\ r.evidence[a] = "none"
      /\ UNCHANGED <<plan, probe, commits>>
      /\ completed' = CASE e = "committed" -> completed \cup {a}
                        [] e = "not_committed" -> completed \ {a}
                        [] OTHER -> completed
  BY <1>1, <1>2 DEF Reconcile, RunsInv
<1>4. /\ s.task = r.task /\ s.evidence[a] = e
      /\ \A b \in Actions \ {a} : s.evidence[b] = r.evidence[b]
  BY <1>2, <1>3 DEF Run
<1>5. /\ Len(runs') = Len(runs)
      /\ \A g \in 1..Len(runs) : runs'[g] = IF g = h THEN s ELSE runs[g]
  BY <1>3 DEF Becomes, RunsInv
<1>6. \A b \in Actions : Lost(b)' <=> Lost(b)
  <2>1. \A g \in 1..Len(runs), b \in Actions : runs'[g].task[b] = runs[g].task[b]
    BY <1>1, <1>4, <1>5
  <2> QED BY <1>5, <2>1 DEF Lost
<1>7. \A b \in Actions \ {a} : Disproved(b)' <=> Disproved(b)
  <2>1. \A g \in 1..Len(runs), b \in Actions \ {a} : runs'[g].evidence[b] = runs[g].evidence[b]
    BY <1>1, <1>4, <1>5
  <2> QED BY <1>5, <2>1 DEF Disproved
<1>8. Disproved(a)' <=> Disproved(a) \/ e = "not_committed"
  BY <1>1, <1>3, <1>4, <1>5 DEF Disproved
<1>9. /\ e = "committed" => commits[a] # <<>>
      /\ e = "not_committed" => commits[a] = <<>>
  BY <1>1 DEF Evidence
<1>10. ASSUME NEW b \in Actions
       PROVE  (/\ commits[b] # <<>> => b \in completed
               /\ b \notin completed /\ Lost(b) => Disproved(b)
               /\ b \in completed => commits[b] # <<>> \/ (Lost(b) /\ ~Disproved(b)))'
  <2>1. CASE b = a
    <3>1. CASE e = "committed"
      BY <1>3, <1>9, <2>1, <3>1
    <3>2. CASE e = "not_committed"
      BY <1>3, <1>8, <1>9, <2>1, <3>2
    <3>3. CASE e \notin {"committed", "not_committed"}
      BY <1>3, <1>6, <1>8, <2>1, <3>3 DEF JournalInv
    <3> QED BY <3>1, <3>2, <3>3
  <2>2. CASE b # a
    <3>1. b \in completed' <=> b \in completed
      BY <1>3, <2>2
    <3> QED BY <1>3, <1>6, <1>7, <2>2, <3>1 DEF JournalInv
  <2> QED BY <2>1, <2>2
<1> QED BY <1>3, <1>6, <1>10 DEF JournalInv

LEMMA ReplayJournal ==
  ASSUME RunsInv, JournalInv, Replay
  PROVE  JournalInv'
<1>1. PICK s : s = NewRun
  OBVIOUS
<1>2. s \in Run /\ \A a \in Actions : s.task[a] = "none" /\ s.evidence[a] = "none"
  BY <1>1, NewRunType
<1>3. runs \in Seq(Run) /\ runs' = Append(runs, s) /\ UNCHANGED <<probe, completed, commits>>
  BY <1>1 DEF Replay, RunsInv
<1>4. /\ Len(runs') = Len(runs) + 1 /\ Len(runs) \in Nat /\ runs'[Len(runs) + 1] = s
      /\ \A g \in 1..Len(runs) : runs'[g] = runs[g]
  BY <1>2, <1>3
<1>5. \A g \in 1..Len(runs') : g \in 1..Len(runs) \/ runs'[g] = s
  BY <1>4
<1>6. 1..Len(runs) \subseteq 1..Len(runs')
  BY <1>4
<1>7. \A a \in Actions : (Lost(a)' <=> Lost(a)) /\ (Disproved(a)' <=> Disproved(a))
  BY <1>2, <1>4, <1>5, <1>6 DEF Lost, Disproved
<1> QED BY <1>3, <1>7, QuietJournal

LEMMA StepsJournal ==
  ASSUME RunsInv, DataInv, JournalInv, Steps
  PROVE  JournalInv'
<1> DEFINE h == Current
<1>0. h \in 1..Len(runs)
  BY CurrentRun
<1> HIDE DEF h
<1>1. CASE Drive(h) \/ Resolve(h) \/ Settle(h) \/ Finish(h)
  <2>1. UNCHANGED <<completed, commits, probe>>
    BY <1>1 DEF Drive, Resolve, Settle, Finish
  <2> QED BY <1>0, <1>1, <2>1, DriverQuiet, QuietKeeps
<1>2. CASE \E a \in Actions : Effect(h, a)
  BY <1>0, <1>2, EffectJournal
<1>3. CASE TimesOut(h)
  <2>1. UNCHANGED <<completed, commits, probe>>
    BY <1>3 DEF TimesOut
  <2> QED BY <1>0, <1>3, <2>1, CallerQuiet, QuietKeeps
<1> QED BY <1>1, <1>2, <1>3 DEF Steps, h

LEMMA AsksJournal ==
  ASSUME RunsInv, DataInv, JournalInv, NEW h \in 1..Len(runs), Asks(h)
  PROVE  JournalInv'
<1>1. CASE (\E a \in Actions, d \in Decision : Decide(h, a, d)) \/ Cancel(h)
  <2>1. UNCHANGED <<completed, commits, probe>>
    BY <1>1 DEF Decide, Cancel
  <2> QED BY <1>1, <2>1, CallerQuiet, QuietKeeps
<1>2. CASE \E a \in Actions : Reconcile(h, a)
  BY <1>2, ReconcileJournal
<1>3. CASE Release
  <2>1. UNCHANGED <<runs, completed, commits>> /\ probe'.lose = probe.lose
    BY <1>3 DEF Release, DataInv
  <2> QED BY <2>1 DEF JournalInv, Lost, Disproved
<1>4. CASE Replay
  BY <1>4, ReplayJournal
<1> QED BY <1>1, <1>2, <1>3, <1>4 DEF Asks

(* What callers without a script and the event loop do to the adapter.     *)
FreeStep ==
  \/ Steps
  \/ \E h \in 1..Len(runs) : Asks(h)
  \/ UNCHANGED adapterVars

LEMMA FreeSteps ==
  ASSUME RunsInv, at.name = "free", [Next]_vars
  PROVE  FreeStep /\ at' = at
<1>1. CASE FreeCall
  BY <1>1, FreeCallAsks DEF FreeStep, FreeCall
<1>2. CASE ~FreeCall
  BY <1>2 DEF FreeStep, Next, vars, ScriptStep, GivesUp, Skip, StartScenario, AtRest
<1> QED BY <1>1, <1>2

FreeInv == at.name = "free" => JournalInv

LEMMA StaysFree ==
  ASSUME HarnessInv, [Next]_vars, at'.name = "free"
  PROVE  at.name = "free"
<1>0. "free" \notin ToSet(Scenarios)
  BY ScenarioNames DEF Script
<1>1. ASSUME ScriptStep PROVE FALSE
  <2>1. at.name # "free" /\ at \in [name : ToSet(Scenarios) \cup {"free", "none"}, step : 1..6]
    BY <1>1 DEF ScriptStep, HarnessInv, SuiteInv
  <2>2. at'.name = at.name \/ at'.name = "none"
    BY <1>1, <2>1 DEF ScriptStep, Over
  <2> QED BY <2>1, <2>2
<1>2. ASSUME StartScenario PROVE FALSE
  <2>1. PICK s : s = Upcoming
    OBVIOUS
  <2>2. at'.name = s /\ s \in ToSet(Scenarios)
    BY <1>2, <2>1, UpcomingName DEF StartScenario
  <2> QED BY <1>0, <2>2
<1>3. ~GivesUp
  BY DEF GivesUp, Over
<1> QED BY <1>1, <1>2, <1>3 DEF Next, vars, Skip, FreeCall, AtRest

LEMMA FreeInvStep == HarnessInv /\ FreeInv /\ [Next]_vars => FreeInv'
<1> SUFFICES ASSUME HarnessInv, FreeInv, [Next]_vars, at'.name = "free"
             PROVE  JournalInv'
  BY DEF FreeInv
<1>1. RunsInv /\ DataInv /\ JournalInv /\ FreeStep
  BY StaysFree, FreeSteps DEF HarnessInv, FreeInv
<1>2. CASE UNCHANGED adapterVars
  BY <1>1, <1>2 DEF JournalInv, Lost, Disproved, adapterVars
<1> QED BY <1>1, <1>2, StepsJournal, AsksJournal DEF FreeStep

LEMMA FreeInvInit == Init => FreeInv
<1> SUFFICES ASSUME Init PROVE JournalInv
  BY DEF FreeInv
<1>1. PICK p, lose : Begin(p, lose)
  BY DEF Init
<1>2. /\ runs = <<NewRun>> /\ completed = {} /\ commits = [a \in Actions |-> <<>>]
  BY <1>1 DEF Begin, Begun
<1>3. Len(runs) = 1 /\ runs[1] = NewRun
  BY <1>2
<1>4. \A a \in Actions : ~Lost(a)
  BY <1>3, NewRunType DEF Lost
<1> QED BY <1>2, <1>4 DEF JournalInv

LEMMA ConformanceInvariant == Spec => []ConformanceInv
<1>1. ConformanceInv <=> HarnessInv /\ FreeInv
  BY DEF ConformanceInv, FreeInv
<1> QED BY <1>1, HarnessInit, HarnessStep, FreeInvInit, FreeInvStep, PTL DEF Spec

-------------------------------------------------------------------------------
(* The contract.                                                           *)

LEMMA CommitsAreSanctioned ==
  ASSUME RunsInv, DataInv, JournalInv, FreeStep, NEW a \in Actions, commits'[a] # commits[a]
  PROVE  Sanctioned(Current, a)
<1>1. PICK b \in Actions : Effect(Current, b)
  BY DEF FreeStep, Steps, Drive, Resolve, Settle, Finish, TimesOut, Asks, Decide, Reconcile,
         Cancel, Release, Replay, adapterVars
<1>2. Current \in 1..Len(runs) /\ Current = Len(runs)
  BY CurrentRun
<1>3. PICK h : h = Current
  OBVIOUS
<1>4. PICK x : x = ArgumentsOf(runs[h], b)
  OBVIOUS
<1>5. /\ probe.released /\ Commit(h, b)
      /\ commits' = [commits EXCEPT ![b] = Append(@, x)]
  BY <1>1, <1>3, <1>4 DEF Effect, Commit, Committed
<1>6. b = a
  BY <1>5 DEF DataInv
<1>7. /\ a \in Executable(runs[h]) /\ a \notin completed /\ Resolved(runs[h])
      /\ runs[h].phase = "executing"
  BY <1>1, <1>2, <1>3, <1>6, EffectGoes DEF Effect
<1>8. commits'[a] = <<x>>
  <2>1. commits[a] = <<>>
    BY <1>7 DEF JournalInv
  <2>2. commits'[a] = Append(commits[a], x)
    BY <1>5, <1>6 DEF DataInv
  <2> QED BY <2>1, <2>2
<1>9. ~Done(h)
  BY <1>7 DEF Done
<1>10. \A c \in plan.gated : runs[h].decision[c] \in Decision
  BY <1>7 DEF Resolved
<1>11. \A c \in {a} \cup AncestorsOf(plan, a) :
         c \in plan.gated => runs[h].decision[c] \in {"approve", "revise"}
  BY <1>7 DEF Executable, Allowed
<1>12. ASSUME NEW g \in 1..(h - 1), runs[g].task[a] = "ambiguous"
       PROVE  \E f \in 1..(h - 1) : runs[f].evidence[a] = "not_committed"
  <2>1. h \in Nat /\ g \in 1..Len(runs) /\ h = Len(runs)
    BY <1>2, <1>3 DEF RunsInv
  <2>2. Disproved(a)
    BY <1>7, <1>12, <2>1 DEF JournalInv, Lost
  <2>3. PICK f \in 1..Len(runs) : runs[f].evidence[a] = "not_committed"
    BY <2>2 DEF Disproved
  <2>4. f # h
    <3>1. runs[f].phase = "done"
      BY <2>3 DEF RunsInv, RunInv
    <3> QED BY <1>7, <3>1
  <2> QED BY <2>1, <2>3, <2>4
<1> QED BY <1>3, <1>4, <1>6, <1>8, <1>9, <1>10, <1>11, <1>12 DEF Sanctioned

LEMMA ExecuteEnds ==
  ASSUME RunsInv, NEW h \in 1..Len(runs), Execute(h, runs[h]), UNCHANGED completed,
         runs'[h].phase = "done"
  PROVE  Executable(runs'[h]) \subseteq completed'
<1>1. PICK r : r = runs[h]
  OBVIOUS
<1>2. r \in Run /\ Execute(h, r)
  BY <1>1 DEF RunsInv
<1>3. CASE Executable(r) \ completed = {}
  <2>1. runs'[h] = Ended(r, "completed")
    BY <1>2, <1>3 DEF Execute, Becomes, RunsInv
  <2>2. PICK s : s = Ended(r, "completed")
    OBVIOUS
  <2>3. s.decision = r.decision
    BY <1>2, <2>2 DEF Ended, Run
  <2>4. Executable(s) = Executable(r)
    BY <2>3 DEF Executable, Allowed
  <2>5. Executable(runs'[h]) = Executable(r)
    BY <2>1, <2>2, <2>4
  <2> QED BY <1>3, <2>5
<1>4. CASE Executable(r) \ completed # {}
  <2>1. PICK t : t = [a \in Actions |-> IF a \in Executable(r) \ completed THEN "ready" ELSE "none"]
    OBVIOUS
  <2>2. PICK s : s = [r EXCEPT !.phase = "executing", !.task = t]
    OBVIOUS
  <2>3. runs'[h] = s
    BY <1>2, <1>4, <2>1, <2>2 DEF Execute, Becomes, RunsInv
  <2>4. s.phase = "executing"
    BY <1>2, <2>2 DEF Run
  <2> QED BY <2>3, <2>4
<1> QED BY <1>3, <1>4

LEMMA BecomesAt ==
  ASSUME RunsInv, NEW h \in 1..Len(runs), NEW r, Becomes(h, r)
  PROVE  runs'[h] = r
BY DEF Becomes, RunsInv

(* A handle that ends completed has completed all that was let through.    *)
LEMMA CompletedMeans ==
  ASSUME RunsInv, FreeStep, NEW h, h = Len(runs), runs[h].phase # "done",
         h \in 1..Len(runs), runs'[h].phase = "done", runs'[h].status = "completed"
  PROVE  Executable(runs'[h]) \subseteq completed'
<1>1. PICK r : r = runs[h]
  OBVIOUS
<1>2. RunInv(r) /\ Underway(r) /\ r \in Run /\ r.status = "none" /\ Current = h
  BY <1>1 DEF RunsInv, RunInv, Current
<1>3. CASE Drive(h)
  <2>1. CASE plan.gated = {}
    BY <1>3, <2>1, ExecuteEnds DEF Drive
  <2>2. CASE plan.gated # {}
    <3>1. PICK s : s = [r EXCEPT !.phase = "approvals", !.decision =
                          [a \in Actions |-> IF a \in plan.gated THEN "pending" ELSE "none"]]
      OBVIOUS
    <3>2. runs'[h] = s /\ s.phase = "approvals"
      BY <1>1, <1>2, <1>3, <2>2, <3>1 DEF Drive, Becomes, RunsInv, Run
    <3> QED BY <3>2
  <2> QED BY <2>1, <2>2
<1>4. CASE Resolve(h)
  BY <1>4, ExecuteEnds DEF Resolve
<1>5. CASE Finish(h)
  <2>1. PICK status \in Outcomes(r) : Becomes(h, Ended(r, status))
    BY <1>1, <1>5 DEF Finish
  <2>2. PICK s : s = Ended(r, status)
    OBVIOUS
  <2>3. /\ runs'[h] = s /\ s.status = status /\ s.decision = r.decision
        /\ UNCHANGED <<plan, completed>>
        /\ r.phase \in {"executing", "settling"} /\ Unfinished(r) = {}
    <3>1. /\ r.phase \in {"executing", "settling"} /\ UNCHANGED <<plan, completed>>
          /\ r.phase = "executing" => Unfinished(r) = {}
      BY <1>1, <1>5 DEF Finish
    <3>2. Unfinished(r) = {}
      BY <1>2, <3>1 DEF RunInv
    <3>3. s.status = status /\ s.decision = r.decision
      BY <1>2, <2>2 DEF Ended, Run
    <3>4. runs'[h] = s
      BY <2>1, <2>2 DEF Becomes, RunsInv
    <3> QED BY <3>1, <3>2, <3>3, <3>4
  <2>4. status = "completed"
    BY <2>3
  <2>5. \A a \in Actions : r.task[a] # "stopped"
    BY <1>2, <2>1, <2>4 DEF Outcomes, OwnOutcome, Run
  <2>6. \A a \in Executable(r) \ completed : r.task[a] \in {"ready", "blocked", "stopped"}
    BY <1>2, <2>3 DEF Underway
  <2>7. Executable(r) \subseteq Actions
    BY DEF Executable, RunsInv, Plan
  <2>8. Executable(r) \subseteq completed
    BY <2>3, <2>5, <2>6, <2>7 DEF Unfinished
  <2>9. Executable(s) = Executable(r)
    BY <2>3 DEF Executable, Allowed
  <2> QED BY <2>3, <2>8, <2>9
<1>6. ASSUME Settle(h) PROVE FALSE
  <2>1. PICK q : q = Fenced(r)
    OBVIOUS
  <2>2. q \in Run
    BY <1>2, <2>1, FencedRun
  <2>3. runs'[h] = Ended(q, q.stop) \/ runs'[h] = [q EXCEPT !.phase = "settling"]
    BY <1>1, <1>6, <2>1 DEF Settle, Becomes, RunsInv
  <2>4. /\ Ended(q, q.stop).status = q.stop
        /\ [q EXCEPT !.phase = "settling"].phase = "settling"
        /\ q.stop # "completed"
    BY <2>2 DEF Ended, Run
  <2> QED BY <2>3, <2>4
<1>7. ASSUME NEW a \in Actions, Effect(h, a) PROVE FALSE
  <2>1. PICK t : runs'[h] = [r EXCEPT !.task[a] = t]
    <3>1. PICK t : Becomes(h, [r EXCEPT !.task[a] = t])
      BY <1>1, <1>7 DEF Effect, Commit
    <3> QED BY <3>1, BecomesAt
  <2>2. PICK s : s = [r EXCEPT !.task[a] = t]
    OBVIOUS
  <2>3. s.phase = r.phase
    BY <1>2, <2>2 DEF Run
  <2> QED BY <1>1, <2>1, <2>2, <2>3
<1>8. ASSUME TimesOut(h) PROVE FALSE
  <2>1. PICK s : s = [r EXCEPT !.stop = "timed_out"]
    OBVIOUS
  <2>2. runs'[h] = s /\ s.phase = r.phase
    BY <1>1, <1>2, <1>8, <2>1 DEF TimesOut, Becomes, RunsInv, Run
  <2> QED BY <1>1, <2>2
<1>9. ASSUME NEW g \in 1..Len(runs), NEW a \in Actions, NEW d \in Decision, Decide(g, a, d)
      PROVE  FALSE
  <2>1. PICK q : q = runs[g]
    OBVIOUS
  <2>2. PICK s : s = [q EXCEPT !.decision[a] = d]
    OBVIOUS
  <2>3. s.phase = q.phase /\ Becomes(g, s)
    BY <1>9, <2>1, <2>2 DEF Decide, RunsInv, Run
  <2>4. runs'[h].phase = runs[h].phase
    BY <2>1, <2>3 DEF Becomes, RunsInv
  <2> QED BY <2>4
<1>10. ASSUME NEW g \in 1..Len(runs), Cancel(g) PROVE FALSE
  <2>1. g = h
    <3>1. runs[g].phase # "done"
      BY <1>10 DEF Cancel, Done
    <3>2. ~(g < Len(runs)) /\ Len(runs) \in Nat
      BY <3>1 DEF RunsInv
    <3> QED BY <3>2
  <2>2. PICK q : q = [r EXCEPT !.stop = "cancelled"]
    OBVIOUS
  <2>3. q \in Run /\ q.phase = r.phase
    BY <1>2, <2>2 DEF Run
  <2>4. Fenced(q).phase = r.phase
    BY <2>3, FencedRun
  <2>5. runs'[h] \in {Ended(r, "no_outcome"), Fenced(q), q}
    <3>1. PICK s \in {Ended(r, "no_outcome"), Fenced(q), q} : Becomes(h, s)
      BY <1>1, <1>10, <2>1, <2>2 DEF Cancel
    <3>2. runs'[h] = s
      BY <3>1, BecomesAt
    <3> QED BY <3>1, <3>2
  <2>6. Ended(r, "no_outcome").status = "no_outcome"
    BY <1>2 DEF Ended, Run
  <2> QED BY <1>1, <2>3, <2>4, <2>5, <2>6
<1>11. ASSUME \/ \E g \in 1..Len(runs), a \in Actions : Reconcile(g, a)
              \/ Release \/ Replay \/ UNCHANGED adapterVars
       PROVE  FALSE
  BY <1>2, <1>11 DEF Reconcile, Release, Replay, adapterVars, Done
<1> QED BY <1>2, <1>3, <1>4, <1>5, <1>6, <1>7, <1>8, <1>9, <1>10, <1>11
        DEF FreeStep, Steps, Asks

(* Only a replay adds a handle, when the last one is done.                 *)
LEMMA StepsLength ==
  ASSUME RunsInv, FreeStep, ~Done(Current)
  PROVE  Len(runs') = Len(runs)
<1>1. ASSUME NEW h \in 1..Len(runs), NEW r, Becomes(h, r)
      PROVE  Len(runs') = Len(runs)
  BY <1>1 DEF Becomes, RunsInv
<1>2. Current \in 1..Len(runs)
  BY CurrentRun
<1>3. CASE Steps
  <2>1. PICK h : h = Current
    OBVIOUS
  <2>2. \E r : Becomes(h, r)
    BY <1>3, <2>1 DEF Steps, Drive, Resolve, Execute, Settle, Finish, Effect, Commit, TimesOut
  <2> QED BY <1>1, <1>2, <2>1, <2>2
<1>4. CASE \E h \in 1..Len(runs) : Asks(h)
  <2>1. PICK h \in 1..Len(runs) : Asks(h)
    BY <1>4
  <2>2. (\E r : Becomes(h, r)) \/ UNCHANGED runs
    BY <2>1 DEF Asks, Decide, Reconcile, Cancel, Release, Replay
  <2> QED BY <1>1, <2>2
<1>5. CASE UNCHANGED adapterVars
  BY <1>5 DEF adapterVars
<1> QED BY <1>3, <1>4, <1>5 DEF FreeStep

LEMMA OutcomesAreHonest ==
  ASSUME HarnessInv, HarnessInv', JournalInv', FreeStep,
         Done(Current)', ~Done(Current)
  PROVE  Honest(Current)
<1>1. PICK h : h = Current
  OBVIOUS
<1>2. h \in 1..Len(runs) /\ h = Len(runs) /\ runs[h].phase # "done"
  BY <1>1, CurrentRun DEF HarnessInv, Done
<1>3. Len(runs') = Len(runs)
  BY StepsLength DEF HarnessInv
<1>4. runs'[h].phase = "done"
  BY <1>2, <1>3 DEF Done, Current
<1>5. ASSUME runs'[h].status = "completed", NEW a \in Executable(runs'[h])
      PROVE  \/ commits'[a] # <<>>
             \/ /\ \E g \in 1..h : runs'[g].task[a] = "ambiguous"
                /\ \A g \in 1..h : runs'[g].evidence[a] # "not_committed"
  <2>1. a \in completed' /\ a \in Actions
    <3>1. Executable(runs'[h]) \subseteq Actions
      BY DEF Executable, HarnessInv, RunsInv, Plan
    <3> QED BY <1>2, <1>4, <1>5, <3>1, CompletedMeans DEF HarnessInv
  <2>2. commits'[a] # <<>> \/ (Lost(a)' /\ ~Disproved(a)')
    BY <2>1 DEF JournalInv
  <2> QED BY <1>2, <1>3, <2>2 DEF Lost, Disproved
<1>6. runs'[h].status = "unknown" => Ambiguous(runs'[h]) # {}
  <2>1. RunInv(runs[h])'
    BY <1>2, <1>3 DEF HarnessInv, RunsInv
  <2> QED BY <2>1 DEF RunInv, Ambiguous
<1> QED BY <1>1, <1>5, <1>6 DEF Honest

(* docs/adapters.md, of callers without a script: the reference adapter    *)
(* commits an action at most once and only as it was decided, commits it   *)
(* again after a lost response only when that was disproved, and gives no  *)
(* outcome the effects do not bear out.                                    *)
THEOREM ContractIsKept == Spec => ContractKept
<1>1. ASSUME ConformanceInv, ConformanceInv', [Next]_vars, at.name = "free"
      PROVE  /\ \A a \in Actions : commits'[a] # commits[a] => Sanctioned(Current, a)
             /\ Done(Current)' /\ ~Done(Current) => Honest(Current)
  <2>1. RunsInv /\ DataInv /\ HarnessInv /\ JournalInv
    BY <1>1 DEF ConformanceInv, HarnessInv
  <2>2. FreeStep /\ at' = at
    BY <1>1, <2>1, FreeSteps
  <2>3. HarnessInv' /\ JournalInv'
    BY <1>1, <2>2 DEF ConformanceInv
  <2> QED BY <2>1, <2>2, <2>3, CommitsAreSanctioned, OutcomesAreHonest
<1>2. ConformanceInv /\ ConformanceInv' /\ [Next]_vars =>
        [at.name = "free" =>
           /\ \A a \in Actions : commits'[a] # commits[a] => Sanctioned(Current, a)
           /\ Done(Current)' /\ ~Done(Current) => Honest(Current)]_vars
  BY <1>1
<1> QED BY <1>2, ConformanceInvariant, PTL DEF Spec, ContractKept

-------------------------------------------------------------------------------
(* The scenarios.  Each family has an invariant of the name of the         *)
(* scenario and of the number of the call that comes next.                 *)

(* Scenarios with approvals: nobody stops the run, no response is lost and *)
(* the sentinel does not wait.                                             *)
Approving == {"approval_hold", "rejection", "argument_binding", "parallel_barrier",
              "delegation", "audit_receipts"}

DecidedBy(s) == IF s \in {"approval_hold", "parallel_barrier", "delegation"} THEN 4 ELSE 3

DecisionIn(s) ==
  IF s \in {"rejection", "delegation"} THEN "reject"
  ELSE IF s = "argument_binding" THEN "revise" ELSE "approve"

(* The decisions, once they are asked for, before call k.                  *)
DecisionBefore(s, k, a) ==
  IF a = Primary THEN IF k < DecidedBy(s) THEN "pending" ELSE DecisionIn(s)
  ELSE IF s # "audit_receipts" THEN "none"
  ELSE IF k < 4 THEN "pending" ELSE "reject"

(* The journal holds exactly what is completed, which is only what the     *)
(* decisions let through, and at the end all of it.                        *)
ApprovingRun(s, k, r) ==
  /\ r.phase # "settling" /\ r.stop = "no" /\ r.status \in {"none", "completed"}
  /\ \A a \in Actions :
       /\ r.task[a] \in {"none", "ready", "done"}
       /\ r.decision[a] = IF r.phase = "created" THEN "none" ELSE DecisionBefore(s, k, a)
       /\ commits[a] = IF a \in completed THEN <<ArgumentsOf(r, a)>> ELSE <<>>
  /\ r.phase = "created" => k = 1
  /\ r.phase \in {"executing", "done"} => Resolved(r)
  /\ r.phase \in {"created", "approvals"} => completed = {}
  /\ r.phase = "done" => completed = Executable(r)
  /\ completed \subseteq Executable(r)

ApprovingInv(s, k) ==
  /\ plan = PlanOf(s) /\ Len(runs) = 1 /\ probe = [released |-> TRUE, lose |-> "no"]
  /\ ApprovingRun(s, k, runs[1])

(* What audit_receipts reads, when x was asked about before y.             *)
AskedFor(x, y) ==
  <<RunEvent("run_started"), ActionEvent("approval_requested", x, "proposed"),
    ActionEvent("approval_requested", y, "proposed")>>
Approved == ActionEvent("approved", Primary, "proposed")
Rejected == ActionEvent("rejected", Sibling, "proposed")

TrailBefore(x, y, k, phase) ==
  CASE phase = "created" -> <<RunEvent("run_started")>>
    [] phase # "created" /\ k \leq 2 -> AskedFor(x, y)
    [] phase # "created" /\ k = 3 -> Append(AskedFor(x, y), Approved)
    [] phase # "created" /\ k > 3 /\ phase # "done" ->
         Append(Append(AskedFor(x, y), Approved), Rejected)
    [] OTHER -> Append(Append(Append(AskedFor(x, y), Approved), Rejected),
                       RunEvent("completed"))

TrailInv(k) ==
  \E x, y \in Actions : x # y /\ receipts = TrailBefore(x, y, k, runs[1].phase)

(* Scenarios without approvals: run h tries the action, the first time     *)
(* with its response lost or not ...                                       *)
Trying == {"replay", "outcome_ambiguity", "reconcile_committed", "reconcile_not_committed",
           "reconcile_conflict", "reconcile_unavailable"}

TryRun(r, lose) ==
  /\ r.stop = "no" /\ r.evidence[Primary] = "none" /\ r.decision[Primary] = "none"
  /\ \/ /\ r.task[Primary] \in {"none", "ready"} /\ completed = {}
        /\ commits[Primary] = <<>> /\ probe.lose = lose
        /\ r.phase = IF r.task[Primary] = "none" THEN "created" ELSE "executing"
     \/ /\ r.task[Primary] = IF lose = "no" THEN "done" ELSE "ambiguous"
        /\ completed = {Primary} /\ probe.lose = "no"
        /\ commits[Primary] = IF lose = "before_commit" THEN <<>> ELSE <<"proposed">>
        /\ r.phase \in {"executing", "settling", "done"}
        /\ r.phase = "done" => r.status = IF lose = "no" THEN "completed" ELSE "unknown"

(* ... or has nothing left to do.                                          *)
RepeatRun(r) ==
  /\ r.stop = "no" /\ r.phase \in {"created", "done"}
  /\ r.phase = "done" => r.status = "completed"
  /\ completed = {Primary} /\ commits[Primary] = <<"proposed">>

TryingInv(s, k) ==
  /\ plan = PlanOf(s) /\ probe.released /\ commits[Sibling] = <<>>
  /\ Len(runs) = IF k < IF s \in {"replay", "outcome_ambiguity"} THEN 3 ELSE 4 THEN 1 ELSE 2
  /\ k > 1 => runs[1].phase = "done"
  /\ k \leq 2 => TryRun(runs[1], LosesOf(s))
  /\ k > 2 /\ s \in {"replay", "outcome_ambiguity"} => RepeatRun(runs[2])
  /\ k = 3 /\ s = "reconcile_conflict" =>
       /\ runs[1].status = "unknown" /\ runs[1].evidence[Primary] = "none"
       /\ commits[Primary] = <<"proposed", "foreign">>
  /\ k = 3 /\ s = "reconcile_committed" =>
       completed = {Primary} /\ commits[Primary] = <<"proposed">>
  /\ k = 4 /\ s = "reconcile_committed" => RepeatRun(runs[2])
  /\ k = 3 /\ s = "reconcile_not_committed" =>
       completed = {} /\ commits[Primary] = <<>> /\ probe.lose = "no"
  /\ k = 4 /\ s = "reconcile_not_committed" => TryRun(runs[2], "no")

(* Scenarios that stop the run while its effect waits: the sentinel is     *)
(* released only after the end.                                            *)
Stopping == {"cancellation", "timeout"}

StopOf(s) == IF s = "cancellation" THEN "cancelled" ELSE "timed_out"
ReleasedAt(s) == IF s = "cancellation" THEN 5 ELSE 4

StoppingRun(s, k, r) ==
  /\ r.task[Sibling] = "none" /\ r.stop \in {"no", StopOf(s)}
  /\ k \geq ReleasedAt(s) - 1 => r.phase = "done"
  /\ s = "cancellation" => (r.stop = "no" <=> k \leq 2)
  /\ started \/ k > 1 \/ r.stop # "no" => r.phase # "created"
  /\ r.phase \in {"created", "executing", "settling", "done"}
  /\ r.phase = "executing" =>
       IF s = "cancellation" /\ r.stop # "no" THEN r.task[Primary] = "stopped"
       ELSE r.task[Primary] \in {"ready", "blocked"}
  /\ r.phase = "settling" => r.stop # "no" /\ r.task[Primary] = "stopped"
  /\ r.phase = "done" => r.stop # "no" /\ r.status = StopOf(s)

StoppingInv(s, k) ==
  /\ plan = PlanOf(s) /\ Len(runs) = 1 /\ completed = {}
  /\ probe.lose = "no" /\ \A a \in Actions : commits[a] = <<>>
  /\ probe.released => k = ReleasedAt(s)
  /\ StoppingRun(s, k, runs[1])

ScenarioInv(s, k) ==
  /\ s \in Approving => ApprovingInv(s, k)
  /\ s = "audit_receipts" => TrailInv(k)
  /\ s \in Trying => TryingInv(s, k)
  /\ s \in Stopping => StoppingInv(s, k)

ScriptInv == ScenarioInv(at.name, at.step)

(* What the results can be.                                                *)
ResultsInv ==
  \A s \in ToSet(Scenarios) :
    /\ suite.results[s] # "failed"
    /\ suite.results[s] = "error" => s = "timeout"
    /\ suite.results[s] = "skipped" => s \notin suite.declared

-------------------------------------------------------------------------------
(* The plans and the scripts of the scenarios.                             *)

LEMMA NoAncestors ==
  ASSUME NEW p, NEW a, p.parent[a] = NoParent
  PROVE  AncestorsOf(p, a) = {}
<1>1. PICK C : C = {}
  OBVIOUS
<1>2. C = {p.parent[a]} \ {NoParent} /\ {p.parent[b] : b \in C} \ {NoParent} \subseteq C
  BY <1>1
<1>3. AncestorsOf(p, a) = C
  BY <1>2, AncestorsClosed
<1> QED BY <1>1, <1>3

LEMMA OneAncestor ==
  ASSUME NEW p, NEW a, NEW b, b # NoParent, p.parent[a] = b, p.parent[b] = NoParent
  PROVE  AncestorsOf(p, a) = {b}
<1>1. PICK C : C = {b}
  OBVIOUS
<1>2. C = {p.parent[a]} \ {NoParent} /\ {p.parent[c] : c \in C} \ {NoParent} \subseteq C
  BY <1>1
<1>3. AncestorsOf(p, a) = C
  BY <1>2, AncestorsClosed
<1> QED BY <1>1, <1>3

LEMMA ApprovingPlan ==
  ASSUME NEW s \in Approving, NEW p, p = PlanOf(s)
  PROVE  /\ ~p.timed /\ ~p.block
         /\ p.gated = IF s = "audit_receipts" THEN Actions ELSE {Primary}
         /\ p.actions = IF s \in {"approval_hold", "rejection", "argument_binding"}
                        THEN {Primary} ELSE Actions
         /\ \A a \in Actions : AncestorsOf(p, a) =
              IF s = "delegation" /\ a = Sibling THEN {Primary} ELSE {}
<1>1. CASE s = "delegation"
  <2>1. p = [Simple EXCEPT !.actions = Actions, !.gated = {Primary}, !.parent[Sibling] = Primary]
    BY <1>1 DEF PlanOf
  <2>2. p.parent = [Simple.parent EXCEPT ![Sibling] = Primary]
    BY <2>1 DEF Simple
  <2>3. ~p.timed /\ ~p.block /\ p.actions = Actions /\ p.gated = {Primary}
    BY <2>1 DEF Simple
  <2>4. p.parent[Primary] = NoParent /\ p.parent[Sibling] = Primary
    BY <2>2, TwoActions, HarnessAssumption DEF Simple
  <2>5. AncestorsOf(p, Primary) = {}
    BY <2>4, NoAncestors
  <2>6. AncestorsOf(p, Sibling) = {Primary}
    BY <2>4, TwoActions, AdapterAssumption, OneAncestor
  <2> QED BY <1>1, <2>3, <2>5, <2>6, HarnessAssumption
<1>2. CASE s # "delegation"
  <2>1. /\ ~p.timed /\ ~p.block /\ p.parent = Simple.parent
        /\ p.gated = IF s = "audit_receipts" THEN Actions ELSE {Primary}
        /\ p.actions = IF s \in {"approval_hold", "rejection", "argument_binding"}
                       THEN {Primary} ELSE Actions
    BY <1>2 DEF Approving, PlanOf, Simple
  <2>2. ASSUME NEW a \in Actions PROVE AncestorsOf(p, a) = {}
    BY <2>1, SimpleType, NoAncestors
  <2> QED BY <1>2, <2>1, <2>2
<1> QED BY <1>1, <1>2

LEMMA OtherPlans ==
  ASSUME NEW s \in Trying \cup Stopping, NEW p, p = PlanOf(s)
  PROVE  /\ p.actions = {Primary} /\ p.gated = {}
         /\ p.timed <=> s = "timeout"
         /\ p.block <=> s \in Stopping
         /\ p.evidence = IF s = "reconcile_unavailable" THEN "slow" ELSE "available"
         /\ \A a \in Actions : AncestorsOf(p, a) = {}
<1>1. /\ p.actions = {Primary} /\ p.gated = {} /\ p.parent = Simple.parent
      /\ p.timed <=> s = "timeout"
      /\ p.block <=> s \in Stopping
      /\ p.evidence = IF s = "reconcile_unavailable" THEN "slow" ELSE "available"
  BY DEF Trying, Stopping, PlanOf, Simple
<1>2. ASSUME NEW a \in Actions PROVE AncestorsOf(p, a) = {}
  BY <1>1, SimpleType, NoAncestors
<1> QED BY <1>1, <1>2

LEMMA Families ==
  /\ ToSet(Scenarios) = Approving \cup Trying \cup Stopping
  /\ Approving \cap Trying = {} /\ Approving \cap Stopping = {} /\ Trying \cap Stopping = {}
BY ScenarioNames DEF Script, Approving, Trying, Stopping

(* What the calls of a script are and what is expected after them.         *)
Is(script, k, op, e) == script[k][1] = op /\ script[k][2] = e

LEMMA TwoCalls ==
  \A o1, e1, o2, e2 : LET script == << <<o1, e1>>, <<o2, e2>> >> IN
    Len(script) = 2 /\ Is(script, 1, o1, e1) /\ Is(script, 2, o2, e2)
BY DEF Is

LEMMA ThreeCalls ==
  \A o1, e1, o2, e2, o3, e3 : LET script == << <<o1, e1>>, <<o2, e2>>, <<o3, e3>> >> IN
    Len(script) = 3 /\ Is(script, 1, o1, e1) /\ Is(script, 2, o2, e2) /\ Is(script, 3, o3, e3)
BY DEF Is

LEMMA FourCalls ==
  \A o1, e1, o2, e2, o3, e3, o4, e4 :
    LET script == << <<o1, e1>>, <<o2, e2>>, <<o3, e3>>, <<o4, e4>> >> IN
    /\ Len(script) = 4 /\ Is(script, 1, o1, e1) /\ Is(script, 2, o2, e2)
    /\ Is(script, 3, o3, e3) /\ Is(script, 4, o4, e4)
BY DEF Is

LEMMA FiveCalls ==
  \A o1, e1, o2, e2, o3, e3, o4, e4, o5, e5 :
    LET script == << <<o1, e1>>, <<o2, e2>>, <<o3, e3>>, <<o4, e4>>, <<o5, e5>> >> IN
    /\ Len(script) = 5 /\ Is(script, 1, o1, e1) /\ Is(script, 2, o2, e2)
    /\ Is(script, 3, o3, e3) /\ Is(script, 4, o4, e4) /\ Is(script, 5, o5, e5)
BY DEF Is

LEMMA ApprovalHoldCalls ==
  /\ Len(ApprovalHold) = 4 /\ Is(ApprovalHold, 1, "pending", "all_asked")
  /\ Is(ApprovalHold, 2, "settle", "nothing")
  /\ Is(ApprovalHold, 3, "approve", "any")
  /\ Is(ApprovalHold, 4, "outcome", "done_once")
BY FourCalls, Zenon DEF ApprovalHold

LEMMA RejectionCalls ==
  /\ Len(Rejection) = 4 /\ Is(Rejection, 1, "pending", "any")
  /\ Is(Rejection, 2, "reject", "any") /\ Is(Rejection, 3, "outcome", "any")
  /\ Is(Rejection, 4, "settle", "nothing")
BY FourCalls, Zenon DEF Rejection

LEMMA ArgumentBindingCalls ==
  /\ Len(ArgumentBinding) = 3 /\ Is(ArgumentBinding, 1, "pending", "any")
  /\ Is(ArgumentBinding, 2, "revise", "any")
  /\ Is(ArgumentBinding, 3, "outcome", "as_reviewed")
BY ThreeCalls, Zenon DEF ArgumentBinding

LEMMA ReplayedCalls ==
  /\ Len(Replayed) = 4 /\ Is(Replayed, 1, "outcome", "done")
  /\ Is(Replayed, 2, "replay", "any") /\ Is(Replayed, 3, "outcome", "any")
  /\ Is(Replayed, 4, "settle", "once")
BY FourCalls, Zenon DEF Replayed

LEMMA OutcomeAmbiguityCalls ==
  /\ Len(OutcomeAmbiguity) = 4
  /\ Is(OutcomeAmbiguity, 1, "outcome", "unknown_once")
  /\ Is(OutcomeAmbiguity, 2, "replay", "any")
  /\ Is(OutcomeAmbiguity, 3, "outcome", "any")
  /\ Is(OutcomeAmbiguity, 4, "settle", "once")
BY FourCalls, Zenon DEF OutcomeAmbiguity

LEMMA ReconcileCommittedCalls ==
  /\ Len(ReconcileCommitted) = 4
  /\ Is(ReconcileCommitted, 1, "outcome", "unknown_once")
  /\ Is(ReconcileCommitted, 2, "reconcile", "committed")
  /\ Is(ReconcileCommitted, 3, "replay", "any")
  /\ Is(ReconcileCommitted, 4, "outcome", "done_once")
BY FourCalls, Zenon DEF ReconcileCommitted

LEMMA ReconcileNotCommittedCalls ==
  /\ Len(ReconcileNotCommitted) = 4
  /\ Is(ReconcileNotCommitted, 1, "outcome", "unknown_none")
  /\ Is(ReconcileNotCommitted, 2, "reconcile", "not_committed")
  /\ Is(ReconcileNotCommitted, 3, "replay", "any")
  /\ Is(ReconcileNotCommitted, 4, "outcome", "done_once")
BY FourCalls, Zenon DEF ReconcileNotCommitted

LEMMA ReconcileConflictCalls ==
  /\ Len(ReconcileConflict) = 3
  /\ Is(ReconcileConflict, 1, "outcome", "unknown_once")
  /\ Is(ReconcileConflict, 2, "interfere", "any")
  /\ Is(ReconcileConflict, 3, "reconcile", "conflict")
BY ThreeCalls, Zenon DEF ReconcileConflict

LEMMA ReconcileUnavailableCalls ==
  /\ Len(ReconcileUnavailable) = 2
  /\ Is(ReconcileUnavailable, 1, "outcome", "unknown_once")
  /\ Is(ReconcileUnavailable, 2, "reconcile", "unavailable")
BY TwoCalls, Zenon DEF ReconcileUnavailable

LEMMA CancellationCalls ==
  /\ Len(Cancellation) = 5 /\ Is(Cancellation, 1, "started", "any")
  /\ Is(Cancellation, 2, "cancel", "any")
  /\ Is(Cancellation, 3, "outcome", "any")
  /\ Is(Cancellation, 4, "release", "any")
  /\ Is(Cancellation, 5, "settle", "cancelled")
BY FiveCalls, Zenon DEF Cancellation

LEMMA TimeoutCalls ==
  /\ Len(Timeout) = 4 /\ Is(Timeout, 1, "started", "any")
  /\ Is(Timeout, 2, "outcome", "any") /\ Is(Timeout, 3, "release", "any")
  /\ Is(Timeout, 4, "settle", "timed_out")
BY FourCalls, Zenon DEF Timeout

LEMMA ParallelBarrierCalls ==
  /\ Len(ParallelBarrier) = 4 /\ Is(ParallelBarrier, 1, "pending", "any")
  /\ Is(ParallelBarrier, 2, "settle", "profile")
  /\ Is(ParallelBarrier, 3, "approve", "any")
  /\ Is(ParallelBarrier, 4, "outcome", "both_once")
BY FourCalls, Zenon DEF ParallelBarrier

LEMMA DelegationCalls ==
  /\ Len(Delegation) = 5 /\ Is(Delegation, 1, "pending", "any")
  /\ Is(Delegation, 2, "settle", "nothing") /\ Is(Delegation, 3, "reject", "any")
  /\ Is(Delegation, 4, "outcome", "any")
  /\ Is(Delegation, 5, "settle", "nothing")
BY FiveCalls, Zenon DEF Delegation

LEMMA AuditReceiptsCalls ==
  /\ Len(AuditReceipts) = 4 /\ Is(AuditReceipts, 1, "pending", "all_asked")
  /\ Is(AuditReceipts, 2, "approve", "any")
  /\ Is(AuditReceipts, 3, "reject_sibling", "any")
  /\ Is(AuditReceipts, 4, "outcome", "trail")
BY FourCalls, Zenon DEF AuditReceipts

LEMMA ScriptNames ==
  /\ Script["approval_hold"] = ApprovalHold /\ Script["rejection"] = Rejection
  /\ Script["argument_binding"] = ArgumentBinding /\ Script["replay"] = Replayed
  /\ Script["outcome_ambiguity"] = OutcomeAmbiguity
  /\ Script["reconcile_committed"] = ReconcileCommitted
  /\ Script["reconcile_not_committed"] = ReconcileNotCommitted
  /\ Script["reconcile_conflict"] = ReconcileConflict
  /\ Script["reconcile_unavailable"] = ReconcileUnavailable
  /\ Script["cancellation"] = Cancellation /\ Script["timeout"] = Timeout
  /\ Script["parallel_barrier"] = ParallelBarrier /\ Script["delegation"] = Delegation
  /\ Script["audit_receipts"] = AuditReceipts
BY DEF Script

-------------------------------------------------------------------------------
(* Scenarios with approvals: the steps of the event loop.                  *)

LEMMA OnlyRun ==
  ASSUME RunsInv, Len(runs) = 1
  PROVE  /\ Current = 1 /\ 1 \in 1..Len(runs) /\ runs[1] \in Run
         /\ RunInv(runs[1]) /\ Underway(runs[1])
         /\ \A q : Becomes(1, q) => runs'[1] = q /\ Len(runs') = 1
BY DEF RunsInv, RunInv, Current, Becomes

LEMMA ApprovingBecomes ==
  ASSUME RunsInv, NEW s, NEW k, NEW l, ApprovingInv(s, k), UNCHANGED <<plan, probe>>,
         NEW q, Becomes(1, q), ApprovingRun(s, l, q)'
  PROVE  ApprovingInv(s, l)'
<1>1. runs'[1] = q /\ Len(runs') = 1
  BY OnlyRun DEF ApprovingInv
<1>2. ApprovingRun(s, l, runs[1])'
  BY <1>1 DEF ApprovingRun, Resolved, Executable, Allowed, ArgumentsOf
<1> QED BY <1>1, <1>2 DEF ApprovingInv

LEMMA ApprovingExecutes ==
  ASSUME RunsInv, NEW s \in Approving, NEW k, ApprovingInv(s, k),
         runs[1].phase = "approvals", Resolved(runs[1]), Execute(1, runs[1]),
         UNCHANGED <<plan, probe, completed, commits>>
  PROVE  ApprovingInv(s, k)'
<1>1. PICK r : r = runs[1]
  OBVIOUS
<1>2. /\ r \in Run /\ RunInv(r) /\ ApprovingRun(s, k, r) /\ r.phase = "approvals" /\ completed = {}
      /\ Resolved(r) /\ Execute(1, r)
  BY <1>1, OnlyRun DEF ApprovingInv, ApprovingRun
<1>3. CASE Executable(r) \ completed = {}
  <2>1. PICK q : q = Ended(r, "completed")
    OBVIOUS
  <2>2. /\ q.phase = "done" /\ q.status = "completed" /\ q.task = r.task
        /\ q.decision = r.decision /\ q.stop = r.stop
    BY <1>2, <2>1 DEF Ended, Run
  <2>3. Becomes(1, q)
    BY <1>2, <1>3, <2>1 DEF Execute
  <2>4. Executable(q)' = Executable(r) /\ Resolved(q)'
    BY <1>2, <2>2, SameDecisions
  <2>5. ApprovingRun(s, k, q)'
    BY <1>2, <1>3, <2>2, <2>4 DEF ApprovingRun
  <2> QED BY <2>3, <2>5, ApprovingBecomes
<1>4. CASE Executable(r) \ completed # {}
  <2>1. PICK q : q = [r EXCEPT !.phase = "executing",
                       !.task = [a \in Actions |-> IF a \in Executable(r) \ completed
                                                   THEN "ready" ELSE "none"]]
    OBVIOUS
  <2>2. /\ q.phase = "executing" /\ q.status = r.status
        /\ q.decision = r.decision /\ q.stop = r.stop
        /\ \A a \in Actions : q.task[a] \in {"ready", "none"}
    BY <1>2, <2>1 DEF Run
  <2>3. Becomes(1, q)
    BY <1>2, <1>4, <2>1 DEF Execute
  <2>4. Executable(q)' = Executable(r) /\ Resolved(q)'
    BY <1>2, <2>2, SameDecisions
  <2>5. ApprovingRun(s, k, q)'
    BY <1>2, <2>2, <2>4 DEF ApprovingRun
  <2> QED BY <2>3, <2>5, ApprovingBecomes
<1> QED BY <1>3, <1>4

LEMMA ApprovingDrives ==
  ASSUME RunsInv, NEW s \in Approving, NEW k, ApprovingInv(s, k), Drive(1)
  PROVE  ApprovingInv(s, k)'
<1>1. PICK r : r = runs[1]
  OBVIOUS
<1>2. /\ r \in Run /\ RunInv(r) /\ ApprovingRun(s, k, r) /\ r.phase = "created" /\ completed = {}
      /\ plan = PlanOf(s) /\ k = 1
  BY <1>1, OnlyRun DEF ApprovingInv, ApprovingRun, Drive
<1>3. plan.gated = IF s = "audit_receipts" THEN Actions ELSE {Primary}
  BY <1>2, ApprovingPlan
<1>4. PICK q : q = [r EXCEPT !.phase = "approvals", !.decision =
                     [a \in Actions |-> IF a \in plan.gated THEN "pending" ELSE "none"]]
  OBVIOUS
<1>5. Becomes(1, q) /\ UNCHANGED <<plan, probe, completed, commits>>
  BY <1>1, <1>3, <1>4, TwoActions DEF Drive
<1>6. /\ q.phase = "approvals" /\ q.status = r.status /\ q.task = r.task /\ q.stop = r.stop
      /\ \A a \in Actions : q.decision[a] = IF a \in plan.gated THEN "pending" ELSE "none"
  BY <1>2, <1>4 DEF Run
<1>7. \A a \in Actions : q.decision[a] = DecisionBefore(s, k, a)
  BY <1>2, <1>3, <1>6, TwoActions, HarnessAssumption DEF DecisionBefore, DecidedBy
<1>8. ApprovingRun(s, k, q)'
  BY <1>2, <1>5, <1>6, <1>7 DEF ApprovingRun
<1> QED BY <1>5, <1>8, ApprovingBecomes

LEMMA ApprovingEffect ==
  ASSUME RunsInv, DataInv, NEW s \in Approving, NEW k, ApprovingInv(s, k),
         NEW a \in Actions, Effect(1, a)
  PROVE  ApprovingInv(s, k)'
<1>1. PICK r : r = runs[1]
  OBVIOUS
<1>2. /\ r \in Run /\ RunInv(r) /\ ApprovingRun(s, k, r) /\ r.phase = "executing"
      /\ probe = [released |-> TRUE, lose |-> "no"]
      /\ a \in Executable(r) /\ a \notin completed /\ Resolved(r)
  BY <1>1, OnlyRun, EffectGoes DEF ApprovingInv, ApprovingRun, Effect
<1>3. PICK q : q = [r EXCEPT !.task[a] = "done"]
  OBVIOUS
<1>4. /\ Becomes(1, q) /\ completed' = completed \cup {a} /\ UNCHANGED <<plan, probe>>
      /\ commits' = [commits EXCEPT ![a] = Append(@, ArgumentsOf(r, a))]
  BY <1>1, <1>2, <1>3 DEF Effect, Commit, Committed, Completes
<1>5. /\ q.phase = "executing" /\ q.status = r.status /\ q.stop = r.stop
      /\ q.decision = r.decision
      /\ \A b \in Actions : q.task[b] = IF b = a THEN "done" ELSE r.task[b]
  BY <1>2, <1>3 DEF Run
<1>6. Executable(q)' = Executable(r) /\ Resolved(q)'
  BY <1>2, <1>4, <1>5, SameDecisions
<1>7. \A b \in Actions : ArgumentsOf(q, b) = ArgumentsOf(r, b)
  BY <1>5 DEF ArgumentsOf
<1>8. ASSUME NEW b \in Actions
      PROVE  commits'[b] = IF b \in completed' THEN <<ArgumentsOf(q, b)>> ELSE <<>>
  <2>1. CASE b = a
    <3>1. commits[a] = <<>> /\ commits \in [Actions -> Seq(Arguments)]
      BY <1>2 DEF ApprovingRun, DataInv
    <3>2. commits'[a] = Append(<<>>, ArgumentsOf(r, a))
      BY <1>4, <3>1
    <3> QED BY <1>4, <1>7, <2>1, <3>2
  <2>2. CASE b # a
    <3>1. commits'[b] = commits[b] /\ (b \in completed' <=> b \in completed)
      BY <1>4, <2>2 DEF DataInv
    <3> QED BY <1>2, <1>7, <3>1 DEF ApprovingRun
  <2> QED BY <2>1, <2>2
<1>9. ApprovingRun(s, k, q)'
  <2>1. \A b \in Actions : ArgumentsOf(q, b)' = ArgumentsOf(q, b)
    BY DEF ArgumentsOf
  <2> QED BY <1>2, <1>4, <1>5, <1>6, <1>8, <2>1 DEF ApprovingRun
<1> QED BY <1>4, <1>9, ApprovingBecomes

LEMMA ApprovingFinishes ==
  ASSUME RunsInv, NEW s \in Approving, NEW k, ApprovingInv(s, k), Finish(1)
  PROVE  ApprovingInv(s, k)'
<1>1. PICK r : r = runs[1]
  OBVIOUS
<1>2. /\ r \in Run /\ RunInv(r) /\ Underway(r) /\ ApprovingRun(s, k, r)
      /\ r.phase = "executing" /\ Unfinished(r) = {} /\ Resolved(r)
  BY <1>1, OnlyRun DEF ApprovingInv, ApprovingRun, Finish
<1>3. Outcomes(r) = {"completed"}
  <2>1. Ambiguous(r) = {} /\ r.stop = "no" /\ \A a \in Actions : r.task[a] # "stopped"
    BY <1>2 DEF ApprovingRun, Ambiguous
  <2> QED BY <2>1 DEF Outcomes, GoesOn, OwnOutcome
<1>4. PICK q : q = Ended(r, "completed")
  OBVIOUS
<1>5. Becomes(1, q) /\ UNCHANGED <<plan, probe, completed, commits>>
  BY <1>1, <1>3, <1>4 DEF Finish
<1>6. /\ q.phase = "done" /\ q.status = "completed" /\ q.task = r.task
      /\ q.decision = r.decision /\ q.stop = r.stop
  BY <1>2, <1>4 DEF Ended, Run
<1>7. Executable(q)' = Executable(r) /\ Resolved(q)'
  BY <1>2, <1>5, <1>6, SameDecisions
<1>8. Executable(r) = completed
  <2>1. Executable(r) \subseteq Actions
    BY DEF Executable, RunsInv, Plan
  <2>2. \A a \in Executable(r) \ completed : r.task[a] = "ready"
    BY <1>2, <2>1 DEF Underway, ApprovingRun
  <2> QED BY <1>2, <2>1, <2>2 DEF Unfinished, ApprovingRun
<1>9. \A b \in Actions : ArgumentsOf(q, b)' = ArgumentsOf(r, b)
  BY <1>6 DEF ArgumentsOf
<1>10. ApprovingRun(s, k, q)'
  BY <1>2, <1>5, <1>6, <1>7, <1>8, <1>9 DEF ApprovingRun
<1> QED BY <1>5, <1>10, ApprovingBecomes

LEMMA ApprovingSteps ==
  ASSUME RunsInv, DataInv, NEW s \in Approving, NEW k, ApprovingInv(s, k), Steps
  PROVE  ApprovingInv(s, k)'
<1>1. PICK r : r = runs[1]
  OBVIOUS
<1>2. /\ Current = 1 /\ ApprovingRun(s, k, r) /\ ~plan.timed
  BY <1>1, OnlyRun, ApprovingPlan DEF ApprovingInv
<1>3. ~TimesOut(1)
  BY <1>2 DEF TimesOut
<1>4. ~Settle(1)
  <2>1. Ambiguous(r) = {} /\ r.stop = "no"
    BY <1>2 DEF ApprovingRun, Ambiguous
  <2>2. PICK q : q = Fenced(r)
    OBVIOUS
  <2>3. q.stop = "no" /\ Ambiguous(q) = {}
    BY <2>1, <2>2, <1>1, OnlyRun, FencedRun DEF ApprovingInv
  <2> QED BY <1>1, <2>1, <2>2, <2>3 DEF Settle
<1>5. CASE Resolve(1)
  BY <1>5, ApprovingExecutes DEF Resolve
<1> QED BY <1>2, <1>3, <1>4, <1>5, ApprovingDrives, ApprovingEffect, ApprovingFinishes DEF Steps

-------------------------------------------------------------------------------
(* Scenarios with approvals: the calls.                                    *)

LEMMA ApprovingWaits ==
  ASSUME RunsInv, NEW s, NEW k, NEW l, ApprovingInv(s, k), UNCHANGED adapterVars,
         runs[1].phase # "created",
         \A a \in Actions : DecisionBefore(s, l, a) = DecisionBefore(s, k, a)
  PROVE  ApprovingInv(s, l)'
<1>1. PICK r : r = runs[1]
  OBVIOUS
<1>2. ApprovingRun(s, k, r) /\ r.phase # "created"
  BY <1>1 DEF ApprovingInv
<1>3. ApprovingRun(s, l, r)'
  BY <1>2 DEF ApprovingRun, adapterVars, Resolved, Executable, Allowed, ArgumentsOf
<1>4. ApprovingRun(s, l, runs[1])'
  BY <1>1, <1>3 DEF ApprovingRun, adapterVars, Resolved, Executable, Allowed, ArgumentsOf
<1> QED BY <1>4 DEF ApprovingInv, adapterVars

LEMMA ApprovingDecides ==
  ASSUME RunsInv, NEW s, NEW k, NEW l, ApprovingInv(s, k), NEW a \in plan.gated,
         a \in Actions, NEW d \in Decision, Decide(1, a, d),
         \A b \in Actions : DecisionBefore(s, l, b) = IF b = a THEN d ELSE DecisionBefore(s, k, b)
  PROVE  ApprovingInv(s, l)'
<1>1. PICK r : r = runs[1]
  OBVIOUS
<1>2. /\ r \in Run /\ ApprovingRun(s, k, r) /\ r.decision[a] = "pending"
      /\ UNCHANGED <<plan, probe, completed, commits>>
  BY <1>1, OnlyRun DEF ApprovingInv, Decide
<1>3. PICK q : q = [r EXCEPT !.decision[a] = d]
  OBVIOUS
<1>4. Becomes(1, q)
  BY <1>1, <1>3 DEF Decide
<1>5. /\ q.phase = r.phase /\ q.status = r.status /\ q.task = r.task /\ q.stop = r.stop
      /\ \A b \in Actions : q.decision[b] = IF b = a THEN d ELSE r.decision[b]
  BY <1>2, <1>3 DEF Run
<1>6. r.phase = "approvals" /\ completed = {}
  <2>1. ~Resolved(r) /\ r.phase # "created"
    BY <1>2 DEF Resolved, Decision, ApprovingRun
  <2> QED BY <1>2, <2>1 DEF ApprovingRun, Run
<1>7. ApprovingRun(s, l, q)'
  BY <1>2, <1>5, <1>6 DEF ApprovingRun
<1> QED BY <1>2, <1>4, <1>7, ApprovingBecomes

(* The calls of these scenarios, by what they do to the run.               *)
LEMMA ApprovingCalls ==
  ASSUME NEW s \in Approving, NEW k \in 1..Len(Script[s])
  PROVE  /\ k \in 1..5
         /\ k = 1 <=> Script[s][k][1] = "pending"
         /\ IF k + 1 = DecidedBy(s) THEN Script[s][k][1] = DecisionIn(s)
            ELSE IF s = "audit_receipts" /\ k = 3 THEN Script[s][k][1] = "reject_sibling"
            ELSE Script[s][k][1] \in {"pending", "settle", "outcome"}
<1>2. CASE s = "approval_hold"
  <2>1. DecidedBy(s) = 4 /\ DecisionIn(s) = "approve"
    BY <1>2 DEF DecidedBy, DecisionIn
  <2>2. Script[s] = ApprovalHold /\ k \in {1, 2, 3, 4}
    BY <1>2, ScriptNames, ApprovalHoldCalls
  <2> QED BY <1>2, <2>1, <2>2, ApprovalHoldCalls DEF Is
<1>3. CASE s = "rejection"
  <2>1. DecidedBy(s) = 3 /\ DecisionIn(s) = "reject"
    BY <1>3 DEF DecidedBy, DecisionIn
  <2>2. Script[s] = Rejection /\ k \in {1, 2, 3, 4}
    BY <1>3, ScriptNames, RejectionCalls
  <2> QED BY <1>3, <2>1, <2>2, RejectionCalls DEF Is
<1>4. CASE s = "argument_binding"
  <2>1. DecidedBy(s) = 3 /\ DecisionIn(s) = "revise"
    BY <1>4 DEF DecidedBy, DecisionIn
  <2>2. Script[s] = ArgumentBinding /\ k \in {1, 2, 3}
    BY <1>4, ScriptNames, ArgumentBindingCalls
  <2> QED BY <1>4, <2>1, <2>2, ArgumentBindingCalls DEF Is
<1>5. CASE s = "parallel_barrier"
  <2>1. DecidedBy(s) = 4 /\ DecisionIn(s) = "approve"
    BY <1>5 DEF DecidedBy, DecisionIn
  <2>2. Script[s] = ParallelBarrier /\ k \in {1, 2, 3, 4}
    BY <1>5, ScriptNames, ParallelBarrierCalls
  <2> QED BY <1>5, <2>1, <2>2, ParallelBarrierCalls DEF Is
<1>6. CASE s = "delegation"
  <2>1. DecidedBy(s) = 4 /\ DecisionIn(s) = "reject"
    BY <1>6 DEF DecidedBy, DecisionIn
  <2>2. Script[s] = Delegation /\ k \in {1, 2, 3, 4, 5}
    BY <1>6, ScriptNames, DelegationCalls
  <2> QED BY <1>6, <2>1, <2>2, DelegationCalls DEF Is
<1>7. CASE s = "audit_receipts"
  <2>1. DecidedBy(s) = 3 /\ DecisionIn(s) = "approve"
    BY <1>7 DEF DecidedBy, DecisionIn
  <2>2. Script[s] = AuditReceipts /\ k \in {1, 2, 3, 4}
    BY <1>7, ScriptNames, AuditReceiptsCalls
  <2> QED BY <1>7, <2>1, <2>2, AuditReceiptsCalls DEF Is
<1> QED BY <1>2, <1>3, <1>4, <1>5, <1>6, <1>7 DEF Approving

LEMMA ApprovingCall ==
  ASSUME RunsInv, NEW s \in Approving, NEW k \in 1..Len(Script[s]), ApprovingInv(s, k),
         Calls(Script[s][k][1])
  PROVE  ApprovingInv(s, k + 1)'
<1>1. PICK op : op = Script[s][k][1]
  OBVIOUS
<1>2. /\ Calls(op) /\ k \in 1..5 /\ (k = 1 <=> op = "pending")
      /\ IF k + 1 = DecidedBy(s) THEN op = DecisionIn(s)
         ELSE IF s = "audit_receipts" /\ k = 3 THEN op = "reject_sibling"
         ELSE op \in {"pending", "settle", "outcome"}
  BY <1>1, ApprovingCalls
<1>3. /\ Current = 1 /\ plan = PlanOf(s)
      /\ plan.gated = IF s = "audit_receipts" THEN Actions ELSE {Primary}
  BY OnlyRun, ApprovingPlan DEF ApprovingInv
<1>4. CASE k + 1 = DecidedBy(s)
  <2>1. op = DecisionIn(s) /\ op \in Decision
    BY <1>2, <1>4 DEF DecisionIn, Decision
  <2>2. Decide(1, Primary, op)
    BY <1>2, <1>3, <2>1 DEF Calls, Decision
  <2>3. \A b \in Actions : DecisionBefore(s, k + 1, b) =
          IF b = Primary THEN op ELSE DecisionBefore(s, k, b)
    BY <1>2, <1>4, <2>1 DEF DecisionBefore, DecidedBy
  <2> QED BY <1>3, <2>1, <2>2, <2>3, TwoActions, ApprovingDecides
<1>5. CASE k + 1 # DecidedBy(s) /\ s = "audit_receipts" /\ k = 3
  <2>1. Decide(1, Sibling, "reject")
    BY <1>2, <1>3, <1>5 DEF Calls
  <2>2. \A b \in Actions : DecisionBefore(s, k + 1, b) =
          IF b = Sibling THEN "reject" ELSE DecisionBefore(s, k, b)
    BY <1>5, HarnessAssumption DEF DecisionBefore, DecidedBy
  <2> QED BY <1>3, <1>5, <2>1, <2>2, TwoActions, ApprovingDecides DEF Decision
<1>6. CASE k + 1 # DecidedBy(s) /\ ~(s = "audit_receipts" /\ k = 3)
  <2>1. UNCHANGED adapterVars /\ (k = 1 => runs[1].phase # "created")
    BY <1>2, <1>6 DEF Calls, Asked
  <2>2. runs[1].phase # "created"
    BY <1>2, <2>1 DEF ApprovingInv, ApprovingRun
  <2>3. \A b \in Actions : DecisionBefore(s, k + 1, b) = DecisionBefore(s, k, b)
    <3>1. k \in {1, 2, 3, 4, 5} /\ DecidedBy(s) \in {3, 4}
      BY <1>2 DEF DecidedBy
    <3>2. k + 1 < DecidedBy(s) <=> k < DecidedBy(s)
      BY <1>6, <3>1
    <3>3. s = "audit_receipts" => (k + 1 < 4 <=> k < 4)
      BY <1>6, <3>1
    <3> QED BY <3>2, <3>3 DEF DecisionBefore
  <2> QED BY <2>1, <2>2, <2>3, ApprovingWaits
<1> QED BY <1>4, <1>5, <1>6

(* What the decisions let through.                                         *)
LEMMA LetThrough ==
  ASSUME RunsInv, NEW s \in Approving, NEW k \in 1..5, ApprovingInv(s, k),
         runs[1].phase # "created"
  PROVE  /\ k < DecidedBy(s) => completed = {}
         /\ k \geq DecidedBy(s) /\ (s = "audit_receipts" => k \geq 4) =>
              Executable(runs[1]) = IF DecisionIn(s) = "reject" THEN {}
                                    ELSE IF s = "parallel_barrier" THEN Actions ELSE {Primary}
<1>1. PICK r : r = runs[1]
  OBVIOUS
<1>2. /\ r \in Run /\ ApprovingRun(s, k, r) /\ plan = PlanOf(s)
      /\ \A a \in Actions : r.decision[a] = DecisionBefore(s, k, a)
      /\ Primary \in Actions /\ Sibling \in Actions /\ Primary # Sibling
      /\ Actions = {Primary, Sibling}
  BY <1>1, OnlyRun, TwoActions, HarnessAssumption DEF ApprovingInv, ApprovingRun
<1>3. /\ plan.gated = IF s = "audit_receipts" THEN Actions ELSE {Primary}
      /\ plan.actions = IF s \in {"approval_hold", "rejection", "argument_binding"}
                        THEN {Primary} ELSE Actions
      /\ \A a \in Actions : AncestorsOf(plan, a) =
           IF s = "delegation" /\ a = Sibling THEN {Primary} ELSE {}
  BY <1>2, ApprovingPlan
<1>4. ASSUME k < DecidedBy(s) PROVE completed = {}
  <2>1. r.decision[Primary] = "pending" /\ Primary \in plan.gated
    BY <1>2, <1>3, <1>4 DEF DecisionBefore
  <2>2. ~Resolved(r)
    BY <2>1 DEF Resolved, Decision
  <2> QED BY <1>2, <2>2 DEF ApprovingRun, Run
<1>5. ASSUME k \geq DecidedBy(s), s = "audit_receipts" => k \geq 4
      PROVE  Executable(r) = IF DecisionIn(s) = "reject" THEN {}
                             ELSE IF s = "parallel_barrier" THEN Actions ELSE {Primary}
  <2>1. /\ r.decision[Primary] = DecisionIn(s)
        /\ r.decision[Sibling] = IF s = "audit_receipts" THEN "reject" ELSE "none"
    BY <1>2, <1>5 DEF DecisionBefore, DecidedBy
  <2>2. CASE DecisionIn(s) = "reject"
    <3>1. s \in {"rejection", "delegation"} /\ Primary \in plan.gated
      BY <1>2, <1>3, <2>2 DEF DecisionIn
    <3>2. Primary \notin Executable(r)
      BY <2>1, <2>2, <3>1 DEF Executable
    <3>3. Sibling \notin Executable(r)
      <4>1. CASE s = "rejection"
        BY <1>2, <1>3, <4>1 DEF Executable
      <4>2. CASE s = "delegation"
        <5>1. AncestorsOf(plan, Sibling) = {Primary}
          BY <1>2, <1>3, <4>2
        <5>2. ~Allowed(r, Sibling)
          BY <2>1, <2>2, <3>1, <5>1 DEF Allowed
        <5> QED BY <5>2 DEF Executable
      <4> QED BY <3>1, <4>1, <4>2
    <3> QED BY <1>2, <1>3, <2>2, <3>2, <3>3 DEF Executable
  <2>3. CASE DecisionIn(s) # "reject"
    <3>1. r.decision[Primary] \in {"approve", "revise"} /\ s \notin {"rejection", "delegation"}
      BY <2>1, <2>3 DEF DecisionIn
    <3>2. Allowed(r, Primary) /\ Allowed(r, Sibling)
      BY <1>2, <1>3, <3>1 DEF Allowed
    <3>3. Primary \in Executable(r)
      BY <1>2, <1>3, <3>1, <3>2 DEF Executable
    <3>4. Sibling \in Executable(r) <=> s = "parallel_barrier"
      BY <1>2, <1>3, <2>1, <3>1, <3>2 DEF Executable, Approving
    <3>5. Executable(r) \subseteq {Primary, Sibling}
      BY <1>2, <1>3 DEF Executable
    <3> QED BY <1>2, <2>3, <3>3, <3>4, <3>5
  <2> QED BY <2>2, <2>3
<1> QED BY <1>1, <1>4, <1>5

(* What the journal holds of these scenarios.                              *)
LEMMA ApprovingCommits ==
  ASSUME RunsInv, NEW s \in Approving, NEW k \in 1..5, ApprovingInv(s, k),
         runs[1].phase # "created"
  PROVE  /\ k < DecidedBy(s) \/ (DecisionIn(s) = "reject" /\ s # "audit_receipts") =>
              Total(commits) = 0
         /\ k \geq DecidedBy(s) /\ (s = "audit_receipts" => k \geq 4)
            /\ DecisionIn(s) # "reject" /\ runs[1].phase = "done" =>
              /\ runs[1].status = "completed"
              /\ commits[Primary] = IF s = "argument_binding" THEN <<"reviewed">>
                                                              ELSE <<"proposed">>
              /\ IF s = "parallel_barrier" THEN Len(commits[Sibling]) = 1
                                           ELSE commits[Sibling] = <<>>
<1>1. PICK r : r = runs[1]
  OBVIOUS
<1>2. /\ r \in Run /\ RunInv(r) /\ ApprovingRun(s, k, r)
      /\ Primary \in Actions /\ Sibling \in Actions /\ Primary # Sibling
      /\ k < DecidedBy(s) => completed = {}
      /\ k \geq DecidedBy(s) /\ (s = "audit_receipts" => k \geq 4) =>
              Executable(r) = IF DecisionIn(s) = "reject" THEN {}
                              ELSE IF s = "parallel_barrier" THEN Actions ELSE {Primary}
  BY <1>1, OnlyRun, TwoActions, HarnessAssumption, LetThrough DEF ApprovingInv
<1>3. ASSUME completed = {} PROVE Total(commits) = 0
  <2>1. commits[Primary] = <<>> /\ commits[Sibling] = <<>>
    BY <1>2, <1>3 DEF ApprovingRun
  <2> QED BY <2>1 DEF Total
<1>4. ASSUME k < DecidedBy(s) \/ (DecisionIn(s) = "reject" /\ s # "audit_receipts")
      PROVE  Total(commits) = 0
  <2>1. DecidedBy(s) \in {3, 4}
    BY DEF DecidedBy
  <2>2. CASE k < DecidedBy(s)
    BY <1>2, <1>3, <2>2
  <2>3. CASE ~(k < DecidedBy(s))
    <3>1. k \geq DecidedBy(s)
      BY <2>1, <2>3
    <3>2. Executable(r) = {}
      BY <1>2, <1>4, <2>3, <3>1
    <3> QED BY <1>2, <1>3, <3>2 DEF ApprovingRun
  <2> QED BY <2>2, <2>3
<1>5. ASSUME k \geq DecidedBy(s), s = "audit_receipts" => k \geq 4,
             DecisionIn(s) # "reject", r.phase = "done"
      PROVE  /\ r.status = "completed"
             /\ commits[Primary] = IF s = "argument_binding" THEN <<"reviewed">>
                                                             ELSE <<"proposed">>
             /\ IF s = "parallel_barrier" THEN Len(commits[Sibling]) = 1
                                          ELSE commits[Sibling] = <<>>
  <2>1. /\ completed = IF s = "parallel_barrier" THEN Actions ELSE {Primary}
        /\ r.status = "completed"
    BY <1>2, <1>5 DEF ApprovingRun, RunInv
  <2>2. commits[Primary] = <<ArgumentsOf(r, Primary)>>
    BY <1>2, <2>1 DEF ApprovingRun
  <2>3. ArgumentsOf(r, Primary) = IF s = "argument_binding" THEN "reviewed" ELSE "proposed"
    <3>1. DecidedBy(s) \in {3, 4}
      BY DEF DecidedBy
    <3>2. r.decision[Primary] = DecisionIn(s)
      BY <1>2, <1>5, <3>1 DEF ApprovingRun, DecisionBefore
    <3> QED BY <1>5, <3>2 DEF ArgumentsOf, DecisionIn
  <2>4. IF s = "parallel_barrier" THEN Len(commits[Sibling]) = 1 ELSE commits[Sibling] = <<>>
    <3>1. CASE s = "parallel_barrier"
      <4>1. commits[Sibling] = <<ArgumentsOf(r, Sibling)>>
        BY <1>2, <2>1, <3>1 DEF ApprovingRun
      <4> QED BY <3>1, <4>1
    <3>2. CASE s # "parallel_barrier"
      BY <1>2, <2>1, <3>2 DEF ApprovingRun
    <3> QED BY <3>1, <3>2
  <2> QED BY <2>1, <2>2, <2>3, <2>4
<1> QED BY <1>1, <1>4, <1>5

(* Every call that only waits leaves what it looks at alone.               *)
LEMMA WaitingCalls ==
  ASSUME RunsInv, NEW op, Calls(op),
         op \in {"pending", "settle", "started", "outcome"}
  PROVE  /\ UNCHANGED adapterVars
         /\ op = "pending" => runs[1].phase # "created"
         /\ op = "outcome" => runs[Len(runs)].phase = "done"
<1>1. CASE op = "pending"
  BY <1>1 DEF Calls, Asked
<1>2. CASE op = "settle"
  BY <1>2 DEF Calls
<1>3. CASE op = "started"
  BY <1>3 DEF Calls
<1>4. CASE op = "outcome"
  BY <1>4 DEF Calls, Done, Current
<1> QED BY <1>1, <1>2, <1>3, <1>4

LEMMA ExpectedMeans ==
  /\ Expected("any")
  /\ Expected("all_asked") <=> {a \in Actions : runs'[1].decision[a] # "none"} = plan.gated
  /\ Expected("nothing") <=> Total(commits') = 0
  /\ Expected("done") <=> runs'[Len(runs')].status = "completed"
  /\ Expected("once") <=> Total(commits') = 1
  /\ Expected("done_once") <=> runs'[Len(runs')].status = "completed" /\ Total(commits') = 1
  /\ Expected("as_reviewed") <=> commits'[Primary] = <<"reviewed">>
  /\ Expected("unknown_once") <=> runs'[Len(runs')].status = "unknown" /\ Total(commits') = 1
  /\ Expected("unknown_none") <=> runs'[Len(runs')].status = "unknown" /\ Total(commits') = 0
  /\ Expected("cancelled") <=> runs'[Len(runs')].status = "cancelled" /\ Total(commits') = 0
  /\ Expected("timed_out") <=> runs'[Len(runs')].status = "timed_out" /\ Total(commits') = 0
  /\ commits'[Primary] = <<>> /\ Total(commits') = 0 => Expected("profile")
  /\ Expected("both_once") <=> /\ runs'[Len(runs')].status = "completed"
                               /\ \A a \in Actions : Len(commits'[a]) = 1
  /\ Expected("trail") <=> /\ runs'[Len(runs')].status = "completed" /\ Trail(receipts')
                           /\ Len(commits'[Primary]) = 1 /\ commits'[Sibling] = <<>>
  /\ \A e \in {"committed", "not_committed", "conflict", "unavailable"} :
       Expected(e) <=> Reconciled(e)
BY DEF Expected

-------------------------------------------------------------------------------
(* The receipts that audit_receipts reads.                                 *)

LEMMA TwoAsked ==
  \E x, y \in Actions :
    /\ x # y
    /\ [i \in 1..Cardinality(Actions) |->
          ActionEvent("approval_requested", SetToSeq(Actions)[i], "proposed")]
       = <<ActionEvent("approval_requested", x, "proposed"),
           ActionEvent("approval_requested", y, "proposed")>>
<1>1. IsFiniteSet(Actions) /\ Cardinality(Actions) = 2
  BY TwoActions
<1>2. PICK f : f = SetToSeq(Actions)
  OBVIOUS
<1>3. f \in [1..2 -> Actions] /\ IsInjective(f)
  <2>1. ExistsBijection(1..2, Actions)
    BY <1>1, FS_CardinalityType
  <2>2. \E g \in [1..2 -> Actions] : IsInjective(g)
    BY <2>1 DEF ExistsBijection, Bijection, Injection
  <2> QED BY <1>1, <1>2, <2>2, Zenon DEF SetToSeq
<1>4. f[1] \in Actions /\ f[2] \in Actions /\ f[1] # f[2]
  BY <1>3 DEF IsInjective
<1>5. [i \in 1..2 |-> ActionEvent("approval_requested", f[i], "proposed")]
      = <<ActionEvent("approval_requested", f[1], "proposed"),
          ActionEvent("approval_requested", f[2], "proposed")>>
  <2>1. PICK F : F = [i \in 1..2 |-> ActionEvent("approval_requested", f[i], "proposed")]
    OBVIOUS
  <2>2. PICK u, v : /\ u = ActionEvent("approval_requested", f[1], "proposed")
                    /\ v = ActionEvent("approval_requested", f[2], "proposed")
    OBVIOUS
  <2>3. /\ F \in [1..2 -> {u, v}] /\ F[1] = u /\ F[2] = v
    <3>1. \A i \in 1..2 : i = 1 \/ i = 2
      OBVIOUS
    <3> QED BY <2>1, <2>2, <3>1
  <2>4. F = <<u, v>>
    BY <2>3
  <2> QED BY <2>1, <2>2, <2>4
<1> QED BY <1>1, <1>2, <1>4, <1>5

LEMMA OneAndTwo == \A u, v, w : <<u>> \o <<v, w>> = <<u, v, w>>
<1> SUFFICES ASSUME NEW u, NEW v, NEW w PROVE <<u>> \o <<v, w>> = <<u, v, w>>
  OBVIOUS
<1>1. PICK S : S = {u, v, w}
  OBVIOUS
<1>2. PICK f, g, e : f = <<u>> /\ g = <<v, w>> /\ e = <<u, v, w>>
  OBVIOUS
<1>3. /\ f \in Seq(S) /\ Len(f) = 1 /\ f[1] = u
      /\ g \in Seq(S) /\ Len(g) = 2 /\ g[1] = v /\ g[2] = w
      /\ e \in Seq(S) /\ Len(e) = 3 /\ e[1] = u /\ e[2] = v /\ e[3] = w
  BY <1>1, <1>2
<1>4. PICK c : c = f \o g
  OBVIOUS
<1>5. c \in Seq(S) /\ Len(c) = 3 /\ c[1] = u /\ c[2] = v /\ c[3] = w
  <2>1. /\ c \in Seq(S) /\ Len(c) = Len(f) + Len(g)
        /\ \A i \in 1..Len(f) + Len(g) : c[i] = IF i <= Len(f) THEN f[i] ELSE g[i - Len(f)]
    BY <1>3, <1>4, ConcatProperties, Zenon
  <2>2. Len(c) = 3 /\ c[1] = f[1] /\ c[2] = g[1] /\ c[3] = g[2]
    BY <1>3, <2>1
  <2> QED BY <1>3, <2>1, <2>2
<1>6. \A i \in 1..3 : i = 1 \/ i = 2 \/ i = 3
  OBVIOUS
<1>7. c = e
  BY <1>3, <1>5, <1>6, SeqEqual
<1> QED BY <1>2, <1>4, <1>7

LEMMA TrailKept ==
  ASSUME NEW k, NEW l, TrailInv(k), UNCHANGED receipts,
         \A x, y : TrailBefore(x, y, l, runs'[1].phase) = TrailBefore(x, y, k, runs[1].phase)
  PROVE  TrailInv(l)'
<1>1. PICK x \in Actions, y \in Actions :
        x # y /\ receipts = TrailBefore(x, y, k, runs[1].phase)
  BY DEF TrailInv
<1>2. receipts' = TrailBefore(x, y, l, runs'[1].phase)
  BY <1>1
<1>3. receipts' = TrailBefore(x, y, l, runs[1].phase)'
  BY <1>2 DEF TrailBefore, AskedFor, Approved, Rejected, RunEvent, ActionEvent
<1> QED BY <1>1, <1>3 DEF TrailInv

(* Approvals are resolved only when both actions are decided on.           *)
LEMMA TrailResolved ==
  ASSUME RunsInv, NEW k \in 1..5, ApprovingInv("audit_receipts", k), Resolved(runs[1])
  PROVE  k \in {4, 5}
<1>1. "audit_receipts" \in Approving /\ Sibling \in Actions /\ Sibling # Primary
  BY TwoActions, HarnessAssumption DEF Approving
<1>2. Sibling \in plan.gated
  BY <1>1, ApprovingPlan DEF ApprovingInv
<1>3. runs[1].decision[Sibling] \in Decision
  BY <1>2 DEF Resolved
<1>4. runs[1].decision[Sibling] = IF runs[1].phase = "created" THEN "none"
                                  ELSE IF k < 4 THEN "pending" ELSE "reject"
  BY <1>1 DEF ApprovingInv, ApprovingRun, DecisionBefore
<1> QED BY <1>3, <1>4 DEF Decision

LEMMA TrailEnds ==
  ASSUME NEW k \in {4, 5}, TrailInv(k), runs[1].phase \in {"approvals", "executing"},
         runs'[1].phase = "done", Record(RunEvent("completed"))
  PROVE  TrailInv(k)'
<1>1. PICK x \in Actions, y \in Actions :
        x # y /\ receipts = TrailBefore(x, y, k, runs[1].phase)
  BY DEF TrailInv
<1>2. receipts = Append(Append(AskedFor(x, y), Approved), Rejected)
  BY <1>1 DEF TrailBefore
<1>3. receipts' = TrailBefore(x, y, k, "done")
  BY <1>2 DEF Record, TrailBefore
<1>4. receipts' = TrailBefore(x, y, k, runs[1].phase)'
  BY <1>3 DEF TrailBefore, AskedFor, Approved, Rejected, RunEvent, ActionEvent
<1> QED BY <1>1, <1>4 DEF TrailInv

LEMMA TrailSteps ==
  ASSUME RunsInv, DataInv, NEW k \in 1..5, ApprovingInv("audit_receipts", k),
         TrailInv(k), Steps
  PROVE  TrailInv(k)'
<1>1. PICK r : r = runs[1]
  OBVIOUS
<1>2. /\ r \in Run /\ Current = 1 /\ ApprovingRun("audit_receipts", k, r)
      /\ "audit_receipts" \in Approving /\ ~plan.timed /\ plan.gated = Actions
      /\ \A q : Becomes(1, q) => runs'[1] = q
  BY <1>1, OnlyRun, ApprovingPlan DEF ApprovingInv, Approving
<1>3. CASE Drive(1)
  <2>1. plan.gated # {} /\ r.phase = "created" /\ k = 1
    BY <1>1, <1>2, <1>3, TwoActions DEF Drive, ApprovingRun
  <2>2. PICK q : q = [r EXCEPT !.phase = "approvals", !.decision =
                       [a \in Actions |-> IF a \in plan.gated THEN "pending" ELSE "none"]]
    OBVIOUS
  <2>3. /\ Becomes(1, q)
        /\ receipts' = receipts \o [i \in 1..Cardinality(Actions) |->
             ActionEvent("approval_requested", SetToSeq(Actions)[i], "proposed")]
    BY <1>1, <1>2, <1>3, <2>1, <2>2 DEF Drive
  <2>4. runs'[1].phase = "approvals"
    BY <1>2, <2>2, <2>3 DEF Run
  <2>5. PICK x \in Actions, y \in Actions :
          /\ x # y
          /\ receipts' = receipts \o <<ActionEvent("approval_requested", x, "proposed"),
                                       ActionEvent("approval_requested", y, "proposed")>>
    BY <2>3, TwoAsked
  <2>6. receipts = <<RunEvent("run_started")>>
    BY <1>1, <2>1 DEF TrailInv, TrailBefore
  <2>7. receipts' = AskedFor(x, y)
    BY <2>5, <2>6, OneAndTwo, Zenon DEF AskedFor
  <2>8. receipts' = TrailBefore(x, y, k, runs[1].phase)'
    BY <2>1, <2>4, <2>7 DEF TrailBefore, AskedFor, RunEvent, ActionEvent
  <2> QED BY <2>5, <2>8 DEF TrailInv
<1>4. CASE Resolve(1)
  <2>1. /\ r.phase = "approvals" /\ Execute(1, r) /\ k \in {4, 5}
    BY <1>1, <1>4, TrailResolved DEF Resolve
  <2>2. CASE Executable(r) \ completed = {}
    <3>1. PICK q : q = Ended(r, "completed")
      OBVIOUS
    <3>2. Becomes(1, q) /\ Record(RunEvent("completed"))
      BY <2>1, <2>2, <3>1 DEF Execute
    <3>3. runs'[1].phase = "done"
      BY <1>2, <3>1, <3>2 DEF Ended, Run
    <3> QED BY <1>1, <2>1, <3>2, <3>3, TrailEnds
  <2>3. CASE Executable(r) \ completed # {}
    <3>1. PICK q : q = [r EXCEPT !.phase = "executing",
                         !.task = [a \in Actions |-> IF a \in Executable(r) \ completed
                                                     THEN "ready" ELSE "none"]]
      OBVIOUS
    <3>2. Becomes(1, q) /\ UNCHANGED receipts
      BY <2>1, <2>3, <3>1 DEF Execute
    <3>3. runs'[1].phase = "executing"
      BY <1>2, <3>1, <3>2 DEF Run
    <3>4. \A x, y : TrailBefore(x, y, k, runs'[1].phase) = TrailBefore(x, y, k, runs[1].phase)
      BY <1>1, <2>1, <3>3 DEF TrailBefore
    <3> QED BY <3>2, <3>4, TrailKept
  <2> QED BY <2>2, <2>3
<1>5. CASE Finish(1)
  <2>1. r.phase = "executing" /\ k \in {4, 5}
    BY <1>1, <1>2, <1>5, TrailResolved DEF Finish, ApprovingRun
  <2>2. Outcomes(r) = {"completed"}
    <3>1. Ambiguous(r) = {} /\ r.stop = "no" /\ \A a \in Actions : r.task[a] # "stopped"
      BY <1>2 DEF ApprovingRun, Ambiguous
    <3> QED BY <3>1 DEF Outcomes, GoesOn, OwnOutcome
  <2>3. PICK q : q = Ended(r, "completed")
    OBVIOUS
  <2>4. Becomes(1, q) /\ Record(RunEvent("completed"))
    BY <1>1, <1>5, <2>2, <2>3 DEF Finish
  <2>5. runs'[1].phase = "done"
    BY <1>2, <2>3, <2>4 DEF Ended, Run
  <2> QED BY <1>1, <2>1, <2>4, <2>5, TrailEnds
<1>6. CASE \E a \in Actions : Effect(1, a)
  <2>1. PICK a \in Actions : Effect(1, a)
    BY <1>6
  <2>2. PICK t : Becomes(1, [r EXCEPT !.task[a] = t])
    BY <1>1, <2>1 DEF Effect, Commit
  <2>3. PICK q : q = [r EXCEPT !.task[a] = t]
    OBVIOUS
  <2>4. runs'[1].phase = r.phase /\ UNCHANGED receipts
    BY <1>2, <2>1, <2>2, <2>3 DEF Run, Effect
  <2> QED BY <1>1, <2>4, TrailKept
<1>7. ~TimesOut(1)
  BY <1>2 DEF TimesOut
<1>8. ~Settle(1)
  <2>1. Ambiguous(r) = {} /\ r.stop = "no"
    BY <1>2 DEF ApprovingRun, Ambiguous
  <2>2. PICK q : q = Fenced(r)
    OBVIOUS
  <2>3. q.stop = "no" /\ Ambiguous(q) = {}
    BY <1>2, <2>1, <2>2, FencedRun
  <2> QED BY <1>1, <2>1, <2>2, <2>3 DEF Settle
<1> QED BY <1>2, <1>3, <1>4, <1>5, <1>6, <1>7, <1>8 DEF Steps

LEMMA TrailDecided ==
  ASSUME RunsInv, NEW k, TrailInv(k), NEW a \in Actions, NEW d \in Decision, Decide(1, a, d),
         Len(runs) = 1, runs[1].phase \in {"approvals", "executing"},
         \/ k = 2 /\ a = Primary /\ d = "approve"
         \/ k = 3 /\ a = Sibling /\ d = "reject"
  PROVE  TrailInv(k + 1)'
<1>1. PICK r : r = runs[1]
  OBVIOUS
<1>2. PICK q : q = [r EXCEPT !.decision[a] = d]
  OBVIOUS
<1>3. runs'[1] = q /\ q.phase = r.phase
  BY <1>1, <1>2, OnlyRun DEF Decide, Run
<1>4. PICK x \in Actions, y \in Actions : x # y /\ receipts = TrailBefore(x, y, k, r.phase)
  BY <1>1 DEF TrailInv
<1>5. receipts' = Append(receipts, IF k = 2 THEN Approved ELSE Rejected)
  BY DEF Decide, Record, Approved, Rejected
<1>6. receipts' = TrailBefore(x, y, k + 1, r.phase)
  <2>1. CASE k = 2
    <3>1. receipts = AskedFor(x, y)
      BY <1>1, <1>4, <2>1 DEF TrailBefore
    <3>2. receipts' = Append(AskedFor(x, y), Approved)
      BY <1>5, <2>1, <3>1
    <3> QED BY <1>1, <2>1, <3>2 DEF TrailBefore
  <2>2. CASE k = 3
    <3>1. receipts = Append(AskedFor(x, y), Approved)
      BY <1>1, <1>4, <2>2 DEF TrailBefore
    <3>2. receipts' = Append(Append(AskedFor(x, y), Approved), Rejected)
      BY <1>5, <2>2, <3>1
    <3> QED BY <1>1, <2>2, <3>2 DEF TrailBefore
  <2> QED BY <2>1, <2>2
<1>7. receipts' = TrailBefore(x, y, k + 1, runs[1].phase)'
  BY <1>3, <1>6 DEF TrailBefore, AskedFor, Approved, Rejected, RunEvent, ActionEvent
<1> QED BY <1>4, <1>7 DEF TrailInv

LEMMA TrailCall ==
  ASSUME RunsInv, NEW k \in 1..3, ApprovingInv("audit_receipts", k),
         TrailInv(k), Calls(AuditReceipts[k][1])
  PROVE  TrailInv(k + 1)'
<1>1. "audit_receipts" \in Approving /\ Len(runs) = 1 /\ Current = 1
  BY OnlyRun DEF Approving, ApprovingInv
<1>2. CASE k = 1
  <2>1. UNCHANGED adapterVars /\ runs[1].phase # "created"
    BY <1>2, WaitingCalls, AuditReceiptsCalls DEF Is
  <2>2. runs[1].phase # "done"
    BY <1>2, TrailResolved DEF ApprovingInv, ApprovingRun
  <2>3. \A x, y : TrailBefore(x, y, k + 1, runs'[1].phase) = TrailBefore(x, y, k, runs[1].phase)
    BY <1>2, <2>1 DEF TrailBefore, adapterVars
  <2> QED BY <2>1, <2>3, TrailKept DEF adapterVars
<1>3. CASE k \in {2, 3}
  <2>1. runs[1].phase \in {"approvals", "executing"}
    <3>1. ~Resolved(runs[1])
      BY <1>3, TrailResolved
    <3> QED BY <1>1, <1>3, <3>1, OnlyRun DEF ApprovingInv, ApprovingRun, Run
  <2>2. CASE k = 2
    <3>1. Decide(1, Primary, "approve")
      BY <1>1, <2>2, AuditReceiptsCalls DEF Is, Calls
    <3> QED BY <1>1, <2>1, <2>2, <3>1, TwoActions, TrailDecided DEF Decision
  <2>3. CASE k = 3
    <3>1. Decide(1, Sibling, "reject")
      BY <1>1, <2>3, AuditReceiptsCalls DEF Is, Calls
    <3> QED BY <1>1, <2>1, <2>3, <3>1, TwoActions, TrailDecided DEF Decision
  <2> QED BY <1>3, <2>2, <2>3
<1> QED BY <1>2, <1>3

LEMMA TrailHolds ==
  ASSUME NEW x \in Actions, NEW y \in Actions, x # y,
         NEW log, log = TrailBefore(x, y, 4, "done")
  PROVE  Trail(log)
<1>0. /\ Actions = {Primary, Sibling} /\ Primary # Sibling /\ NoParent \notin Actions
  BY HarnessAssumption, AdapterAssumption
<1>1. PICK e1, e2, e3, e4, e5, e6 :
        /\ e1 = RunEvent("run_started") /\ e2 = ActionEvent("approval_requested", x, "proposed")
        /\ e3 = ActionEvent("approval_requested", y, "proposed")
        /\ e4 = Approved /\ e5 = Rejected /\ e6 = RunEvent("completed")
  OBVIOUS
<1>2. log = Append(Append(Append(<<e1, e2, e3>>, e4), e5), e6)
  <2>1. log = Append(Append(Append(AskedFor(x, y), Approved), Rejected), RunEvent("completed"))
    BY DEF TrailBefore
  <2> QED BY <1>1, <2>1, Zenon DEF AskedFor
<1>3. /\ e1.event = "run_started" /\ e2.event = "approval_requested" /\ e2.action = x
      /\ e3.event = "approval_requested" /\ e3.action = y /\ e4.event = "approved"
      /\ e5.event = "rejected" /\ e6.event = "completed"
  BY <1>1 DEF RunEvent, ActionEvent, Approved, Rejected
<1>5. /\ Len(log) = 6 /\ log[1] = e1 /\ log[2] = e2 /\ log[3] = e3 /\ log[4] = e4
      /\ log[5] = e5 /\ log[6] = e6 /\ ToSet(log) = {e1, e2, e3, e4, e5, e6}
  <2>0. PICK S : S = {e1, e2, e3, e4, e5, e6}
    OBVIOUS
  <2>13. e1 \in S /\ e2 \in S /\ e3 \in S /\ e4 \in S /\ e5 \in S /\ e6 \in S
    BY <2>0
  <2>1. PICK c : c = <<e1, e2, e3>>
    OBVIOUS
  <2>2. c \in Seq(S) /\ Len(c) = 3 /\ c[1] = e1 /\ c[2] = e2 /\ c[3] = e3
    BY <2>1, <2>13
  <2>3. PICK d : d = Append(c, e4)
    OBVIOUS
  <2>4. /\ d \in Seq(S) /\ Len(d) = 4 /\ d[1] = e1 /\ d[2] = e2 /\ d[3] = e3 /\ d[4] = e4
    <3>0. c \in Seq(S)
      BY <2>2
    <3>1. d \in Seq(S)
      BY <3>0, <2>3, <2>13
    <3>3. Len(d) = Len(c) + 1 /\ d[Len(c) + 1] = e4
      BY <3>0, <2>3, <2>13
    <3>4. \A i \in 1..Len(c) : d[i] = c[i]
      BY <3>0, <2>3, <2>13
    <3> QED BY <2>2, <3>1, <3>3, <3>4
  <2>5. PICK f : f = Append(d, e5)
    OBVIOUS
  <2>6. /\ f \in Seq(S) /\ Len(f) = 5 /\ f[1] = e1 /\ f[2] = e2 /\ f[3] = e3 /\ f[4] = e4
        /\ f[5] = e5
    <3>0. d \in Seq(S)
      BY <2>4
    <3>1. f \in Seq(S)
      BY <3>0, <2>5, <2>13
    <3>3. Len(f) = Len(d) + 1 /\ f[Len(d) + 1] = e5
      BY <3>0, <2>5, <2>13
    <3>4. \A i \in 1..Len(d) : f[i] = d[i]
      BY <3>0, <2>5, <2>13
    <3> QED BY <2>4, <3>1, <3>3, <3>4
  <2>7. PICK g : g = Append(f, e6)
    OBVIOUS
  <2>8. /\ log \in Seq(S) /\ Len(log) = 6 /\ log[1] = e1 /\ log[2] = e2 /\ log[3] = e3
        /\ log[4] = e4 /\ log[5] = e5 /\ log[6] = e6
    <3>0. f \in Seq(S)
      BY <2>6
    <3>1. g \in Seq(S)
      BY <3>0, <2>7, <2>13
    <3>3. Len(g) = Len(f) + 1 /\ g[Len(f) + 1] = e6
      BY <3>0, <2>7, <2>13
    <3>4. \A i \in 1..Len(f) : g[i] = f[i]
      BY <3>0, <2>7, <2>13
    <3>2. log = g
      BY <1>2, <2>1, <2>3, <2>5, <2>7, Zenon
    <3>5. /\ g \in Seq(S) /\ Len(g) = 6 /\ g[1] = e1 /\ g[2] = e2 /\ g[3] = e3
          /\ g[4] = e4 /\ g[5] = e5 /\ g[6] = e6
      BY <2>6, <3>1, <3>3, <3>4
    <3> QED BY <3>2, <3>5, Zenon
  <2>9. DOMAIN log = 1..6
    BY <2>8
  <2>10. \A i \in 1..6 : i = 1 \/ i = 2 \/ i = 3 \/ i = 4 \/ i = 5 \/ i = 6
    OBVIOUS
  <2>11. ToSet(log) = {log[i] : i \in 1..6}
    BY <2>9 DEF ToSet
  <2> QED BY <2>8, <2>10, <2>11
<1>6. /\ \A i \in 1..6 : i = 1 \/ i = 2 \/ i = 3 \/ i = 4 \/ i = 5 \/ i = 6
      /\ 2 \in 1..6 /\ 3 \in 1..6 /\ 4 \in 1..6 /\ 5 \in 1..6
  OBVIOUS
<1>7. /\ ActionEvent("approval_requested", Primary, "proposed") = IF x = Primary THEN e2 ELSE e3
      /\ ActionEvent("approval_requested", Sibling, "proposed") = IF x = Primary THEN e3 ELSE e2
  BY <1>0, <1>1
<1>8. e2 # e3
  BY <1>3
<1> DEFINE Place(e) == CHOOSE i \in 1..Len(log) : log[i] = e
<1>14. 1..Len(log) = 1..6
  BY <1>5
<1>9. Place(e2) = 2 /\ Place(e3) = 3 /\ Place(e4) = 4 /\ Place(e5) = 5
  <2>1. /\ \A i \in 1..6 : log[i] = e2 <=> i = 2
        /\ \A i \in 1..6 : log[i] = e3 <=> i = 3
        /\ \A i \in 1..6 : log[i] = e4 <=> i = 4
        /\ \A i \in 1..6 : log[i] = e5 <=> i = 5
    BY <1>3, <1>5, <1>6, <1>8
  <2> QED BY <1>6, <1>14, <2>1
<1> HIDE DEF Place
<1>10. /\ Place(ActionEvent("approval_requested", Primary, "proposed"))
            < Place(ActionEvent("approved", Primary, "proposed"))
       /\ Place(ActionEvent("approval_requested", Sibling, "proposed"))
            < Place(ActionEvent("rejected", Sibling, "proposed"))
  <2>1. /\ Place(ActionEvent("approved", Primary, "proposed")) = 4
        /\ Place(ActionEvent("rejected", Sibling, "proposed")) = 5
    BY <1>1, <1>9 DEF Approved, Rejected
  <2>2. /\ Place(ActionEvent("approval_requested", Primary, "proposed")) \in {2, 3}
        /\ Place(ActionEvent("approval_requested", Sibling, "proposed")) \in {2, 3}
    BY <1>7, <1>9
  <2> QED BY <2>1, <2>2
<1>11. ToSet(log) = {ActionEvent("approval_requested", a, "proposed") : a \in Actions}
                    \cup {ActionEvent("approved", Primary, "proposed"),
                          ActionEvent("rejected", Sibling, "proposed")}
                    \cup {RunEvent("run_started"), RunEvent("completed")}
  <2>1. {ActionEvent("approval_requested", a, "proposed") : a \in Actions} = {e2, e3}
    BY <1>0, <1>1, <1>7
  <2> QED BY <1>1, <1>5, <2>1 DEF Approved, Rejected
<1>12. /\ Len(log) = 6 /\ log[1] = RunEvent("run_started")
       /\ log[Len(log)] = RunEvent("completed")
  BY <1>1, <1>5
<1> QED BY <1>10, <1>11, <1>12 DEF Trail, Place

-------------------------------------------------------------------------------
(* Scenarios with approvals: what is expected.                             *)

LEMMA ApprovingExpected ==
  ASSUME RunsInv, NEW s \in Approving, NEW k \in 1..Len(Script[s]), ApprovingInv(s, k),
         s = "audit_receipts" => TrailInv(k), Calls(Script[s][k][1])
  PROVE  Expected(Script[s][k][2])
<1>1. PICK op, e : op = Script[s][k][1] /\ e = Script[s][k][2]
  OBVIOUS
<1>2. Calls(op) /\ k \in 1..5 /\ Len(runs) = 1 /\ plan = PlanOf(s)
  BY <1>1, ApprovingCalls DEF ApprovingInv
<1>3. ASSUME op \in {"pending", "settle", "outcome"}, k > 1 \/ op = "pending"
      PROVE  /\ runs[1].phase # "created" /\ UNCHANGED adapterVars
             /\ op = "outcome" => runs[1].phase = "done"
  <2>1. /\ UNCHANGED adapterVars /\ (op = "pending" => runs[1].phase # "created")
        /\ op = "outcome" => runs[1].phase = "done"
    BY <1>2, <1>3, WaitingCalls
  <2> QED BY <1>3, <2>1 DEF ApprovingInv, ApprovingRun
<1>4. CASE e = "any"
  BY <1>1, <1>4, ExpectedMeans
<1>5. ASSUME op = "pending", e = "all_asked", k = 1
      PROVE  Expected(e)
  <2>1. PICK r : r = runs[1]
    OBVIOUS
  <2>2. ApprovingRun(s, k, r) /\ r.phase # "created" /\ runs'[1] = r
    BY <1>3, <1>5, <2>1 DEF ApprovingInv, adapterVars
  <2>3. \A a \in Actions : r.decision[a] = DecisionBefore(s, 1, a)
    BY <1>5, <2>2 DEF ApprovingRun
  <2>4. plan.gated = IF s = "audit_receipts" THEN Actions ELSE {Primary}
    BY <1>2, ApprovingPlan
  <2>5. \A a \in Actions : r.decision[a] # "none" <=> a \in plan.gated
    BY <2>3, <2>4, TwoActions, HarnessAssumption DEF DecisionBefore, DecidedBy
  <2>6. plan.gated \subseteq Actions
    BY <2>4, TwoActions
  <2> QED BY <1>5, <2>2, <2>5, <2>6, ExpectedMeans
<1>6. ASSUME op = "settle", e = "nothing", k > 1,
             k < DecidedBy(s) \/ (DecisionIn(s) = "reject" /\ s # "audit_receipts")
      PROVE  Expected(e)
  <2>1. runs[1].phase # "created" /\ commits' = commits
    BY <1>3, <1>6 DEF adapterVars
  <2>2. Total(commits) = 0
    BY <1>2, <1>6, <2>1, ApprovingCommits
  <2> QED BY <1>6, <2>1, <2>2, ExpectedMeans
<1>7. ASSUME op = "outcome", k > 1, k \geq DecidedBy(s), s = "audit_receipts" => k \geq 4,
             DecisionIn(s) # "reject"
      PROVE  /\ UNCHANGED adapterVars /\ runs[1].phase = "done"
             /\ runs'[Len(runs')].status = "completed"
             /\ commits'[Primary] = IF s = "argument_binding" THEN <<"reviewed">>
                                                             ELSE <<"proposed">>
             /\ IF s = "parallel_barrier" THEN Len(commits'[Sibling]) = 1
                                          ELSE commits'[Sibling] = <<>>
  <2>1. /\ runs[1].phase # "created" /\ runs[1].phase = "done"
        /\ UNCHANGED adapterVars
    BY <1>3, <1>7
  <2>2. runs' = runs /\ commits' = commits
    BY <2>1 DEF adapterVars
  <2> QED BY <1>2, <1>7, <2>1, <2>2, ApprovingCommits
<1>8. CASE s = "approval_hold"
  <2>1. Script[s] = ApprovalHold /\ k \in {1, 2, 3, 4} /\ DecidedBy(s) = 4
        /\ DecisionIn(s) = "approve"
    BY <1>8, ScriptNames, ApprovalHoldCalls DEF DecidedBy, DecisionIn
  <2>2. CASE k = 4
    <3>1. op = "outcome" /\ e = "done_once"
      BY <1>1, <2>1, <2>2, ApprovalHoldCalls DEF Is
    <3>2. /\ runs'[Len(runs')].status = "completed"
          /\ commits'[Primary] = <<"proposed">> /\ commits'[Sibling] = <<>>
      BY <1>7, <1>8, <2>1, <2>2, <3>1
    <3>3. Total(commits') = 1
      BY <3>2 DEF Total
    <3> QED BY <1>1, <3>1, <3>2, <3>3, ExpectedMeans
  <2> QED BY <1>1, <1>4, <1>5, <1>6, <2>1, <2>2, ApprovalHoldCalls DEF Is
<1>9. CASE s = "rejection"
  <2>1. Script[s] = Rejection /\ k \in {1, 2, 3, 4} /\ DecisionIn(s) = "reject"
    BY <1>9, ScriptNames, RejectionCalls DEF DecisionIn
  <2> QED BY <1>1, <1>4, <1>6, <1>9, <2>1, RejectionCalls DEF Is
<1>10. CASE s = "argument_binding"
  <2>1. Script[s] = ArgumentBinding /\ k \in {1, 2, 3} /\ DecidedBy(s) = 3
        /\ DecisionIn(s) = "revise"
    BY <1>10, ScriptNames, ArgumentBindingCalls DEF DecidedBy, DecisionIn
  <2>2. CASE k = 3
    <3>1. op = "outcome" /\ e = "as_reviewed"
      BY <1>1, <2>1, <2>2, ArgumentBindingCalls DEF Is
    <3>2. commits'[Primary] = <<"reviewed">>
      BY <1>7, <1>10, <2>1, <2>2, <3>1
    <3> QED BY <1>1, <3>1, <3>2, ExpectedMeans
  <2> QED BY <1>1, <1>4, <2>1, <2>2, ArgumentBindingCalls DEF Is
<1>11. CASE s = "parallel_barrier"
  <2>1. Script[s] = ParallelBarrier /\ k \in {1, 2, 3, 4} /\ DecidedBy(s) = 4
        /\ DecisionIn(s) = "approve"
    BY <1>11, ScriptNames, ParallelBarrierCalls DEF DecidedBy, DecisionIn
  <2>2. CASE k = 2
    <3>1. op = "settle" /\ e = "profile"
      BY <1>1, <2>1, <2>2, ParallelBarrierCalls DEF Is
    <3>2. runs[1].phase # "created" /\ completed' = completed /\ commits' = commits
      BY <1>3, <2>2, <3>1 DEF adapterVars
    <3>3. completed = {}
      BY <1>2, <2>1, <2>2, <3>2, LetThrough
    <3>4. commits[Primary] = <<>> /\ Total(commits) = 0
      <4>1. commits[Primary] = <<>> /\ commits[Sibling] = <<>>
        BY <3>3, TwoActions DEF ApprovingInv, ApprovingRun
      <4> QED BY <4>1 DEF Total
    <3> QED BY <1>1, <3>1, <3>2, <3>4, ExpectedMeans
  <2>3. CASE k = 4
    <3>1. op = "outcome" /\ e = "both_once"
      BY <1>1, <2>1, <2>3, ParallelBarrierCalls DEF Is
    <3>2. /\ runs'[Len(runs')].status = "completed"
          /\ commits'[Primary] = <<"proposed">> /\ Len(commits'[Sibling]) = 1
      BY <1>7, <1>11, <2>1, <2>3, <3>1
    <3>3. Len(commits'[Primary]) = 1
      BY <3>2
    <3>4. \A a \in Actions : a = Primary \/ a = Sibling
      BY HarnessAssumption
    <3> QED BY <1>1, <3>1, <3>2, <3>3, <3>4, ExpectedMeans
  <2> QED BY <1>1, <1>4, <2>1, <2>2, <2>3, ParallelBarrierCalls DEF Is
<1>12. CASE s = "delegation"
  <2>1. Script[s] = Delegation /\ k \in {1, 2, 3, 4, 5} /\ DecisionIn(s) = "reject"
    BY <1>12, ScriptNames, DelegationCalls DEF DecisionIn
  <2> QED BY <1>1, <1>4, <1>6, <1>12, <2>1, DelegationCalls DEF Is
<1>13. CASE s = "audit_receipts"
  <2>1. Script[s] = AuditReceipts /\ k \in {1, 2, 3, 4} /\ DecidedBy(s) = 3
        /\ DecisionIn(s) = "approve"
    BY <1>13, ScriptNames, AuditReceiptsCalls DEF DecidedBy, DecisionIn
  <2>2. CASE k = 4
    <3>1. op = "outcome" /\ e = "trail"
      BY <1>1, <2>1, <2>2, AuditReceiptsCalls DEF Is
    <3>2. /\ runs'[Len(runs')].status = "completed" /\ receipts' = receipts
          /\ commits'[Primary] = <<"proposed">> /\ commits'[Sibling] = <<>>
          /\ runs[1].phase = "done"
      BY <1>7, <1>13, <2>1, <2>2, <3>1 DEF adapterVars
    <3>3. Trail(receipts)
      <4>1. PICK x \in Actions, y \in Actions :
              x # y /\ receipts = TrailBefore(x, y, 4, "done")
        BY <1>13, <2>2, <3>2 DEF TrailInv
      <4> QED BY <4>1, TrailHolds
    <3>4. Trail(receipts')
      BY <3>2, <3>3
    <3>5. Len(commits'[Primary]) = 1
      BY <3>2
    <3> QED BY <1>1, <3>1, <3>2, <3>4, <3>5, ExpectedMeans
  <2> QED BY <1>1, <1>4, <1>5, <2>1, <2>2, AuditReceiptsCalls DEF Is
<1> QED BY <1>8, <1>9, <1>10, <1>11, <1>12, <1>13 DEF Approving

-------------------------------------------------------------------------------
(* Scenarios without approvals: what they share.                           *)

LEMMA OneAction ==
  ASSUME NEW s \in Trying \cup Stopping, plan = PlanOf(s), NEW r
  PROVE  Executable(r) = {Primary} /\ Resolved(r)
<1>1. plan.actions = {Primary} /\ plan.gated = {} /\ \A a \in Actions : AncestorsOf(plan, a) = {}
  BY OtherPlans
<1>2. Primary \in Actions
  BY TwoActions
<1>3. Allowed(r, Primary)
  BY <1>1, <1>2 DEF Allowed
<1> QED BY <1>1, <1>3 DEF Executable, Resolved

LEMMA OneTask ==
  ASSUME RunsInv, NEW s \in Trying \cup Stopping, plan = PlanOf(s), NEW h \in 1..Len(runs)
  PROVE  /\ runs[h] \in Run /\ RunInv(runs[h]) /\ runs[h].task[Sibling] = "none"
         /\ Ambiguous(runs[h]) = IF runs[h].task[Primary] = "ambiguous" THEN {Primary} ELSE {}
         /\ Unfinished(runs[h]) = IF runs[h].task[Primary] \in {"ready", "blocked"}
                                  THEN {Primary} ELSE {}
<1>1. PICK r : r = runs[h]
  OBVIOUS
<1>2. /\ r \in Run /\ RunInv(r) /\ plan.actions = {Primary}
      /\ Actions = {Primary, Sibling} /\ Primary # Sibling
  <2>1. r \in Run /\ RunInv(r)
    BY <1>1 DEF RunsInv, RunInv
  <2>2. plan.actions = {Primary}
    BY OtherPlans
  <2> QED BY <2>1, <2>2, HarnessAssumption
<1>3. r.task[Sibling] = "none"
  BY <1>2 DEF RunInv
<1> QED BY <1>1, <1>2, <1>3 DEF Ambiguous, Unfinished

LEMMA DoneRests == ASSUME RunsInv, Done(Current) PROVE ~Steps
BY DEF Done, Steps, Drive, Resolve, Settle, Finish, Effect, TimesOut

LEMMA BecomesOnly ==
  ASSUME RunsInv, NEW h \in 1..Len(runs), NEW q, Becomes(h, q)
  PROVE  /\ Len(runs') = Len(runs) /\ runs'[h] = q
         /\ \A g \in 1..Len(runs) : g # h => runs'[g] = runs[g]
BY DEF RunsInv, Becomes

(* The driver of such a run executes its action or ends.                   *)
LEMMA OneActionDrives ==
  ASSUME RunsInv, NEW s \in Trying \cup Stopping, plan = PlanOf(s), NEW h \in 1..Len(runs),
         Drive(h), NEW r, r = runs[h]
  PROVE  /\ r.phase = "created" /\ UNCHANGED <<plan, probe, completed, commits, started>>
         /\ \E q \in Run :
              /\ Becomes(h, q) /\ q.stop = r.stop /\ q.evidence = r.evidence
              /\ q.decision = r.decision /\ q.task[Sibling] = "none"
              /\ IF Primary \in completed
                 THEN q.phase = "done" /\ q.status = "completed"
                 ELSE q.phase = "executing" /\ q.task[Primary] = "ready"
<1>1. /\ plan.gated = {} /\ Executable(r) = {Primary} /\ r \in Run
      /\ r.task[Sibling] = "none" /\ Primary \in Actions /\ Sibling \in Actions
      /\ Primary # Sibling
  BY OtherPlans, OneAction, OneTask, TwoActions, HarnessAssumption
<1>2. r.phase = "created" /\ UNCHANGED <<plan, probe, completed, commits, started>>
  BY DEF Drive
<1>3. Execute(h, r)
  BY <1>1 DEF Drive
<1>4. CASE Primary \in completed
  <2>1. PICK q : q = Ended(r, "completed")
    OBVIOUS
  <2>2. Becomes(h, q)
    BY <1>1, <1>3, <1>4, <2>1 DEF Execute
  <2>3. /\ q \in Run /\ q.stop = r.stop /\ q.evidence = r.evidence /\ q.decision = r.decision
        /\ q.task = r.task /\ q.phase = "done" /\ q.status = "completed"
    BY <1>1, <2>1 DEF Ended, Run, RunStatus
  <2> QED BY <1>1, <1>2, <1>4, <2>2, <2>3
<1>5. CASE Primary \notin completed
  <2>1. PICK q : q = [r EXCEPT !.phase = "executing",
                       !.task = [a \in Actions |-> IF a \in Executable(r) \ completed
                                                   THEN "ready" ELSE "none"]]
    OBVIOUS
  <2>2. Becomes(h, q)
    BY <1>1, <1>3, <1>5, <2>1 DEF Execute
  <2>3. /\ q \in Run /\ q.stop = r.stop /\ q.evidence = r.evidence /\ q.decision = r.decision
        /\ \A a \in Actions : q.task[a] = IF a \in Executable(r) \ completed
                                          THEN "ready" ELSE "none"
        /\ q.phase = "executing"
    BY <1>1, <2>1 DEF Run
  <2>4. q.task[Primary] = "ready" /\ q.task[Sibling] = "none"
    BY <1>1, <1>5, <2>3
  <2> QED BY <1>2, <1>5, <2>2, <2>3, <2>4
<1> QED BY <1>4, <1>5

-------------------------------------------------------------------------------
(* Scenarios that try the action: the steps.                               *)

LEMMA TryEffect ==
  ASSUME RunsInv, DataInv, NEW s \in Trying, plan = PlanOf(s), probe.released,
         NEW h \in 1..Len(runs), NEW lose \in Lose, TryRun(runs[h], lose),
         NEW a \in Actions, Effect(h, a)
  PROVE  /\ \E q : Becomes(h, q) /\ TryRun(q, lose)'
         /\ UNCHANGED plan /\ probe'.released = probe.released
         /\ commits'[Sibling] = commits[Sibling]
<1>1. PICK r : r = runs[h]
  OBVIOUS
<1>2. /\ r \in Run /\ TryRun(r, lose) /\ r.task[Sibling] = "none"
      /\ Actions = {Primary, Sibling} /\ Primary # Sibling
      /\ r.phase = "executing" /\ r.task[a] \in {"ready", "blocked"}
  BY <1>1, OneTask, HarnessAssumption DEF Effect
<1>3. a = Primary
  BY <1>2
<1>4. /\ r.task[Primary] = "ready" /\ completed = {} /\ commits[Primary] = <<>>
      /\ probe.lose = lose
  BY <1>2, <1>3 DEF TryRun
<1>5. PICK t : t = IF lose = "no" THEN "done" ELSE "ambiguous"
  OBVIOUS
<1>6. PICK q : q = [r EXCEPT !.task[Primary] = t]
  OBVIOUS
<1>7. /\ Becomes(h, q) /\ completed' = {Primary} /\ probe' = [probe EXCEPT !.lose = "no"]
      /\ commits' = IF lose = "before_commit" THEN commits
                    ELSE [commits EXCEPT ![Primary] = Append(@, ArgumentsOf(r, Primary))]
      /\ plan' = plan
  BY <1>1, <1>3, <1>4, <1>5, <1>6 DEF Effect, Commit, Completes, Committed
<1>8. /\ q.stop = r.stop /\ q.evidence = r.evidence /\ q.decision = r.decision
      /\ q.phase = r.phase /\ q.task[Primary] = t
  BY <1>2, <1>6 DEF Run
<1>9. probe'.lose = "no" /\ probe'.released = probe.released
  BY <1>7 DEF DataInv
<1>10. /\ commits'[Primary] = IF lose = "before_commit" THEN <<>> ELSE <<"proposed">>
       /\ commits'[Sibling] = commits[Sibling]
  <2>1. ArgumentsOf(r, Primary) = "proposed"
    BY <1>2 DEF TryRun, ArgumentsOf
  <2>2. Append(commits[Primary], "proposed") = <<"proposed">>
    BY <1>4
  <2> QED BY <1>2, <1>4, <1>7, <2>1, <2>2 DEF DataInv
<1>11. TryRun(q, lose)'
  BY <1>2, <1>5, <1>7, <1>8, <1>9, <1>10 DEF TryRun
<1> QED BY <1>7, <1>9, <1>10, <1>11

LEMMA TrySteps ==
  ASSUME RunsInv, DataInv, NEW s \in Trying, plan = PlanOf(s), probe.released,
         NEW h, h = Current, NEW lose \in Lose, TryRun(runs[h], lose), Steps
  PROVE  /\ \E q : Becomes(h, q) /\ TryRun(q, lose)'
         /\ UNCHANGED plan /\ probe'.released = probe.released
         /\ commits'[Sibling] = commits[Sibling]
<1>1. PICK r : r = runs[h]
  OBVIOUS
<1>2. /\ h \in 1..Len(runs) /\ r \in Run /\ RunInv(r) /\ TryRun(r, lose) /\ ~plan.timed
      /\ r.task[Sibling] = "none" /\ Actions = {Primary, Sibling} /\ Primary # Sibling
      /\ Ambiguous(r) = (IF r.task[Primary] = "ambiguous" THEN {Primary} ELSE {})
      /\ Unfinished(r) = (IF r.task[Primary] \in {"ready", "blocked"} THEN {Primary} ELSE {})
  <2>1. h \in 1..Len(runs)
    BY CurrentRun
  <2>2. ~plan.timed
    BY OtherPlans DEF Trying
  <2> QED BY <1>1, <2>1, <2>2, OneTask, HarnessAssumption
<1>3. CASE Drive(h)
  <2>1. r.phase = "created" /\ UNCHANGED <<plan, probe, completed, commits, started>>
    BY <1>1, <1>2, <1>3, OneActionDrives
  <2>2. r.task[Primary] = "none" /\ completed = {}
    BY <1>2, <2>1 DEF TryRun
  <2>3. PICK q \in Run : /\ Becomes(h, q) /\ q.stop = r.stop /\ q.evidence = r.evidence
                         /\ q.decision = r.decision
                         /\ q.phase = "executing" /\ q.task[Primary] = "ready"
    BY <1>1, <1>2, <1>3, <2>2, OneActionDrives
  <2>4. TryRun(q, lose)'
    BY <1>2, <2>1, <2>2, <2>3 DEF TryRun
  <2> QED BY <2>1, <2>3, <2>4
<1>4. CASE Settle(h)
  <2>1. r.phase \in {"executing", "settling", "done"} => r.phase # "approvals"
    OBVIOUS
  <2>2. PICK f : f = Fenced(r)
    OBVIOUS
  <2>3. /\ f \in Run /\ f.phase = r.phase /\ f.status = r.status /\ f.stop = r.stop
        /\ f.evidence = r.evidence
        /\ f.task[Primary] = IF Primary \in Unfinished(r) THEN "stopped" ELSE r.task[Primary]
        /\ Ambiguous(f) = Ambiguous(r)
        /\ (r.phase # "approvals" => f.decision = r.decision)
    BY <1>2, <2>2, FencedRun
  <2>4. r.phase = "executing" /\ Ambiguous(r) # {} /\ r.stop = "no"
        /\ Becomes(h, [f EXCEPT !.phase = "settling"])
        /\ UNCHANGED <<plan, probe, completed, commits>>
    BY <1>1, <1>2, <1>4, <2>2, <2>3 DEF Settle, TryRun
  <2>5. r.task[Primary] = "ambiguous" /\ f.task[Primary] = "ambiguous"
    BY <1>2, <2>3, <2>4
  <2>6. PICK q : q = [f EXCEPT !.phase = "settling"]
    OBVIOUS
  <2>7. /\ q.phase = "settling" /\ q.stop = r.stop /\ q.evidence = r.evidence
        /\ q.decision = r.decision /\ q.task[Primary] = "ambiguous"
    BY <2>3, <2>4, <2>5, <2>6 DEF Run
  <2>8. TryRun(q, lose)'
    BY <1>2, <2>4, <2>5, <2>7 DEF TryRun
  <2> QED BY <2>4, <2>6, <2>8
<1>5. CASE Finish(h)
  <2>1. r.phase \in {"executing", "settling"} /\ (r.phase = "executing" => Unfinished(r) = {})
        /\ UNCHANGED <<plan, probe, completed, commits>>
    BY <1>1, <1>5 DEF Finish
  <2>2. /\ r.task[Primary] = IF lose = "no" THEN "done" ELSE "ambiguous"
        /\ completed = {Primary} /\ probe.lose = "no" /\ r.stop = "no"
    BY <1>2, <2>1 DEF TryRun
  <2>3. Outcomes(r) = {IF lose = "no" THEN "completed" ELSE "unknown"}
    <3>1. \A a \in Actions : r.task[a] # "stopped"
      BY <1>2, <2>2
    <3> QED BY <1>2, <2>2, <3>1 DEF Outcomes, GoesOn, OwnOutcome
  <2>4. PICK q : q = Ended(r, IF lose = "no" THEN "completed" ELSE "unknown")
    OBVIOUS
  <2>5. Becomes(h, q)
    BY <1>1, <1>5, <2>3, <2>4 DEF Finish
  <2>6. /\ q.phase = "done" /\ q.status = (IF lose = "no" THEN "completed" ELSE "unknown")
        /\ q.stop = r.stop /\ q.evidence = r.evidence /\ q.decision = r.decision
        /\ q.task = r.task
    BY <1>2, <2>4 DEF Ended, Run
  <2>7. TryRun(q, lose)'
    BY <1>2, <2>1, <2>2, <2>6 DEF TryRun
  <2> QED BY <2>1, <2>5, <2>7
<1>6. CASE \E a \in Actions : Effect(h, a)
  BY <1>1, <1>2, <1>6, TryEffect
<1>7. ~Resolve(h) /\ ~TimesOut(h)
  BY <1>1, <1>2 DEF Resolve, TimesOut, TryRun
<1> QED BY <1>3, <1>4, <1>5, <1>6, <1>7 DEF Steps

LEMMA RepeatSteps ==
  ASSUME RunsInv, NEW s \in Trying, plan = PlanOf(s), NEW h, h = Current,
         RepeatRun(runs[h]), Steps
  PROVE  /\ \E q : Becomes(h, q) /\ RepeatRun(q)'
         /\ UNCHANGED <<plan, probe, commits>>
<1>1. PICK r : r = runs[h]
  OBVIOUS
<1>2. h \in 1..Len(runs) /\ RepeatRun(r) /\ r.phase \in {"created", "done"}
  BY <1>1, CurrentRun DEF RepeatRun
<1>3. Drive(h)
  BY <1>1, <1>2 DEF Steps, Resolve, Settle, Finish, Effect, TimesOut
<1>4. Primary \in completed
  BY <1>2 DEF RepeatRun
<1>5. UNCHANGED <<plan, probe, completed, commits>>
  BY <1>3 DEF Drive
<1>6. PICK q : Becomes(h, q) /\ q.stop = r.stop /\ q.phase = "done" /\ q.status = "completed"
  BY <1>1, <1>2, <1>3, <1>4, OneActionDrives
<1>7. RepeatRun(q)'
  BY <1>2, <1>5, <1>6 DEF RepeatRun
<1> QED BY <1>5, <1>6, <1>7

LEMMA TryEnds ==
  ASSUME NEW r, NEW lose, TryRun(r, lose), r.phase = "done"
  PROVE  /\ r.status = IF lose = "no" THEN "completed" ELSE "unknown"
         /\ commits[Primary] = IF lose = "before_commit" THEN <<>> ELSE <<"proposed">>
         /\ completed = {Primary} /\ probe.lose = "no" /\ r.evidence[Primary] = "none"
BY DEF TryRun

LEMMA TrySame ==
  ASSUME UNCHANGED adapterVars, NEW r
  PROVE  /\ \A lose : TryRun(r, lose) => TryRun(r, lose)'
         /\ RepeatRun(r) => RepeatRun(r)'
BY DEF adapterVars, TryRun, RepeatRun

Twice == {"replay", "outcome_ambiguity"}

(* The calls of these scenarios.                                           *)
LEMMA TryingCalls ==
  ASSUME NEW s \in Trying, NEW k \in 1..Len(Script[s])
  PROVE  /\ k \in {1, 2, 3, 4}
         /\ s \notin {"reconcile_conflict", "reconcile_unavailable"} => Len(Script[s]) = 4
         /\ k = 1 => Is(Script[s], k, "outcome",
                        IF s = "replay" THEN "done"
                        ELSE IF s = "reconcile_not_committed" THEN "unknown_none"
                        ELSE "unknown_once")
         /\ s \in Twice =>
              /\ k = 2 => Is(Script[s], k, "replay", "any")
              /\ k = 3 => Is(Script[s], k, "outcome", "any")
              /\ k = 4 => Is(Script[s], k, "settle", "once")
         /\ s \in {"reconcile_committed", "reconcile_not_committed"} =>
              /\ k = 2 => Is(Script[s], k, "reconcile",
                             IF s = "reconcile_committed" THEN "committed" ELSE "not_committed")
              /\ k = 3 => Is(Script[s], k, "replay", "any")
              /\ k = 4 => Is(Script[s], k, "outcome", "done_once")
         /\ s = "reconcile_conflict" =>
              /\ Len(Script[s]) = 3 /\ k \in {1, 2, 3}
              /\ k = 2 => Is(Script[s], k, "interfere", "any")
              /\ k = 3 => Is(Script[s], k, "reconcile", "conflict")
         /\ s = "reconcile_unavailable" =>
              /\ Len(Script[s]) = 2 /\ k \in {1, 2}
              /\ k = 2 => Is(Script[s], k, "reconcile", "unavailable")
<1>1. CASE s = "replay"
  <2>1. Script[s] = Replayed /\ k \in {1, 2, 3, 4} /\ Len(Script[s]) = 4
    BY <1>1, ScriptNames, ReplayedCalls
  <2> QED BY <1>1, <2>1, ReplayedCalls DEF Twice
<1>2. CASE s = "outcome_ambiguity"
  <2>1. Script[s] = OutcomeAmbiguity /\ k \in {1, 2, 3, 4} /\ Len(Script[s]) = 4
    BY <1>2, ScriptNames, OutcomeAmbiguityCalls
  <2> QED BY <1>2, <2>1, OutcomeAmbiguityCalls DEF Twice
<1>3. CASE s = "reconcile_committed"
  <2>1. Script[s] = ReconcileCommitted /\ k \in {1, 2, 3, 4} /\ Len(Script[s]) = 4
    BY <1>3, ScriptNames, ReconcileCommittedCalls
  <2> QED BY <1>3, <2>1, ReconcileCommittedCalls DEF Twice
<1>4. CASE s = "reconcile_not_committed"
  <2>1. Script[s] = ReconcileNotCommitted /\ k \in {1, 2, 3, 4} /\ Len(Script[s]) = 4
    BY <1>4, ScriptNames, ReconcileNotCommittedCalls
  <2> QED BY <1>4, <2>1, ReconcileNotCommittedCalls DEF Twice
<1>5. CASE s = "reconcile_conflict"
  <2>1. Script[s] = ReconcileConflict /\ k \in {1, 2, 3} /\ Len(Script[s]) = 3
    BY <1>5, ScriptNames, ReconcileConflictCalls
  <2> QED BY <1>5, <2>1, ReconcileConflictCalls DEF Twice
<1>6. CASE s = "reconcile_unavailable"
  <2>1. Script[s] = ReconcileUnavailable /\ k \in {1, 2} /\ Len(Script[s]) = 2
    BY <1>6, ScriptNames, ReconcileUnavailableCalls
  <2> QED BY <1>6, <2>1, ReconcileUnavailableCalls DEF Twice
<1> QED BY <1>1, <1>2, <1>3, <1>4, <1>5, <1>6 DEF Trying

LEMMA TryingSteps ==
  ASSUME RunsInv, DataInv, NEW s \in Trying, NEW k \in 1..Len(Script[s]),
         TryingInv(s, k), Steps
  PROVE  TryingInv(s, k)'
<1>1. /\ k \in {1, 2, 3, 4} /\ plan = PlanOf(s) /\ probe.released /\ commits[Sibling] = <<>>
      /\ Current \in 1..Len(runs) /\ Current = Len(runs) /\ runs[Current].phase # "done"
      /\ LosesOf(s) \in Lose /\ "no" \in Lose
  BY TryingCalls, CurrentRun, DoneRests, LosesType DEF TryingInv, Done, Lose
<1>2. CASE k \leq 2
  <2>1. k = 1 /\ Current = 1 /\ Len(runs) = 1 /\ TryRun(runs[1], LosesOf(s))
    BY <1>1, <1>2 DEF TryingInv
  <2>2. PICK q : Becomes(1, q) /\ TryRun(q, LosesOf(s))'
    BY <1>1, <2>1, TrySteps
  <2>3. UNCHANGED plan /\ probe'.released = probe.released /\ commits'[Sibling] = commits[Sibling]
    BY <1>1, <2>1, TrySteps
  <2>4. Len(runs') = 1 /\ runs'[1] = q
    BY <1>1, <2>1, <2>2, BecomesOnly
  <2>5. TryRun(runs[1], LosesOf(s))'
    BY <2>2, <2>4 DEF TryRun
  <2> QED BY <1>1, <2>1, <2>3, <2>4, <2>5 DEF TryingInv
<1>3. CASE ~(k \leq 2) /\ (s \in Twice \/ (k = 4 /\ s = "reconcile_committed"))
  <2>1. k \in {3, 4} /\ Current = 2 /\ Len(runs) = 2 /\ RepeatRun(runs[2])
        /\ runs[1].phase = "done"
    BY <1>1, <1>3 DEF TryingInv, Twice
  <2>2. PICK q : Becomes(2, q) /\ RepeatRun(q)'
    BY <1>1, <2>1, RepeatSteps
  <2>3. UNCHANGED <<plan, probe, commits>>
    BY <1>1, <2>1, RepeatSteps
  <2>4. Len(runs') = 2 /\ runs'[2] = q /\ runs'[1] = runs[1]
    BY <1>1, <2>1, <2>2, BecomesOnly
  <2>5. RepeatRun(runs[2])'
    BY <2>2, <2>4 DEF RepeatRun
  <2> QED BY <1>1, <1>3, <2>1, <2>3, <2>4, <2>5 DEF TryingInv, Twice
<1>4. CASE k = 4 /\ s = "reconcile_not_committed"
  <2>1. Current = 2 /\ Len(runs) = 2 /\ TryRun(runs[2], "no") /\ runs[1].phase = "done"
    BY <1>1, <1>4 DEF TryingInv
  <2>2. PICK q : Becomes(2, q) /\ TryRun(q, "no")'
    BY <1>1, <2>1, TrySteps
  <2>3. UNCHANGED plan /\ probe'.released = probe.released /\ commits'[Sibling] = commits[Sibling]
    BY <1>1, <2>1, TrySteps
  <2>4. Len(runs') = 2 /\ runs'[2] = q /\ runs'[1] = runs[1]
    BY <1>1, <2>1, <2>2, BecomesOnly
  <2>5. TryRun(runs[2], "no")'
    BY <2>2, <2>4 DEF TryRun
  <2> QED BY <1>1, <1>4, <2>1, <2>3, <2>4, <2>5 DEF TryingInv
<1>5. CASE k = 3 /\ s \notin Twice
  <2>1. Len(runs) = 1 /\ runs[1].phase = "done"
    BY <1>5 DEF TryingInv, Twice
  <2> QED BY <1>1, <2>1
<1>6. k = 4 => s \in Twice \cup {"reconcile_committed", "reconcile_not_committed"}
  BY TryingCalls DEF Trying, Twice
<1> QED BY <1>1, <1>2, <1>3, <1>4, <1>5, <1>6

-------------------------------------------------------------------------------
(* Scenarios that try the action: the calls.                               *)

LEMMA TryingOutcome ==
  ASSUME RunsInv, NEW s \in Trying, NEW k, k = 1, TryingInv(s, k),
         Calls("outcome"), k \in 1..Len(Script[s])
  PROVE  TryingInv(s, 2)' /\ Expected(Script[s][k][2])
<1>1. /\ UNCHANGED adapterVars /\ runs[Len(runs)].phase = "done"
  BY WaitingCalls
<1>2. /\ plan = PlanOf(s) /\ probe.released /\ commits[Sibling] = <<>>
      /\ Len(runs) = 1 /\ TryRun(runs[1], LosesOf(s))
  BY DEF TryingInv
<1>3. runs' = runs /\ commits' = commits /\ plan' = plan /\ probe' = probe
  BY <1>1 DEF adapterVars
<1>4. TryRun(runs[1], LosesOf(s))'
  BY <1>1, <1>2, <1>3 DEF TryRun, adapterVars
<1>5. TryingInv(s, 2)'
  BY <1>1, <1>2, <1>3, <1>4 DEF TryingInv
<1>6. PICK lose : lose = LosesOf(s)
  OBVIOUS
<1>7. /\ runs[1].status = IF lose = "no" THEN "completed" ELSE "unknown"
      /\ commits[Primary] = IF lose = "before_commit" THEN <<>> ELSE <<"proposed">>
  BY <1>1, <1>2, <1>6, TryEnds
<1>8. Total(commits) = IF lose = "before_commit" THEN 0 ELSE 1
  BY <1>2, <1>7 DEF Total
<1>9. /\ runs'[Len(runs')].status = IF lose = "no" THEN "completed" ELSE "unknown"
      /\ Total(commits') = IF lose = "before_commit" THEN 0 ELSE 1
  BY <1>2, <1>3, <1>7, <1>8
<1>10. /\ lose = "no" <=> s = "replay"
       /\ lose = "before_commit" <=> s = "reconcile_not_committed"
  BY <1>6 DEF LosesOf, Trying
<1>11. Script[s][k][2] = IF s = "replay" THEN "done"
                         ELSE IF s = "reconcile_not_committed" THEN "unknown_none"
                         ELSE "unknown_once"
  BY TryingCalls DEF Is
<1>12. CASE s = "replay"
  BY <1>9, <1>10, <1>11, <1>12, <1>5, ExpectedMeans
<1>13. CASE s = "reconcile_not_committed"
  BY <1>9, <1>10, <1>11, <1>13, <1>5, ExpectedMeans
<1>14. CASE s \notin {"replay", "reconcile_not_committed"}
  BY <1>9, <1>10, <1>11, <1>14, <1>5, ExpectedMeans
<1> QED BY <1>12, <1>13, <1>14

LEMMA Replayed2 ==
  ASSUME RunsInv, Len(runs) = 1, Replay
  PROVE  /\ Len(runs') = 2 /\ runs'[1] = runs[1] /\ runs'[2] = NewRun
         /\ UNCHANGED <<plan, probe, completed, commits>> /\ runs[1].phase = "done"
<1>1. PICK n : n = NewRun
  OBVIOUS
<1>2. n \in Run
  BY <1>1, NewRunType
<1>3. runs' = Append(runs, n) /\ runs \in Seq(Run)
  BY <1>1 DEF Replay, RunsInv
<1>4. Len(runs') = 2 /\ runs'[1] = runs[1] /\ runs'[2] = n
  <2>1. PICK t : t = runs
    OBVIOUS
  <2>2. t \in Seq(Run) /\ Len(t) = 1
    BY <1>3, <2>1
  <2>4. PICK c : c = Append(t, n)
    OBVIOUS
  <2>8. t \in Seq(Run)
    BY <2>2
  <2>3. Len(c) = Len(t) + 1 /\ c[Len(t) + 1] = n
    BY <1>2, <2>8, <2>4
  <2>7. \A i \in 1..Len(t) : c[i] = t[i]
    BY <1>2, <2>8, <2>4
  <2>5. runs' = c
    BY <1>3, <2>1, <2>4
  <2>6. Len(c) = 2 /\ c[1] = t[1] /\ c[2] = n
    BY <2>2, <2>3, <2>7
  <2> QED BY <2>1, <2>5, <2>6
<1> QED BY <1>1, <1>4 DEF Replay, Done, Current

LEMMA TryingRepeats ==
  ASSUME RunsInv, DataInv, NEW s \in Trying, NEW k, Calls("replay"), TryingInv(s, k),
         \/ s \in Twice /\ k = 2
         \/ s = "reconcile_committed" /\ k = 3
         \/ s = "reconcile_not_committed" /\ k = 3
  PROVE  TryingInv(s, k + 1)'
<1>1. Replay /\ Len(runs) = 1
  BY DEF Calls, TryingInv, Twice
<1>2. /\ Len(runs') = 2 /\ runs'[1] = runs[1] /\ runs'[2] = NewRun
      /\ UNCHANGED <<plan, probe, completed, commits>> /\ runs[1].phase = "done"
  BY <1>1, Replayed2
<1>3. PICK n : n = NewRun
  OBVIOUS
<1>4. /\ n.stop = "no" /\ n.phase = "created" /\ n.task[Primary] = "none"
      /\ n.decision[Primary] = "none" /\ n.evidence[Primary] = "none"
  BY <1>3, TwoActions DEF NewRun
<1>5. ASSUME completed = {Primary}, commits[Primary] = <<"proposed">>
      PROVE  RepeatRun(runs[2])'
  BY <1>2, <1>3, <1>4, <1>5 DEF RepeatRun
<1>6. CASE s \in Twice /\ k = 2
  <2>1. TryRun(runs[1], LosesOf(s)) /\ LosesOf(s) # "before_commit"
    BY <1>6 DEF TryingInv, Twice, LosesOf
  <2>2. completed = {Primary} /\ commits[Primary] = <<"proposed">>
    BY <1>2, <2>1, TryEnds
  <2>3. RepeatRun(runs[2])'
    BY <1>5, <2>2
  <2> QED BY <1>2, <1>6, <2>3 DEF TryingInv, Twice
<1>7. CASE s = "reconcile_committed" /\ k = 3
  <2>1. RepeatRun(runs[2])'
    BY <1>5, <1>7 DEF TryingInv
  <2> QED BY <1>2, <1>7, <2>1 DEF TryingInv
<1>8. CASE s = "reconcile_not_committed" /\ k = 3
  <2>1. completed = {} /\ commits[Primary] = <<>> /\ probe.lose = "no"
    BY <1>8 DEF TryingInv
  <2>2. TryRun(runs[2], "no")'
    BY <1>2, <1>3, <1>4, <2>1 DEF TryRun
  <2> QED BY <1>2, <1>8, <2>2 DEF TryingInv
<1> QED BY <1>6, <1>7, <1>8

LEMMA OneAndOne == \A u, v : Append(<<u>>, v) = <<u, v>>
<1> SUFFICES ASSUME NEW u, NEW v PROVE Append(<<u>>, v) = <<u, v>>
  OBVIOUS
<1>1. PICK S : S = {u, v}
  OBVIOUS
<1>2. PICK f, e : f = <<u>> /\ e = <<u, v>>
  OBVIOUS
<1>3. /\ f \in Seq(S) /\ Len(f) = 1 /\ f[1] = u /\ v \in S
      /\ e \in Seq(S) /\ Len(e) = 2 /\ e[1] = u /\ e[2] = v
  BY <1>1, <1>2
<1>4. PICK c : c = Append(f, v)
  OBVIOUS
<1>11. f \in Seq(S) /\ v \in S
  BY <1>3
<1>5. c \in Seq(S)
  BY <1>11, <1>4
<1>9. Len(c) = Len(f) + 1 /\ c[Len(f) + 1] = v
  BY <1>11, <1>4
<1>10. \A i \in 1..Len(f) : c[i] = f[i]
  BY <1>11, <1>4
<1>6. c \in Seq(S) /\ Len(c) = 2 /\ c[1] = u /\ c[2] = v
  BY <1>3, <1>5, <1>9, <1>10
<1>7. \A i \in 1..2 : i = 1 \/ i = 2
  OBVIOUS
<1>8. c = e
  BY <1>3, <1>6, <1>7, SeqEqual
<1> QED BY <1>2, <1>4, <1>8

LEMMA Appended2 ==
  ASSUME NEW S, NEW s \in Seq(S), NEW u \in S, NEW v \in S
  PROVE  \E i, j \in 1..Len(s \o <<u, v>>) :
           i < j /\ (s \o <<u, v>>)[i] = u /\ (s \o <<u, v>>)[j] = v
<1>1. PICK t : t = <<u, v>>
  OBVIOUS
<1>2. t \in Seq(S) /\ Len(t) = 2 /\ t[1] = u /\ t[2] = v
  BY <1>1
<1>3. PICK c : c = s \o t
  OBVIOUS
<1>4. /\ Len(c) = Len(s) + Len(t)
      /\ \A i \in 1..Len(s) + Len(t) : c[i] = IF i <= Len(s) THEN s[i] ELSE t[i - Len(s)]
  BY <1>2, <1>3, ConcatProperties, Zenon
<1>5. PICK n \in Nat : n = Len(s)
  BY LenProperties
<1>6. /\ n + 1 \in 1..n + 2 /\ n + 2 \in 1..n + 2 /\ n + 1 < n + 2
      /\ ~(n + 1 <= n) /\ ~(n + 2 <= n) /\ (n + 1) - n = 1 /\ (n + 2) - n = 2
  OBVIOUS
<1>7. c[n + 1] = u /\ c[n + 2] = v /\ Len(c) = n + 2
  BY <1>2, <1>4, <1>5, <1>6
<1> QED BY <1>1, <1>3, <1>6, <1>7

(* What a reconciliation finds is recorded in the handle and the journal.  *)
LEMMA Reconciles ==
  ASSUME RunsInv, DataInv, Len(runs) = 1, Reconcile(1, Primary),
         NEW e, e = Evidence(Primary), e # "unavailable" => plan.evidence # "slow"
  PROVE  /\ Reconciled(e) /\ runs[1].phase = "done"
         /\ Len(runs') = 1 /\ runs'[1].phase = "done"
         /\ UNCHANGED <<plan, probe, commits>>
         /\ completed' = IF e = "committed" THEN completed \cup {Primary}
                         ELSE IF e = "not_committed" THEN completed \ {Primary} ELSE completed
<1>1. PICK r : r = runs[1]
  OBVIOUS
<1>2. r \in Run /\ 1 \in 1..Len(runs) /\ Primary \in Actions /\ Current = 1
  BY <1>1, OnlyRun, TwoActions
<1>3. PICK q : q = [r EXCEPT !.evidence[Primary] = e]
  OBVIOUS
<1>4. Becomes(1, q)
  BY <1>1, <1>3 DEF Reconcile
<1>5. q.phase = r.phase /\ q.evidence[Primary] = e
  BY <1>2, <1>3 DEF Run
<1>6. Len(runs') = 1 /\ runs'[1] = q
  BY <1>2, <1>4, BecomesOnly
<1>7. runs[1].phase = "done"
  BY <1>2 DEF Reconcile, Done
<1>8. PICK end : end = IF plan.evidence = "slow" THEN "reconciliation_timed_out" ELSE e
  OBVIOUS
<1>9. PICK u, v : /\ u = ActionEvent("reconciliation_started", Primary, "proposed")
                  /\ v = ActionEvent(end, Primary, "proposed")
  OBVIOUS
<1>10. receipts' = receipts \o <<u, v>> /\ UNCHANGED <<plan, probe, commits>>
  BY <1>8, <1>9 DEF Reconcile
<1>11. u \in AuditReceipt /\ v \in AuditReceipt
  <2>1. e \in ReconciliationStatus
    BY DEF Evidence, ReconciliationStatus
  <2>2. "reconciliation_started" \in AuditEvent /\ end \in AuditEvent
    BY <1>8, <2>1 DEF AuditEvent
  <2> QED BY <1>2, <1>9, <2>2 DEF ActionEvent, AuditReceipt, Arguments
<1>12. \E i, j \in 1..Len(receipts') : i < j /\ receipts'[i] = u /\ receipts'[j] = v
  <2>1. PICK log : log = receipts
    OBVIOUS
  <2>2. log \in Seq(AuditReceipt)
    BY <2>1 DEF DataInv
  <2>3. \E i, j \in 1..Len(log \o <<u, v>>) :
          i < j /\ (log \o <<u, v>>)[i] = u /\ (log \o <<u, v>>)[j] = v
    BY <1>11, <2>2, Appended2
  <2> QED BY <1>10, <2>1, <2>3
<1>13. Reconciled(e)
  BY <1>5, <1>6, <1>8, <1>9, <1>12 DEF Reconciled
<1>14. completed' = IF e = "committed" THEN completed \cup {Primary}
                    ELSE IF e = "not_committed" THEN completed \ {Primary} ELSE completed
  BY DEF Reconcile
<1> QED BY <1>1, <1>5, <1>6, <1>7, <1>10, <1>13, <1>14

LEMMA TryingReconciles ==
  ASSUME RunsInv, DataInv, NEW s \in Trying, NEW k \in 1..Len(Script[s]), TryingInv(s, k),
         Calls("reconcile"),
         \/ s \in {"reconcile_committed", "reconcile_not_committed", "reconcile_unavailable"}
            /\ k = 2
         \/ s = "reconcile_conflict" /\ k = 3
  PROVE  /\ k < Len(Script[s]) => TryingInv(s, k + 1)'
         /\ Expected(Script[s][k][2])
<1>1. /\ Reconcile(1, Primary) /\ Len(runs) = 1 /\ plan = PlanOf(s) /\ probe.released
      /\ commits[Sibling] = <<>>
  BY DEF Calls, TryingInv, Twice
<1>2. plan.evidence = IF s = "reconcile_unavailable" THEN "slow" ELSE "available"
  BY <1>1, OtherPlans
<1>3. runs[1].phase = "done"
  BY <1>1 DEF Reconcile, Done, Current
<1>4. PICK e : e = Script[s][k][2]
  OBVIOUS
<1>5. CASE s = "reconcile_committed"
  <2>1. TryRun(runs[1], "after_commit") /\ k = 2
    BY <1>5 DEF TryingInv, LosesOf
  <2>2. commits[Primary] = <<"proposed">> /\ completed = {Primary}
    BY <1>3, <2>1, TryEnds
  <2>3. e = "committed" /\ e = Evidence(Primary)
    <3>1. <<"proposed">> # <<>>
      OBVIOUS
    <3> QED BY <1>2, <1>4, <1>5, <2>1, <2>2, <3>1, TryingCalls DEF Is, Evidence
  <2>4. /\ Reconciled(e) /\ Len(runs') = 1 /\ runs'[1].phase = "done"
        /\ UNCHANGED <<plan, probe, commits>> /\ completed' = {Primary}
    BY <1>1, <1>2, <1>5, <2>2, <2>3, Reconciles
  <2>5. TryingInv(s, 3)'
    BY <1>1, <1>5, <2>2, <2>4 DEF TryingInv
  <2>6. Expected(e)
    BY <2>3, <2>4, ExpectedMeans
  <2> QED BY <1>4, <2>1, <2>5, <2>6
<1>6. CASE s = "reconcile_not_committed"
  <2>1. TryRun(runs[1], "before_commit") /\ k = 2
    BY <1>6 DEF TryingInv, LosesOf
  <2>2. commits[Primary] = <<>> /\ completed = {Primary} /\ probe.lose = "no"
    BY <1>3, <2>1, TryEnds
  <2>3. e = "not_committed" /\ e = Evidence(Primary)
    BY <1>2, <1>4, <1>6, <2>1, <2>2, TryingCalls DEF Is, Evidence
  <2>4. /\ Reconciled(e) /\ Len(runs') = 1 /\ runs'[1].phase = "done"
        /\ UNCHANGED <<plan, probe, commits>> /\ completed' = {}
    BY <1>1, <1>2, <1>6, <2>2, <2>3, Reconciles
  <2>5. TryingInv(s, 3)'
    BY <1>1, <1>6, <2>2, <2>4 DEF TryingInv
  <2>6. Expected(e)
    BY <2>3, <2>4, ExpectedMeans
  <2> QED BY <1>4, <2>1, <2>5, <2>6
<1>7. CASE s = "reconcile_unavailable"
  <2>1. k = 2 /\ Len(Script[s]) = 2
    BY <1>7, TryingCalls
  <2>2. e = "unavailable" /\ e = Evidence(Primary)
    BY <1>2, <1>4, <1>7, <2>1, TryingCalls DEF Is, Evidence
  <2>3. Reconciled(e)
    BY <1>1, <2>2, Reconciles
  <2>4. Expected(e)
    BY <2>2, <2>3, ExpectedMeans
  <2> QED BY <1>4, <2>1, <2>4
<1>8. CASE s = "reconcile_conflict"
  <2>1. k = 3 /\ Len(Script[s]) = 3 /\ commits[Primary] = <<"proposed", "foreign">>
    BY <1>8, TryingCalls DEF TryingInv
  <2>2. e = "conflict" /\ e = Evidence(Primary)
    <3>1. /\ <<"proposed", "foreign">> # <<"proposed">>
          /\ <<"proposed", "foreign">> # <<>>
      OBVIOUS
    <3> QED BY <1>2, <1>4, <1>8, <2>1, <3>1, TryingCalls DEF Is, Evidence
  <2>3. Reconciled(e)
    BY <1>1, <1>2, <1>8, <2>2, Reconciles
  <2>4. Expected(e)
    BY <2>2, <2>3, ExpectedMeans
  <2> QED BY <1>4, <2>1, <2>4
<1> QED BY <1>5, <1>6, <1>7, <1>8

LEMMA TryingInterferes ==
  ASSUME RunsInv, DataInv, NEW s, s = "reconcile_conflict", NEW k, k = 2, TryingInv(s, k),
         Calls("interfere")
  PROVE  TryingInv(s, 3)'
<1>1. /\ plan = PlanOf(s) /\ probe.released /\ commits[Sibling] = <<>> /\ Len(runs) = 1
      /\ runs[1].phase = "done" /\ TryRun(runs[1], "after_commit")
  BY DEF TryingInv, LosesOf
<1>2. /\ commits[Primary] = <<"proposed">> /\ runs[1].status = "unknown"
      /\ runs[1].evidence[Primary] = "none"
  BY <1>1, TryEnds
<1>3. /\ commits' = [commits EXCEPT ![Primary] = Append(@, "foreign")]
      /\ UNCHANGED <<plan, probe, runs, completed>>
  BY DEF Calls, Committed
<1>4. Append(<<"proposed">>, "foreign") = <<"proposed", "foreign">>
  BY OneAndOne
<1>5. commits'[Primary] = <<"proposed", "foreign">> /\ commits'[Sibling] = <<>>
  BY <1>1, <1>2, <1>3, <1>4, TwoActions, HarnessAssumption DEF DataInv
<1> QED BY <1>1, <1>2, <1>3, <1>5 DEF TryingInv

(* The calls that look at what the second run came to.                     *)
LEMMA TryingAgain ==
  ASSUME RunsInv, DataInv, NEW s \in Trying, NEW k \in 1..Len(Script[s]), TryingInv(s, k),
         Calls(Script[s][k][1]), k \in {3, 4},
         s \in Twice \/ k = 4
  PROVE  /\ k < Len(Script[s]) => TryingInv(s, k + 1)'
         /\ Expected(Script[s][k][2])
<1>1. PICK op, e : op = Script[s][k][1] /\ e = Script[s][k][2]
  OBVIOUS
<1>2. /\ Calls(op) /\ op \in {"outcome", "settle"} /\ k \in {3, 4}
      /\ k = 3 => e = "any" /\ op = "outcome" /\ s \in Twice
      /\ k = 4 => e = IF s \in Twice THEN "once" ELSE "done_once"
      /\ k = 4 /\ s \notin Twice => op = "outcome"
  BY <1>1, TryingCalls DEF Is, Trying, Twice
<1>3. /\ UNCHANGED adapterVars /\ (op = "outcome" => runs[Len(runs)].phase = "done")
  BY <1>2, WaitingCalls
<1>4. runs' = runs /\ commits' = commits /\ plan' = plan /\ probe' = probe
  BY <1>3 DEF adapterVars
<1>5. /\ plan = PlanOf(s) /\ probe.released /\ commits[Sibling] = <<>> /\ Len(runs) = 2
      /\ runs[1].phase = "done"
  BY <1>2 DEF TryingInv, Twice
<1>6. CASE k = 3
  <2>1. RepeatRun(runs[2])
    BY <1>2, <1>6 DEF TryingInv, Twice
  <2>2. RepeatRun(runs[2])'
    BY <1>4, <1>3, <2>1 DEF RepeatRun, adapterVars
  <2>3. TryingInv(s, 4)'
    BY <1>2, <1>4, <1>5, <1>6, <2>2 DEF TryingInv, Twice
  <2> QED BY <1>1, <1>2, <1>6, <2>3, ExpectedMeans
<1>7. CASE k = 4
  <2>1. Len(Script[s]) = 4
    BY <1>7, TryingCalls
  <2>2. CASE s \in Twice
    <3>1. commits[Primary] = <<"proposed">>
      BY <1>7, <2>2 DEF TryingInv, Twice, RepeatRun
    <3>2. Total(commits) = 1
      BY <1>5, <3>1 DEF Total
    <3> QED BY <1>1, <1>2, <1>4, <1>7, <2>1, <2>2, <3>2, ExpectedMeans
  <2>3. CASE s \notin Twice
    <3>1. s \in {"reconcile_committed", "reconcile_not_committed"} /\ runs[2].phase = "done"
      BY <1>2, <1>3, <1>5, <1>7, <2>3, TryingCalls DEF Trying, Twice
    <3>2. commits[Primary] = <<"proposed">> /\ runs[2].status = "completed"
      <4>1. CASE s = "reconcile_committed"
        BY <1>7, <3>1, <4>1 DEF TryingInv, RepeatRun
      <4>2. CASE s = "reconcile_not_committed"
        <5>1. TryRun(runs[2], "no")
          BY <1>7, <4>2 DEF TryingInv
        <5> QED BY <3>1, <5>1, TryEnds
      <4> QED BY <3>1, <4>1, <4>2
    <3>3. Total(commits) = 1
      BY <1>5, <3>2 DEF Total
    <3>4. runs'[Len(runs')].status = "completed" /\ Total(commits') = 1
      BY <1>4, <1>5, <3>2, <3>3
    <3> QED BY <1>1, <1>2, <1>7, <2>1, <2>3, <3>4, ExpectedMeans
  <2> QED BY <2>2, <2>3
<1> QED BY <1>2, <1>6, <1>7

LEMMA TryingCall ==
  ASSUME RunsInv, DataInv, NEW s \in Trying, NEW k \in 1..Len(Script[s]), TryingInv(s, k),
         Calls(Script[s][k][1])
  PROVE  /\ k < Len(Script[s]) => TryingInv(s, k + 1)'
         /\ Expected(Script[s][k][2])
<1>1. k \in {1, 2, 3, 4}
  BY TryingCalls
<1>2. CASE k = 1
  <2>1. Script[s][k][1] = "outcome"
    BY <1>2, TryingCalls DEF Is
  <2>2. Calls("outcome")
    BY <2>1
  <2> QED BY <1>2, <2>2, TryingOutcome
<1>3. CASE k # 1 /\ (k = 4 \/ (k = 3 /\ s \in Twice))
  BY <1>1, <1>3, TryingAgain
<1>4. CASE (k = 2 /\ s \in Twice) \/ (k = 3 /\ s \in {"reconcile_committed",
                                                     "reconcile_not_committed"})
  <2>1. Script[s][k][1] = "replay" /\ Script[s][k][2] = "any"
    BY <1>4, TryingCalls DEF Is
  <2>2. Calls("replay")
    BY <2>1
  <2> QED BY <1>4, <2>1, <2>2, TryingRepeats, ExpectedMeans
<1>5. CASE k = 2 /\ s = "reconcile_conflict"
  <2>1. Script[s][k][1] = "interfere" /\ Script[s][k][2] = "any"
    BY <1>5, TryingCalls DEF Is
  <2>2. Calls("interfere")
    BY <2>1
  <2> QED BY <1>5, <2>1, <2>2, TryingInterferes, ExpectedMeans
<1>6. CASE \/ k = 2 /\ s \notin Twice \cup {"reconcile_conflict"}
           \/ k = 3 /\ s = "reconcile_conflict"
  <2>1. \/ s \in {"reconcile_committed", "reconcile_not_committed", "reconcile_unavailable"}
           /\ k = 2
        \/ s = "reconcile_conflict" /\ k = 3
    BY <1>6 DEF Trying, Twice
  <2>2. Script[s][k][1] = "reconcile"
    BY <2>1, TryingCalls DEF Is
  <2>3. Calls("reconcile")
    BY <2>2
  <2> QED BY <2>1, <2>3, TryingReconciles
<1>7. k = 3 => s # "reconcile_unavailable"
  BY TryingCalls
<1> QED BY <1>1, <1>2, <1>3, <1>4, <1>5, <1>6, <1>7 DEF Trying, Twice

-------------------------------------------------------------------------------
(* Scenarios that stop the run.                                            *)

LEMMA StoppingCalls ==
  ASSUME NEW s \in Stopping, NEW k \in 1..Len(Script[s])
  PROVE  /\ k \in 1..ReleasedAt(s) /\ Len(Script[s]) = ReleasedAt(s)
         /\ k = 1 => Is(Script[s], k, "started", "any")
         /\ k = 2 /\ s = "cancellation" => Is(Script[s], k, "cancel", "any")
         /\ k = ReleasedAt(s) - 2 => Is(Script[s], k, "outcome", "any")
         /\ k = ReleasedAt(s) - 1 => Is(Script[s], k, "release", "any")
         /\ k = ReleasedAt(s) => Is(Script[s], k, "settle", StopOf(s))
<1>1. CASE s = "cancellation"
  <2>1. Script[s] = Cancellation /\ k \in {1, 2, 3, 4, 5} /\ Len(Script[s]) = 5
        /\ ReleasedAt(s) = 5 /\ StopOf(s) = "cancelled"
    BY <1>1, ScriptNames, CancellationCalls DEF ReleasedAt, StopOf
  <2> QED BY <1>1, <2>1, CancellationCalls
<1>2. CASE s = "timeout"
  <2>1. Script[s] = Timeout /\ k \in {1, 2, 3, 4} /\ Len(Script[s]) = 4
        /\ ReleasedAt(s) = 4 /\ StopOf(s) = "timed_out"
    BY <1>2, ScriptNames, TimeoutCalls DEF ReleasedAt, StopOf
  <2> QED BY <1>2, <2>1, TimeoutCalls
<1> QED BY <1>1, <1>2 DEF Stopping

LEMMA StoppingBecomes ==
  ASSUME RunsInv, NEW s, NEW k, NEW l, StoppingInv(s, k),
         UNCHANGED <<plan, completed, commits>>, probe'.lose = probe.lose,
         probe'.released => l = ReleasedAt(s),
         NEW q, Becomes(1, q), StoppingRun(s, l, q)'
  PROVE  StoppingInv(s, l)'
<1>1. runs'[1] = q /\ Len(runs') = 1
  BY OnlyRun DEF StoppingInv
<1>2. StoppingRun(s, l, runs[1])'
  BY <1>1 DEF StoppingRun
<1> QED BY <1>1, <1>2 DEF StoppingInv

LEMMA StoppingSteps ==
  ASSUME RunsInv, DataInv, NEW s \in Stopping, NEW k \in 1..Len(Script[s]),
         StoppingInv(s, k), Steps
  PROVE  StoppingInv(s, k)'
<1>1. PICK r : r = runs[1]
  OBVIOUS
<1>2. /\ Current = 1 /\ 1 \in 1..Len(runs) /\ r \in Run /\ RunInv(r)
      /\ plan = PlanOf(s) /\ StoppingRun(s, k, r) /\ completed = {}
      /\ r.phase # "done" /\ k \in 1..5
  <2>1. Current = 1 /\ 1 \in 1..Len(runs) /\ r \in Run /\ RunInv(r)
    BY <1>1, OnlyRun DEF StoppingInv
  <2>2. r.phase # "done"
    BY <1>1, <2>1, DoneRests DEF Done
  <2>3. k \in 1..5
    BY StoppingCalls DEF ReleasedAt
  <2> QED BY <1>1, <2>1, <2>2, <2>3 DEF StoppingInv
<1>3. /\ Primary \in Actions /\ Sibling \in Actions /\ Primary # Sibling
      /\ Actions = {Primary, Sibling}
  BY TwoActions, HarnessAssumption
<1>4. plan.timed <=> s = "timeout"
  BY <1>2, OtherPlans
<1>5. ~probe.released /\ ~(k \geq ReleasedAt(s) - 1)
  <2>1. ~(k \geq ReleasedAt(s) - 1)
    BY <1>2 DEF StoppingRun
  <2> QED BY <1>2, <2>1 DEF StoppingInv, ReleasedAt
<1>6. /\ Ambiguous(r) = IF r.task[Primary] = "ambiguous" THEN {Primary} ELSE {}
      /\ Unfinished(r) = IF r.task[Primary] \in {"ready", "blocked"} THEN {Primary} ELSE {}
  BY <1>1, <1>2, OneTask
<1>7. r.phase \in {"executing", "settling"} =>
        Ambiguous(r) = {} /\ r.task[Primary] \in {"ready", "blocked", "stopped"}
  BY <1>2, <1>6 DEF StoppingRun
<1>8. CASE Drive(1)
  <2>1. r.phase = "created" /\ UNCHANGED <<plan, probe, completed, commits, started>>
    BY <1>1, <1>2, <1>8, OneActionDrives
  <2>2. PICK q \in Run : /\ Becomes(1, q) /\ q.stop = r.stop /\ q.task[Sibling] = "none"
                         /\ q.phase = "executing" /\ q.task[Primary] = "ready"
    BY <1>1, <1>2, <1>8, OneActionDrives
  <2>3. StoppingRun(s, k, q)'
    BY <1>2, <1>5, <2>1, <2>2 DEF StoppingRun
  <2> QED BY <1>5, <2>1, <2>2, <2>3, StoppingBecomes
<1>9. CASE Settle(1)
  <2>1. PICK f : f = Fenced(r)
    OBVIOUS
  <2>2. /\ f \in Run /\ f.stop = r.stop /\ f.phase = r.phase /\ Ambiguous(f) = Ambiguous(r)
        /\ f.task[Primary] = IF Primary \in Unfinished(r) THEN "stopped" ELSE r.task[Primary]
        /\ f.task[Sibling] = "none"
    BY <1>2, <1>3, <1>6, <2>1, FencedRun DEF StoppingRun
  <2>3. PICK q : q = [f EXCEPT !.phase = "settling"]
    OBVIOUS
  <2>4. /\ r.phase = "executing" /\ (f.stop # "no" \/ Ambiguous(f) # {}) /\ Becomes(1, q)
        /\ UNCHANGED <<plan, probe, completed, commits, started>>
    BY <1>1, <1>2, <1>9, <2>1, <2>3 DEF Settle, StoppingRun
  <2>5. r.stop # "no"
    BY <1>7, <2>2, <2>4
  <2>6. /\ q.phase = "settling" /\ q.stop = r.stop /\ q.task = f.task
    BY <2>2, <2>3 DEF Run
  <2>7. f.task[Primary] = "stopped"
    BY <1>6, <1>7, <2>2, <2>4
  <2>8. StoppingRun(s, k, q)'
    BY <1>2, <1>5, <2>2, <2>4, <2>5, <2>6, <2>7 DEF StoppingRun
  <2> QED BY <1>5, <2>4, <2>8, StoppingBecomes
<1>10. CASE Finish(1)
  <2>1. /\ r.phase \in {"executing", "settling"} /\ (r.phase = "executing" => Unfinished(r) = {})
        /\ UNCHANGED <<plan, probe, completed, commits, started>>
    BY <1>1, <1>10 DEF Finish
  <2>2. r.task[Primary] = "stopped" /\ r.stop # "no" /\ r.stop = StopOf(s)
    BY <1>2, <1>6, <1>7, <2>1 DEF StoppingRun
  <2>3. Outcomes(r) = {r.stop}
    <3>1. Ambiguous(r) = {} /\ \E a \in Actions : r.task[a] = "stopped"
      BY <1>3, <1>7, <2>1, <2>2
    <3>2. OwnOutcome(r) = {}
      BY <3>1 DEF OwnOutcome
    <3> QED BY <2>2, <3>2 DEF Outcomes
  <2>4. PICK q : q = Ended(r, r.stop)
    OBVIOUS
  <2>5. Becomes(1, q)
    BY <1>1, <1>10, <2>3, <2>4 DEF Finish
  <2>6. q.phase = "done" /\ q.status = r.stop /\ q.stop = r.stop /\ q.task = r.task
    BY <1>2, <2>4 DEF Ended, Run
  <2>7. StoppingRun(s, k, q)'
    BY <1>2, <2>1, <2>2, <2>6 DEF StoppingRun
  <2> QED BY <1>5, <2>1, <2>5, <2>7, StoppingBecomes
<1>11. CASE \E a \in Actions : Effect(1, a)
  <2>1. PICK a \in Actions : Effect(1, a)
    BY <1>11
  <2>2. a = Primary /\ r.phase = "executing" /\ r.task[Primary] = "ready"
    BY <1>1, <1>2, <1>3, <1>5, <2>1 DEF Effect, StoppingRun
  <2>3. PICK q : q = [r EXCEPT !.task[Primary] = "blocked"]
    OBVIOUS
  <2>4. Becomes(1, q) /\ UNCHANGED <<plan, probe, completed, commits>> /\ started' = TRUE
    BY <1>1, <1>5, <2>1, <2>2, <2>3 DEF Effect
  <2>5. /\ q.phase = r.phase /\ q.status = r.status /\ q.stop = r.stop
        /\ q.task[Primary] = "blocked" /\ q.task[Sibling] = r.task[Sibling]
    BY <1>2, <1>3, <2>3 DEF Run
  <2>6. StoppingRun(s, k, q)'
    BY <1>2, <1>5, <2>2, <2>5 DEF StoppingRun
  <2> QED BY <1>5, <2>4, <2>6, StoppingBecomes
<1>12. CASE TimesOut(1)
  <2>1. PICK q : q = [r EXCEPT !.stop = "timed_out"]
    OBVIOUS
  <2>2. /\ s = "timeout" /\ r.phase \notin {"created", "done"} /\ r.stop = "no" /\ Becomes(1, q)
        /\ UNCHANGED <<plan, probe, completed, commits, started>>
    BY <1>1, <1>4, <1>12, <2>1 DEF TimesOut
  <2>3. /\ q.phase = r.phase /\ q.status = r.status /\ q.stop = "timed_out" /\ q.task = r.task
    BY <1>2, <2>1 DEF Run
  <2>4. StoppingRun(s, k, q)'
    BY <1>2, <1>5, <2>2, <2>3 DEF StoppingRun, StopOf
  <2> QED BY <1>5, <2>2, <2>4, StoppingBecomes
<1>13. ~Resolve(1)
  BY <1>1, <1>2 DEF Resolve, StoppingRun
<1> QED BY <1>2, <1>8, <1>9, <1>10, <1>11, <1>12, <1>13 DEF Steps

LEMMA StoppingWaits ==
  ASSUME RunsInv, NEW s \in Stopping, NEW k, NEW l, StoppingInv(s, k),
         UNCHANGED <<plan, runs, completed, commits, started>>, probe'.lose = probe.lose,
         probe'.released => l = ReleasedAt(s), runs[1].phase # "created",
         l \geq ReleasedAt(s) - 1 => runs[1].phase = "done",
         s = "cancellation" => (l \leq 2 <=> k \leq 2)
  PROVE  StoppingInv(s, l)'
<1>1. PICK r : r = runs[1]
  OBVIOUS
<1>2. StoppingRun(s, k, r) /\ runs'[1] = r
  BY <1>1 DEF StoppingInv
<1>3. StoppingRun(s, l, r)'
  BY <1>1, <1>2 DEF StoppingRun
<1>4. StoppingRun(s, l, runs[1])'
  BY <1>2, <1>3 DEF StoppingRun
<1> QED BY <1>4 DEF StoppingInv

LEMMA StoppingCancels ==
  ASSUME RunsInv, NEW s, s = "cancellation", NEW k, k = 2, StoppingInv(s, k), Cancel(1)
  PROVE  StoppingInv(s, 3)'
<1>1. PICK r : r = runs[1]
  OBVIOUS
<1>2. /\ 1 \in 1..Len(runs) /\ r \in Run /\ StoppingRun(s, 2, r) /\ plan = PlanOf(s)
      /\ s \in Stopping
  BY <1>1, OnlyRun DEF StoppingInv, Stopping
<1>3. /\ r.stop = "no" /\ r.phase = "executing" /\ r.task[Primary] \in {"ready", "blocked"}
      /\ r.task[Sibling] = "none"
  BY <1>2 DEF StoppingRun
<1>4. ~plan.timed
  BY <1>2, OtherPlans
<1>5. PICK t : t = [r EXCEPT !.stop = "cancelled"]
  OBVIOUS
<1>6. /\ t \in Run /\ t.phase = "executing" /\ t.stop = "cancelled" /\ t.task = r.task
  BY <1>2, <1>3, <1>5 DEF Run
<1>7. /\ Primary \in Actions /\ Sibling \in Actions /\ Primary # Sibling
      /\ Actions = {Primary, Sibling}
  BY TwoActions, HarnessAssumption
<1>8. Ambiguous(t) = {} /\ Primary \in Unfinished(t) /\ Sibling \notin Unfinished(t)
  BY <1>3, <1>6, <1>7 DEF Ambiguous, Unfinished
<1>9. PICK q : q = Fenced(t)
  OBVIOUS
<1>10. Becomes(1, q) /\ UNCHANGED <<plan, probe, completed, commits, started>>
  BY <1>1, <1>3, <1>4, <1>5, <1>6, <1>8, <1>9 DEF Cancel
<1>11. /\ q.phase = "executing" /\ q.stop = "cancelled" /\ q.task[Primary] = "stopped"
       /\ q.task[Sibling] = "none"
  BY <1>3, <1>6, <1>7, <1>8, <1>9, FencedRun
<1>12. StoppingRun(s, 3, q)'
  BY <1>11 DEF StoppingRun, StopOf, ReleasedAt
<1>13. ~probe'.released
  BY <1>10 DEF StoppingInv, ReleasedAt
<1> QED BY <1>10, <1>12, <1>13, StoppingBecomes

LEMMA StoppingCall ==
  ASSUME RunsInv, DataInv, NEW s \in Stopping, NEW k \in 1..Len(Script[s]), StoppingInv(s, k),
         Calls(Script[s][k][1])
  PROVE  /\ k < Len(Script[s]) => StoppingInv(s, k + 1)'
         /\ Expected(Script[s][k][2])
<1>1. PICK op, e : op = Script[s][k][1] /\ e = Script[s][k][2]
  OBVIOUS
<1>2. /\ Calls(op) /\ k \in 1..ReleasedAt(s) /\ Len(Script[s]) = ReleasedAt(s)
      /\ k = 1 => op = "started" /\ e = "any"
      /\ k = 2 /\ s = "cancellation" => op = "cancel" /\ e = "any"
      /\ k = ReleasedAt(s) - 2 => op = "outcome" /\ e = "any"
      /\ k = ReleasedAt(s) - 1 => op = "release" /\ e = "any"
      /\ k = ReleasedAt(s) => op = "settle" /\ e = StopOf(s)
  BY <1>1, StoppingCalls DEF Is
<1>3. ReleasedAt(s) = IF s = "cancellation" THEN 5 ELSE 4
  BY DEF ReleasedAt
<1>4. Len(runs) = 1 /\ Current = 1 /\ StoppingRun(s, k, runs[1])
  BY OnlyRun DEF StoppingInv
<1>5. CASE k = 1
  <2>1. started /\ UNCHANGED adapterVars
    BY <1>2, <1>5 DEF Calls
  <2>2. runs[1].phase # "created"
    BY <1>4, <2>1 DEF StoppingRun
  <2>3. ~probe.released
    BY <1>3, <1>5 DEF StoppingInv
  <2>4. StoppingInv(s, 2)'
    BY <1>3, <1>5, <2>1, <2>2, <2>3, StoppingWaits DEF adapterVars
  <2> QED BY <1>1, <1>2, <1>5, <2>4, ExpectedMeans
<1>6. CASE k = 2 /\ s = "cancellation"
  <2>1. Cancel(1)
    BY <1>2, <1>4, <1>6 DEF Calls
  <2>2. StoppingInv(s, 3)'
    BY <1>6, <2>1, StoppingCancels
  <2> QED BY <1>1, <1>2, <1>6, <2>2, ExpectedMeans
<1>7. CASE k = ReleasedAt(s) - 2
  <2>1. UNCHANGED adapterVars /\ runs[1].phase = "done"
    BY <1>2, <1>4, <1>7, WaitingCalls
  <2>2. ~probe.released
    BY <1>3, <1>7 DEF StoppingInv
  <2>3. StoppingInv(s, k + 1)'
    BY <1>3, <1>7, <2>1, <2>2, StoppingWaits DEF adapterVars
  <2> QED BY <1>1, <1>2, <1>7, <2>3, ExpectedMeans
<1>8. CASE k = ReleasedAt(s) - 1
  <2>1. /\ probe' = [probe EXCEPT !.released = TRUE]
        /\ UNCHANGED <<plan, runs, completed, commits, started>>
    BY <1>2, <1>8 DEF Calls, Release
  <2>2. probe'.lose = probe.lose
    BY <2>1 DEF DataInv
  <2>3. runs[1].phase = "done"
    BY <1>3, <1>4, <1>8 DEF StoppingRun
  <2>4. StoppingInv(s, k + 1)'
    BY <1>3, <1>8, <2>1, <2>2, <2>3, StoppingWaits
  <2> QED BY <1>1, <1>2, <1>8, <2>4, ExpectedMeans
<1>9. CASE k = ReleasedAt(s)
  <2>1. UNCHANGED adapterVars
    BY <1>2, <1>9, WaitingCalls
  <2>2. runs[1].phase = "done" /\ runs[1].status = StopOf(s)
    BY <1>3, <1>4, <1>9 DEF StoppingRun
  <2>3. Total(commits) = 0
    <3>1. commits[Primary] = <<>> /\ commits[Sibling] = <<>>
      BY TwoActions DEF StoppingInv
    <3> QED BY <3>1 DEF Total
  <2>4. runs'[Len(runs')].status = StopOf(s) /\ Total(commits') = 0
    BY <1>4, <2>1, <2>2, <2>3 DEF adapterVars
  <2>5. Expected(e)
    <3>1. e = StopOf(s) /\ StopOf(s) \in {"cancelled", "timed_out"}
      BY <1>2, <1>9 DEF StopOf
    <3> QED BY <2>4, <3>1, ExpectedMeans
  <2> QED BY <1>1, <1>2, <1>3, <1>9, <2>5
<1>10. \/ k = 1 \/ (k = 2 /\ s = "cancellation") \/ k = ReleasedAt(s) - 2
       \/ k = ReleasedAt(s) - 1 \/ k = ReleasedAt(s)
  BY <1>2, <1>3
<1> QED BY <1>5, <1>6, <1>7, <1>8, <1>9, <1>10

-------------------------------------------------------------------------------
(* All scenarios.                                                          *)

ScenariosBegin ==
  \A s \in ToSet(Scenarios) : Begin(PlanOf(s), LosesOf(s)) => ScenarioInv(s, 1)

LEMMA ScenariosBeginSoundly == ScenariosBegin
<1> SUFFICES ASSUME NEW s \in ToSet(Scenarios), Begin(PlanOf(s), LosesOf(s))
             PROVE  ScenarioInv(s, 1)
  BY DEF ScenariosBegin
<1>1. /\ plan = PlanOf(s) /\ probe = [released |-> ~PlanOf(s).block, lose |-> LosesOf(s)]
      /\ runs = <<NewRun>> /\ completed = {} /\ commits = [a \in Actions |-> <<>>]
      /\ started = FALSE /\ receipts = <<RunEvent("run_started")>>
  BY DEF Begin, Begun, NewProbe
<1>2. PICK r : r = NewRun
  OBVIOUS
<1>3. /\ r.phase = "created" /\ r.stop = "no" /\ r.status = "none"
      /\ \A a \in Actions : r.task[a] = "none" /\ r.decision[a] = "none" /\ r.evidence[a] = "none"
  BY <1>2 DEF NewRun
<1>4. Len(runs) = 1 /\ runs[1] = r
  BY <1>1, <1>2
<1>5. \A a \in Actions : commits[a] = <<>>
  BY <1>1
<1>6. Primary \in Actions /\ Sibling \in Actions
  BY TwoActions
<1>7. ASSUME s \in Approving PROVE ApprovingInv(s, 1)
  <2>1. LosesOf(s) = "no" /\ ~PlanOf(s).block
    BY <1>7, ApprovingPlan DEF LosesOf, Approving
  <2>2. probe = [released |-> TRUE, lose |-> "no"]
    BY <1>1, <2>1
  <2>3. ApprovingRun(s, 1, r)
    BY <1>1, <1>3, <1>5 DEF ApprovingRun
  <2> QED BY <1>1, <1>4, <2>2, <2>3 DEF ApprovingInv
<1>8. ASSUME s = "audit_receipts" PROVE TrailInv(1)
  <2>1. Primary # Sibling
    BY HarnessAssumption
  <2>2. receipts = TrailBefore(Primary, Sibling, 1, runs[1].phase)
    BY <1>1, <1>3, <1>4 DEF TrailBefore
  <2> QED BY <1>6, <2>1, <2>2 DEF TrailInv
<1>9. ASSUME s \in Trying PROVE TryingInv(s, 1)
  <2>1. ~PlanOf(s).block
    BY <1>9, OtherPlans DEF Trying, Stopping
  <2>2. TryRun(r, LosesOf(s))
    BY <1>1, <1>3, <1>5, <1>6 DEF TryRun
  <2>3. probe.released /\ commits[Sibling] = <<>> /\ plan = PlanOf(s)
    BY <1>1, <1>5, <1>6, <2>1
  <2>4. TryRun(runs[1], LosesOf(s))
    BY <1>4, <2>2
  <2> QED BY <1>4, <2>3, <2>4 DEF TryingInv
<1>10. ASSUME s \in Stopping PROVE StoppingInv(s, 1)
  <2>1. LosesOf(s) = "no" /\ PlanOf(s).block
    BY <1>10, OtherPlans DEF LosesOf, Stopping
  <2>2. StoppingRun(s, 1, r)
    BY <1>1, <1>3, <1>6 DEF StoppingRun, ReleasedAt
  <2> QED BY <1>1, <1>4, <1>5, <2>1, <2>2 DEF StoppingInv
<1> QED BY <1>7, <1>8, <1>9, <1>10 DEF ScenarioInv

LEMMA ScenarioSteps ==
  ASSUME RunsInv, DataInv, NEW s \in ToSet(Scenarios), NEW k \in 1..Len(Script[s]),
         ScenarioInv(s, k), Steps
  PROVE  ScenarioInv(s, k)'
<1>1. s \in Approving => ApprovingInv(s, k)'
  BY ApprovingSteps DEF ScenarioInv
<1>2. s = "audit_receipts" => TrailInv(k)'
  <2> HAVE s = "audit_receipts"
  <2>1. s \in Approving
    BY DEF Approving
  <2>2. k \in 1..5
    BY <2>1, ApprovingCalls
  <2> QED BY <2>1, <2>2, TrailSteps DEF ScenarioInv
<1>3. s \in Trying => TryingInv(s, k)'
  BY TryingSteps DEF ScenarioInv
<1>4. s \in Stopping => StoppingInv(s, k)'
  BY StoppingSteps DEF ScenarioInv
<1> QED BY <1>1, <1>2, <1>3, <1>4 DEF ScenarioInv

LEMMA ScenarioCall ==
  ASSUME RunsInv, DataInv, NEW s \in ToSet(Scenarios), NEW k \in 1..Len(Script[s]),
         ScenarioInv(s, k), Calls(Script[s][k][1])
  PROVE  /\ k < Len(Script[s]) => ScenarioInv(s, k + 1)'
         /\ Expected(Script[s][k][2])
<1>1. CASE s \in Approving
  <2>1. ApprovingInv(s, k) /\ (s = "audit_receipts" => TrailInv(k))
    BY <1>1 DEF ScenarioInv
  <2>2. ApprovingInv(s, k + 1)' /\ Expected(Script[s][k][2])
    BY <1>1, <2>1, ApprovingCall, ApprovingExpected
  <2>3. ASSUME s = "audit_receipts", k < Len(Script[s])
        PROVE  TrailInv(k + 1)'
    <3>1. Script[s] = AuditReceipts /\ Len(Script[s]) = 4
      BY <2>3, ScriptNames, AuditReceiptsCalls
    <3>2. k \in 1..3
      BY <2>3, <3>1
    <3>3. Calls(AuditReceipts[k][1])
      BY <3>1
    <3> QED BY <2>1, <2>3, <3>2, <3>3, TrailCall
  <2>4. s \notin Trying /\ s \notin Stopping
    BY <1>1, Families
  <2> QED BY <2>2, <2>3, <2>4 DEF ScenarioInv
<1>2. CASE s \in Trying
  <2>1. s \notin Approving /\ s \notin Stopping /\ s # "audit_receipts"
    BY <1>2, Families DEF Trying
  <2>2. /\ k < Len(Script[s]) => TryingInv(s, k + 1)'
        /\ Expected(Script[s][k][2])
    BY <1>2, TryingCall DEF ScenarioInv
  <2> QED BY <2>1, <2>2 DEF ScenarioInv
<1>3. CASE s \in Stopping
  <2>1. s \notin Approving /\ s \notin Trying /\ s # "audit_receipts"
    BY <1>3, Families DEF Stopping
  <2>2. /\ k < Len(Script[s]) => StoppingInv(s, k + 1)'
        /\ Expected(Script[s][k][2])
    BY <1>3, StoppingCall DEF ScenarioInv
  <2> QED BY <2>1, <2>2 DEF ScenarioInv
<1> QED BY <1>1, <1>2, <1>3, Families

(* Only timeout waits for the start of an effect that may never come.      *)
LEMMA OnlyTimeoutGivesUp ==
  ASSUME RunsInv, NEW s \in ToSet(Scenarios), NEW k \in 1..Len(Script[s]),
         ScenarioInv(s, k), Script[s][k][1] = "started", Done(Current)
  PROVE  s = "timeout"
<1>1. s \notin Approving
  <2> SUFFICES ASSUME s \in Approving PROVE FALSE
    OBVIOUS
  <2>1. DecisionIn(s) # "started"
    BY DEF DecisionIn
  <2> QED BY <2>1, ApprovingCalls
<1>2. s \notin Trying
  <2> SUFFICES ASSUME s \in Trying PROVE FALSE
    OBVIOUS
  <2>1. k \in {1, 2, 3, 4}
    BY TryingCalls
  <2>2. CASE s \in Twice
    BY <2>1, <2>2, TryingCalls DEF Is
  <2>3. CASE s \in {"reconcile_committed", "reconcile_not_committed"}
    BY <2>1, <2>3, TryingCalls DEF Is
  <2>4. CASE s = "reconcile_conflict"
    BY <2>1, <2>4, TryingCalls DEF Is
  <2>5. CASE s = "reconcile_unavailable"
    BY <2>1, <2>5, TryingCalls DEF Is
  <2> QED BY <2>2, <2>3, <2>4, <2>5 DEF Trying, Twice
<1>3. s # "cancellation"
  <2> SUFFICES ASSUME s = "cancellation" PROVE FALSE
    OBVIOUS
  <2>1. s \in Stopping /\ ReleasedAt(s) = 5
    BY DEF Stopping, ReleasedAt
  <2>2. k \in {1, 2, 3, 4, 5}
    BY <2>1, StoppingCalls
  <2>3. k = 1
    BY <2>1, <2>2, StoppingCalls DEF Is, StopOf
  <2>4. runs[1].stop = "no" /\ (runs[1].phase = "done" => runs[1].stop # "no")
    BY <2>1, <2>3 DEF ScenarioInv, StoppingInv, StoppingRun
  <2>5. Current = 1
    BY <2>1, OnlyRun DEF ScenarioInv, StoppingInv
  <2> QED BY <2>4, <2>5 DEF Done
<1> QED BY <1>1, <1>2, <1>3, Families DEF Stopping

LEMMA ResultAt ==
  ASSUME SuiteInv, NEW s, NEW verdict, Result(s, verdict)
  PROVE  /\ suite'.declared = suite.declared
         /\ \A t \in ToSet(Scenarios) :
              suite'.results[t] = IF t = s THEN verdict ELSE suite.results[t]
<1>1. PICK f : f = [suite.results EXCEPT ![s] = verdict]
  OBVIOUS
<1>2. \A t \in ToSet(Scenarios) : f[t] = IF t = s THEN verdict ELSE suite.results[t]
  BY <1>1 DEF SuiteInv
<1>3. suite' = [suite EXCEPT !.results = f]
  BY <1>1 DEF Result
<1>4. suite'.declared = suite.declared /\ suite'.results = f
  BY <1>3 DEF SuiteInv
<1> QED BY <1>2, <1>4

LEMMA ResultsKept ==
  ASSUME SuiteInv, ResultsInv, NEW s, NEW verdict, Result(s, verdict),
         verdict # "failed", verdict = "error" => s = "timeout",
         verdict = "skipped" => s \notin suite.declared
  PROVE  ResultsInv'
BY ResultAt DEF ResultsInv

(* The scenarios, their results and the harness.                           *)
ScenariosInv == HarnessInv /\ ScriptInv /\ ResultsInv

LEMMA NoScenario == \A k : ScenarioInv("none", k) /\ ScenarioInv("free", k)
BY DEF ScenarioInv, Approving, Trying, Stopping

LEMMA ScriptInvAt ==
  ASSUME NEW s, NEW k, at' = [name |-> s, step |-> k], ScenarioInv(s, k)'
  PROVE  ScriptInv'
<1>1. at'.name = s /\ at'.step = k
  OBVIOUS
<1> QED BY <1>1 DEF ScriptInv, ScenarioInv, ApprovingInv, ApprovingRun, TrailInv, TryingInv,
                    StoppingInv, StoppingRun

LEMMA ScriptStepPasses ==
  ASSUME HarnessInv, ScriptInv, ResultsInv, ScriptStep
  PROVE  ScriptInv' /\ ResultsInv'
<1>1. PICK script, n, s : script = Script[at.name] /\ n = at.step /\ s = at.name
  OBVIOUS
<1>2. /\ s \in ToSet(Scenarios) /\ n \in 1..Len(script) /\ Len(script) \in 1..5
      /\ at = [name |-> s, step |-> n] /\ script = Script[s]
  <2>1. s \in ToSet(Scenarios)
    BY <1>1 DEF ScriptStep, HarnessInv, SuiteInv
  <2>2. Sound(script)
    BY <1>1, <2>1, ScriptCalls
  <2> QED BY <1>1, <2>1, <2>2 DEF Sound, HarnessInv, SuiteInv
<1>3. Calls(script[n][1]) /\ ScenarioInv(s, n)
  BY <1>1 DEF ScriptStep, ScriptInv
<1>4. /\ n < Len(script) => ScenarioInv(s, n + 1)'
      /\ Expected(script[n][2])
  BY <1>2, <1>3, ScenarioCall DEF HarnessInv
<1>5. CASE Over(s, "passed")
  <2>1. at' = [name |-> "none", step |-> 1]
    BY <1>5 DEF Over
  <2>2. ScenarioInv("none", 1)'
    BY NoScenario DEF ScenarioInv, Approving, Trying, Stopping
  <2>3. ResultsInv'
    BY <1>5, ResultsKept DEF Over, HarnessInv
  <2> QED BY <2>1, <2>2, <2>3, ScriptInvAt
<1>6. CASE n # Len(script) /\ at' = [at EXCEPT !.step = @ + 1] /\ UNCHANGED suite
  <2>1. at' = [name |-> s, step |-> n + 1] /\ n < Len(script)
    BY <1>2, <1>6
  <2>2. ScenarioInv(s, n + 1)'
    BY <1>4, <2>1
  <2>3. ScriptInv'
    BY <2>1, <2>2, ScriptInvAt
  <2> QED BY <1>6, <2>3 DEF ResultsInv
<1> QED BY <1>1, <1>4, <1>5, <1>6 DEF ScriptStep

LEMMA ScenariosStep == ScenariosInv /\ [Next]_vars => ScenariosInv'
<1> SUFFICES ASSUME ScenariosInv, [Next]_vars PROVE ScenariosInv'
  OBVIOUS
<1>1. HarnessInv'
  BY HarnessStep DEF ScenariosInv
<1>2. HarnessInv /\ RunsInv /\ DataInv /\ SuiteInv /\ ScriptInv /\ ResultsInv
  BY DEF ScenariosInv, HarnessInv
<1>3. PICK s, k : s = at.name /\ k = at.step
  OBVIOUS
<1>4. /\ at = [name |-> s, step |-> k] /\ ScenarioInv(s, k)
      /\ s \in ToSet(Scenarios) \cup {"free", "none"}
      /\ s \in ToSet(Scenarios) => k \in 1..Len(Script[s])
  <2>1. at = [name |-> s, step |-> k] /\ s \in ToSet(Scenarios) \cup {"free", "none"}
        /\ k \in 1..6 /\ ScenarioInv(s, k)
    BY <1>2, <1>3 DEF SuiteInv, ScriptInv
  <2>2. ASSUME s \in ToSet(Scenarios) PROVE k \in 1..Len(Script[s])
    <3>1. k \leq Len(Script[s])
      BY <1>2, <1>3, <2>2 DEF SuiteInv
    <3>2. Len(Script[s]) \in 1..5
      BY <2>2, ScriptCalls DEF Sound
    <3> QED BY <2>1, <3>1, <3>2
  <2> QED BY <2>1, <2>2
<1>5. ASSUME UNCHANGED suite PROVE ResultsInv'
  BY <1>2, <1>5 DEF ResultsInv
<1>6. ASSUME s \in {"free", "none"}, UNCHANGED at PROVE ScriptInv'
  <2>1. ScenarioInv(s, k)'
    BY <1>6 DEF ScenarioInv, Approving, Trying, Stopping
  <2> QED BY <1>4, <1>6, <2>1, ScriptInvAt
<1>7. CASE at.name # "none" /\ Steps /\ UNCHANGED <<suite, at>>
  <2>1. CASE s \in ToSet(Scenarios)
    <3>1. ScenarioInv(s, k)'
      BY <1>2, <1>4, <1>7, <2>1, ScenarioSteps
    <3>2. ScriptInv'
      BY <1>4, <1>7, <3>1, ScriptInvAt
    <3> QED BY <1>1, <1>5, <1>7, <3>2 DEF ScenariosInv
  <2>2. CASE s \notin ToSet(Scenarios)
    BY <1>1, <1>4, <1>5, <1>6, <1>7, <2>2 DEF ScenariosInv
  <2> QED BY <2>1, <2>2
<1>8. CASE ScriptStep
  BY <1>1, <1>2, <1>8, ScriptStepPasses DEF ScenariosInv
<1>9. CASE GivesUp
  <2>1. s \in ToSet(Scenarios) /\ Script[s][k][1] = "started" /\ Done(Current)
        /\ Over(s, "error")
    BY <1>3, <1>4, <1>9 DEF GivesUp
  <2>2. s = "timeout"
    BY <1>2, <1>4, <2>1, OnlyTimeoutGivesUp
  <2>3. ResultsInv'
    BY <1>2, <2>1, <2>2, ResultsKept DEF Over
  <2>4. at' = [name |-> "none", step |-> 1]
    BY <2>1 DEF Over
  <2>5. ScenarioInv("none", 1)'
    BY DEF ScenarioInv, Approving, Trying, Stopping
  <2> QED BY <1>1, <2>3, <2>4, <2>5, ScriptInvAt DEF ScenariosInv
<1>10. CASE Skip
  <2>1. ResultsInv'
    BY <1>2, <1>10, ResultsKept DEF Skip
  <2> QED BY <1>1, <1>3, <1>6, <1>10, <2>1 DEF Skip, ScenariosInv
<1>11. CASE StartScenario
  <2>1. PICK t : t = Upcoming
    OBVIOUS
  <2>2. t \in ToSet(Scenarios) /\ UNCHANGED suite /\ at' = [name |-> t, step |-> 1]
    BY <1>11, <2>1, UpcomingName DEF StartScenario
  <2>3. Begin(PlanOf(t), LosesOf(t))'
    BY <1>11, <2>1 DEF StartScenario, Begin
  <2>4. ScenariosBegin'
    BY ScenariosBeginSoundly, PTL
  <2>5. ScenarioInv(t, 1)'
    BY <2>2, <2>3, <2>4 DEF ScenariosBegin
  <2>6. ScriptInv'
    BY <2>2, <2>5, ScriptInvAt
  <2> QED BY <1>1, <1>5, <2>2, <2>6 DEF ScenariosInv
<1>12. CASE FreeCall
  BY <1>1, <1>3, <1>5, <1>6, <1>12 DEF FreeCall, ScenariosInv
<1>13. CASE UNCHANGED vars
  <2>1. CASE s \in ToSet(Scenarios)
    <3>1. ScenarioInv(s, k)'
      BY <1>4, <1>13 DEF vars, adapterVars, ScenarioInv, ApprovingInv, ApprovingRun, Resolved,
         Executable, Allowed, ArgumentsOf, TrailInv, TryingInv, TryRun, RepeatRun,
         StoppingInv, StoppingRun
    <3>2. ScriptInv'
      BY <1>4, <1>13, <3>1, ScriptInvAt DEF vars
    <3> QED BY <1>1, <1>5, <1>13, <3>2 DEF vars, ScenariosInv
  <2>2. CASE s \notin ToSet(Scenarios)
    BY <1>1, <1>4, <1>5, <1>6, <1>13, <2>2 DEF vars, ScenariosInv
  <2> QED BY <2>1, <2>2
<1> QED BY <1>7, <1>8, <1>9, <1>10, <1>11, <1>12, <1>13 DEF Next, AtRest

LEMMA ScenariosInit == Init => ScenariosInv
<1> SUFFICES ASSUME Init PROVE ScenariosInv
  OBVIOUS
<1>1. HarnessInv
  BY HarnessInit
<1>2. at.name \in {"none", "free"}
  BY DEF Init
<1>3. ScriptInv
  BY <1>2, NoScenario DEF ScriptInv
<1>4. suite.results = [s \in ToSet(Scenarios) |-> "none"]
  BY DEF Init
<1>5. ResultsInv
  BY <1>4 DEF ResultsInv
<1> QED BY <1>1, <1>3, <1>5 DEF ScenariosInv

(* runner.py and scenarios.py against adapters/reference.py: whatever the  *)
(* order of the event loop's tasks and whichever capabilities are          *)
(* declared, no expectation of a scenario is missed, only timeout can end  *)
(* in an error, and a suite without one that declares everything passes    *)
(* under both profiles, strict or not (the executable contract of          *)
(* docs/adapters.md).                                                      *)
THEOREM ScenariosAlwaysPass == Spec => []ScenariosPass
<1>1. ScenariosInv => ScenariosPass
  <2> SUFFICES ASSUME ScenariosInv PROVE ScenariosPass
    OBVIOUS
  <2>1. \A s \in ToSet(Scenarios) :
          /\ suite.results[s] # "failed"
          /\ suite.results[s] = "error" => s = "timeout"
          /\ suite.results[s] = "skipped" => s \notin suite.declared
    BY DEF ScenariosInv, ResultsInv
  <2>2. ASSUME suite.declared = ToSet(Scenarios), suite.results["timeout"] # "error"
        PROVE  Passed
    BY <2>1, <2>2 DEF Passed
  <2> QED BY <2>1, <2>2 DEF ScenariosPass
<1> QED BY <1>1, ScenariosInit, ScenariosStep, PTL DEF Spec
===============================================================================
