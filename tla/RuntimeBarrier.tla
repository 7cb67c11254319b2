---------------------------- MODULE RuntimeBarrier ----------------------------
(***************************************************************************)
(* RuntimeBarrier.execute and execute_async (runtime/barrier.py) over the  *)
(* durable store: concurrent calls that prepare, claim, run the protected  *)
(* operation and record its outcome, each store call a transaction of its  *)
(* own, with crashes and store failures between and during them.           *)
(*                                                                         *)
(* The protected operation is outside the repository.  It is a request to  *)
(* some provider that takes effect at one moment, or never; an exception   *)
(* or a crash on the caller's side does not stop it from taking effect     *)
(* later.                                                                  *)
(*                                                                         *)
(* Definitions named Wrong... are not part of the model: each is the       *)
(* definition after it with one plausible mistake, kept to show which      *)
(* property notices the mistake.                                           *)
(***************************************************************************)
EXTENDS RuntimeStore

CONSTANTS
  Calls,           \* invocations of execute
  NoRequest        \* a call that has not been made

ASSUME CallsAssumption == NoRequest \notin Requests

VARIABLES
  pc,              \* where each call is
  request,         \* the exact request of each call
  operation,       \* the protected operation each call launched
  produced,        \* the result its operation returned, until recorded
  returned         \* the result each call gave to its caller

callVars == <<pc, request, operation, produced, returned>>
vars == <<storeVars, callVars>>

Stage == {"idle",        \* not called yet
          "prepared",    \* submit returned the action
          "operating",   \* claim returned EXECUTE; operation() is running
          "completing",  \* operation() returned; store.complete is next
          "failing",     \* an exception; store.mark_unknown is next
          "returned",    \* a value was returned to the caller
          "raised",      \* an exception was raised to the caller
          "crashed"}     \* the process is gone

Operation == {"none", "inflight", "committed", "void"}

BarrierTypeOK ==
  /\ TypeOK
  /\ pc \in [Calls -> Stage]
  /\ request \in [Calls -> Requests \cup {NoRequest}]
  /\ operation \in [Calls -> Operation]
  /\ produced \in [Calls -> Results \cup {NoResult}]
  /\ returned \in [Calls -> Results \cup {NoResult}]

BarrierInit ==
  /\ Init
  /\ pc = [c \in Calls |-> "idle"]
  /\ request = [c \in Calls |-> NoRequest]
  /\ operation = [c \in Calls |-> "none"]
  /\ produced = [c \in Calls |-> NoResult]
  /\ returned = [c \in Calls |-> NoResult]

Goto(c, from, to) == pc[c] = from /\ pc' = [pc EXCEPT ![c] = to]

(* A store call that raises: it was rejected or the database was not       *)
(* reachable, and nothing changed, or the connection failed after Step was *)
(* committed and the caller cannot know.                                   *)
Raises(Step) == Step \/ UNCHANGED storeVars

-----------------------------------------------------------------------------
(* _prepare_request: policy evaluation and submit.                         *)

Prepare(c, r, now) ==
  /\ Goto(c, "idle", "prepared")
  /\ request' = [request EXCEPT ![c] = r]
  /\ Submit(r, now)
  /\ UNCHANGED <<operation, produced, returned>>

PrepareRaises(c, r, now) ==
  /\ Goto(c, "idle", "raised")
  /\ request' = [request EXCEPT ![c] = r]
  /\ Raises(Submit(r, now))
  /\ UNCHANGED <<operation, produced, returned>>

-----------------------------------------------------------------------------
(* store.claim and what execute makes of its answer.                       *)

ClaimExecute(c, now) ==
  /\ Goto(c, "prepared", "operating")
  /\ ClaimStart(request[c], now)
  /\ operation' = [operation EXCEPT ![c] = "inflight"]
  /\ UNCHANGED <<request, produced, returned>>

(* Wrong: the caller is given the whole row, not its result.               *)
WrongReturnReplay(c) ==
  /\ Goto(c, "prepared", "returned")
  /\ ClaimReplay(request[c])
  /\ returned' = [returned EXCEPT ![c] = actions[KeyOf(request[c])]]
  /\ UNCHANGED <<request, operation, produced>>

ReturnReplay(c) ==
  /\ Goto(c, "prepared", "returned")
  /\ ClaimReplay(request[c])
  /\ returned' = [returned EXCEPT ![c] = actions[KeyOf(request[c])].result]
  /\ UNCHANGED <<request, operation, produced>>

(* Blocked, refused, failed, or claimed by a transaction whose answer was  *)
(* lost: execute raises, and operation() is not called.                    *)
ClaimRaises(c, now) ==
  /\ Goto(c, "prepared", "raised")
  /\ \/ ClaimBlocked(request[c], now)
     \/ Raises(ClaimReplay(request[c]) \/ ClaimStart(request[c], now))
  /\ UNCHANGED <<request, operation, produced, returned>>

-----------------------------------------------------------------------------
(* The protected operation (external).                                     *)

Commit(c) ==
  /\ operation[c] = "inflight"
  /\ operation' = [operation EXCEPT ![c] = "committed"]
  /\ UNCHANGED <<storeVars, pc, request, produced, returned>>

Abort(c) ==
  /\ operation[c] = "inflight"
  /\ operation' = [operation EXCEPT ![c] = "void"]
  /\ UNCHANGED <<storeVars, pc, request, produced, returned>>

OperationReturns(c, result) ==
  /\ Goto(c, "operating", "completing")
  /\ operation[c] = "committed"
  /\ produced' = [produced EXCEPT ![c] = result]
  /\ UNCHANGED <<storeVars, request, operation, returned>>

(* Wrong: a failed operation is completed as if it had returned.           *)
WrongOperationRaises(c) ==
  /\ Goto(c, "operating", "completing")
  /\ UNCHANGED <<storeVars, request, operation, produced, returned>>

OperationRaises(c) ==
  /\ Goto(c, "operating", "failing")
  /\ UNCHANGED <<storeVars, request, operation, produced, returned>>

-----------------------------------------------------------------------------
(* _complete and _record_unknown.                                          *)

(* Wrong: a result that could not be recorded is returned all the same.    *)
WrongReturnResult(c) ==
  /\ Goto(c, "completing", "returned")
  /\ Raises(Complete(request[c], produced[c]))
  /\ returned' = [returned EXCEPT ![c] = produced[c]]
  /\ UNCHANGED <<request, operation, produced>>

ReturnResult(c) ==
  /\ Goto(c, "completing", "returned")
  /\ Complete(request[c], produced[c])
  /\ returned' = [returned EXCEPT ![c] = produced[c]]
  /\ UNCHANGED <<request, operation, produced>>

(* complete raised, or the result was no JSON value: _record_unknown next. *)
CompleteRaises(c) ==
  /\ Goto(c, "completing", "failing")
  /\ Raises(Complete(request[c], produced[c]))
  /\ UNCHANGED <<request, operation, produced, returned>>

(* _record_unknown swallows whatever mark_unknown raises; execute then     *)
(* re-raises the operation's exception, or ActionOutcomeUnknown.           *)
RecordUnknown(c) ==
  /\ Goto(c, "failing", "raised")
  /\ Raises(MarkUnknown(request[c]))
  /\ UNCHANGED <<request, operation, produced, returned>>

Crash(c) ==
  /\ pc[c] \in {"prepared", "operating", "completing", "failing"}
  /\ pc' = [pc EXCEPT ![c] = "crashed"]
  /\ UNCHANGED <<storeVars, request, operation, produced, returned>>

-----------------------------------------------------------------------------
(* Operators reconcile from evidence, as docs/threat-model.md requires:    *)
(* committed if the effect is there, not committed only when no operation  *)
(* launched for the key took effect or still can.                          *)

LaunchedFor(k) == {c \in Calls : request[c] # NoRequest /\ KeyOf(request[c]) = k
                                 /\ operation[c] \in {"inflight", "committed"}}

TookEffect(k) == \E c \in LaunchedFor(k) : operation[c] = "committed"

HonestReconciler ==
  \E k \in Keys, now \in Readings :
    \/ LaunchedFor(k) = {} /\ ReconcileNotCommitted(k, now)
    \/ TookEffect(k) /\ \E result \in Results : ReconcileCommitted(k, result, now)

Environment ==
  /\ Tick \/ Operator \/ Reviewer \/ Reader \/ HonestReconciler
  /\ UNCHANGED callVars

CallStep(c) ==
  \/ \E r \in Requests, now \in Readings : Prepare(c, r, now) \/ PrepareRaises(c, r, now)
  \/ \E now \in Readings : ClaimExecute(c, now) \/ ClaimRaises(c, now)
  \/ ReturnReplay(c)
  \/ Commit(c) \/ Abort(c)
  \/ \E result \in Results : OperationReturns(c, result)
  \/ OperationRaises(c)
  \/ ReturnResult(c) \/ CompleteRaises(c) \/ RecordUnknown(c)
  \/ Crash(c)

BarrierNext == Environment \/ \E c \in Calls : CallStep(c)

BarrierSpec == BarrierInit /\ [][BarrierNext]_vars

(* Fairness: time passes, and something keeps reading the actions: the     *)
(* Slack worker lists them at every poll and the dashboard at every        *)
(* refresh.  Nothing is assumed of calls, reviewers or operators.          *)
FairBarrierSpec ==
  /\ BarrierSpec
  /\ WF_vars(Tick /\ UNCHANGED callVars)
  /\ WF_vars(Reader /\ UNCHANGED callVars)

-----------------------------------------------------------------------------
(* Properties.                                                             *)

(* The protected effect of an idempotency key happens at most once, over   *)
(* all calls, exact requests, crashes, lost answers, expired leases and    *)
(* late workers (docs/runtime.md), as long as operators reconcile from     *)
(* evidence.                                                               *)
EffectAtMostOnce ==
  \A c, d \in Calls :
    (/\ operation[c] = "committed"
     /\ operation[d] = "committed"
     /\ KeyOf(request[c]) = KeyOf(request[d])) => c = d

(* An operation that may still take effect belongs to an action the store  *)
(* shows as executing or unknown, and one that did is on record as such or *)
(* as succeeded: the store never shows an action as open, expired or       *)
(* denied while its effect exists or is under way.                         *)
FailClosed ==
  \A c \in Calls :
    /\ operation[c] = "inflight" =>
         actions[KeyOf(request[c])].status \in {"executing", "unknown"}
    /\ operation[c] = "committed" =>
         actions[KeyOf(request[c])].status \in {"executing", "unknown", "succeeded"}

(* A succeeded action has had its effect, through its exact request.       *)
SucceededTookEffect ==
  \A k \in Keys : Exists(k) /\ actions[k].status = "succeeded" =>
    \E c \in LaunchedFor(k) : operation[c] = "committed" /\ request[c] = actions[k].request

(* Every caller that is given a result is given the one the store keeps,   *)
(* by the call that ran the operation and by every replay alike.           *)
CallersAgree ==
  \A c \in Calls : pc[c] = "returned" =>
    /\ actions[KeyOf(request[c])].status = "succeeded"
    /\ actions[KeyOf(request[c])].request = request[c]
    /\ returned[c] = actions[KeyOf(request[c])].result

(* An execution whose worker crashed, lost its answer or hangs does not    *)
(* stay executing: once its lease is over it is unknown, or was resolved.  *)
AbandonedIsNoticed ==
  \A k \in Keys :
    (Exists(k) /\ actions[k].status = "executing" /\ actions[k].lease <= MaxClock)
      ~> ~(Exists(k) /\ actions[k].status = "executing")

-----------------------------------------------------------------------------
(* Refinement.                                                             *)

PhaseOf(k) ==
  IF ~Exists(k) THEN "open"
  ELSE IF actions[k].status = "succeeded" THEN "settled"
  ELSE IF actions[k].status \in {"executing", "unknown"} THEN "started"
  ELSE "open"

Promise == INSTANCE ProtectedEffect WITH
  Key      <- Keys,
  Caller   <- Calls,
  Answer   <- Results,
  NoAnswer <- NoResult,
  phase    <- [k \in Keys |-> PhaseOf(k)],
  happened <- {k \in Keys : TookEffect(k)},
  answer   <- [k \in Keys |-> IF Exists(k) THEN actions[k].result ELSE NoResult],
  told     <- returned

(* execute over the store keeps the promise of ProtectedEffect.            *)
KeepsPromise == Promise!Spec

=============================================================================
