---------------------------- MODULE WebhookOutbox ----------------------------
(***************************************************************************)
(* The webhook outbox (service/webhooks.py): workers that snapshot the     *)
(* receipts of the runtime store into durable deliveries, claim due ones   *)
(* for the time of a lease, post them to a receiver and record the answer. *)
(* Every store call is a transaction and a step of its own; a worker may   *)
(* die between any two of them, and an exception out of run_once ends it.  *)
(*                                                                         *)
(* Time is two facts of a delivery: whether its retry is due and whether   *)
(* its lease still runs.  The sequence number of a receipt is its place in *)
(* the log.                                                                *)
(*                                                                         *)
(* Definitions named Wrong... are not part of the model: each is the       *)
(* definition after it with one plausible mistake, kept to show which      *)
(* property notices the mistake.                                           *)
(***************************************************************************)
EXTENDS Integers, Sequences, FiniteSets

CONSTANTS
  Endpoints,       \* endpoint ids, as numbers in the order of the ids
  Events,          \* kinds of receipt
  StatusedEvents,  \* the kinds _event_status knows
  Configs,         \* configurations a worker may be started with
  Workers,
  NoWorker,        \* an unclaimed delivery
  NoEndpoint,      \* an endpoint id that was never registered
  NoDelivery,      \* an event without a delivery
  MaxReceipts,     \* bound: receipts in the log
  MaxFaults,       \* bound: crashes, and leases outlived by a live worker
  MaxRetries,      \* bound: manual retries
  MaxClaims        \* bound: claims of a delivery since its last reset

Sequences == 1..MaxReceipts

Setting == [id : Endpoints, events : SUBSET Events, maxAttempts : Nat \ {0},
            startFrom : {"beginning", "latest"}]

ASSUME OutboxAssumption ==
  /\ Endpoints \subseteq Nat
  /\ StatusedEvents \subseteq Events
  /\ \A config \in Configs :
       /\ config \in Seq(Setting) \ {<<>>}
       /\ \A i, j \in DOMAIN config : config[i].id = config[j].id => i = j
  /\ NoWorker \notin Workers
  /\ MaxReceipts \in Nat /\ MaxFaults \in Nat
  /\ MaxRetries \in Nat /\ MaxClaims \in Nat

VARIABLES
  log,             \* the kinds of the runtime store's receipts, in order
  endpoints,       \* table webhook_endpoints
  deliveries,      \* table webhook_deliveries
  worker,          \* where each worker process is, and what it holds
  received,        \* <<endpoint, sequence>> pairs a receiver accepted
  origin,          \* history: the checkpoint an endpoint was registered with
  lost,            \* history: claims of a delivery recovered since its reset
  faults, retries  \* counters of the bounds

tables == <<endpoints, deliveries>>
vars == <<log, endpoints, deliveries, worker, received, origin, lost, faults,
          retries>>

Stage == {"down",         \* not running
          "idle",         \* between two calls of run_once
          "registering",  \* sync_outbox, before register_endpoint
          "enqueueing",   \* sync_outbox, the bodies built, before enqueue
          "claiming",     \* run_once, before claim_due
          "sending",      \* the request is under way
          "accepted",     \* a 2xx answer; mark_delivered is next
          "failing"}      \* another answer or none; mark_failed is next

NoTask == [endpoint |-> 0, sequence |-> 0, attempts |-> 0]

Fresh(stage, config) == [stage |-> stage, config |-> config, observed |-> 0,
                         position |-> 0, checkpoint |-> 0, task |-> NoTask]
Down == Fresh("down", <<>>)

Delivery == [status : {"pending", "delivering", "delivered", "dead"},
             attempts : Nat, due : BOOLEAN, claimedBy : Workers \cup {NoWorker},
             leased : BOOLEAN]

EndpointRow == [config : Setting, checkpoint : Nat]

ASSUME NothingAssumption ==
  NoEndpoint \notin EndpointRow /\ NoDelivery \notin Delivery

WorkerState == [stage : Stage, config : Configs \cup {<<>>}, observed : Nat,
                position : Nat, checkpoint : Nat,
                task : [endpoint : Nat, sequence : Nat, attempts : Nat]]

(* Every variable has its type; a delivery has a claimant exactly while it *)
(* is under way, and a lease only then.                                    *)
TypeOK ==
  /\ log \in Seq(Events) /\ Len(log) \leq MaxReceipts
  /\ endpoints \in [Endpoints -> EndpointRow \cup {NoEndpoint}]
  /\ deliveries \in
       [Endpoints -> [Sequences -> Delivery \cup {NoDelivery}]]
  /\ \A e \in Endpoints, n \in Sequences :
       deliveries[e][n] # NoDelivery =>
         /\ deliveries[e][n].status = "delivering"
              <=> deliveries[e][n].claimedBy # NoWorker
         /\ deliveries[e][n].leased => deliveries[e][n].status = "delivering"
  /\ worker \in [Workers -> WorkerState]
  /\ received \subseteq Endpoints \X Sequences
  /\ origin \in [Endpoints -> Nat]
  /\ lost \in [Endpoints -> [Sequences -> Nat]]
  /\ faults \in 0..MaxFaults /\ retries \in 0..MaxRetries

Init ==
  /\ log = <<>>
  /\ endpoints = [e \in Endpoints |-> NoEndpoint]
  /\ deliveries = [e \in Endpoints |-> [n \in Sequences |-> NoDelivery]]
  /\ worker = [w \in Workers |-> Down]
  /\ received = {}
  /\ origin = [e \in Endpoints |-> 0]
  /\ lost = [e \in Endpoints |-> [n \in Sequences |-> 0]]
  /\ faults = 0 /\ retries = 0

-----------------------------------------------------------------------------
(* The runtime store and the worker's process.                             *)

(* The runtime store records an event; the outbox only reads its receipts. *)
AppendReceipt(event) ==
  /\ Len(log) < MaxReceipts
  /\ log' = Append(log, event)
  /\ UNCHANGED <<tables, worker, received, origin, lost, faults, retries>>

Fall(w) == worker' = [worker EXCEPT ![w] = Down]

Start(w, config) ==
  /\ worker[w].stage = "down"
  /\ worker' = [worker EXCEPT ![w] = Fresh("idle", config)]
  /\ UNCHANGED <<log, tables, received, origin, lost, faults, retries>>

Crash(w) ==
  /\ worker[w].stage # "down"
  /\ faults < MaxFaults
  /\ faults' = faults + 1
  /\ Fall(w)
  /\ UNCHANGED <<log, tables, received, origin, lost, retries>>

-----------------------------------------------------------------------------
(* sync_outbox: one snapshot of the receipts, then register and enqueue    *)
(* for every configured endpoint in turn.                                  *)

Snapshot(w) ==
  /\ worker[w].stage = "idle"
  /\ worker' = [worker EXCEPT ![w] =
       [@ EXCEPT !.stage = "registering", !.observed = Len(log), !.position = 1]]
  /\ UNCHANGED <<log, tables, received, origin, lost, faults, retries>>

Current(w) == worker[w].config[worker[w].position]

Selected(setting, after, observed) ==
  {n \in (after + 1)..observed : log[n] \in setting.events}

RegisterRow(setting, checkpoint) ==
  \/ /\ endpoints[setting.id] # NoEndpoint
     /\ endpoints[setting.id].config = setting
     /\ checkpoint = endpoints[setting.id].checkpoint
     /\ UNCHANGED <<endpoints, origin>>
  \/ /\ endpoints[setting.id] = NoEndpoint
     /\ endpoints' = [endpoints EXCEPT ![setting.id] =
                        [config |-> setting, checkpoint |-> checkpoint]]
     /\ origin' = [origin EXCEPT ![setting.id] = checkpoint]

FirstCheckpoint(setting, observed) ==
  IF endpoints[setting.id] # NoEndpoint THEN endpoints[setting.id].checkpoint
  ELSE IF setting.startFrom = "latest" THEN observed ELSE 0

(* build_webhook_body looks every selected event up in _event_status.      *)
Buildable(setting, after, observed) ==
  \A n \in Selected(setting, after, observed) : log[n] \in StatusedEvents

Register(w) ==
  LET checkpoint == FirstCheckpoint(Current(w), worker[w].observed) IN
  /\ worker[w].stage = "registering"
  /\ RegisterRow(Current(w), checkpoint)
  /\ Buildable(Current(w), checkpoint, worker[w].observed)
  /\ worker' = [worker EXCEPT ![w] =
       [@ EXCEPT !.stage = "enqueueing", !.checkpoint = checkpoint]]
  /\ UNCHANGED <<log, deliveries, received, lost, faults, retries>>

(* The KeyError of _event_status leaves run_once after the registration.   *)
BuildRaises(w) ==
  LET checkpoint == FirstCheckpoint(Current(w), worker[w].observed) IN
  /\ worker[w].stage = "registering"
  /\ RegisterRow(Current(w), checkpoint)
  /\ ~Buildable(Current(w), checkpoint, worker[w].observed)
  /\ Fall(w)
  /\ UNCHANGED <<log, deliveries, received, lost, faults, retries>>

(* The id is registered with other settings.                               *)
RegisterRaises(w) ==
  /\ worker[w].stage = "registering"
  /\ endpoints[Current(w).id] # NoEndpoint
  /\ endpoints[Current(w).id].config # Current(w)
  /\ Fall(w)
  /\ UNCHANGED <<log, tables, received, origin, lost, faults, retries>>

Pending == [status |-> "pending", attempts |-> 0, due |-> TRUE,
            claimedBy |-> NoWorker, leased |-> FALSE]

(* Wrong: the checkpoint moves to the newest receipt, not the snapshot's.  *)
WrongAdvanced(checkpoint, observed) == Len(log)

Advanced(checkpoint, observed) ==
  IF observed > checkpoint THEN observed ELSE checkpoint

Enqueue(w) ==
  LET e == Current(w).id
      observed == worker[w].observed
      new == {n \in Selected(Current(w), worker[w].checkpoint, observed) :
                n > endpoints[e].checkpoint /\ deliveries[e][n] = NoDelivery}
  IN
  /\ worker[w].stage = "enqueueing"
  /\ deliveries' = [deliveries EXCEPT ![e] =
       [n \in Sequences |-> IF n \in new THEN Pending ELSE @[n]]]
  /\ endpoints' = [endpoints EXCEPT ![e].checkpoint = Advanced(@, observed)]
  /\ worker' = [worker EXCEPT ![w] =
       IF @.position < Len(@.config)
       THEN [@ EXCEPT !.stage = "registering", !.checkpoint = 0,
                      !.position = worker[w].position + 1]
       ELSE Fresh("claiming", @.config)]
  /\ UNCHANGED <<log, received, origin, lost, faults, retries>>

-----------------------------------------------------------------------------
(* claim_due.                                                              *)

(* Wrong: an abandoned claim is never taken back.                          *)
WrongExpired(e, n) == FALSE

Expired(e, n) ==
  /\ deliveries[e][n] # NoDelivery
  /\ deliveries[e][n].status = "delivering" /\ ~deliveries[e][n].leased

Due(e, n) ==
  /\ deliveries[e][n] # NoDelivery
  /\ \/ deliveries[e][n].status = "pending" /\ deliveries[e][n].due
     \/ Expired(e, n)

(* ORDER BY receipt_sequence, endpoint_id.                                 *)
Before(d, n, e, m) == n < m \/ (n = m /\ d \leq e)

FirstDue(e, n) ==
  /\ Due(e, n)
  /\ \A d \in Endpoints, m \in Sequences : Due(d, m) => Before(e, n, d, m)

(* Wrong: the claimant stays.                                              *)
WrongRecovered(d) == [d EXCEPT !.status = "pending", !.due = TRUE]

Recovered(d) == [Pending EXCEPT !.attempts = d.attempts]

Claimed(d, w) ==
  [status |-> "delivering", attempts |-> d.attempts + 1, due |-> d.due,
   claimedBy |-> w, leased |-> TRUE]

ClaimRow(w, e, n) ==
  /\ worker[w].stage = "claiming"
  /\ FirstDue(e, n)
  /\ deliveries' =
       [d \in Endpoints |-> [m \in Sequences |->
          LET open == IF Expired(d, m) THEN Recovered(deliveries[d][m])
                      ELSE deliveries[d][m]
          IN IF <<d, m>> = <<e, n>> THEN Claimed(open, w) ELSE open]]
  /\ lost' =
       [d \in Endpoints |-> [m \in Sequences |->
          lost[d][m] + (IF Expired(d, m) THEN 1 ELSE 0)]]
  /\ UNCHANGED <<log, endpoints, received, origin, faults, retries>>

Configured(w, e) == \E i \in DOMAIN worker[w].config : worker[w].config[i].id = e

Claim(w, e, n) ==
  /\ ClaimRow(w, e, n)
  /\ Configured(w, e)
  /\ worker' = [worker EXCEPT ![w] =
       [@ EXCEPT !.stage = "sending",
                 !.task = [endpoint |-> e, sequence |-> n,
                           attempts |-> deliveries[e][n].attempts + 1]]]

(* The delivery belongs to an endpoint that left the configuration: the    *)
(* KeyError of self._endpoints[...] leaves run_once after the claim.       *)
ClaimRaises(w, e, n) ==
  /\ ClaimRow(w, e, n)
  /\ ~Configured(w, e)
  /\ Fall(w)

ClaimNothing(w) ==
  /\ worker[w].stage = "claiming"
  /\ \A e \in Endpoints, n \in Sequences : ~Due(e, n)
  /\ worker' = [worker EXCEPT ![w].stage = "idle"]
  /\ UNCHANGED <<log, tables, received, origin, lost, faults, retries>>

-----------------------------------------------------------------------------
(* The request to the receiver (external).                                 *)

Held(w) == worker[w].task
Event(w) == <<Held(w).endpoint, Held(w).sequence>>

Answer(w, stage) == worker' = [worker EXCEPT ![w].stage = stage]

Accept(w) ==
  /\ worker[w].stage = "sending"
  /\ received' = received \cup {Event(w)}
  /\ Answer(w, "accepted") \/ Answer(w, "failing")  \* the answer may be lost
  /\ UNCHANGED <<log, tables, origin, lost, faults, retries>>

Refuse(w) ==
  /\ worker[w].stage = "sending"
  /\ Answer(w, "failing")
  /\ UNCHANGED <<log, tables, received, origin, lost, faults, retries>>

-----------------------------------------------------------------------------
(* mark_delivered and mark_failed.                                         *)

(* Wrong: whoever has claimed the delivery in the meantime is not looked at. *)
WrongOwned(w) ==
  deliveries[Held(w).endpoint][Held(w).sequence].status = "delivering"

Owned(w) ==
  LET d == deliveries[Held(w).endpoint][Held(w).sequence] IN
  d.status = "delivering" /\ d.claimedBy = w

Settle(w, status, due) ==
  /\ Owned(w)
  /\ deliveries' = [deliveries EXCEPT ![Held(w).endpoint][Held(w).sequence] =
       [status |-> status, attempts |-> @.attempts, due |-> due,
        claimedBy |-> NoWorker, leased |-> FALSE]]
  /\ worker' = [worker EXCEPT ![w] =
       [@ EXCEPT !.stage = "claiming", !.task = NoTask]]
  /\ UNCHANGED <<log, endpoints, received, origin, lost, faults, retries>>

(* Wrong: the status code of the answer is not looked at.                  *)
WrongMarkDelivered(w) ==
  worker[w].stage \in {"accepted", "failing"} /\ Settle(w, "delivered", FALSE)

MarkDelivered(w) == worker[w].stage = "accepted" /\ Settle(w, "delivered", FALSE)

(* Wrong: one attempt more than max_attempts.                              *)
WrongExhausted(w) ==
  \E i \in DOMAIN worker[w].config :
    /\ worker[w].config[i].id = Held(w).endpoint
    /\ Held(w).attempts > worker[w].config[i].maxAttempts

Exhausted(w) ==
  \E i \in DOMAIN worker[w].config :
    /\ worker[w].config[i].id = Held(w).endpoint
    /\ Held(w).attempts \geq worker[w].config[i].maxAttempts

MarkFailed(w) ==
  /\ worker[w].stage = "failing"
  /\ \/ Exhausted(w) /\ Settle(w, "dead", TRUE)
     \/ ~Exhausted(w) /\ Settle(w, "pending", FALSE)

(* _require_owned refuses, and its ValueError leaves run_once.             *)
MarkRaises(w) ==
  /\ worker[w].stage \in {"accepted", "failing"}
  /\ ~Owned(w)
  /\ Fall(w)
  /\ UNCHANGED <<log, tables, received, origin, lost, faults, retries>>

-----------------------------------------------------------------------------
(* Time and the operator.                                                  *)

Change(e, n, d) == deliveries' = [deliveries EXCEPT ![e][n] = d]

BackoffElapses(e, n) ==
  /\ deliveries[e][n] # NoDelivery
  /\ deliveries[e][n].status = "pending" /\ ~deliveries[e][n].due
  /\ Change(e, n, [deliveries[e][n] EXCEPT !.due = TRUE])
  /\ UNCHANGED <<log, endpoints, worker, received, origin, lost, faults,
                 retries>>

(* The owner is still at work on its claim.                                *)
AtWork(e, n) ==
  \E w \in Workers : Event(w) = <<e, n>> /\ deliveries[e][n].claimedBy = w

(* Every request times out before its lease: a worker that outlives one was *)
(* suspended or lost its clock, and counts as a fault.                     *)
LeaseElapses(e, n) ==
  /\ deliveries[e][n] # NoDelivery
  /\ deliveries[e][n].status = "delivering" /\ deliveries[e][n].leased
  /\ deliveries[e][n].attempts < MaxClaims
  /\ AtWork(e, n) => faults < MaxFaults
  /\ faults' = IF AtWork(e, n) THEN faults + 1 ELSE faults
  /\ Change(e, n, [deliveries[e][n] EXCEPT !.leased = FALSE])
  /\ UNCHANGED <<log, endpoints, worker, received, origin, lost, retries>>

RetryDead(e, n) ==
  /\ deliveries[e][n] # NoDelivery
  /\ deliveries[e][n].status = "dead"
  /\ retries < MaxRetries
  /\ retries' = retries + 1
  /\ Change(e, n, Pending)
  /\ lost' = [lost EXCEPT ![e][n] = 0]
  /\ UNCHANGED <<log, endpoints, worker, received, origin, faults>>

-----------------------------------------------------------------------------
Sync(w) ==
  \/ Snapshot(w)
  \/ Register(w) \/ BuildRaises(w) \/ RegisterRaises(w)
  \/ Enqueue(w)

Process(w) ==
  \/ \E e \in Endpoints, n \in Sequences : Claim(w, e, n) \/ ClaimRaises(w, e, n)
  \/ ClaimNothing(w)
  \/ Accept(w) \/ Refuse(w)
  \/ MarkDelivered(w) \/ MarkFailed(w) \/ MarkRaises(w)

Restart(w) == \E config \in Configs : Start(w, config)

Elapse(e, n) == BackoffElapses(e, n) \/ LeaseElapses(e, n)

Next ==
  \/ \E event \in Events : AppendReceipt(event)
  \/ \E w \in Workers : Sync(w) \/ Process(w) \/ Restart(w) \/ Crash(w)
  \/ \E e \in Endpoints, n \in Sequences : Elapse(e, n) \/ RetryDead(e, n)

Spec == Init /\ [][Next]_vars

(* A running worker goes on, one that ended is started again, and time     *)
(* passes.  Nothing makes receivers accept, or keeps workers from dying.   *)
FairSpec ==
  /\ Spec
  /\ \A w \in Workers : WF_vars(Sync(w) \/ Process(w)) /\ WF_vars(Restart(w))
  /\ \A e \in Endpoints, n \in Sequences : WF_vars(Elapse(e, n))

-----------------------------------------------------------------------------
(* Safety.                                                                 *)

(* sync_outbox, register_endpoint and enqueue: whatever snapshots the      *)
(* workers hold, the deliveries of an endpoint are those of the selected   *)
(* receipts after the checkpoint it was registered with and up to its      *)
(* checkpoint now: none is skipped, none added from before a "latest"      *)
(* endpoint's registration.                                                *)
OutboxMatchesCheckpoint ==
  \A e \in Endpoints :
    {n \in Sequences : deliveries[e][n] # NoDelivery} =
      IF endpoints[e] = NoEndpoint THEN {}
      ELSE Selected(endpoints[e].config, origin[e], endpoints[e].checkpoint)

(* _require_owned: a claim that is over its lease or not ends in another   *)
(* status only through the worker that holds it or through the recovery of *)
(* an expired claim; a worker that was overtaken changes nothing.          *)
AnswerFromOwner ==
  [][\A e \in Endpoints, n \in Sequences :
       LET d == deliveries[e][n] IN
       (d # NoDelivery /\ deliveries'[e][n] # d /\ d.status = "delivering")
       => \/ d.leased /\ deliveries'[e][n] = [d EXCEPT !.leased = FALSE]
          \/ ~d.leased /\ deliveries'[e][n].status \in {"pending", "delivering"}
          \/ /\ Event(d.claimedBy) = <<e, n>>
             /\ worker[d.claimedBy].stage = "accepted"
                  <=> deliveries'[e][n].status = "delivered"
             /\ worker'[d.claimedBy].stage = "claiming"]_vars

(* max_attempts bounds the answered attempts of a delivery: what it is     *)
(* claimed beyond them are claims whose worker died or was overtaken.      *)
AttemptsAccounted ==
  \A e \in Endpoints, n \in Sequences :
    deliveries[e][n] # NoDelivery =>
      deliveries[e][n].attempts \leq
        endpoints[e].config.maxAttempts + lost[e][n]

(* The status of a delivery as a receiver's owner sees it.                 *)
Outcome(d) ==
  IF d = NoDelivery THEN "unseen"
  ELSE IF d.status \in {"pending", "delivering"} THEN "waiting" ELSE d.status

Promise == INSTANCE EventDelivery WITH
  outcome <- [e \in Endpoints |-> [n \in Sequences |-> Outcome(deliveries[e][n])]]

(* The outbox keeps what docs/webhooks.md promises: nothing is sent that   *)
(* is not on record, what is recorded as delivered was accepted, and only  *)
(* an operator's retry reopens a delivery that ended.                      *)
KeepsDeliveryPromise == Promise!Spec

-----------------------------------------------------------------------------
(* Liveness, under FairSpec.                                               *)

(* A recorded delivery is not forgotten, whoever dies while working on it: *)
(* it becomes delivered or dead.                                           *)
EventuallySettled ==
  \A e \in Endpoints, n \in Sequences :
    Outcome(deliveries[e][n]) = "waiting"
      ~> Outcome(deliveries[e][n]) \in {"delivered", "dead"}

Awaits(e, n) ==
  /\ endpoints[e] # NoEndpoint
  /\ n \in Selected(endpoints[e].config, origin[e], Len(log))

(* Every receipt a registered endpoint selected gets a delivery.           *)
EveryEventReachesOutbox ==
  \A e \in Endpoints, n \in Sequences :
    Awaits(e, n) ~> deliveries[e][n] # NoDelivery
==============================================================================
