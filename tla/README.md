# A TLA+ model of AgentBarrier

AgentBarrier puts a durable approval and idempotency boundary in front of
consequential tool calls of agents. This directory holds the TLA+ modules that
model it, the TLC configurations that check them and the TLAPS proofs about
them. Paths such as `runtime/store.py` are relative to `src/agentbarrier/`.

## 1. Inventory

### Components, their state and operations

| Component | Source | State | Operations |
|---|---|---|---|
| Durable action store | `runtime/store.py` | `runtime_actions`, `runtime_receipts` (SQLite) | `submit`, `decide`, `decide_authorized`, `claim`, `complete`, `mark_unknown`, `reconcile`, `get_action`, `list_actions`, `verify_receipts`, `backup` |
| Pauses and limits | `runtime/store.py` | `runtime_pauses`, `runtime_limits`, `runtime_limit_usage`, `runtime_limit_reservations`, `runtime_control_receipts` | `set_pause`, `clear_pause`, `configure_limit`, `disable_limit`; reserve and release inside `claim` and `reconcile` |
| PostgreSQL backend | `runtime/postgres.py`, `runtime/factory.py` | the same tables, a schema-specific advisory lock | the same operations through a connection wrapper |
| Runtime barrier | `runtime/barrier.py` | none of its own: where each call is | `execute`, `execute_async`, `protect` |
| Policy | `runtime/policy.py` | none | first matching rule over tool and arguments |
| Webhook outbox | `service/webhooks.py` | endpoints with a receipt checkpoint, deliveries with lease, attempts and status | `sync_outbox`, `enqueue`, `claim_due`, `mark_delivered`, `mark_failed`, `retry_dead`, `run_once` |
| Slack approvals | `service/slack.py` | `slack_notifications`, `slack_interactions`; where the worker and the handler of each process are | `sync_pending`, `claim_due`, `mark_posted`, `mark_failed`, `mark_obsolete`, `handle`, `mark_decided`, `record_interaction`, `retry_dead` |
| Approval API | `service/api.py`, `service/auth.py` | the authorization document it was started with | `list_actions`, `get_action`, `approve_action`, `reject_action`, `list_audit` |
| Dashboard | `service/dashboard.py`, `service/auth.py` | sessions; the authorization document | `login`, `logout`, `index`, `action_detail`, `approve_action`, `reject_action` |
| MCP gateway, integrations | `mcp/`, `integrations/` | none | forward a call to `execute_async` |
| Conformance harness | `adapter.py`, `probe.py`, `journal.py`, `runner.py`, `scenarios.py`, `adapters/reference.py` | the runs of one logical run: decisions, tasks, evidence; the journal; the results of a suite | `begin`, `approve`, `reject`, `cancel`, `wait`, `reconcile`, `replay`, `close`; `verify` |
| Framework adapters | `adapters/*.py` | third-party frameworks | drive the harness |
| CLI, reports, compatibility, telemetry | `cli.py`, `reporters.py`, `observability.py`, `runtime/observation.py` | none | input and output |

### How they interact

* Every entry point (barrier, API, dashboard, Slack handler, CLI) calls the
  store. Every store call that changes something is one transaction under
  `BEGIN IMMEDIATE` (`_transaction`) or, on PostgreSQL, under one advisory lock.
  A call that raises inside it is rolled back.
* The barrier makes three store calls per execution (`submit`, `claim`, then
  `complete` or `mark_unknown`) and runs the operation between the last two.
  Crashes, lost answers and other callers come between them.
* There is no timer and no reaper: expiry of approvals and of execution leases
  is applied by whichever call next reads the row (`_refresh_state`), with that
  caller's clock.
* The webhook and Slack workers poll the store and keep their own databases, so
  their steps interleave with everything else and are not atomic with it.
* The API, the dashboard and the Slack handler are coroutines of one event loop
  each. They are interrupted only where they await: the body of a request, or
  Slack's answer. Their store calls are synchronous, so between two of them only
  other processes come in.
* The reference adapter and the sentinel share an event loop with their caller;
  a cancellation is an exception a task gets at its next step.

### What is hard here

Concurrent calls with one key; a worker that dies between the claim and the
outcome; a provider that applies an effect after its caller gave up; a store
answer that is lost after the commit; leases that expire under a live worker;
lazy expiry under clocks that differ; reopening by reconciliation; capacity that
is taken by a claim and given back by a reconciliation, maybe many windows
later; two databases updated one after the other; a Slack message whose
acknowledgement is lost; a click that is delivered twice, around a crash; lists
that change between two pages; a session that ends while its form is read;
cancellation and timeout racing effects that run in parallel. `PROJECT.json`
lists the hazards with their lines.

### What makes each component correct

* Store: the receipts tell the state, decisions belong to the attempt they
  authorise, nothing starts late, settled actions never change.
* Pauses and limits: nothing starts under a pause, no window is overdrawn, the
  counters equal what unreleased reservations hold, and only actions that may
  have taken effect hold capacity.
* Barrier: the effect of a key happens at most once, the record never claims
  less than happened, all callers get one answer, an abandoned execution is
  noticed.
* Outbox: no selected receipt at or below the checkpoint is missing, a
  delivered row was accepted, every delivery ends delivered or dead.
* Slack: a decision comes only from the message the row is bound to and from a
  user listed for it, what the state database says was decided was decided, and
  pending actions are announced.
* API and dashboard: no answer tells a tenant about another's actions, pages and
  polls miss nothing, what a page offers is accepted, sessions are bounded and
  make room.
* All three: an action takes one decision each time it is asked for, from
  somebody who may take it.
* Harness: the reference adapter passes every scenario in every order of its
  tasks; a commit is sanctioned and happens once, an outcome is borne out by the
  effects.

## 2. Modules

```
RuntimeControls   pauses, limits, capacity
      ^ EXTENDS
RuntimeStore      actions, receipts, leases    <-- RuntimeStoreProofs
      |                                              ^ EXTENDS
      |                                            RuntimeAuditProofs
      ^ EXTENDS
RuntimeBarrier    concurrent execute calls     <-- RuntimeBarrierProofs
      |                                        <-- ClaimOwnership (EXTENDS)
      | INSTANCE (refinement mapping)
      v
ProtectedEffect   the abstract promise

WebhookOutbox     two webhook workers          <-- WebhookOutboxProofs
      | INSTANCE (refinement mapping)
      v
EventDelivery     the abstract promise

ApprovalLifecycle the store as reviewers see it <-- ApprovalLifecycleProofs
      ^ EXTENDS                                      ^ EXTENDS, from both
SlackApprovals    services, Slack, clicks      <-- SlackApprovalsProofs
ReviewService     API and dashboard            <-- ReviewServiceProofs
      | INSTANCE (refinement mapping), from both
      v
ApprovalGate      the abstract promise

ReferenceAdapter  runs, effects, reconciliation
      ^ EXTENDS
Conformance       SuiteRunner and the scenarios <-- ConformanceProofs
```

### RuntimeControls and RuntimeStore

One action per store operation; a row of `runtime_actions` is a record, absent
rows are `NoAction`, and the unique index on namespace, tool and idempotency key
is `KeyOf`. Two requests are equal iff their digests are, so a digest check is
an equality. `receipts` is the chain in sequence order, without its hashes.
`held[k]` adds up the unreleased rows of `runtime_limit_reservations` of an
action, per limit and window.

* *Lazy expiry* is `Refreshed`, used by every operation that calls
  `_refresh_state`. Where the code raises after a refresh the transaction is
  rolled back and nothing happens, so those calls are not steps. `claim` is the
  exception: a block is committed first and raised afterwards (`ClaimBlocked`).
* *Clocks.* `now` is read before the transaction waits for its lock, and hosts
  that share PostgreSQL have their own clocks: an operation uses any reading in
  `Readings`, at most `Skew` old.
* *Policy* is any effect and approval TTL from `Effects` and `Ttls`: two
  submissions of one request may meet different policies, only the first counts.
* *Arguments* are the integers a limit may measure. `None` stands for an
  argument that is missing, no integer or negative, on which the limit blocks.

### RuntimeBarrier

A call goes `idle -> prepared -> operating -> completing -> returned`, or
through `failing` to `raised`, or crashes. `Raises(Step)` is a store call that
raises: `Step` happened and its answer was lost, or nothing happened. The
protected operation is external: between the claim and any later moment it may
commit its effect once or become void, also after its caller raised or crashed.
An operation that returned has committed.

Reconciliation is an operator's statement about the provider. The store takes it
at its word; `docs/threat-model.md` asks for evidence. `HonestReconciler` is that
assumption: committed only if an effect is there, not committed only if no
operation launched for the key took effect or still can. Without it no store
could keep the promise.

### ClaimOwnership

`RuntimeBarrier` with one history variable: `claimant[k]` is the call whose claim
made the action executing last. No step depends on it. The store keeps nothing
like it, so only with it can be said whether the call that ends an execution is
the one that owns it.

### ProtectedEffect

What a tool owner is promised, with four variables and no store: each key is
open, started or settled; its effect happens at most once and only while
started; it reopens only while the effect has not happened; it settles only
after it happened and everyone is told the settled answer. `KeepsPromise` is
the statement that `RuntimeBarrier` implements it under the mapping at the end
of that module.

### WebhookOutbox and EventDelivery

One action per transaction of `WebhookDeliveryStore` and per step of the worker
between two of them. A worker goes `idle -> registering -> enqueueing` (once per
configured endpoint) `-> claiming -> sending -> accepted | failing -> claiming`;
any exception out of `run_once` ends the process, as a crash does, and a
supervisor may start it again with another configuration.

* *Receipts* are a log of event kinds that grows while workers hold a snapshot
  of it (`observed`). The store's other contents only reach the body of a
  request. `get_action` in `sync_outbox` may itself expire an action; its
  receipt is an `AppendReceipt` like any other.
* *Settings* of an endpoint stand for its `config_digest`; URL, secret and
  redaction are left out.
* *Time* is `due` (`next_attempt_at_ns`) and `leased` (`lease_expires_at_ns`). A
  transaction that comes late with an early clock reading would see less elapsed
  time than the one before it; that only delays a claim and is left out.
* *Receivers* are external: a request may be accepted, refused, or accepted with
  its answer lost.
* `origin` and `lost` are history: the checkpoint an endpoint began with and the
  claims of a delivery that were recovered.

`EventDelivery` is what `docs/webhooks.md` promises: only recorded events are
sent, delivered ones were accepted, and only a manual retry reopens a dead one.

### ApprovalLifecycle and ApprovalGate

The reviewers' services meet the store only through `list_actions`,
`get_action`, `receipts` and the two decide operations. `ApprovalLifecycle`
keeps of a row what those can tell apart: the status, with every status after a
claim folded into "used"; what the request says of organization, namespace and
requester; whether its lifetime is over (`due`); and `decided_by`, as the whole
authorization of whoever decided. `Decide`, `Stands`, `Lapsed`, `Conflicts` and
`Forbidden` are the outcomes of `decide_authorized` and, with organization "",
of `decide`. `May` is the rule of `docs/multi-user-authorization.md`, written
down independently; `Permitted` in the gate's mapping uses it, so a decision
that gets through without it is a step the gate has no counterpart for.

`ApprovalGate` is what all surfaces promise: an action that is asked for takes
one decision, from somebody who may take it for this request; the decision
stands until the action is used or lapses, and only a reopening asks again.

### SlackApprovals

A service is one process: the worker's task (`idle -> claiming -> holding ->
posting | dropping -> answered | failing | refused -> claiming`, `stopped` after
an exception, `down` without a process) and the handler of one click (`admitted
-> marking -> recording`, with `raised` where the decision was refused). They
share an event loop: the worker moves only while no click is handled (`Turn`), a
click is taken up only where the worker awaits (`LoopFree`).

* *Slack* is external: `chat.postMessage` may show the message and answer, show
  it and lose the answer, recognise the client message id, or refuse.
* *Clicks* are signed requests with a signature of their own, delivered any
  number of times, late, or to another service. A signature that is not genuine
  never reaches the store and is not a step.
* *Time* is `due` and `leased` of a row as in the outbox. A call to Slack times
  out before its lease (the constructor insists), so a live owner that loses its
  lease counts as a fault: a process suspended or a clock moved.
* *Faults* are crashes, failing transactions, outlived leases and operator
  retries; `MaxFaults` bounds them.
* `taken` is history: the decisions, by whom and by which click.

### ReviewService

Both processes with the authorization document each read at its start, and
clients with one request at a time. A document is read into principals by
`PrincipalOf`; `ValidDocument` is what `from_mapping` accepts.

* A handler is one step, but for three awaits or second reads that other steps
  can come between: the body of a decision (`AwaitBody`, then `Deciding`), the
  form of a logout, and `list_audit`, which reads the actions and then the
  receipts (`Poll`, then `PollReceipts`).
* `listed` is the order of `created_at_ns`, which is read before the transaction
  that inserts: a new action may take any place.
* A cookie is random and used once, so cookies are a set from which a login
  takes an unused one.
* A restart of the API loses requests under way and reads another document.
  Clients keep their cursors and positions and go on with them. Where they went
  through a list under one document and end under another, they are owed what
  they might see all the time: see `steady` and `raced`.
* A poll asks for the receipts of one action (`action_id`) or of all; a client
  keeps its position as long as it asks for the same. The index of the dashboard
  shows at most `MaxListed` actions (`_MAX_DASHBOARD_ACTIONS`, 100), as
  `docs/dashboard.md` says.
* `steady`, `got` and `raced` are history: what matched a client's filter and
  was visible to it at every moment of its paging, what it was given, and whose
  actions were submitted between the two reads of one of its polls or became
  visible to it with another document.

### ReferenceAdapter and Conformance

`ReferenceAdapter` is one logical run: its handles (`runs`), the adapter's
`_completed`, the journal's commits and receipts, and the sentinel. Phases are
the awaits of `_drive`: approvals, the gather of the effects, the gather that
follows an exception. Each effect is a task of its own with one await before its
commit. `Fenced` is what cancelling the unfinished tasks leaves.

`Conformance` runs either `SuiteRunner.verify` over all scenarios (`Script`: the
calls of each `exercise`, each with the evidence that must hold after it) under
both profiles, with `fail_fast` and `strict`, or callers without a script
(`FreeCall`) who decide, cancel, release, reconcile and replay in any order.
`outcome_reconciliation` has four parts that use different actions and share
nothing; they are four scripts.

### Mutated definitions

Definitions named `Wrong...` are not part of the model and nothing uses them.
Each is the definition that follows it with one plausible mistake; replacing the
right one by it makes TLC report the property that `PROJECT.json` pairs it with
under "mutants".

## 3. Runs

| Run | Question | Bounds |
|---|---|---|
| `store_lifecycle` | Do receipts, decisions, expiry and settled states hold when two exact requests compete for one key? | 1 key, 2 requests, 3 effects, TTL none or 2, lease 1, skew 1, clock to 5, 13 receipts |
| `store_limits` | Are windows never overdrawn, counters exact and reservations in their windows while operators create, lower, disable and re-enable limits, or try to change a window? | 2 keys, 2 limits, windows of 1 and 2, skew 1, clock to 2, 8 receipts, 3 control changes |
| `store_pauses` | Do overlapping pauses, and limits on no-integer arguments, block on record without changing the action? | 2 tools, 1 limit, 2 pause scopes, 3 control changes |
| `barrier_safety` | Is the effect at most once, on record, agreed upon, and does the barrier implement the promise? | 3 calls, 2 requests of one key, 2 results, clock to 3, 11 receipts |
| `barrier_liveness` | Is an abandoned execution noticed? | 2 calls, clock to 3 |
| `barrier_ownership` | Does one worker own a claim? (violated) | 2 calls, lease 1, skew 1, clock to 3 |
| `webhook_sync` | Are the deliveries of an endpoint exactly its selected receipts, whatever snapshots and configurations two workers use, and are attempts accounted for? | 2 workers, 2 endpoints, 2 configurations, 2 receipts of 3 kinds, a budget of 1 attempt, 1 fault, 1 retry, 2 claims |
| `webhook_delivery` | Is an overtaken worker harmless, is the promise kept, and does every event end delivered or dead? | 2 workers, 1 endpoint, 2 receipts, 1 fault, 1 retry |
| `webhook_blocked_events` | Does every selected event reach the outbox? (violated) | 1 worker, 2 receipts |
| `slack_approvals` | Do decisions come only from bound messages and listed users, are the records true after any crash, is the gate's promise kept, are pending actions announced? | 1 action, 2 services of different channels (a tenant and a legacy one), 1 click, 2 messages, 2 attempts, 1 fault, 1 reopening |
| `review_service` | Do tenants stay apart, do pages and polls miss nothing, are offered forms accepted, do sessions make room, is the gate's promise kept? | 2 actions of 2 organizations, 1 API client, 1 browser, 2 tokens, 2 documents, pages and an index of 1, 1 session, 3 receipts, 3 requests or restarts |
| `conformance` | Does the reference adapter pass every scenario in every order of tasks, and keep its contract for callers without a script? | 14 scripts, 2 actions, 3 handles, 4 plans for free callers |

Why the bounds are enough. A key's history repeats through reconciliation: the
shortest violation of a decision or of a capacity rule is claim, lose, reopen,
claim, and 13 receipts hold two such rounds with decisions. The clock passes a
TTL, a lease and a window boundary; with windows of 1 and 2 a reading one unit
old falls into another window, and a limit that is configured with another window
has reservations in the old one. Keys share nothing but limits, so one key
suffices except for limits, where two keys meet at one counter. Three calls give
a late worker, the call that replaced it and a caller who replays.
In the outbox two receipts let a snapshot be stale and a checkpoint move past
another worker's; one fault is a crash or one outlived lease, and a second worker
overtakes the first. `MaxClaims` in `webhook_delivery` is above what one fault
and two attempts can reach, so it stops no lease there.
With Slack one action suffices, because rows share nothing but the worker; two
messages are a posted one and the repetition of a lost answer; one fault is a
crash anywhere, an overtaken worker or a dead row retried, and the reopening
makes an old row meet a new approval. Two services give an overtaken worker, a
click at the wrong channel and configurations that disagree. In the review
service three requests are the shortest that matter: a page, its successor and
one in between, or a login, a page with forms and the decision; receipts for
three changes let the list and the log move between them; one place for a
session makes the second login the one that needs room. In the harness three
handles are a run, its replay after a lost response and a replay of that one.
In the store modules
`HasRoom` (receipts), `MaxControls` and `MaxClock` are the only bounds; at the
bounds operations that append stop while reads go on, so no state is a dead
end for TLC and deadlock is checked in their runs. `slack_approvals` and
`review_service` do not check it: services may all be down for good once
`MaxFaults` is reached, and clients stop after `MaxCalls` requests.

Fairness. `FairBarrierSpec` assumes that time passes and that somebody reads the
actions: the Slack worker lists them on every poll and the dashboard on every
refresh. A deployment without either has no such reader, and then an abandoned
execution stays `executing` until its next `submit`, `claim` or `get_action`.
Nothing is assumed of calls, reviewers or operators.

`FairSpec` of the outbox assumes that a running worker goes on, that one that
ended is started again (`run_forever` ends at the first exception, so this is
the service manager's part, or cron's with `--once`), and that leases and
backoffs elapse. It does not assume that a receiver ever accepts, nor that
workers stay up; crashes are bounded by `MaxFaults`.

`FairSpec` of the Slack services assumes that a process that runs goes on, that
Slack answers or the call times out, and that backoffs, leases and lifetimes
elapse. It does not assume that processes are started again, that Slack ever
accepts a message, or that anybody clicks. `PendingIsAnnounced` speaks of a
worker only as long as it runs, so a worker whose task has ended (below) is not
blamed for being silent.

The violated runs. `docs/runtime-api.md:206` says that one worker owns a
time-bounded execution claim. The store keeps no owner: `complete` and
`mark_unknown` check the digest and the status (`_require_executing`).
`ClaimOwnedByOneCall` says that while the call that claimed an action last runs
it within its lease, only that call ends the execution. In the run a worker
outlives its lease, its abandoned action is reconciled as not committed and a
second call claims it; then the first worker's operation raises, and its
`mark_unknown` ends the second call's unexpired execution. The action fails closed to `unknown`; no effect is
duplicated, as `EffectAtMostOnce` confirms.

`docs/webhooks.md:72` lists `emergency_pause_blocked` and `limit_blocked` as
supported events, and an endpoint without `events` selects all.
`_event_status` knows neither: `sync_outbox` raises `KeyError` at the first such
receipt, on every pass, before anything is claimed. In the run the endpoint's
selected events stay out of the outbox for ever. In `webhook_delivery`, where
every kind has a status, the same property holds.

What the modelling showed besides, and no run reports as a violation, since
neither a document nor a test says otherwise or the model makes it explicit:

* `service/slack.py:1144`: `run_once` catches only failed calls. A locked
  database, a claim that was overtaken (`_require_owned`) or a changed channel
  (`enqueue`, line 454) ends the worker's task; the process goes on serving
  clicks and announces nothing until it is restarted (`WorkerRaises`,
  `MarkRaises`, `SyncRaises`). `PendingIsAnnounced` excuses it.
* `service/slack.py:448`: the row of an action that was reopened by a
  reconciliation exists already, decided or obsolete; no new message is posted
  for the second approval. `PendingIsAnnounced` takes such a row for announced
  and would not notice. The old buttons, where they are still shown, decide it.
* `service/slack.py:1289`: between the decision and `record_interaction` a crash
  leaves the click unrecorded; delivered again it finds the decision standing.
  Only if the action was used and reopened in between does one click decide
  twice. `docs/slack.md:153` says that after a timeout "the stored signature and
  idempotent runtime transition prevent a second decision receipt". That is true
  of retries after a slow answer, of which the passage speaks; here the signature
  was never stored and the transition is of another approval.
* `service/api.py:235`: receipts of an action submitted between the two reads of
  `list_audit` are passed over by a client that goes on after a later receipt of
  the same page (`raced` in `NothingMissed`).
* `service/dashboard.py:538`: a decision is taken for the session that was valid
  when its request came, even if it was logged out while the form was read.
  `KeepsGatePromise` knows no sessions; it shows that the decision is one its
  principal may take.
* `adapters/reference.py:211`: `cancel` right after `begin`, before the run took
  its first step, ends the task without an outcome and without a receipt;
  `cancel` and `wait` raise `CancelledError`. `adapter.py:28` says otherwise:
  "`wait()` must absorb framework cancellation/timeout exceptions and return a
  `RunOutcome`." No script cancels that early and no run checks that sentence:
  callers without a script get there in `conformance`, but `ContractKept` says
  nothing of a handle without an outcome. And `cancel` after the response of a
  commit was lost reports cancelled, which `reconcile` then refuses. `Honest`
  states what outcomes do mean.
* `scenarios.py`, timeout: on a slow machine the timeout may fire before the
  effect has started, and the scenario ends in an error rather than a verdict.

## 4. Theorems

Each holds for every value of the constants: every set of requests, keys,
limits, results and calls, every lease, TTL and skew (`RuntimeStoreProofs`,
`RuntimeAuditProofs`, `RuntimeBarrierProofs`); every set of workers, endpoints,
event kinds and configurations (`WebhookOutboxProofs`); all services, channels,
users, clicks and messages (`SlackApprovalsProofs`); all documents, tokens,
clients, cookies and page sizes (`ReviewServiceProofs`); all plans of callers
without a script, declarations and numbers of replays (`ConformanceProofs`); and
for every value of the bounds. They assume only the named assumptions on
constants, which TLC evaluates on every run:

| Assumption | What it says |
|---|---|
| `ControlsAssumption`, `LimitAssumption` | requests, scopes and limit settings are typed and there are finitely many keys; a setting names an argument exactly when it has a maximum value, and has a maximum (`configure_limit`); `Global` is neither a namespace nor a tool, `NoLimit` is no limit |
| `StoreAssumption`, `CallsAssumption` | the lease is positive, a TTL natural or absent; `NoAction`, `NoResult`, `NoRequest` are no rows, results or requests |
| `OutboxAssumption`, `NothingAssumption` | a configuration is not empty, names no endpoint twice and allows at least one attempt; an absent row is not a row |
| `LifecycleAssumption`, `NoteAssumption` | requests are typed; `NoOne` is no authorization, `""` no organization, `NoRequester` no subject, `NoNote` no notification row |
| `SlackAssumption` | configurations are ones the constructor accepts (`Config`), at least one attempt is allowed, users are actors; another decider without an organization may take every decision; placeholders are none of what they stand beside |
| `ReviewAssumption` | documents are ones `from_mapping` accepts (`ValidDocument`), a client is a program or a browser, a page has room for an action and the dashboard for a session; placeholders are none of what they stand beside |
| `AdapterAssumption`, `HarnessAssumption` | `NoParent` is no action, a run can be begun; there are exactly the two actions of the scripts; the plans of callers without a script pass `validate_actions`, which `begin` insists on |

The bounds (`MaxClock`, `MaxReceipts` and so on) are natural numbers.

The store.

* `StoreTypes` is type correctness, one lemma per operation.
* `StoreInvariant` proves `StoreInv`: `RowInv` of every row and
  `HeldOnlyWhileCounted`. `DecisionFresh` alone is not inductive: that a
  reviewer's approval leaves a reviewer on record needs to know that only
  actions whose policy requires approval are ever pending, which `RowInv` adds.
  `DecisionsAreFresh` and `CapacityIsAccounted` follow.
* `RowStep` says what one step may do to one row. From it follow `SettledStays`
  (a settled row never changes) and, because only `ClaimStart` leads to
  `executing`, `NothingStartsLate`.
* `LimitsAreRespected` needs `HeldNatural`: a release gives back what an action
  holds, and it could raise a counter if that were negative.

The store's records (`RuntimeAuditProofs`).

* `ReceiptsReplay` says that the receipts alone tell every status. Its invariant
  (`ReceiptsInv`) adds to `AuditReplay` that the replay of a chain began as the
  row's own policy effect does: a later receipt has to be judged by the policy
  that the first one was written under, which the status does not show.
  `Replay` is a recursive function over the chain; that it exists, that a longer
  chain extends it and that receipts of other actions do not move it are lemmas
  of their own (`ReplayExists`, `ReplayAppend`, `ReplayQuiet`). `list_actions`
  writes several receipts at once, in any order: `ReplayOnce` says that each
  action is moved by its own one only.
* `UsageIsAccounted`: the counters are the sums of what is held. The sum over a
  set is a recursive function over its subsets; `SumExists` and `SumChange` (one
  summand changes, the sum changes by as much) are proved by induction on
  subsets.
* `ReservationsStayInWindows` needs that a window's start is aligned to the
  length of its limit, and that this length never changes: `configure_limit`
  refuses an existing limit with another window (`SameIdentity`), and disabling
  a limit keeps its row (`LimitsKept`).
* `ControlsAreAudited` is inductive by itself, once the latest receipt of a
  subject is known to be the appended one or the one before (`LatestAfter`).
  `PausesStopStarts` follows: what stops a claim is the table, what an auditor
  reads is the receipts.

The barrier.

* `CallInv` is what the calls alone keep true: a call that is past `idle` has a
  request, one that is completing has committed and has a result.
* `BarrierUsesStore`: a barrier step is a store step or leaves the store alone,
  so `BarrierSpec => Spec` and every theorem about the store holds under
  crashes, lost answers and retries.
* Each store operation keeps every key (`Kept`) or moves one key between the
  phases open, started and settled (`Moved`); a caller can tell no more.
* `EffectInv` relates phases, operations and answers: a live operation runs for
  the exact request its key is bound to and while the key is started (or
  settled, once committed), a key has at most one live operation, a settled key
  has a committed one, and only settled keys have results. At-most-once is not
  inductive without the link between live operations and phases: it is what
  stops a second claim. `AtMostOnce`, `AlwaysFailsClosed`, `SuccessIsReal` and
  `AllCallersAgree` follow.
* `BarrierKeepsPromise`: the initial state maps to the initial state of
  `ProtectedEffect` and each kind of step to a step or a stutter.

The outbox.

* `TypeInv` adds to the types what each worker's own variables are worth: a
  worker in `sync_outbox` holds a position of its configuration, one between a
  claim and its answer a row that exists. `OutboxTypes` follows, and
  `OutboxAnswers`, which compares each row before and after every step.
* `SyncInv` makes `OutboxMatchesCheckpoint` inductive. `Enqueue` writes from a
  snapshot and a checkpoint the worker read earlier, so the proof needs
  `SyncedInv`: that checkpoint is never ahead of the endpoint's, and the
  settings the worker selected with are the registered ones, because a
  registration never changes (`EndpointsKept`). `CheckpointInv` keeps every
  checkpoint within the log, so that receipts recorded later fall beyond it.
  `OutboxSynchronised` follows.
* `OutboxInv` makes `AttemptsAccounted` inductive: a pending delivery has room
  for one more attempt (`AttemptsInv`). `mark_failed` decides by the attempts
  the worker was handed and by its own `max_attempts`; `HeldInv` and `SyncedInv`
  say that these are the row's and the endpoint's as long as the claim is the
  worker's. `OutboxAttempts` follows.
* `OutboxImplementsDelivery` maps the rows to the outcomes of `EventDelivery`.
  It needs `AcceptedInv`: a worker that is about to record a delivery got it
  accepted.

The Slack services.

* `SlackInv` has two halves. `BaseInv` says what the two tasks of a process hold
  in their hands: a worker between a claim and its end a row that exists, a
  handler a click on a message that its row is bound to. `SlackTypes` follows.
* `TruthInv` says that what a handler is about to write is true. Marks are
  written after the decision, by another transaction on another database, maybe
  after a crash and by another service's handler: a handler that is about to mark
  knows of a decision that was taken (`MarkingInv`), one that is about to
  record knows of the mark (`RecordingInv`), and a decision that stands was taken
  by somebody (`StandingInv`), which is what a handler reads that finds the
  decision already there. `MarksStayTrue` follows.
* `DecisionsComeFromClicks` needs `AdmittedInv`: between the check of the list
  and the decision the configuration, the message and the binding are the
  handler's own and do not change (`BindingsAreKept`).
* `SlackKeepsGatePromise` maps the store's rows to `ApprovalGate`.

The API and the dashboard.

* `ReviewInv` is `TypeOK` with seven parts. `CallInv` says of every request
  under way that its principal is one of some document's, that what awaits a body
  has passed `require_scope`, and that forms were offered for decisions its
  principal is entitled to. `TenantsStayApart` and `OffersAreAccepted` are parts
  of it: they survive a restart with another document because an answer is
  judged by the principal it was given to.
* `PagingInv` makes half of `NothingIsMissed` inductive: an action that matched
  all the time was given to the client or comes after its cursor in `listed`,
  wherever new ones are inserted. `PollingInv` does it for receipts: those at or
  below the position were given, hidden or raced, also after a restart with
  another document. `LogInv` is needed because a receipt of an action that is not
  listed could become visible later. A client that has not begun to poll has position 0; without that the invariant is not
  inductive, since its token would say nothing of what it was given.
* `SessionsLeaveRoom` rests on `RoomInv` and on `TurnedAway`: a login drops
  what has expired before it counts.
* `ReviewKeepsGatePromise` maps the store's rows to `ApprovalGate`; both proofs
  share the lemmas of `ApprovalLifecycleProofs`.

The harness.

* `HarnessTypes` says more than types: a handle that is done has an outcome and
  no effect left. `RunInv` (a handle by itself) and `Underway` (effects run only
  once every approval is decided, of actions that were let through and are not
  completed) make it inductive.
* `ContractIsKept` needs to know what `_completed` says of the journal
  (`JournalInv`): a committed action is in it, one that was lost and is not in
  it was disproved, and one in it is committed or lost and not disproved. The
  last is true only because a response is lost at most once and before any
  reconciliation. At-most-once is then `Underway` and the first of these. It
  holds of callers without a script; in `reconcile_conflict` somebody else
  commits too.
* `ScenariosAlwaysPass` is `ScriptInv` and `ResultsInv` on top of these.
  `ResultsInv` says what a result can be, and is kept because every call of a
  script finds what the script expects. `ScriptInv` says what is true before the
  call that comes next, by the name of the scenario and the number of the call:
  - `ApprovingInv`, for the six scenarios with approvals: which decisions are
    taken so far (`DecisionBefore`), that nothing runs before the last of them
    (`DecidedBy`), and what is committed once the handle is done. `TrailInv` adds
    the receipts written so far, in either order of the two actions, which is
    what `audit_receipts` compares in the end.
  - `TryingInv`, for the six that replay or reconcile: what the first attempt
    committed and whether its response was lost (`TryRun`), that a replay of a
    completed action has nothing left to do (`RepeatRun`), and that the journal is
    what the evidence found so far makes of it.
  - `StoppingInv`, for `cancellation` and `timeout`: the sentinel is blocked
    until it is released, nothing commits, and the handle ends as it was stopped.
    The one error there can be is a timeout that fires before the effect started.

  Each says what the interleavings of the effects' tasks leave open between two
  calls, so a call is taken from any of them. The scripts themselves are fixed,
  and each call's position is a case of the proof.

What TLC checks and no theorem states:

* Liveness: `AbandonedIsNoticed`, `EventuallySettled`, `EveryEventReachesOutbox`
  and `PendingIsAnnounced`. They rest on fairness, and tlapm reasons about
  neither ENABLED nor the weak fairness defined by it.

Every safety property that a passing run checks is stated by a theorem.

## 5. What is not modelled

* *PostgreSQL* (`runtime/postgres.py`): the operations are the store's. The
  advisory lock, its timeout and the schema's creation belong to the connection,
  whose behaviour is psycopg's; every module takes a store operation as one
  serial transaction, which is what the lock is for.
* *Receipt hashes* (`verify_receipt_chain`): the chain is a sequence whose
  entries are never changed. What a changed database would show is a property of
  SHA-256 and not of this code's order of steps. `backup` copies the file.
* *Policy* (`runtime/policy.py`): first match over tool and arguments, without
  state. The store's modules let a request meet any effect at any time, which
  covers every policy.
* *MCP gateway and integrations* (`mcp/`, `integrations/`): each call is one
  `execute_async`, which `RuntimeBarrier` models with any number of callers;
  they keep no state between calls.
* *Framework adapters* (`adapters/` but `reference.py`): they drive third-party
  frameworks that are not in the repository; what they must do is `Conformance`.
* *Of the harness*: the callbacks `commit_action` and `reconcile_action`, two
  replays at once, a reconciliation during a replay, and the order of wall-clock
  timestamps that the audit scenario checks.
* *Of the services*: tokens are compared for equality, requests come from the
  dashboard's own pages (CSRF tokens and origins), query strings are well
  formed, and documents change only with a restart (`docs/dashboard.md`).
* *Output*: serialisation, command line, reports, telemetry, HTML, headers and
  the OpenAPI document hold no state the properties are about.
