------------------------- MODULE WebhookOutboxProofs -------------------------
(***************************************************************************)
(* Machine-checked facts about WebhookOutbox for every number of workers,  *)
(* endpoints, receipts, faults and retries, and every configuration.       *)
(*                                                                         *)
(* TypeInv gives every worker a place: the configuration it holds, the     *)
(* position and the snapshot it synchronises, the row it delivers.  From   *)
(* it alone follow the owner's answers; with AcceptedInv, the refinement   *)
(* of EventDelivery; with SyncInv, that deliveries and checkpoints agree;  *)
(* with OutboxInv, the bound on the attempts.                              *)
(***************************************************************************)
EXTENDS WebhookOutbox, TLAPS

-------------------------------------------------------------------------------
(* Types.                                                                  *)

LEMMA ConfigType ==
  ASSUME NEW config \in Configs
  PROVE  /\ config \in Seq(Setting)
         /\ Len(config) \in Nat \ {0}
         /\ DOMAIN config = 1..Len(config)
         /\ \A i \in DOMAIN config : config[i] \in Setting
<1>1. config \in Seq(Setting) /\ config # <<>>
  BY OutboxAssumption
<1> QED BY <1>1

(* Claimant and lease are those of a delivery under way, or of none.       *)
Coherent(d) ==
  /\ d.status = "delivering" <=> d.claimedBy # NoWorker
  /\ d.leased => d.status = "delivering"

LEMMA RowType ==
  ASSUME TypeOK, NEW e \in Endpoints, NEW n \in Sequences,
         deliveries[e][n] # NoDelivery
  PROVE  deliveries[e][n] \in Delivery /\ Coherent(deliveries[e][n])
BY DEF TypeOK, Coherent

Busy == {"sending", "accepted", "failing"}

(* What a worker's own variables are worth: it holds a configuration, while *)
(* it synchronises a position in it and a snapshot of the log, and while    *)
(* it delivers a row that exists.                                          *)
PlaceInv(w) ==
  /\ worker[w].stage # "down" => worker[w].config \in Configs
  /\ worker[w].stage \in {"registering", "enqueueing"} =>
       /\ worker[w].position \in DOMAIN worker[w].config
       /\ worker[w].observed \leq Len(log)
  /\ worker[w].stage = "enqueueing" => endpoints[Current(w).id] # NoEndpoint
  /\ worker[w].stage \in Busy =>
       /\ Held(w).endpoint \in Endpoints /\ Held(w).sequence \in Sequences
       /\ deliveries[Held(w).endpoint][Held(w).sequence] # NoDelivery

TypeInv == TypeOK /\ \A w \in Workers : PlaceInv(w)

LEMMA TypeInit == Init => TypeInv
<1> SUFFICES ASSUME Init PROVE TypeInv
  OBVIOUS
<1>1. TypeOK
  BY OutboxAssumption DEF Init, TypeOK, Delivery, WorkerState, Stage, Down, Fresh, NoTask,
     Sequences
<1>2. \A w \in Workers : PlaceInv(w)
  BY DEF Init, PlaceInv, Down, Fresh, Busy
<1> QED BY <1>1, <1>2 DEF TypeInv

LEMMA CurrentType ==
  ASSUME TypeInv, NEW w \in Workers, worker[w].stage \in {"registering", "enqueueing"}
  PROVE  /\ Current(w) \in Setting /\ Current(w).id \in Endpoints
         /\ worker[w].config \in Configs
         /\ worker[w].position \in DOMAIN worker[w].config
         /\ worker[w].observed \in 0..Len(log)
<1>1. worker[w].config \in Configs /\ worker[w].position \in DOMAIN worker[w].config
      /\ worker[w].observed \in Nat /\ worker[w].observed \leq Len(log)
  BY DEF TypeInv, PlaceInv, TypeOK, WorkerState
<1>2. Current(w) \in Setting
  BY <1>1, ConfigType DEF Current
<1> QED BY <1>1, <1>2 DEF Setting

(* No row is ever deleted.                                                 *)
Persist ==
  /\ \A e \in Endpoints : endpoints[e] # NoEndpoint => endpoints'[e] # NoEndpoint
  /\ \A e \in Endpoints, n \in Sequences :
       deliveries[e][n] # NoDelivery => deliveries'[e][n] # NoDelivery

(* The other workers stay where they are.                                  *)
LEMMA PlaceFrame ==
  ASSUME TypeInv, Persist, Len(log) \leq Len(log'), Len(log) \in Nat, Len(log') \in Nat,
         NEW v \in Workers, worker'[v] = worker[v]
  PROVE  PlaceInv(v)'
<1>1. worker[v].observed \in Nat
  BY DEF TypeInv, TypeOK, WorkerState
<1>2. PlaceInv(v)
  BY DEF TypeInv
<1>3. Held(v)' = Held(v) /\ Current(v)' = Current(v)
  BY DEF Held, Current
<1>4. worker[v].stage = "enqueueing" => Current(v).id \in Endpoints
  BY CurrentType
<1> QED BY <1>1, <1>2, <1>3, <1>4 DEF PlaceInv, Persist

LEMMA TypeAppend ==
  ASSUME TypeInv, NEW event \in Events, AppendReceipt(event)
  PROVE  TypeInv'
<1>1. log' \in Seq(Events) /\ Len(log') = Len(log) + 1 /\ Len(log) \in Nat
  BY DEF AppendReceipt, TypeInv, TypeOK
<1>2. TypeOK'
  BY <1>1, OutboxAssumption DEF AppendReceipt, TypeInv, TypeOK, tables
<1>3. ASSUME NEW v \in Workers PROVE PlaceInv(v)'
  BY <1>1, PlaceFrame DEF AppendReceipt, Persist, tables
<1> QED BY <1>2, <1>3 DEF TypeInv

(* A step of one worker keeps the types if the tables keep theirs and the  *)
(* worker ends in a place of its own.                                      *)
TablesType ==
  /\ endpoints \in [Endpoints -> EndpointRow \cup {NoEndpoint}]
  /\ deliveries \in [Endpoints -> [Sequences -> Delivery \cup {NoDelivery}]]
  /\ \A e \in Endpoints, n \in Sequences :
       deliveries[e][n] # NoDelivery => Coherent(deliveries[e][n])
  /\ received \subseteq Endpoints \X Sequences
  /\ origin \in [Endpoints -> Nat]
  /\ lost \in [Endpoints -> [Sequences -> Nat]]
  /\ faults \in 0..MaxFaults /\ retries \in 0..MaxRetries

LEMMA TypeByWorker ==
  ASSUME TypeInv, NEW w \in Workers, UNCHANGED log, TablesType', Persist,
         NEW s \in WorkerState, worker' = [worker EXCEPT ![w] = s], PlaceInv(w)'
  PROVE  TypeInv'
<1>1. TypeOK'
  BY DEF TypeInv, TypeOK, TablesType, Coherent
<1>2. Len(log) \in Nat
  BY DEF TypeInv, TypeOK
<1>3. ASSUME NEW v \in Workers, v # w PROVE PlaceInv(v)'
  BY <1>2, <1>3, PlaceFrame DEF TypeInv, TypeOK
<1> QED BY <1>1, <1>3 DEF TypeInv

LEMMA TablesFrame ==
  ASSUME TypeInv, UNCHANGED <<tables, received, origin, lost, retries>>,
         faults' \in 0..MaxFaults
  PROVE  TablesType' /\ Persist
BY DEF TypeInv, TypeOK, TablesType, Persist, tables, Coherent

LEMMA FreshType ==
  ASSUME NEW stage \in Stage, NEW config \in Configs \cup {<<>>}
  PROVE  Fresh(stage, config) \in WorkerState
BY DEF Fresh, WorkerState, NoTask

LEMMA WorkerType ==
  ASSUME TypeInv, NEW w \in Workers
  PROVE  worker[w] \in WorkerState
BY DEF TypeInv, TypeOK

LEMMA TypeFall ==
  ASSUME TypeInv, NEW w \in Workers, Fall(w), UNCHANGED log, TablesType', Persist
  PROVE  TypeInv'
<1>1. worker' = [worker EXCEPT ![w] = Down]
  BY DEF Fall
<1>2. Down \in WorkerState
  BY FreshType DEF Down, Stage
<1>3. worker'[w] = Down
  BY <1>1 DEF TypeInv, TypeOK
<1>4. PlaceInv(w)'
  BY <1>3 DEF PlaceInv, Down, Fresh, Busy
<1> QED BY <1>1, <1>2, <1>4, TypeByWorker

LEMMA TypeStart ==
  ASSUME TypeInv, NEW w \in Workers, NEW config \in Configs, Start(w, config)
  PROVE  TypeInv'
<1>1. Fresh("idle", config) \in WorkerState
  BY FreshType DEF Stage
<1>2. worker' = [worker EXCEPT ![w] = Fresh("idle", config)]
  BY DEF Start
<1>3. worker'[w] = Fresh("idle", config)
  BY <1>2 DEF TypeInv, TypeOK
<1>4. PlaceInv(w)'
  BY <1>3 DEF PlaceInv, Fresh, Busy
<1>5. TablesType' /\ Persist
  BY TablesFrame DEF Start, TypeInv, TypeOK
<1> QED BY <1>1, <1>2, <1>4, <1>5, TypeByWorker DEF Start

LEMMA TypeCrash ==
  ASSUME TypeInv, NEW w \in Workers,
         Crash(w) \/ RegisterRaises(w) \/ MarkRaises(w)
  PROVE  TypeInv'
<1>1. faults' \in 0..MaxFaults
  BY OutboxAssumption DEF Crash, RegisterRaises, MarkRaises, TypeInv, TypeOK
<1>2. TablesType' /\ Persist
  BY <1>1, TablesFrame DEF Crash, RegisterRaises, MarkRaises
<1> QED BY <1>2, TypeFall DEF Crash, RegisterRaises, MarkRaises

LEMMA TypeSnapshot ==
  ASSUME TypeInv, NEW w \in Workers, Snapshot(w)
  PROVE  TypeInv'
<1> DEFINE s == [worker[w] EXCEPT !.stage = "registering", !.observed = Len(log),
                                  !.position = 1]
<1>1. worker' = [worker EXCEPT ![w] = s]
  BY DEF Snapshot
<1>2. Len(log) \in Nat
  BY DEF TypeInv, TypeOK
<1>3. s \in WorkerState
  BY <1>2, WorkerType DEF WorkerState, Stage
<1>4. worker'[w] = s
  BY <1>1 DEF TypeInv, TypeOK
<1>5. worker[w].config \in Configs
  BY DEF Snapshot, TypeInv, PlaceInv
<1>6. s.stage = "registering" /\ s.config = worker[w].config /\ s.position = 1
      /\ s.observed = Len(log)
  BY WorkerType DEF WorkerState
<1>7. PlaceInv(w)'
  BY <1>2, <1>4, <1>5, <1>6, ConfigType DEF PlaceInv, Busy, Snapshot
<1>8. TablesType' /\ Persist
  BY TablesFrame DEF Snapshot, TypeInv, TypeOK
<1> QED BY <1>1, <1>3, <1>7, <1>8, TypeByWorker DEF Snapshot

LEMMA FirstCheckpointType ==
  ASSUME TypeInv, NEW setting \in Setting, NEW observed \in Nat
  PROVE  FirstCheckpoint(setting, observed) \in Nat
<1>1. setting.id \in Endpoints
  BY DEF Setting
<1>2. endpoints[setting.id] # NoEndpoint => endpoints[setting.id] \in EndpointRow
  BY <1>1 DEF TypeInv, TypeOK
<1> QED BY <1>2 DEF FirstCheckpoint, EndpointRow

LEMMA RegisterTables ==
  ASSUME TypeInv, NEW setting \in Setting, NEW checkpoint \in Nat,
         RegisterRow(setting, checkpoint),
         UNCHANGED <<deliveries, received, lost, faults, retries>>
  PROVE  TablesType' /\ Persist /\ endpoints'[setting.id] # NoEndpoint
<1>1. setting.id \in Endpoints
  BY DEF Setting
<1>2. [config |-> setting, checkpoint |-> checkpoint] \in EndpointRow
  BY DEF EndpointRow
<1>3. [config |-> setting, checkpoint |-> checkpoint] # NoEndpoint
  BY <1>2, NothingAssumption
<1>4. UNCHANGED deliveries /\ endpoints \in [Endpoints -> EndpointRow \cup {NoEndpoint}]
  BY DEF TypeInv, TypeOK
<1>5. /\ endpoints' \in [Endpoints -> EndpointRow \cup {NoEndpoint}]
      /\ endpoints'[setting.id] # NoEndpoint
      /\ \A e \in Endpoints : endpoints[e] # NoEndpoint => endpoints'[e] # NoEndpoint
  <2>1. CASE endpoints[setting.id] # NoEndpoint
    BY <1>4, <2>1 DEF RegisterRow
  <2>2. CASE endpoints[setting.id] = NoEndpoint
    <3>1. endpoints' = [endpoints EXCEPT ![setting.id] =
                          [config |-> setting, checkpoint |-> checkpoint]]
      BY <2>2 DEF RegisterRow
    <3> QED BY <1>1, <1>2, <1>3, <1>4, <3>1
  <2> QED BY <2>1, <2>2
<1>6. origin' \in [Endpoints -> Nat]
  BY DEF RegisterRow, TypeInv, TypeOK
<1>7. TablesType'
  BY <1>4, <1>5, <1>6 DEF TypeInv, TypeOK, TablesType, Coherent
<1> QED BY <1>4, <1>5, <1>7 DEF Persist

LEMMA TypeRegister ==
  ASSUME TypeInv, NEW w \in Workers, Register(w)
  PROVE  TypeInv'
<1> DEFINE checkpoint == FirstCheckpoint(Current(w), worker[w].observed)
           s == [worker[w] EXCEPT !.stage = "enqueueing", !.checkpoint = checkpoint]
<1>1. Current(w) \in Setting /\ worker[w].observed \in Nat
  BY CurrentType DEF Register
<1>2. checkpoint \in Nat
  BY <1>1, FirstCheckpointType
<1>3. RegisterRow(Current(w), checkpoint)
  BY DEF Register
<1>4. worker' = [worker EXCEPT ![w] = s]
  BY DEF Register
<1> HIDE DEF checkpoint
<1>5. s \in WorkerState
  BY <1>2, WorkerType DEF WorkerState, Stage
<1>6. worker'[w] = s
  BY <1>4 DEF TypeInv, TypeOK
<1>7. TablesType' /\ Persist /\ endpoints'[Current(w).id] # NoEndpoint
  BY <1>1, <1>2, <1>3, RegisterTables DEF Register
<1>8. s.stage = "enqueueing" /\ s.config = worker[w].config
      /\ s.position = worker[w].position /\ s.observed = worker[w].observed
  BY WorkerType DEF WorkerState
<1>9. Current(w)' = Current(w)
  BY <1>6, <1>8 DEF Current
<1>10. PlaceInv(w)'
  BY <1>6, <1>7, <1>8, <1>9 DEF PlaceInv, Busy, Register, TypeInv
<1> QED BY <1>4, <1>5, <1>7, <1>10, TypeByWorker DEF Register

LEMMA TypeBuildRaises ==
  ASSUME TypeInv, NEW w \in Workers, BuildRaises(w)
  PROVE  TypeInv'
<1>1. Current(w) \in Setting /\ worker[w].observed \in Nat
  BY CurrentType DEF BuildRaises
<1>2. FirstCheckpoint(Current(w), worker[w].observed) \in Nat
  BY <1>1, FirstCheckpointType
<1>3. TablesType' /\ Persist
  BY <1>1, <1>2, RegisterTables DEF BuildRaises
<1> QED BY <1>3, TypeFall DEF BuildRaises

LEMMA PendingType == Pending \in Delivery /\ Coherent(Pending)
BY DEF Pending, Delivery, Coherent

LEMMA EnqueueTables ==
  ASSUME TypeInv, NEW w \in Workers, Enqueue(w)
  PROVE  TablesType' /\ Persist
<1> DEFINE id == Current(w).id
           new == {n \in Selected(Current(w), worker[w].checkpoint, worker[w].observed) :
                     n > endpoints[id].checkpoint /\ deliveries[id][n] = NoDelivery}
<1>1. id \in Endpoints /\ worker[w].observed \in Nat
  BY CurrentType DEF Enqueue
<1>2. endpoints[id] # NoEndpoint
  BY DEF Enqueue, TypeInv, PlaceInv
<1>3. deliveries' = [deliveries EXCEPT ![id] =
        [n \in Sequences |-> IF n \in new THEN Pending ELSE @[n]]]
  BY DEF Enqueue
<1>4. endpoints' = [endpoints EXCEPT ![id].checkpoint = Advanced(@, worker[w].observed)]
  BY DEF Enqueue
<1>5. UNCHANGED <<received, origin, lost, faults, retries>>
  BY DEF Enqueue
<1> HIDE DEF id, new
<1>6. endpoints[id] \in EndpointRow
  BY <1>1, <1>2 DEF TypeInv, TypeOK
<1>7. endpoints'[id] \in EndpointRow
  BY <1>1, <1>4, <1>6 DEF TypeInv, TypeOK, EndpointRow, Advanced
<1>8. endpoints' \in [Endpoints -> EndpointRow \cup {NoEndpoint}]
      /\ \A e \in Endpoints : endpoints[e] # NoEndpoint => endpoints'[e] # NoEndpoint
  BY <1>1, <1>4, <1>7, NothingAssumption DEF TypeInv, TypeOK
<1>9. ASSUME NEW e \in Endpoints, NEW n \in Sequences
      PROVE  deliveries'[e][n] = deliveries[e][n] \/ deliveries'[e][n] = Pending
  BY <1>3 DEF TypeInv, TypeOK
<1>10. deliveries' \in [Endpoints -> [Sequences -> Delivery \cup {NoDelivery}]]
  BY <1>1, <1>3, PendingType DEF TypeInv, TypeOK
<1>11. Persist
  BY <1>8, <1>9, PendingType, NothingAssumption DEF Persist
<1>12. \A e \in Endpoints, n \in Sequences :
         deliveries'[e][n] # NoDelivery => Coherent(deliveries'[e][n])
  BY <1>9, PendingType, RowType DEF TypeInv
<1>13. TablesType'
  BY <1>5, <1>8, <1>10, <1>12 DEF TypeInv, TypeOK, TablesType, Coherent
<1> QED BY <1>11, <1>13

LEMMA TypeEnqueue ==
  ASSUME TypeInv, NEW w \in Workers, Enqueue(w)
  PROVE  TypeInv'
<1>1. TablesType' /\ Persist /\ UNCHANGED log
  BY EnqueueTables DEF Enqueue
<1>2. worker[w] \in WorkerState /\ worker[w].config \in Configs
      /\ worker[w].position \in DOMAIN worker[w].config
      /\ worker[w].observed \leq Len(log)
  BY CurrentType, WorkerType DEF Enqueue, TypeInv, PlaceInv
<1>3. CASE worker[w].position < Len(worker[w].config)
  <2> DEFINE s == [worker[w] EXCEPT !.stage = "registering", !.checkpoint = 0,
                                    !.position = worker[w].position + 1]
  <2>1. worker' = [worker EXCEPT ![w] = s]
    BY <1>3 DEF Enqueue
  <2>p. worker[w].position + 1 \in Nat
    BY <1>2 DEF WorkerState
  <2>2. s \in WorkerState /\ s.stage = "registering" /\ s.config = worker[w].config
        /\ s.position = worker[w].position + 1 /\ s.observed = worker[w].observed
    BY <1>2, <2>p DEF WorkerState, Stage
  <2> HIDE DEF s
  <2>3. worker'[w] = s
    BY <2>1 DEF TypeInv, TypeOK
  <2>4. PlaceInv(w)'
    BY <1>1, <1>2, <1>3, <2>2, <2>3, ConfigType DEF PlaceInv, Busy
  <2> QED BY <1>1, <2>1, <2>2, <2>4, TypeByWorker
<1>4. CASE ~(worker[w].position < Len(worker[w].config))
  <2> DEFINE s == Fresh("claiming", worker[w].config)
  <2>1. worker' = [worker EXCEPT ![w] = s]
    BY <1>4 DEF Enqueue
  <2>2. s \in WorkerState
    BY <1>2, FreshType DEF Stage
  <2>3. worker'[w] = s
    BY <2>1 DEF TypeInv, TypeOK
  <2>4. PlaceInv(w)'
    BY <1>2, <2>3 DEF PlaceInv, Busy, Fresh
  <2> QED BY <1>1, <2>1, <2>2, <2>4, TypeByWorker
<1> QED BY <1>3, <1>4

LEMMA RecoveredType ==
  ASSUME NEW r \in Delivery
  PROVE  /\ Recovered(r) \in Delivery
         /\ Recovered(r).status = "pending" /\ Recovered(r).attempts = r.attempts
         /\ Coherent(Recovered(r))
<1>1. r.attempts \in Nat
  BY DEF Delivery
<1> QED BY <1>1 DEF Recovered, Pending, Delivery, Coherent

LEMMA ClaimedType ==
  ASSUME NEW r \in Delivery, NEW w \in Workers
  PROVE  /\ Claimed(r, w) \in Delivery
         /\ Claimed(r, w).status = "delivering" /\ Coherent(Claimed(r, w))
         /\ Claimed(r, w).attempts = r.attempts + 1 /\ Claimed(r, w).claimedBy = w
<1>1. r.attempts \in Nat /\ r.due \in BOOLEAN
  BY DEF Delivery
<1> QED BY <1>1, OutboxAssumption DEF Claimed, Delivery, Coherent

(* A row after a claim is as it was, recovered, or claimed by w.           *)
LEMMA ClaimedRow ==
  ASSUME TypeInv, NEW w \in Workers, NEW e \in Endpoints, NEW n \in Sequences,
         ClaimRow(w, e, n), NEW d \in Endpoints, NEW m \in Sequences
  PROVE  /\ <<d, m>> # <<e, n>> =>
              deliveries'[d][m] = IF Expired(d, m) THEN Recovered(deliveries[d][m])
                                  ELSE deliveries[d][m]
         /\ <<d, m>> = <<e, n>> =>
              deliveries'[d][m] = Claimed(IF Expired(d, m) THEN Recovered(deliveries[d][m])
                                          ELSE deliveries[d][m], w)
         /\ lost'[d][m] = lost[d][m] + (IF Expired(d, m) THEN 1 ELSE 0)
BY DEF ClaimRow

LEMMA ClaimTables ==
  ASSUME TypeInv, NEW w \in Workers, NEW e \in Endpoints, NEW n \in Sequences,
         ClaimRow(w, e, n)
  PROVE  /\ TablesType' /\ Persist
         /\ deliveries[e][n] \in Delivery /\ deliveries'[e][n] # NoDelivery
<1>1. deliveries[e][n] # NoDelivery
  BY DEF ClaimRow, FirstDue, Due, Expired
<1>2. deliveries[e][n] \in Delivery
  BY <1>1, RowType DEF TypeInv
<1>4. ASSUME NEW d \in Endpoints, NEW m \in Sequences
      PROVE  /\ deliveries[d][m] = NoDelivery => deliveries'[d][m] = NoDelivery
             /\ deliveries[d][m] # NoDelivery =>
                  deliveries'[d][m] \in Delivery /\ Coherent(deliveries'[d][m])
  <2>1. CASE deliveries[d][m] = NoDelivery
    BY <1>1, <2>1, ClaimedRow DEF Expired
  <2>2. CASE deliveries[d][m] # NoDelivery
    <3> DEFINE open == IF Expired(d, m) THEN Recovered(deliveries[d][m])
                       ELSE deliveries[d][m]
    <3>1. deliveries[d][m] \in Delivery /\ Coherent(deliveries[d][m])
      BY <2>2, RowType DEF TypeInv
    <3>2. open \in Delivery /\ Coherent(open)
      BY <3>1, RecoveredType
    <3>3. deliveries'[d][m] = open \/ deliveries'[d][m] = Claimed(open, w)
      BY ClaimedRow
    <3> HIDE DEF open
    <3> QED BY <2>2, <3>2, <3>3, ClaimedType
  <2> QED BY <2>1, <2>2
<1>5. deliveries' \in [Endpoints -> [Sequences -> Delivery \cup {NoDelivery}]]
  BY <1>4 DEF ClaimRow
<1>6. lost' \in [Endpoints -> [Sequences -> Nat]]
  BY DEF ClaimRow, TypeInv, TypeOK
<1>7. UNCHANGED <<endpoints, received, origin, faults, retries>>
  BY DEF ClaimRow
<1>8. TablesType'
  BY <1>4, <1>5, <1>6, <1>7 DEF TypeInv, TypeOK, TablesType, Coherent
<1>9. Persist
  BY <1>4, <1>7, NothingAssumption DEF Persist
<1> QED BY <1>1, <1>2, <1>8, <1>9 DEF Persist

LEMMA TypeClaim ==
  ASSUME TypeInv, NEW w \in Workers, NEW e \in Endpoints, NEW n \in Sequences,
         Claim(w, e, n) \/ ClaimRaises(w, e, n)
  PROVE  TypeInv'
<1>1. ClaimRow(w, e, n) /\ UNCHANGED log
  BY DEF Claim, ClaimRaises, ClaimRow
<1>2. TablesType' /\ Persist /\ deliveries[e][n] \in Delivery
      /\ deliveries'[e][n] # NoDelivery
  BY <1>1, ClaimTables
<1>3. CASE ClaimRaises(w, e, n)
  BY <1>1, <1>2, <1>3, TypeFall DEF ClaimRaises
<1>4. CASE Claim(w, e, n)
  <2> DEFINE task == [endpoint |-> e, sequence |-> n,
                      attempts |-> deliveries[e][n].attempts + 1]
             s == [worker[w] EXCEPT !.stage = "sending", !.task = task]
  <2>1. worker' = [worker EXCEPT ![w] = s]
    BY <1>4 DEF Claim
  <2>t. task \in [endpoint : Nat, sequence : Nat, attempts : Nat]
    BY <1>2, OutboxAssumption DEF Delivery, Sequences
  <2> HIDE DEF task
  <2>2. s \in WorkerState /\ s.stage = "sending" /\ s.task = task
        /\ s.config = worker[w].config
    BY <2>t, WorkerType DEF WorkerState, Stage
  <2>3. worker[w].config \in Configs
    BY <1>1 DEF ClaimRow, TypeInv, PlaceInv
  <2> HIDE DEF s
  <2>4. worker'[w] = s
    BY <2>1 DEF TypeInv, TypeOK
  <2>5. Held(w)' = task
    BY <2>2, <2>4 DEF Held
  <2>6. PlaceInv(w)'
    BY <1>2, <2>2, <2>3, <2>4, <2>5 DEF PlaceInv, task
  <2> QED BY <1>1, <1>2, <2>1, <2>2, <2>6, TypeByWorker
<1> QED BY <1>3, <1>4

(* A change of stage alone, which keeps a busy worker's task.              *)
LEMMA TypeStage ==
  ASSUME TypeInv, NEW w \in Workers, NEW stage \in Stage \ {"registering", "enqueueing"},
         worker[w].stage # "down", stage \in Busy => worker[w].stage \in Busy,
         worker' = [worker EXCEPT ![w].stage = stage],
         UNCHANGED log, TablesType', Persist
  PROVE  TypeInv'
<1> DEFINE s == [worker[w] EXCEPT !.stage = stage]
<1>1. worker' = [worker EXCEPT ![w] = s]
  OBVIOUS
<1>2. s \in WorkerState /\ s.stage = stage /\ s.task = worker[w].task
      /\ s.config = worker[w].config
  BY WorkerType DEF WorkerState
<1> HIDE DEF s
<1>3. worker'[w] = s
  BY <1>1 DEF TypeInv, TypeOK
<1>4. Held(w)' = Held(w)
  BY <1>2, <1>3 DEF Held
<1>5. PlaceInv(w)
  BY DEF TypeInv
<1>6. PlaceInv(w)'
  BY <1>2, <1>3, <1>4, <1>5 DEF PlaceInv, Persist, Stage
<1> QED BY <1>1, <1>2, <1>6, TypeByWorker

LEMMA TypeAnswer ==
  ASSUME TypeInv, NEW w \in Workers, Accept(w) \/ Refuse(w) \/ ClaimNothing(w)
  PROVE  TypeInv'
<1>1. UNCHANGED <<log, tables, origin, lost, faults, retries>>
  BY DEF Accept, Refuse, ClaimNothing
<1>2. worker[w].stage \in Busy => Event(w) \in Endpoints \X Sequences
  BY DEF TypeInv, PlaceInv, Event
<1>3. received' \subseteq Endpoints \X Sequences
  BY <1>2 DEF Accept, Refuse, ClaimNothing, Busy, TypeInv, TypeOK
<1>4. TablesType' /\ Persist
  BY <1>1, <1>3 DEF TypeInv, TypeOK, TablesType, Persist, tables, Coherent
<1>5. CASE ClaimNothing(w)
  <2>1. worker' = [worker EXCEPT ![w].stage = "idle"] /\ worker[w].stage = "claiming"
    BY <1>5 DEF ClaimNothing
  <2>2. "idle" \in Stage \ {"registering", "enqueueing"} /\ "idle" \notin Busy
    BY DEF Stage, Busy
  <2> QED BY <1>1, <1>4, <2>1, <2>2, TypeStage
<1>6. CASE Accept(w) \/ Refuse(w)
  <2>1. PICK stage \in {"accepted", "failing"} : Answer(w, stage)
    BY <1>6 DEF Accept, Refuse
  <2>2. worker[w].stage = "sending"
    BY <1>6 DEF Accept, Refuse
  <2>3. stage \in Stage \ {"registering", "enqueueing"}
    BY DEF Stage
  <2> QED BY <1>1, <1>4, <2>1, <2>2, <2>3, TypeStage DEF Answer, Busy
<1> QED BY <1>5, <1>6

Settled(r, status, due) ==
  [status |-> status, attempts |-> r.attempts, due |-> due,
   claimedBy |-> NoWorker, leased |-> FALSE]

LEMMA SettledType ==
  ASSUME NEW r \in Delivery, NEW status \in {"pending", "delivered", "dead"},
         NEW due \in BOOLEAN
  PROVE  /\ Settled(r, status, due) \in Delivery
         /\ Coherent(Settled(r, status, due))
         /\ Settled(r, status, due).status = status
         /\ Settled(r, status, due).attempts = r.attempts
<1>1. r.attempts \in Nat
  BY DEF Delivery
<1> QED BY <1>1 DEF Settled, Delivery, Coherent

(* What a step that replaces one row by r leaves behind it.                *)
RowBecomes(e, n, r) ==
  /\ TablesType' /\ Persist /\ deliveries'[e][n] = r
  /\ \A d \in Endpoints, m \in Sequences :
       <<d, m>> # <<e, n>> => deliveries'[d][m] = deliveries[d][m]

CountersType ==
  /\ lost \in [Endpoints -> [Sequences -> Nat]]
  /\ faults \in 0..MaxFaults /\ retries \in 0..MaxRetries

(* One row is replaced by a well-formed one.                               *)
LEMMA OneRow ==
  ASSUME TypeInv, NEW e \in Endpoints, NEW n \in Sequences, NEW r \in Delivery,
         Coherent(r), Change(e, n, r), UNCHANGED <<endpoints, received, origin>>,
         CountersType'
  PROVE  RowBecomes(e, n, r)
<1> USE DEF Change, CountersType
<1>1. deliveries' \in [Endpoints -> [Sequences -> Delivery \cup {NoDelivery}]]
  BY DEF TypeInv, TypeOK
<1>2. ASSUME NEW d \in Endpoints, NEW m \in Sequences
      PROVE  deliveries'[d][m] = IF <<d, m>> = <<e, n>> THEN r ELSE deliveries[d][m]
  BY DEF TypeInv, TypeOK
<1>3. Persist
  BY <1>2, NothingAssumption DEF Persist
<1>4. \A d \in Endpoints, m \in Sequences :
        deliveries'[d][m] # NoDelivery => Coherent(deliveries'[d][m])
  BY <1>2, RowType DEF TypeInv
<1>5. TablesType'
  BY <1>1, <1>4 DEF TypeInv, TypeOK, TablesType, Coherent
<1> QED BY <1>2, <1>3, <1>5 DEF RowBecomes

Row(w) == deliveries[Held(w).endpoint][Held(w).sequence]

(* A delivery is settled by its owner, and the others keep theirs.         *)
LEMMA SettleTables ==
  ASSUME TypeInv, NEW w \in Workers, worker[w].stage \in Busy,
         NEW status \in {"pending", "delivered", "dead"}, NEW due \in BOOLEAN,
         Settle(w, status, due)
  PROVE  /\ TablesType' /\ Persist
         /\ Held(w).endpoint \in Endpoints /\ Held(w).sequence \in Sequences
         /\ Row(w) \in Delivery /\ Row(w).status = "delivering" /\ Row(w).claimedBy = w
         /\ deliveries'[Held(w).endpoint][Held(w).sequence] = Settled(Row(w), status, due)
         /\ \A d \in Endpoints, m \in Sequences :
              <<d, m>> # Event(w) => deliveries'[d][m] = deliveries[d][m]
<1> DEFINE e == Held(w).endpoint
           n == Held(w).sequence
           r == Settled(deliveries[e][n], status, due)
<1>1. e \in Endpoints /\ n \in Sequences /\ deliveries[e][n] # NoDelivery
  BY DEF TypeInv, PlaceInv
<1>2. deliveries[e][n] \in Delivery
  BY <1>1, RowType DEF TypeInv
<1>3. deliveries' = [deliveries EXCEPT ![e][n] = r]
  BY DEF Settle, Settled
<1>4. UNCHANGED <<endpoints, received, origin, lost, faults, retries>>
  BY DEF Settle
<1>5. deliveries[e][n].status = "delivering" /\ deliveries[e][n].claimedBy = w
  BY DEF Settle, Owned
<1>6. CountersType'
  BY <1>4 DEF TypeInv, TypeOK, CountersType
<1>r. r \in Delivery /\ Coherent(r)
  BY <1>2, SettledType
<1>c. Change(e, n, r)
  BY <1>3 DEF Change
<1> HIDE DEF e, n, r
<1>7. RowBecomes(e, n, r)
  <2>1. UNCHANGED <<endpoints, received, origin>>
    BY <1>4
  <2>2. e \in Endpoints /\ n \in Sequences
    BY <1>1
  <2> QED BY <1>r, <1>c, <1>6, <2>1, <2>2, OneRow
<1>8. /\ TablesType' /\ Persist /\ deliveries'[e][n] = r
      /\ \A d \in Endpoints, m \in Sequences :
           <<d, m>> # <<e, n>> => deliveries'[d][m] = deliveries[d][m]
  BY <1>7 DEF RowBecomes
<1> QED BY <1>1, <1>2, <1>5, <1>8 DEF e, n, r, Row, Event

(* Both kinds of outcome, as one.                                          *)
LEMMA MarkSettles ==
  ASSUME NEW w \in Workers, MarkDelivered(w) \/ MarkFailed(w)
  PROVE  /\ worker[w].stage \in Busy
         /\ \E status \in {"pending", "delivered", "dead"}, due \in BOOLEAN :
              Settle(w, status, due)
BY DEF MarkDelivered, MarkFailed, Busy

LEMMA TypeMark ==
  ASSUME TypeInv, NEW w \in Workers, MarkDelivered(w) \/ MarkFailed(w)
  PROVE  TypeInv'
<1>1. worker[w].stage \in Busy
  BY MarkSettles
<1>2. PICK status \in {"pending", "delivered", "dead"}, due \in BOOLEAN :
         Settle(w, status, due)
  BY MarkSettles
<1> DEFINE s == [worker[w] EXCEPT !.stage = "claiming", !.task = NoTask]
<1>3. worker' = [worker EXCEPT ![w] = s] /\ UNCHANGED log
  BY <1>2 DEF Settle
<1>t. NoTask \in [endpoint : Nat, sequence : Nat, attempts : Nat]
  BY DEF NoTask
<1>4. s \in WorkerState /\ s.stage = "claiming" /\ s.config = worker[w].config
  <2>1. worker[w] \in WorkerState
    BY WorkerType
  <2> QED BY <1>t, <2>1 DEF WorkerState, Stage
<1> HIDE DEF s
<1>5. worker'[w] = s
  BY <1>3 DEF TypeInv, TypeOK
<1>6. PlaceInv(w)'
  BY <1>1, <1>4, <1>5 DEF PlaceInv, Busy, TypeInv
<1>7. TablesType' /\ Persist
  BY <1>1, <1>2, SettleTables
<1> QED BY <1>3, <1>4, <1>6, <1>7, TypeByWorker

(* Time and the operator change one row, and no claim of it.               *)
LEMMA EnvironmentRow ==
  ASSUME TypeInv, NEW e \in Endpoints, NEW n \in Sequences,
         Elapse(e, n) \/ RetryDead(e, n)
  PROVE  /\ TablesType' /\ Persist /\ UNCHANGED <<log, worker, endpoints, received, origin>>
         /\ deliveries[e][n] \in Delivery
         /\ \A d \in Endpoints, m \in Sequences :
              <<d, m>> # <<e, n>> => deliveries'[d][m] = deliveries[d][m]
         /\ \/ /\ Elapse(e, n)
               /\ deliveries'[e][n].status = deliveries[e][n].status
               /\ deliveries'[e][n].attempts = deliveries[e][n].attempts
               /\ deliveries'[e][n].claimedBy = deliveries[e][n].claimedBy
               /\ deliveries[e][n].status \in {"pending", "delivering"}
               /\ lost' = lost
            \/ /\ deliveries[e][n].status = "dead" /\ deliveries'[e][n] = Pending
               /\ lost' = [lost EXCEPT ![e][n] = 0]
<1>1. UNCHANGED <<log, worker, endpoints, received, origin>>
  BY DEF Elapse, BackoffElapses, LeaseElapses, RetryDead
<1>2. deliveries[e][n] # NoDelivery
  BY DEF Elapse, BackoffElapses, LeaseElapses, RetryDead
<1>3. deliveries[e][n] \in Delivery /\ Coherent(deliveries[e][n])
  BY <1>2, RowType DEF TypeInv
<1>4. CASE BackoffElapses(e, n)
  <2> DEFINE r == [deliveries[e][n] EXCEPT !.due = TRUE]
  <2>1. /\ r \in Delivery /\ Coherent(r)
        /\ r.status = deliveries[e][n].status /\ r.attempts = deliveries[e][n].attempts
        /\ r.claimedBy = deliveries[e][n].claimedBy
    BY <1>3 DEF Delivery, Coherent
  <2>2. Change(e, n, r)
    BY <1>4 DEF BackoffElapses
  <2>3. UNCHANGED <<lost, faults, retries>> /\ deliveries[e][n].status = "pending"
    BY <1>4 DEF BackoffElapses
  <2> HIDE DEF r
  <2>4. CountersType'
    BY <2>3 DEF TypeInv, TypeOK, CountersType
  <2>5. RowBecomes(e, n, r)
    <3>1. UNCHANGED <<endpoints, received, origin>>
      BY <1>1
    <3> QED BY <2>1, <2>2, <2>4, <3>1, OneRow
  <2> QED BY <1>1, <1>3, <1>4, <2>1, <2>3, <2>5 DEF Elapse, RowBecomes
<1>5. CASE LeaseElapses(e, n)
  <2> DEFINE r == [deliveries[e][n] EXCEPT !.leased = FALSE]
  <2>1. /\ r \in Delivery /\ Coherent(r)
        /\ r.status = deliveries[e][n].status /\ r.attempts = deliveries[e][n].attempts
        /\ r.claimedBy = deliveries[e][n].claimedBy
    BY <1>3 DEF Delivery, Coherent
  <2>2. Change(e, n, r)
    BY <1>5 DEF LeaseElapses
  <2>3. UNCHANGED <<lost, retries>> /\ deliveries[e][n].status = "delivering"
    BY <1>5 DEF LeaseElapses
  <2>4. faults' \in 0..MaxFaults
    BY <1>5, OutboxAssumption DEF LeaseElapses, TypeInv, TypeOK
  <2> HIDE DEF r
  <2>5. CountersType'
    BY <2>3, <2>4 DEF TypeInv, TypeOK, CountersType
  <2>6. RowBecomes(e, n, r)
    <3>1. UNCHANGED <<endpoints, received, origin>>
      BY <1>1
    <3> QED BY <2>1, <2>2, <2>5, <3>1, OneRow
  <2> QED BY <1>1, <1>3, <1>5, <2>1, <2>3, <2>6 DEF Elapse, RowBecomes
<1>6. CASE RetryDead(e, n)
  <2>1. Change(e, n, Pending) /\ Pending \in Delivery /\ Coherent(Pending)
    BY <1>6, PendingType DEF RetryDead
  <2>2. lost' = [lost EXCEPT ![e][n] = 0] /\ deliveries[e][n].status = "dead"
    BY <1>6 DEF RetryDead
  <2>3. CountersType'
    <3>1. lost' \in [Endpoints -> [Sequences -> Nat]]
      BY <2>2 DEF TypeInv, TypeOK
    <3>2. faults' \in 0..MaxFaults
      BY <1>6 DEF RetryDead, TypeInv, TypeOK
    <3>3. retries' \in 0..MaxRetries
      BY <1>6, OutboxAssumption DEF RetryDead, TypeInv, TypeOK
    <3> QED BY <3>1, <3>2, <3>3 DEF CountersType
  <2>4. RowBecomes(e, n, Pending)
    <3>1. UNCHANGED <<endpoints, received, origin>>
      BY <1>1
    <3> QED BY <2>1, <2>3, <3>1, OneRow
  <2>5. TablesType' /\ Persist /\ deliveries'[e][n] = Pending
        /\ \A d \in Endpoints, m \in Sequences :
             <<d, m>> # <<e, n>> => deliveries'[d][m] = deliveries[d][m]
    BY <2>4 DEF RowBecomes
  <2> QED BY <1>1, <1>3, <2>2, <2>5
<1> QED BY <1>4, <1>5, <1>6 DEF Elapse

LEMMA TypeEnvironment ==
  ASSUME TypeInv, NEW e \in Endpoints, NEW n \in Sequences,
         Elapse(e, n) \/ RetryDead(e, n)
  PROVE  TypeInv'
<1>1. TablesType' /\ Persist /\ UNCHANGED <<log, worker>>
  BY EnvironmentRow
<1>2. Len(log) \in Nat
  BY DEF TypeInv, TypeOK
<1>3. ASSUME NEW v \in Workers PROVE PlaceInv(v)'
  BY <1>1, <1>2, PlaceFrame
<1>4. TypeOK'
  BY <1>1 DEF TypeInv, TypeOK, TablesType, Coherent
<1> QED BY <1>3, <1>4 DEF TypeInv

LEMMA TypeStep == TypeInv /\ [Next]_vars => TypeInv'
<1> SUFFICES ASSUME TypeInv, [Next]_vars PROVE TypeInv'
  OBVIOUS
<1>1. ASSUME NEW event \in Events, AppendReceipt(event) PROVE TypeInv'
  BY <1>1, TypeAppend
<1>2. ASSUME NEW w \in Workers, Sync(w) PROVE TypeInv'
  BY <1>2, TypeSnapshot, TypeRegister, TypeBuildRaises, TypeCrash, TypeEnqueue DEF Sync
<1>3. ASSUME NEW w \in Workers, Process(w) PROVE TypeInv'
  BY <1>3, TypeClaim, TypeAnswer, TypeMark, TypeCrash DEF Process
<1>4. ASSUME NEW w \in Workers, Restart(w) \/ Crash(w) PROVE TypeInv'
  BY <1>4, TypeStart, TypeCrash DEF Restart
<1>5. ASSUME NEW e \in Endpoints, NEW n \in Sequences, Elapse(e, n) \/ RetryDead(e, n)
      PROVE  TypeInv'
  BY <1>5, TypeEnvironment
<1>6. CASE UNCHANGED vars
  <2>1. UNCHANGED <<log, worker, endpoints, deliveries>>
    BY <1>6 DEF vars, tables
  <2>2. TypeOK'
    BY <1>6 DEF vars, tables, TypeInv, TypeOK
  <2>3. ASSUME NEW w \in Workers PROVE PlaceInv(w)'
    BY <2>1, PlaceFrame DEF Persist, TypeInv, TypeOK
  <2> QED BY <2>2, <2>3 DEF TypeInv
<1> QED BY <1>1, <1>2, <1>3, <1>4, <1>5, <1>6 DEF Next

(* Rows stay well-formed whoever claims, dies and is started again: a      *)
(* delivery has a claimant exactly while it is under way.                  *)
THEOREM OutboxTypes == Spec => []TypeOK
<1>1. TypeInv => TypeOK
  BY DEF TypeInv
<1> QED BY <1>1, TypeInit, TypeStep, PTL DEF Spec

-------------------------------------------------------------------------------
(* Who settles a claim.                                                    *)

(* What AnswerFromOwner says of one row.                                   *)
OwnerAnswers(e, n) ==
  LET d == deliveries[e][n] IN
  (d # NoDelivery /\ deliveries'[e][n] # d /\ d.status = "delivering")
  => \/ d.leased /\ deliveries'[e][n] = [d EXCEPT !.leased = FALSE]
     \/ ~d.leased /\ deliveries'[e][n].status \in {"pending", "delivering"}
     \/ /\ Event(d.claimedBy) = <<e, n>>
        /\ worker[d.claimedBy].stage = "accepted"
             <=> deliveries'[e][n].status = "delivered"
        /\ worker'[d.claimedBy].stage = "claiming"

LEMMA AnswerSync ==
  ASSUME TypeInv, NEW w \in Workers, Sync(w), NEW e \in Endpoints, NEW n \in Sequences
  PROVE  OwnerAnswers(e, n)
<1>1. CASE Enqueue(w)
  <2> DEFINE id == Current(w).id
             new == {m \in Selected(Current(w), worker[w].checkpoint, worker[w].observed) :
                       m > endpoints[id].checkpoint /\ deliveries[id][m] = NoDelivery}
  <2>1. deliveries' = [deliveries EXCEPT ![id] =
          [m \in Sequences |-> IF m \in new THEN Pending ELSE @[m]]]
    BY <1>1 DEF Enqueue
  <2>2. e = id /\ n \in new => deliveries[e][n] = NoDelivery
    OBVIOUS
  <2> HIDE DEF id, new
  <2>3. deliveries[e][n] # NoDelivery => deliveries'[e][n] = deliveries[e][n]
    BY <2>1, <2>2 DEF TypeInv, TypeOK
  <2> QED BY <2>3 DEF OwnerAnswers
<1>2. CASE ~Enqueue(w)
  BY <1>2 DEF Sync, Snapshot, Register, BuildRaises, RegisterRaises, tables, OwnerAnswers
<1> QED BY <1>1, <1>2

LEMMA AnswerClaim ==
  ASSUME TypeInv, NEW w \in Workers, NEW d \in Endpoints, NEW m \in Sequences,
         ClaimRow(w, d, m), NEW e \in Endpoints, NEW n \in Sequences
  PROVE  OwnerAnswers(e, n)
<1> SUFFICES ASSUME deliveries[e][n] # NoDelivery, deliveries'[e][n] # deliveries[e][n],
                    deliveries[e][n].status = "delivering"
             PROVE  /\ ~deliveries[e][n].leased
                    /\ deliveries'[e][n].status \in {"pending", "delivering"}
  BY DEF OwnerAnswers
<1>1. deliveries[e][n] \in Delivery
  BY RowType DEF TypeInv
<1>2. Expired(e, n)
  <2>1. CASE <<e, n>> = <<d, m>>
    BY <2>1 DEF ClaimRow, FirstDue, Due
  <2>2. CASE <<e, n>> # <<d, m>>
    BY <2>2, ClaimedRow
  <2> QED BY <2>1, <2>2
<1> DEFINE open == Recovered(deliveries[e][n])
<1>3. open \in Delivery /\ open.status = "pending"
  BY <1>1, RecoveredType
<1>4. deliveries'[e][n] = open \/ deliveries'[e][n] = Claimed(open, w)
  BY <1>2, ClaimedRow
<1> HIDE DEF open
<1>5. deliveries'[e][n].status \in {"pending", "delivering"}
  BY <1>3, <1>4, ClaimedType
<1> QED BY <1>2, <1>5 DEF Expired

LEMMA AnswerMark ==
  ASSUME TypeInv, NEW w \in Workers, MarkDelivered(w) \/ MarkFailed(w),
         NEW e \in Endpoints, NEW n \in Sequences
  PROVE  OwnerAnswers(e, n)
<1>1. PICK status \in {"pending", "delivered", "dead"}, due \in BOOLEAN :
        /\ Settle(w, status, due)
        /\ worker[w].stage = "accepted" <=> status = "delivered"
  BY DEF MarkDelivered, MarkFailed
<1>2. worker[w].stage \in Busy
  BY MarkSettles
<1>3. /\ Held(w).endpoint \in Endpoints /\ Held(w).sequence \in Sequences
      /\ Row(w) \in Delivery /\ Row(w).claimedBy = w
      /\ deliveries'[Held(w).endpoint][Held(w).sequence] = Settled(Row(w), status, due)
      /\ <<e, n>> # Event(w) => deliveries'[e][n] = deliveries[e][n]
  BY <1>1, <1>2, SettleTables
<1>4. worker'[w].stage = "claiming"
  BY <1>1 DEF Settle, TypeInv, TypeOK, WorkerState
<1>5. CASE <<e, n>> = Event(w)
  <2>1. deliveries[e][n] = Row(w) /\ deliveries'[e][n] = Settled(Row(w), status, due)
    BY <1>3, <1>5 DEF Event, Row
  <2>2. deliveries'[e][n].status = status
    BY <1>3, <2>1, SettledType
  <2> QED BY <1>1, <1>3, <1>4, <1>5, <2>1, <2>2 DEF OwnerAnswers
<1> QED BY <1>3, <1>5 DEF OwnerAnswers

LEMMA AnswerEnvironment ==
  ASSUME TypeInv, NEW d \in Endpoints, NEW m \in Sequences,
         Elapse(d, m) \/ RetryDead(d, m), NEW e \in Endpoints, NEW n \in Sequences
  PROVE  OwnerAnswers(e, n)
<1>1. CASE <<e, n>> # <<d, m>>
  BY <1>1, EnvironmentRow DEF OwnerAnswers
<1>2. CASE <<e, n>> = <<d, m>>
  <2>1. CASE LeaseElapses(e, n)
    BY <2>1 DEF LeaseElapses, Change, OwnerAnswers, TypeInv, TypeOK
  <2>2. CASE BackoffElapses(e, n) \/ RetryDead(e, n)
    BY <2>2 DEF BackoffElapses, RetryDead, OwnerAnswers
  <2> QED BY <1>2, <2>1, <2>2 DEF Elapse
<1> QED BY <1>1, <1>2

LEMMA AnswerStep ==
  ASSUME TypeInv, [Next]_vars, NEW e \in Endpoints, NEW n \in Sequences
  PROVE  OwnerAnswers(e, n)
<1>1. ASSUME NEW w \in Workers, Process(w) PROVE OwnerAnswers(e, n)
  <2>1. CASE MarkDelivered(w) \/ MarkFailed(w)
    BY <2>1, AnswerMark
  <2>2. ASSUME NEW d \in Endpoints, NEW m \in Sequences, Claim(w, d, m) \/ ClaimRaises(w, d, m)
        PROVE  OwnerAnswers(e, n)
    BY <2>2, AnswerClaim DEF Claim, ClaimRaises
  <2>3. CASE ClaimNothing(w) \/ Accept(w) \/ Refuse(w) \/ MarkRaises(w)
    BY <2>3 DEF ClaimNothing, Accept, Refuse, MarkRaises, tables, OwnerAnswers
  <2> QED BY <1>1, <2>1, <2>2, <2>3 DEF Process
<1>2. ASSUME NEW w \in Workers, Sync(w) PROVE OwnerAnswers(e, n)
  BY <1>2, AnswerSync
<1>3. ASSUME NEW w \in Workers, Restart(w) \/ Crash(w) PROVE OwnerAnswers(e, n)
  BY <1>3 DEF Restart, Start, Crash, tables, OwnerAnswers
<1>4. ASSUME NEW d \in Endpoints, NEW m \in Sequences, Elapse(d, m) \/ RetryDead(d, m)
      PROVE  OwnerAnswers(e, n)
  BY <1>4, AnswerEnvironment
<1>5. CASE (\E event \in Events : AppendReceipt(event)) \/ UNCHANGED vars
  BY <1>5 DEF AppendReceipt, vars, tables, OwnerAnswers
<1> QED BY <1>1, <1>2, <1>3, <1>4, <1>5 DEF Next

(* _require_owned and claim_due: a claim ends only through its owner's     *)
(* answer or through recovery once its lease is over, whoever else has     *)
(* held the delivery before.                                               *)
THEOREM OutboxAnswers == Spec => AnswerFromOwner
<1>1. TypeInv /\ [Next]_vars =>
        [\A e \in Endpoints, n \in Sequences : OwnerAnswers(e, n)]_vars
  BY AnswerStep
<1> QED BY <1>1, TypeInit, TypeStep, PTL DEF Spec, AnswerFromOwner, OwnerAnswers

-------------------------------------------------------------------------------
(* The outbox implements EventDelivery.                                    *)

(* A worker that was answered with success was: the event is with the      *)
(* receiver.  mark_delivered relies on it.                                 *)
AcceptedInv ==
  \A w \in Workers : worker[w].stage = "accepted" => Event(w) \in received

LEMMA AcceptedFrame ==
  ASSUME TypeInv, AcceptedInv, NEW w \in Workers, received \subseteq received',
         \E s : worker' = [worker EXCEPT ![w] = s] /\ s.stage # "accepted"
  PROVE  AcceptedInv'
<1>1. PICK s : worker' = [worker EXCEPT ![w] = s] /\ s.stage # "accepted"
  OBVIOUS
<1>2. worker'[w] = s
  BY <1>1 DEF TypeInv, TypeOK
<1>3. ASSUME NEW v \in Workers, worker'[v].stage = "accepted" PROVE Event(v)' \in received'
  <2>1. worker'[v] = worker[v]
    BY <1>1, <1>2, <1>3 DEF TypeInv, TypeOK
  <2> QED BY <1>3, <2>1 DEF AcceptedInv, Event, Held
<1> QED BY <1>3 DEF AcceptedInv

LEMMA AcceptedFall ==
  ASSUME TypeInv, AcceptedInv, NEW w \in Workers, Fall(w), received' = received
  PROVE  AcceptedInv'
<1>1. Down.stage # "accepted"
  BY DEF Down, Fresh
<1> QED BY <1>1, AcceptedFrame DEF Fall

LEMMA AcceptedSync ==
  ASSUME TypeInv, AcceptedInv, NEW w \in Workers,
         Sync(w) \/ Restart(w) \/ Crash(w) \/ MarkRaises(w)
  PROVE  AcceptedInv'
<1>1. worker[w] \in WorkerState /\ received' = received
  BY WorkerType DEF Sync, Snapshot, Register, BuildRaises, RegisterRaises, Enqueue, Restart,
     Start, Crash, MarkRaises
<1>2. ASSUME Fall(w) PROVE AcceptedInv'
  BY <1>1, <1>2, AcceptedFall
<1>3. CASE BuildRaises(w) \/ RegisterRaises(w) \/ Crash(w) \/ MarkRaises(w)
  BY <1>2, <1>3 DEF BuildRaises, RegisterRaises, Crash, MarkRaises
<1>4. CASE Restart(w)
  BY <1>1, <1>4, AcceptedFrame DEF Restart, Start, Fresh
<1>5. CASE Snapshot(w)
  <2> DEFINE s == [worker[w] EXCEPT !.stage = "registering", !.observed = Len(log),
                                    !.position = 1]
  <2>1. worker' = [worker EXCEPT ![w] = s]
    BY <1>5 DEF Snapshot
  <2>2. s.stage # "accepted"
    BY <1>1 DEF WorkerState
  <2> QED BY <1>1, <2>1, <2>2, AcceptedFrame
<1>6. CASE Register(w)
  <2> DEFINE s == [worker[w] EXCEPT !.stage = "enqueueing",
                     !.checkpoint = FirstCheckpoint(Current(w), worker[w].observed)]
  <2>1. worker' = [worker EXCEPT ![w] = s]
    BY <1>6 DEF Register
  <2>2. s.stage # "accepted"
    BY <1>1 DEF WorkerState
  <2> QED BY <1>1, <2>1, <2>2, AcceptedFrame
<1>7. CASE Enqueue(w)
  <2> DEFINE s == IF worker[w].position < Len(worker[w].config)
                  THEN [worker[w] EXCEPT !.stage = "registering", !.checkpoint = 0,
                                         !.position = worker[w].position + 1]
                  ELSE Fresh("claiming", worker[w].config)
  <2>1. worker' = [worker EXCEPT ![w] = s]
    BY <1>7 DEF Enqueue
  <2>2. s.stage # "accepted"
    BY <1>1 DEF WorkerState, Fresh
  <2> QED BY <1>1, <2>1, <2>2, AcceptedFrame
<1> QED BY <1>3, <1>4, <1>5, <1>6, <1>7 DEF Sync

LEMMA AcceptedProcess ==
  ASSUME TypeInv, AcceptedInv, NEW w \in Workers, Process(w)
  PROVE  AcceptedInv'
<1>1. worker[w] \in WorkerState
  BY WorkerType
<1>2. ASSUME NEW e \in Endpoints, NEW n \in Sequences, Claim(w, e, n) \/ ClaimRaises(w, e, n)
      PROVE  AcceptedInv'
  <2>1. CASE ClaimRaises(w, e, n)
    BY <2>1, AcceptedFall DEF ClaimRaises, ClaimRow
  <2>2. CASE Claim(w, e, n)
    <3> DEFINE s == [worker[w] EXCEPT !.stage = "sending",
                       !.task = [endpoint |-> e, sequence |-> n,
                                 attempts |-> deliveries[e][n].attempts + 1]]
    <3>1. worker' = [worker EXCEPT ![w] = s] /\ received' = received
      BY <2>2 DEF Claim, ClaimRow
    <3>2. s.stage # "accepted"
      BY <1>1 DEF WorkerState
    <3> QED BY <3>1, <3>2, AcceptedFrame
  <2> QED BY <1>2, <2>1, <2>2
<1>3. ASSUME NEW stage \in {"idle", "failing"}, worker' = [worker EXCEPT ![w].stage = stage],
             received \subseteq received'
      PROVE  AcceptedInv'
  <2> DEFINE s == [worker[w] EXCEPT !.stage = stage]
  <2>1. worker' = [worker EXCEPT ![w] = s] /\ s.stage # "accepted"
    BY <1>1, <1>3 DEF WorkerState
  <2> QED BY <1>3, <2>1, AcceptedFrame
<1>4. CASE ClaimNothing(w) \/ Refuse(w)
  BY <1>3, <1>4 DEF ClaimNothing, Refuse, Answer
<1>5. CASE Accept(w)
  <2>1. CASE Answer(w, "failing")
    BY <1>3, <1>5, <2>1 DEF Accept, Answer
  <2>2. CASE Answer(w, "accepted")
    <3>1. ASSUME NEW v \in Workers, v # w PROVE worker'[v] = worker[v] /\ Event(v)' = Event(v)
      BY <2>2, <3>1 DEF Answer, TypeInv, TypeOK, Event, Held
    <3>2. worker'[w].task = worker[w].task
      BY <1>1, <2>2 DEF Answer, TypeInv, TypeOK, WorkerState
    <3>3. Event(w)' = Event(w)
      BY <3>2 DEF Event, Held
    <3> QED BY <1>5, <3>1, <3>3 DEF Accept, AcceptedInv
  <2> QED BY <1>5, <2>1, <2>2 DEF Accept
<1>6. CASE MarkDelivered(w) \/ MarkFailed(w)
  <2> DEFINE s == [worker[w] EXCEPT !.stage = "claiming", !.task = NoTask]
  <2>1. worker' = [worker EXCEPT ![w] = s] /\ received' = received
    BY <1>6 DEF MarkDelivered, MarkFailed, Settle
  <2>2. s.stage # "accepted"
    BY <1>1 DEF WorkerState
  <2> QED BY <2>1, <2>2, AcceptedFrame
<1>7. CASE MarkRaises(w)
  BY <1>7, AcceptedSync
<1> QED BY <1>2, <1>4, <1>5, <1>6, <1>7 DEF Process

LEMMA AcceptedStep == TypeInv /\ AcceptedInv /\ [Next]_vars => AcceptedInv'
<1> SUFFICES ASSUME TypeInv, AcceptedInv, [Next]_vars PROVE AcceptedInv'
  OBVIOUS
<1>1. ASSUME UNCHANGED <<worker, received>> PROVE AcceptedInv'
  BY <1>1 DEF AcceptedInv, Event, Held
<1>2. CASE \E event \in Events : AppendReceipt(event)
  BY <1>1, <1>2 DEF AppendReceipt
<1>3. CASE \E e \in Endpoints, n \in Sequences : Elapse(e, n) \/ RetryDead(e, n)
  BY <1>1, <1>3 DEF Elapse, BackoffElapses, LeaseElapses, RetryDead
<1>4. CASE UNCHANGED vars
  BY <1>1, <1>4 DEF vars
<1> QED BY <1>2, <1>3, <1>4, AcceptedSync, AcceptedProcess DEF Next

(* The abstract state of the refinement mapping.                           *)
Outcomes == [e \in Endpoints |-> [n \in Sequences |-> Outcome(deliveries[e][n])]]

LEMMA PromiseInit == Init => Promise!Init
BY DEF Init, Promise!Init, Outcome

LEMMA OutcomeOfRow ==
  ASSUME NEW r \in Delivery
  PROVE  Outcome(r) = IF r.status \in {"pending", "delivering"} THEN "waiting" ELSE r.status
BY NothingAssumption DEF Outcome

LEMMA SameOutcomes ==
  ASSUME \A e \in Endpoints, n \in Sequences :
           Outcome(deliveries'[e][n]) = Outcome(deliveries[e][n])
  PROVE  Outcomes' = Outcomes
BY DEF Outcomes

LEMMA OneOutcome ==
  ASSUME NEW e \in Endpoints, NEW n \in Sequences,
         \A d \in Endpoints, m \in Sequences :
           <<d, m>> # <<e, n>> => deliveries'[d][m] = deliveries[d][m]
  PROVE  /\ Outcomes' = [Outcomes EXCEPT ![e][n] = Outcome(deliveries'[e][n])]
         /\ Outcomes[e][n] = Outcome(deliveries[e][n])
         /\ Outcome(deliveries'[e][n]) = Outcome(deliveries[e][n]) => Outcomes' = Outcomes
<1> DEFINE changed == [Outcomes EXCEPT ![e][n] = Outcome(deliveries'[e][n])]
<1>1. ASSUME NEW d \in Endpoints PROVE Outcomes'[d] = changed[d]
  <2>1. ASSUME NEW m \in Sequences PROVE Outcomes'[d][m] = changed[d][m]
    BY DEF Outcomes
  <2> QED BY <2>1 DEF Outcomes
<1>2. Outcomes' = changed
  BY <1>1 DEF Outcomes
<1>3. ASSUME Outcome(deliveries'[e][n]) = Outcome(deliveries[e][n])
      PROVE  Outcomes' = Outcomes
  BY <1>3, SameOutcomes
<1>4. Outcomes[e][n] = Outcome(deliveries[e][n])
  BY DEF Outcomes
<1> QED BY <1>2, <1>3, <1>4

LEMMA PromiseEnqueue ==
  ASSUME TypeInv, NEW w \in Workers, Enqueue(w)
  PROVE  Promise!Next
<1> DEFINE id == Current(w).id
           new == {n \in Selected(Current(w), worker[w].checkpoint, worker[w].observed) :
                     n > endpoints[id].checkpoint /\ deliveries[id][n] = NoDelivery}
           noticed == new \cap Sequences
<1>1. id \in Endpoints
  BY CurrentType DEF Enqueue
<1>2. deliveries' = [deliveries EXCEPT ![id] =
        [n \in Sequences |-> IF n \in new THEN Pending ELSE @[n]]]
      /\ received' = received
  BY DEF Enqueue
<1>3. \A n \in noticed : deliveries[id][n] = NoDelivery
  OBVIOUS
<1> HIDE DEF id, new
<1>4. Outcome(NoDelivery) = "unseen" /\ Outcome(Pending) = "waiting"
  BY PendingType, OutcomeOfRow DEF Outcome, Pending
<1>5. \A n \in noticed : Outcomes[id][n] = "unseen"
  BY <1>1, <1>3, <1>4 DEF Outcomes
<1>6. Outcomes' = [Outcomes EXCEPT ![id] =
        [n \in Sequences |-> IF n \in noticed THEN "waiting" ELSE @[n]]]
  <2> DEFINE changed == [Outcomes EXCEPT ![id] =
               [n \in Sequences |-> IF n \in noticed THEN "waiting" ELSE @[n]]]
  <2>1. ASSUME NEW d \in Endpoints, NEW n \in Sequences
        PROVE  Outcomes'[d][n] = changed[d][n]
    <3>1. deliveries'[d][n] = IF d = id /\ n \in new THEN Pending ELSE deliveries[d][n]
      BY <1>2 DEF TypeInv, TypeOK
    <3> QED BY <1>4, <3>1 DEF Outcomes
  <2>2. ASSUME NEW d \in Endpoints PROVE Outcomes'[d] = changed[d]
    BY <2>1 DEF Outcomes
  <2> QED BY <2>2 DEF Outcomes
<1>7. Promise!Notice(id, noticed)
  BY <1>2, <1>5, <1>6 DEF Promise!Notice, Outcomes
<1> QED BY <1>1, <1>7 DEF Promise!Next

LEMMA PromiseClaim ==
  ASSUME TypeInv, NEW w \in Workers, NEW e \in Endpoints, NEW n \in Sequences,
         ClaimRow(w, e, n)
  PROVE  UNCHANGED <<Outcomes, received>>
<1>1. ASSUME NEW d \in Endpoints, NEW m \in Sequences
      PROVE  Outcome(deliveries'[d][m]) = Outcome(deliveries[d][m])
  <2> DEFINE open == IF Expired(d, m) THEN Recovered(deliveries[d][m])
                     ELSE deliveries[d][m]
  <2>1. CASE deliveries[d][m] = NoDelivery
    <3>1. <<d, m>> # <<e, n>> /\ ~Expired(d, m)
      BY <2>1 DEF ClaimRow, FirstDue, Due, Expired
    <3> QED BY <3>1, ClaimedRow
  <2>2. CASE deliveries[d][m] # NoDelivery
    <3>1. deliveries[d][m] \in Delivery
      BY <2>2, RowType DEF TypeInv
    <3>2. open \in Delivery /\ Outcome(open) = Outcome(deliveries[d][m])
      BY <3>1, RecoveredType, OutcomeOfRow DEF Expired
    <3>3. CASE <<d, m>> = <<e, n>>
      <4>1. deliveries[d][m].status \in {"pending", "delivering"}
        BY <3>3 DEF ClaimRow, FirstDue, Due, Expired
      <4>2. deliveries'[d][m] = Claimed(open, w)
        BY <3>3, ClaimedRow
      <4> HIDE DEF open
      <4> QED BY <3>1, <3>2, <4>1, <4>2, ClaimedType, OutcomeOfRow
    <3>4. CASE <<d, m>> # <<e, n>>
      BY <3>2, <3>4, ClaimedRow
    <3> QED BY <3>3, <3>4
  <2> QED BY <2>1, <2>2
<1> QED BY <1>1, SameOutcomes DEF ClaimRow

LEMMA PromiseMark ==
  ASSUME TypeInv, AcceptedInv, NEW w \in Workers, MarkDelivered(w) \/ MarkFailed(w)
  PROVE  Promise!Next \/ UNCHANGED <<Outcomes, received>>
<1>1. PICK status \in {"pending", "delivered", "dead"}, due \in BOOLEAN :
        Settle(w, status, due) /\ (status = "delivered" => worker[w].stage = "accepted")
  BY DEF MarkDelivered, MarkFailed
<1> DEFINE e == Held(w).endpoint
           n == Held(w).sequence
<1>2. /\ e \in Endpoints /\ n \in Sequences
      /\ deliveries[e][n] \in Delivery /\ deliveries[e][n].status = "delivering"
      /\ deliveries'[e][n] = Settled(deliveries[e][n], status, due)
      /\ \A d \in Endpoints, m \in Sequences :
           <<d, m>> # <<e, n>> => deliveries'[d][m] = deliveries[d][m]
  BY <1>1, MarkSettles, SettleTables DEF Row, Event
<1>3. received' = received /\ (status = "delivered" => <<e, n>> \in received)
  BY <1>1 DEF Settle, AcceptedInv, Event
<1> HIDE DEF e, n
<1>4. /\ Outcomes' = [Outcomes EXCEPT ![e][n] = Outcome(deliveries'[e][n])]
      /\ Outcomes[e][n] = Outcome(deliveries[e][n])
      /\ Outcome(deliveries'[e][n]) = Outcome(deliveries[e][n]) => Outcomes' = Outcomes
  BY <1>2, OneOutcome
<1>5. Outcome(deliveries[e][n]) = "waiting"
      /\ Outcome(deliveries'[e][n]) = IF status = "pending" THEN "waiting" ELSE status
  <2>1. deliveries'[e][n] \in Delivery /\ deliveries'[e][n].status = status
    <3> DEFINE r == deliveries[e][n]
    <3>1. r \in Delivery /\ deliveries'[e][n] = Settled(r, status, due)
      BY <1>2
    <3> HIDE DEF r
    <3> QED BY <3>1, SettledType
  <2>2. Outcome(deliveries[e][n]) = "waiting"
    BY <1>2, OutcomeOfRow
  <2>3. Outcome(deliveries'[e][n]) = IF status = "pending" THEN "waiting" ELSE status
    BY <2>1, OutcomeOfRow
  <2> QED BY <2>2, <2>3
<1>6. CASE status = "pending"
  BY <1>3, <1>4, <1>5, <1>6
<1>7. CASE status = "dead"
  <2>1. Promise!GiveUp(e, n)
    BY <1>3, <1>4, <1>5, <1>7 DEF Promise!GiveUp, Promise!Become, Outcomes
  <2> QED BY <1>2, <2>1 DEF Promise!Next
<1>8. CASE status = "delivered"
  <2>1. Promise!Deliver(e, n)
    BY <1>3, <1>4, <1>5, <1>8 DEF Promise!Deliver, Promise!Become, Outcomes
  <2> QED BY <1>2, <2>1 DEF Promise!Next
<1> QED BY <1>6, <1>7, <1>8

LEMMA PromiseEnvironment ==
  ASSUME TypeInv, NEW e \in Endpoints, NEW n \in Sequences,
         Elapse(e, n) \/ RetryDead(e, n)
  PROVE  Promise!Next \/ UNCHANGED <<Outcomes, received>>
<1>1. /\ Outcomes' = [Outcomes EXCEPT ![e][n] = Outcome(deliveries'[e][n])]
      /\ Outcomes[e][n] = Outcome(deliveries[e][n]) /\ received' = received
      /\ Outcome(deliveries'[e][n]) = Outcome(deliveries[e][n]) => Outcomes' = Outcomes
  BY EnvironmentRow, OneOutcome
<1>2. deliveries[e][n] \in Delivery
  BY EnvironmentRow
<1>3. CASE deliveries'[e][n].status = deliveries[e][n].status
           /\ deliveries[e][n].status \in {"pending", "delivering"}
  <2>1. deliveries[e][n] # NoDelivery /\ deliveries'[e][n] # NoDelivery
    BY <1>2, EnvironmentRow, NothingAssumption DEF Persist
  <2>2. Outcome(deliveries'[e][n]) = Outcome(deliveries[e][n])
    BY <1>3, <2>1 DEF Outcome
  <2> QED BY <1>1, <2>2
<1>4. CASE deliveries[e][n].status = "dead" /\ deliveries'[e][n] = Pending
  <2>1. Outcome(deliveries[e][n]) = "dead" /\ Outcome(deliveries'[e][n]) = "waiting"
    BY <1>2, <1>4, PendingType, OutcomeOfRow DEF Pending
  <2>2. Promise!Retry(e, n)
    BY <1>1, <2>1 DEF Promise!Retry, Promise!Become, Outcomes
  <2> QED BY <2>2 DEF Promise!Next
<1> QED BY <1>3, <1>4, EnvironmentRow

LEMMA PromiseReceive ==
  ASSUME TypeInv, NEW w \in Workers, Accept(w)
  PROVE  Promise!Next
<1> DEFINE e == Held(w).endpoint
           n == Held(w).sequence
<1>1. e \in Endpoints /\ n \in Sequences /\ deliveries[e][n] # NoDelivery
  BY DEF Accept, TypeInv, PlaceInv, Busy
<1>2. received' = received \cup {<<e, n>>} /\ deliveries' = deliveries
  BY DEF Accept, Event, tables
<1> HIDE DEF e, n
<1>3. Outcomes' = Outcomes
  BY <1>2 DEF Outcomes
<1>4. Outcomes[e][n] # "unseen"
  <2>1. deliveries[e][n] \in Delivery
    BY <1>1, RowType DEF TypeInv
  <2>2. deliveries[e][n].status # "unseen"
    BY <2>1 DEF Delivery
  <2> QED BY <1>1, <2>1, <2>2, OutcomeOfRow DEF Outcomes
<1>5. Promise!Receive(e, n)
  BY <1>2, <1>3, <1>4 DEF Promise!Receive, Outcomes
<1> QED BY <1>1, <1>5 DEF Promise!Next

LEMMA PromiseStep ==
  ASSUME TypeInv, AcceptedInv, [Next]_vars
  PROVE  [Promise!Next]_(Promise!vars)
<1> SUFFICES Promise!Next \/ UNCHANGED <<Outcomes, received>>
  BY DEF Promise!vars, Outcomes
<1>1. ASSUME UNCHANGED <<deliveries, received>> PROVE UNCHANGED <<Outcomes, received>>
  BY <1>1 DEF Outcomes
<1>2. ASSUME NEW w \in Workers, Sync(w)
      PROVE  Promise!Next \/ UNCHANGED <<Outcomes, received>>
  BY <1>1, <1>2, PromiseEnqueue
     DEF Sync, Snapshot, Register, BuildRaises, RegisterRaises, tables
<1>3. ASSUME NEW w \in Workers, Process(w)
      PROVE  Promise!Next \/ UNCHANGED <<Outcomes, received>>
  <2>1. CASE ClaimNothing(w) \/ Refuse(w) \/ MarkRaises(w)
    BY <1>1, <2>1 DEF ClaimNothing, Refuse, MarkRaises, tables
  <2>2. ASSUME NEW e \in Endpoints, NEW n \in Sequences, Claim(w, e, n) \/ ClaimRaises(w, e, n)
        PROVE  UNCHANGED <<Outcomes, received>>
    BY <2>2, PromiseClaim DEF Claim, ClaimRaises
  <2> QED BY <1>3, <2>1, <2>2, PromiseReceive, PromiseMark DEF Process
<1>4. ASSUME NEW w \in Workers, Restart(w) \/ Crash(w)
      PROVE  UNCHANGED <<Outcomes, received>>
  BY <1>1, <1>4 DEF Restart, Start, Crash, tables
<1>5. ASSUME NEW e \in Endpoints, NEW n \in Sequences, Elapse(e, n) \/ RetryDead(e, n)
      PROVE  Promise!Next \/ UNCHANGED <<Outcomes, received>>
  BY <1>5, PromiseEnvironment
<1>6. CASE (\E event \in Events : AppendReceipt(event)) \/ UNCHANGED vars
  BY <1>1, <1>6 DEF AppendReceipt, vars, tables
<1> QED BY <1>2, <1>3, <1>4, <1>5, <1>6 DEF Next

(* docs/webhooks.md: whoever claims, dies and is overtaken, nothing is     *)
(* recorded as delivered that the receiver did not accept, and an event    *)
(* that ended is reopened by nothing but retry_dead.                       *)
THEOREM OutboxImplementsDelivery == Spec => KeepsDeliveryPromise
<1>1. Init => AcceptedInv
  BY DEF Init, AcceptedInv, Down, Fresh
<1> QED BY <1>1, TypeInit, TypeStep, AcceptedStep, PromiseInit, PromiseStep, PTL
        DEF Spec, KeepsDeliveryPromise, Promise!Spec

-------------------------------------------------------------------------------
(* The deliveries are those of the receipts up to the checkpoint.          *)

Registered(setting) ==
  endpoints[setting.id] # NoEndpoint /\ endpoints[setting.id].config = setting

(* A registration is for good, and no checkpoint goes back.                *)
Kept ==
  \A e \in Endpoints : endpoints[e] # NoEndpoint =>
    /\ endpoints'[e] # NoEndpoint /\ endpoints'[e].config = endpoints[e].config
    /\ endpoints[e].checkpoint \leq endpoints'[e].checkpoint

LEMMA RegisterKeeps ==
  ASSUME TypeInv, NEW setting \in Setting, NEW checkpoint, RegisterRow(setting, checkpoint)
  PROVE  Kept
<1>1. \A e \in Endpoints : endpoints[e] # NoEndpoint => endpoints[e] \in EndpointRow
  BY DEF TypeInv, TypeOK
<1>2. \A e \in Endpoints : endpoints[e] # NoEndpoint => endpoints'[e] = endpoints[e]
  BY DEF RegisterRow, TypeInv, TypeOK
<1> QED BY <1>1, <1>2 DEF Kept, EndpointRow

(* The rows that enqueue adds.                                             *)
NewRows(w) ==
  {n \in Selected(Current(w), worker[w].checkpoint, worker[w].observed) :
     n > endpoints[Current(w).id].checkpoint /\ deliveries[Current(w).id][n] = NoDelivery}

LEMMA EnqueueEffect ==
  ASSUME TypeInv, NEW w \in Workers, Enqueue(w)
  PROVE  LET id == Current(w).id IN
         /\ id \in Endpoints /\ endpoints[id] \in EndpointRow
         /\ endpoints'[id] = [config |-> endpoints[id].config,
              checkpoint |-> Advanced(endpoints[id].checkpoint, worker[w].observed)]
         /\ \A e \in Endpoints : e # id => endpoints'[e] = endpoints[e]
         /\ \A e \in Endpoints, n \in Sequences :
              deliveries'[e][n] = IF e = id /\ n \in NewRows(w) THEN Pending
                                  ELSE deliveries[e][n]
         /\ UNCHANGED <<log, origin, lost>>
<1> DEFINE id == Current(w).id
           new == NewRows(w)
<1>1. id \in Endpoints /\ worker[w].observed \in Nat
  BY CurrentType DEF Enqueue
<1>2. endpoints[id] # NoEndpoint
  BY DEF Enqueue, TypeInv, PlaceInv
<1>3. endpoints[id] \in EndpointRow
  BY <1>1, <1>2 DEF TypeInv, TypeOK
<1>4. endpoints' = [endpoints EXCEPT ![id].checkpoint = Advanced(@, worker[w].observed)]
  BY DEF Enqueue
<1>5. deliveries' = [deliveries EXCEPT ![id] =
        [n \in Sequences |-> IF n \in new THEN Pending ELSE @[n]]]
  BY DEF Enqueue, NewRows
<1>6. UNCHANGED <<log, origin, lost>>
  BY DEF Enqueue
<1> HIDE DEF id, new
<1>7. endpoints'[id] = [config |-> endpoints[id].config,
        checkpoint |-> Advanced(endpoints[id].checkpoint, worker[w].observed)]
  BY <1>1, <1>3, <1>4 DEF TypeInv, TypeOK, EndpointRow
<1>8. \A e \in Endpoints : e # id => endpoints'[e] = endpoints[e]
  BY <1>1, <1>4 DEF TypeInv, TypeOK
<1>9. \A e \in Endpoints, n \in Sequences :
        deliveries'[e][n] = IF e = id /\ n \in new THEN Pending ELSE deliveries[e][n]
  BY <1>5 DEF TypeInv, TypeOK
<1> QED BY <1>1, <1>3, <1>6, <1>7, <1>8, <1>9 DEF id, new

LEMMA EnqueueKeeps ==
  ASSUME TypeInv, NEW w \in Workers, Enqueue(w)
  PROVE  Kept
<1>1. worker[w].observed \in Nat
  BY CurrentType DEF Enqueue
<1> DEFINE id == Current(w).id
<1>2. /\ endpoints[id] \in EndpointRow
      /\ endpoints'[id] = [config |-> endpoints[id].config,
           checkpoint |-> Advanced(endpoints[id].checkpoint, worker[w].observed)]
      /\ \A e \in Endpoints : e # id => endpoints'[e] = endpoints[e]
  BY EnqueueEffect
<1> HIDE DEF id
<1>3. endpoints'[id] \in EndpointRow /\ endpoints[id].checkpoint \leq endpoints'[id].checkpoint
  BY <1>1, <1>2 DEF Advanced, EndpointRow
<1>4. \A e \in Endpoints : endpoints[e] # NoEndpoint => endpoints[e].checkpoint \in Nat
  BY DEF TypeInv, TypeOK, EndpointRow
<1>5. ASSUME NEW e \in Endpoints, endpoints[e] # NoEndpoint
      PROVE  /\ endpoints'[e] # NoEndpoint /\ endpoints'[e].config = endpoints[e].config
             /\ endpoints[e].checkpoint \leq endpoints'[e].checkpoint
  <2>1. CASE e = id
    BY <1>2, <1>3, <2>1, NothingAssumption
  <2>2. CASE e # id
    BY <1>2, <1>4, <1>5, <2>2
  <2> QED BY <2>1, <2>2
<1> QED BY <1>5 DEF Kept

LEMMA EndpointsKept == TypeInv /\ [Next]_vars => Kept
<1> SUFFICES ASSUME TypeInv, [Next]_vars PROVE Kept
  OBVIOUS
<1>1. ASSUME endpoints' = endpoints PROVE Kept
  <2>1. \A e \in Endpoints : endpoints[e] # NoEndpoint => endpoints[e].checkpoint \in Nat
    BY DEF TypeInv, TypeOK, EndpointRow
  <2> QED BY <1>1, <2>1 DEF Kept
<1>2. ASSUME NEW w \in Workers, Sync(w) PROVE Kept
  <2>1. CASE Register(w) \/ BuildRaises(w)
    <3>1. Current(w) \in Setting
      BY <2>1, CurrentType DEF Register, BuildRaises
    <3> QED BY <2>1, <3>1, RegisterKeeps DEF Register, BuildRaises
  <2>2. CASE Snapshot(w) \/ RegisterRaises(w)
    BY <1>1, <2>2 DEF Snapshot, RegisterRaises, tables
  <2> QED BY <1>2, <2>1, <2>2, EnqueueKeeps DEF Sync
<1>3. ASSUME NEW w \in Workers, Process(w) \/ Restart(w) \/ Crash(w) PROVE Kept
  BY <1>1, <1>3 DEF Process, Claim, ClaimRaises, ClaimRow, ClaimNothing, Accept, Refuse,
     MarkDelivered, MarkFailed, Settle, MarkRaises, Restart, Start, Crash, tables
<1>4. CASE \E e \in Endpoints, n \in Sequences : Elapse(e, n) \/ RetryDead(e, n)
  BY <1>1, <1>4 DEF Elapse, BackoffElapses, LeaseElapses, RetryDead
<1>5. CASE (\E event \in Events : AppendReceipt(event)) \/ UNCHANGED vars
  BY <1>1, <1>5 DEF AppendReceipt, vars, tables
<1> QED BY <1>2, <1>3, <1>4, <1>5 DEF Next

(* The positions of the configuration that sync_outbox is done with.       *)
Synced(w) ==
  {i \in DOMAIN worker[w].config :
     \/ worker[w].stage = "registering" /\ i < worker[w].position
     \/ worker[w].stage = "enqueueing" /\ i \leq worker[w].position
     \/ worker[w].stage \in Busy \cup {"claiming"}}

(* A worker past register_endpoint is registered with the settings it      *)
(* holds: none of them delivers by another's max_attempts.                 *)
SyncedInv(w) ==
  /\ \A i \in Synced(w) : Registered(worker[w].config[i])
  /\ worker[w].stage = "enqueueing" =>
       worker[w].checkpoint \leq endpoints[Current(w).id].checkpoint

(* The same of the next state.                                             *)
StillRegistered(setting) ==
  endpoints'[setting.id] # NoEndpoint /\ endpoints'[setting.id].config = setting

LEMMA RegisteredKept ==
  ASSUME Kept, NEW setting \in Setting, Registered(setting)
  PROVE  StillRegistered(setting)
BY DEF Kept, Registered, StillRegistered, Setting

LEMMA SettingOf ==
  ASSUME TypeInv, NEW w \in Workers, NEW i \in DOMAIN worker[w].config,
         worker[w].stage # "down"
  PROVE  worker[w].config[i] \in Setting
<1>1. worker[w].config \in Configs
  BY DEF TypeInv, PlaceInv
<1> QED BY <1>1, ConfigType

LEMMA SyncedFrame ==
  ASSUME TypeInv, TypeInv', Kept, NEW v \in Workers, SyncedInv(v), worker'[v] = worker[v]
  PROVE  SyncedInv(v)'
<1>1. Synced(v)' = Synced(v) /\ Current(v)' = Current(v)
  BY DEF Synced, Current
<1>2. ASSUME NEW i \in Synced(v) PROVE StillRegistered(worker[v].config[i])
  <2>1. worker[v].config[i] \in Setting /\ Registered(worker[v].config[i])
    BY SettingOf DEF Synced, SyncedInv, Busy
  <2>2. StillRegistered(worker[v].config[i])
    BY <2>1, RegisteredKept
  <2> QED BY <2>2
<1>3. ASSUME worker[v].stage = "enqueueing"
      PROVE  worker[v].checkpoint \leq endpoints'[Current(v).id].checkpoint
  <2> DEFINE id == Current(v).id
  <2>1. id \in Endpoints /\ endpoints[id] # NoEndpoint
    BY <1>3, CurrentType DEF TypeInv, PlaceInv
  <2>2. worker[v].checkpoint \leq endpoints[id].checkpoint /\ worker[v].checkpoint \in Nat
    BY <1>3, WorkerType DEF SyncedInv, WorkerState
  <2>3. endpoints[id] \in EndpointRow
    BY <2>1 DEF TypeInv, TypeOK
  <2>4. endpoints[id].checkpoint \in Nat
    BY <2>3 DEF EndpointRow
  <2> HIDE DEF id
  <2>5. endpoints[id].checkpoint \leq endpoints'[id].checkpoint
    BY <2>1 DEF Kept
  <2>6. endpoints'[id].checkpoint \in Nat
    BY <2>1 DEF Kept, TypeInv, TypeOK, EndpointRow
  <2> QED BY <2>2, <2>4, <2>5, <2>6 DEF id
<1>4. \A i \in Synced(v)' : StillRegistered(worker[v].config[i])
  BY <1>1, <1>2
<1> QED BY <1>1, <1>3, <1>4 DEF SyncedInv, Registered, StillRegistered

LEMMA SyncedShrinks ==
  ASSUME TypeInv, Kept, NEW w \in Workers, SyncedInv(w),
         worker'[w].stage # "enqueueing",
         \A i \in Synced(w)' : i \in Synced(w) /\ worker'[w].config = worker[w].config
  PROVE  SyncedInv(w)'
<1>1. ASSUME NEW i \in Synced(w)' PROVE StillRegistered(worker'[w].config[i])
  <2>1. worker[w].config[i] \in Setting /\ Registered(worker[w].config[i])
    BY SettingOf DEF Synced, SyncedInv, Busy
  <2>2. StillRegistered(worker[w].config[i])
    BY <2>1, RegisteredKept
  <2> QED BY <2>2
<1> QED BY <1>1 DEF SyncedInv, Registered, StillRegistered

LEMMA SyncedFall ==
  ASSUME TypeInv, Kept, NEW w \in Workers, SyncedInv(w), Fall(w)
  PROVE  SyncedInv(w)'
<1>1. worker'[w] = Down
  BY DEF Fall, TypeInv, TypeOK
<1>2. Synced(w)' = {} /\ Down.stage = "down"
  BY <1>1 DEF Synced, Down, Fresh, Busy
<1> QED BY <1>1, <1>2, SyncedShrinks

LEMMA SyncedRegister ==
  ASSUME TypeInv, TypeInv', Kept, NEW w \in Workers, SyncedInv(w), Register(w)
  PROVE  SyncedInv(w)'
<1> DEFINE checkpoint == FirstCheckpoint(Current(w), worker[w].observed)
           id == Current(w).id
<1>1. /\ worker'[w] = [worker[w] EXCEPT !.stage = "enqueueing", !.checkpoint = checkpoint]
      /\ worker[w].stage = "registering" /\ RegisterRow(Current(w), checkpoint)
  BY DEF Register, TypeInv, TypeOK
<1>2. Current(w) \in Setting /\ id \in Endpoints /\ worker[w].observed \in Nat
      /\ worker[w].config \in Configs /\ worker[w].position \in DOMAIN worker[w].config
  BY <1>1, CurrentType
<1>3. checkpoint \in Nat
  BY <1>2, FirstCheckpointType
<1>4. [config |-> Current(w), checkpoint |-> checkpoint] \in EndpointRow
  BY <1>2, <1>3 DEF EndpointRow
<1>5. StillRegistered(Current(w)) /\ endpoints'[id].checkpoint = checkpoint
      /\ endpoints'[id].config = Current(w) /\ endpoints'[id] # NoEndpoint
  BY <1>1, <1>2, <1>4, NothingAssumption DEF RegisterRow, StillRegistered, TypeInv, TypeOK
<1> HIDE DEF checkpoint, id
<1>6. worker'[w].stage = "enqueueing" /\ worker'[w].checkpoint = checkpoint
      /\ worker'[w].config = worker[w].config /\ worker'[w].position = worker[w].position
  BY <1>1, WorkerType DEF WorkerState
<1>7. Current(w)' = Current(w)
  BY <1>6 DEF Current
<1>8. ASSUME NEW i \in Synced(w)' PROVE StillRegistered(worker'[w].config[i])
  <2>1. i \in DOMAIN worker[w].config /\ i \leq worker[w].position
    BY <1>6, <1>8 DEF Synced, Busy
  <2>2. CASE i = worker[w].position
    BY <1>5, <1>6, <2>2 DEF StillRegistered, Current, id
  <2>3. CASE i < worker[w].position
    <3>1. i \in Synced(w)
      BY <1>1, <2>1, <2>3 DEF Synced
    <3>2. worker[w].config[i] \in Setting /\ Registered(worker[w].config[i])
      BY <3>1, SettingOf DEF Synced, SyncedInv, Busy
    <3>3. StillRegistered(worker[w].config[i])
      BY <3>2, RegisteredKept
    <3> QED BY <1>6, <3>3
  <2>4. i \in Int /\ worker[w].position \in Int
    BY <1>2, <2>1, ConfigType
  <2> QED BY <2>1, <2>2, <2>3, <2>4
<1> QED BY <1>3, <1>5, <1>6, <1>7, <1>8 DEF SyncedInv, Registered, StillRegistered, id

LEMMA SyncedEnqueue ==
  ASSUME TypeInv, Kept, NEW w \in Workers, SyncedInv(w), Enqueue(w)
  PROVE  SyncedInv(w)'
<1>1. worker[w] \in WorkerState /\ worker[w].stage = "enqueueing"
      /\ worker[w].config \in Configs /\ worker[w].position \in DOMAIN worker[w].config
  BY CurrentType, WorkerType DEF Enqueue
<1>2. /\ worker'[w].stage # "enqueueing" /\ worker'[w].config = worker[w].config
      /\ \/ worker'[w].stage = "registering"
            /\ worker'[w].position = worker[w].position + 1
         \/ ~(worker[w].position < Len(worker[w].config))
            /\ worker'[w].stage = "claiming"
  <2>1. CASE worker[w].position < Len(worker[w].config)
    <3>1. worker'[w] = [worker[w] EXCEPT !.stage = "registering", !.checkpoint = 0,
                                         !.position = worker[w].position + 1]
      BY <2>1 DEF Enqueue, TypeInv, TypeOK
    <3> QED BY <1>1, <3>1 DEF WorkerState
  <2>2. CASE ~(worker[w].position < Len(worker[w].config))
    <3>1. worker'[w] = Fresh("claiming", worker[w].config)
      BY <2>2 DEF Enqueue, TypeInv, TypeOK
    <3> QED BY <2>2, <3>1 DEF Fresh
  <2> QED BY <2>1, <2>2
<1>3. DOMAIN worker[w].config = 1..Len(worker[w].config) /\ Len(worker[w].config) \in Nat
  BY <1>1, ConfigType
<1>4. ASSUME NEW i \in Synced(w)' PROVE i \in Synced(w)
  <2>1. i \in DOMAIN worker[w].config
    BY <1>2 DEF Synced
  <2>2. i \leq worker[w].position
    BY <1>1, <1>2, <1>3, <1>4, <2>1 DEF Synced, Busy
  <2> QED BY <1>1, <2>1, <2>2 DEF Synced
<1> QED BY <1>2, <1>4, SyncedShrinks

LEMMA SyncedSync ==
  ASSUME TypeInv, TypeInv', Kept, NEW w \in Workers, SyncedInv(w),
         Sync(w) \/ Restart(w) \/ Crash(w) \/ MarkRaises(w)
  PROVE  SyncedInv(w)'
<1>1. CASE BuildRaises(w) \/ RegisterRaises(w) \/ Crash(w) \/ MarkRaises(w)
  BY <1>1, SyncedFall DEF BuildRaises, RegisterRaises, Crash, MarkRaises
<1>2. CASE Restart(w)
  <2>1. PICK config \in Configs : worker'[w] = Fresh("idle", config)
    BY <1>2 DEF Restart, Start, TypeInv, TypeOK
  <2>2. worker'[w].stage = "idle"
    BY <2>1 DEF Fresh
  <2>3. Synced(w)' = {}
    BY <2>2 DEF Synced, Busy
  <2> QED BY <2>2, <2>3, SyncedShrinks
<1>3. CASE Snapshot(w)
  <2>1. worker'[w].stage = "registering" /\ worker'[w].position = 1
        /\ worker'[w].config = worker[w].config
    BY <1>3, WorkerType DEF Snapshot, TypeInv, TypeOK, WorkerState
  <2>2. worker[w].config \in Configs
    BY <1>3 DEF Snapshot, TypeInv, PlaceInv
  <2>3. Synced(w)' = {}
    BY <2>1, <2>2, ConfigType DEF Synced, Busy
  <2> QED BY <2>1, <2>3, SyncedShrinks
<1> QED BY <1>1, <1>2, <1>3, SyncedRegister, SyncedEnqueue DEF Sync

LEMMA SyncedProcess ==
  ASSUME TypeInv, TypeInv', Kept, NEW w \in Workers, SyncedInv(w), Process(w)
  PROVE  SyncedInv(w)'
<1>1. worker[w] \in WorkerState
  BY WorkerType
<1>2. ASSUME worker[w].stage \in Busy \cup {"claiming"},
             worker'[w].stage \in Busy \cup {"claiming", "idle"},
             worker'[w].config = worker[w].config
      PROVE  SyncedInv(w)'
  <2>1. \A i \in Synced(w)' : i \in Synced(w)
    BY <1>2 DEF Synced
  <2> QED BY <1>2, <2>1, SyncedShrinks DEF Busy
<1>3. ASSUME NEW e \in Endpoints, NEW n \in Sequences, Claim(w, e, n)
      PROVE  SyncedInv(w)'
  <2> DEFINE task == [endpoint |-> e, sequence |-> n,
                      attempts |-> deliveries[e][n].attempts + 1]
  <2>1. worker'[w] = [worker[w] EXCEPT !.stage = "sending", !.task = task]
    BY <1>3 DEF Claim, TypeInv, TypeOK
  <2> HIDE DEF task
  <2>2. worker'[w].stage = "sending" /\ worker'[w].config = worker[w].config
    BY <1>1, <2>1 DEF WorkerState
  <2> QED BY <1>2, <1>3, <2>2 DEF Claim, ClaimRow, Busy
<1>4. CASE \E e \in Endpoints, n \in Sequences : ClaimRaises(w, e, n)
  BY <1>4, SyncedFall DEF ClaimRaises
<1>5. CASE ClaimNothing(w)
  <2>1. worker'[w].stage = "idle" /\ worker'[w].config = worker[w].config
    BY <1>1, <1>5 DEF ClaimNothing, TypeInv, TypeOK, WorkerState
  <2> QED BY <1>2, <1>5, <2>1 DEF ClaimNothing
<1>6. CASE Accept(w) \/ Refuse(w)
  <2>1. worker[w].stage = "sending" /\ (Answer(w, "accepted") \/ Answer(w, "failing"))
    BY <1>6 DEF Accept, Refuse
  <2>a. \E stage \in {"accepted", "failing"} :
          worker' = [worker EXCEPT ![w] = [@ EXCEPT !.stage = stage]]
    BY <2>1 DEF Answer
  <2>2. worker'[w].stage \in Busy /\ worker'[w].config = worker[w].config
    BY <1>1, <2>a DEF Busy, TypeInv, TypeOK, WorkerState
  <2>3. worker[w].stage \in Busy
    BY <2>1 DEF Busy
  <2> QED BY <1>2, <2>2, <2>3
<1>7. CASE MarkDelivered(w) \/ MarkFailed(w)
  <2>1. worker[w].stage \in Busy
        /\ worker' = [worker EXCEPT ![w] =
                        [@ EXCEPT !.stage = "claiming", !.task = NoTask]]
    BY <1>7, MarkSettles DEF MarkDelivered, MarkFailed, Settle
  <2>2. worker'[w].stage = "claiming" /\ worker'[w].config = worker[w].config
    BY <1>1, <2>1 DEF TypeInv, TypeOK, WorkerState
  <2> QED BY <1>2, <2>1, <2>2
<1>8. CASE MarkRaises(w)
  BY <1>8, SyncedSync
<1> QED BY <1>3, <1>4, <1>5, <1>6, <1>7, <1>8 DEF Process

(* Which worker a step belongs to.                                         *)
LEMMA OneWorker ==
  ASSUME TypeInv, [Next]_vars, NEW v \in Workers, worker'[v] # worker[v]
  PROVE  Sync(v) \/ Process(v) \/ Restart(v) \/ Crash(v)
<1>1. ASSUME NEW w \in Workers, Sync(w) \/ Process(w) \/ Restart(w) \/ Crash(w)
      PROVE  \A u \in Workers : u # w => worker'[u] = worker[u]
  BY <1>1 DEF Sync, Snapshot, Register, BuildRaises, RegisterRaises, Enqueue, Process,
     Claim, ClaimRaises, ClaimNothing, Accept, Refuse, Answer, MarkDelivered, MarkFailed,
     Settle, MarkRaises, Restart, Start, Crash, Fall, TypeInv, TypeOK
<1>2. worker' # worker
  OBVIOUS
<1>3. ~UNCHANGED vars
  BY <1>2 DEF vars
<1>4. ~\E event \in Events : AppendReceipt(event)
  BY <1>2 DEF AppendReceipt
<1>5. ~\E e \in Endpoints, n \in Sequences : Elapse(e, n) \/ RetryDead(e, n)
  BY <1>2 DEF Elapse, BackoffElapses, LeaseElapses, RetryDead
<1> QED BY <1>1, <1>3, <1>4, <1>5 DEF Next

LEMMA SyncedStep ==
  ASSUME TypeInv, [Next]_vars, NEW v \in Workers, SyncedInv(v)
  PROVE  SyncedInv(v)'
<1>1. Kept /\ TypeInv'
  BY EndpointsKept, TypeStep
<1>2. CASE worker'[v] = worker[v]
  BY <1>1, <1>2, SyncedFrame
<1>3. CASE worker'[v] # worker[v]
  BY <1>1, <1>3, OneWorker, SyncedSync, SyncedProcess
<1> QED BY <1>2, <1>3

(* No checkpoint is ahead of the log, and none behind its registration.    *)
CheckpointInv ==
  \A e \in Endpoints : endpoints[e] # NoEndpoint =>
    origin[e] \leq endpoints[e].checkpoint /\ endpoints[e].checkpoint \leq Len(log)

(* OutboxMatchesCheckpoint, row by row.                                    *)
RowsInv ==
  \A e \in Endpoints, n \in Sequences :
    deliveries[e][n] # NoDelivery <=>
      /\ endpoints[e] # NoEndpoint
      /\ origin[e] < n /\ n \leq endpoints[e].checkpoint
      /\ log[n] \in endpoints[e].config.events

LEMMA RowsInvSuffices == TypeInv /\ CheckpointInv /\ RowsInv => OutboxMatchesCheckpoint
<1> SUFFICES ASSUME TypeInv, CheckpointInv, RowsInv, NEW e \in Endpoints
             PROVE  {n \in Sequences : deliveries[e][n] # NoDelivery} =
                      IF endpoints[e] = NoEndpoint THEN {}
                      ELSE Selected(endpoints[e].config, origin[e], endpoints[e].checkpoint)
  BY DEF OutboxMatchesCheckpoint
<1>1. CASE endpoints[e] = NoEndpoint
  BY <1>1 DEF RowsInv
<1>2. CASE endpoints[e] # NoEndpoint
  <2>1. endpoints[e] \in EndpointRow
    BY <1>2 DEF TypeInv, TypeOK
  <2>2. origin[e] \in Nat /\ endpoints[e].checkpoint \in Nat
        /\ endpoints[e].checkpoint \leq MaxReceipts
    BY <1>2, <2>1, OutboxAssumption DEF TypeInv, TypeOK, EndpointRow, CheckpointInv
  <2>3. ASSUME NEW n PROVE n \in Selected(endpoints[e].config, origin[e], endpoints[e].checkpoint)
                       <=> n \in Sequences /\ deliveries[e][n] # NoDelivery
    BY <1>2, <2>2, OutboxAssumption DEF RowsInv, Selected, Sequences
  <2> QED BY <1>2, <2>3
<1> QED BY <1>1, <1>2

(* Steps that neither register nor enqueue.                                *)
LEMMA RowsFrame ==
  ASSUME TypeInv, CheckpointInv, RowsInv, UNCHANGED <<endpoints, origin>>,
         \A e \in Endpoints, n \in Sequences :
           deliveries'[e][n] # NoDelivery <=> deliveries[e][n] # NoDelivery,
         Len(log') \in Nat, Len(log) \leq Len(log'),
         \A n \in 1..Len(log) : log'[n] = log[n]
  PROVE  CheckpointInv' /\ RowsInv'
<1>1. Len(log) \in Nat /\ \A e \in Endpoints : origin[e] \in Nat
  BY DEF TypeInv, TypeOK
<1>2. \A e \in Endpoints : endpoints[e] # NoEndpoint => endpoints[e].checkpoint \in Nat
  BY DEF TypeInv, TypeOK, EndpointRow
<1>3. CheckpointInv'
  BY <1>1, <1>2 DEF CheckpointInv
<1>4. ASSUME NEW e \in Endpoints, NEW n \in Sequences, endpoints[e] # NoEndpoint,
             n \leq endpoints[e].checkpoint
      PROVE  log'[n] = log[n]
  BY <1>1, <1>2, <1>4, OutboxAssumption DEF CheckpointInv, Sequences
<1> QED BY <1>3, <1>4 DEF RowsInv

LEMMA RowsRegister ==
  ASSUME TypeInv, CheckpointInv, RowsInv, NEW setting \in Setting, NEW observed \in Nat,
         observed \leq Len(log), RegisterRow(setting, FirstCheckpoint(setting, observed)),
         UNCHANGED <<log, deliveries>>
  PROVE  CheckpointInv' /\ RowsInv'
<1> DEFINE checkpoint == FirstCheckpoint(setting, observed)
           id == setting.id
<1>1. id \in Endpoints /\ Len(log) \in Nat
  BY DEF Setting, TypeInv, TypeOK
<1>2. checkpoint \in Nat
  BY FirstCheckpointType
<1>3. CASE UNCHANGED <<endpoints, origin>>
  BY <1>1, <1>3, RowsFrame
<1>4. CASE endpoints[id] = NoEndpoint
           /\ endpoints' = [endpoints EXCEPT ![id] =
                              [config |-> setting, checkpoint |-> checkpoint]]
           /\ origin' = [origin EXCEPT ![id] = checkpoint]
  <2>1. checkpoint \leq Len(log)
    BY <1>1, <1>4 DEF FirstCheckpoint
  <2> HIDE DEF checkpoint, id
  <2>2. /\ endpoints'[id] = [config |-> setting, checkpoint |-> checkpoint]
        /\ origin'[id] = checkpoint
        /\ \A e \in Endpoints : e # id => endpoints'[e] = endpoints[e] /\ origin'[e] = origin[e]
    BY <1>1, <1>4 DEF TypeInv, TypeOK
  <2>3. CheckpointInv'
    BY <1>2, <2>1, <2>2 DEF CheckpointInv
  <2>4. ASSUME NEW n \in Sequences
        PROVE  deliveries[id][n] = NoDelivery /\ ~(origin'[id] < n /\ n \leq endpoints'[id].checkpoint)
    <3>1. deliveries[id][n] = NoDelivery
      BY <1>1, <1>4 DEF RowsInv
    <3>2. origin'[id] = checkpoint /\ endpoints'[id].checkpoint = checkpoint
      BY <2>2
    <3>3. n \in Nat
      BY OutboxAssumption DEF Sequences
    <3> QED BY <1>2, <3>1, <3>2, <3>3
  <2>5. UNCHANGED <<deliveries, log>>
    OBVIOUS
  <2>6. ASSUME NEW e \in Endpoints, NEW n \in Sequences
        PROVE  deliveries'[e][n] # NoDelivery <=>
                 /\ endpoints'[e] # NoEndpoint
                 /\ origin'[e] < n /\ n \leq endpoints'[e].checkpoint
                 /\ log'[n] \in endpoints'[e].config.events
    <3>1. CASE e = id
      BY <2>4, <2>5, <3>1
    <3>2. CASE e # id
      BY <2>2, <2>5, <3>2 DEF RowsInv
    <3> QED BY <3>1, <3>2
  <2> QED BY <2>3, <2>6 DEF RowsInv
<1> QED BY <1>3, <1>4 DEF RegisterRow

LEMMA RowsEnqueue ==
  ASSUME TypeInv, CheckpointInv, RowsInv, NEW w \in Workers, SyncedInv(w), Enqueue(w)
  PROVE  CheckpointInv' /\ RowsInv'
<1> DEFINE id == Current(w).id
           observed == worker[w].observed
           old == endpoints[id].checkpoint
           new == Advanced(old, observed)
<1>1. /\ id \in Endpoints /\ endpoints[id] \in EndpointRow
      /\ endpoints'[id] = [config |-> endpoints[id].config, checkpoint |-> new]
      /\ \A e \in Endpoints : e # id => endpoints'[e] = endpoints[e]
      /\ \A e \in Endpoints, n \in Sequences :
           deliveries'[e][n] = IF e = id /\ n \in NewRows(w) THEN Pending
                               ELSE deliveries[e][n]
      /\ UNCHANGED <<log, origin>>
  BY EnqueueEffect
<1>2. endpoints[id] # NoEndpoint /\ worker[w].checkpoint \leq old /\ worker[w].checkpoint \in Nat
      /\ worker[w].stage = "enqueueing"
  BY WorkerType DEF Enqueue, TypeInv, PlaceInv, SyncedInv, WorkerState
<1>3. endpoints[id].config = Current(w)
  <2>1. worker[w].position \in DOMAIN worker[w].config /\ worker[w].position \in Int
    BY <1>2, CurrentType, WorkerType DEF WorkerState
  <2>2. worker[w].position \in Synced(w)
    BY <1>2, <2>1 DEF Synced
  <2> QED BY <2>2 DEF SyncedInv, Registered, Current
<1>4. observed \in Nat /\ observed \leq Len(log) /\ Len(log) \in Nat /\ old \in Nat
      /\ origin[id] \in Nat
  BY <1>1, <1>2, CurrentType DEF TypeInv, TypeOK, EndpointRow
<1>5. origin[id] \leq old /\ old \leq Len(log)
  BY <1>1, <1>2 DEF CheckpointInv
<1>6. new \in Nat /\ old \leq new /\ new \leq Len(log)
      /\ \A n \in Nat : (n \leq new <=> n \leq old \/ n \leq observed)
  BY <1>4, <1>5 DEF Advanced
<1>7. endpoints'[id] # NoEndpoint
  BY <1>1, <1>2, EnqueueKeeps DEF Kept
<1>8. CheckpointInv'
  BY <1>1, <1>4, <1>5, <1>6 DEF CheckpointInv
<1>9. ASSUME NEW n \in Sequences
      PROVE  n \in NewRows(w) <=> /\ old < n /\ n \leq observed
                                  /\ log[n] \in endpoints[id].config.events
                                  /\ deliveries[id][n] = NoDelivery
  <2>1. n \in Nat
    BY OutboxAssumption DEF Sequences
  <2> QED BY <1>2, <1>3, <1>4, <2>1 DEF NewRows, Selected
<1>10. ASSUME NEW n \in Sequences
       PROVE  deliveries'[id][n] # NoDelivery <=>
                /\ origin[id] < n /\ n \leq new /\ log[n] \in endpoints[id].config.events
  <2>1. n \in Nat
    BY OutboxAssumption DEF Sequences
  <2>2. deliveries[id][n] # NoDelivery <=>
          /\ origin[id] < n /\ n \leq old /\ log[n] \in endpoints[id].config.events
    BY <1>1, <1>2 DEF RowsInv
  <2>3. deliveries'[id][n] # NoDelivery <=> n \in NewRows(w) \/ deliveries[id][n] # NoDelivery
    BY <1>1, PendingType, NothingAssumption
  <2> HIDE DEF id, observed, old, new
  <2> QED BY <1>4, <1>5, <1>6, <1>9, <2>1, <2>2, <2>3
<1> HIDE DEF id, observed, old, new
<1>11. \A e \in Endpoints, n \in Sequences :
         e # id => deliveries'[e][n] = deliveries[e][n]
  BY <1>1
<1>12. endpoints'[id].config = endpoints[id].config /\ endpoints'[id].checkpoint = new
  BY <1>1
<1>13. RowsInv'
  <2> SUFFICES ASSUME NEW e \in Endpoints, NEW n \in Sequences
               PROVE  deliveries'[e][n] # NoDelivery <=>
                        /\ endpoints'[e] # NoEndpoint
                        /\ origin'[e] < n /\ n \leq endpoints'[e].checkpoint
                        /\ log'[n] \in endpoints'[e].config.events
    BY DEF RowsInv
  <2>1. CASE e = id
    BY <1>1, <1>7, <1>10, <1>12, <2>1
  <2>2. CASE e # id
    BY <1>1, <1>11, <2>2 DEF RowsInv
  <2> QED BY <2>1, <2>2
<1> QED BY <1>8, <1>13

SameRows ==
  \A e \in Endpoints, n \in Sequences :
    deliveries'[e][n] # NoDelivery <=> deliveries[e][n] # NoDelivery

LEMMA ProcessRows ==
  ASSUME TypeInv, NEW w \in Workers, Process(w)
  PROVE  SameRows /\ UNCHANGED <<log, endpoints, origin>>
<1>1. UNCHANGED <<log, endpoints, origin>>
  BY DEF Process, Claim, ClaimRaises, ClaimRow, ClaimNothing, Accept, Refuse, MarkDelivered,
     MarkFailed, Settle, MarkRaises, tables
<1>2. ASSUME NEW e \in Endpoints, NEW n \in Sequences, ClaimRow(w, e, n)
      PROVE  SameRows
  <2>1. Persist
    BY <1>2, ClaimTables
  <2>2. ASSUME NEW d \in Endpoints, NEW m \in Sequences, deliveries[d][m] = NoDelivery
        PROVE  deliveries'[d][m] = NoDelivery
    <3>1. ~Expired(d, m) /\ <<d, m>> # <<e, n>>
      BY <1>2, <2>2 DEF ClaimRow, FirstDue, Due, Expired
    <3> QED BY <1>2, <2>2, <3>1, ClaimedRow
  <2> QED BY <2>1, <2>2 DEF SameRows, Persist
<1>3. CASE MarkDelivered(w) \/ MarkFailed(w)
  <2>1. PICK status \in {"pending", "delivered", "dead"}, due \in BOOLEAN :
          Settle(w, status, due)
    BY <1>3, MarkSettles
  <2>2. /\ Persist /\ Row(w) \in Delivery
        /\ \A d \in Endpoints, m \in Sequences :
             <<d, m>> # Event(w) => deliveries'[d][m] = deliveries[d][m]
    BY <1>3, <2>1, MarkSettles, SettleTables
  <2>3. ASSUME NEW d \in Endpoints, NEW m \in Sequences, deliveries[d][m] = NoDelivery
        PROVE  deliveries'[d][m] = NoDelivery
    <3>1. <<d, m>> # Event(w)
      BY <2>2, <2>3, NothingAssumption DEF Row, Event
    <3> QED BY <2>2, <2>3, <3>1
  <2> QED BY <1>1, <2>2, <2>3 DEF SameRows, Persist
<1>4. CASE ClaimNothing(w) \/ Accept(w) \/ Refuse(w) \/ MarkRaises(w)
  BY <1>1, <1>4 DEF ClaimNothing, Accept, Refuse, MarkRaises, tables, SameRows
<1> QED BY <1>1, <1>2, <1>3, <1>4 DEF Process, Claim, ClaimRaises

LEMMA EnvironmentRows ==
  ASSUME TypeInv, NEW e \in Endpoints, NEW n \in Sequences,
         Elapse(e, n) \/ RetryDead(e, n)
  PROVE  SameRows /\ UNCHANGED <<log, endpoints, origin>>
<1>1. /\ Persist /\ UNCHANGED <<log, endpoints, origin>> /\ deliveries[e][n] \in Delivery
      /\ \A d \in Endpoints, m \in Sequences :
           <<d, m>> # <<e, n>> => deliveries'[d][m] = deliveries[d][m]
  BY EnvironmentRow
<1>2. ASSUME NEW d \in Endpoints, NEW m \in Sequences, deliveries[d][m] = NoDelivery
      PROVE  deliveries'[d][m] = NoDelivery
  BY <1>1, <1>2, NothingAssumption
<1> QED BY <1>1, <1>2 DEF SameRows, Persist

LEMMA RowsStep ==
  ASSUME TypeInv, CheckpointInv, RowsInv, [Next]_vars, \A w \in Workers : SyncedInv(w)
  PROVE  CheckpointInv' /\ RowsInv'
<1>1. Len(log) \in Nat /\ log \in Seq(Events)
  BY DEF TypeInv, TypeOK
<1>2. ASSUME SameRows, UNCHANGED <<log, endpoints, origin>>
      PROVE  CheckpointInv' /\ RowsInv'
  BY <1>1, <1>2, RowsFrame DEF SameRows
<1>3. ASSUME NEW event \in Events, AppendReceipt(event) PROVE CheckpointInv' /\ RowsInv'
  <2>1. log' = Append(log, event) /\ UNCHANGED <<endpoints, deliveries, origin>>
    BY <1>3 DEF AppendReceipt, tables
  <2>2. Len(log') = Len(log) + 1 /\ \A n \in 1..Len(log) : log'[n] = log[n]
    BY <1>1, <2>1
  <2>3. \A e \in Endpoints, n \in Sequences :
          deliveries'[e][n] # NoDelivery <=> deliveries[e][n] # NoDelivery
    BY <2>1
  <2>4. UNCHANGED <<endpoints, origin>> /\ Len(log') \in Nat /\ Len(log) \leq Len(log')
    BY <1>1, <2>1, <2>2
  <2> QED BY <2>2, <2>3, <2>4, RowsFrame
<1>4. ASSUME NEW w \in Workers, Sync(w) PROVE CheckpointInv' /\ RowsInv'
  <2>1. CASE Register(w) \/ BuildRaises(w)
    <3>1. Current(w) \in Setting /\ worker[w].observed \in Nat
          /\ worker[w].observed \leq Len(log)
      BY <1>1, <2>1, CurrentType DEF Register, BuildRaises
    <3>2. RegisterRow(Current(w), FirstCheckpoint(Current(w), worker[w].observed))
          /\ UNCHANGED <<log, deliveries>>
      BY <2>1 DEF Register, BuildRaises
    <3> QED BY <3>1, <3>2, RowsRegister
  <2>2. CASE Snapshot(w) \/ RegisterRaises(w)
    BY <1>2, <2>2 DEF Snapshot, RegisterRaises, tables, SameRows
  <2> QED BY <1>4, <2>1, <2>2, RowsEnqueue DEF Sync
<1>5. ASSUME NEW w \in Workers, Process(w) PROVE CheckpointInv' /\ RowsInv'
  BY <1>2, <1>5, ProcessRows
<1>6. ASSUME NEW w \in Workers, Restart(w) \/ Crash(w) PROVE CheckpointInv' /\ RowsInv'
  BY <1>2, <1>6 DEF Restart, Start, Crash, tables, SameRows
<1>7. ASSUME NEW e \in Endpoints, NEW n \in Sequences, Elapse(e, n) \/ RetryDead(e, n)
      PROVE  CheckpointInv' /\ RowsInv'
  BY <1>2, <1>7, EnvironmentRows
<1>8. CASE UNCHANGED vars
  BY <1>2, <1>8 DEF vars, tables, SameRows
<1> QED BY <1>3, <1>4, <1>5, <1>6, <1>7, <1>8 DEF Next

SyncInv == TypeInv /\ CheckpointInv /\ RowsInv /\ \A w \in Workers : SyncedInv(w)

LEMMA SyncInit == Init => SyncInv
<1> SUFFICES ASSUME Init PROVE SyncInv
  OBVIOUS
<1>1. CheckpointInv /\ RowsInv
  BY DEF Init, CheckpointInv, RowsInv
<1>2. \A w \in Workers : SyncedInv(w)
  BY DEF Init, SyncedInv, Synced, Down, Fresh, Busy
<1> QED BY <1>1, <1>2, TypeInit DEF SyncInv

LEMMA SyncStep == SyncInv /\ [Next]_vars => SyncInv'
BY TypeStep, RowsStep, SyncedStep DEF SyncInv

(* sync_outbox: whatever snapshots of the receipts are in flight, and      *)
(* whoever dies between registering and enqueueing, the deliveries of an   *)
(* endpoint are exactly those of the receipts it selected up to its        *)
(* checkpoint.                                                             *)
THEOREM OutboxSynchronised == Spec => []OutboxMatchesCheckpoint
<1>1. SyncInv => OutboxMatchesCheckpoint
  BY RowsInvSuffices DEF SyncInv
<1> QED BY <1>1, SyncInit, SyncStep, PTL DEF Spec

-------------------------------------------------------------------------------
(* The attempts of a delivery.                                             *)

(* The step gives v no claim, and leaves the attempts of those it has.     *)
ClaimsKept(v) ==
  \A e \in Endpoints, n \in Sequences :
    deliveries'[e][n] # NoDelivery /\ deliveries'[e][n].claimedBy = v =>
      /\ deliveries[e][n] # NoDelivery /\ deliveries[e][n].claimedBy = v
      /\ deliveries'[e][n].attempts = deliveries[e][n].attempts

LEMMA ClaimsKeptSync ==
  ASSUME TypeInv, NEW v \in Workers, NEW w \in Workers, Sync(w)
  PROVE  ClaimsKept(v)
<1>1. CASE Enqueue(w)
  <2>1. \A e \in Endpoints, n \in Sequences :
          deliveries'[e][n] = Pending \/ deliveries'[e][n] = deliveries[e][n]
    BY <1>1, EnqueueEffect
  <2>2. Pending.claimedBy # v
    BY OutboxAssumption DEF Pending
  <2> QED BY <2>1, <2>2 DEF ClaimsKept
<1>2. CASE ~Enqueue(w)
  BY <1>2 DEF Sync, Snapshot, Register, BuildRaises, RegisterRaises, tables, ClaimsKept
<1> QED BY <1>1, <1>2

LEMMA ClaimsKeptClaim ==
  ASSUME TypeInv, NEW v \in Workers, NEW w \in Workers, v # w,
         NEW d \in Endpoints, NEW m \in Sequences, ClaimRow(w, d, m)
  PROVE  ClaimsKept(v)
<1> SUFFICES ASSUME NEW e \in Endpoints, NEW n \in Sequences,
                    deliveries'[e][n] # NoDelivery, deliveries'[e][n].claimedBy = v
             PROVE  deliveries'[e][n] = deliveries[e][n]
  BY DEF ClaimsKept
<1>1. deliveries[e][n] # NoDelivery
  BY ProcessRows, ClaimTables, ClaimedRow DEF ClaimRow, FirstDue, Due, Expired
<1> DEFINE open == IF Expired(e, n) THEN Recovered(deliveries[e][n]) ELSE deliveries[e][n]
<1>2. deliveries[e][n] \in Delivery
  BY <1>1, RowType DEF TypeInv
<1>3. open \in Delivery /\ (Expired(e, n) => open.claimedBy = NoWorker)
  BY <1>2, RecoveredType DEF Recovered, Pending
<1>4. <<e, n>> # <<d, m>>
  <2> SUFFICES ASSUME <<e, n>> = <<d, m>> PROVE FALSE
    OBVIOUS
  <2>1. deliveries'[e][n] = Claimed(open, w)
    BY ClaimedRow
  <2> HIDE DEF open
  <2> QED BY <1>3, <2>1, ClaimedType
<1>5. deliveries'[e][n] = open
  BY <1>4, ClaimedRow
<1>6. ~Expired(e, n)
  <2> HIDE DEF open
  <2> QED BY <1>3, <1>5, OutboxAssumption
<1> QED BY <1>5, <1>6

LEMMA ClaimsKeptMark ==
  ASSUME TypeInv, NEW v \in Workers, NEW w \in Workers, MarkDelivered(w) \/ MarkFailed(w)
  PROVE  ClaimsKept(v)
<1>1. PICK status \in {"pending", "delivered", "dead"}, due \in BOOLEAN :
        Settle(w, status, due)
  BY MarkSettles
<1>2. /\ deliveries'[Held(w).endpoint][Held(w).sequence] = Settled(Row(w), status, due)
      /\ \A d \in Endpoints, m \in Sequences :
           <<d, m>> # Event(w) => deliveries'[d][m] = deliveries[d][m]
  BY <1>1, MarkSettles, SettleTables
<1>3. Settled(Row(w), status, due).claimedBy # v
  BY OutboxAssumption DEF Settled
<1> QED BY <1>2, <1>3 DEF ClaimsKept, Event

LEMMA ClaimsKeptEnvironment ==
  ASSUME TypeInv, NEW v \in Workers, NEW e \in Endpoints, NEW n \in Sequences,
         Elapse(e, n) \/ RetryDead(e, n)
  PROVE  ClaimsKept(v)
<1>1. Pending.claimedBy # v
  BY OutboxAssumption DEF Pending
<1>2. deliveries[e][n] # NoDelivery
  BY EnvironmentRow, NothingAssumption
<1> QED BY <1>1, <1>2, EnvironmentRow DEF ClaimsKept

LEMMA ClaimsKeptStep ==
  ASSUME TypeInv, [Next]_vars, NEW v \in Workers,
         ~\E e \in Endpoints, n \in Sequences : Claim(v, e, n) \/ ClaimRaises(v, e, n)
  PROVE  ClaimsKept(v)
<1>1. ASSUME deliveries' = deliveries PROVE ClaimsKept(v)
  BY <1>1 DEF ClaimsKept
<1>2. ASSUME NEW w \in Workers, Process(w) PROVE ClaimsKept(v)
  <2>1. ASSUME NEW e \in Endpoints, NEW n \in Sequences, Claim(w, e, n) \/ ClaimRaises(w, e, n)
        PROVE  ClaimsKept(v)
    BY <2>1, ClaimsKeptClaim DEF Claim, ClaimRaises
  <2>2. CASE ClaimNothing(w) \/ Accept(w) \/ Refuse(w) \/ MarkRaises(w)
    BY <1>1, <2>2 DEF ClaimNothing, Accept, Refuse, MarkRaises, tables
  <2> QED BY <1>2, <2>1, <2>2, ClaimsKeptMark DEF Process
<1>3. ASSUME NEW w \in Workers, Restart(w) \/ Crash(w) PROVE ClaimsKept(v)
  BY <1>1, <1>3 DEF Restart, Start, Crash, tables
<1>4. CASE (\E event \in Events : AppendReceipt(event)) \/ UNCHANGED vars
  BY <1>1, <1>4 DEF AppendReceipt, vars, tables
<1> QED BY <1>2, <1>3, <1>4, ClaimsKeptSync, ClaimsKeptEnvironment DEF Next

(* mark_failed compares the attempts the worker claimed with: they are     *)
(* those of the row for as long as the claim is the worker's.              *)
HeldInv(w) ==
  worker[w].stage \in Busy =>
    /\ Configured(w, Held(w).endpoint)
    /\ Row(w).claimedBy = w => Row(w).attempts = Held(w).attempts

LEMMA HeldFrame ==
  ASSUME TypeInv, TypeInv', NEW v \in Workers, HeldInv(v), ClaimsKept(v),
         worker'[v].stage \in Busy => /\ worker[v].stage \in Busy
                                      /\ worker'[v].task = worker[v].task
                                      /\ worker'[v].config = worker[v].config
  PROVE  HeldInv(v)'
<1> SUFFICES ASSUME worker'[v].stage \in Busy
             PROVE  /\ Configured(v, Held(v).endpoint)'
                    /\ Row(v)'.claimedBy = v => Row(v)'.attempts = Held(v)'.attempts
  BY DEF HeldInv
<1>1. Held(v)' = Held(v) /\ worker'[v].config = worker[v].config
      /\ worker[v].stage \in Busy
  BY DEF Held
<1>2. Held(v).endpoint \in Endpoints /\ Held(v).sequence \in Sequences
      /\ Row(v)' = deliveries'[Held(v).endpoint][Held(v).sequence] /\ Row(v)' # NoDelivery
  BY <1>1 DEF TypeInv, PlaceInv, Row
<1>3. Configured(v, Held(v).endpoint)'
  BY <1>1 DEF HeldInv, Configured
<1> QED BY <1>1, <1>2, <1>3 DEF HeldInv, ClaimsKept, Row

LEMMA HeldClaim ==
  ASSUME TypeInv, NEW w \in Workers, NEW e \in Endpoints, NEW n \in Sequences,
         Claim(w, e, n)
  PROVE  HeldInv(w)'
<1> DEFINE task == [endpoint |-> e, sequence |-> n,
                    attempts |-> deliveries[e][n].attempts + 1]
           open == IF Expired(e, n) THEN Recovered(deliveries[e][n]) ELSE deliveries[e][n]
<1>1. worker'[w] = [worker[w] EXCEPT !.stage = "sending", !.task = task]
      /\ ClaimRow(w, e, n) /\ Configured(w, e)
  BY DEF Claim, TypeInv, TypeOK
<1>2. deliveries[e][n] \in Delivery
  BY <1>1, ClaimTables
<1>3. open \in Delivery /\ open.attempts = deliveries[e][n].attempts
  BY <1>2, RecoveredType
<1>4. deliveries'[e][n] = Claimed(open, w)
  BY <1>1, ClaimedRow
<1>5. task.endpoint = e /\ task.sequence = n
      /\ task.attempts = deliveries[e][n].attempts + 1
  OBVIOUS
<1> HIDE DEF task, open
<1>6. Held(w)' = task /\ worker'[w].config = worker[w].config
  BY <1>1, WorkerType DEF Held, WorkerState
<1>7. Row(w)'.attempts = Held(w)'.attempts
  BY <1>3, <1>4, <1>5, <1>6, ClaimedType DEF Row
<1>8. Configured(w, Held(w).endpoint)'
  BY <1>1, <1>5, <1>6 DEF Configured
<1> QED BY <1>7, <1>8 DEF HeldInv

(* Only a claim makes a worker busy, and only an answer leaves it so.      *)
LEMMA NotBusyAfter ==
  ASSUME TypeInv, NEW v \in Workers,
         \/ Sync(v) \/ Restart(v) \/ Crash(v)
         \/ MarkDelivered(v) \/ MarkFailed(v) \/ MarkRaises(v) \/ ClaimNothing(v)
  PROVE  worker'[v].stage \notin Busy
<1>1. worker[v] \in WorkerState
  BY WorkerType
<1>2. CASE Fall(v)
  BY <1>2 DEF Fall, Down, Fresh, Busy, TypeInv, TypeOK
<1>3. CASE Snapshot(v)
  BY <1>1, <1>3 DEF Snapshot, Busy, WorkerState, TypeInv, TypeOK
<1>4. CASE Register(v)
  <2> DEFINE checkpoint == FirstCheckpoint(Current(v), worker[v].observed)
  <2>1. worker'[v] = [worker[v] EXCEPT !.stage = "enqueueing", !.checkpoint = checkpoint]
    BY <1>4 DEF Register, TypeInv, TypeOK
  <2> HIDE DEF checkpoint
  <2> QED BY <1>1, <2>1 DEF Busy, WorkerState
<1>5. CASE Enqueue(v)
  <2>1. worker'[v] = IF worker[v].position < Len(worker[v].config)
                     THEN [worker[v] EXCEPT !.stage = "registering", !.checkpoint = 0,
                                            !.position = worker[v].position + 1]
                     ELSE Fresh("claiming", worker[v].config)
    BY <1>5 DEF Enqueue, TypeInv, TypeOK
  <2> QED BY <1>1, <2>1 DEF Fresh, Busy, WorkerState
<1>6. CASE Restart(v)
  BY <1>6 DEF Restart, Start, Fresh, Busy, TypeInv, TypeOK
<1>7. CASE MarkDelivered(v) \/ MarkFailed(v)
  <2>1. worker'[v] = [worker[v] EXCEPT !.stage = "claiming", !.task = NoTask]
    BY <1>7 DEF MarkDelivered, MarkFailed, Settle, TypeInv, TypeOK
  <2> QED BY <1>1, <2>1 DEF Busy, WorkerState
<1>8. CASE ClaimNothing(v)
  BY <1>1, <1>8 DEF ClaimNothing, Busy, WorkerState, TypeInv, TypeOK
<1> QED BY <1>2, <1>3, <1>4, <1>5, <1>6, <1>7, <1>8
        DEF Sync, BuildRaises, RegisterRaises, Crash, MarkRaises

LEMMA HeldStep ==
  ASSUME TypeInv, [Next]_vars, NEW v \in Workers, HeldInv(v)
  PROVE  HeldInv(v)'
<1>1. TypeInv'
  BY TypeStep
<1>2. ASSUME NEW e \in Endpoints, NEW n \in Sequences, Claim(v, e, n)
      PROVE  HeldInv(v)'
  BY <1>2, HeldClaim
<1>3. ASSUME Fall(v) PROVE HeldInv(v)'
  <2>1. worker'[v].stage = "down"
    BY <1>3 DEF Fall, Down, Fresh, TypeInv, TypeOK
  <2> QED BY <2>1 DEF HeldInv, Busy
<1>4. ASSUME NEW e \in Endpoints, NEW n \in Sequences, ClaimRaises(v, e, n)
      PROVE  HeldInv(v)'
  BY <1>3, <1>4 DEF ClaimRaises
<1>5. ASSUME ~\E e \in Endpoints, n \in Sequences : Claim(v, e, n) \/ ClaimRaises(v, e, n)
      PROVE  HeldInv(v)'
  <2>1. ClaimsKept(v)
    BY <1>5, ClaimsKeptStep
  <2>2. worker[v] \in WorkerState
    BY WorkerType
  <2>3. CASE worker'[v] = worker[v]
    BY <1>1, <2>1, <2>3, HeldFrame
  <2>4. CASE Sync(v) \/ Restart(v) \/ Crash(v)
    <3>1. worker'[v].stage \notin Busy
      BY <2>4, NotBusyAfter
    <3> QED BY <3>1 DEF HeldInv
  <2>5. CASE Accept(v) \/ Refuse(v)
    <3>1. worker[v].stage = "sending" /\ (Answer(v, "accepted") \/ Answer(v, "failing"))
      BY <2>5 DEF Accept, Refuse
    <3>2. worker[v].stage \in Busy /\ worker'[v].task = worker[v].task
          /\ worker'[v].config = worker[v].config
      BY <2>2, <3>1 DEF Answer, Busy, TypeInv, TypeOK, WorkerState
    <3> QED BY <1>1, <2>1, <3>2, HeldFrame
  <2>6. CASE MarkDelivered(v) \/ MarkFailed(v) \/ MarkRaises(v) \/ ClaimNothing(v)
    <3>1. worker'[v].stage \notin Busy
      BY <2>6, NotBusyAfter
    <3> QED BY <3>1 DEF HeldInv
  <2> QED BY <1>5, <2>3, <2>4, <2>5, <2>6, OneWorker DEF Process
<1> QED BY <1>2, <1>4, <1>5

Spent(r) == r.attempts + (IF r.status = "pending" THEN 1 ELSE 0)

(* AttemptsAccounted, with room for the claim of a pending delivery.       *)
AttemptsInv ==
  \A e \in Endpoints, n \in Sequences :
    deliveries[e][n] # NoDelivery =>
      Spent(deliveries[e][n]) \leq endpoints[e].config.maxAttempts + lost[e][n]

LEMMA RowEndpoint ==
  ASSUME TypeInv, RowsInv, NEW e \in Endpoints, NEW n \in Sequences,
         deliveries[e][n] # NoDelivery
  PROVE  /\ endpoints[e] # NoEndpoint /\ endpoints[e].config \in Setting
         /\ endpoints[e].config.maxAttempts \in Nat \ {0}
         /\ deliveries[e][n] \in Delivery /\ deliveries[e][n].attempts \in Nat
         /\ lost[e][n] \in Nat
<1>1. endpoints[e] # NoEndpoint
  BY DEF RowsInv
<1>2. endpoints[e].config \in Setting
  BY <1>1 DEF TypeInv, TypeOK, EndpointRow
<1>3. deliveries[e][n] \in Delivery
  BY RowType DEF TypeInv
<1> QED BY <1>1, <1>2, <1>3 DEF Setting, Delivery, TypeInv, TypeOK

(* Rows that cost no more than they did.                                   *)
LEMMA AttemptsFrame ==
  ASSUME TypeInv, RowsInv, AttemptsInv, Kept, UNCHANGED lost,
         NEW e \in Endpoints, NEW n \in Sequences,
         deliveries[e][n] # NoDelivery, deliveries'[e][n] = deliveries[e][n]
  PROVE  Spent(deliveries'[e][n]) \leq endpoints'[e].config.maxAttempts + lost'[e][n]
<1>1. endpoints'[e].config = endpoints[e].config
  BY RowEndpoint DEF Kept
<1> QED BY <1>1 DEF AttemptsInv

LEMMA AttemptsEnqueue ==
  ASSUME TypeInv, TypeInv', RowsInv, RowsInv', AttemptsInv, NEW w \in Workers, Enqueue(w)
  PROVE  AttemptsInv'
<1>1. Spent(Pending) = 1
  BY DEF Spent, Pending
<1>2. \A e \in Endpoints, n \in Sequences :
        deliveries'[e][n] = Pending \/ deliveries'[e][n] = deliveries[e][n]
  BY EnqueueEffect
<1>3. UNCHANGED lost /\ Kept
  BY EnqueueKeeps, EnqueueEffect
<1> SUFFICES ASSUME NEW e \in Endpoints, NEW n \in Sequences, deliveries'[e][n] # NoDelivery
             PROVE  Spent(deliveries'[e][n]) \leq endpoints'[e].config.maxAttempts + lost'[e][n]
  BY DEF AttemptsInv, Spent
<1>4. CASE deliveries'[e][n] = Pending
  <2>1. endpoints'[e] # NoEndpoint
    BY DEF RowsInv
  <2>2. endpoints'[e].config.maxAttempts \in Nat \ {0} /\ lost'[e][n] \in Nat
    BY <2>1 DEF TypeInv, TypeOK, EndpointRow, Setting
  <2> QED BY <1>1, <1>4, <2>2
<1>5. CASE deliveries'[e][n] = deliveries[e][n]
  BY <1>3, <1>5, AttemptsFrame
<1> QED BY <1>2, <1>4, <1>5

LEMMA AttemptsClaim ==
  ASSUME TypeInv, RowsInv, AttemptsInv, NEW w \in Workers, NEW d \in Endpoints,
         NEW m \in Sequences, Process(w), ClaimRow(w, d, m)
  PROVE  AttemptsInv'
<1>1. endpoints' = endpoints /\ SameRows
  BY ProcessRows
<1> SUFFICES ASSUME NEW e \in Endpoints, NEW n \in Sequences, deliveries'[e][n] # NoDelivery
             PROVE  Spent(deliveries'[e][n]) \leq endpoints[e].config.maxAttempts + lost'[e][n]
  BY <1>1 DEF AttemptsInv, Spent
<1> DEFINE r == deliveries[e][n]
           open == IF Expired(e, n) THEN Recovered(r) ELSE r
           most == endpoints[e].config.maxAttempts
<1>2. /\ most \in Nat /\ r \in Delivery /\ r.attempts \in Nat /\ lost[e][n] \in Nat
      /\ Spent(r) \leq most + lost[e][n]
  BY <1>1, RowEndpoint DEF SameRows, AttemptsInv
<1>3. lost'[e][n] = lost[e][n] + (IF Expired(e, n) THEN 1 ELSE 0)
  BY ClaimedRow
<1>4. open \in Delivery /\ open.attempts = r.attempts
      /\ open.status = IF Expired(e, n) THEN "pending" ELSE r.status
  BY <1>2, RecoveredType
<1>5. Expired(e, n) => r.status = "delivering"
  BY DEF Expired
<1>6. CASE <<e, n>> = <<d, m>>
  <2>1. open.status = "pending"
    BY <1>4, <1>6 DEF ClaimRow, FirstDue, Due
  <2>2. deliveries'[e][n] = Claimed(open, w)
    BY <1>6, ClaimedRow
  <2> HIDE DEF open, r, most
  <2>3. Spent(deliveries'[e][n]) = r.attempts + 1
    BY <1>2, <1>4, <2>2, ClaimedType DEF Spent
  <2> QED BY <1>2, <1>3, <1>4, <1>5, <2>1, <2>3 DEF Spent, most
<1>7. CASE <<e, n>> # <<d, m>>
  <2>1. deliveries'[e][n] = open
    BY <1>7, ClaimedRow
  <2> HIDE DEF open, r, most
  <2> QED BY <1>2, <1>3, <1>4, <1>5, <2>1 DEF Spent, most
<1> QED BY <1>6, <1>7

(* ~Exhausted of the worker's settings is ~Exhausted of the endpoint's.    *)
LEMMA UnderMaxAttempts ==
  ASSUME TypeInv, NEW w \in Workers, worker[w].stage \in Busy, SyncedInv(w), HeldInv(w),
         ~Exhausted(w), Row(w).claimedBy = w
  PROVE  Row(w).attempts + 1 \leq endpoints[Held(w).endpoint].config.maxAttempts
<1>1. PICK i \in DOMAIN worker[w].config : worker[w].config[i].id = Held(w).endpoint
  BY DEF HeldInv, Configured
<1> DEFINE setting == worker[w].config[i]
<1>2. setting \in Setting /\ Registered(setting)
  <2>1. i \in Synced(w)
    BY <1>1 DEF Synced
  <2> QED BY <2>1, SettingOf DEF SyncedInv, Busy
<1>3. endpoints[Held(w).endpoint].config = setting
  BY <1>1, <1>2 DEF Registered
<1>4. Held(w).attempts \in Nat
  BY WorkerType DEF WorkerState, Held
<1>5. ~(Held(w).attempts \geq setting.maxAttempts)
  BY <1>1 DEF Exhausted
<1>6. setting.maxAttempts \in Nat
  BY <1>2 DEF Setting
<1>7. Row(w).attempts = Held(w).attempts
  BY DEF HeldInv
<1> HIDE DEF setting
<1> QED BY <1>3, <1>4, <1>5, <1>6, <1>7

LEMMA AttemptsMark ==
  ASSUME TypeInv, RowsInv, AttemptsInv, NEW w \in Workers, SyncedInv(w), HeldInv(w),
         MarkDelivered(w) \/ MarkFailed(w)
  PROVE  AttemptsInv'
<1>1. PICK status \in {"pending", "delivered", "dead"}, due \in BOOLEAN :
        Settle(w, status, due) /\ (status = "pending" => ~Exhausted(w))
  BY DEF MarkDelivered, MarkFailed
<1>2. worker[w].stage \in Busy
  BY MarkSettles
<1>3. /\ Held(w).endpoint \in Endpoints /\ Held(w).sequence \in Sequences
      /\ Row(w) \in Delivery /\ Row(w).status = "delivering" /\ Row(w).claimedBy = w
      /\ deliveries'[Held(w).endpoint][Held(w).sequence] = Settled(Row(w), status, due)
      /\ \A d \in Endpoints, m \in Sequences :
           <<d, m>> # Event(w) => deliveries'[d][m] = deliveries[d][m]
  BY <1>1, <1>2, SettleTables
<1>4. UNCHANGED <<endpoints, lost>>
  BY <1>1 DEF Settle
<1> SUFFICES ASSUME NEW e \in Endpoints, NEW n \in Sequences, deliveries'[e][n] # NoDelivery
             PROVE  Spent(deliveries'[e][n]) \leq endpoints[e].config.maxAttempts + lost[e][n]
  BY <1>4 DEF AttemptsInv, Spent
<1>5. CASE <<e, n>> # Event(w)
  BY <1>3, <1>5 DEF AttemptsInv
<1>6. CASE <<e, n>> = Event(w)
  <2> DEFINE r == Row(w)
             most == endpoints[e].config.maxAttempts
  <2>1. e = Held(w).endpoint /\ r = deliveries[e][n]
        /\ deliveries'[e][n] = Settled(r, status, due)
    BY <1>3, <1>6 DEF Event, Row
  <2>2. r \in Delivery /\ r.attempts \in Nat /\ r.status = "delivering" /\ r # NoDelivery
    BY <1>3, NothingAssumption DEF Delivery
  <2>3. most \in Nat /\ lost[e][n] \in Nat
    BY <2>1, <2>2, RowEndpoint
  <2>4. Spent(r) \leq most + lost[e][n]
    BY <2>1, <2>2 DEF AttemptsInv
  <2>5. status = "pending" => r.attempts + 1 \leq most
    <3>1. status = "pending" => ~Exhausted(w)
      BY <1>1
    <3>2. Row(w).claimedBy = w
      BY <1>3
    <3>3. e = Held(w).endpoint
      BY <2>1
    <3>4. ASSUME ~Exhausted(w)
          PROVE  Row(w).attempts + 1 \leq endpoints[Held(w).endpoint].config.maxAttempts
      BY <1>2, <3>2, <3>4, UnderMaxAttempts
    <3> QED BY <3>1, <3>3, <3>4, Zenon
  <2> HIDE DEF r, most
  <2>6. deliveries'[e][n].status = status /\ deliveries'[e][n].attempts = r.attempts
    <3>1. deliveries'[e][n] = Settled(r, status, due) /\ r \in Delivery
      BY <2>1, <2>2
    <3>2. /\ Settled(r, status, due).status = status
          /\ Settled(r, status, due).attempts = r.attempts
      BY <3>1, SettledType
    <3> QED BY <3>1, <3>2
  <2>7. Spent(deliveries'[e][n]) \leq most + lost[e][n]
    BY <2>2, <2>3, <2>4, <2>5, <2>6 DEF Spent
  <2> QED BY <2>7 DEF most
<1> QED BY <1>5, <1>6

LEMMA AttemptsEnvironment ==
  ASSUME TypeInv, RowsInv, AttemptsInv, NEW e \in Endpoints, NEW n \in Sequences,
         Elapse(e, n) \/ RetryDead(e, n)
  PROVE  AttemptsInv'
<1>1. /\ UNCHANGED endpoints /\ deliveries[e][n] \in Delivery
      /\ \A d \in Endpoints, m \in Sequences :
           <<d, m>> # <<e, n>> =>
             deliveries'[d][m] = deliveries[d][m] /\ lost'[d][m] = lost[d][m]
  <2>1. lost' = lost \/ lost' = [lost EXCEPT ![e][n] = 0]
    BY EnvironmentRow
  <2>2. \A d \in Endpoints, m \in Sequences :
          <<d, m>> # <<e, n>> => lost'[d][m] = lost[d][m]
    BY <2>1 DEF TypeInv, TypeOK
  <2>3. /\ UNCHANGED endpoints /\ deliveries[e][n] \in Delivery
        /\ \A d \in Endpoints, m \in Sequences :
             <<d, m>> # <<e, n>> => deliveries'[d][m] = deliveries[d][m]
    BY EnvironmentRow
  <2> QED BY <2>2, <2>3
<1>2. deliveries[e][n] # NoDelivery
  BY <1>1, NothingAssumption
<1>3. endpoints[e].config.maxAttempts \in Nat \ {0}
  BY <1>2, RowEndpoint
<1>4. Spent(deliveries'[e][n]) \leq endpoints[e].config.maxAttempts + lost'[e][n]
  <2>1. CASE deliveries'[e][n] = Pending /\ lost' = [lost EXCEPT ![e][n] = 0]
    BY <1>3, <2>1 DEF Spent, Pending, TypeInv, TypeOK
  <2>2. CASE /\ deliveries'[e][n].status = deliveries[e][n].status
             /\ deliveries'[e][n].attempts = deliveries[e][n].attempts
             /\ lost' = lost
    BY <1>2, <2>2 DEF AttemptsInv, Spent
  <2> QED BY <2>1, <2>2, EnvironmentRow
<1> SUFFICES ASSUME NEW d \in Endpoints, NEW m \in Sequences, deliveries'[d][m] # NoDelivery
             PROVE  Spent(deliveries'[d][m]) \leq endpoints[d].config.maxAttempts + lost'[d][m]
  BY <1>1 DEF AttemptsInv, Spent
<1>5. CASE <<d, m>> # <<e, n>>
  BY <1>1, <1>5 DEF AttemptsInv
<1> QED BY <1>4, <1>5

LEMMA AttemptsStep ==
  ASSUME SyncInv, SyncInv', AttemptsInv, \A w \in Workers : HeldInv(w), [Next]_vars
  PROVE  AttemptsInv'
<1> USE DEF SyncInv
<1>1. Kept
  BY EndpointsKept
<1>2. ASSUME UNCHANGED <<deliveries, lost>> PROVE AttemptsInv'
  BY <1>1, <1>2, AttemptsFrame DEF AttemptsInv
<1>3. ASSUME NEW w \in Workers, Sync(w) PROVE AttemptsInv'
  <2>1. CASE Enqueue(w)
    BY <2>1, AttemptsEnqueue
  <2>2. CASE ~Enqueue(w)
    BY <1>2, <1>3, <2>2 DEF Sync, Snapshot, Register, BuildRaises, RegisterRaises, tables
  <2> QED BY <2>1, <2>2
<1>4. ASSUME NEW w \in Workers, Process(w) PROVE AttemptsInv'
  <2>1. ASSUME NEW e \in Endpoints, NEW n \in Sequences, ClaimRow(w, e, n) PROVE AttemptsInv'
    BY <1>4, <2>1, AttemptsClaim
  <2>2. CASE MarkDelivered(w) \/ MarkFailed(w)
    BY <2>2, AttemptsMark
  <2>3. CASE ClaimNothing(w) \/ Accept(w) \/ Refuse(w) \/ MarkRaises(w)
    BY <1>2, <2>3 DEF ClaimNothing, Accept, Refuse, MarkRaises, tables
  <2> QED BY <1>4, <2>1, <2>2, <2>3 DEF Process, Claim, ClaimRaises
<1>5. ASSUME NEW w \in Workers, Restart(w) \/ Crash(w) PROVE AttemptsInv'
  BY <1>2, <1>5 DEF Restart, Start, Crash, tables
<1>6. ASSUME NEW e \in Endpoints, NEW n \in Sequences, Elapse(e, n) \/ RetryDead(e, n)
      PROVE  AttemptsInv'
  BY <1>6, AttemptsEnvironment
<1>7. CASE (\E event \in Events : AppendReceipt(event)) \/ UNCHANGED vars
  BY <1>2, <1>7 DEF AppendReceipt, vars, tables
<1> QED BY <1>3, <1>4, <1>5, <1>6, <1>7 DEF Next

OutboxInv == SyncInv /\ AttemptsInv /\ \A w \in Workers : HeldInv(w)

LEMMA OutboxInit == Init => OutboxInv
<1> SUFFICES ASSUME Init PROVE OutboxInv
  OBVIOUS
<1>1. AttemptsInv /\ \A w \in Workers : HeldInv(w)
  BY DEF Init, AttemptsInv, HeldInv, Down, Fresh, Busy
<1> QED BY <1>1, SyncInit DEF OutboxInv

LEMMA OutboxStep == OutboxInv /\ [Next]_vars => OutboxInv'
<1> SUFFICES ASSUME OutboxInv, [Next]_vars PROVE OutboxInv'
  OBVIOUS
<1>1. SyncInv'
  BY SyncStep DEF OutboxInv
<1>2. \A w \in Workers : HeldInv(w)'
  BY HeldStep DEF OutboxInv, SyncInv
<1> QED BY <1>1, <1>2, AttemptsStep DEF OutboxInv

(* max_attempts: however many workers share an outbox, lose their leases   *)
(* or die, a delivery is attempted at most max_attempts times, claims that *)
(* were never answered aside.                                              *)
THEOREM OutboxAttempts == Spec => []AttemptsAccounted
<1>1. OutboxInv => AttemptsAccounted
  <2> SUFFICES ASSUME OutboxInv, NEW e \in Endpoints, NEW n \in Sequences,
                      deliveries[e][n] # NoDelivery
               PROVE  deliveries[e][n].attempts \leq
                        endpoints[e].config.maxAttempts + lost[e][n]
    BY DEF AttemptsAccounted
  <2> QED BY RowEndpoint DEF OutboxInv, SyncInv, AttemptsInv, Spent
<1> QED BY <1>1, OutboxInit, OutboxStep, PTL DEF Spec
==============================================================================
