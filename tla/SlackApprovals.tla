---------------------------- MODULE SlackApprovals ----------------------------
(***************************************************************************)
(* Approvals over Slack (service/slack.py): services that announce pending *)
(* actions in a channel and take decisions from the clicks on the messages *)
(* they posted.  A service is one process with one event loop: its worker  *)
(* (SlackWorker) and its request handler (SlackInteractionService.handle)  *)
(* take turns, and only where the worker awaits.  Services share the state *)
(* database (notes, recorded) and the runtime store of ApprovalLifecycle;  *)
(* each step below is one transaction on one of them, or one event at      *)
(* Slack.  Signatures are abstract: a click is a signed request, delivered *)
(* any number of times.                                                    *)
(*                                                                         *)
(* Definitions named Wrong... are not part of the model: each is the       *)
(* definition after it with one plausible mistake, kept to show which      *)
(* property notices the mistake.                                           *)
(***************************************************************************)
EXTENDS ApprovalLifecycle, Sequences

CONSTANTS
  Services, Users, Channels,
  Clicks,          \* signed interaction requests, each with its own signature
  Configs,         \* Services -> the configurations it may be started with
  Others,          \* the authorizations of the CLI, the API and the dashboard
  NoAction, NoService, NoConfig, NoNote, NoClick,
  MaxAttempts,     \* max_attempts of every configuration
  MaxMessages,     \* bound: messages Slack shows
  MaxFaults        \* bound: crashes, failing databases, overtaken leases, and
                   \* operator retries of dead notifications

-----------------------------------------------------------------------------
(* Configurations.  The organization of a legacy one is "": it has neither *)
(* namespaces nor separate approvers.  A user who is not listed has no     *)
(* decisions.                                                              *)

Reviewer == [subject : Subjects, decisions : SUBSET Decision]
Directory == [Users -> Reviewer]

Readable == [channel : Channels, organization : Organizations \cup {""},
             namespaces : SUBSET Namespaces, separate : BOOLEAN,
             reviewer : Directory]

Valid(c) ==
  /\ \E u \in Users : c.reviewer[u].decisions # {}
  /\ IF c.organization = "" THEN c.namespaces = {} /\ ~c.separate
     ELSE c.namespaces # {}

Config == {c \in Readable : Valid(c)}

CanAccess(c, request) ==
  \/ c.organization = ""
  \/ request.organization = c.organization /\ request.namespace \in c.namespaces

(* The DecisionAuthorization of a click; decided_by is "slack:...:user:subject". *)
Auth(c, user) ==
  [actor |-> user, subject |-> c.reviewer[user].subject,
   organization |-> c.organization, namespaces |-> c.namespaces,
   decisions |-> c.reviewer[user].decisions, separate |-> c.separate]

ASSUME SlackAssumption ==
  /\ Configs \in [Services -> SUBSET Config] /\ Users \subseteq Actors
  /\ Others \subseteq Authorization
  /\ \A auth \in Others : auth.organization = "" => auth.decisions = Decision
  /\ NoAction \notin Actions /\ NoService \notin Services
  /\ NoConfig \notin Config /\ NoClick \notin Clicks
  /\ MaxAttempts \in Nat \ {0} /\ MaxMessages \in Nat
  /\ MaxFaults \in Nat

-----------------------------------------------------------------------------
VARIABLES
  notes,           \* slack_notifications: Actions -> row or NoNote
  recorded,        \* slack_interactions: Clicks -> outcome or "none"
  messages,        \* what the channels show, by timestamp
  clicks,          \* Clicks -> the click, or NoClick before it is made
  config,          \* Services -> configuration of the running process
  worker, handler, \* Services -> where its two tasks are
  taken,           \* history: the decisions taken, and by which click
  faults           \* counter of the bound

tables == <<notes, recorded>>
slack == <<messages, clicks>>
vars == <<runtime, reopens, tables, slack, config, worker, handler, taken, faults>>

Note == [status : {"pending", "posting", "posted", "dead", "obsolete", "decided"},
         channel : Channels, attempts : Nat, due : BOOLEAN,
         claimedBy : Services \cup {NoService}, leased : BOOLEAN,
         ts : 0..MaxMessages, by : Authorization \cup {NoOne},
         decision : Decision \cup {"none"}]

(* An absent row is not a row.                                             *)
ASSUME NoteAssumption == NoNote \notin Note

Message == [action : Actions, channel : Channels, buttons : BOOLEAN]

Click == [message : 1..MaxMessages, user : Users, decision : Decision]

WorkerStage == {"down", "stopped", "idle", "claiming", "holding", "dropping",
                "posting", "answered", "failing", "refused"}

Outcome == {"unauthorized", "stale", "approved", "rejected"}

HandlerStage == {"free", "admitted", "raised", "marking", "recording"}

TypeOK ==
  /\ LifecycleTypeOK
  /\ notes \in [Actions -> Note \cup {NoNote}]
  /\ recorded \in [Clicks -> Outcome \cup {"none"}]
  /\ messages \in Seq(Message) /\ Len(messages) \leq MaxMessages
  /\ clicks \in [Clicks -> Click \cup {NoClick}]
  /\ config \in [Services -> Config \cup {NoConfig}]
  /\ worker \in [Services -> [stage : WorkerStage, action : Actions \cup {NoAction},
                              attempts : Nat, ts : 0..MaxMessages]]
  /\ handler \in [Services -> [stage : HandlerStage, click : Clicks \cup {NoClick},
                               outcome : Outcome \cup {"none"},
                               decision : Decision \cup {"none"},
                               by : Authorization \cup {NoOne}]]
  /\ taken \subseteq [action : Actions, decision : Decision, by : Authorization,
                      click : Clicks \cup {NoClick}]
  /\ faults \in 0..MaxFaults

NewNote(channel) ==
  [status |-> "pending", channel |-> channel, attempts |-> 0, due |-> TRUE,
   claimedBy |-> NoService, leased |-> FALSE, ts |-> 0, by |-> NoOne,
   decision |-> "none"]

Task(stage, a, attempts, ts) ==
  [stage |-> stage, action |-> a, attempts |-> attempts, ts |-> ts]
At(stage) == Task(stage, NoAction, 0, 0)

Free == [stage |-> "free", click |-> NoClick, outcome |-> "none",
         decision |-> "none", by |-> NoOne]

Init ==
  /\ LifecycleInit
  /\ notes = [a \in Actions |-> NoNote]
  /\ recorded = [k \in Clicks |-> "none"]
  /\ messages = <<>> /\ clicks = [k \in Clicks |-> NoClick]
  /\ config = [s \in Services |-> NoConfig]
  /\ worker = [s \in Services |-> At("down")]
  /\ handler = [s \in Services |-> Free]
  /\ taken = {}
  /\ faults = 0

Goto(s, task) == worker' = [worker EXCEPT ![s] = task]

-----------------------------------------------------------------------------
(* The process.                                                            *)

Start(s, c) ==
  /\ worker[s].stage = "down"
  /\ config' = [config EXCEPT ![s] = c]
  /\ Goto(s, At("idle"))
  /\ UNCHANGED <<lifecycleVars, tables, slack, handler, taken, faults>>

Fault == faults < MaxFaults /\ faults' = faults + 1

Crash(s) ==
  /\ worker[s].stage # "down"
  /\ Fault
  /\ config' = [config EXCEPT ![s] = NoConfig]
  /\ Goto(s, At("down"))
  /\ handler' = [handler EXCEPT ![s] = Free]
  /\ UNCHANGED <<lifecycleVars, tables, slack, taken>>

(* A transaction raises (a locked or full database).  Nothing catches it in *)
(* run_once: the worker's task is over, and the process goes on serving    *)
(* clicks without it.                                                      *)
WorkerRaises(s) ==
  /\ worker[s].stage \notin {"down", "stopped"}
  /\ handler[s].stage = "free"
  /\ Fault
  /\ Goto(s, At("stopped"))
  /\ UNCHANGED <<lifecycleVars, tables, slack, config, handler, taken>>

(* In handle it ends the request with status 500.                          *)
HandlerRaises(s) ==
  /\ handler[s].stage # "free"
  /\ Fault
  /\ handler' = [handler EXCEPT ![s] = Free]
  /\ UNCHANGED <<lifecycleVars, tables, slack, config, worker, taken>>

-----------------------------------------------------------------------------
(* The worker: run_forever, run_once, sync_pending.                        *)

(* The worker has the event loop.                                          *)
Turn(s, stage) == worker[s].stage = stage /\ handler[s].stage = "free"

Announced(s) ==
  {a \in Actions : /\ runtime[a].status = "pending"
                   /\ CanAccess(config[s], runtime[a].request)}

Clashes(s, a) == notes[a] # NoNote /\ notes[a].channel # config[s].channel

Enqueue(s, new) ==
  notes' = [a \in Actions |-> IF a \in new /\ notes[a] = NoNote
                              THEN NewNote(config[s].channel) ELSE notes[a]]

Sync(s) ==
  /\ Turn(s, "idle") /\ \A a \in Actions : Fresh(a)
  /\ \A a \in Announced(s) : ~Clashes(s, a)
  /\ Enqueue(s, Announced(s))
  /\ Goto(s, At("claiming"))
  /\ UNCHANGED <<lifecycleVars, recorded, slack, config, handler, taken, faults>>

(* The channel of the configuration is not that of an existing row: enqueue *)
(* raises, after inserting some of the rows, and the worker's task ends.   *)
SyncRaises(s) ==
  /\ Turn(s, "idle") /\ \A a \in Actions : Fresh(a)
  /\ \E a \in Announced(s) : Clashes(s, a)
  /\ \E new \in SUBSET Announced(s) : Enqueue(s, new)
  /\ Goto(s, At("stopped"))
  /\ UNCHANGED <<lifecycleVars, recorded, slack, config, handler, taken, faults>>

(* Wrong: only what was posted or failed ends a claim.                     *)
WrongRecovered(n) == n
(* An expired claim is due again.                                          *)
Recovered(n) ==
  IF n # NoNote /\ n.status = "posting" /\ ~n.leased
  THEN [n EXCEPT !.status = "pending", !.claimedBy = NoService, !.due = TRUE]
  ELSE n

Due(n) == n # NoNote /\ n.status = "pending" /\ n.due

Claim(s, a) ==
  /\ Turn(s, "claiming")
  /\ Due(Recovered(notes[a]))
  /\ notes' = [b \in Actions |->
       IF b = a THEN [Recovered(notes[b]) EXCEPT !.status = "posting",
                        !.attempts = @ + 1, !.claimedBy = s, !.leased = TRUE]
       ELSE Recovered(notes[b])]
  /\ Goto(s, Task("holding", a, notes[a].attempts + 1, 0))
  /\ UNCHANGED <<lifecycleVars, recorded, slack, config, handler, taken, faults>>

ClaimNothing(s) ==
  /\ Turn(s, "claiming")
  /\ \A a \in Actions : ~Due(Recovered(notes[a]))
  /\ Goto(s, At("idle"))
  /\ UNCHANGED <<lifecycleVars, tables, slack, config, handler, taken, faults>>

(* get_action: what is no longer pending is not announced.                 *)
ReadAction(s) ==
  /\ Turn(s, "holding") /\ Fresh(worker[s].action)
  /\ LET stage == IF runtime[worker[s].action].status = "pending"
                  THEN "posting" ELSE "dropping" IN
     Goto(s, [worker[s] EXCEPT !.stage = stage])
  /\ UNCHANGED <<lifecycleVars, tables, slack, config, handler, taken, faults>>

(* Wrong: whoever has claimed the row in the meantime is not looked at.    *)
WrongOwned(s) == notes[worker[s].action].status \in {"posting", "posted"}
Owned(s) ==
  /\ notes[worker[s].action].status = "posting"
  /\ notes[worker[s].action].claimedBy = s

Release(s, status, due) ==
  LET a == worker[s].action IN
  /\ handler[s].stage = "free"
  /\ Owned(s)
  /\ notes' = [notes EXCEPT
       ![a].status = status, ![a].due = due,
       ![a].ts = IF status = "posted" THEN worker[s].ts ELSE @,
       ![a].claimedBy = NoService, ![a].leased = FALSE]
  /\ Goto(s, At("claiming"))
  /\ UNCHANGED <<lifecycleVars, recorded, slack, config, handler, taken, faults>>

MarkObsolete(s) ==
  worker[s].stage = "dropping" /\ Release(s, "obsolete", TRUE)

MarkPosted(s) ==
  worker[s].stage = "answered" /\ Release(s, "posted", TRUE)

MarkFailed(s) ==
  \/ /\ worker[s].stage = "failing" /\ worker[s].attempts < MaxAttempts
     /\ Release(s, "pending", FALSE)
  \/ /\ \/ worker[s].stage = "refused"
        \/ worker[s].stage = "failing" /\ worker[s].attempts \geq MaxAttempts
     /\ Release(s, "dead", TRUE)

(* _require_owned refuses; its ValueError ends the worker's task.          *)
MarkRaises(s) ==
  /\ worker[s].stage \in {"dropping", "answered", "failing", "refused"}
  /\ handler[s].stage = "free"
  /\ ~Owned(s)
  /\ Goto(s, At("stopped"))
  /\ UNCHANGED <<lifecycleVars, tables, slack, config, handler, taken, faults>>

-----------------------------------------------------------------------------
(* Slack, while the worker awaits chat.postMessage.                        *)

Answer(s, stage, ts) == Goto(s, [worker[s] EXCEPT !.stage = stage, !.ts = ts])

Published(s) == [action |-> worker[s].action, channel |-> notes[worker[s].action].channel,
                 buttons |-> runtime[worker[s].action].request.fits]

(* The message appears; the answer arrives, is lost, or is not understood. *)
SlackPosts(s) ==
  /\ worker[s].stage = "posting"
  /\ Len(messages) < MaxMessages
  /\ messages' = Append(messages, Published(s))
  /\ \/ Answer(s, "answered", Len(messages) + 1)
     \/ Answer(s, "failing", 0)
     \/ Answer(s, "refused", 0)
  /\ UNCHANGED <<lifecycleVars, tables, clicks, config, handler, taken, faults>>

(* The client message id is recognised: the first message is answered.     *)
SlackRepeats(s) ==
  /\ worker[s].stage = "posting"
  /\ \E ts \in 1..Len(messages) :
       /\ messages[ts].action = worker[s].action
       /\ messages[ts].channel = notes[worker[s].action].channel
       /\ Answer(s, "answered", ts)
  /\ UNCHANGED <<lifecycleVars, tables, slack, config, handler, taken, faults>>

SlackRefuses(s) ==
  /\ worker[s].stage = "posting"
  /\ Answer(s, "failing", 0) \/ Answer(s, "refused", 0)
  /\ UNCHANGED <<lifecycleVars, tables, slack, config, handler, taken, faults>>

(* Somebody who sees the buttons presses one.                              *)
Press(k, ts, user, decision) ==
  /\ clicks[k] = NoClick
  /\ messages[ts].buttons
  /\ clicks' = [clicks EXCEPT ![k] = [message |-> ts, user |-> user, decision |-> decision]]
  /\ UNCHANGED <<lifecycleVars, tables, messages, config, worker, handler, taken, faults>>

-----------------------------------------------------------------------------
(* The handler of clicks.                                                  *)

Clicked(s) == clicks[handler[s].click]
ClickedAction(s) == messages[Clicked(s).message].action
Chooser(s) == Auth(config[s], Clicked(s).user)

(* The worker of the same process awaits, or is gone.                      *)
LoopFree(s) ==
  worker[s].stage \in {"stopped", "idle", "posting", "answered", "failing", "refused"}

(* Wrong: any message about the action will do.                            *)
WrongBound(k) ==
  LET a == messages[clicks[k].message].action IN
  notes[a] # NoNote /\ notes[a].status \in {"posted", "decided"}

(* require_message_binding.                                                *)
Bound(k) ==
  LET ts == clicks[k].message
      n == notes[messages[ts].action] IN
  /\ n # NoNote
  /\ n.channel = messages[ts].channel /\ n.ts = ts
  /\ n.status \in {"posted", "decided"}

(* Wrong: the reviewer is looked up, what he may decide is not.            *)
WrongListed(c, user, decision) == c.reviewer[user].decisions # {}
Listed(c, user, decision) == decision \in c.reviewer[user].decisions

(* A signed request, made in the channel of the configuration.             *)
Genuine(s, k) ==
  /\ clicks[k] # NoClick
  /\ messages[clicks[k].message].channel = config[s].channel

Known(k) == recorded[k] # "none"

(* A known signature, another channel and a message that is not bound are  *)
(* answered and leave no trace.  Otherwise the click is admitted, or       *)
(* refused on record.  The two reads of the state database and the reading *)
(* of the action are one step: no row that passes them is ever changed so  *)
(* that it would not.                                                      *)
Receive(s, k) ==
  /\ handler[s].stage = "free" /\ LoopFree(s)
  /\ Genuine(s, k) /\ ~Known(k)
  /\ Bound(k) /\ Fresh(messages[clicks[k].message].action)
  /\ LET request == runtime[messages[clicks[k].message].action].request
         admitted == /\ Listed(config[s], clicks[k].user, clicks[k].decision)
                     /\ CanAccess(config[s], request) IN
     handler' = [handler EXCEPT ![s] =
       [Free EXCEPT !.click = k,
                    !.stage = IF admitted THEN "admitted" ELSE "recording",
                    !.outcome = IF admitted THEN "none" ELSE "unauthorized"]]
  /\ UNCHANGED <<lifecycleVars, tables, slack, config, worker, taken, faults>>

Proceed(s, stage, outcome, decision, by) ==
  handler' = [handler EXCEPT ![s] =
    [@ EXCEPT !.stage = stage, !.outcome = outcome, !.decision = decision, !.by = by]]

(* decide or decide_authorized, which of the two tells the organization.   *)
ClickDecides(s) ==
  LET a == ClickedAction(s)
      decision == Clicked(s).decision IN
  /\ Decide(a, decision, Chooser(s))
  /\ Proceed(s, "marking", Target[decision], decision, Chooser(s))
  /\ taken' = taken \cup {[action |-> a, decision |-> decision, by |-> Chooser(s),
                           click |-> handler[s].click]}

ClickFails(s) ==
  LET a == ClickedAction(s)
      decision == Clicked(s).decision IN
  /\ UNCHANGED <<lifecycleVars, taken>>
  /\ \/ /\ Forbidden(a, decision, Chooser(s))
        /\ Proceed(s, "recording", "unauthorized", "none", NoOne)
     \/ /\ ~Forbidden(a, decision, Chooser(s)) /\ Stands(a, decision)
        /\ Proceed(s, "marking", Target[decision], decision, runtime[a].by)
     \/ /\ ~Forbidden(a, decision, Chooser(s)) /\ Lapsed(a)
        /\ Proceed(s, "recording", "stale", "none", NoOne)
     \/ /\ ~Forbidden(a, decision, Chooser(s)) /\ Conflicts(a, decision)
        /\ Proceed(s, "raised", "stale", "none", NoOne)

DecideClick(s) ==
  /\ handler[s].stage = "admitted"
  /\ ClickDecides(s) \/ ClickFails(s)
  /\ UNCHANGED <<tables, slack, config, worker, faults>>

(* Wrong: the row is marked with the decision that was clicked.            *)
WrongStanding(s) ==
  IF runtime[ClickedAction(s)].status = "approved" THEN Clicked(s).decision ELSE "reject"
(* Wrong: the status itself, which is no decision.                         *)
WrongTold(s) == runtime[ClickedAction(s)].status
(* The decision a row tells, if it stands decided.                         *)
Standing(s) ==
  IF runtime[ClickedAction(s)].status = "approved" THEN "approve" ELSE "reject"

(* The action is read again to see what the click came too late for.       *)
Reread(s) ==
  /\ handler[s].stage = "raised" /\ Fresh(ClickedAction(s))
  /\ IF runtime[ClickedAction(s)].status \in {"approved", "rejected"}
     THEN Proceed(s, "marking", "stale", Standing(s), runtime[ClickedAction(s)].by)
     ELSE Proceed(s, "recording", "stale", "none", NoOne)
  /\ UNCHANGED <<lifecycleVars, tables, slack, config, worker, taken, faults>>

MarkDecided(s) ==
  /\ handler[s].stage = "marking"
  /\ notes' = [notes EXCEPT ![ClickedAction(s)] =
       [@ EXCEPT !.status = "decided", !.by = handler[s].by,
                 !.decision = handler[s].decision]]
  /\ handler' = [handler EXCEPT ![s].stage = "recording"]
  /\ UNCHANGED <<lifecycleVars, recorded, slack, config, worker, taken, faults>>

(* chat.update, at best effort, takes the buttons from the message.        *)
WithoutButtons(ts) == [messages EXCEPT ![ts].buttons = FALSE]

RecordInteraction(s) ==
  LET k == handler[s].click IN
  /\ handler[s].stage = "recording"
  /\ recorded' = [recorded EXCEPT ![k] =
       IF @ = "none" THEN handler[s].outcome ELSE @]   \* INSERT OR IGNORE
  /\ \/ UNCHANGED messages
     \/ /\ handler[s].outcome # "unauthorized"
        /\ messages' = WithoutButtons(Clicked(s).message)
  /\ handler' = [handler EXCEPT ![s] = Free]
  /\ UNCHANGED <<lifecycleVars, notes, clicks, config, worker, taken, faults>>

-----------------------------------------------------------------------------
(* Time, the operator, and everybody else who uses the runtime store.      *)

BackoffElapses(a) ==
  /\ notes[a] # NoNote
  /\ notes[a].status = "pending" /\ ~notes[a].due
  /\ notes' = [notes EXCEPT ![a].due = TRUE]
  /\ UNCHANGED <<lifecycleVars, recorded, slack, config, worker, handler, taken, faults>>

AtWork(a) ==
  \E s \in Services : worker[s].action = a /\ notes[a].claimedBy = s

(* Every call times out before its lease: a worker that outlives one was   *)
(* suspended or lost its clock, and counts as a fault.                     *)
LeaseElapses(a) ==
  /\ notes[a] # NoNote
  /\ notes[a].status = "posting" /\ notes[a].leased
  /\ IF AtWork(a) THEN Fault ELSE UNCHANGED faults
  /\ notes' = [notes EXCEPT ![a].leased = FALSE]
  /\ UNCHANGED <<lifecycleVars, recorded, slack, config, worker, handler, taken>>

RetryDead(a) ==
  /\ notes[a] # NoNote /\ notes[a].status = "dead"
  /\ Fault
  /\ notes' = [notes EXCEPT ![a] =
       [@ EXCEPT !.status = "pending", !.attempts = 0, !.due = TRUE]]
  /\ UNCHANGED <<lifecycleVars, recorded, slack, config, worker, handler, taken>>

DecideElsewhere(a, decision, auth) ==
  /\ Decide(a, decision, auth)
  /\ taken' = taken \cup {[action |-> a, decision |-> decision, by |-> auth,
                           click |-> NoClick]}
  /\ UNCHANGED <<tables, slack, config, worker, handler, faults>>

(* A part of every read of the action.                                     *)
Lapse(a) ==
  Expire(a) /\ UNCHANGED <<tables, slack, config, worker, handler, taken, faults>>

Move == Lifecycle /\ UNCHANGED <<tables, slack, config, worker, handler, taken, faults>>

-----------------------------------------------------------------------------
Work(s) ==
  \/ Sync(s) \/ SyncRaises(s) \/ ClaimNothing(s) \/ (\E a \in Actions : Claim(s, a))
  \/ ReadAction(s) \/ MarkObsolete(s) \/ MarkPosted(s) \/ MarkFailed(s) \/ MarkRaises(s)

Slack(s) == SlackPosts(s) \/ SlackRepeats(s) \/ SlackRefuses(s)

Handle(s) == DecideClick(s) \/ Reread(s) \/ MarkDecided(s) \/ RecordInteraction(s)

Elapse(a) == BackoffElapses(a) \/ LeaseElapses(a)

Next ==
  \/ \E s \in Services :
       \/ Work(s) \/ Slack(s) \/ Handle(s) \/ (\E k \in Clicks : Receive(s, k))
       \/ (\E c \in Configs[s] : Start(s, c)) \/ Crash(s) \/ WorkerRaises(s) \/ HandlerRaises(s)
  \/ \E k \in Clicks, ts \in 1..Len(messages), user \in Users, decision \in Decision :
       Press(k, ts, user, decision)
  \/ \E a \in Actions :
       \/ Elapse(a) \/ RetryDead(a)
       \/ \E decision \in Decision, auth \in Others : DecideElsewhere(a, decision, auth)
  \/ Move

Spec == Init /\ [][Next]_vars

(* A process that runs goes on, Slack answers or the call times out, and   *)
(* time passes.                                                            *)
FairSpec ==
  /\ Spec
  /\ \A s \in Services : WF_vars(Work(s)) /\ WF_vars(Slack(s)) /\ WF_vars(Handle(s))
  /\ \A a \in Actions : WF_vars(Elapse(a)) /\ WF_vars(Lapse(a))

-----------------------------------------------------------------------------
(* Safety.                                                                 *)

Deployed == UNION {Configs[s] : s \in Services}

(* handle: a decision that came from Slack came from a click on the one    *)
(* message the action's row is bound to, in that row's channel, by a user  *)
(* some service's configuration lists for this decision; a copy of the     *)
(* message, or one whose answer was lost, decides nothing.                 *)
DecisionsFromBoundMessage ==
  \A d \in taken : d.click # NoClick =>
    LET click == clicks[d.click]
        n == notes[d.action] IN
    /\ click.decision = d.decision
    /\ n # NoNote /\ n.ts = click.message /\ n.status \in {"posted", "decided"}
    /\ messages[n.ts].action = d.action
    /\ \E c \in Deployed :
         /\ c.channel = n.channel
         /\ d.by = Auth(c, click.user)
         /\ d.decision \in c.reviewer[click.user].decisions

Told(a, decision) == \E d \in taken : d.action = a /\ d.decision = decision

(* mark_decided and record_interaction: what the state database says was   *)
(* decided was decided, by the one it names, however late and after        *)
(* whatever crash it was written; a click that was answered as a decision  *)
(* left its row decided.                                                   *)
MarksAreTrue ==
  /\ \A a \in Actions : notes[a] # NoNote /\ notes[a].status = "decided" =>
       \E d \in taken : d.action = a /\ d.decision = notes[a].decision /\ d.by = notes[a].by
  /\ \A k \in Clicks : recorded[k] \in {"approved", "rejected"} =>
       LET a == messages[clicks[k].message].action IN
       notes[a].status = "decided" /\ Told(a, clicks[k].decision)

(* docs/slack.md: "Posted and decided records keep their original exact    *)
(* message binding."  A worker that was overtaken, a retry or a restart    *)
(* with another channel does not move a row to another message.            *)
BindingKept ==
  [][\A a \in Actions : notes[a] # NoNote =>
       /\ notes'[a] # NoNote /\ notes'[a].channel = notes[a].channel
       /\ notes[a].status \in {"posted", "decided"} =>
            /\ notes'[a].status \in {notes[a].status, "decided"}
            /\ notes'[a].ts = notes[a].ts]_vars

Reviewers == Others \cup {Auth(c, u) : c \in Deployed, u \in Users}

Permitted == {p \in Requests \X Decision \X Reviewers : May(p[1], p[2], p[3])}

Gate == INSTANCE ApprovalGate WITH
  Action <- Actions,
  request <- [a \in Actions |-> runtime[a].request],
  gate <- [a \in Actions |-> runtime[a].status],
  by <- [a \in Actions |-> runtime[a].by]

(* Whatever clicks are delivered, twice or late, and whoever dies between  *)
(* the decision and its record: an action takes one decision for each time *)
(* it is asked for, from somebody who may take it.                         *)
KeepsGatePromise == Gate!Spec

-----------------------------------------------------------------------------
(* Liveness, under FairSpec.                                               *)

Waiting(a, s) ==
  /\ worker[s].stage \notin {"down", "stopped"}
  /\ a \in Announced(s)

(* A pending action a running worker may see is announced, given up as     *)
(* dead, or no longer pending; the row of an action that is pending for    *)
(* the second time is the one of the first.                                *)
PendingIsAnnounced ==
  \A a \in Actions, s \in Services :
    Waiting(a, s) ~> \/ ~Waiting(a, s)
                     \/ notes[a] # NoNote /\ notes[a].status \notin {"pending", "posting"}
==============================================================================
