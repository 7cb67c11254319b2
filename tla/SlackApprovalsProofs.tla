------------------------- MODULE SlackApprovalsProofs --------------------------
(***************************************************************************)
(* Machine-checked facts about SlackApprovals for every value of its       *)
(* constants.                                                              *)
(***************************************************************************)
EXTENDS SlackApprovals, ApprovalLifecycleProofs, SequenceTheorems, FiniteSetTheorems

-------------------------------------------------------------------------------
(* The inductive invariant.  The first four parts say what the variables   *)
(* of the two tasks are worth, the others that what the handler is about   *)
(* to write is true.                                                       *)

(* A running process has one of its configurations; a handler runs in a    *)
(* running process.                                                        *)
ProcessInv ==
  \A s \in Services :
    /\ worker[s].stage # "down" => config[s] \in Configs[s]
    /\ handler[s].stage # "free" => worker[s].stage # "down"

(* A worker between a claim and its end has a row in its hands.            *)
AtTask(s) ==
  worker[s].stage \in {"holding", "dropping", "posting", "answered", "failing", "refused"}

TaskInv ==
  \A s \in Services :
    AtTask(s) => worker[s].action \in Actions /\ notes[worker[s].action] # NoNote

Made(k) == clicks[k] # NoClick

ClickInv ==
  \A k \in Clicks : Made(k) => clicks[k].message \in 1..Len(messages)

(* A click being handled was made, on the message its row is bound to.     *)
HandlerInv ==
  \A s \in Services : handler[s].stage # "free" =>
    handler[s].click \in Clicks /\ Made(handler[s].click) /\ Bound(handler[s].click)

BaseInv == TypeOK /\ LifecycleInv /\ ProcessInv /\ TaskInv /\ ClickInv /\ HandlerInv

(* decision was taken on a, by somebody.                                   *)
Took(a, decision, by) ==
  \E d \in taken : d.action = a /\ d.decision = decision /\ d.by = by

AdmittedInv ==
  \A s \in Services : handler[s].stage = "admitted" =>
    /\ Listed(config[s], Clicked(s).user, Clicked(s).decision)
    /\ messages[Clicked(s).message].channel = config[s].channel

MarkingInv ==
  \A s \in Services : handler[s].stage = "marking" =>
    /\ Took(ClickedAction(s), handler[s].decision, handler[s].by)
    /\ handler[s].outcome \in {"approved", "rejected"} =>
         handler[s].decision = Clicked(s).decision

RecordingInv ==
  \A s \in Services :
    handler[s].stage = "recording" /\ handler[s].outcome \in {"approved", "rejected"} =>
      /\ notes[ClickedAction(s)].status = "decided"
      /\ Told(ClickedAction(s), Clicked(s).decision)

(* A standing decision is one that was taken.                              *)
StandingInv ==
  \A a \in Actions : runtime[a].status \in {"approved", "rejected"} =>
    \E d \in taken : /\ d.action = a /\ d.by = runtime[a].by
                     /\ Target[d.decision] = runtime[a].status

(* Decision d was taken by a click on the message its row is bound to.     *)
FromClick(d) ==
  LET click == clicks[d.click] IN
  /\ Made(d.click) /\ Bound(d.click)
  /\ messages[click.message].action = d.action /\ click.decision = d.decision
  /\ \E c \in Deployed :
       /\ c.channel = messages[click.message].channel
       /\ d.by = Auth(c, click.user)
       /\ d.decision \in c.reviewer[click.user].decisions

TakenInv == \A d \in taken : d.click # NoClick => FromClick(d)

MarksInv ==
  /\ \A a \in Actions : notes[a] # NoNote /\ notes[a].status = "decided" =>
       Took(a, notes[a].decision, notes[a].by)
  /\ \A k \in Clicks : recorded[k] \in {"approved", "rejected"} =>
       LET a == messages[clicks[k].message].action IN
       /\ Made(k) /\ notes[a] # NoNote
       /\ notes[a].status = "decided" /\ Told(a, clicks[k].decision)

TruthInv == /\ AdmittedInv /\ MarkingInv /\ RecordingInv
            /\ StandingInv /\ TakenInv /\ MarksInv

SlackInv == BaseInv /\ TruthInv

-------------------------------------------------------------------------------
(* Which steps change a variable.                                          *)

NotesFrame ==
  \/ UNCHANGED notes
  \/ \E s \in Services : Sync(s) \/ SyncRaises(s) \/ (\E a \in Actions : Claim(s, a))
  \/ \E s \in Services : MarkObsolete(s) \/ MarkPosted(s) \/ MarkFailed(s) \/ MarkDecided(s)
  \/ \E a \in Actions : BackoffElapses(a) \/ LeaseElapses(a) \/ RetryDead(a)

MessagesFrame ==
  UNCHANGED messages \/ \E s \in Services : SlackPosts(s) \/ RecordInteraction(s)

ClicksFrame ==
  \/ UNCHANGED clicks
  \/ \E k \in Clicks, ts \in 1..Len(messages), user \in Users, decision \in Decision :
       Press(k, ts, user, decision)

RecordedFrame == UNCHANGED recorded \/ \E s \in Services : RecordInteraction(s)

TakenFrame ==
  \/ UNCHANGED <<lifecycleVars, taken>>
  \/ \E s \in Services : DecideClick(s)
  \/ \E a \in Actions, decision \in Decision, auth \in Others :
       DecideElsewhere(a, decision, auth)
  \/ Move

ProcessFrame ==
  \/ UNCHANGED <<config, worker>>
  \/ UNCHANGED config /\ \E s \in Services : Work(s) \/ Slack(s) \/ WorkerRaises(s)
  \/ \E s \in Services : (\E c \in Configs[s] : Start(s, c)) \/ Crash(s)

HandlerFrame ==
  \/ UNCHANGED handler
  \/ \E s \in Services :
       Handle(s) \/ (\E k \in Clicks : Receive(s, k)) \/ Crash(s) \/ HandlerRaises(s)

FaultsFrame == UNCHANGED faults \/ Fault

Frames == /\ NotesFrame /\ MessagesFrame /\ ClicksFrame /\ RecordedFrame
          /\ TakenFrame /\ ProcessFrame /\ HandlerFrame /\ FaultsFrame

LEMMA StepFrames == [Next]_vars => Frames
<1> SUFFICES ASSUME [Next]_vars PROVE Frames
  OBVIOUS
<1> USE DEF Frames, NotesFrame, MessagesFrame, ClicksFrame, RecordedFrame,
            TakenFrame, ProcessFrame, HandlerFrame, FaultsFrame, tables, slack
<1>1. ASSUME NEW s \in Services, Work(s) PROVE Frames
  <2>1. CASE Sync(s)
    BY <1>1, <2>1 DEF Sync
  <2>2. CASE SyncRaises(s)
    BY <1>1, <2>2 DEF SyncRaises
  <2>3. CASE ClaimNothing(s)
    BY <1>1, <2>3 DEF ClaimNothing
  <2>4. CASE \E a \in Actions : Claim(s, a)
    BY <1>1, <2>4 DEF Claim
  <2>5. CASE ReadAction(s)
    BY <1>1, <2>5 DEF ReadAction
  <2>6. CASE MarkObsolete(s)
    BY <1>1, <2>6 DEF MarkObsolete, Release
  <2>7. CASE MarkPosted(s)
    BY <1>1, <2>7 DEF MarkPosted, Release
  <2>8. CASE MarkFailed(s)
    BY <1>1, <2>8 DEF MarkFailed, Release
  <2>9. CASE MarkRaises(s)
    BY <1>1, <2>9 DEF MarkRaises
  <2> QED BY <1>1, <2>1, <2>2, <2>3, <2>4, <2>5, <2>6, <2>7, <2>8, <2>9 DEF Work
<1>2. ASSUME NEW s \in Services, Slack(s) PROVE Frames
  <2>1. CASE SlackPosts(s)
    BY <1>2, <2>1 DEF SlackPosts
  <2>2. CASE SlackRepeats(s)
    BY <1>2, <2>2 DEF SlackRepeats
  <2>3. CASE SlackRefuses(s)
    BY <1>2, <2>3 DEF SlackRefuses
  <2> QED BY <1>2, <2>1, <2>2, <2>3 DEF Slack
<1>3. ASSUME NEW s \in Services, Handle(s) PROVE Frames
  <2>1. CASE DecideClick(s)
    BY <1>3, <2>1 DEF DecideClick
  <2>2. CASE Reread(s)
    BY <1>3, <2>2 DEF Reread
  <2>3. CASE MarkDecided(s)
    BY <1>3, <2>3 DEF MarkDecided
  <2>4. CASE RecordInteraction(s)
    BY <1>3, <2>4 DEF RecordInteraction
  <2> QED BY <1>3, <2>1, <2>2, <2>3, <2>4 DEF Handle
<1>4. ASSUME NEW s \in Services, NEW k \in Clicks, Receive(s, k) PROVE Frames
  BY <1>4 DEF Receive
<1>5. ASSUME NEW s \in Services, NEW c \in Configs[s], Start(s, c) PROVE Frames
  BY <1>5 DEF Start
<1>6. ASSUME NEW s \in Services, Crash(s) PROVE Frames
  BY <1>6 DEF Crash
<1>7. ASSUME NEW s \in Services, WorkerRaises(s) PROVE Frames
  BY <1>7 DEF WorkerRaises
<1>8. ASSUME NEW s \in Services, HandlerRaises(s) PROVE Frames
  BY <1>8 DEF HandlerRaises
<1>9. ASSUME NEW k \in Clicks, NEW ts \in 1..Len(messages), NEW user \in Users,
             NEW decision \in Decision, Press(k, ts, user, decision)
      PROVE  Frames
  BY <1>9 DEF Press
<1>10. ASSUME NEW a \in Actions, Elapse(a) \/ RetryDead(a) PROVE Frames
  BY <1>10 DEF Elapse, BackoffElapses, LeaseElapses, RetryDead
<1>11. ASSUME NEW a \in Actions, NEW decision \in Decision, NEW auth \in Others,
              DecideElsewhere(a, decision, auth)
       PROVE  Frames
  BY <1>11 DEF DecideElsewhere
<1>12. CASE Move
  BY <1>12 DEF Move
<1>13. CASE UNCHANGED vars
  BY <1>13 DEF vars, lifecycleVars
<1> QED BY <1>1, <1>2, <1>3, <1>4, <1>5, <1>6, <1>7, <1>8, <1>9, <1>10, <1>11, <1>12,
           <1>13 DEF Next

-------------------------------------------------------------------------------
(* The rows of the state database.                                         *)

(* What no step does to a row: remove it, or move it to another message.   *)
Kept(n, m) ==
  /\ m # NoNote /\ m.channel = n.channel
  /\ n.status \in {"posted", "decided"} =>
       m.status \in {n.status, "decided"} /\ m.ts = n.ts

RowStep(a) ==
  /\ notes[a] # NoNote => Kept(notes[a], notes'[a])
  /\ notes'[a] # NoNote /\ notes'[a].status = "decided" =>
       \/ notes'[a] = notes[a]
       \/ \E s \in Services : MarkDecided(s) /\ a = ClickedAction(s)

NotesStep ==
  /\ notes' \in [Actions -> Note \cup {NoNote}]
  /\ \A a \in Actions : RowStep(a)

LEMMA SameNotes ==
  ASSUME BaseInv, UNCHANGED notes
  PROVE  NotesStep
BY DEF BaseInv, TypeOK, NotesStep, RowStep, Kept

(* One row changes.                                                        *)
LEMMA OneNote ==
  ASSUME BaseInv, NEW a \in Actions, notes[a] # NoNote, NEW m \in Note,
         notes' = [notes EXCEPT ![a] = m], Kept(notes[a], m),
         m.status = "decided" => \E s \in Services : MarkDecided(s) /\ a = ClickedAction(s)
  PROVE  NotesStep
<1>1. notes' \in [Actions -> Note \cup {NoNote}]
  BY DEF BaseInv, TypeOK
<1>2. ASSUME NEW b \in Actions PROVE RowStep(b)
  <2>1. CASE b = a
    BY <2>1 DEF BaseInv, TypeOK, RowStep
  <2>2. CASE b # a
    BY <2>2 DEF BaseInv, TypeOK, RowStep, Kept
  <2> QED BY <2>1, <2>2
<1> QED BY <1>1, <1>2 DEF NotesStep

LEMMA RunningConfig ==
  ASSUME BaseInv, NEW s \in Services, worker[s].stage # "down"
  PROVE  config[s] \in Configs[s] /\ config[s] \in Config /\ config[s].channel \in Channels
<1>1. config[s] \in Configs[s]
  BY DEF BaseInv, ProcessInv
<1>2. config[s] \in Config
  BY <1>1, SlackAssumption
<1> QED BY <1>1, <1>2 DEF Config, Readable

LEMMA EnqueueStep ==
  ASSUME BaseInv, NEW s \in Services, Turn(s, "idle"), NEW new, Enqueue(s, new)
  PROVE  NotesStep
<1>1. config[s].channel \in Channels
  BY RunningConfig DEF Turn
<1>2. NewNote(config[s].channel) \in Note
  <2>1. 0 \in 0..MaxMessages
    <3>1. MaxMessages \in Nat
      BY SlackAssumption
    <3> QED BY <3>1
  <2> QED BY <1>1, <2>1 DEF NewNote, Note
<1>3. notes' \in [Actions -> Note \cup {NoNote}]
  BY <1>2 DEF Enqueue, BaseInv, TypeOK
<1>4. ASSUME NEW a \in Actions PROVE RowStep(a)
  <2>1. CASE notes'[a] = notes[a]
    BY <2>1 DEF RowStep, Kept
  <2>2. CASE notes[a] = NoNote /\ notes'[a] = NewNote(config[s].channel)
    BY <2>2 DEF RowStep, NewNote
  <2> QED BY <2>1, <2>2 DEF Enqueue
<1> QED BY <1>3, <1>4 DEF NotesStep

LEMMA RecoveredNote ==
  ASSUME NEW n \in Note
  PROVE  /\ Recovered(n) \in Note /\ Kept(n, Recovered(n))
         /\ Recovered(n).status = "decided" => Recovered(n) = n
         /\ Recovered(n).attempts = n.attempts
<1>1. n # NoNote
  BY NoteAssumption
<1>2. CASE n.status = "posting" /\ ~n.leased
  <2>1. Recovered(n) = [n EXCEPT !.status = "pending", !.claimedBy = NoService, !.due = TRUE]
    BY <1>1, <1>2 DEF Recovered
  <2>2. Recovered(n) \in Note
    BY <2>1 DEF Note
  <2>3. Recovered(n) # NoNote
    BY <2>2, NoteAssumption
  <2> QED BY <1>2, <2>1, <2>2, <2>3 DEF Note, Kept
<1>3. CASE ~(n.status = "posting" /\ ~n.leased)
  BY <1>1, <1>3 DEF Recovered, Kept
<1> QED BY <1>2, <1>3

LEMMA ClaimStep ==
  ASSUME BaseInv, NEW s \in Services, NEW a \in Actions, Claim(s, a)
  PROVE  NotesStep /\ notes[a] \in Note /\ notes'[a] \in Note
<1> DEFINE taken1 == [Recovered(notes[a]) EXCEPT !.status = "posting",
                        !.attempts = @ + 1, !.claimedBy = s, !.leased = TRUE]
<1>1. notes' = [b \in Actions |-> IF b = a THEN taken1 ELSE Recovered(notes[b])]
  BY DEF Claim
<1>2. notes[a] \in Note /\ Recovered(notes[a]).status = "pending"
  BY DEF Claim, Due, Recovered, BaseInv, TypeOK
<1>3. Recovered(notes[a]) \in Note /\ Kept(notes[a], Recovered(notes[a]))
  BY <1>2, RecoveredNote
<1>4. taken1 \in Note /\ taken1.status = "posting"
      /\ taken1.channel = Recovered(notes[a]).channel
  <2>1. Recovered(notes[a]).attempts + 1 \in Nat
    BY <1>3 DEF Note
  <2> QED BY <1>3, <2>1 DEF Note
<1>5. Kept(notes[a], taken1)
  BY <1>2, <1>3, <1>4, NoteAssumption DEF Kept
<1> HIDE DEF taken1
<1>6. ASSUME NEW b \in Actions
      PROVE  notes'[b] \in Note \cup {NoNote} /\ RowStep(b)
  <2>1. CASE b = a
    BY <1>1, <1>4, <1>5, <2>1 DEF RowStep
  <2>2. CASE b # a /\ notes[b] = NoNote
    <3>1. notes'[b] = NoNote
      BY <1>1, <2>2 DEF Recovered
    <3> QED BY <2>2, <3>1 DEF RowStep
  <2>3. CASE b # a /\ notes[b] \in Note
    BY <1>1, <2>3, RecoveredNote DEF RowStep
  <2> QED BY <2>1, <2>2, <2>3 DEF BaseInv, TypeOK
<1>7. notes' \in [Actions -> Note \cup {NoNote}]
  BY <1>1, <1>6
<1> QED BY <1>1, <1>2, <1>4, <1>6, <1>7 DEF NotesStep

LEMMA TaskRow ==
  ASSUME BaseInv, NEW s \in Services, AtTask(s)
  PROVE  /\ worker[s].action \in Actions /\ notes[worker[s].action] \in Note
         /\ worker[s].ts \in 0..MaxMessages /\ worker[s].attempts \in Nat
BY DEF BaseInv, TaskInv, TypeOK

LEMMA ReleaseStep ==
  ASSUME BaseInv, NEW s \in Services, AtTask(s),
         NEW status \in {"pending", "posted", "dead", "obsolete"}, NEW due \in BOOLEAN,
         Release(s, status, due)
  PROVE  NotesStep
<1> DEFINE a == worker[s].action
           m == [notes[a] EXCEPT !.status = status, !.due = due,
                   !.ts = IF status = "posted" THEN worker[s].ts ELSE @,
                   !.claimedBy = NoService, !.leased = FALSE]
<1>1. a \in Actions /\ notes[a] \in Note /\ worker[s].ts \in 0..MaxMessages
  BY TaskRow
<1>2. notes[a].status = "posting"
  BY DEF Release, Owned
<1>3. notes' = [notes EXCEPT ![a] = m]
  BY <1>1 DEF Release, BaseInv, TypeOK
<1>4. m \in Note /\ m.status = status /\ m.channel = notes[a].channel
  <2> DEFINE ts == IF status = "posted" THEN worker[s].ts ELSE notes[a].ts
  <2>1. ts \in 0..MaxMessages
    BY <1>1 DEF Note
  <2>2. m = [notes[a] EXCEPT !.status = status, !.due = due, !.ts = ts,
                             !.claimedBy = NoService, !.leased = FALSE]
    OBVIOUS
  <2>3. status \in {"pending", "posting", "posted", "dead", "obsolete", "decided"}
    OBVIOUS
  <2> HIDE DEF ts, m, a
  <2> QED BY <1>1, <2>1, <2>2, <2>3 DEF Note
<1>5. Kept(notes[a], m)
  BY <1>2, <1>4, NoteAssumption DEF Kept
<1> HIDE DEF a, m
<1> QED BY <1>1, <1>3, <1>4, <1>5, OneNote, NoteAssumption

LEMMA HandledRow ==
  ASSUME BaseInv, NEW s \in Services, handler[s].stage # "free"
  PROVE  /\ handler[s].click \in Clicks /\ Clicked(s) \in Click
         /\ Clicked(s).message \in 1..Len(messages)
         /\ messages[Clicked(s).message] \in Message
         /\ ClickedAction(s) \in Actions /\ notes[ClickedAction(s)] \in Note
         /\ notes[ClickedAction(s)].status \in {"posted", "decided"}
         /\ notes[ClickedAction(s)].ts = Clicked(s).message
         /\ notes[ClickedAction(s)].channel = messages[Clicked(s).message].channel
<1>1. handler[s].click \in Clicks /\ Made(handler[s].click) /\ Bound(handler[s].click)
  BY DEF BaseInv, HandlerInv
<1>2. Clicked(s) \in Click /\ Clicked(s).message \in 1..Len(messages)
  BY <1>1 DEF BaseInv, TypeOK, ClickInv, Made, Clicked
<1>3. messages[Clicked(s).message] \in Message
  BY <1>2, ElementOfSeq DEF BaseInv, TypeOK
<1>4. ClickedAction(s) \in Actions
  BY <1>3 DEF Message, ClickedAction
<1> QED BY <1>1, <1>2, <1>3, <1>4 DEF Bound, Clicked, ClickedAction, BaseInv, TypeOK

LEMMA MarkDecidedStep ==
  ASSUME BaseInv, NEW s \in Services, MarkDecided(s)
  PROVE  NotesStep
<1> DEFINE a == ClickedAction(s)
           m == [notes[a] EXCEPT !.status = "decided", !.by = handler[s].by,
                                 !.decision = handler[s].decision]
<1>1. a \in Actions /\ notes[a] \in Note /\ notes[a].status \in {"posted", "decided"}
  BY HandledRow DEF MarkDecided
<1>2. notes' = [notes EXCEPT ![a] = m]
  BY DEF MarkDecided
<1>3. handler[s].by \in Authorization \cup {NoOne} /\ handler[s].decision \in Decision \cup {"none"}
  BY DEF BaseInv, TypeOK
<1>4. m \in Note /\ m.status = "decided" /\ m.channel = notes[a].channel /\ m.ts = notes[a].ts
  BY <1>1, <1>3 DEF Note
<1>5. Kept(notes[a], m)
  BY <1>4, NoteAssumption DEF Kept
<1>6. \E r \in Services : MarkDecided(r) /\ a = ClickedAction(r)
  OBVIOUS
<1> HIDE DEF a, m
<1> QED BY <1>1, <1>2, <1>4, <1>5, <1>6, OneNote, NoteAssumption

LEMMA TimeStep ==
  ASSUME BaseInv, NEW a \in Actions, BackoffElapses(a) \/ LeaseElapses(a) \/ RetryDead(a)
  PROVE  NotesStep
<1>1. notes[a] \in Note /\ notes[a].status \notin {"posted", "decided"}
  BY DEF BackoffElapses, LeaseElapses, RetryDead, BaseInv, TypeOK
<1>2. ASSUME NEW m \in Note, notes' = [notes EXCEPT ![a] = m],
             m.channel = notes[a].channel, m.status # "decided"
      PROVE  NotesStep
  BY <1>1, <1>2, OneNote, NoteAssumption DEF Kept
<1>3. CASE BackoffElapses(a)
  <2> DEFINE m == [notes[a] EXCEPT !.due = TRUE]
  <2>1. m \in Note /\ m.channel = notes[a].channel /\ m.status # "decided"
    BY <1>1 DEF Note
  <2>2. notes' = [notes EXCEPT ![a] = m]
    BY <1>3 DEF BackoffElapses
  <2> QED BY <1>2, <2>1, <2>2
<1>4. CASE LeaseElapses(a)
  <2> DEFINE m == [notes[a] EXCEPT !.leased = FALSE]
  <2>1. m \in Note /\ m.channel = notes[a].channel /\ m.status # "decided"
    BY <1>1 DEF Note
  <2>2. notes' = [notes EXCEPT ![a] = m]
    BY <1>4 DEF LeaseElapses
  <2> QED BY <1>2, <2>1, <2>2
<1>5. CASE RetryDead(a)
  <2> DEFINE m == [notes[a] EXCEPT !.status = "pending", !.attempts = 0, !.due = TRUE]
  <2>1. m \in Note /\ m.channel = notes[a].channel /\ m.status # "decided"
    BY <1>1 DEF Note
  <2>2. notes' = [notes EXCEPT ![a] = m]
    BY <1>5 DEF RetryDead
  <2> QED BY <1>2, <2>1, <2>2
<1> QED BY <1>3, <1>4, <1>5

LEMMA NotesKept ==
  ASSUME BaseInv, NotesFrame
  PROVE  NotesStep
<1>1. ASSUME NEW s \in Services, Sync(s) \/ SyncRaises(s) PROVE NotesStep
  BY <1>1, EnqueueStep DEF Sync, SyncRaises
<1>2. ASSUME NEW s \in Services, MarkObsolete(s) \/ MarkPosted(s) \/ MarkFailed(s)
      PROVE  NotesStep
  <2>1. AtTask(s)
    BY <1>2 DEF MarkObsolete, MarkPosted, MarkFailed, AtTask
  <2>2. PICK status \in {"pending", "posted", "dead", "obsolete"}, due \in BOOLEAN :
          Release(s, status, due)
    BY <1>2 DEF MarkObsolete, MarkPosted, MarkFailed
  <2> QED BY <2>1, <2>2, ReleaseStep
<1> QED BY <1>1, <1>2, SameNotes, ClaimStep, MarkDecidedStep, TimeStep DEF NotesFrame

-------------------------------------------------------------------------------
(* What Slack shows and who clicks it.                                     *)

(* No step removes a message, or makes it one about another action.        *)
MessagesStep ==
  /\ messages' \in Seq(Message) /\ Len(messages') <= MaxMessages
  /\ Len(messages) <= Len(messages')
  /\ \A ts \in 1..Len(messages) :
       /\ messages'[ts].action = messages[ts].action
       /\ messages'[ts].channel = messages[ts].channel

LEMMA SlackPostsStep ==
  ASSUME BaseInv, NEW s \in Services, SlackPosts(s)
  PROVE  MessagesStep
<1>1. AtTask(s)
  BY DEF SlackPosts, AtTask
<1>2. worker[s].action \in Actions /\ notes[worker[s].action].channel \in Channels
  BY <1>1, TaskRow DEF Note
<1>3. runtime[worker[s].action].request \in Request
  BY <1>2, LifecycleAssumption DEF BaseInv, LifecycleInv, LifecycleTypeOK
<1>4. Published(s) \in Message
  BY <1>2, <1>3 DEF Published, Message, Request
<1>5. messages \in Seq(Message) /\ Len(messages) < MaxMessages
      /\ messages' = Append(messages, Published(s))
  BY DEF SlackPosts, BaseInv, TypeOK
<1>6. MaxMessages \in Nat
  BY SlackAssumption
<1>7. /\ messages' \in Seq(Message) /\ Len(messages') = Len(messages) + 1
      /\ \A ts \in 1..Len(messages) : messages'[ts] = messages[ts]
  BY <1>4, <1>5, AppendProperties
<1> QED BY <1>5, <1>6, <1>7, LenProperties DEF MessagesStep

LEMMA WithoutButtonsStep ==
  ASSUME BaseInv, NEW ts \in 1..Len(messages), messages' = WithoutButtons(ts)
  PROVE  MessagesStep
<1>1. messages \in Seq(Message) /\ Len(messages) <= MaxMessages
  BY DEF BaseInv, TypeOK
<1>2. messages[ts] \in Message
  BY <1>1, ElementOfSeq
<1> DEFINE m == [messages[ts] EXCEPT !.buttons = FALSE]
<1>3. m \in Message /\ m.action = messages[ts].action /\ m.channel = messages[ts].channel
  BY <1>2 DEF Message
<1>4. messages' = [messages EXCEPT ![ts] = m]
  BY DEF WithoutButtons
<1> HIDE DEF m
<1>5. messages' \in Seq(Message) /\ Len(messages') = Len(messages)
  BY <1>1, <1>3, <1>4, ExceptSeq
<1>6. \A i \in 1..Len(messages) : messages'[i] = IF i = ts THEN m ELSE messages[i]
  BY <1>1, <1>4
<1> QED BY <1>1, <1>3, <1>5, <1>6, LenProperties DEF MessagesStep

LEMMA MessagesKept ==
  ASSUME BaseInv, MessagesFrame
  PROVE  MessagesStep
<1>1. CASE UNCHANGED messages
  BY <1>1, LenProperties DEF BaseInv, TypeOK, MessagesStep
<1>2. ASSUME NEW s \in Services, RecordInteraction(s), ~UNCHANGED messages
      PROVE  MessagesStep
  <2>1. Clicked(s).message \in 1..Len(messages)
    BY <1>2, HandledRow DEF RecordInteraction
  <2> QED BY <1>2, <2>1, WithoutButtonsStep DEF RecordInteraction
<1> QED BY <1>1, <1>2, SlackPostsStep DEF MessagesFrame

ClicksStep ==
  /\ clicks' \in [Clicks -> Click \cup {NoClick}]
  /\ \A k \in Clicks : Made(k) => clicks'[k] = clicks[k]
  /\ ClickInv'

LEMMA ClicksKept ==
  ASSUME BaseInv, ClicksFrame, MessagesStep
  PROVE  ClicksStep
<1>1. Len(messages) \in Nat /\ Len(messages') \in Nat /\ Len(messages) <= Len(messages')
  BY LenProperties DEF BaseInv, TypeOK, MessagesStep
<1>2. CASE UNCHANGED clicks
  BY <1>1, <1>2 DEF BaseInv, TypeOK, ClicksStep, ClickInv, Made
<1>3. ASSUME NEW k \in Clicks, NEW ts \in 1..Len(messages), NEW user \in Users,
             NEW decision \in Decision, Press(k, ts, user, decision)
      PROVE  ClicksStep
  <2> DEFINE click == [message |-> ts, user |-> user, decision |-> decision]
  <2>1. click \in Click
    <3>1. Len(messages) <= MaxMessages /\ MaxMessages \in Nat
      BY SlackAssumption DEF BaseInv, TypeOK
    <3> QED BY <1>1, <3>1 DEF Click
  <2>2. clicks[k] = NoClick /\ clicks' = [clicks EXCEPT ![k] = click] /\ click.message = ts
    BY <1>3 DEF Press
  <2> HIDE DEF click
  <2>3. ASSUME NEW j \in Clicks, clicks'[j] # NoClick
        PROVE  clicks'[j].message \in 1..Len(messages')
    <3>1. CASE j = k
      BY <1>1, <2>2, <3>1 DEF BaseInv, TypeOK
    <3>2. CASE j # k
      BY <1>1, <2>2, <2>3, <3>2 DEF BaseInv, TypeOK, ClickInv, Made
    <3> QED BY <3>1, <3>2
  <2>4. ClickInv'
    BY <2>3 DEF ClickInv, Made
  <2>5. /\ clicks' \in [Clicks -> Click \cup {NoClick}]
        /\ \A j \in Clicks : Made(j) => clicks'[j] = clicks[j]
    BY <2>1, <2>2 DEF BaseInv, TypeOK, Made
  <2> QED BY <2>4, <2>5 DEF ClicksStep
<1> QED BY <1>2, <1>3 DEF ClicksFrame

(* A click that was made stays bound once it is.                           *)
LEMMA BoundKept ==
  ASSUME BaseInv, NotesStep, MessagesStep, ClicksStep,
         NEW k \in Clicks, Made(k), Bound(k)
  PROVE  /\ Made(k)' /\ Bound(k)' /\ clicks'[k] = clicks[k]
         /\ clicks[k] \in Click /\ messages[clicks[k].message].action \in Actions
         /\ messages'[clicks[k].message].action = messages[clicks[k].message].action
         /\ messages'[clicks[k].message].channel = messages[clicks[k].message].channel
<1> DEFINE ts == clicks[k].message
           a == messages[ts].action
<1>1. clicks'[k] = clicks[k] /\ ts \in 1..Len(messages) /\ clicks[k] \in Click
  BY DEF ClicksStep, BaseInv, TypeOK, ClickInv, Made
<1>2. messages[ts] \in Message
  BY <1>1, ElementOfSeq DEF BaseInv, TypeOK
<1>3. a \in Actions
  BY <1>2 DEF Message
<1>4. messages'[ts].action = a /\ messages'[ts].channel = messages[ts].channel
  BY <1>1 DEF MessagesStep
<1>5. /\ notes[a] # NoNote /\ notes[a].channel = messages[ts].channel
      /\ notes[a].ts = ts /\ notes[a].status \in {"posted", "decided"}
  BY DEF Bound
<1>6. Kept(notes[a], notes'[a])
  BY <1>3, <1>5 DEF NotesStep, RowStep
<1>7. /\ notes'[a] # NoNote /\ notes'[a].channel = messages[ts].channel
      /\ notes'[a].ts = ts /\ notes'[a].status \in {"posted", "decided"}
  BY <1>5, <1>6 DEF Kept
<1>8. Made(k)'
  BY <1>1 DEF Made
<1>9. Bound(k)'
  BY <1>1, <1>4, <1>7 DEF Bound
<1> QED BY <1>1, <1>3, <1>4, <1>8, <1>9

-------------------------------------------------------------------------------
(* The processes.                                                          *)

TaskState == [stage : WorkerStage, action : Actions \cup {NoAction},
              attempts : Nat, ts : 0..MaxMessages]

(* A running worker goes on to task.                                       *)
WorkerGoes(s, task) ==
  /\ worker[s].stage # "down"
  /\ Goto(s, task) /\ UNCHANGED config
  /\ task \in TaskState /\ task.stage # "down"
  /\ task.stage \in {"holding", "dropping", "posting", "answered", "failing", "refused"} =>
       task.action \in Actions /\ notes'[task.action] # NoNote

LEMMA WorkerRow ==
  ASSUME BaseInv, NEW s \in Services
  PROVE  worker[s] \in TaskState
BY DEF BaseInv, TypeOK, TaskState

LEMMA Zero == 0 \in 0..MaxMessages
<1>1. MaxMessages \in Nat
  BY SlackAssumption
<1> QED BY <1>1

LEMMA AtType ==
  ASSUME NEW stage \in WorkerStage
  PROVE  At(stage) \in TaskState /\ At(stage).stage = stage
BY Zero DEF At, Task, TaskState

LEMMA GoesNowhere ==
  ASSUME NEW s \in Services, NEW stage \in {"stopped", "idle", "claiming"},
         worker[s].stage # "down", Goto(s, At(stage)), UNCHANGED config
  PROVE  \E task : WorkerGoes(s, task)
<1>1. stage \in WorkerStage
  BY DEF WorkerStage
<1>2. At(stage) \in TaskState /\ At(stage).stage = stage
  BY <1>1, AtType
<1>3. WorkerGoes(s, At(stage))
  BY <1>2 DEF WorkerGoes
<1> QED BY <1>3

(* The worker goes on with the row it has.                                 *)
LEMMA GoesOn ==
  ASSUME BaseInv, NotesStep, NEW s \in Services, AtTask(s),
         NEW stage \in {"dropping", "posting", "answered", "failing", "refused"},
         NEW ts \in 0..MaxMessages, UNCHANGED config,
         Goto(s, [worker[s] EXCEPT !.stage = stage, !.ts = ts])
  PROVE  \E task : WorkerGoes(s, task)
<1> DEFINE task == [worker[s] EXCEPT !.stage = stage, !.ts = ts]
<1>1. worker[s] \in TaskState /\ worker[s].action \in Actions
  BY WorkerRow, TaskRow
<1>2. stage \in WorkerStage
  BY DEF WorkerStage
<1>3. task \in TaskState /\ task.stage = stage /\ task.action = worker[s].action
  BY <1>1, <1>2 DEF TaskState
<1>4. notes[worker[s].action] # NoNote
  BY DEF BaseInv, TaskInv
<1>5. notes'[worker[s].action] # NoNote
  BY <1>1, <1>4 DEF NotesStep, RowStep, Kept
<1>6. worker[s].stage # "down"
  BY DEF AtTask
<1> HIDE DEF task
<1>7. WorkerGoes(s, task)
  BY <1>1, <1>3, <1>5, <1>6 DEF WorkerGoes, task
<1> QED BY <1>7

LEMMA WorkGoes ==
  ASSUME BaseInv, NotesStep, NEW s \in Services, Work(s), UNCHANGED config
  PROVE  \E task : WorkerGoes(s, task)
<1>1. CASE Sync(s) \/ SyncRaises(s) \/ ClaimNothing(s)
  BY <1>1, GoesNowhere DEF Sync, SyncRaises, ClaimNothing, Turn
<1>2. ASSUME NEW a \in Actions, Claim(s, a)
      PROVE  \E task : WorkerGoes(s, task)
  <2> DEFINE task == Task("holding", a, notes[a].attempts + 1, 0)
  <2>1. notes[a] \in Note /\ notes'[a] \in Note
    BY <1>2, ClaimStep
  <2>2. notes[a].attempts + 1 \in Nat
    BY <2>1 DEF Note
  <2>3. task \in TaskState /\ task.stage = "holding" /\ task.action = a
    BY <2>2, Zero DEF Task, TaskState, WorkerStage
  <2>4. worker[s].stage # "down" /\ Goto(s, task)
    BY <1>2 DEF Claim, Turn
  <2> HIDE DEF task
  <2>5. WorkerGoes(s, task)
    BY <2>1, <2>3, <2>4, NoteAssumption DEF WorkerGoes
  <2> QED BY <2>5
<1>3. CASE ReadAction(s)
  <2> DEFINE stage == IF runtime[worker[s].action].status = "pending"
                      THEN "posting" ELSE "dropping"
  <2>1. AtTask(s)
    BY <1>3 DEF ReadAction, Turn, AtTask
  <2>2. Goto(s, [worker[s] EXCEPT !.stage = stage, !.ts = worker[s].ts])
    BY <1>3, WorkerRow DEF ReadAction, TaskState
  <2>3. stage \in {"posting", "dropping"}
    OBVIOUS
  <2> HIDE DEF stage
  <2> QED BY <2>1, <2>2, <2>3, TaskRow, GoesOn
<1>4. CASE MarkObsolete(s) \/ MarkPosted(s) \/ MarkFailed(s)
  BY <1>4, GoesNowhere DEF MarkObsolete, MarkPosted, MarkFailed, Release
<1>5. CASE MarkRaises(s)
  BY <1>5, GoesNowhere DEF MarkRaises
<1> QED BY <1>1, <1>2, <1>3, <1>4, <1>5 DEF Work

LEMMA SlackGoes ==
  ASSUME BaseInv, NotesStep, NEW s \in Services, Slack(s), UNCHANGED config
  PROVE  \E task : WorkerGoes(s, task)
<1>1. AtTask(s)
  BY DEF Slack, SlackPosts, SlackRepeats, SlackRefuses, AtTask
<1>2. ASSUME NEW stage \in {"answered", "failing", "refused"}, NEW ts \in 0..MaxMessages,
             Answer(s, stage, ts)
      PROVE  \E task : WorkerGoes(s, task)
  BY <1>1, <1>2, GoesOn DEF Answer
<1>3. MaxMessages \in Nat /\ Len(messages) \in Nat /\ Len(messages) <= MaxMessages
  BY SlackAssumption, LenProperties DEF BaseInv, TypeOK
<1>4. CASE SlackPosts(s)
  <2>1. Len(messages) + 1 \in 0..MaxMessages
    BY <1>3, <1>4 DEF SlackPosts
  <2> QED BY <1>2, <1>4, <2>1, Zero DEF SlackPosts
<1>5. CASE SlackRepeats(s)
  <2>1. PICK ts \in 1..Len(messages) : Answer(s, "answered", ts)
    BY <1>5 DEF SlackRepeats
  <2>2. ts \in 0..MaxMessages
    BY <1>3
  <2> QED BY <1>2, <2>1, <2>2
<1>6. CASE SlackRefuses(s)
  BY <1>2, <1>6, Zero DEF SlackRefuses
<1> QED BY <1>4, <1>5, <1>6 DEF Slack

(* Types of config and worker, and the row of every worker at a task.      *)
ProcessStep ==
  /\ config' \in [Services -> Config \cup {NoConfig}]
  /\ worker' \in [Services -> TaskState]
  /\ TaskInv'
  /\ \A s \in Services :
       \/ worker'[s].stage = "down" /\ handler'[s] = Free
       \/ worker[s].stage = "down" /\ UNCHANGED handler /\ config'[s] \in Configs[s]
       \/ (worker'[s].stage = "down" <=> worker[s].stage = "down") /\ config'[s] = config[s]

LEMMA ProcessSame ==
  ASSUME BaseInv, NotesStep, UNCHANGED <<config, worker>>
  PROVE  ProcessStep
<1>1. TaskInv'
  <2> SUFFICES ASSUME NEW s \in Services, AtTask(s)'
               PROVE  worker'[s].action \in Actions /\ notes'[worker'[s].action] # NoNote
    BY DEF TaskInv
  <2>1. AtTask(s) /\ worker'[s] = worker[s]
    BY DEF AtTask
  <2>2. worker[s].action \in Actions /\ notes[worker[s].action] # NoNote
    BY <2>1 DEF BaseInv, TaskInv
  <2> QED BY <2>1, <2>2 DEF NotesStep, RowStep, Kept
<1> QED BY <1>1 DEF ProcessStep, BaseInv, TypeOK, TaskState

LEMMA TaskAfter ==
  ASSUME BaseInv, NotesStep, NEW s \in Services, NEW task \in TaskState, Goto(s, task),
         task.stage \in {"holding", "dropping", "posting", "answered", "failing", "refused"} =>
           task.action \in Actions /\ notes'[task.action] # NoNote
  PROVE  TaskInv' /\ worker' \in [Services -> TaskState]
<1>1. worker \in [Services -> TaskState] /\ worker' = [worker EXCEPT ![s] = task]
  BY DEF BaseInv, TypeOK, TaskState, Goto
<1>2. ASSUME NEW r \in Services, AtTask(r)'
      PROVE  worker'[r].action \in Actions /\ notes'[worker'[r].action] # NoNote
  <2>1. CASE r = s
    BY <1>1, <1>2, <2>1 DEF AtTask
  <2>2. CASE r # s
    <3>1. worker'[r] = worker[r]
      BY <1>1, <2>2
    <3>2. worker[r].action \in Actions /\ notes[worker[r].action] # NoNote
      BY <1>2, <3>1 DEF AtTask, BaseInv, TaskInv
    <3> QED BY <3>1, <3>2 DEF NotesStep, RowStep, Kept
  <2> QED BY <2>1, <2>2
<1> QED BY <1>1, <1>2 DEF TaskInv

LEMMA GoesStep ==
  ASSUME BaseInv, NotesStep, NEW s \in Services, NEW task, WorkerGoes(s, task)
  PROVE  ProcessStep
<1>1. TaskInv' /\ worker' \in [Services -> TaskState]
  BY TaskAfter DEF WorkerGoes
<1>2. \A r \in Services : (worker'[r].stage = "down" <=> worker[r].stage = "down")
  BY DEF WorkerGoes, Goto, BaseInv, TypeOK
<1> QED BY <1>1, <1>2 DEF ProcessStep, WorkerGoes, BaseInv, TypeOK

LEMMA StartStep ==
  ASSUME BaseInv, NotesStep, NEW s \in Services, NEW c \in Configs[s], Start(s, c)
  PROVE  ProcessStep
<1>1. At("idle") \in TaskState /\ At("idle").stage = "idle"
  BY AtType DEF WorkerStage
<1>2. TaskInv' /\ worker' \in [Services -> TaskState]
  BY <1>1, TaskAfter DEF Start
<1>3. c \in Config
  BY SlackAssumption
<1>4. config' = [config EXCEPT ![s] = c] /\ worker' = [worker EXCEPT ![s] = At("idle")]
  BY DEF Start, Goto
<1>5. ASSUME NEW r \in Services
      PROVE  \/ worker[r].stage = "down" /\ UNCHANGED handler /\ config'[r] \in Configs[r]
             \/ worker'[r] = worker[r] /\ config'[r] = config[r]
  <2>1. CASE r = s
    BY <1>4, <2>1 DEF Start, BaseInv, TypeOK
  <2>2. CASE r # s
    BY <1>4, <2>2 DEF BaseInv, TypeOK
  <2> QED BY <2>1, <2>2
<1> QED BY <1>2, <1>3, <1>4, <1>5 DEF ProcessStep, BaseInv, TypeOK

LEMMA CrashStep ==
  ASSUME BaseInv, NotesStep, NEW s \in Services, Crash(s)
  PROVE  ProcessStep
<1>1. At("down") \in TaskState /\ At("down").stage = "down"
  BY AtType DEF WorkerStage
<1>2. TaskInv' /\ worker' \in [Services -> TaskState]
  BY <1>1, TaskAfter DEF Crash
<1>3. /\ config' = [config EXCEPT ![s] = NoConfig]
      /\ worker' = [worker EXCEPT ![s] = At("down")]
      /\ handler' = [handler EXCEPT ![s] = Free]
  BY DEF Crash, Goto
<1>4. ASSUME NEW r \in Services
      PROVE  \/ worker'[r].stage = "down" /\ handler'[r] = Free
             \/ worker'[r] = worker[r] /\ config'[r] = config[r]
  BY <1>1, <1>3 DEF BaseInv, TypeOK
<1> QED BY <1>2, <1>3, <1>4 DEF ProcessStep, BaseInv, TypeOK

LEMMA ProcessKept ==
  ASSUME BaseInv, NotesStep, ProcessFrame
  PROVE  ProcessStep
<1>1. ASSUME NEW s \in Services, WorkerRaises(s), UNCHANGED config
      PROVE  \E task : WorkerGoes(s, task)
  BY <1>1, GoesNowhere DEF WorkerRaises
<1>2. ASSUME NEW s \in Services, Work(s) \/ Slack(s) \/ WorkerRaises(s), UNCHANGED config
      PROVE  ProcessStep
  BY <1>1, <1>2, WorkGoes, SlackGoes, GoesStep
<1> QED BY <1>2, ProcessSame, StartStep, CrashStep DEF ProcessFrame

-------------------------------------------------------------------------------
(* The handlers.                                                           *)

HandlerState == [stage : HandlerStage, click : Clicks \cup {NoClick},
                 outcome : Outcome \cup {"none"}, decision : Decision \cup {"none"},
                 by : Authorization \cup {NoOne}]

HandlerCase(s) ==
  \/ handler'[s] = handler[s]
  \/ handler'[s] = Free
  \/ \E k \in Clicks : Receive(s, k)
  \/ DecideClick(s) \/ Reread(s) \/ MarkDecided(s)

(* The handler of s goes on to stage with the click it has.                *)
HandlerGoes(s, stage, outcome, decision, by) ==
  /\ handler[s].stage # "free" /\ handler'[s].stage = stage
  /\ handler'[s].click = handler[s].click
  /\ handler'[s].outcome = outcome /\ handler'[s].decision = decision
  /\ handler'[s].by = by

LEMMA FreeType == Free \in HandlerState /\ Free.stage = "free"
BY DEF Free, HandlerState, HandlerStage

LEMMA HandlerRow ==
  ASSUME BaseInv
  PROVE  /\ handler \in [Services -> HandlerState]
         /\ \A s \in Services : handler[s] \in HandlerState
BY DEF BaseInv, TypeOK, HandlerState

LEMMA ProceedGoes ==
  ASSUME BaseInv, NEW s \in Services, handler[s].stage # "free",
         NEW stage \in HandlerStage, NEW outcome \in Outcome,
         NEW decision \in Decision \cup {"none"}, NEW by \in Authorization \cup {NoOne},
         Proceed(s, stage, outcome, decision, by)
  PROVE  /\ handler' \in [Services -> HandlerState]
         /\ HandlerGoes(s, stage, outcome, decision, by)
         /\ \A r \in Services : r # s => handler'[r] = handler[r]
<1> DEFINE row == [handler[s] EXCEPT !.stage = stage, !.outcome = outcome,
                                     !.decision = decision, !.by = by]
<1>1. handler \in [Services -> HandlerState] /\ handler[s] \in HandlerState
  BY HandlerRow
<1>2. row \in HandlerState /\ row.stage = stage /\ row.click = handler[s].click
      /\ row.outcome = outcome /\ row.decision = decision /\ row.by = by
  BY <1>1 DEF HandlerState
<1>3. handler' = [handler EXCEPT ![s] = row]
  BY DEF Proceed
<1> HIDE DEF row
<1> QED BY <1>1, <1>2, <1>3 DEF HandlerGoes

LEMMA ChooserType ==
  ASSUME BaseInv, NEW s \in Services, handler[s].stage # "free"
  PROVE  /\ Chooser(s) \in Authorization /\ Clicked(s).decision \in Decision
         /\ Clicked(s).user \in Users /\ config[s] \in Configs[s] /\ config[s] \in Config
<1>1. config[s] \in Configs[s] /\ config[s] \in Config
  BY RunningConfig DEF BaseInv, ProcessInv
<1>2. Clicked(s).user \in Users /\ Clicked(s).decision \in Decision
  BY HandledRow DEF Click
<1>3. /\ config[s].reviewer[Clicked(s).user] \in Reviewer
      /\ config[s].organization \in Organizations \cup {""}
      /\ config[s].namespaces \in SUBSET Namespaces /\ config[s].separate \in BOOLEAN
  BY <1>1, <1>2 DEF Config, Readable, Directory
<1>4. Clicked(s).user \in Actors
  BY <1>2, SlackAssumption
<1> QED BY <1>1, <1>2, <1>3, <1>4 DEF Chooser, Auth, Authorization, Reviewer

(* What DecideClick leaves the handler to do.                              *)
LEMMA DecideClickGoes ==
  ASSUME BaseInv, NEW s \in Services, DecideClick(s)
  PROVE  \E stage \in {"marking", "recording", "raised"}, outcome \in Outcome,
            decision \in Decision \cup {"none"}, by \in Authorization \cup {NoOne} :
           /\ Proceed(s, stage, outcome, decision, by)
           /\ stage = "recording" => outcome \in {"unauthorized", "stale"}
           /\ stage = "marking" => outcome = Target[decision] /\ decision = Clicked(s).decision
           /\ stage = "marking" =>
                \/ by = Chooser(s) /\ ClickDecides(s)
                \/ /\ UNCHANGED taken /\ by = runtime[ClickedAction(s)].by
                   /\ runtime[ClickedAction(s)].status = Target[decision]
<1>1. handler[s].stage # "free"
  BY DEF DecideClick
<1>2. /\ Chooser(s) \in Authorization /\ Clicked(s).decision \in Decision
      /\ ClickedAction(s) \in Actions
  BY <1>1, ChooserType, HandledRow
<1>3. Target[Clicked(s).decision] \in Outcome
  BY <1>2, TargetType DEF Outcome
<1>4. runtime[ClickedAction(s)].by \in Authorization \cup {NoOne}
  BY <1>2 DEF BaseInv, LifecycleInv, LifecycleTypeOK
<1>5. "unauthorized" \in Outcome /\ "stale" \in Outcome
  BY DEF Outcome
<1>6. CASE ClickDecides(s)
  BY <1>2, <1>3, <1>6 DEF ClickDecides
<1>7. CASE ClickFails(s)
  BY <1>2, <1>3, <1>4, <1>5, <1>7 DEF ClickFails, Stands
<1> QED BY <1>6, <1>7 DEF DecideClick

LEMMA RereadGoes ==
  ASSUME BaseInv, NEW s \in Services, Reread(s)
  PROVE  \E stage \in {"marking", "recording"},
            decision \in Decision \cup {"none"}, by \in Authorization \cup {NoOne} :
           /\ Proceed(s, stage, "stale", decision, by)
           /\ stage = "marking" =>
                /\ by = runtime[ClickedAction(s)].by
                /\ decision \in Decision
                /\ runtime[ClickedAction(s)].status = Target[decision]
<1>1. ClickedAction(s) \in Actions
  BY HandledRow DEF Reread
<1>2. runtime[ClickedAction(s)].by \in Authorization \cup {NoOne}
  BY <1>1 DEF BaseInv, LifecycleInv, LifecycleTypeOK
<1>3. CASE runtime[ClickedAction(s)].status \in {"approved", "rejected"}
  <2>1. Standing(s) \in Decision /\ runtime[ClickedAction(s)].status = Target[Standing(s)]
    BY <1>3 DEF Standing, Decision, Target
  <2> QED BY <1>2, <1>3, <2>1 DEF Reread
<1>4. CASE runtime[ClickedAction(s)].status \notin {"approved", "rejected"}
  BY <1>4 DEF Reread
<1> QED BY <1>3, <1>4

LEMMA ReceiveGoes ==
  ASSUME BaseInv, NEW s \in Services, NEW k \in Clicks, Receive(s, k)
  PROVE  /\ handler' \in [Services -> HandlerState]
         /\ handler'[s].click = k /\ handler'[s].stage \in {"admitted", "recording"}
         /\ handler'[s].outcome \notin {"approved", "rejected"}
         /\ handler'[s].stage = "admitted" =>
              Listed(config[s], clicks[k].user, clicks[k].decision)
         /\ \A r \in Services : r # s => handler'[r] = handler[r]
<1>1. PICK admitted \in BOOLEAN :
        /\ admitted => Listed(config[s], clicks[k].user, clicks[k].decision)
        /\ handler' = [handler EXCEPT ![s] =
             [Free EXCEPT !.click = k, !.stage = IF admitted THEN "admitted" ELSE "recording",
                          !.outcome = IF admitted THEN "none" ELSE "unauthorized"]]
  BY DEF Receive
<1> DEFINE row == [Free EXCEPT !.click = k,
                     !.stage = IF admitted THEN "admitted" ELSE "recording",
                     !.outcome = IF admitted THEN "none" ELSE "unauthorized"]
<1>2. row \in HandlerState
  BY DEF Free, HandlerState, HandlerStage, Outcome
<1>3. /\ row.click = k /\ row.stage = (IF admitted THEN "admitted" ELSE "recording")
      /\ row.outcome = (IF admitted THEN "none" ELSE "unauthorized")
  BY DEF Free
<1>4. handler' = [handler EXCEPT ![s] = row] /\ handler \in [Services -> HandlerState]
  BY <1>1, HandlerRow
<1> HIDE DEF row
<1> QED BY <1>1, <1>2, <1>3, <1>4

HandlerStep ==
  /\ handler' \in [Services -> HandlerState]
  /\ \A s \in Services : HandlerCase(s)

LEMMA HandlerFrees ==
  ASSUME BaseInv, NEW s \in Services, handler' = [handler EXCEPT ![s] = Free]
  PROVE  HandlerStep
BY HandlerRow, FreeType DEF HandlerStep, HandlerCase

LEMMA HandlerKept ==
  ASSUME BaseInv, HandlerFrame
  PROVE  HandlerStep
<1>1. CASE UNCHANGED handler
  BY <1>1, HandlerRow DEF HandlerStep, HandlerCase
<1>2. ASSUME NEW s \in Services, Crash(s) \/ HandlerRaises(s) \/ RecordInteraction(s)
      PROVE  HandlerStep
  BY <1>2, HandlerFrees DEF Crash, HandlerRaises, RecordInteraction
<1>3. ASSUME NEW s \in Services, NEW k \in Clicks, Receive(s, k)
      PROVE  HandlerStep
  BY <1>3, ReceiveGoes DEF HandlerStep, HandlerCase
<1>4. ASSUME NEW s \in Services, DecideClick(s) PROVE HandlerStep
  <2>1. PICK stage \in {"marking", "recording", "raised"}, outcome \in Outcome,
             decision \in Decision \cup {"none"}, by \in Authorization \cup {NoOne} :
          Proceed(s, stage, outcome, decision, by)
    BY <1>4, DecideClickGoes
  <2>2. handler[s].stage # "free" /\ stage \in HandlerStage
    BY <1>4 DEF DecideClick, HandlerStage
  <2> QED BY <1>4, <2>1, <2>2, ProceedGoes DEF HandlerStep, HandlerCase
<1>5. ASSUME NEW s \in Services, Reread(s) PROVE HandlerStep
  <2>1. PICK stage \in {"marking", "recording"},
             decision \in Decision \cup {"none"}, by \in Authorization \cup {NoOne} :
          Proceed(s, stage, "stale", decision, by)
    BY <1>5, RereadGoes
  <2>2. handler[s].stage # "free" /\ stage \in HandlerStage /\ "stale" \in Outcome
    BY <1>5 DEF Reread, HandlerStage, Outcome
  <2> QED BY <1>5, <2>1, <2>2, ProceedGoes DEF HandlerStep, HandlerCase
<1>6. ASSUME NEW s \in Services, MarkDecided(s) PROVE HandlerStep
  <2>1. handler' = [handler EXCEPT ![s].stage = "recording"]
    BY <1>6 DEF MarkDecided
  <2>2. handler' \in [Services -> HandlerState]
    BY <2>1, HandlerRow DEF HandlerState, HandlerStage
  <2>3. \A r \in Services : r # s => handler'[r] = handler[r]
    BY <2>1, HandlerRow
  <2> QED BY <1>6, <2>2, <2>3 DEF HandlerStep, HandlerCase
<1> QED BY <1>1, <1>2, <1>3, <1>4, <1>5, <1>6 DEF HandlerFrame, Handle

LEMMA GoesWithClick ==
  ASSUME BaseInv, NEW s \in Services, DecideClick(s) \/ Reread(s) \/ MarkDecided(s)
  PROVE  handler[s].stage # "free" /\ handler'[s].click = handler[s].click
<1>1. handler[s].stage # "free"
  BY DEF DecideClick, Reread, MarkDecided
<1>2. CASE DecideClick(s)
  <2>1. PICK stage \in {"marking", "recording", "raised"}, outcome \in Outcome,
             decision \in Decision \cup {"none"}, by \in Authorization \cup {NoOne} :
          Proceed(s, stage, outcome, decision, by)
    BY <1>2, DecideClickGoes
  <2>2. stage \in HandlerStage
    BY DEF HandlerStage
  <2>3. HandlerGoes(s, stage, outcome, decision, by)
    BY <1>1, <2>1, <2>2, ProceedGoes
  <2> QED BY <1>1, <2>3 DEF HandlerGoes
<1>3. CASE Reread(s)
  <2>1. PICK stage \in {"marking", "recording"},
             decision \in Decision \cup {"none"}, by \in Authorization \cup {NoOne} :
          Proceed(s, stage, "stale", decision, by)
    BY <1>3, RereadGoes
  <2>2. stage \in HandlerStage /\ "stale" \in Outcome
    BY DEF HandlerStage, Outcome
  <2>3. HandlerGoes(s, stage, "stale", decision, by)
    BY <1>1, <2>1, <2>2, ProceedGoes
  <2> QED BY <1>1, <2>3 DEF HandlerGoes
<1>4. CASE MarkDecided(s)
  BY <1>1, <1>4, HandlerRow DEF MarkDecided, HandlerState
<1> QED BY <1>2, <1>3, <1>4

-------------------------------------------------------------------------------
(* The decisions taken, and what the lifecycle makes of them.              *)

DecisionTaken == [action : Actions, decision : Decision, by : Authorization,
                  click : Clicks \cup {NoClick}]

(* A step takes at most one decision.                                      *)
Decides(a, decision, by, click) ==
  /\ Decide(a, decision, by)
  /\ taken' = taken \cup {[action |-> a, decision |-> decision, by |-> by,
                           click |-> click]}

TakenCase ==
  \/ UNCHANGED <<lifecycleVars, taken>>
  \/ Lifecycle /\ UNCHANGED taken
  \/ \E s \in Services :
       /\ handler[s].stage = "admitted"
       /\ Decides(ClickedAction(s), Clicked(s).decision, Chooser(s), handler[s].click)
  \/ \E a \in Actions, decision \in Decision, auth \in Others :
       Decides(a, decision, auth, NoClick)

LEMMA TakenCases == TakenFrame => TakenCase
BY DEF TakenFrame, TakenCase, DecideClick, ClickDecides, ClickFails, DecideElsewhere,
       Move, Decides

LEMMA DecidesKeeps ==
  ASSUME BaseInv, NEW a \in Actions, NEW decision \in Decision,
         NEW auth \in Authorization, NEW click \in Clicks \cup {NoClick},
         Decides(a, decision, auth, click)
  PROVE  LifecycleInv' /\ taken' \subseteq DecisionTaken /\ taken \subseteq taken'
<1>1. LifecycleInv'
  BY DecideKeeps DEF Decides, BaseInv
<1>2. taken \subseteq DecisionTaken
  BY DEF BaseInv, TypeOK, DecisionTaken
<1>3. [action |-> a, decision |-> decision, by |-> auth, click |-> click] \in DecisionTaken
  BY DEF DecisionTaken
<1> QED BY <1>1, <1>2, <1>3 DEF Decides

LEMMA TakenKept ==
  ASSUME BaseInv, TakenCase
  PROVE  LifecycleInv' /\ taken' \subseteq DecisionTaken /\ taken \subseteq taken'
<1>1. taken \subseteq DecisionTaken
  BY DEF BaseInv, TypeOK, DecisionTaken
<1>2. CASE UNCHANGED <<lifecycleVars, taken>>
  BY <1>1, <1>2, LifecycleSame DEF BaseInv
<1>3. CASE Lifecycle /\ UNCHANGED taken
  BY <1>1, <1>3, LifecycleKeeps DEF BaseInv
<1>4. ASSUME NEW s \in Services, handler[s].stage = "admitted",
             Decides(ClickedAction(s), Clicked(s).decision, Chooser(s), handler[s].click)
      PROVE  LifecycleInv' /\ taken' \subseteq DecisionTaken /\ taken \subseteq taken'
  <2>1. /\ ClickedAction(s) \in Actions /\ Clicked(s).decision \in Decision
        /\ Chooser(s) \in Authorization /\ handler[s].click \in Clicks
    BY <1>4, HandledRow, ChooserType
  <2> QED BY <1>4, <2>1, DecidesKeeps
<1>5. ASSUME NEW a \in Actions, NEW decision \in Decision, NEW auth \in Others,
             Decides(a, decision, auth, NoClick)
      PROVE  LifecycleInv' /\ taken' \subseteq DecisionTaken /\ taken \subseteq taken'
  <2>1. auth \in Authorization
    BY SlackAssumption
  <2> QED BY <1>5, <2>1, DecidesKeeps
<1> QED BY <1>2, <1>3, <1>4, <1>5 DEF TakenCase

LEMMA RecordedKept ==
  ASSUME BaseInv, RecordedFrame
  PROVE  recorded' \in [Clicks -> Outcome \cup {"none"}]
<1>1. ASSUME NEW s \in Services, RecordInteraction(s)
      PROVE  recorded' \in [Clicks -> Outcome \cup {"none"}]
  <2>1. handler[s].outcome \in Outcome \cup {"none"}
    BY HandlerRow DEF HandlerState
  <2> QED BY <1>1, <2>1 DEF RecordInteraction, BaseInv, TypeOK
<1> QED BY <1>1 DEF RecordedFrame, BaseInv, TypeOK

-------------------------------------------------------------------------------
(* The first four parts of the invariant.                                  *)

(* What the parts above say of one step, together.                         *)
Step == /\ NotesStep /\ MessagesStep /\ ClicksStep /\ ProcessStep /\ HandlerStep
        /\ TakenCase /\ taken \subseteq taken'

LEMMA StepParts ==
  ASSUME BaseInv, [Next]_vars
  PROVE  Step /\ Frames
<1>1. Frames
  BY StepFrames
<1>2. NotesStep
  BY <1>1, NotesKept DEF Frames
<1>3. MessagesStep
  BY <1>1, MessagesKept DEF Frames
<1>4. ClicksStep
  BY <1>1, <1>3, ClicksKept DEF Frames
<1>5. ProcessStep
  BY <1>1, <1>2, ProcessKept DEF Frames
<1>6. HandlerStep
  BY <1>1, HandlerKept DEF Frames
<1>7. TakenCase
  BY <1>1, TakenCases DEF Frames
<1>8. taken \subseteq taken'
  BY <1>7, TakenKept
<1> QED BY <1>1, <1>2, <1>3, <1>4, <1>5, <1>6, <1>7, <1>8 DEF Step

LEMMA BaseInit == Init => BaseInv
<1> SUFFICES ASSUME Init PROVE BaseInv
  OBVIOUS
<1>1. LifecycleInv /\ LifecycleTypeOK
  BY LifecycleStart DEF Init, LifecycleInv
<1>2. messages \in Seq(Message) /\ Len(messages) = 0 /\ Len(messages) <= MaxMessages
  <2>1. MaxMessages \in Nat
    BY SlackAssumption
  <2> QED BY <2>1, EmptySeq DEF Init
<1>3. At("down") \in TaskState /\ At("down").stage = "down"
  BY AtType DEF WorkerStage
<1>4. worker \in [Services -> TaskState]
  BY <1>3 DEF Init
<1>5. handler \in [Services -> HandlerState]
  BY FreeType DEF Init
<1>6. faults \in 0..MaxFaults
  <2>1. MaxFaults \in Nat
    BY SlackAssumption
  <2> QED BY <2>1 DEF Init
<1>7. TypeOK
  BY <1>1, <1>2, <1>4, <1>5, <1>6 DEF Init, TypeOK, TaskState, HandlerState
<1>8. \A s \in Services : worker[s].stage = "down" /\ handler[s].stage = "free"
  BY <1>3, FreeType DEF Init
<1>9. ProcessInv /\ TaskInv /\ HandlerInv
  BY <1>8 DEF ProcessInv, TaskInv, HandlerInv, AtTask
<1>10. ClickInv
  BY DEF Init, ClickInv, Made
<1> QED BY <1>1, <1>7, <1>9, <1>10 DEF BaseInv

LEMMA ProcessInvStep ==
  ASSUME BaseInv, Step
  PROVE  ProcessInv'
<1> SUFFICES ASSUME NEW s \in Services
             PROVE  /\ worker'[s].stage # "down" => config'[s] \in Configs[s]
                    /\ handler'[s].stage # "free" => worker'[s].stage # "down"
  BY DEF ProcessInv
<1>1. /\ worker[s].stage # "down" => config[s] \in Configs[s]
      /\ handler[s].stage # "free" => worker[s].stage # "down"
  BY DEF BaseInv, ProcessInv
<1>2. \/ worker'[s].stage = "down" /\ handler'[s] = Free
      \/ worker[s].stage = "down" /\ UNCHANGED handler /\ config'[s] \in Configs[s]
      \/ (worker'[s].stage = "down" <=> worker[s].stage = "down") /\ config'[s] = config[s]
  BY DEF Step, ProcessStep
<1>3. handler'[s].stage # "free" => worker[s].stage # "down"
  <2>1. CASE handler'[s] = handler[s] \/ handler'[s] = Free
    BY <1>1, <2>1, FreeType
  <2>2. CASE \E k \in Clicks : Receive(s, k)
    BY <2>2 DEF Receive, LoopFree
  <2>3. CASE DecideClick(s) \/ Reread(s) \/ MarkDecided(s)
    BY <1>1, <2>3, GoesWithClick
  <2> QED BY <2>1, <2>2, <2>3 DEF Step, HandlerStep, HandlerCase
<1> QED BY <1>1, <1>2, <1>3, FreeType

LEMMA HandlerInvStep ==
  ASSUME BaseInv, Step
  PROVE  HandlerInv'
<1> SUFFICES ASSUME NEW s \in Services, handler'[s].stage # "free"
             PROVE  /\ handler'[s].click \in Clicks
                    /\ Made(handler[s].click)' /\ Bound(handler[s].click)'
  BY DEF HandlerInv
<1>1. handler'[s].click \in Clicks /\ Made(handler'[s].click) /\ Bound(handler'[s].click)
  <2>1. CASE handler'[s] = handler[s]
    BY <2>1 DEF BaseInv, HandlerInv
  <2>2. CASE handler'[s] = Free
    BY <2>2, FreeType
  <2>3. ASSUME NEW k \in Clicks, Receive(s, k)
        PROVE  handler'[s].click \in Clicks /\ Made(handler'[s].click)
               /\ Bound(handler'[s].click)
    <3>1. handler'[s].click = k
      BY <2>3, ReceiveGoes
    <3> QED BY <2>3, <3>1 DEF Receive, Genuine, Made
  <2>4. CASE DecideClick(s) \/ Reread(s) \/ MarkDecided(s)
    BY <2>4, GoesWithClick DEF BaseInv, HandlerInv
  <2> QED BY <2>1, <2>2, <2>3, <2>4 DEF Step, HandlerStep, HandlerCase
<1>2. PICK k \in Clicks : k = handler'[s].click /\ Made(k) /\ Bound(k)
  BY <1>1
<1>3. Made(k)' /\ Bound(k)'
  BY <1>2, BoundKept DEF Step
<1> QED BY <1>1, <1>2, <1>3 DEF Bound, Made

LEMMA BaseStep == BaseInv /\ [Next]_vars => BaseInv'
<1> SUFFICES ASSUME BaseInv, [Next]_vars PROVE BaseInv'
  OBVIOUS
<1>1. Step /\ Frames
  BY StepParts
<1>2. LifecycleInv' /\ taken' \subseteq DecisionTaken
  BY <1>1, TakenKept DEF Step
<1>3. recorded' \in [Clicks -> Outcome \cup {"none"}]
  BY <1>1, RecordedKept DEF Frames
<1>4. faults' \in 0..MaxFaults
  <2>1. MaxFaults \in Nat
    BY SlackAssumption
  <2> QED BY <1>1, <2>1 DEF Frames, FaultsFrame, Fault, BaseInv, TypeOK
<1>5. TypeOK'
  BY <1>1, <1>2, <1>3, <1>4
     DEF Step, NotesStep, MessagesStep, ClicksStep, ProcessStep, HandlerStep, TypeOK,
         LifecycleInv, TaskState, HandlerState, DecisionTaken
<1>6. ProcessInv' /\ HandlerInv'
  BY <1>1, ProcessInvStep, HandlerInvStep
<1> QED BY <1>1, <1>2, <1>5, <1>6 DEF BaseInv, Step, ProcessStep, ClicksStep

LEMMA SlackBase == Spec => []BaseInv
BY BaseInit, BaseStep, PTL DEF Spec

(* TypeOK (SlackApprovals): every reachable state is well typed, for every *)
(* set of services, clicks and configurations and every bound.             *)
THEOREM SlackTypes == Spec => []TypeOK
<1>1. BaseInv => TypeOK
  BY DEF BaseInv
<1> QED BY <1>1, SlackBase, PTL

-------------------------------------------------------------------------------
(* What the handler is about to write is true.                             *)

(* A handler that goes on handles the same click in the same process.      *)
LEMMA HandlingSame ==
  ASSUME BaseInv, Step, NEW s \in Services, handler[s].stage # "free",
         handler'[s].stage # "free", handler'[s].click = handler[s].click
  PROVE  /\ config'[s] = config[s] /\ Clicked(s)' = Clicked(s)
         /\ ClickedAction(s)' = ClickedAction(s)
         /\ messages'[Clicked(s).message].channel = messages[Clicked(s).message].channel
         /\ ClickedAction(s) \in Actions /\ notes[ClickedAction(s)] \in Note
<1>1. config'[s] = config[s]
  <2>1. worker[s].stage # "down"
    BY DEF BaseInv, ProcessInv
  <2> QED BY <2>1, FreeType DEF Step, ProcessStep
<1>2. PICK k \in Clicks : k = handler[s].click /\ Made(k) /\ Bound(k)
  BY DEF BaseInv, HandlerInv
<1>3. /\ clicks'[k] = clicks[k]
      /\ messages'[clicks[k].message].action = messages[clicks[k].message].action
      /\ messages'[clicks[k].message].channel = messages[clicks[k].message].channel
  BY <1>2, BoundKept DEF Step
<1>4. ClickedAction(s) \in Actions /\ notes[ClickedAction(s)] \in Note
  BY HandledRow
<1> QED BY <1>1, <1>2, <1>3, <1>4 DEF Clicked, ClickedAction

LEMMA DecideClickAfter ==
  ASSUME BaseInv, NEW s \in Services, DecideClick(s)
  PROVE  /\ handler[s].stage = "admitted" /\ handler'[s].click = handler[s].click
         /\ handler'[s].stage \in {"marking", "recording", "raised"}
         /\ handler'[s].stage = "recording" =>
              handler'[s].outcome \in {"unauthorized", "stale"}
         /\ handler'[s].stage = "marking" =>
              /\ handler'[s].decision = Clicked(s).decision
              /\ \/ handler'[s].by = Chooser(s) /\ ClickDecides(s)
                 \/ /\ UNCHANGED taken /\ handler'[s].by = runtime[ClickedAction(s)].by
                    /\ runtime[ClickedAction(s)].status = Target[Clicked(s).decision]
<1>1. handler[s].stage = "admitted"
  BY DEF DecideClick
<1>2. PICK stage \in {"marking", "recording", "raised"}, outcome \in Outcome,
           decision \in Decision \cup {"none"}, by \in Authorization \cup {NoOne} :
        /\ Proceed(s, stage, outcome, decision, by)
        /\ stage = "recording" => outcome \in {"unauthorized", "stale"}
        /\ stage = "marking" => outcome = Target[decision] /\ decision = Clicked(s).decision
        /\ stage = "marking" =>
             \/ by = Chooser(s) /\ ClickDecides(s)
             \/ /\ UNCHANGED taken /\ by = runtime[ClickedAction(s)].by
                /\ runtime[ClickedAction(s)].status = Target[decision]
  BY DecideClickGoes
<1>3. stage \in HandlerStage
  BY DEF HandlerStage
<1>4. HandlerGoes(s, stage, outcome, decision, by)
  BY <1>1, <1>2, <1>3, ProceedGoes
<1> QED BY <1>1, <1>2, <1>4 DEF HandlerGoes

LEMMA RereadAfter ==
  ASSUME BaseInv, NEW s \in Services, Reread(s)
  PROVE  /\ handler[s].stage = "raised" /\ handler'[s].click = handler[s].click
         /\ handler'[s].stage \in {"marking", "recording"} /\ handler'[s].outcome = "stale"
         /\ handler'[s].stage = "marking" =>
              /\ handler'[s].by = runtime[ClickedAction(s)].by
              /\ handler'[s].decision \in Decision
              /\ runtime[ClickedAction(s)].status = Target[handler'[s].decision]
<1>1. handler[s].stage = "raised"
  BY DEF Reread
<1>2. PICK stage \in {"marking", "recording"},
           decision \in Decision \cup {"none"}, by \in Authorization \cup {NoOne} :
        /\ Proceed(s, stage, "stale", decision, by)
        /\ stage = "marking" =>
             /\ by = runtime[ClickedAction(s)].by
             /\ decision \in Decision
             /\ runtime[ClickedAction(s)].status = Target[decision]
  BY RereadGoes
<1>3. stage \in HandlerStage /\ "stale" \in Outcome
  BY DEF HandlerStage, Outcome
<1>4. HandlerGoes(s, stage, "stale", decision, by)
  BY <1>1, <1>2, <1>3, ProceedGoes
<1> QED BY <1>1, <1>2, <1>4 DEF HandlerGoes

LEMMA MarkDecidedAfter ==
  ASSUME BaseInv, NEW s \in Services, MarkDecided(s)
  PROVE  /\ handler[s].stage = "marking" /\ handler'[s].stage = "recording"
         /\ handler'[s].click = handler[s].click
         /\ handler'[s].outcome = handler[s].outcome
         /\ notes'[ClickedAction(s)].status = "decided"
         /\ notes'[ClickedAction(s)].by = handler[s].by
         /\ notes'[ClickedAction(s)].decision = handler[s].decision
<1>1. handler[s].stage = "marking" /\ handler' = [handler EXCEPT ![s].stage = "recording"]
  BY DEF MarkDecided
<1>2. ClickedAction(s) \in Actions /\ notes[ClickedAction(s)] \in Note
  BY <1>1, HandledRow
<1>3. /\ notes'[ClickedAction(s)].status = "decided"
      /\ notes'[ClickedAction(s)].by = handler[s].by
      /\ notes'[ClickedAction(s)].decision = handler[s].decision
  BY <1>2 DEF MarkDecided, BaseInv, TypeOK, Note
<1> QED BY <1>1, <1>3, HandlerRow DEF HandlerState

LEMMA AdmittedStep ==
  ASSUME BaseInv, AdmittedInv, Step
  PROVE  AdmittedInv'
<1> SUFFICES ASSUME NEW s \in Services, handler'[s].stage = "admitted"
             PROVE  /\ Listed(config'[s], Clicked(s)'.user, Clicked(s)'.decision)
                    /\ messages'[Clicked(s)'.message].channel = config'[s].channel
  BY DEF AdmittedInv, Listed
<1>1. CASE handler'[s] = handler[s]
  BY <1>1, HandlingSame DEF AdmittedInv
<1>2. ASSUME NEW k \in Clicks, Receive(s, k)
      PROVE  /\ Listed(config'[s], Clicked(s)'.user, Clicked(s)'.decision)
             /\ messages'[Clicked(s)'.message].channel = config'[s].channel
  <2>1. handler'[s].click = k /\ Listed(config[s], clicks[k].user, clicks[k].decision)
    BY <1>2, ReceiveGoes
  <2> QED BY <1>2, <2>1 DEF Receive, Genuine, slack, Clicked
<1>3. ~DecideClick(s) /\ ~Reread(s) /\ ~MarkDecided(s) /\ handler'[s] # Free
  BY DecideClickAfter, RereadAfter, MarkDecidedAfter, FreeType
<1> QED BY <1>1, <1>2, <1>3 DEF Step, HandlerStep, HandlerCase

(* A decision that was taken stays taken.                                  *)
LEMMA TookKept ==
  ASSUME Step, NEW a, NEW decision, NEW by, Took(a, decision, by)
  PROVE  Took(a, decision, by)' /\ Told(a, decision) /\ Told(a, decision)'
BY DEF Step, Took, Told

LEMMA ToldKept ==
  ASSUME Step, NEW a, NEW decision, Told(a, decision)
  PROVE  Told(a, decision)'
BY DEF Step, Told

(* The decision that stands was taken.                                     *)
LEMMA StandingTook ==
  ASSUME BaseInv, StandingInv, NEW a \in Actions, NEW decision \in Decision,
         runtime[a].status = Target[decision]
  PROVE  Took(a, decision, runtime[a].by)
<1>1. Target[decision] \in {"approved", "rejected"}
  BY TargetType
<1>2. PICK d \in taken : d.action = a /\ d.by = runtime[a].by /\ Target[d.decision] = Target[decision]
  BY <1>1 DEF StandingInv
<1>3. d.decision \in Decision
  BY DEF BaseInv, TypeOK
<1>4. d.decision = decision
  BY <1>2, <1>3 DEF Decision, Target
<1> QED BY <1>2, <1>4 DEF Took

LEMMA MarkingStep ==
  ASSUME BaseInv, MarkingInv, StandingInv, Step
  PROVE  MarkingInv'
<1> SUFFICES ASSUME NEW s \in Services, handler'[s].stage = "marking"
             PROVE  /\ Took(ClickedAction(s), handler[s].decision, handler[s].by)'
                    /\ handler'[s].outcome \in {"approved", "rejected"} =>
                         handler'[s].decision = Clicked(s)'.decision
  BY DEF MarkingInv
<1>1. ASSUME NEW a, NEW decision, NEW by, a = ClickedAction(s)',
             decision = handler'[s].decision, by = handler'[s].by, Took(a, decision, by)'
      PROVE  Took(ClickedAction(s), handler[s].decision, handler[s].by)'
  BY <1>1 DEF Took
<1>2. CASE handler'[s] = handler[s]
  <2>1. Clicked(s)' = Clicked(s) /\ ClickedAction(s)' = ClickedAction(s)
    BY <1>2, HandlingSame
  <2>2. Took(ClickedAction(s), handler[s].decision, handler[s].by)
    BY <1>2 DEF MarkingInv
  <2>3. PICK a, decision, by : a = ClickedAction(s) /\ decision = handler[s].decision
                               /\ by = handler[s].by
    OBVIOUS
  <2>4. Took(a, decision, by)'
    BY <2>2, <2>3, TookKept
  <2> QED BY <1>1, <1>2, <2>1, <2>3, <2>4 DEF MarkingInv
<1>3. CASE DecideClick(s)
  <2>1. /\ handler[s].stage = "admitted" /\ handler'[s].click = handler[s].click
        /\ handler'[s].decision = Clicked(s).decision
        /\ \/ handler'[s].by = Chooser(s) /\ ClickDecides(s)
           \/ /\ UNCHANGED taken /\ handler'[s].by = runtime[ClickedAction(s)].by
              /\ runtime[ClickedAction(s)].status = Target[Clicked(s).decision]
    BY <1>3, DecideClickAfter
  <2>2. Clicked(s)' = Clicked(s) /\ ClickedAction(s)' = ClickedAction(s)
        /\ ClickedAction(s) \in Actions
    BY <2>1, HandlingSame
  <2>3. PICK a, decision, by : a = ClickedAction(s) /\ decision = Clicked(s).decision
                               /\ by = handler'[s].by
    OBVIOUS
  <2>4. CASE by = Chooser(s) /\ ClickDecides(s)
    <3>1. [action |-> a, decision |-> decision, by |-> by, click |-> handler[s].click] \in taken'
      BY <2>3, <2>4 DEF ClickDecides
    <3>2. Took(a, decision, by)'
      BY <3>1 DEF Took
    <3> QED BY <1>1, <2>1, <2>2, <2>3, <3>2
  <2>5. CASE by = runtime[a].by /\ runtime[a].status = Target[decision]
    <3>1. a \in Actions /\ decision \in Decision
      BY <2>1, <2>2, <2>3, ChooserType
    <3>2. Took(a, decision, by)
      BY <2>5, <3>1, StandingTook
    <3>3. Took(a, decision, by)'
      BY <3>2, TookKept
    <3> QED BY <1>1, <2>1, <2>2, <2>3, <3>3
  <2> QED BY <2>1, <2>3, <2>4, <2>5
<1>4. CASE Reread(s)
  <2>1. /\ handler[s].stage = "raised" /\ handler'[s].click = handler[s].click
        /\ handler'[s].outcome = "stale" /\ handler'[s].by = runtime[ClickedAction(s)].by
        /\ handler'[s].decision \in Decision
        /\ runtime[ClickedAction(s)].status = Target[handler'[s].decision]
    BY <1>4, RereadAfter
  <2>2. ClickedAction(s)' = ClickedAction(s) /\ ClickedAction(s) \in Actions
    BY <2>1, HandlingSame
  <2>3. PICK a, decision, by :
          /\ a \in Actions /\ decision \in Decision
          /\ a = ClickedAction(s) /\ decision = handler'[s].decision /\ by = runtime[a].by
    BY <2>1, <2>2
  <2>4. Took(a, decision, by)
    BY <2>1, <2>3, StandingTook
  <2>5. Took(a, decision, by)'
    BY <2>4, TookKept
  <2> QED BY <1>1, <2>1, <2>2, <2>3, <2>5
<1>5. /\ ~MarkDecided(s) /\ handler'[s] # Free
      /\ \A k \in Clicks : ~Receive(s, k)
  BY MarkDecidedAfter, FreeType, ReceiveGoes
<1> QED BY <1>2, <1>3, <1>4, <1>5 DEF Step, HandlerStep, HandlerCase

LEMMA RecordingStep ==
  ASSUME BaseInv, RecordingInv, MarkingInv, Step
  PROVE  RecordingInv'
<1> SUFFICES ASSUME NEW s \in Services, handler'[s].stage = "recording",
                    handler'[s].outcome \in {"approved", "rejected"}
             PROVE  /\ notes'[ClickedAction(s)'].status = "decided"
                    /\ Told(ClickedAction(s), Clicked(s).decision)'
  BY DEF RecordingInv
<1>1. ASSUME NEW a, NEW decision, a = ClickedAction(s)', decision = Clicked(s)'.decision,
             Told(a, decision)'
      PROVE  Told(ClickedAction(s), Clicked(s).decision)'
  BY <1>1 DEF Told
<1>2. CASE handler'[s] = handler[s]
  <2>1. /\ Clicked(s)' = Clicked(s) /\ ClickedAction(s)' = ClickedAction(s)
        /\ ClickedAction(s) \in Actions /\ notes[ClickedAction(s)] \in Note
    BY <1>2, HandlingSame
  <2>2. /\ notes[ClickedAction(s)].status = "decided"
        /\ Told(ClickedAction(s), Clicked(s).decision)
    BY <1>2 DEF RecordingInv
  <2>3. PICK a, decision : a = ClickedAction(s) /\ decision = Clicked(s).decision
    OBVIOUS
  <2>4. Told(a, decision)'
    BY <2>2, <2>3, ToldKept
  <2>5. notes'[ClickedAction(s)].status = "decided"
    BY <2>1, <2>2, NoteAssumption DEF Step, NotesStep, RowStep, Kept
  <2> QED BY <1>1, <2>1, <2>3, <2>4, <2>5
<1>3. CASE MarkDecided(s)
  <2>1. /\ handler[s].stage = "marking" /\ handler'[s].click = handler[s].click
        /\ handler'[s].outcome = handler[s].outcome
        /\ notes'[ClickedAction(s)].status = "decided"
    BY <1>3, MarkDecidedAfter
  <2>2. Clicked(s)' = Clicked(s) /\ ClickedAction(s)' = ClickedAction(s)
    BY <2>1, HandlingSame
  <2>3. PICK a, decision, by : /\ a = ClickedAction(s) /\ decision = handler[s].decision
                               /\ by = handler[s].by
    OBVIOUS
  <2>4. Took(a, decision, by) /\ decision = Clicked(s).decision
    BY <2>1, <2>3 DEF MarkingInv
  <2>5. Told(a, decision)'
    BY <2>4, TookKept
  <2> QED BY <1>1, <2>1, <2>2, <2>3, <2>4, <2>5
<1>4. /\ ~DecideClick(s) /\ ~Reread(s) /\ handler'[s] # Free
      /\ \A k \in Clicks : ~Receive(s, k)
  <2>1. Free.stage = "free"
    BY FreeType
  <2> QED BY <2>1, DecideClickAfter, RereadAfter, ReceiveGoes
<1> QED BY <1>2, <1>3, <1>4 DEF Step, HandlerStep, HandlerCase

-------------------------------------------------------------------------------
(* What was decided.                                                       *)

LEMMA DecidesStands ==
  ASSUME BaseInv, StandingInv, Step, NEW a \in Actions, NEW decision \in Decision,
         NEW auth \in Authorization, NEW click, Decides(a, decision, auth, click)
  PROVE  StandingInv'
<1>1. Moved(a, Target[decision], auth)
  BY DecideKeeps DEF Decides, BaseInv
<1> SUFFICES ASSUME NEW b \in Actions, runtime'[b].status \in {"approved", "rejected"}
             PROVE  \E d \in taken' : /\ d.action = b /\ d.by = runtime'[b].by
                                      /\ Target[d.decision] = runtime'[b].status
  BY DEF StandingInv
<1>2. /\ runtime'[b].status = IF b = a THEN Target[decision] ELSE runtime[b].status
      /\ runtime'[b].by = IF b = a THEN auth ELSE runtime[b].by
  BY <1>1, MovedRow
<1>3. CASE b = a
  <2> DEFINE d == [action |-> a, decision |-> decision, by |-> auth, click |-> click]
  <2>1. d \in taken' /\ d.action = a /\ d.decision = decision /\ d.by = auth
    BY DEF Decides
  <2> HIDE DEF d
  <2> QED BY <1>2, <1>3, <2>1
<1>4. CASE b # a
  BY <1>2, <1>4 DEF StandingInv, Step
<1> QED BY <1>3, <1>4

(* Who takes the decision of a step, and how.                              *)
LEMMA DeciderOf ==
  ASSUME BaseInv, NEW s \in Services, handler[s].stage = "admitted"
  PROVE  /\ ClickedAction(s) \in Actions /\ Clicked(s).decision \in Decision
         /\ Chooser(s) \in Authorization /\ handler[s].click \in Clicks
BY HandledRow, ChooserType

LEMMA StandingStep ==
  ASSUME BaseInv, StandingInv, Step
  PROVE  StandingInv'
<1>1. CASE UNCHANGED <<lifecycleVars, taken>>
  BY <1>1 DEF lifecycleVars, StandingInv
<1>2. CASE Lifecycle /\ UNCHANGED taken
  <2>1. PICK a \in Actions : LifecycleMoved(a)
    BY <1>2, LifecycleKeeps DEF BaseInv
  <2>2. ASSUME NEW b \in Actions, runtime'[b].status \in {"approved", "rejected"}
        PROVE  runtime'[b].status = runtime[b].status /\ runtime'[b].by = runtime[b].by
    BY <2>1, <2>2, MovedRow, SameRow DEF LifecycleMoved
  <2> QED BY <1>2, <2>2 DEF StandingInv
<1>3. ASSUME NEW s \in Services, handler[s].stage = "admitted",
             Decides(ClickedAction(s), Clicked(s).decision, Chooser(s), handler[s].click)
      PROVE  StandingInv'
  BY <1>3, DeciderOf, DecidesStands
<1>4. ASSUME NEW a \in Actions, NEW decision \in Decision, NEW auth \in Others,
             Decides(a, decision, auth, NoClick)
      PROVE  StandingInv'
  <2>1. auth \in Authorization
    BY SlackAssumption
  <2> QED BY <1>4, <2>1, DecidesStands
<1> QED BY <1>1, <1>2, <1>3, <1>4 DEF Step, TakenCase

LEMMA FromClickKept ==
  ASSUME BaseInv, Step, NEW d, d.click \in Clicks, FromClick(d)
  PROVE  FromClick(d)'
<1> DEFINE k == d.click
<1>1. /\ Made(k)' /\ Bound(k)' /\ clicks'[k] = clicks[k]
      /\ messages'[clicks[k].message].action = messages[clicks[k].message].action
      /\ messages'[clicks[k].message].channel = messages[clicks[k].message].channel
  BY BoundKept DEF FromClick, Step
<1> QED BY <1>1 DEF FromClick

(* An admitted click that decides is the origin of its decision.           *)
LEMMA ClickIsOrigin ==
  ASSUME BaseInv, AdmittedInv, NEW s \in Services, handler[s].stage = "admitted", NEW d,
         d = [action |-> ClickedAction(s), decision |-> Clicked(s).decision,
              by |-> Chooser(s), click |-> handler[s].click]
  PROVE  FromClick(d)
<1>1. /\ d.action = ClickedAction(s) /\ d.decision = Clicked(s).decision
      /\ d.by = Chooser(s) /\ d.click = handler[s].click
  OBVIOUS
<1>2. Made(d.click) /\ Bound(d.click)
  BY <1>1 DEF BaseInv, HandlerInv
<1>3. config[s] \in Deployed
  <2>1. config[s] \in Configs[s]
    BY ChooserType
  <2> QED BY <2>1 DEF Deployed
<1>4. /\ Listed(config[s], Clicked(s).user, Clicked(s).decision)
      /\ messages[Clicked(s).message].channel = config[s].channel
  BY DEF AdmittedInv
<1> QED BY <1>1, <1>2, <1>3, <1>4 DEF FromClick, Clicked, ClickedAction, Chooser, Listed

LEMMA TakenStep ==
  ASSUME BaseInv, AdmittedInv, TakenInv, Step
  PROVE  TakenInv'
<1>1. ASSUME NEW d \in taken, d.click # NoClick PROVE FromClick(d)'
  <2>1. d.click \in Clicks
    BY <1>1 DEF BaseInv, TypeOK
  <2> QED BY <1>1, <2>1, FromClickKept DEF TakenInv
<1>2. CASE taken' = taken
  BY <1>1, <1>2 DEF TakenInv
<1>3. ASSUME NEW s \in Services, handler[s].stage = "admitted",
             Decides(ClickedAction(s), Clicked(s).decision, Chooser(s), handler[s].click)
      PROVE  TakenInv'
  <2>1. PICK d : d = [action |-> ClickedAction(s), decision |-> Clicked(s).decision,
                      by |-> Chooser(s), click |-> handler[s].click]
    OBVIOUS
  <2>2. taken' = taken \cup {d} /\ d.click = handler[s].click
    BY <1>3, <2>1 DEF Decides
  <2>3. FromClick(d)'
    BY <1>3, <2>1, <2>2, DeciderOf, ClickIsOrigin, FromClickKept
  <2> QED BY <1>1, <2>2, <2>3 DEF TakenInv
<1>4. ASSUME NEW a \in Actions, NEW decision \in Decision, NEW auth \in Others,
             Decides(a, decision, auth, NoClick)
      PROVE  TakenInv'
  <2>1. PICK d : d = [action |-> a, decision |-> decision, by |-> auth, click |-> NoClick]
    OBVIOUS
  <2>2. taken' = taken \cup {d} /\ d.click = NoClick
    BY <1>4, <2>1 DEF Decides
  <2> QED BY <1>1, <2>2 DEF TakenInv
<1> QED BY <1>2, <1>3, <1>4 DEF Step, TakenCase

-------------------------------------------------------------------------------
(* What was written is true.                                               *)

LEMMA RowsAreTrue ==
  ASSUME BaseInv, MarkingInv, MarksInv, Step, NEW a \in Actions, notes'[a] # NoNote,
         notes'[a].status = "decided"
  PROVE  Took(a, notes[a].decision, notes[a].by)'
<1>1. CASE notes'[a] = notes[a]
  <2>1. PICK decision, by : /\ decision = notes[a].decision /\ by = notes[a].by
                            /\ Took(a, decision, by)
    BY <1>1 DEF MarksInv
  <2>2. Took(a, decision, by)'
    BY <2>1, TookKept
  <2> QED BY <1>1, <2>1, <2>2 DEF Took
<1>2. ASSUME NEW s \in Services, MarkDecided(s), a = ClickedAction(s)
      PROVE  Took(a, notes[a].decision, notes[a].by)'
  <2>1. /\ handler[s].stage = "marking" /\ notes'[a].by = handler[s].by
        /\ notes'[a].decision = handler[s].decision
    BY <1>2, MarkDecidedAfter
  <2>2. PICK decision, by : /\ decision = handler[s].decision /\ by = handler[s].by
                            /\ Took(a, decision, by)
    BY <1>2, <2>1 DEF MarkingInv
  <2>3. Took(a, decision, by)'
    BY <2>2, TookKept
  <2> QED BY <2>1, <2>2, <2>3 DEF Took
<1> QED BY <1>1, <1>2 DEF Step, NotesStep, RowStep

(* What a record says of click k.                                          *)
RecordTrue(k) ==
  LET a == messages[clicks[k].message].action IN
  Made(k) /\ notes[a] # NoNote /\ notes[a].status = "decided" /\ Told(a, clicks[k].decision)

LEMMA RecordKept ==
  ASSUME BaseInv, Step, NEW k \in Clicks, RecordTrue(k)
  PROVE  RecordTrue(k)'
<1>1. /\ Made(k) /\ clicks'[k] = clicks[k] /\ clicks[k].message \in 1..Len(messages)
  BY DEF RecordTrue, Step, ClicksStep, BaseInv, ClickInv
<1>2. PICK a, decision :
        /\ a = messages[clicks[k].message].action /\ decision = clicks[k].decision
        /\ notes[a] # NoNote /\ notes[a].status = "decided" /\ Told(a, decision)
  BY DEF RecordTrue
<1>3. a \in Actions
  <2>1. messages[clicks[k].message] \in Message
    BY <1>1, ElementOfSeq DEF BaseInv, TypeOK
  <2> QED BY <1>2, <2>1 DEF Message
<1>4. messages'[clicks[k].message].action = a
  BY <1>1, <1>2 DEF Step, MessagesStep
<1>5. notes'[a] # NoNote /\ notes'[a].status = "decided"
  BY <1>2, <1>3 DEF Step, NotesStep, RowStep, Kept
<1>6. Told(a, decision)'
  BY <1>2, ToldKept
<1>7. Made(k)'
  BY <1>1 DEF Made
<1> QED BY <1>1, <1>2, <1>4, <1>5, <1>6, <1>7 DEF RecordTrue, Told

LEMMA MarksStep ==
  ASSUME BaseInv, MarkingInv, RecordingInv, MarksInv, Step, RecordedFrame
  PROVE  MarksInv'
<1>1. ASSUME NEW k \in Clicks, recorded'[k] \in {"approved", "rejected"}
      PROVE  RecordTrue(k)'
  <2>1. CASE recorded'[k] = recorded[k]
    <3>1. RecordTrue(k)
      BY <1>1, <2>1 DEF MarksInv, RecordTrue
    <3> QED BY <3>1, RecordKept
  <2>2. ASSUME NEW s \in Services, RecordInteraction(s), recorded'[k] # recorded[k]
        PROVE  RecordTrue(k)'
    <3>1. handler[s].stage = "recording" /\ k = handler[s].click
          /\ recorded'[k] = handler[s].outcome
      BY <2>2 DEF RecordInteraction, BaseInv, TypeOK
    <3>2. /\ notes[ClickedAction(s)].status = "decided"
          /\ Told(ClickedAction(s), Clicked(s).decision)
      BY <1>1, <3>1 DEF RecordingInv
    <3>3. Made(k) /\ notes[ClickedAction(s)] # NoNote
      BY <3>1, HandledRow, NoteAssumption DEF BaseInv, HandlerInv
    <3>4. RecordTrue(k)
      BY <3>1, <3>2, <3>3 DEF RecordTrue, ClickedAction, Clicked
    <3> QED BY <3>4, RecordKept
  <2> QED BY <2>1, <2>2 DEF RecordedFrame
<1> QED BY <1>1, RowsAreTrue DEF MarksInv, RecordTrue

LEMMA SlackInvInit == Init => SlackInv
<1> SUFFICES ASSUME Init PROVE SlackInv
  OBVIOUS
<1>1. BaseInv
  BY BaseInit
<1>2. AdmittedInv /\ MarkingInv /\ RecordingInv
  BY FreeType DEF Init, AdmittedInv, MarkingInv, RecordingInv
<1>3. StandingInv
  BY DEF Init, LifecycleInit, StandingInv
<1>4. TakenInv /\ MarksInv
  BY DEF Init, TakenInv, MarksInv
<1> QED BY <1>1, <1>2, <1>3, <1>4 DEF SlackInv, TruthInv

LEMMA SlackInvStep == SlackInv /\ [Next]_vars => SlackInv'
<1> SUFFICES ASSUME SlackInv, [Next]_vars PROVE SlackInv'
  OBVIOUS
<1>1. BaseInv /\ Step /\ RecordedFrame
  BY StepParts DEF SlackInv, Frames
<1>2. BaseInv'
  BY <1>1, BaseStep
<1>3. AdmittedInv' /\ MarkingInv' /\ RecordingInv' /\ StandingInv'
  BY <1>1, AdmittedStep, MarkingStep, RecordingStep, StandingStep DEF SlackInv, TruthInv
<1>4. TakenInv' /\ MarksInv'
  BY <1>1, TakenStep, MarksStep DEF SlackInv, TruthInv
<1> QED BY <1>2, <1>3, <1>4 DEF SlackInv, TruthInv

LEMMA SlackInvariant == Spec => []SlackInv
BY SlackInvInit, SlackInvStep, PTL DEF Spec

(* DecisionsFromBoundMessage: SlackInteractionService.handle takes a       *)
(* decision only from a click on the one message the action's row is bound *)
(* to, by a user a deployed configuration lists for this decision.         *)
THEOREM DecisionsComeFromClicks == Spec => []DecisionsFromBoundMessage
<1>1. SlackInv => DecisionsFromBoundMessage
  <2> SUFFICES ASSUME SlackInv, NEW d \in taken, d.click # NoClick
               PROVE  LET click == clicks[d.click]
                          n == notes[d.action] IN
                      /\ click.decision = d.decision
                      /\ n # NoNote /\ n.ts = click.message /\ n.status \in {"posted", "decided"}
                      /\ messages[n.ts].action = d.action
                      /\ \E c \in Deployed :
                           /\ c.channel = n.channel
                           /\ d.by = Auth(c, click.user)
                           /\ d.decision \in c.reviewer[click.user].decisions
    BY DEF DecisionsFromBoundMessage
  <2>1. FromClick(d)
    BY DEF SlackInv, TruthInv, TakenInv
  <2> QED BY <2>1 DEF FromClick, Bound
<1> QED BY <1>1, SlackInvariant, PTL

(* MarksAreTrue: mark_decided and record_interaction write down decisions  *)
(* that were taken, whatever was crashed, overtaken or delivered twice     *)
(* between the decision and the record.                                    *)
THEOREM MarksStayTrue == Spec => []MarksAreTrue
<1>1. SlackInv => MarksAreTrue
  BY DEF SlackInv, TruthInv, MarksInv, MarksAreTrue, Took
<1> QED BY <1>1, SlackInvariant, PTL

(* BindingKept (docs/slack.md): no worker, retry, restart or click moves   *)
(* the row of a posted or decided action to another message, or any row to *)
(* another channel.                                                        *)
THEOREM BindingsAreKept == Spec => BindingKept
<1>1. BaseInv /\ [Next]_vars =>
        [\A a \in Actions : notes[a] # NoNote =>
           /\ notes'[a] # NoNote /\ notes'[a].channel = notes[a].channel
           /\ notes[a].status \in {"posted", "decided"} =>
                /\ notes'[a].status \in {notes[a].status, "decided"}
                /\ notes'[a].ts = notes[a].ts]_vars
  BY StepParts DEF Step, NotesStep, RowStep, Kept
<1> QED BY <1>1, SlackBase, PTL DEF Spec, BindingKept

-------------------------------------------------------------------------------
(* The promise of ApprovalGate, step by step.                              *)


LEMMA GateMoves ==
  ASSUME BaseInv, NEW a \in Actions, LifecycleMoved(a)
  PROVE  [Gate!Next]_(Gate!vars)
<1>1. Statuses[a] = runtime[a].status /\ Deciders[a] = runtime[a].by
  BY DEF Statuses, Deciders
<1>2. ASSUME NEW to, Moved(a, to, runtime[a].by)
      PROVE  /\ Requested' = Requested /\ Deciders' = Deciders
             /\ Statuses' = [Statuses EXCEPT ![a] = to]
  BY <1>2 DEF Moved, Deciders
<1>3. CASE Moved(a, "pending", runtime[a].by) /\ runtime[a].status = "absent"
  <2>1. Gate!Ask(a)
    BY <1>1, <1>2, <1>3 DEF Gate!Ask, Gate!Move, Statuses, Deciders
  <2> QED BY <1>2, <1>3, <2>1 DEF Gate!Next, Requested
<1>4. CASE Moved(a, "expired", runtime[a].by) /\ runtime[a].status \in {"pending", "approved"}
  <2>1. Gate!Lapse(a)
    BY <1>1, <1>2, <1>4 DEF Gate!Lapse, Gate!Move, Statuses, Deciders
  <2> QED BY <1>2, <1>4, <2>1 DEF Gate!Next, Requested
<1>5. CASE Moved(a, "used", runtime[a].by) /\ runtime[a].status = "approved"
  <2>1. Gate!Use(a)
    BY <1>1, <1>2, <1>5 DEF Gate!Use, Gate!Move, Statuses, Deciders
  <2> QED BY <1>2, <1>5, <2>1 DEF Gate!Next, Requested
<1>6. CASE Moved(a, "pending", NoOne) /\ runtime[a].status = "used"
  <2>1. Gate!AskAgain(a)
    BY <1>1, <1>6 DEF Gate!AskAgain, Moved, Statuses, Deciders
  <2> QED BY <1>6, <2>1 DEF Gate!Next, Requested, Moved
<1>7. CASE Requested' = Requested /\ Statuses' = Statuses /\ Deciders' = Deciders
  BY <1>7 DEF Gate!vars, Requested, Statuses, Deciders
<1> QED BY <1>3, <1>4, <1>5, <1>6, <1>7 DEF LifecycleMoved

LEMMA GateDecides ==
  ASSUME BaseInv, NEW a \in Actions, NEW decision \in Decision,
         NEW auth \in Reviewers, auth \in Authorization,
         auth.organization = "" => decision \in auth.decisions,
         Decide(a, decision, auth)
  PROVE  Gate!Next
<1>1. LifecycleInv /\ ~Forbidden(a, decision, auth)
  BY DEF BaseInv, Decide
<1>2. runtime[a].request \in Requests /\ May(runtime[a].request, decision, auth)
  BY <1>1, DecidedMay
<1>3. Moved(a, Target[decision], auth) /\ runtime[a].status = "pending"
  BY <1>1, DecideKeeps
<1> DEFINE p == <<runtime[a].request, decision, auth>>
<1>4. p \in Permitted /\ p[1] = runtime[a].request /\ p[2] = decision /\ p[3] = auth
  BY <1>2 DEF Permitted
<1>5. Gate!Decide(a, decision, auth)
  BY <1>3 DEF Gate!Decide, Moved, Statuses, Deciders
<1> HIDE DEF p
<1> QED BY <1>3, <1>4, <1>5 DEF Gate!Next, Moved, Requested

LEMMA GateStep == SlackInv /\ [Next]_vars => [Gate!Next]_(Gate!vars)
<1> SUFFICES ASSUME SlackInv, [Next]_vars PROVE [Gate!Next]_(Gate!vars)
  OBVIOUS
<1>1. BaseInv /\ AdmittedInv /\ TakenCase
  BY StepParts DEF SlackInv, TruthInv, Step
<1>2. CASE UNCHANGED <<lifecycleVars, taken>>
  BY <1>2 DEF lifecycleVars, Gate!vars
<1>3. CASE Lifecycle /\ UNCHANGED taken
  <2>1. PICK a \in Actions : LifecycleMoved(a)
    BY <1>1, <1>3, LifecycleKeeps DEF BaseInv
  <2> QED BY <1>1, <2>1, GateMoves
<1>4. ASSUME NEW s \in Services, handler[s].stage = "admitted",
             Decides(ClickedAction(s), Clicked(s).decision, Chooser(s), handler[s].click)
      PROVE  Gate!Next
  <2>1. /\ ClickedAction(s) \in Actions /\ Clicked(s).decision \in Decision
        /\ Chooser(s) \in Authorization
    BY <1>1, <1>4, DeciderOf
  <2>2. Chooser(s) \in Reviewers
    <3>1. config[s] \in Configs[s] /\ Clicked(s).user \in Users
      BY <1>1, <1>4, ChooserType
    <3> QED BY <3>1 DEF Reviewers, Deployed, Chooser
  <2>3. Clicked(s).decision \in Chooser(s).decisions
    BY <1>1, <1>4 DEF AdmittedInv, Listed, Chooser, Auth
  <2> QED BY <1>1, <1>4, <2>1, <2>2, <2>3, GateDecides DEF Decides
<1>5. ASSUME NEW a \in Actions, NEW decision \in Decision, NEW auth \in Others,
             Decides(a, decision, auth, NoClick)
      PROVE  Gate!Next
  <2>1. auth \in Authorization /\ (auth.organization = "" => auth.decisions = Decision)
    BY SlackAssumption
  <2>2. auth \in Reviewers
    BY DEF Reviewers
  <2> QED BY <1>1, <1>5, <2>1, <2>2, GateDecides DEF Decides
<1> QED BY <1>1, <1>2, <1>3, <1>4, <1>5 DEF TakenCase

(* KeepsGatePromise (SlackApprovals): with any number of services, clicks  *)
(* delivered twice or late and crashes between any two steps, decide and   *)
(* decide_authorized take one decision for each time an action is asked    *)
(* for, and only from somebody who may take it: the services implement     *)
(* ApprovalGate.                                                           *)
THEOREM SlackKeepsGatePromise == Spec => KeepsGatePromise
<1>1. Init => Gate!Init
  BY DEF Init, LifecycleInit, Gate!Init
<1> QED BY <1>1, SlackInvariant, GateStep, PTL DEF Spec, KeepsGatePromise, Gate!Spec
================================================================================
