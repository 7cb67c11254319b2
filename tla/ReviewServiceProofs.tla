-------------------------- MODULE ReviewServiceProofs --------------------------
(***************************************************************************)
(* Machine-checked facts about ReviewService for every value of its        *)
(* constants.                                                              *)
(***************************************************************************)
EXTENDS ReviewService, ApprovalLifecycleProofs, SequenceTheorems,
        FiniteSetTheorems, WellFoundedInduction

-------------------------------------------------------------------------------
(* The inductive invariant.                                                *)

(* The principals the documents know.                                      *)
Known == UNION {Principals(d) : d \in Documents}

CallState ==
  [stage : {"free", "deciding", "leaving", "polling"}, via : Process,
   principal : Principal \cup {NoPrincipal}, action : Actions \cup {NoAction},
   decision : Decision \cup {"none"}, answer : Answer, shown : SUBSET Actions,
   forms : SUBSET Decision]

(* A decision p may take on the request: the one an authorized form offers. *)
Entitled(p, request, decision) ==
  /\ "decide" \in p.scopes
  /\ p.organization # "" =>
       /\ CanAccess(p, request) /\ decision \in p.decisions
       /\ ~(p.separate /\ request.requester = p.subject)

(* Nothing in a request or in an answer is of another tenant, and what a   *)
(* body is awaited for has passed require_scope.                           *)
GoodCall(row) ==
  /\ row \in CallState /\ row.principal \in Known \cup {NoPrincipal}
  /\ row.stage = "deciding" =>
       /\ row.action \in Actions /\ row.decision \in Decision
       /\ row.principal \in Known /\ "decide" \in row.principal.scopes
  /\ \A a \in row.shown : CanAccess(row.principal, runtime[a].request)
  /\ row.answer \in {"forbidden", "conflict"} =>
       row.action \in Actions /\ CanAccess(row.principal, runtime[row.action].request)
  /\ row.forms # {} => row.action \in Actions
  /\ \A d \in row.forms : Entitled(row.principal, runtime[row.action].request, d)
  /\ row.answer = "forbidden" => row.decision \notin row.forms

CallInv == \A c \in Clients : GoodCall(call[c])

(* A browser that is leaving has a cookie; a session has a principal.      *)
SessionInv ==
  /\ \A c \in Browsers : call[c].stage = "leaving" => jar[c] # NoCookie
  /\ \A k \in Cookies : sessions[k].state = "live" => sessions[k].principal \in Known

RoomInv ==
  IsFiniteSet(Stored(sessions)) /\ Cardinality(Stored(sessions)) \leq MaxSessions

(* Every receipt is about an action of the list.                           *)
LogInv ==
  /\ Len(log) \leq MaxReceipts
  /\ \A n \in 1..Len(log) : Exists(log[n])

Before(a, b) ==
  \E i, j \in 1..Len(listed) : i < j /\ listed[i] = a /\ listed[j] = b

(* What matched all the time may be seen, and was given to the client or   *)
(* comes after its cursor.                                                 *)
GoodPaging(row) ==
  /\ row.token = NoToken => row.steady = {}
  /\ \A a \in row.steady : Exists(a) /\ Matches(a, row.status)
  /\ \A t \in document["api"].tokens, a \in row.steady :
       t.token = row.token => CanAccess(PrincipalOf(document["api"], t), runtime[a].request)
  /\ \A a \in row.steady \ row.got : ~row.done /\ Before(row.after, a)

PagingInv == \A c \in ApiClients : GoodPaging(paging[c])

(* p is whom the token stands for.                                         *)
TokenOf(token, p) ==
  \E t \in document["api"].tokens : t.token = token /\ p = PrincipalOf(document["api"], t)

GoodPolling(row) ==
  /\ row.after \leq Len(log) /\ (row.token = NoToken => row.after = 0)
  /\ \A t \in document["api"].tokens, n \in 1..row.after :
       /\ t.token = row.token /\ Wanted(row, n)
       /\ CanAccess(PrincipalOf(document["api"], t), runtime[log[n]].request)
       => n \in row.got \/ log[n] \in row.raced

PollingInv ==
  \A c \in ApiClients :
    /\ GoodPolling(polling[c])
    /\ call[c].stage = "polling" =>
         call[c].via = "api" /\ TokenOf(polling[c].token, call[c].principal)

ReviewInv ==
  /\ TypeOK /\ LifecycleInv /\ CallInv /\ SessionInv /\ RoomInv
  /\ LogInv /\ PagingInv /\ PollingInv

-------------------------------------------------------------------------------
(* Who the documents know.                                                 *)

LEMMA PrincipalType ==
  ASSUME NEW d \in Documents, NEW t \in d.tokens
  PROVE  PrincipalOf(d, t) \in Principal /\ PrincipalOf(d, t) \in Known
<1>1. d \in Document /\ ValidDocument(d)
  BY ReviewAssumption
<1>2. t \in Credential
  BY <1>1 DEF Document
<1>3. t.organization = "" => PrincipalOf(d, t) \in Principal
  <2> HAVE t.organization = ""
  <2>1. PrincipalOf(d, t) = Alone(t)
    BY DEF PrincipalOf
  <2>2. Alone(t) \in Principal
    BY <1>2 DEF Alone, Principal, Credential
  <2> QED BY <2>1, <2>2
<1>4. t.organization # "" => PrincipalOf(d, t) \in Principal
  <2> HAVE t.organization # ""
  <2>1. Version2(d)
    BY <1>1 DEF ValidDocument, Version1, ValidAlone
  <2>2. \E o \in d.organizations : o.id = t.organization
    BY <2>1 DEF Version2, ValidMember
  <2> DEFINE o == CHOOSE o \in d.organizations : o.id = t.organization
             scopes == UNION {r.scopes : r \in RolesOf(d, t)}
             decisions == UNION {r.decisions : r \in RolesOf(d, t)}
  <2>3. o \in d.organizations
    BY <2>2
  <2>4. o \in Organization
    BY <1>1, <2>3 DEF Document
  <2>5. scopes \in SUBSET Scope /\ decisions \in SUBSET Decision
    <3>1. RolesOf(d, t) \subseteq Role
      BY <1>1 DEF RolesOf, Document
    <3>2. \A r \in RolesOf(d, t) : r.scopes \subseteq Scope /\ r.decisions \subseteq Decision
      BY <3>1 DEF Role
    <3> QED BY <3>2
  <2>6. /\ o.id \in Organizations /\ o.namespaces \in SUBSET Namespaces
        /\ o.separate \in BOOLEAN
    BY <2>4 DEF Organization
  <2>7. t.subject \in Subjects
    BY <1>2 DEF Credential
  <2>8. ASSUME NEW sub \in Subjects, NEW s \in SUBSET Scope, NEW id \in Organizations,
               NEW n \in SUBSET Namespaces, NEW k \in SUBSET Decision, NEW e \in BOOLEAN
        PROVE  [subject |-> sub, scopes |-> s, organization |-> id, namespaces |-> n,
                decisions |-> k, separate |-> e] \in Principal
    BY DEF Principal
  <2>9. PrincipalOf(d, t) =
          [subject |-> t.subject, scopes |-> scopes, organization |-> o.id,
           namespaces |-> o.namespaces, decisions |-> decisions, separate |-> o.separate]
    BY DEF PrincipalOf
  <2> HIDE DEF o, scopes, decisions
  <2>10. [subject |-> t.subject, scopes |-> scopes, organization |-> o.id,
          namespaces |-> o.namespaces, decisions |-> decisions, separate |-> o.separate]
           \in Principal
    BY <2>5, <2>6, <2>7, <2>8
  <2> QED BY <2>9, <2>10
<1>5. PrincipalOf(d, t) \in Known
  BY DEF Known, Principals
<1> QED BY <1>3, <1>4, <1>5

LEMMA KnownType ==
  ASSUME NEW p \in Known
  PROVE  /\ p \in Principal /\ p # NoPrincipal
         /\ Auth(p) \in Authorization /\ Auth(p) \in Reviewers
<1>1. PICK d \in Documents : \E t \in d.tokens : p = PrincipalOf(d, t)
  BY DEF Known, Principals
<1>2. p \in Principal
  BY <1>1, PrincipalType
<1>3. Auth(p) \in Authorization
  BY <1>2, ReviewAssumption DEF Auth, Principal, Authorization
<1> QED BY <1>2, <1>3, ReviewAssumption DEF Reviewers, Known

(* A token stands for one principal.                                       *)
LEMMA OneToken ==
  ASSUME NEW d \in Documents, NEW t \in d.tokens, NEW u \in d.tokens, t.token = u.token
  PROVE  t = u
BY ReviewAssumption DEF ValidDocument

-------------------------------------------------------------------------------
(* Which steps change a variable.                                          *)

(* The decision of c is recorded.                                          *)
Records(c) ==
  /\ call[c].stage = "deciding"
  /\ Decide(call[c].action, call[c].decision, Auth(call[c].principal))
  /\ Receipt(call[c].action) /\ UNCHANGED listed

StoreFrame ==
  \/ UNCHANGED store
  \/ \E a \in Actions : Create(a) \/ Happen(a)
  \/ \E c \in Clients : Records(c)

Restarts == \E process \in Process, d \in Documents : Restart(process, d)

DocumentFrame == UNCHANGED document \/ Restarts

SessionsFrame ==
  \/ UNCHANGED sessions
  \/ \E k \in Cookies : SessionEnds(k)
  \/ \E c \in Browsers : (\E token \in Tokens : Login(c, token)) \/ SignInRequired(c) \/ Logout(c)
  \/ Restarts

JarFrame ==
  UNCHANGED jar \/ \E c \in Browsers : (\E token \in Tokens : Login(c, token)) \/ Logout(c)

CallFrame ==
  \/ UNCHANGED call
  \/ \E c \in ApiClients : Api(c)
  \/ \E c \in Browsers : Dashboard(c)
  \/ \E c \in Clients : Deciding(c)
  \/ Restarts

PagingFrame ==
  \/ UNCHANGED <<paging, lifecycleVars, listed, document>>
  \/ Watch /\ UNCHANGED document
  \/ \E c \in ApiClients, token \in Tokens, filter \in Filters : FirstPage(c, token, filter)
  \/ \E c \in ApiClients : NextPage(c)
  \/ Restarts

PollingFrame ==
  \/ UNCHANGED <<polling, document>>
  \/ \E c \in ApiClients, token \in Tokens, only \in Actions \cup {NoAction} : Poll(c, token, only)
  \/ \E c \in ApiClients : PollReceipts(c)
  \/ Restarts

CallsFrame == UNCHANGED calls \/ (calls < MaxCalls /\ calls' = calls + 1)

Frames == /\ StoreFrame /\ DocumentFrame /\ SessionsFrame /\ JarFrame /\ CallFrame
          /\ PagingFrame /\ PollingFrame /\ CallsFrame

LEMMA StepFrames == [Next]_vars => Frames
<1> SUFFICES ASSUME [Next]_vars PROVE Frames
  OBVIOUS
<1> USE DEF Frames, StoreFrame, DocumentFrame, SessionsFrame, JarFrame, CallFrame,
            PagingFrame, PollingFrame, CallsFrame, store, clientVars, lifecycleVars, Asks
<1>1. ASSUME NEW c \in ApiClients, Api(c) PROVE Frames
  <2>1. ASSUME NEW token \in Tokens, NEW scope \in Scope, Unauthorized(c, token, scope)
        PROVE  Frames
    BY <1>1, <2>1 DEF Unauthorized
  <2>2. ASSUME NEW token \in Tokens, NEW a \in Actions, Get(c, token, a) PROVE Frames
    BY <1>1, <2>2 DEF Get
  <2>3. ASSUME NEW token \in Tokens, NEW a \in Actions, NEW d \in Decision,
               ApiDecide(c, token, a, d)
        PROVE  Frames
    BY <1>1, <2>3 DEF ApiDecide
  <2>4. ASSUME NEW token \in Tokens, NEW filter \in Filters, FirstPage(c, token, filter)
        PROVE  Frames
    BY <1>1, <2>4 DEF FirstPage
  <2>5. ASSUME NEW token \in Tokens, NEW only \in Actions \cup {NoAction}, Poll(c, token, only)
        PROVE  Frames
    BY <1>1, <2>5 DEF Poll
  <2>6. CASE NextPage(c)
    BY <1>1, <2>6 DEF NextPage
  <2>7. CASE PollReceipts(c)
    BY <1>1, <2>7 DEF PollReceipts
  <2> QED BY <1>1, <2>1, <2>2, <2>3, <2>4, <2>5, <2>6, <2>7 DEF Api
<1>2. ASSUME NEW c \in Browsers, Dashboard(c) PROVE Frames
  <2>1. ASSUME NEW token \in Tokens, Login(c, token) PROVE Frames
    BY <1>2, <2>1 DEF Login
  <2>2. ASSUME NEW filter \in Filters, Index(c, filter) PROVE Frames
    BY <1>2, <2>2 DEF Index
  <2>3. ASSUME NEW a \in Actions, Detail(c, a) PROVE Frames
    BY <1>2, <2>3 DEF Detail
  <2>4. ASSUME NEW a \in Actions, NEW d \in Decision, DashboardDecide(c, a, d) PROVE Frames
    BY <1>2, <2>4 DEF DashboardDecide
  <2>5. CASE SignInRequired(c)
    BY <1>2, <2>5 DEF SignInRequired
  <2>6. CASE Logout(c)
    BY <1>2, <2>6 DEF Logout
  <2> QED BY <1>2, <2>1, <2>2, <2>3, <2>4, <2>5, <2>6 DEF Dashboard
<1>3. ASSUME NEW c \in Clients, Deciding(c) PROVE Frames
  <2>1. UNCHANGED <<listed, document, sessions, jar, polling, calls>>
    BY <1>3 DEF Deciding
  <2>2. \/ Records(c) /\ Watch
        \/ UNCHANGED <<lifecycleVars, log, paging>>
    BY <1>3, <2>1 DEF Deciding, Records
  <2> QED BY <1>3, <2>1, <2>2
<1>4. ASSUME NEW k \in Cookies, SessionEnds(k) PROVE Frames
  BY <1>4 DEF SessionEnds
<1>5. ASSUME NEW a \in Actions, Create(a) \/ Happen(a) PROVE Frames
  BY <1>5 DEF Create, Happen, Untouched
<1>6. CASE Restarts
  BY <1>6 DEF Restarts, Restart
<1>7. CASE UNCHANGED vars
  BY <1>7 DEF vars
<1> QED BY <1>1, <1>2, <1>3, <1>4, <1>5, <1>6, <1>7 DEF Next, Restarts

-------------------------------------------------------------------------------
(* The actions and the receipts.                                           *)

RuntimeStep ==
  /\ LifecycleInv'
  /\ \A a \in Actions : /\ runtime'[a].request = runtime[a].request
                        /\ Exists(a) => runtime'[a].status # "absent"

LEMMA MovedStep ==
  ASSUME LifecycleInv', NEW a \in Actions, NEW to, NEW by, Moved(a, to, by), to # "absent"
  PROVE  RuntimeStep
BY MovedRow DEF RuntimeStep, Exists

LEMMA CallRow ==
  ASSUME ReviewInv, NEW c \in Clients
  PROVE  GoodCall(call[c]) /\ call[c] \in CallState
BY DEF ReviewInv, CallInv, GoodCall

LEMMA RecordsMoves ==
  ASSUME ReviewInv, NEW c \in Clients, Records(c)
  PROVE  /\ call[c].action \in Actions /\ call[c].decision \in Decision
         /\ call[c].principal \in Known /\ "decide" \in call[c].principal.scopes
         /\ LifecycleInv'
         /\ Moved(call[c].action, Target[call[c].decision], Auth(call[c].principal))
         /\ runtime[call[c].action].status = "pending"
<1>1. /\ call[c].action \in Actions /\ call[c].decision \in Decision
      /\ call[c].principal \in Known /\ "decide" \in call[c].principal.scopes
  BY CallRow DEF Records, GoodCall
<1>2. Auth(call[c].principal) \in Authorization
  BY <1>1, KnownType
<1> QED BY <1>1, <1>2, DecideKeeps DEF Records, ReviewInv

(* What a step of the store does to the actions.                           *)
LEMMA HappenMoves ==
  ASSUME ReviewInv, NEW a \in Actions, Happen(a)
  PROVE  LifecycleInv' /\ LifecycleMoved(a) /\ runtime[a].status # "absent"
         /\ \E to, by : to # "absent" /\ Moved(a, to, by)
<1>1. LifecycleInv
  BY DEF ReviewInv
<1>2. CASE LapseAtOnce(a)
  BY <1>1, <1>2, LapseAtOnceKeeps DEF LifecycleMoved
<1>3. CASE Use(a)
  BY <1>1, <1>3, UseKeeps DEF LifecycleMoved
<1>4. CASE Reopen(a)
  BY <1>1, <1>4, ReopenKeeps DEF LifecycleMoved
<1> QED BY <1>2, <1>3, <1>4 DEF Happen

LEMMA CreateMoves ==
  ASSUME ReviewInv, NEW a \in Actions, Create(a)
  PROVE  LifecycleInv' /\ LifecycleMoved(a) /\ runtime[a].status = "absent"
         /\ Moved(a, "pending", runtime[a].by)
BY SubmitKeeps DEF Create, LifecycleMoved, ReviewInv

LEMMA RuntimeKept ==
  ASSUME ReviewInv, StoreFrame
  PROVE  RuntimeStep
<1>1. CASE UNCHANGED store
  BY <1>1, LifecycleSame DEF store, lifecycleVars, RuntimeStep, Exists, ReviewInv
<1>2. ASSUME NEW a \in Actions, Create(a) PROVE RuntimeStep
  BY <1>2, CreateMoves, MovedStep
<1>3. ASSUME NEW a \in Actions, Happen(a) PROVE RuntimeStep
  BY <1>3, HappenMoves, MovedStep
<1>4. ASSUME NEW c \in Clients, Records(c) PROVE RuntimeStep
  <2>1. /\ call[c].action \in Actions /\ call[c].decision \in Decision /\ LifecycleInv'
        /\ Moved(call[c].action, Target[call[c].decision], Auth(call[c].principal))
    BY <1>4, RecordsMoves
  <2> QED BY <2>1, TargetType, MovedStep
<1> QED BY <1>1, <1>2, <1>3, <1>4 DEF StoreFrame

LEMMA InsertAtProperties ==
  ASSUME NEW S, NEW s \in Seq(S), NEW i \in 1..Len(s) + 1, NEW e \in S
  PROVE  /\ InsertAt(s, i, e) \in Seq(S) /\ Len(InsertAt(s, i, e)) = Len(s) + 1
         /\ \A j \in 1..Len(s) + 1 :
              InsertAt(s, i, e)[j] = IF j < i THEN s[j] ELSE IF j = i THEN e ELSE s[j - 1]
<1> DEFINE n == Len(s)
           left == SubSeq(s, 1, i - 1)
           right == SubSeq(s, i, n)
           middle == left \o <<e>>
<1>1. /\ n \in Nat /\ i \in Int /\ i - 1 \in Int /\ 1 <= i /\ i <= n + 1
      /\ \A j \in 1..n : s[j] \in S
  BY LenProperties, ElementOfSeq
<1>2. /\ left \in Seq(S) /\ Len(left) = i - 1
      /\ \A j \in 1..i - 1 : left[j] = s[j]
  <2>1. \A j \in 1..i - 1 : s[j] \in S
    BY <1>1
  <2>2. /\ left \in Seq(S) /\ Len(left) = IF 1 <= i - 1 THEN (i - 1) - 1 + 1 ELSE 0
        /\ \A j \in 1..(i - 1) - 1 + 1 : left[j] = s[1 + j - 1]
    BY <1>1, <2>1, SubSeqProperties
  <2> HIDE DEF left
  <2>3. Len(left) = i - 1 /\ (i - 1) - 1 + 1 = i - 1 /\ \A j \in Int : 1 + j - 1 = j
    BY <1>1, <2>2
  <2> QED BY <2>2, <2>3
<1>3. /\ right \in Seq(S) /\ Len(right) = n - i + 1
      /\ \A j \in 1..n - i + 1 : right[j] = s[i + j - 1]
  <2>1. \A j \in i..n : s[j] \in S
    BY <1>1
  <2>2. /\ right \in Seq(S) /\ Len(right) = IF i <= n THEN n - i + 1 ELSE 0
        /\ \A j \in 1..n - i + 1 : right[j] = s[i + j - 1]
    BY <1>1, <2>1, SubSeqProperties
  <2> HIDE DEF right
  <2>3. Len(right) = n - i + 1
    BY <1>1, <2>2
  <2> QED BY <2>2, <2>3
<1>4. <<e>> \in Seq(S) /\ Len(<<e>>) = 1 /\ <<e>>[1] = e
  OBVIOUS
<1> HIDE DEF left, right
<1>5. /\ middle \in Seq(S) /\ Len(middle) = i
      /\ \A j \in 1..i : middle[j] = IF j <= i - 1 THEN left[j] ELSE <<e>>[j - (i - 1)]
  <2>1. /\ middle \in Seq(S) /\ Len(middle) = Len(left) + Len(<<e>>)
        /\ \A j \in 1..Len(left) + Len(<<e>>) : middle[j] =
             IF j <= Len(left) THEN left[j] ELSE <<e>>[j - Len(left)]
    BY <1>2, <1>4, ConcatProperties
  <2> QED BY <1>1, <1>2, <1>4, <2>1
<1>6. \A j \in 1..i : middle[j] = IF j < i THEN s[j] ELSE e
  BY <1>1, <1>2, <1>4, <1>5
<1> HIDE DEF middle
<1>7. /\ middle \o right \in Seq(S) /\ Len(middle \o right) = n + 1
      /\ \A j \in 1..n + 1 : (middle \o right)[j] = IF j <= i THEN middle[j] ELSE right[j - i]
  <2>1. /\ middle \o right \in Seq(S) /\ Len(middle \o right) = Len(middle) + Len(right)
        /\ \A j \in 1..Len(middle) + Len(right) : (middle \o right)[j] =
             IF j <= Len(middle) THEN middle[j] ELSE right[j - Len(middle)]
    BY <1>3, <1>5, ConcatProperties
  <2>2. Len(middle) + Len(right) = n + 1
    BY <1>1, <1>3, <1>5
  <2> QED BY <1>5, <2>1, <2>2
<1>8. InsertAt(s, i, e) = middle \o right
  BY DEF InsertAt, middle, left, right
<1>9. ASSUME NEW j \in 1..n + 1
      PROVE  (middle \o right)[j] =
               IF j < i THEN s[j] ELSE IF j = i THEN e ELSE s[j - 1]
  <2>1. CASE j <= i
    BY <1>1, <1>6, <1>7, <2>1
  <2>2. CASE j > i
    <3>1. j - i \in 1..n - i + 1 /\ i + (j - i) - 1 = j - 1
      BY <1>1, <2>2
    <3>2. (middle \o right)[j] = right[j - i]
      BY <1>1, <1>7, <2>2
    <3>3. right[j - i] = s[j - 1]
      BY <1>3, <3>1
    <3> QED BY <1>1, <2>2, <3>2, <3>3
  <2>3. j <= i \/ j > i
    BY <1>1
  <2> QED BY <2>1, <2>2, <2>3
<1> QED BY <1>7, <1>8, <1>9

(* The list and the order in it.                                           *)
ListStep ==
  /\ listed' \in Seq(Actions) /\ IsInjective(listed')
  /\ ToSet(listed') = {a \in Actions : runtime'[a].status # "absent"}
  /\ \A a, b : Before(a, b) => Before(a, b)'

LEMMA InListed ==
  ASSUME NEW S, NEW s \in Seq(S)
  PROVE  /\ ToSet(s) = {s[i] : i \in 1..Len(s)}
         /\ IsInjective(s) <=> \A i, j \in 1..Len(s) : s[i] = s[j] => i = j
BY LenProperties DEF ToSet, IsInjective

LEMMA CreateList ==
  ASSUME ReviewInv, NEW a \in Actions, Create(a)
  PROVE  ListStep
<1>1. /\ listed \in Seq(Actions) /\ Len(listed) \in Nat
      /\ \A i, j \in 1..Len(listed) : listed[i] = listed[j] => i = j
      /\ {listed[i] : i \in 1..Len(listed)} = {b \in Actions : runtime[b].status # "absent"}
  BY InListed, LenProperties DEF ReviewInv, TypeOK
<1>2. PICK n \in 1..Len(listed) + 1 : listed' = InsertAt(listed, n, a)
  BY DEF Create
<1>3. /\ listed' \in Seq(Actions) /\ Len(listed') = Len(listed) + 1
      /\ \A j \in 1..Len(listed) + 1 :
           listed'[j] = IF j < n THEN listed[j] ELSE IF j = n THEN a ELSE listed[j - 1]
  <2>1. /\ InsertAt(listed, n, a) \in Seq(Actions)
        /\ Len(InsertAt(listed, n, a)) = Len(listed) + 1
        /\ \A j \in 1..Len(listed) + 1 : InsertAt(listed, n, a)[j] =
             IF j < n THEN listed[j] ELSE IF j = n THEN a ELSE listed[j - 1]
    BY <1>1, InsertAtProperties
  <2> QED BY <1>2, <2>1
<1>4. \A j \in 1..Len(listed) : listed[j] # a
  BY <1>1, CreateMoves
<1>5. ASSUME NEW i \in 1..Len(listed'), NEW j \in 1..Len(listed'), listed'[i] = listed'[j]
      PROVE  i = j
  <2> DEFINE old(k) == IF k < n THEN k ELSE k - 1
  <2>1. ASSUME NEW k \in 1..Len(listed'), k # n
        PROVE  old(k) \in 1..Len(listed) /\ listed'[k] = listed[old(k)]
    <3>1. /\ k \in 1..Len(listed) + 1 /\ n \in 1..Len(listed) + 1
          /\ listed'[k] = IF k < n THEN listed[k] ELSE listed[k - 1]
      BY <1>3, <2>1
    <3>2. CASE k < n
      <4>1. k \in 1..Len(listed)
        BY <1>1, <3>1, <3>2
      <4> QED BY <3>1, <3>2, <4>1
    <3>3. CASE k > n
      <4>1. k - 1 \in 1..Len(listed) /\ ~(k < n)
        BY <1>1, <3>1, <3>3
      <4> QED BY <3>1, <4>1
    <3> QED BY <1>1, <2>1, <3>1, <3>2, <3>3
  <2>2. listed'[n] = a
    BY <1>1, <1>3
  <2>3. i = n <=> j = n
    BY <1>4, <1>5, <2>1, <2>2
  <2>4. CASE i # n /\ j # n
    <3>1. old(i) = old(j)
      BY <1>1, <1>5, <2>1, <2>4
    <3> QED BY <1>1, <1>3, <2>4, <3>1
  <2> QED BY <2>3, <2>4
<1>6. {listed'[i] : i \in 1..Len(listed')} = {b \in Actions : runtime'[b].status # "absent"}
  <2>1. {listed'[i] : i \in 1..Len(listed')} = {listed[i] : i \in 1..Len(listed)} \cup {a}
    <3>1. ASSUME NEW i \in 1..Len(listed')
          PROVE  listed'[i] = a \/ \E k \in 1..Len(listed) : listed'[i] = listed[k]
      <4>1. CASE i < n
        BY <1>1, <1>3, <4>1
      <4>2. CASE i = n
        BY <1>1, <1>3, <4>2
      <4>3. CASE i > n
        <5>1. i - 1 \in 1..Len(listed) /\ listed'[i] = listed[i - 1]
          BY <1>1, <1>3, <4>3
        <5> QED BY <5>1
      <4> QED BY <1>1, <1>3, <4>1, <4>2, <4>3
    <3>2. a = listed'[n] /\ n \in 1..Len(listed')
      BY <1>1, <1>3
    <3>3. ASSUME NEW k \in 1..Len(listed)
          PROVE  \E i \in 1..Len(listed') : listed[k] = listed'[i]
      <4>1. CASE k < n
        BY <1>1, <1>3, <4>1
      <4>2. CASE k >= n
        <5>1. k + 1 \in 1..Len(listed') /\ listed'[k + 1] = listed[k]
          BY <1>1, <1>3, <4>2
        <5> QED BY <5>1
      <4> QED BY <1>1, <4>1, <4>2
    <3>4. {listed'[i] : i \in 1..Len(listed')} \subseteq {listed[i] : i \in 1..Len(listed)} \cup {a}
      BY <3>1
    <3>5. {listed[i] : i \in 1..Len(listed)} \cup {a} \subseteq {listed'[i] : i \in 1..Len(listed')}
      BY <3>2, <3>3
    <3> QED BY <3>4, <3>5
  <2>2. \A b \in Actions : runtime'[b].status = IF b = a THEN "pending" ELSE runtime[b].status
    BY CreateMoves, MovedRow
  <2> QED BY <1>1, <2>1, <2>2
<1>7. ASSUME NEW b, NEW d, Before(b, d) PROVE Before(b, d)'
  <2> DEFINE new(k) == IF k < n THEN k ELSE k + 1
  <2>1. PICK i, j \in 1..Len(listed) : i < j /\ listed[i] = b /\ listed[j] = d
    BY <1>7 DEF Before
  <2>2. ASSUME NEW k \in 1..Len(listed)
        PROVE  new(k) \in 1..Len(listed') /\ listed'[new(k)] = listed[k]
    <3>1. CASE k < n
      <4>1. new(k) = k /\ k \in 1..Len(listed) + 1
        BY <1>1, <3>1
      <4> QED BY <1>3, <3>1, <4>1
    <3>2. CASE k >= n
      <4>1. new(k) = k + 1 /\ k + 1 \in 1..Len(listed) + 1 /\ ~(k + 1 < n) /\ k + 1 # n
            /\ k + 1 - 1 = k
        BY <1>1, <3>2
      <4> QED BY <1>3, <4>1
    <3> QED BY <1>1, <3>1, <3>2
  <2>3. new(i) < new(j)
    BY <1>1, <2>1
  <2> HIDE DEF new
  <2> QED BY <2>1, <2>2, <2>3 DEF Before
<1> QED BY <1>3, <1>5, <1>6, <1>7, InListed DEF ListStep

LEMMA ListKept ==
  ASSUME ReviewInv, StoreFrame
  PROVE  ListStep
<1>1. ASSUME UNCHANGED listed, \A a \in Actions : runtime'[a].status = "absent" <=> runtime[a].status = "absent"
      PROVE  ListStep
  <2>1. /\ listed \in Seq(Actions) /\ IsInjective(listed)
        /\ ToSet(listed) = {a \in Actions : runtime[a].status # "absent"}
    BY DEF ReviewInv, TypeOK
  <2>2. \A a, b : Before(a, b) => Before(a, b)'
    BY <1>1 DEF Before
  <2>3. {a \in Actions : runtime[a].status # "absent"} =
          {a \in Actions : runtime'[a].status # "absent"}
    BY <1>1
  <2> QED BY <1>1, <2>1, <2>2, <2>3 DEF ListStep
<1>2. CASE UNCHANGED store
  BY <1>1, <1>2 DEF store, lifecycleVars
<1>3. ASSUME NEW a \in Actions, Happen(a) PROVE ListStep
  <2>1. PICK to, by : to # "absent" /\ Moved(a, to, by)
    BY <1>3, HappenMoves
  <2>2. runtime[a].status # "absent"
    BY <1>3, HappenMoves
  <2>3. \A b \in Actions : runtime'[b].status = IF b = a THEN to ELSE runtime[b].status
    BY <2>1, MovedRow
  <2> QED BY <1>1, <1>3, <2>1, <2>2, <2>3 DEF Happen
<1>4. ASSUME NEW c \in Clients, Records(c) PROVE ListStep
  <2>1. PICK a, to, by :
          /\ a \in Actions /\ to # "absent"
          /\ Moved(a, to, by) /\ runtime[a].status # "absent"
    BY <1>4, RecordsMoves, TargetType
  <2>2. \A b \in Actions : runtime'[b].status = IF b = a THEN to ELSE runtime[b].status
    BY <2>1, MovedRow
  <2> QED BY <1>1, <1>4, <2>1, <2>2 DEF Records
<1> QED BY <1>2, <1>3, <1>4, CreateList DEF StoreFrame

LogStep ==
  /\ log' \in Seq(Actions) /\ Len(log) <= Len(log')
  /\ \A n \in 1..Len(log) : log'[n] = log[n]
  /\ LogInv'

LEMMA ReceiptStep ==
  ASSUME ReviewInv, RuntimeStep, NEW a \in Actions, Receipt(a), runtime'[a].status # "absent"
  PROVE  LogStep
<1>1. log \in Seq(Actions) /\ Len(log) \in Nat /\ MaxReceipts \in Nat
      /\ Len(log) < MaxReceipts /\ log' = Append(log, a)
  BY ReviewAssumption, LenProperties DEF ReviewInv, TypeOK, Receipt
<1>2. /\ log' \in Seq(Actions) /\ Len(log') = Len(log) + 1
      /\ \A n \in 1..Len(log) : log'[n] = log[n] /\ log'[Len(log) + 1] = a
  BY <1>1, AppendProperties
<1>3. ASSUME NEW n \in 1..Len(log') PROVE runtime'[log'[n]].status # "absent"
  <2>1. CASE n \in 1..Len(log)
    <3>1. log[n] \in Actions /\ Exists(log[n])
      BY <1>1, <2>1, ElementOfSeq DEF ReviewInv, LogInv
    <3> QED BY <1>2, <2>1, <3>1 DEF RuntimeStep
  <2>2. CASE n = Len(log) + 1
    <3>1. log'[n] = a
      BY <1>1, <2>2, AppendProperties
    <3> QED BY <3>1
  <2> QED BY <1>1, <1>2, <2>1, <2>2
<1>4. LogInv'
  BY <1>1, <1>2, <1>3 DEF LogInv, Exists
<1> QED BY <1>1, <1>2, <1>4 DEF LogStep

LEMMA LogKept ==
  ASSUME ReviewInv, StoreFrame
  PROVE  LogStep
<1>1. RuntimeStep
  BY RuntimeKept
<1>2. CASE UNCHANGED store
  BY <1>2, LenProperties DEF store, lifecycleVars, LogStep, ReviewInv, TypeOK, LogInv, Exists
<1>3. ASSUME NEW a \in Actions, Create(a) PROVE LogStep
  <2>1. runtime'[a].status = "pending"
    BY <1>3, CreateMoves, MovedRow
  <2> QED BY <1>1, <1>3, <2>1, ReceiptStep DEF Create
<1>4. ASSUME NEW a \in Actions, Happen(a) PROVE LogStep
  <2>1. runtime[a].status # "absent"
    BY <1>4, HappenMoves
  <2> QED BY <1>1, <1>4, <2>1, ReceiptStep DEF Happen, RuntimeStep, Exists
<1>5. ASSUME NEW c \in Clients, Records(c) PROVE LogStep
  <2>1. call[c].action \in Actions /\ runtime[call[c].action].status # "absent"
    BY <1>5, RecordsMoves
  <2> QED BY <1>1, <1>5, <2>1, ReceiptStep DEF Records, RuntimeStep, Exists
<1> QED BY <1>2, <1>3, <1>4, <1>5 DEF StoreFrame

-------------------------------------------------------------------------------
(* The calls.                                                              *)

(* A good row stays good: requests do not change.                          *)
LEMMA GoodKept ==
  ASSUME RuntimeStep, NEW row, GoodCall(row)
  PROVE  GoodCall(row)'
<1>1. \A a \in row.shown : a \in Actions
  BY DEF GoodCall, CallState
<1> QED BY <1>1 DEF RuntimeStep, GoodCall

LEMMA CallsGood ==
  ASSUME \A c \in Clients : \E row : row = call'[c] /\ GoodCall(row)'
  PROVE  CallInv'
<1> SUFFICES ASSUME NEW c \in Clients PROVE GoodCall(call[c])'
  BY DEF CallInv
<1>1. PICK row : row = call'[c] /\ GoodCall(row)'
  OBVIOUS
<1> QED BY <1>1 DEF GoodCall

LEMMA TurnGood ==
  ASSUME ReviewInv, RuntimeStep, NEW c \in Clients, NEW row, Turn(c, row), GoodCall(row)
  PROVE  CallInv'
<1> SUFFICES ASSUME NEW e \in Clients PROVE \E r : r = call'[e] /\ GoodCall(r)'
  BY CallsGood
<1>1. call' = [call EXCEPT ![c] = row] /\ call \in [Clients -> CallState]
  BY DEF Turn, ReviewInv, TypeOK, CallState
<1>2. PICK r : r = call'[e]
  OBVIOUS
<1>3. r = IF e = c THEN row ELSE call[e]
  BY <1>1, <1>2
<1>4. GoodCall(r)
  BY <1>3, CallRow
<1> QED BY <1>2, <1>4, GoodKept

CallOf(stage, via, p, a, decision, answer, shown, forms) ==
  [stage |-> stage, via |-> via, principal |-> p, action |-> a, decision |-> decision,
   answer |-> answer, shown |-> shown, forms |-> forms]

LEMMA RowGood ==
  ASSUME NEW stage \in {"free", "deciding", "leaving", "polling"}, NEW via \in Process,
         NEW p \in Known \cup {NoPrincipal}, NEW a \in Actions \cup {NoAction},
         NEW decision \in Decision \cup {"none"}, NEW answer \in Answer,
         NEW shown \in SUBSET Actions, NEW forms \in SUBSET Decision,
         stage = "deciding" =>
           a \in Actions /\ decision \in Decision /\ p \in Known /\ "decide" \in p.scopes,
         \A b \in shown : CanAccess(p, runtime[b].request),
         answer \in {"forbidden", "conflict"} =>
           a \in Actions /\ CanAccess(p, runtime[a].request),
         \A d \in forms : a \in Actions /\ Entitled(p, runtime[a].request, d),
         answer = "forbidden" => decision \notin forms
  PROVE  GoodCall(CallOf(stage, via, p, a, decision, answer, shown, forms))
<1> DEFINE row == CallOf(stage, via, p, a, decision, answer, shown, forms)
<1>1. p \in Principal \cup {NoPrincipal}
  BY KnownType
<1>2. row \in CallState
  BY <1>1 DEF CallState, CallOf
<1>3. /\ row.stage = stage /\ row.principal = p /\ row.action = a /\ row.decision = decision
      /\ row.answer = answer /\ row.shown = shown /\ row.forms = forms
  BY DEF CallOf
<1>4. forms # {} => a \in Actions
  OBVIOUS
<1>5. \A d \in forms : Entitled(p, runtime[a].request, d)
  OBVIOUS
<1> HIDE DEF row
<1>6. row.stage = "deciding" =>
        /\ row.action \in Actions /\ row.decision \in Decision
        /\ row.principal \in Known /\ "decide" \in row.principal.scopes
  BY <1>3
<1>7. \A b \in row.shown : CanAccess(row.principal, runtime[b].request)
  BY <1>3
<1>8. row.answer \in {"forbidden", "conflict"} =>
        row.action \in Actions /\ CanAccess(row.principal, runtime[row.action].request)
  BY <1>3
<1>9. row.forms # {} => row.action \in Actions
  BY <1>3, <1>4
<1>10. \A d \in row.forms : Entitled(row.principal, runtime[row.action].request, d)
  BY <1>3, <1>5
<1>11. row.answer = "forbidden" => row.decision \notin row.forms
  BY <1>3
<1>12. row.principal \in Known \cup {NoPrincipal}
  BY <1>3
<1>13. GoodCall(row)
  BY <1>2, <1>6, <1>7, <1>8, <1>9, <1>10, <1>11, <1>12 DEF GoodCall
<1> QED BY <1>13 DEF row

LEMMA ReplyRow ==
  ASSUME NEW via, NEW p, NEW answer, NEW shown
  PROVE  Reply(via, p, answer, shown) =
           CallOf("free", via, p, NoAction, "none", answer, shown, {})
BY DEF Reply, CallOf

(* An answer, or a call that goes on without deciding.                     *)
LEMMA ReplyGood ==
  ASSUME NEW via \in Process, NEW p \in Known \cup {NoPrincipal},
         NEW answer \in {"none", "ok", "absent", "unavailable", "denied", "invalid cursor"},
         NEW shown \in SUBSET Actions, \A b \in shown : CanAccess(p, runtime[b].request)
  PROVE  GoodCall(Reply(via, p, answer, shown))
<1>1. answer \in Answer
  BY DEF Answer
<1>2. GoodCall(CallOf("free", via, p, NoAction, "none", answer, shown, {}))
  BY <1>1, RowGood
<1>3. Reply(via, p, answer, shown) =
        CallOf("free", via, p, NoAction, "none", answer, shown, {})
  BY ReplyRow
<1> QED BY <1>2, <1>3

LEMMA StageGood ==
  ASSUME NEW via \in Process, NEW p \in Known,
         NEW shown \in SUBSET Actions, \A b \in shown : CanAccess(p, runtime[b].request),
         NEW stage \in {"leaving", "polling"},
         NEW row, row = [Reply(via, p, "none", shown) EXCEPT !.stage = stage]
  PROVE  GoodCall(row)
<1>1. "none" \in Answer
  BY DEF Answer
<1>2. GoodCall(CallOf(stage, via, p, NoAction, "none", "none", shown, {}))
  BY <1>1, RowGood
<1>3. row = CallOf(stage, via, p, NoAction, "none", "none", shown, {})
  BY DEF Reply, CallOf
<1> QED BY <1>2, <1>3

LEMMA IdleGood == GoodCall(Idle)
BY ReplyGood DEF Idle, Process

LEMMA AwaitGood ==
  ASSUME NEW via \in Process, NEW p \in Known, "decide" \in p.scopes, NEW a \in Actions,
         NEW decision \in Decision, NEW forms \in SUBSET Decision,
         \A d \in forms : Entitled(p, runtime[a].request, d),
         NEW row,
         row = [Reply(via, p, "none", {}) EXCEPT
                  !.stage = "deciding", !.action = a, !.decision = decision, !.forms = forms]
  PROVE  GoodCall(row)
<1>1. "none" \in Answer
  BY DEF Answer
<1>2. GoodCall(CallOf("deciding", via, p, a, decision, "none", {}, forms))
  BY <1>1, RowGood
<1> DEFINE r == Reply(via, p, "none", {})
           s == [r EXCEPT !.stage = "deciding"]
           u == [s EXCEPT !.action = a]
           v == [u EXCEPT !.decision = decision]
<1>3. s = CallOf("deciding", via, p, NoAction, "none", "none", {}, {})
  BY DEF Reply, CallOf
<1>4. row = [v EXCEPT !.forms = forms]
  BY DEF Reply
<1> HIDE DEF r, s
<1>5. u = CallOf("deciding", via, p, a, "none", "none", {}, {})
  BY <1>3 DEF CallOf
<1> HIDE DEF u
<1>6. v = CallOf("deciding", via, p, a, decision, "none", {}, {})
  BY <1>5 DEF CallOf
<1> HIDE DEF v
<1>7. row = CallOf("deciding", via, p, a, decision, "none", {}, forms)
  BY <1>4, <1>6 DEF CallOf
<1> QED BY <1>2, <1>7

LEMMA DetailGood ==
  ASSUME NEW p \in Known, NEW a \in Actions, CanAccess(p, runtime[a].request),
         NEW forms, forms = Offered(p, a), NEW row,
         row = [Reply("dashboard", p, "ok", {a}) EXCEPT !.action = a, !.forms = forms]
  PROVE  GoodCall(row)
<1>1. "ok" \in Answer /\ "dashboard" \in Process
  BY DEF Answer, Process
<1>2. forms \in SUBSET Decision
  BY DEF Offered
<1>3. \A d \in forms : Entitled(p, runtime[a].request, d)
  BY DEF Offered, Entitled
<1>4. GoodCall(CallOf("free", "dashboard", p, a, "none", "ok", {a}, forms))
  BY <1>1, <1>2, <1>3, RowGood
<1> DEFINE r == Reply("dashboard", p, "ok", {a})
           s == [r EXCEPT !.action = a]
<1>5. s = CallOf("free", "dashboard", p, a, "none", "ok", {a}, {})
  BY DEF Reply, CallOf
<1>6. row = [s EXCEPT !.forms = forms]
  BY DEF Reply
<1> HIDE DEF r, s
<1>7. row = CallOf("free", "dashboard", p, a, "none", "ok", {a}, forms)
  BY <1>5, <1>6 DEF CallOf
<1> QED BY <1>4, <1>7

LEMMA ConcludeGood ==
  ASSUME ReviewInv, NEW c \in Clients, call[c].stage = "deciding",
         NEW answer \in {"ok", "absent", "forbidden", "conflict"}, NEW row,
         row = [call[c] EXCEPT !.stage = "free", !.answer = answer,
                  !.shown = IF answer = "ok" THEN {call[c].action} ELSE {}],
         answer # "absent" => CanAccess(call[c].principal, runtime[call[c].action].request),
         answer = "forbidden" => call[c].decision \notin call[c].forms
  PROVE  GoodCall(row)
<1>1. GoodCall(call[c]) /\ call[c] \in CallState
  BY CallRow
<1>2. call[c].action \in Actions /\ call[c].principal \in Known
  BY <1>1 DEF GoodCall
<1> DEFINE shown == IF answer = "ok" THEN {call[c].action} ELSE {}
<1>3. shown \in SUBSET Actions /\ answer \in Answer
  BY <1>2 DEF Answer
<1>4. \A b \in shown : CanAccess(call[c].principal, runtime[b].request)
  OBVIOUS
<1>5. row = CallOf("free", call[c].via, call[c].principal, call[c].action,
                   call[c].decision, answer, shown, call[c].forms)
  BY <1>1 DEF CallState, CallOf
<1>6. /\ call[c].via \in Process /\ call[c].decision \in Decision \cup {"none"}
      /\ call[c].forms \in SUBSET Decision
      /\ \A d \in call[c].forms :
           Entitled(call[c].principal, runtime[call[c].action].request, d)
  BY <1>1 DEF CallState, GoodCall
<1>7. answer \in {"forbidden", "conflict"} =>
        CanAccess(call[c].principal, runtime[call[c].action].request)
  OBVIOUS
<1> HIDE DEF shown
<1>8. GoodCall(CallOf("free", call[c].via, call[c].principal, call[c].action,
                      call[c].decision, answer, shown, call[c].forms))
  BY <1>2, <1>3, <1>4, <1>6, <1>7, RowGood
<1> QED BY <1>5, <1>8

-------------------------------------------------------------------------------
(* Who calls.                                                              *)

LEMMA AuthorizedKnown ==
  ASSUME ReviewInv, NEW process \in Process, NEW token, NEW scope, NEW p,
         Authorized(process, token, scope, p)
  PROVE  p \in Known /\ scope \in p.scopes
<1>1. document[process] \in Documents
  BY DEF ReviewInv, TypeOK
<1> QED BY <1>1, PrincipalType DEF Authorized

LEMMA VisitorKnown ==
  ASSUME ReviewInv, NEW c \in Browsers, InSession(c)
  PROVE  jar[c] \in Cookies /\ Visitor(c) \in Known
BY DEF ReviewInv, TypeOK, SessionInv, InSession, Visitor

(* What a list shows.                                                      *)
LEMMA EntriesShown ==
  ASSUME ReviewInv, NEW p, NEW filter
  PROVE  /\ Entries(p, filter) \subseteq 1..Len(listed)
         /\ ActionsAt(Entries(p, filter)) \subseteq Actions
         /\ \A a \in ActionsAt(Entries(p, filter)) :
              CanAccess(p, runtime[a].request) /\ Exists(a) /\ Matches(a, filter)
         /\ \A a \in Actions :
              CanAccess(p, runtime[a].request) /\ Exists(a) /\ Matches(a, filter) =>
                \E i \in Entries(p, filter) : listed[i] = a
<1>1. listed \in Seq(Actions)
      /\ {listed[i] : i \in 1..Len(listed)} = {a \in Actions : runtime[a].status # "absent"}
  BY InListed DEF ReviewInv, TypeOK
<1>2. \A i \in 1..Len(listed) : listed[i] \in Actions /\ Exists(listed[i])
  BY <1>1 DEF Exists
<1>3. ASSUME NEW a \in Actions, Exists(a) PROVE \E i \in 1..Len(listed) : listed[i] = a
  BY <1>1, <1>3 DEF Exists
<1> QED BY <1>2, <1>3 DEF Entries, ActionsAt

-------------------------------------------------------------------------------
(* The calls, handler by handler.                                          *)

LEMMA Answered ==
  ASSUME ReviewInv, RuntimeStep, NEW c \in Clients, NEW via \in Process,
         NEW p \in Known \cup {NoPrincipal},
         NEW answer \in {"none", "ok", "absent", "unavailable", "denied", "invalid cursor"},
         NEW shown \in SUBSET Actions, \A b \in shown : CanAccess(p, runtime[b].request),
         Turn(c, Reply(via, p, answer, shown))
  PROVE  CallInv'
<1>1. PICK row : row = Reply(via, p, answer, shown)
  OBVIOUS
<1>2. GoodCall(row)
  <2>1. GoodCall(Reply(via, p, answer, shown))
    BY ReplyGood
  <2> QED BY <1>1, <2>1
<1>3. Turn(c, row)
  BY <1>1
<1> QED BY <1>2, <1>3, TurnGood

(* Nothing is shown.                                                       *)
LEMMA AnsweredBare ==
  ASSUME ReviewInv, RuntimeStep, NEW c \in Clients, NEW via \in Process,
         NEW p \in Known \cup {NoPrincipal},
         NEW answer \in {"ok", "absent", "unavailable", "denied", "invalid cursor"},
         Turn(c, Reply(via, p, answer, {}))
  PROVE  CallInv'
<1> DEFINE shown == {}
<1>1. shown \in SUBSET Actions /\ \A b \in shown : CanAccess(p, runtime[b].request)
  OBVIOUS
<1>2. Turn(c, Reply(via, p, answer, shown))
  OBVIOUS
<1> HIDE DEF shown
<1> QED BY <1>1, <1>2, Answered

LEMMA Refused ==
  ASSUME ReviewInv, RuntimeStep, NEW c \in Clients, NEW via \in Process,
         NEW answer \in {"ok", "absent", "unavailable", "denied", "invalid cursor"},
         Turn(c, Reply(via, NoPrincipal, answer, {}))
  PROVE  CallInv'
<1>1. PICK p \in Known \cup {NoPrincipal} : p = NoPrincipal
  OBVIOUS
<1>2. Turn(c, Reply(via, p, answer, {}))
  BY <1>1
<1> QED BY <1>2, AnsweredBare

LEMMA PageCall ==
  ASSUME ReviewInv, RuntimeStep, NEW c \in ApiClients, NEW p \in Known, NEW filter,
         NEW places \in SUBSET Entries(p, filter), NEW progress,
         Page(c, p, places, progress)
  PROVE  CallInv'
<1> DEFINE shown == ActionsAt(FirstOf(places))
<1>1. shown \subseteq ActionsAt(Entries(p, filter))
  BY DEF FirstOf, Leading, ActionsAt
<1>2. shown \in SUBSET Actions /\ \A b \in shown : CanAccess(p, runtime[b].request)
  BY <1>1, EntriesShown
<1>3. Turn(c, Reply("api", p, "ok", shown))
  BY DEF Page
<1> HIDE DEF shown
<1> QED BY <1>2, <1>3, Answered DEF Clients, Process

LEMMA NextPageCall ==
  ASSUME ReviewInv, RuntimeStep, NEW c \in ApiClients, NextPage(c)
  PROVE  CallInv'
<1>1. PICK p : /\ Authorized("api", paging[c].token, "read", p)
               /\ LET places == Entries(p, paging[c].status)
                      after == {i \in places : listed[i] = paging[c].after} IN
                  IF after = {}
                  THEN /\ Turn(c, Reply("api", NoPrincipal, "invalid cursor", {}))
                       /\ paging' = [paging EXCEPT ![c] = NotPaging]
                  ELSE \E i \in after : Page(c, p, {j \in places : j > i}, paging[c])
  BY DEF NextPage
<1>2. p \in Known
  BY <1>1, AuthorizedKnown DEF Process
<1> DEFINE places == Entries(p, paging[c].status)
<1>3. CASE Turn(c, Reply("api", NoPrincipal, "invalid cursor", {}))
  BY <1>3, Refused DEF Clients, Process
<1>4. ASSUME NEW i, Page(c, p, {j \in places : j > i}, paging[c])
      PROVE  CallInv'
  <2>1. PICK rest : rest = {j \in places : j > i}
    OBVIOUS
  <2>2. rest \in SUBSET places /\ Page(c, p, rest, paging[c])
    BY <1>4, <2>1
  <2> HIDE DEF places
  <2>3. rest \in SUBSET Entries(p, paging[c].status)
    BY <2>2 DEF places
  <2> QED BY <1>2, <2>2, <2>3, PageCall
<1> QED BY <1>1, <1>3, <1>4

LEMMA PollReceiptsCall ==
  ASSUME ReviewInv, RuntimeStep, NEW c \in ApiClients, PollReceipts(c)
  PROVE  CallInv'
<1> DEFINE p == call[c].principal
           visible == call[c].shown
           page == FirstOf({n \in polling[c].after + 1 .. Len(log) :
                              log[n] \in visible /\ Wanted(polling[c], n)})
           shown == {log[n] : n \in page}
<1>1. c \in Clients /\ "api" \in Process
  BY DEF Clients, Process
<1>2. GoodCall(call[c])
  BY <1>1, CallRow
<1>3. Turn(c, Reply("api", p, "ok", shown))
  BY DEF PollReceipts
<1>4. shown \subseteq visible
  BY DEF FirstOf, Leading
<1>5. /\ p \in Known \cup {NoPrincipal} /\ visible \in SUBSET Actions
      /\ \A b \in visible : CanAccess(p, runtime[b].request)
  BY <1>2 DEF GoodCall, CallState
<1> HIDE DEF shown, p, visible
<1>6. shown \in SUBSET Actions /\ \A b \in shown : CanAccess(p, runtime[b].request)
  BY <1>4, <1>5
<1> QED BY <1>1, <1>3, <1>5, <1>6, Answered

(* What list_audit answers, or goes on with.                               *)
LEMMA PollTurn ==
  ASSUME NEW c \in ApiClients, NEW token \in Tokens, NEW only \in Actions \cup {NoAction},
         Poll(c, token, only)
  PROVE  \E p :
           /\ Authorized("api", token, "audit", p)
           /\ \/ /\ Turn(c, [Reply("api", p, "none", ActionsAt(Entries(p, "any")))
                                EXCEPT !.stage = "polling"])
                 /\ polling' = [polling EXCEPT ![c] = Progress(c, token, only)]
              \/ Turn(c, Reply("api", NoPrincipal, "absent", {})) /\ UNCHANGED polling
BY DEF Poll

LEMMA ApiCall ==
  ASSUME ReviewInv, RuntimeStep, NEW c \in ApiClients, Api(c)
  PROVE  CallInv'
<1>1. c \in Clients /\ "api" \in Process
  BY DEF Clients, Process
<1>2. ASSUME NEW token \in Tokens, NEW scope \in Scope, Unauthorized(c, token, scope)
      PROVE  CallInv'
  BY <1>1, <1>2, Refused DEF Unauthorized
<1>3. ASSUME NEW token \in Tokens, NEW a \in Actions, Get(c, token, a) PROVE CallInv'
  <2>1. PICK p : /\ Authorized("api", token, "read", p)
                 /\ Turn(c, IF Exists(a) /\ CanAccess(p, runtime[a].request)
                            THEN Reply("api", p, "ok", {a})
                            ELSE Reply("api", NoPrincipal, "absent", {}))
    BY <1>3 DEF Get
  <2>2. p \in Known
    BY <1>1, <2>1, AuthorizedKnown
  <2>3. CASE CanAccess(p, runtime[a].request) /\ Turn(c, Reply("api", p, "ok", {a}))
    <3> DEFINE shown == {a}
    <3>1. shown \in SUBSET Actions /\ \A b \in shown : CanAccess(p, runtime[b].request)
      BY <2>3
    <3>2. Turn(c, Reply("api", p, "ok", shown))
      BY <2>3
    <3> HIDE DEF shown
    <3> QED BY <1>1, <2>2, <3>1, <3>2, Answered
  <2>4. CASE Turn(c, Reply("api", NoPrincipal, "absent", {}))
    BY <1>1, <2>4, Refused
  <2> QED BY <2>1, <2>3, <2>4
<1>4. ASSUME NEW token \in Tokens, NEW a \in Actions, NEW d \in Decision,
             ApiDecide(c, token, a, d)
      PROVE  CallInv'
  <2>1. PICK p : Authorized("api", token, "decide", p) /\ AwaitBody(c, "api", p, a, d, {})
    BY <1>4 DEF ApiDecide
  <2>2. p \in Known /\ "decide" \in p.scopes
    BY <1>1, <2>1, AuthorizedKnown
  <2>3. PICK row : row = [Reply("api", p, "none", {}) EXCEPT
                            !.stage = "deciding", !.action = a, !.decision = d, !.forms = {}]
    OBVIOUS
  <2>4. GoodCall(row)
    BY <1>1, <2>2, <2>3, AwaitGood
  <2>5. Turn(c, row)
    BY <2>1, <2>3 DEF AwaitBody
  <2> QED BY <1>1, <2>4, <2>5, TurnGood
<1>5. ASSUME NEW token \in Tokens, NEW filter \in Filters, FirstPage(c, token, filter)
      PROVE  CallInv'
  <2>1. PICK p : /\ Authorized("api", token, "read", p)
                 /\ Page(c, p, Entries(p, filter),
                         [NotPaging EXCEPT !.token = token, !.status = filter,
                                           !.steady = ActionsAt(Entries(p, filter))])
    BY <1>5 DEF FirstPage
  <2>2. p \in Known
    BY <1>1, <2>1, AuthorizedKnown
  <2>3. PICK progress, places :
          places = Entries(p, filter) /\ Page(c, p, places, progress)
    BY <2>1
  <2> QED BY <2>2, <2>3, PageCall
<1>6. ASSUME NEW token \in Tokens, NEW only \in Actions \cup {NoAction}, Poll(c, token, only)
      PROVE  CallInv'
  <2>1. PICK p : /\ Authorized("api", token, "audit", p)
                 /\ \/ Turn(c, [Reply("api", p, "none", ActionsAt(Entries(p, "any")))
                                  EXCEPT !.stage = "polling"])
                    \/ Turn(c, Reply("api", NoPrincipal, "absent", {}))
    BY <1>6, PollTurn
  <2>2. p \in Known
    BY <1>1, <2>1, AuthorizedKnown
  <2>3. PICK shown : shown = ActionsAt(Entries(p, "any"))
    OBVIOUS
  <2>4. shown \in SUBSET Actions /\ \A b \in shown : CanAccess(p, runtime[b].request)
    BY <2>3, EntriesShown
  <2>5. PICK row : row = [Reply("api", p, "none", shown) EXCEPT !.stage = "polling"]
    OBVIOUS
  <2>6. GoodCall(row)
    BY <1>1, <2>2, <2>4, <2>5, StageGood
  <2>7. Turn(c, row) \/ Turn(c, Reply("api", NoPrincipal, "absent", {}))
    BY <2>1, <2>3, <2>5
  <2>8. CASE Turn(c, row)
    BY <1>1, <2>6, <2>8, TurnGood
  <2>9. CASE Turn(c, Reply("api", NoPrincipal, "absent", {}))
    BY <1>1, <2>9, Refused
  <2> QED BY <2>7, <2>8, <2>9
<1> QED BY <1>2, <1>3, <1>4, <1>5, <1>6, NextPageCall, PollReceiptsCall DEF Api

LEMMA DashboardCall ==
  ASSUME ReviewInv, RuntimeStep, NEW c \in Browsers, Dashboard(c)
  PROVE  CallInv'
<1>1. c \in Clients /\ "dashboard" \in Process
  BY DEF Clients, Process
<1>2. ASSUME NEW token \in Tokens, Login(c, token) PROVE CallInv'
  <2>1. CASE Turn(c, Reply("dashboard", NoPrincipal, "denied", {}))
    BY <1>1, <2>1, Refused
  <2>2. ASSUME NEW p, Authorized("dashboard", token, "read", p), CreateSession(c, p)
        PROVE  CallInv'
    <3>1. p \in Known
      BY <1>1, <2>2, AuthorizedKnown
    <3>2. CASE Turn(c, Reply("dashboard", NoPrincipal, "unavailable", {}))
      BY <1>1, <3>2, Refused
    <3>3. CASE Turn(c, Reply("dashboard", p, "ok", {}))
      BY <1>1, <3>1, <3>3, AnsweredBare
    <3> QED BY <2>2, <3>2, <3>3 DEF CreateSession
  <2> QED BY <1>2, <2>1, <2>2 DEF Login
<1>3. CASE SignInRequired(c)
  BY <1>1, <1>3, Refused DEF SignInRequired
<1>4. ASSUME NEW filter \in Filters, Index(c, filter) PROVE CallInv'
  <2>1. PICK p : p = Visitor(c)
    OBVIOUS
  <2>2. p \in Known
    BY <1>4, <2>1, VisitorKnown DEF Index
  <2>3. PICK shown : shown = ActionsAt(Leading(Entries(p, filter), MaxListed))
    OBVIOUS
  <2>4. shown \subseteq ActionsAt(Entries(p, filter))
    BY <2>3 DEF Leading, ActionsAt
  <2>5. shown \in SUBSET Actions /\ \A b \in shown : CanAccess(p, runtime[b].request)
    BY <2>4, EntriesShown
  <2>6. Turn(c, Reply("dashboard", p, "ok", shown))
    BY <1>4, <2>1, <2>3 DEF Index
  <2> QED BY <1>1, <2>2, <2>5, <2>6, Answered
<1>5. ASSUME NEW a \in Actions, Detail(c, a) PROVE CallInv'
  <2>1. PICK p : p = Visitor(c)
    OBVIOUS
  <2>2. p \in Known
    BY <1>5, <2>1, VisitorKnown DEF Detail
  <2>3. PICK forms : forms = Offered(p, a)
    OBVIOUS
  <2>4. PICK row : row = [Reply("dashboard", p, "ok", {a}) EXCEPT !.action = a, !.forms = forms]
    OBVIOUS
  <2>5. CASE CanAccess(p, runtime[a].request) /\ Turn(c, row)
    <3>1. GoodCall(row)
      BY <2>2, <2>3, <2>4, <2>5, DetailGood
    <3> QED BY <1>1, <2>5, <3>1, TurnGood
  <2>6. CASE Turn(c, Reply("dashboard", NoPrincipal, "absent", {}))
    BY <1>1, <2>6, Refused
  <2> QED BY <1>5, <2>1, <2>3, <2>4, <2>5, <2>6 DEF Detail
<1>6. ASSUME NEW a \in Actions, NEW d \in Decision, DashboardDecide(c, a, d)
      PROVE  CallInv'
  <2>1. PICK p : p = Visitor(c)
    OBVIOUS
  <2>2. p \in Known
    BY <1>6, <2>1, VisitorKnown DEF DashboardDecide
  <2>3. CASE ~("decide" \in p.scopes)
    BY <1>1, <1>6, <2>1, <2>3, Refused DEF DashboardDecide
  <2>4. CASE "decide" \in p.scopes
    <3>1. PICK forms : forms = IF call[c].action = a /\ call[c].principal = p
                               THEN call[c].forms ELSE {}
      OBVIOUS
    <3>2. forms \in SUBSET Decision /\ \A f \in forms : Entitled(p, runtime[a].request, f)
      BY <1>1, <3>1, CallRow DEF GoodCall, CallState
    <3>3. PICK row : row = [Reply("dashboard", p, "none", {}) EXCEPT
                              !.stage = "deciding", !.action = a, !.decision = d,
                              !.forms = forms]
      OBVIOUS
    <3>4. GoodCall(row)
      BY <1>1, <2>2, <2>4, <3>2, <3>3, AwaitGood
    <3>5. Turn(c, row)
      BY <1>6, <2>1, <2>4, <3>1, <3>3 DEF DashboardDecide, AwaitForm, AwaitBody
    <3> QED BY <1>1, <3>4, <3>5, TurnGood
  <2> QED BY <2>3, <2>4
<1>7. CASE Logout(c)
  <2>1. CASE InSession(c) /\ Turn(c, [Reply("dashboard", Visitor(c), "none", {})
                                        EXCEPT !.stage = "leaving"])
    <3>1. PICK p : p = Visitor(c)
      OBVIOUS
    <3>2. p \in Known
      BY <2>1, <3>1, VisitorKnown
    <3>3. PICK row : row = [Reply("dashboard", p, "none", {}) EXCEPT !.stage = "leaving"]
      OBVIOUS
    <3>4. GoodCall(row)
      <4> DEFINE shown == {}
      <4>1. shown \in SUBSET Actions /\ \A b \in shown : CanAccess(p, runtime[b].request)
        OBVIOUS
      <4>2. row = [Reply("dashboard", p, "none", shown) EXCEPT !.stage = "leaving"]
        BY <3>3
      <4> HIDE DEF shown
      <4> QED BY <1>1, <3>2, <4>1, <4>2, StageGood
    <3>5. Turn(c, row)
      BY <2>1, <3>1, <3>3
    <3> QED BY <1>1, <3>4, <3>5, TurnGood
  <2>2. CASE Turn(c, Reply("dashboard", NoPrincipal, "ok", {}))
    BY <1>1, <2>2, Refused
  <2> QED BY <1>7, <2>1, <2>2 DEF Logout
<1> QED BY <1>2, <1>3, <1>4, <1>5, <1>6, <1>7 DEF Dashboard

(* A decision is refused as forbidden only to those no form was offered.   *)
LEMMA EntitledAccepted ==
  ASSUME NEW p, NEW a, NEW decision, Entitled(p, runtime[a].request, decision)
  PROVE  ~Forbidden(a, decision, Auth(p))
BY DEF Entitled, CanAccess, Forbidden, OwnRequest, Auth

LEMMA AcceptedAccess ==
  ASSUME NEW p, NEW a, NEW decision,
         ~Forbidden(a, decision, Auth(p)) \/ ~Hidden(a, Auth(p))
  PROVE  CanAccess(p, runtime[a].request)
BY DEF CanAccess, Forbidden, Hidden, Auth

LEMMA DecidingCall ==
  ASSUME ReviewInv, RuntimeStep, NEW c \in Clients, Deciding(c)
  PROVE  CallInv'
<1> DEFINE a == call[c].action
           p == call[c].principal
           d == call[c].decision
<1>1. call[c].stage = "deciding" /\ GoodCall(call[c])
  BY CallRow DEF Deciding
<1>2. ASSUME NEW answer \in {"ok", "absent", "forbidden", "conflict"}, Conclude(c, answer),
             answer # "absent" => CanAccess(p, runtime[a].request),
             answer = "forbidden" => d \notin call[c].forms
      PROVE  CallInv'
  <2>1. PICK row : row = [call[c] EXCEPT !.stage = "free", !.answer = answer,
                            !.shown = IF answer = "ok" THEN {call[c].action} ELSE {}]
    OBVIOUS
  <2>2. GoodCall(row)
    BY <1>1, <1>2, <2>1, ConcludeGood
  <2>3. Turn(c, row)
    BY <1>2, <2>1 DEF Conclude
  <2> QED BY <2>2, <2>3, TurnGood
<1>3. ASSUME ~Forbidden(a, d, Auth(p)), Conclude(c, "ok") \/ Conclude(c, "conflict")
      PROVE  CallInv'
  <2>1. CanAccess(p, runtime[a].request)
    BY <1>3, AcceptedAccess
  <2> HIDE DEF a, p, d
  <2> QED BY <1>2, <1>3, <2>1
<1>4. CASE Conclude(c, "absent")
  <2> HIDE DEF a, p, d
  <2> QED BY <1>2, <1>4
<1>5. ASSUME Forbidden(a, d, Auth(p)), ~Hidden(a, Auth(p)), Conclude(c, "forbidden")
      PROVE  CallInv'
  <2>1. CanAccess(p, runtime[a].request)
    BY <1>5, AcceptedAccess
  <2>2. d \notin call[c].forms
    BY <1>1, <1>5, EntitledAccepted DEF GoodCall
  <2> HIDE DEF a, p, d
  <2> QED BY <1>2, <1>5, <2>1, <2>2
<1> QED BY <1>3, <1>4, <1>5 DEF Deciding, Decide

LEMMA RestartCall ==
  ASSUME ReviewInv, RuntimeStep, Restarts
  PROVE  CallInv'
<1>1. PICK process \in Process, d \in Documents : Restart(process, d)
  BY DEF Restarts
<1> SUFFICES ASSUME NEW c \in Clients PROVE \E r : r = call'[c] /\ GoodCall(r)'
  BY CallsGood
<1>2. call'[c] = IF call[c].via = process THEN Idle ELSE call[c]
  BY <1>1 DEF Restart
<1>3. PICK r : r = call'[c]
  OBVIOUS
<1>4. r = Idle \/ r = call[c]
  BY <1>2, <1>3
<1>5. GoodCall(r)
  BY <1>4, IdleGood, CallRow
<1> QED BY <1>3, <1>5, GoodKept

LEMMA CallsKept ==
  ASSUME ReviewInv, StoreFrame, CallFrame
  PROVE  CallInv'
<1>1. RuntimeStep
  BY RuntimeKept
<1>2. CASE UNCHANGED call
  <2> SUFFICES ASSUME NEW c \in Clients PROVE \E r : r = call'[c] /\ GoodCall(r)'
    BY CallsGood
  <2>1. PICK r : r = call'[c]
    OBVIOUS
  <2>2. GoodCall(r)
    BY <1>2, <2>1, CallRow
  <2> QED BY <1>1, <2>1, <2>2, GoodKept
<1> QED BY <1>1, <1>2, ApiCall, DashboardCall, DecidingCall, RestartCall DEF CallFrame

-------------------------------------------------------------------------------
(* The stages of the calls.                                                *)

LEMMA TurnRow ==
  ASSUME ReviewInv, NEW c \in Clients, NEW row, Turn(c, row), NEW e \in Clients
  PROVE  call'[e] = IF e = c THEN row ELSE call[e]
BY DEF Turn, ReviewInv, TypeOK

(* What a step makes of the call of e.                                     *)
StageCase(e) ==
  \/ call'[e] = call[e]
  \/ call'[e].stage \in {"free", "deciding"}
  \/ e \in Browsers /\ call'[e].stage = "leaving" /\ jar[e] # NoCookie /\ UNCHANGED jar
  \/ /\ e \in ApiClients
     /\ \E token \in Tokens, only \in Actions \cup {NoAction} : Poll(e, token, only)

LEMMA TurnTo ==
  ASSUME ReviewInv, NEW c \in Clients, NEW row, Turn(c, row),
         row.stage \in {"free", "deciding"}, NEW e \in Clients
  PROVE  StageCase(e)
BY TurnRow DEF StageCase

LEMMA RepliesTo ==
  ASSUME ReviewInv, NEW c \in Clients, NEW via, NEW p, NEW answer, NEW shown,
         Turn(c, Reply(via, p, answer, shown)), NEW e \in Clients
  PROVE  StageCase(e)
<1>1. PICK row : row = Reply(via, p, answer, shown)
  OBVIOUS
<1>2. row.stage = "free"
  BY <1>1 DEF Reply
<1>3. Turn(c, row)
  BY <1>1
<1> QED BY <1>2, <1>3, TurnTo

LEMMA AwaitsTo ==
  ASSUME ReviewInv, NEW c \in Clients, NEW via, NEW p, NEW a, NEW d, NEW forms,
         AwaitBody(c, via, p, a, d, forms), NEW e \in Clients
  PROVE  StageCase(e)
<1>1. PICK row : row = [Reply(via, p, "none", {}) EXCEPT
                          !.stage = "deciding", !.action = a, !.decision = d, !.forms = forms]
  OBVIOUS
<1>2. row.stage = "deciding"
  BY <1>1 DEF Reply
<1>3. Turn(c, row)
  BY <1>1 DEF AwaitBody
<1> QED BY <1>2, <1>3, TurnTo

LEMMA PagesTo ==
  ASSUME ReviewInv, NEW c \in Clients, NEW p, NEW places, NEW progress,
         Page(c, p, places, progress), NEW e \in Clients
  PROVE  StageCase(e)
<1>1. Turn(c, Reply("api", p, "ok", ActionsAt(FirstOf(places))))
  BY DEF Page
<1> QED BY <1>1, RepliesTo

LEMMA ApiTo ==
  ASSUME ReviewInv, NEW c \in ApiClients, Api(c), NEW e \in Clients
  PROVE  StageCase(e)
<1>1. c \in Clients
  BY DEF Clients
<1>2. ASSUME NEW token \in Tokens, NEW scope \in Scope, Unauthorized(c, token, scope)
      PROVE  StageCase(e)
  BY <1>1, <1>2, RepliesTo DEF Unauthorized
<1>3. ASSUME NEW token \in Tokens, NEW a \in Actions, Get(c, token, a) PROVE StageCase(e)
  <2>1. PICK p : Turn(c, IF Exists(a) /\ CanAccess(p, runtime[a].request)
                         THEN Reply("api", p, "ok", {a})
                         ELSE Reply("api", NoPrincipal, "absent", {}))
    BY <1>3 DEF Get
  <2>2. \/ Turn(c, Reply("api", p, "ok", {a}))
        \/ Turn(c, Reply("api", NoPrincipal, "absent", {}))
    BY <2>1
  <2> QED BY <1>1, <2>2, RepliesTo
<1>4. ASSUME NEW token \in Tokens, NEW a \in Actions, NEW d \in Decision,
             ApiDecide(c, token, a, d)
      PROVE  StageCase(e)
  BY <1>1, <1>4, AwaitsTo DEF ApiDecide
<1>5. ASSUME NEW token \in Tokens, NEW filter \in Filters, FirstPage(c, token, filter)
      PROVE  StageCase(e)
  BY <1>1, <1>5, PagesTo DEF FirstPage
<1>6. ASSUME NEW token \in Tokens, NEW only \in Actions \cup {NoAction}, Poll(c, token, only)
      PROVE  StageCase(e)
  <2>1. PICK row : Turn(c, row)
    BY <1>6, PollTurn
  <2> QED BY <1>1, <1>6, <2>1, TurnRow DEF StageCase
<1>7. CASE NextPage(c)
  <2>1. \/ Turn(c, Reply("api", NoPrincipal, "invalid cursor", {}))
        \/ \E p, places : Page(c, p, places, paging[c])
    BY <1>7 DEF NextPage
  <2> QED BY <1>1, <2>1, RepliesTo, PagesTo
<1>8. CASE PollReceipts(c)
  <2>1. \E shown : Turn(c, Reply("api", call[c].principal, "ok", shown))
    BY <1>8 DEF PollReceipts
  <2> QED BY <1>1, <2>1, RepliesTo
<1> QED BY <1>2, <1>3, <1>4, <1>5, <1>6, <1>7, <1>8 DEF Api

LEMMA DashboardTo ==
  ASSUME ReviewInv, NEW c \in Browsers, Dashboard(c), NEW e \in Clients
  PROVE  StageCase(e)
<1>1. c \in Clients
  BY DEF Clients
<1>2. ASSUME NEW token \in Tokens, Login(c, token) PROVE StageCase(e)
  <2>1. \E p, answer : Turn(c, Reply("dashboard", p, answer, {}))
    BY <1>2 DEF Login, CreateSession
  <2> QED BY <1>1, <2>1, RepliesTo
<1>3. CASE SignInRequired(c)
  BY <1>1, <1>3, RepliesTo DEF SignInRequired
<1>4. ASSUME NEW filter \in Filters, Index(c, filter) PROVE StageCase(e)
  BY <1>1, <1>4, RepliesTo DEF Index
<1>5. ASSUME NEW a \in Actions, Detail(c, a) PROVE StageCase(e)
  <2>1. PICK row : row = [Reply("dashboard", Visitor(c), "ok", {a})
                            EXCEPT !.action = a, !.forms = Offered(Visitor(c), a)]
    OBVIOUS
  <2>2. row.stage = "free"
    BY <2>1 DEF Reply
  <2>3. Turn(c, row) \/ Turn(c, Reply("dashboard", NoPrincipal, "absent", {}))
    BY <1>5, <2>1 DEF Detail
  <2> QED BY <1>1, <2>2, <2>3, TurnTo, RepliesTo
<1>6. ASSUME NEW a \in Actions, NEW d \in Decision, DashboardDecide(c, a, d)
      PROVE  StageCase(e)
  BY <1>1, <1>6, AwaitsTo, RepliesTo DEF DashboardDecide, AwaitForm
<1>7. CASE Logout(c)
  <2>1. CASE InSession(c) /\ UNCHANGED jar
             /\ Turn(c, [Reply("dashboard", Visitor(c), "none", {}) EXCEPT !.stage = "leaving"])
    <3>1. PICK row : row = [Reply("dashboard", Visitor(c), "none", {})
                              EXCEPT !.stage = "leaving"]
      OBVIOUS
    <3>2. row.stage = "leaving"
      BY <3>1 DEF Reply
    <3>3. Turn(c, row)
      BY <2>1, <3>1
    <3> QED BY <1>1, <2>1, <3>2, <3>3, TurnRow DEF StageCase, InSession
  <2>2. CASE Turn(c, Reply("dashboard", NoPrincipal, "ok", {}))
    BY <1>1, <2>2, RepliesTo
  <2> QED BY <1>7, <2>1, <2>2 DEF Logout
<1> QED BY <1>2, <1>3, <1>4, <1>5, <1>6, <1>7 DEF Dashboard

LEMMA StageStep ==
  ASSUME ReviewInv, CallFrame, NEW e \in Clients
  PROVE  StageCase(e)
<1>1. CASE UNCHANGED call
  BY <1>1 DEF StageCase
<1>2. ASSUME NEW c \in Clients, Deciding(c) PROVE StageCase(e)
  <2>1. PICK answer : Conclude(c, answer)
    BY <1>2 DEF Deciding
  <2>2. PICK row : row = [call[c] EXCEPT !.stage = "free", !.answer = answer,
                            !.shown = IF answer = "ok" THEN {call[c].action} ELSE {}]
    OBVIOUS
  <2>3. row.stage = "free"
    BY <2>2, CallRow DEF CallState
  <2>4. Turn(c, row)
    BY <2>1, <2>2 DEF Conclude
  <2> QED BY <2>3, <2>4, TurnTo
<1>3. CASE Restarts
  <2>1. call'[e] = Idle \/ call'[e] = call[e]
    BY <1>3 DEF Restarts, Restart
  <2>2. Idle.stage = "free"
    BY DEF Idle, Reply
  <2> QED BY <2>1, <2>2 DEF StageCase
<1> QED BY <1>1, <1>2, <1>3, ApiTo, DashboardTo DEF CallFrame

-------------------------------------------------------------------------------
(* Sessions and cookies.                                                   *)

Session == [state : SessionState, principal : Principal \cup {NoPrincipal}]

(* What a step makes of the table: rows are removed, run out, or one is    *)
(* created where there is room.                                            *)
Fades(before, after) ==
  \A k \in Cookies : after[k] = before[k] \/ after[k] = NoLonger \/ after[k] = NoSession

RoomFor(k, p) ==
  /\ Cardinality(Stored(Swept)) < MaxSessions /\ p \in Known
  /\ sessions' = [Swept EXCEPT ![k] = [state |-> "live", principal |-> p]]

SessionCase ==
  /\ sessions' \in [Cookies -> Session]
  /\ \/ Fades(sessions, sessions')
     \/ \E k \in Cookies : \/ sessions[k].state = "live"
                              /\ sessions' = [sessions EXCEPT ![k].state = "over"]
                           \/ \E p : RoomFor(k, p)

LEMMA SessionRows ==
  ASSUME ReviewInv
  PROVE  /\ sessions \in [Cookies -> Session] /\ Swept \in [Cookies -> Session]
         /\ Fades(sessions, Swept) /\ Fades(sessions, sessions)
         /\ NoLonger \in Session /\ NoSession \in Session
         /\ \A k \in Cookies : Removed(k) \in [Cookies -> Session] /\ Fades(sessions, Removed(k))
<1>1. sessions \in [Cookies -> Session]
  BY DEF ReviewInv, TypeOK, Session
<1>2. NoLonger \in Session /\ NoSession \in Session
  BY DEF Session, NoLonger, NoSession, SessionState
<1>3. Swept \in [Cookies -> Session] /\ Fades(sessions, Swept)
  BY <1>1, <1>2 DEF Swept, Fades
<1>4. \A k \in Cookies : Removed(k) \in [Cookies -> Session] /\ Fades(sessions, Removed(k))
  BY <1>1, <1>2 DEF Removed, Fades
<1> QED BY <1>1, <1>2, <1>3, <1>4 DEF Fades

LEMMA FiniteSwept ==
  ASSUME ReviewInv
  PROVE  IsFiniteSet(Stored(Swept)) /\ Cardinality(Stored(Swept)) \in Nat
<1>1. Stored(Swept) \subseteq Stored(sessions)
  BY DEF Stored, Swept, NoLonger
<1> QED BY <1>1, FS_Subset, FS_CardinalityType DEF ReviewInv, RoomInv

LEMMA SessionStep ==
  ASSUME ReviewInv, SessionsFrame
  PROVE  SessionCase
<1> USE SessionRows
<1>1. CASE UNCHANGED sessions
  BY <1>1 DEF SessionCase
<1>2. ASSUME NEW k \in Cookies, SessionEnds(k) PROVE SessionCase
  <2>1. [sessions EXCEPT ![k].state = "over"] \in [Cookies -> Session]
    BY DEF Session, SessionState
  <2> QED BY <1>2, <2>1 DEF SessionEnds, SessionCase
<1>3. ASSUME NEW c \in Browsers, NEW token \in Tokens, Login(c, token) PROVE SessionCase
  <2>1. CASE UNCHANGED sessions
    BY <2>1 DEF SessionCase
  <2>2. ASSUME NEW p, Authorized("dashboard", token, "read", p), CreateSession(c, p)
        PROVE  SessionCase
    <3>1. p \in Known
      BY <2>2, AuthorizedKnown DEF Process
    <3>2. CASE sessions' = Swept
      BY <3>2 DEF SessionCase
    <3>3. CASE ~(Cardinality(Stored(Swept)) \geq MaxSessions)
      <4>1. PICK k \in Cookies :
              sessions' = [Swept EXCEPT ![k] = [state |-> "live", principal |-> p]]
        BY <2>2, <3>3 DEF CreateSession
      <4>2. [state |-> "live", principal |-> p] \in Session
        BY <3>1, KnownType DEF Session, SessionState
      <4>3. sessions' \in [Cookies -> Session]
        BY <4>1, <4>2
      <4>4. Cardinality(Stored(Swept)) < MaxSessions
        BY <3>3, FiniteSwept, ReviewAssumption
      <4> QED BY <3>1, <4>1, <4>3, <4>4 DEF SessionCase, RoomFor
    <3> QED BY <2>2, <3>2, <3>3 DEF CreateSession
  <2> QED BY <1>3, <2>1, <2>2 DEF Login
<1>4. ASSUME NEW c \in Browsers, SignInRequired(c) PROVE SessionCase
  <2>1. jar[c] \in Cookies \cup {NoCookie}
    BY DEF ReviewInv, TypeOK
  <2>2. sessions' = sessions \/ (jar[c] \in Cookies /\ sessions' = Removed(jar[c]))
    BY <1>4, <2>1 DEF SignInRequired
  <2> QED BY <2>2 DEF SessionCase
<1>5. ASSUME NEW c \in Browsers, Logout(c) PROVE SessionCase
  <2>1. CASE UNCHANGED sessions
    BY <2>1 DEF SessionCase
  <2>2. CASE call[c].stage = "leaving" /\ sessions' = Removed(jar[c])
    <3>1. jar[c] \in Cookies
      BY <2>2 DEF ReviewInv, TypeOK, SessionInv
    <3> QED BY <2>2, <3>1 DEF SessionCase
  <2> QED BY <1>5, <2>1, <2>2 DEF Logout
<1>6. CASE Restarts
  <2>1. \/ UNCHANGED sessions
        \/ sessions' = [k \in Cookies |-> IF sessions[k].state = "unused" THEN NoSession
                                          ELSE NoLonger]
    BY <1>6 DEF Restarts, Restart
  <2> QED BY <2>1 DEF SessionCase, Fades
<1> QED BY <1>1, <1>2, <1>3, <1>4, <1>5, <1>6 DEF SessionsFrame

LEMMA FadedStored ==
  ASSUME NEW before, NEW after, Fades(before, after)
  PROVE  Stored(after) \subseteq Stored(before)
BY DEF Stored, Fades, NoLonger, NoSession

LEMMA RoomKept ==
  ASSUME ReviewInv, SessionCase
  PROVE  RoomInv'
<1>1. IsFiniteSet(Stored(sessions)) /\ Cardinality(Stored(sessions)) \leq MaxSessions
  BY DEF ReviewInv, RoomInv
<1>2. ASSUME Stored(sessions') \subseteq Stored(sessions) PROVE RoomInv'
  <2>1. /\ IsFiniteSet(Stored(sessions'))
        /\ Cardinality(Stored(sessions')) \leq Cardinality(Stored(sessions))
    BY <1>1, <1>2, FS_Subset
  <2>2. Cardinality(Stored(sessions')) \in Nat /\ Cardinality(Stored(sessions)) \in Nat
        /\ MaxSessions \in Nat
    BY <1>1, <2>1, FS_CardinalityType, ReviewAssumption
  <2>3. Cardinality(Stored(sessions')) \leq MaxSessions
    BY <1>1, <2>1, <2>2
  <2> QED BY <2>1, <2>3 DEF RoomInv
<1>3. CASE Fades(sessions, sessions')
  BY <1>2, <1>3, FadedStored
<1>4. ASSUME NEW k \in Cookies, sessions[k].state = "live",
             sessions' = [sessions EXCEPT ![k].state = "over"]
      PROVE  RoomInv'
  <2>1. Stored(sessions') \subseteq Stored(sessions)
    BY <1>4, SessionRows DEF Stored, Session
  <2> QED BY <1>2, <2>1
<1>5. ASSUME NEW k \in Cookies, NEW p, RoomFor(k, p) PROVE RoomInv'
  <2> DEFINE kept == Stored(Swept)
  <2>1. Stored(sessions') \subseteq kept \cup {k}
    BY <1>5, SessionRows DEF Stored, RoomFor
  <2>2. /\ IsFiniteSet(kept) /\ Cardinality(kept) \in Nat /\ Cardinality(kept) < MaxSessions
        /\ MaxSessions \in Nat
    BY <1>5, FiniteSwept, ReviewAssumption DEF RoomFor
  <2> HIDE DEF kept
  <2>3. /\ IsFiniteSet(kept \cup {k})
        /\ Cardinality(kept \cup {k}) \in {Cardinality(kept), Cardinality(kept) + 1}
    BY <2>2, FS_AddElement
  <2>4. /\ IsFiniteSet(Stored(sessions'))
        /\ Cardinality(Stored(sessions')) \leq Cardinality(kept \cup {k})
    BY <2>1, <2>3, FS_Subset
  <2>5. Cardinality(Stored(sessions')) \in Nat
    BY <2>4, FS_CardinalityType
  <2>6. Cardinality(Stored(sessions')) \leq MaxSessions
    BY <2>2, <2>3, <2>4, <2>5
  <2> QED BY <2>4, <2>6 DEF RoomInv
<1> QED BY <1>3, <1>4, <1>5 DEF SessionCase

LEMMA LivePrincipals ==
  ASSUME ReviewInv, SessionCase, NEW k \in Cookies, sessions'[k].state = "live"
  PROVE  sessions'[k].principal \in Known
<1>1. \A j \in Cookies : sessions[j].state = "live" => sessions[j].principal \in Known
  BY DEF ReviewInv, SessionInv
<1>2. CASE Fades(sessions, sessions')
  BY <1>1, <1>2 DEF Fades, NoLonger, NoSession
<1>3. ASSUME NEW j \in Cookies, sessions' = [sessions EXCEPT ![j].state = "over"]
      PROVE  sessions'[k].principal \in Known
  <2>1. sessions'[k] = IF k = j THEN [sessions[k] EXCEPT !.state = "over"] ELSE sessions[k]
    BY <1>3, SessionRows
  <2>2. k = j => sessions'[k].state = "over"
    BY <1>3, SessionRows DEF Session
  <2> QED BY <1>1, <2>1, <2>2
<1>4. ASSUME NEW j \in Cookies, NEW p, RoomFor(j, p)
      PROVE  sessions'[k].principal \in Known
  <2>1. CASE k = j
    BY <1>4, <2>1, SessionRows DEF RoomFor
  <2>2. CASE k # j
    <3>1. sessions'[k] = Swept[k]
      BY <1>4, <2>2, SessionRows DEF RoomFor
    <3>2. sessions'[k] = sessions[k]
      BY <3>1 DEF Swept, NoLonger
    <3> QED BY <1>1, <3>2
  <2> QED BY <2>1, <2>2
<1> QED BY <1>2, <1>3, <1>4 DEF SessionCase

LEMMA JarKept ==
  ASSUME ReviewInv, JarFrame, CallFrame
  PROVE  /\ jar' \in [Browsers -> Cookies \cup {NoCookie}]
         /\ \A c \in Browsers : call'[c].stage = "leaving" => jar'[c] # NoCookie
<1>1. /\ jar \in [Browsers -> Cookies \cup {NoCookie}]
      /\ \A c \in Browsers : call[c].stage = "leaving" => jar[c] # NoCookie
  BY DEF ReviewInv, TypeOK, SessionInv
<1>2. \A c \in Browsers : StageCase(c) /\ c \in Clients
  BY StageStep DEF Clients
<1>3. \A c \in Browsers :
        call'[c].stage = "leaving" => call'[c] = call[c] \/ (jar[c] # NoCookie /\ UNCHANGED jar)
  <2>1. ASSUME NEW c \in Browsers, c \in ApiClients
        PROVE  FALSE
    BY <2>1, ReviewAssumption
  <2> QED BY <1>2, <2>1 DEF StageCase
<1>4. CASE UNCHANGED jar
  BY <1>1, <1>3, <1>4
<1>5. ASSUME NEW c \in Browsers, NEW k \in Cookies, jar' = [jar EXCEPT ![c] = k]
      PROVE  /\ jar' \in [Browsers -> Cookies \cup {NoCookie}]
             /\ \A e \in Browsers : call'[e].stage = "leaving" => jar'[e] # NoCookie
  BY <1>1, <1>3, <1>5, ReviewAssumption
<1>6. ASSUME NEW c \in Browsers, jar' = [jar EXCEPT ![c] = NoCookie],
             Turn(c, Reply("dashboard", NoPrincipal, "ok", {}))
      PROVE  /\ jar' \in [Browsers -> Cookies \cup {NoCookie}]
             /\ \A e \in Browsers : call'[e].stage = "leaving" => jar'[e] # NoCookie
  <2>1. call'[c].stage = "free"
    <3>1. call'[c] = Reply("dashboard", NoPrincipal, "ok", {})
      BY <1>2, <1>6, TurnRow
    <3> QED BY <3>1 DEF Reply
  <2> QED BY <1>1, <1>3, <1>6, <2>1
<1> QED BY <1>4, <1>5, <1>6 DEF JarFrame, Login, CreateSession, Logout

LEMMA SessionKept ==
  ASSUME ReviewInv, SessionsFrame, JarFrame, CallFrame
  PROVE  SessionInv' /\ RoomInv'
BY SessionStep, LivePrincipals, JarKept, RoomKept DEF SessionInv

LEMMA DocumentKept ==
  ASSUME ReviewInv, DocumentFrame
  PROVE  document' \in [Process -> Documents]
BY DEF ReviewInv, TypeOK, DocumentFrame, Restarts, Restart

-------------------------------------------------------------------------------
(* The first places of a list.                                             *)

LEMMA Least ==
  ASSUME NEW T \in SUBSET Nat, T # {}
  PROVE  \E x \in T : \A y \in T : x <= y
<1>1. IsWellFoundedOn(OpToRel(<, Nat), Nat)
  BY NatLessThanWellFounded
<1>2. PICK x \in T : \A y \in T : ~(<<y, x>> \in OpToRel(<, Nat))
  BY <1>1, WFMin
<1>3. \A y \in T : ~(y < x)
  BY <1>2 DEF OpToRel
<1> QED BY <1>3

LEMMA Greatest ==
  ASSUME NEW n \in Nat, NEW S \in SUBSET (1..n), S # {}
  PROVE  Max(S) \in S /\ \A y \in S : y <= Max(S)
<1> DEFINE Bounds == {m \in Nat : \A y \in S : y <= m}
<1>1. n \in Bounds
  OBVIOUS
<1>2. PICK m \in Bounds : \A k \in Bounds : m <= k
  BY <1>1, Least
<1>3. m \in S
  <2> SUFFICES ASSUME m \notin S PROVE FALSE
    OBVIOUS
  <2>1. \A y \in S : y \in Nat /\ y <= m - 1 /\ y >= 1
    BY <1>2
  <2>2. m - 1 \in Nat
    <3>1. PICK y : y \in S
      OBVIOUS
    <3>2. y \in Nat /\ y <= m - 1 /\ y >= 1 /\ m \in Nat
      BY <1>2, <2>1, <3>1
    <3> QED BY <3>2
  <2>3. m - 1 \in Bounds
    BY <2>1, <2>2
  <2>4. m <= m - 1
    BY <1>2, <2>3
  <2> QED BY <1>2, <2>4
<1>4. \A y \in S : m >= y
  BY <1>2
<1>5. Max(S) \in S /\ \A y \in S : Max(S) >= y
  BY <1>3, <1>4 DEF Max
<1> QED BY <1>5

(* FirstOf takes the smallest places: nothing that is left comes before.   *)
LEMMA FirstPlaces ==
  ASSUME NEW n \in Nat, NEW places \in SUBSET (1..n)
  PROVE  /\ FirstOf(places) \subseteq places
         /\ \A i \in FirstOf(places), j \in places \ FirstOf(places) : i < j
         /\ places # {} => FirstOf(places) # {}
<1> DEFINE upto(i) == {j \in places : j \leq i}
<1>1. ASSUME NEW i \in places
      PROVE  IsFiniteSet(upto(i)) /\ Cardinality(upto(i)) \in Nat
  <2>1. IsFiniteSet(1..n)
    <3>1. 1 \in Int /\ n \in Int
      OBVIOUS
    <3> QED BY <3>1, FS_Interval
  <2>2. upto(i) \in SUBSET (1..n)
    OBVIOUS
  <2> HIDE DEF upto
  <2> QED BY <2>1, <2>2, FS_Subset, FS_CardinalityType
<1>2. \A i \in places : i \in FirstOf(places) <=> Cardinality(upto(i)) \leq PageSize
  BY DEF FirstOf, Leading
<1>3. ASSUME NEW i \in FirstOf(places), NEW j \in places \ FirstOf(places), ~(i < j)
      PROVE  FALSE
  <2>1. i \in places /\ j \in places /\ i \in Nat /\ j \in Nat /\ j <= i
    BY <1>3 DEF FirstOf, Leading
  <2>2. upto(j) \in SUBSET upto(i)
    <3>1. \A k \in places : k \in Int
      OBVIOUS
    <3>2. \A k \in places : k <= j => k <= i
      BY <2>1, <3>1
    <3> QED BY <3>2
  <2>3. Cardinality(upto(i)) \leq PageSize /\ ~(Cardinality(upto(j)) \leq PageSize)
    BY <1>2, <1>3, <2>1
  <2>4. /\ IsFiniteSet(upto(i)) /\ Cardinality(upto(i)) \in Nat
        /\ Cardinality(upto(j)) \in Nat /\ PageSize \in Nat
    BY <1>1, <2>1, ReviewAssumption
  <2> HIDE DEF upto
  <2>5. Cardinality(upto(j)) <= Cardinality(upto(i))
    BY <2>2, <2>4, FS_Subset
  <2> QED BY <2>3, <2>4, <2>5
<1>4. ASSUME places # {} PROVE FirstOf(places) # {}
  <2>1. PICK i \in places : \A j \in places : i <= j
    <3>1. places \in SUBSET Nat
      OBVIOUS
    <3> QED BY <1>4, <3>1, Least
  <2>2. upto(i) = {i}
    <3>1. \A k \in places : k \in Int
      OBVIOUS
    <3>2. \A k \in places : k <= i <=> k = i
      BY <2>1, <3>1
    <3> QED BY <3>2
  <2>3. Cardinality(upto(i)) = 1
    BY <2>2, FS_Singleton
  <2>4. 1 \leq PageSize
    BY ReviewAssumption
  <2>5. i \in FirstOf(places)
    BY <1>2, <2>3, <2>4
  <2> QED BY <2>5
<1> QED BY <1>3, <1>4 DEF FirstOf, Leading

LEMMA LastOfFirst ==
  ASSUME NEW n \in Nat, NEW places \in SUBSET (1..n), places # {}
  PROVE  /\ Max(FirstOf(places)) \in FirstOf(places) /\ Max(FirstOf(places)) \in places
         /\ \A j \in places : j <= Max(FirstOf(places)) <=> j \in FirstOf(places)
<1> DEFINE page == FirstOf(places)
<1>1. /\ page \subseteq places /\ page # {} /\ page \in SUBSET (1..n)
      /\ \A i \in page, j \in places \ page : i < j
  BY FirstPlaces
<1> HIDE DEF page
<1>2. Max(page) \in page /\ \A y \in page : y <= Max(page)
  BY <1>1, Greatest
<1>3. ASSUME NEW j \in places PROVE j <= Max(page) <=> j \in page
  <2>1. j \notin page => Max(page) < j
    BY <1>1, <1>2
  <2>2. Max(page) \in Int /\ j \in Int
    <3>1. \A k \in places : k \in Int
      OBVIOUS
    <3> QED BY <1>1, <1>2, <3>1
  <2> QED BY <1>2, <2>1, <2>2
<1> QED BY <1>1, <1>2, <1>3 DEF page

-------------------------------------------------------------------------------
(* Paging.                                                                 *)

PagingState ==
  [token : Tokens \cup {NoToken}, status : Filters \cup {"any"},
   after : Actions \cup {NoAction}, got : SUBSET Actions, steady : SUBSET Actions,
   done : BOOLEAN]

PagingKept == paging' \in [ApiClients -> PagingState] /\ PagingInv'

LEMMA PagingRow ==
  ASSUME ReviewInv, NEW c \in ApiClients
  PROVE  GoodPaging(paging[c]) /\ paging[c] \in PagingState
BY DEF ReviewInv, PagingInv, TypeOK, PagingState

LEMMA PagingGood ==
  ASSUME \A c \in ApiClients : \E row : row = paging'[c] /\ GoodPaging(row)'
  PROVE  PagingInv'
<1> SUFFICES ASSUME NEW c \in ApiClients PROVE GoodPaging(paging[c])'
  BY DEF PagingInv
<1>1. PICK row : row = paging'[c] /\ GoodPaging(row)'
  OBVIOUS
<1> QED BY <1>1 DEF GoodPaging

LEMMA NotPagingGood == NotPaging \in PagingState /\ GoodPaging(NotPaging)
<1>1. NotPaging \in PagingState
  BY DEF NotPaging, PagingState
<1>2. NotPaging.steady = {}
  BY DEF NotPaging
<1> QED BY <1>1, <1>2 DEF GoodPaging

(* While the store does not change.                                        *)
LEMMA PagingSame ==
  ASSUME UNCHANGED <<lifecycleVars, listed>>, document'["api"] = document["api"],
         NEW row, GoodPaging(row)
  PROVE  GoodPaging(row)'
<1>1. runtime' = runtime /\ listed' = listed
  BY DEF lifecycleVars
<1>2. (\A a \in row.steady : Exists(a) /\ Matches(a, row.status))'
  BY <1>1 DEF GoodPaging, Exists, Matches
<1>3. (\A t \in document["api"].tokens, a \in row.steady :
         t.token = row.token => CanAccess(PrincipalOf(document["api"], t), runtime[a].request))'
  BY <1>1 DEF GoodPaging
<1>4. (\A a \in row.steady \ row.got : ~row.done /\ Before(row.after, a))'
  BY <1>1 DEF GoodPaging, Before
<1> QED BY <1>2, <1>3, <1>4 DEF GoodPaging

LEMMA PagingTurn ==
  ASSUME ReviewInv, UNCHANGED <<lifecycleVars, listed, document>>, NEW c \in ApiClients,
         NEW row \in PagingState, GoodPaging(row), paging' = [paging EXCEPT ![c] = row]
  PROVE  PagingKept
<1>1. \A e \in ApiClients : paging[e] \in PagingState /\ GoodPaging(paging[e])
  BY PagingRow
<1>2. paging \in [ApiClients -> PagingState]
  BY DEF ReviewInv, TypeOK, PagingState
<1>3. ASSUME NEW e \in ApiClients PROVE \E r : r = paging'[e] /\ GoodPaging(r)'
  <2>1. PICK r : r = paging'[e]
    OBVIOUS
  <2>2. GoodPaging(r)
    BY <1>1, <1>2, <2>1
  <2> QED BY <2>1, <2>2, PagingSame
<1>4. PagingInv'
  BY <1>3, PagingGood
<1> QED BY <1>2, <1>4 DEF PagingKept

LEMMA WatchKept ==
  ASSUME ReviewInv, RuntimeStep, ListStep, Watch, UNCHANGED document
  PROVE  PagingKept
<1>1. ASSUME NEW c \in ApiClients
      PROVE  \E r : r \in PagingState /\ r = paging'[c] /\ GoodPaging(r)'
  <2>0. PICK row : row = paging[c]
    OBVIOUS
  <2> DEFINE kept == {a \in row.steady : row.status = "any" \/ runtime'[a].status = row.status}
  <2>1. row \in PagingState /\ GoodPaging(row)
    BY <2>0, PagingRow
  <2>2. paging'[c] = [row EXCEPT !.steady = kept]
    BY <2>0 DEF Watch
  <2>3. kept \subseteq row.steady /\ row.steady \subseteq Actions
    BY <2>1 DEF PagingState
  <2>4. PICK r : r = [row EXCEPT !.steady = kept]
    OBVIOUS
  <2> HIDE DEF kept
  <2>5. /\ r \in PagingState /\ r.steady = kept /\ r.token = row.token
        /\ r.status = row.status /\ r.got = row.got /\ r.done = row.done /\ r.after = row.after
    BY <2>1, <2>3, <2>4 DEF PagingState
  <2>6. r.token = NoToken => r.steady = {}
    BY <2>1, <2>3, <2>5 DEF GoodPaging
  <2>7. (\A a \in r.steady : Exists(a) /\ Matches(a, r.status))'
    <3>1. ASSUME NEW a \in kept PROVE runtime'[a].status # "absent"
      BY <2>1, <2>3 DEF GoodPaging, RuntimeStep
    <3>2. ASSUME NEW a \in kept
          PROVE  row.status = "any" \/ runtime'[a].status = row.status
      BY DEF kept
    <3> QED BY <2>5, <3>1, <3>2 DEF Exists, Matches
  <2>8. (\A t \in document["api"].tokens, a \in r.steady :
           t.token = r.token => CanAccess(PrincipalOf(document["api"], t), runtime[a].request))'
    <3>1. \A a \in kept : runtime'[a].request = runtime[a].request
      BY <2>3 DEF RuntimeStep
    <3> QED BY <2>1, <2>3, <2>5, <3>1 DEF GoodPaging
  <2>9. (\A a \in r.steady \ r.got : ~r.done /\ Before(r.after, a))'
    <3>1. ASSUME NEW a \in kept \ row.got PROVE ~row.done /\ Before(row.after, a)'
      <4>1. ~row.done /\ Before(row.after, a)
        BY <2>1, <2>3 DEF GoodPaging
      <4> QED BY <4>1 DEF ListStep
    <3>2. \A a \in r.steady \ r.got : a \in kept \ row.got
      BY <2>5
    <3>3. ASSUME NEW a \in r.steady \ r.got PROVE ~r.done /\ Before(r.after, a)'
      <4>1. ~row.done /\ Before(row.after, a)'
        BY <3>1, <3>2
      <4> QED BY <2>5, <4>1 DEF Before
    <3> QED BY <3>3
  <2>10. GoodPaging(r)'
    BY <2>6, <2>7, <2>8, <2>9 DEF GoodPaging
  <2> QED BY <2>2, <2>4, <2>5, <2>10
<1>2. PagingInv'
  BY <1>1, PagingGood
<1>3. paging' \in [ApiClients -> PagingState]
  BY <1>1 DEF Watch
<1> QED BY <1>2, <1>3 DEF PagingKept

(* A page of the places that are left, all of them after the cursor.       *)
LEMMA PageGood ==
  ASSUME ReviewInv, UNCHANGED <<lifecycleVars, listed, document>>, NEW c \in ApiClients, NEW p,
         NEW places \in SUBSET (1..Len(listed)), NEW progress \in PagingState,
         Page(c, p, places, progress),
         progress.token # NoToken,
         \A a \in progress.steady : Exists(a) /\ Matches(a, progress.status),
         \A t \in document["api"].tokens, a \in progress.steady :
           t.token = progress.token =>
             CanAccess(PrincipalOf(document["api"], t), runtime[a].request),
         \A a \in progress.steady \ progress.got : \E j \in places : listed[j] = a
  PROVE  PagingKept
<1> DEFINE page == FirstOf(places)
           cursor == IF places = {} THEN NoAction ELSE Cursor(places)
           got == progress.got \cup ActionsAt(page)
           done == places = page
<1>1. Len(listed) \in Nat /\ \A i \in 1..Len(listed) : listed[i] \in Actions
  BY LenProperties, ElementOfSeq DEF ReviewInv, TypeOK
<1>2. page \subseteq places
  BY <1>1, FirstPlaces
<1>3. ActionsAt(page) \subseteq Actions
  BY <1>1, <1>2 DEF ActionsAt
<1>4. cursor \in Actions \cup {NoAction}
  <2>1. places # {} => Max(FirstOf(places)) \in 1..Len(listed)
    BY <1>1, LastOfFirst
  <2> QED BY <1>1, <2>1 DEF Cursor
<1>5. got \subseteq Actions
  BY <1>3 DEF PagingState
<1>6. done \in BOOLEAN
  OBVIOUS
<1>7. PICK row : row = [progress EXCEPT !.after = cursor, !.got = got, !.done = done]
  OBVIOUS
<1>8. paging' = [paging EXCEPT ![c] = row]
  BY <1>7 DEF Page
<1>9. ASSUME NEW a \in progress.steady \ got PROVE ~done /\ Before(cursor, a)
  <2>1. PICK j \in places : listed[j] = a
    OBVIOUS
  <2>2. j \notin page
    BY <2>1 DEF ActionsAt
  <2>3. places # {} /\ ~done
    BY <2>1, <2>2
  <2>4. /\ Max(page) \in places /\ ~(j <= Max(page))
    BY <1>1, <2>1, <2>2, <2>3, LastOfFirst
  <2>5. Max(page) \in 1..Len(listed) /\ j \in 1..Len(listed) /\ Max(page) < j
    <3>1. Max(page) \in 1..Len(listed) /\ j \in 1..Len(listed)
      BY <2>4
    <3>2. Max(page) \in Int /\ j \in Int
      BY <1>1, <3>1
    <3> HIDE DEF page
    <3> QED BY <2>4, <3>1, <3>2
  <2>6. cursor = listed[Max(page)]
    BY <2>3 DEF Cursor
  <2> QED BY <2>1, <2>3, <2>5, <2>6 DEF Before
<1> HIDE DEF cursor, got, done
<1>10. /\ row \in PagingState /\ row.token = progress.token /\ row.status = progress.status
       /\ row.steady = progress.steady /\ row.after = cursor /\ row.got = got /\ row.done = done
  BY <1>4, <1>5, <1>6, <1>7 DEF PagingState
<1>11. GoodPaging(row)
  <2>1. row.token # NoToken
    BY <1>10
  <2>2. \A a \in row.steady : Exists(a) /\ Matches(a, row.status)
    BY <1>10
  <2>3. \A t \in document["api"].tokens, a \in row.steady :
          t.token = row.token => CanAccess(PrincipalOf(document["api"], t), runtime[a].request)
    BY <1>10
  <2>4. \A a \in row.steady \ row.got : ~row.done /\ Before(row.after, a)
    BY <1>9, <1>10
  <2> QED BY <2>1, <2>2, <2>3, <2>4 DEF GoodPaging
<1> QED BY <1>8, <1>10, <1>11, PagingTurn

(* Whom a token stands for.                                                *)
LEMMA TokensPrincipal ==
  ASSUME ReviewInv, NEW token, NEW p, NEW scope, Authorized("api", token, scope, p)
  PROVE  /\ token \in Tokens /\ token # NoToken
         /\ \A t \in document["api"].tokens :
              t.token = token => p = PrincipalOf(document["api"], t)
<1>1. document["api"] \in Documents
  BY DEF ReviewInv, TypeOK, Process
<1>2. PICK u \in document["api"].tokens :
        u.token = token /\ p = PrincipalOf(document["api"], u)
  BY DEF Authorized
<1>3. u \in Credential
  BY <1>1, <1>2, ReviewAssumption DEF Document
<1>4. token \in Tokens /\ token # NoToken
  BY <1>2, <1>3, ReviewAssumption DEF Credential
<1>5. \A t \in document["api"].tokens : t.token = token => t = u
  BY <1>1, <1>2, OneToken
<1> QED BY <1>2, <1>4, <1>5

LEMMA FirstPageKept ==
  ASSUME ReviewInv, NEW c \in ApiClients, NEW token \in Tokens, NEW filter \in Filters,
         FirstPage(c, token, filter)
  PROVE  PagingKept
<1>1. PICK p : /\ Authorized("api", token, "read", p)
               /\ Page(c, p, Entries(p, filter),
                       [NotPaging EXCEPT !.token = token, !.status = filter,
                                         !.steady = ActionsAt(Entries(p, filter))])
  BY DEF FirstPage
<1>2. /\ token # NoToken
      /\ \A t \in document["api"].tokens :
           t.token = token => p = PrincipalOf(document["api"], t)
  BY <1>1, TokensPrincipal
<1>3. PICK places : places = Entries(p, filter)
  OBVIOUS
<1>4. PICK steady : steady = ActionsAt(places)
  OBVIOUS
<1>5. /\ places \in SUBSET (1..Len(listed)) /\ steady \in SUBSET Actions
      /\ \A a \in steady : CanAccess(p, runtime[a].request) /\ Exists(a) /\ Matches(a, filter)
  BY <1>3, <1>4, EntriesShown
<1>6. \A a \in steady : \E j \in places : listed[j] = a
  BY <1>4 DEF ActionsAt
<1>7. PICK progress : progress = [NotPaging EXCEPT !.token = token, !.status = filter,
                                                   !.steady = steady]
  OBVIOUS
<1>8. /\ progress \in PagingState /\ progress.token = token /\ progress.status = filter
      /\ progress.steady = steady
  BY <1>5, <1>7, NotPagingGood DEF PagingState
<1>9. Page(c, p, places, progress)
  BY <1>1, <1>3, <1>4, <1>7
<1>10. UNCHANGED <<lifecycleVars, listed, document>>
  BY DEF FirstPage, store
<1>11. \A t \in document["api"].tokens, a \in progress.steady :
         t.token = progress.token =>
           CanAccess(PrincipalOf(document["api"], t), runtime[a].request)
  BY <1>2, <1>5, <1>8
<1>12. /\ progress.token # NoToken
       /\ \A a \in progress.steady : Exists(a) /\ Matches(a, progress.status)
       /\ \A a \in progress.steady \ progress.got : \E j \in places : listed[j] = a
  BY <1>2, <1>5, <1>6, <1>8
<1> QED BY <1>5, <1>8, <1>9, <1>10, <1>11, <1>12, PageGood

LEMMA NextPageKept ==
  ASSUME ReviewInv, NEW c \in ApiClients, NextPage(c)
  PROVE  PagingKept
<1>1. PICK p : /\ Authorized("api", paging[c].token, "read", p)
               /\ LET places == Entries(p, paging[c].status)
                      after == {i \in places : listed[i] = paging[c].after} IN
                  IF after = {}
                  THEN /\ Turn(c, Reply("api", NoPrincipal, "invalid cursor", {}))
                       /\ paging' = [paging EXCEPT ![c] = NotPaging]
                  ELSE \E i \in after : Page(c, p, {j \in places : j > i}, paging[c])
  BY DEF NextPage
<1>2. PICK row : row = paging[c]
  OBVIOUS
<1>3. row \in PagingState /\ GoodPaging(row)
  BY <1>2, PagingRow
<1>4. /\ row.token # NoToken
      /\ \A t \in document["api"].tokens :
           t.token = row.token => p = PrincipalOf(document["api"], t)
  BY <1>1, <1>2, TokensPrincipal
<1>5. UNCHANGED <<lifecycleVars, listed, document>>
  BY DEF NextPage, store
<1>6. CASE paging' = [paging EXCEPT ![c] = NotPaging]
  BY <1>5, <1>6, NotPagingGood, PagingTurn
<1>7. ASSUME NEW i \in Entries(p, row.status), listed[i] = row.after,
             Page(c, p, {j \in Entries(p, row.status) : j > i}, row)
      PROVE  PagingKept
  <2>1. PICK rest : rest = {j \in Entries(p, row.status) : j > i}
    OBVIOUS
  <2>2. PICK places : places = Entries(p, row.status)
    OBVIOUS
  <2>3. /\ places \subseteq 1..Len(listed)
        /\ \A a \in Actions :
             CanAccess(p, runtime[a].request) /\ Exists(a) /\ Matches(a, row.status) =>
               \E j \in places : listed[j] = a
    BY <2>2, EntriesShown
  <2>4. /\ listed \in Seq(Actions) /\ Len(listed) \in Nat
        /\ \A k, l \in 1..Len(listed) : listed[k] = listed[l] => k = l
    BY InListed, LenProperties DEF ReviewInv, TypeOK
  <2>5. rest \in SUBSET (1..Len(listed)) /\ Page(c, p, rest, row)
    BY <1>7, <2>1, <2>2, <2>3
  <2>6. PrincipalOf(document["api"], CHOOSE t \in document["api"].tokens : t.token = row.token) = p
        /\ \E t \in document["api"].tokens : t.token = row.token
    BY <1>1, <1>2, <1>4 DEF Authorized
  <2>7. ASSUME NEW a \in row.steady \ row.got PROVE \E j \in rest : listed[j] = a
    <3>1. Before(row.after, a) /\ Exists(a) /\ Matches(a, row.status) /\ a \in Actions
      BY <1>3 DEF GoodPaging, PagingState
    <3>2. CanAccess(p, runtime[a].request)
      BY <1>3, <1>4, <2>6 DEF GoodPaging
    <3>3. PICK j \in places : listed[j] = a
      BY <2>3, <3>1, <3>2
    <3>4. PICK k, l \in 1..Len(listed) : k < l /\ listed[k] = row.after /\ listed[l] = a
      BY <3>1 DEF Before
    <3>5. k = i /\ l = j
      BY <1>7, <2>2, <2>3, <2>4, <3>3, <3>4
    <3>6. j > i
      BY <2>4, <3>4, <3>5
    <3> QED BY <2>1, <2>2, <3>3, <3>6
  <2>8. \A t \in document["api"].tokens, a \in row.steady :
          t.token = row.token => CanAccess(PrincipalOf(document["api"], t), runtime[a].request)
    BY <1>3 DEF GoodPaging
  <2>9. \A a \in row.steady : Exists(a) /\ Matches(a, row.status)
    BY <1>3 DEF GoodPaging
  <2> QED BY <1>3, <1>4, <1>5, <2>5, <2>7, <2>8, <2>9, PageGood
<1> QED BY <1>1, <1>2, <1>6, <1>7

LEMMA PagingStep ==
  ASSUME ReviewInv, StoreFrame, PagingFrame
  PROVE  PagingKept
<1>1. RuntimeStep /\ ListStep
  BY RuntimeKept, ListKept
<1>2. paging \in [ApiClients -> PagingState]
  BY DEF ReviewInv, TypeOK, PagingState
<1>3. ASSUME UNCHANGED <<paging, lifecycleVars, listed>>, document'["api"] = document["api"]
      PROVE  PagingKept
  <2>1. ASSUME NEW c \in ApiClients PROVE \E r : r = paging'[c] /\ GoodPaging(r)'
    <3>1. PICK r : r = paging[c]
      OBVIOUS
    <3>2. GoodPaging(r)
      BY <3>1, PagingRow
    <3> QED BY <1>3, <3>1, <3>2, PagingSame
  <2>2. PagingInv'
    BY <2>1, PagingGood
  <2> QED BY <1>2, <1>3, <2>2 DEF PagingKept
<1>4. CASE UNCHANGED <<paging, lifecycleVars, listed, document>>
  BY <1>3, <1>4
<1>5. CASE Watch /\ UNCHANGED document
  BY <1>1, <1>5, WatchKept
<1>6. ASSUME NEW process \in Process, NEW d \in Documents, Restart(process, d)
      PROVE  PagingKept
  <2>1. CASE process = "dashboard"
    <3>1. UNCHANGED <<paging, lifecycleVars, listed>>
      BY <1>6, <2>1 DEF Restart, store
    <3>2. document'["api"] = document["api"]
      BY <1>6, <2>1 DEF Restart, ReviewInv, TypeOK, Process
    <3> QED BY <1>3, <3>1, <3>2
  <2>2. CASE process = "api"
    <3>1. /\ paging' = [c \in ApiClients |->
                 [paging[c] EXCEPT !.steady = @ \cap Seen(d, paging[c].token)]]
          /\ document' = [document EXCEPT !["api"] = d]
          /\ runtime' = runtime /\ listed' = listed
      BY <1>6, <2>2 DEF Restart, store, lifecycleVars
    <3>2. document'["api"] = d
      BY <3>1 DEF ReviewInv, TypeOK, Process
    <3>3. ASSUME NEW c \in ApiClients
          PROVE  \E r : r \in PagingState /\ r = paging'[c] /\ GoodPaging(r)'
      <4>1. PICK row, r : row = paging[c] /\ r = paging'[c]
        OBVIOUS
      <4>2. row \in PagingState /\ GoodPaging(row)
        BY <4>1, PagingRow
      <4>3. PICK steady : steady = row.steady \cap Seen(d, row.token)
        OBVIOUS
      <4>4. r = [row EXCEPT !.steady = steady]
        BY <3>1, <4>1, <4>3
      <4>5. /\ r \in PagingState /\ r.steady = steady /\ r.token = row.token
            /\ r.status = row.status /\ r.got = row.got /\ r.done = row.done
            /\ r.after = row.after
        BY <4>2, <4>3, <4>4 DEF PagingState
      <4>6. r.token = NoToken => r.steady = {}
        BY <4>2, <4>3, <4>5 DEF GoodPaging
      <4>7. (\A a \in r.steady : Exists(a) /\ Matches(a, r.status))'
        BY <3>1, <4>2, <4>3, <4>5 DEF GoodPaging, Exists, Matches
      <4>8. ASSUME NEW t \in d.tokens, NEW a \in steady, t.token = row.token
            PROVE  CanAccess(PrincipalOf(d, t), runtime[a].request)
        <5>1. PICK u \in d.tokens :
                u.token = row.token /\ CanAccess(PrincipalOf(d, u), runtime[a].request)
          BY <4>3 DEF Seen
        <5>2. t = u
          BY <4>8, <5>1, OneToken
        <5> QED BY <5>1, <5>2
      <4>9. (\A t \in document["api"].tokens, a \in r.steady :
               t.token = r.token => CanAccess(PrincipalOf(document["api"], t), runtime[a].request))'
        BY <3>1, <3>2, <4>5, <4>8
      <4>10. (\A a \in r.steady \ r.got : ~r.done /\ Before(r.after, a))'
        BY <3>1, <4>2, <4>3, <4>5 DEF GoodPaging, Before
      <4>11. GoodPaging(r)'
        BY <4>6, <4>7, <4>9, <4>10 DEF GoodPaging
      <4> QED BY <4>1, <4>5, <4>11
    <3>4. PagingInv'
      BY <3>3, PagingGood
    <3>5. paging' \in [ApiClients -> PagingState]
      BY <3>1, <3>3
    <3> QED BY <3>4, <3>5 DEF PagingKept
  <2> QED BY <2>1, <2>2 DEF Process
<1> QED BY <1>4, <1>5, <1>6, FirstPageKept, NextPageKept DEF PagingFrame, Restarts

-------------------------------------------------------------------------------
(* Polling.                                                                *)

PollingState ==
  [token : Tokens \cup {NoToken}, only : Actions \cup {NoAction}, after : 0..MaxReceipts,
   got : SUBSET (1..MaxReceipts), raced : SUBSET Actions]

(* Who polls the receipts.                                                 *)
PollsAs(token, row) == row.stage = "polling" => row.via = "api" /\ TokenOf(token, row.principal)

LEMMA PollingRow ==
  ASSUME ReviewInv, NEW c \in ApiClients
  PROVE  /\ polling[c] \in PollingState /\ GoodPolling(polling[c])
         /\ PollsAs(polling[c].token, call[c])
BY DEF ReviewInv, PollingInv, TypeOK, PollingState, PollsAs

LEMMA PollingGood ==
  ASSUME \A c \in ApiClients : \E row, r :
           /\ row = polling'[c] /\ GoodPolling(row)'
           /\ r = call'[c] /\ PollsAs(row.token, r)'
  PROVE  PollingInv'
<1> SUFFICES ASSUME NEW c \in ApiClients
             PROVE  /\ GoodPolling(polling[c])'
                    /\ (call[c].stage = "polling" =>
                          call[c].via = "api" /\ TokenOf(polling[c].token, call[c].principal))'
  BY DEF PollingInv
<1>1. PICK row, r : /\ row = polling'[c] /\ GoodPolling(row)'
                    /\ r = call'[c] /\ PollsAs(row.token, r)'
  OBVIOUS
<1>2. GoodPolling(polling[c])'
  BY <1>1 DEF GoodPolling
<1>3. (call[c].stage = "polling" =>
         call[c].via = "api" /\ TokenOf(polling[c].token, call[c].principal))'
  BY <1>1 DEF PollsAs, TokenOf
<1> QED BY <1>2, <1>3

LEMMA LogFacts ==
  ASSUME ReviewInv
  PROVE  /\ Len(log) \in Nat /\ Len(log) \leq MaxReceipts /\ MaxReceipts \in Nat
         /\ \A n \in 1..Len(log) : log[n] \in Actions /\ Exists(log[n])
BY LenProperties, ElementOfSeq, ReviewAssumption DEF ReviewInv, TypeOK, LogInv

(* New receipts come after the position of everybody.                      *)
LEMMA PollingSame ==
  ASSUME ReviewInv, RuntimeStep, LogStep, document'["api"] = document["api"],
         NEW row \in PollingState, GoodPolling(row)
  PROVE  GoodPolling(row)'
<1>1. /\ Len(log) \in Nat /\ Len(log) \leq Len(log') /\ Len(log') \in Nat
      /\ \A n \in 1..Len(log) : log[n] \in Actions /\ log'[n] = log[n]
  BY LogFacts, LenProperties DEF LogStep
<1>2. row.after \in Nat /\ row.after \leq Len(log)
  <2>1. row.after \in 0..MaxReceipts
    BY DEF PollingState
  <2> QED BY <2>1, LogFacts DEF GoodPolling
<1>3. \A n \in 1..row.after : n \in 1..Len(log)
  BY <1>1, <1>2
<1>4. \A n \in 1..row.after : runtime'[log'[n]].request = runtime[log[n]].request /\ log'[n] = log[n]
  BY <1>1, <1>3 DEF RuntimeStep
<1>5. row.after \leq Len(log') /\ (row.token = NoToken => row.after = 0)
  BY <1>1, <1>2 DEF GoodPolling
<1>6. (\A t \in document["api"].tokens, n \in 1..row.after :
         /\ t.token = row.token /\ Wanted(row, n)
         /\ CanAccess(PrincipalOf(document["api"], t), runtime[log[n]].request)
         => n \in row.got \/ log[n] \in row.raced)'
  BY <1>4 DEF GoodPolling, Wanted
<1> QED BY <1>5, <1>6 DEF GoodPolling

LEMMA BegunType ==
  ASSUME NEW token \in Tokens, NEW only \in Actions \cup {NoAction},
         NEW row, row = [token |-> token, only |-> only, after |-> 0, got |-> {}, raced |-> {}]
  PROVE  row \in PollingState /\ row.token = token /\ row.after = 0
<1>1. 0 \in 0..MaxReceipts
  BY ReviewAssumption
<1> QED BY <1>1 DEF PollingState

(* A client that begins has passed no receipt.                             *)
LEMMA BegunGood ==
  ASSUME ReviewInv, NEW token \in Tokens, NEW only \in Actions \cup {NoAction},
         NEW row, row = [token |-> token, only |-> only, after |-> 0, got |-> {}, raced |-> {}]
  PROVE  row \in PollingState /\ GoodPolling(row) /\ row.token = token
<1>1. /\ row \in PollingState /\ row.token = token /\ row.after = 0
  BY BegunType
<1>2. row.after \leq Len(log)
  BY <1>1, LogFacts
<1>3. \A n \in 1..row.after : FALSE
  BY <1>1
<1> QED BY <1>1, <1>2, <1>3 DEF GoodPolling

LEMMA ProgressGood ==
  ASSUME ReviewInv, NEW c \in ApiClients, NEW token \in Tokens,
         NEW only \in Actions \cup {NoAction}, NEW row, row = Progress(c, token, only)
  PROVE  row \in PollingState /\ GoodPolling(row) /\ row.token = token
<1>1. CASE polling[c].token = token /\ row = polling[c]
  BY <1>1, PollingRow
<1>2. PICK begun : begun = [NotPolling EXCEPT !.token = token, !.only = only]
  OBVIOUS
<1>3. begun = [token |-> token, only |-> only, after |-> 0, got |-> {}, raced |-> {}]
  BY <1>2 DEF NotPolling
<1>4. begun \in PollingState /\ GoodPolling(begun) /\ begun.token = token
  BY <1>3, BegunGood
<1>5. \/ row = polling[c] /\ polling[c].token = token
     \/ row = begun
  BY <1>2 DEF Progress
<1> QED BY <1>1, <1>4, <1>5

LEMMA PollKept ==
  ASSUME ReviewInv, NEW c \in ApiClients, NEW token \in Tokens,
         NEW only \in Actions \cup {NoAction}, Poll(c, token, only),
         NEW row, row = polling'[c], NEW r, r = call'[c]
  PROVE  row \in PollingState /\ GoodPolling(row) /\ PollsAs(row.token, r)
<1>1. polling \in [ApiClients -> PollingState] /\ c \in Clients
  BY DEF ReviewInv, TypeOK, PollingState, Clients
<1>2. PICK p :
        /\ Authorized("api", token, "audit", p)
        /\ \/ /\ Turn(c, [Reply("api", p, "none", ActionsAt(Entries(p, "any")))
                             EXCEPT !.stage = "polling"])
              /\ polling' = [polling EXCEPT ![c] = Progress(c, token, only)]
           \/ Turn(c, Reply("api", NoPrincipal, "absent", {})) /\ UNCHANGED polling
  BY PollTurn
<1>3. CASE /\ Turn(c, [Reply("api", p, "none", ActionsAt(Entries(p, "any")))
                         EXCEPT !.stage = "polling"])
           /\ polling' = [polling EXCEPT ![c] = Progress(c, token, only)]
  <2>1. row = Progress(c, token, only)
    BY <1>1, <1>3
  <2>2. row \in PollingState /\ GoodPolling(row) /\ row.token = token
    BY <2>1, ProgressGood
  <2>3. r = [Reply("api", p, "none", ActionsAt(Entries(p, "any"))) EXCEPT !.stage = "polling"]
    BY <1>1, <1>3, TurnRow
  <2>4. r.via = "api" /\ r.principal = p
    BY <2>3 DEF Reply
  <2>5. TokenOf(token, p)
    BY <1>2 DEF Authorized, TokenOf
  <2> QED BY <2>2, <2>4, <2>5 DEF PollsAs
<1>4. CASE Turn(c, Reply("api", NoPrincipal, "absent", {})) /\ UNCHANGED polling
  <2>1. row \in PollingState /\ GoodPolling(row)
    BY <1>4, PollingRow
  <2>2. r = Reply("api", NoPrincipal, "absent", {})
    BY <1>1, <1>4, TurnRow
  <2>3. r.stage = "free"
    BY <2>2 DEF Reply
  <2> QED BY <2>1, <2>3 DEF PollsAs
<1> QED BY <1>2, <1>3, <1>4

LEMMA PollReceiptsKept ==
  ASSUME ReviewInv, NEW c \in ApiClients, PollReceipts(c), NEW row, row = polling'[c]
  PROVE  row \in PollingState /\ GoodPolling(row)
<1>1. PICK old : old = polling[c]
  OBVIOUS
<1>2. PICK p, visible : p = call[c].principal /\ visible = call[c].shown
  OBVIOUS
<1>3. PICK places : places = {n \in old.after + 1 .. Len(log) :
                                log[n] \in visible /\ Wanted(old, n)}
  OBVIOUS
<1>4. PICK page : page = FirstOf(places)
  OBVIOUS
<1>5. PICK raced : raced = old.raced \cup (ActionsAt(Entries(p, "any")) \ visible)
  OBVIOUS
<1>6. PICK after : after = IF page = {} THEN old.after ELSE Max(page)
  OBVIOUS
<1>7. PICK got : got = old.got \cup page
  OBVIOUS
<1>8. polling \in [ApiClients -> PollingState]
  BY DEF ReviewInv, TypeOK, PollingState
<1>9. row = [old EXCEPT !.after = after, !.got = got, !.raced = raced]
  <2>1. PICK seen : seen = ActionsAt(Entries(p, "any")) \ visible
    OBVIOUS
  <2>2. page = FirstOf({n \in polling[c].after + 1 .. Len(log) :
                          log[n] \in call[c].shown /\ Wanted(polling[c], n)})
    BY <1>1, <1>2, <1>3, <1>4
  <2>3. seen = ActionsAt(Entries(call[c].principal, "any")) \ call[c].shown
    BY <1>2, <2>1
  <2>4. polling' = [polling EXCEPT ![c].after = IF page = {} THEN @ ELSE Max(page),
                                   ![c].got = @ \cup page,
                                   ![c].raced = @ \cup seen]
    BY <2>2, <2>3 DEF PollReceipts, Position
  <2>5. polling[c] \in PollingState
    BY <1>8
  <2>6. row = [old EXCEPT !.after = IF page = {} THEN @ ELSE Max(page),
                          !.got = @ \cup page, !.raced = @ \cup seen]
    BY <1>1, <1>8, <2>4, <2>5 DEF PollingState
  <2>7. raced = old.raced \cup seen
    BY <1>5, <2>1
  <2> QED BY <1>1, <1>6, <1>7, <2>5, <2>6, <2>7 DEF PollingState
<1>10. /\ old \in PollingState /\ GoodPolling(old) /\ TokenOf(old.token, p)
  BY <1>1, <1>2, PollingRow DEF PollReceipts, PollsAs
<1>11. /\ Len(log) \in Nat /\ Len(log) \leq MaxReceipts /\ MaxReceipts \in Nat
       /\ \A n \in 1..Len(log) : log[n] \in Actions /\ Exists(log[n])
  BY LogFacts
<1>12. old.after \in Nat /\ old.after \leq Len(log) /\ old.got \subseteq 1..MaxReceipts
       /\ old.raced \subseteq Actions
  BY <1>10, <1>11 DEF PollingState, GoodPolling
<1>13. places \in SUBSET (1..Len(log)) /\ \A n \in places : n > old.after
  BY <1>3, <1>11, <1>12
<1>14. page \subseteq places /\ (places # {} => page # {})
  BY <1>4, <1>11, <1>13, FirstPlaces
<1>15. page # {} => /\ Max(page) \in page
                    /\ \A n \in places : n \leq Max(page) <=> n \in page
  <2>1. page # {} => places # {}
    BY <1>14
  <2> QED BY <1>4, <1>11, <1>13, <2>1, LastOfFirst
<1>16. after \in Nat /\ after \leq Len(log)
  <2>1. CASE page = {}
    BY <1>6, <1>12, <2>1
  <2>2. CASE page # {}
    <3>1. after \in 1..Len(log)
      BY <1>6, <1>13, <1>14, <1>15, <2>2
    <3> QED BY <1>11, <3>1
  <2> QED BY <2>1, <2>2
<1>17. after \in 0..MaxReceipts
  BY <1>11, <1>16
<1>18. got \subseteq 1..MaxReceipts
  <2>1. page \subseteq 1..Len(log)
    BY <1>13, <1>14
  <2>2. \A n \in 1..Len(log) : n \in 1..MaxReceipts
    BY <1>11
  <2> QED BY <1>7, <1>12, <2>1, <2>2
<1>19. raced \subseteq Actions
  BY <1>5, <1>12, EntriesShown
<1>20. /\ row \in PollingState /\ row.token = old.token /\ row.after = after
       /\ row.only = old.only /\ row.got = got /\ row.raced = raced
  BY <1>9, <1>10, <1>17, <1>18, <1>19 DEF PollingState
<1>21. document["api"] \in Documents
  BY DEF ReviewInv, TypeOK, Process
<1>22. \A t \in document["api"].tokens :
         t.token = old.token => PrincipalOf(document["api"], t) = p
  BY <1>10, <1>21, OneToken DEF TokenOf
<1>23. ASSUME NEW n \in 1..after, CanAccess(p, runtime[log[n]].request), Wanted(old, n),
              \E t \in document["api"].tokens : t.token = old.token
       PROVE  n \in got \/ log[n] \in raced
  <2>1. CASE n <= old.after
    <3>1. n \in 1..old.after
      BY <1>12, <1>16, <2>1
    <3>2. n \in old.got \/ log[n] \in old.raced
      BY <1>10, <1>22, <1>23, <3>1 DEF GoodPolling
    <3> QED BY <1>5, <1>7, <3>2
  <2>2. CASE n > old.after
    <3>1. n \in old.after + 1 .. Len(log) /\ n \in 1..Len(log)
      BY <1>11, <1>12, <1>16, <2>2
    <3>2. CASE log[n] \in visible
      <4>1. n \in places
        BY <1>3, <1>23, <3>1, <3>2
      <4>2. page # {} /\ n \leq Max(page)
        <5>1. page # {}
          BY <1>14, <4>1
        <5> QED BY <1>6, <5>1
      <4> QED BY <1>7, <1>15, <4>1, <4>2
    <3>3. CASE log[n] \notin visible
      <4>1. log[n] \in Actions /\ Exists(log[n])
        BY <1>11, <3>1
      <4>2. \E i \in Entries(p, "any") : listed[i] = log[n]
        <5>1. Matches(log[n], "any")
          BY DEF Matches
        <5>2. CanAccess(p, runtime[log[n]].request)
          BY <1>23
        <5> QED BY <4>1, <5>1, <5>2, EntriesShown
      <4> QED BY <1>5, <3>3, <4>2 DEF ActionsAt
    <3> QED BY <3>2, <3>3
  <2>3. n <= old.after \/ n > old.after
    BY <1>12, <1>16
  <2> QED BY <2>1, <2>2, <2>3
<1>24. row.token = NoToken => row.after = 0
  <2>1. old.token \in Tokens
    BY <1>10, <1>21, ReviewAssumption DEF TokenOf, Document, Credential
  <2> QED BY <1>20, <2>1, ReviewAssumption
<1>25. \A t \in document["api"].tokens, n \in 1..row.after :
         /\ t.token = row.token /\ Wanted(row, n)
         /\ CanAccess(PrincipalOf(document["api"], t), runtime[log[n]].request)
         => n \in row.got \/ log[n] \in row.raced
  BY <1>20, <1>22, <1>23 DEF Wanted
<1> QED BY <1>16, <1>20, <1>24, <1>25 DEF GoodPolling

LEMMA PollsSame ==
  ASSUME document'["api"] = document["api"], NEW token, NEW r, PollsAs(token, r)
  PROVE  PollsAs(token, r)'
BY DEF PollsAs, TokenOf

PollingKept == polling' \in [ApiClients -> PollingState] /\ PollingInv'

(* Every client's row and call stay good if each is, one by one.           *)
LEMMA PollingTurns ==
  ASSUME ReviewInv, RuntimeStep, LogStep, document'["api"] = document["api"],
         polling' \in [ApiClients -> PollingState],
         \A c \in ApiClients : \E row, r :
           /\ row = polling'[c] /\ GoodPolling(row)
           /\ r = call'[c] /\ PollsAs(row.token, r)
  PROVE  PollingKept
<1>1. ASSUME NEW c \in ApiClients
      PROVE  \E row, r : /\ row = polling'[c] /\ GoodPolling(row)'
                         /\ r = call'[c] /\ PollsAs(row.token, r)'
  <2>1. PICK row, r : /\ row = polling'[c] /\ GoodPolling(row)
                      /\ r = call'[c] /\ PollsAs(row.token, r)
    OBVIOUS
  <2>2. row \in PollingState
    BY <2>1
  <2>3. GoodPolling(row)'
    BY <2>1, <2>2, PollingSame
  <2>4. PollsAs(row.token, r)'
    BY <2>1, PollsSame
  <2> QED BY <2>1, <2>3, <2>4
<1> QED BY <1>1, PollingGood DEF PollingKept

LEMMA PollingStep ==
  ASSUME ReviewInv, StoreFrame, CallFrame, PollingFrame
  PROVE  PollingKept
<1>1. RuntimeStep /\ LogStep
  BY RuntimeKept, LogKept
<1>2. polling \in [ApiClients -> PollingState]
  BY DEF ReviewInv, TypeOK, PollingState
<1>3. \A c \in ApiClients : c \in Clients /\ c \notin Browsers
  BY ReviewAssumption DEF Clients
<1>4. ASSUME NEW c \in ApiClients, polling'[c] = polling[c]
      PROVE  \E row, r : /\ row = polling'[c] /\ GoodPolling(row)
                         /\ r = call'[c] /\ PollsAs(row.token, r)
  <2>1. PICK row, r : row = polling'[c] /\ r = call'[c]
    OBVIOUS
  <2>2. GoodPolling(row)
    BY <1>4, <2>1, PollingRow
  <2>3. StageCase(c)
    BY <1>3, StageStep
  <2>4. CASE call'[c] = call[c]
    BY <1>4, <2>1, <2>2, <2>4, PollingRow
  <2>5. CASE call'[c].stage \in {"free", "deciding"}
    BY <2>1, <2>2, <2>5 DEF PollsAs
  <2>6. ASSUME NEW token \in Tokens, NEW only \in Actions \cup {NoAction}, Poll(c, token, only)
        PROVE  PollsAs(row.token, r)
    BY <2>1, <2>6, PollKept
  <2> QED BY <1>3, <2>1, <2>2, <2>3, <2>4, <2>5, <2>6 DEF StageCase
<1>5. CASE UNCHANGED <<polling, document>>
  <2>1. document'["api"] = document["api"] /\ polling' \in [ApiClients -> PollingState]
    BY <1>2, <1>5
  <2>2. \A c \in ApiClients : polling'[c] = polling[c]
    BY <1>5
  <2> QED BY <1>1, <1>4, <2>1, <2>2, PollingTurns
<1>6. ASSUME NEW c \in ApiClients, NEW token \in Tokens, NEW only \in Actions \cup {NoAction}, Poll(c, token, only)
      PROVE  PollingKept
  <2>1. /\ document'["api"] = document["api"]
        /\ \E s : polling' = [polling EXCEPT ![c] = s] \/ polling' = polling
    BY <1>6, PollTurn DEF Poll
  <2>2. PICK row, r : row = polling'[c] /\ r = call'[c]
    OBVIOUS
  <2>3. row \in PollingState /\ GoodPolling(row) /\ PollsAs(row.token, r)
    BY <1>6, <2>2, PollKept
  <2>4. polling' = [polling EXCEPT ![c] = row]
    BY <1>2, <2>1, <2>2
  <2>5. polling' \in [ApiClients -> PollingState]
    BY <1>2, <2>3, <2>4
  <2>6. ASSUME NEW e \in ApiClients
        PROVE  \E s, q : /\ s = polling'[e] /\ GoodPolling(s)
                         /\ q = call'[e] /\ PollsAs(s.token, q)
    <3>1. CASE e = c
      BY <2>2, <2>3, <3>1
    <3>2. CASE e # c
      <4>1. polling'[e] = polling[e]
        BY <1>2, <2>4, <3>2
      <4> QED BY <1>4, <4>1
    <3> QED BY <3>1, <3>2
  <2> QED BY <1>1, <2>1, <2>5, <2>6, PollingTurns
<1>7. ASSUME NEW c \in ApiClients, PollReceipts(c) PROVE PollingKept
  <2>1. document'["api"] = document["api"]
    BY <1>7 DEF PollReceipts
  <2>2. PICK row, r : row = polling'[c] /\ r = call'[c]
    OBVIOUS
  <2>3. row \in PollingState /\ GoodPolling(row)
    BY <1>7, <2>2, PollReceiptsKept
  <2>4. \A e \in ApiClients : e # c => polling'[e] = polling[e]
    BY <1>2, <1>7 DEF PollReceipts
  <2>5. polling' \in [ApiClients -> PollingState]
    <3>1. \E s \in [ApiClients -> PollingState] : polling' = s
      <4>1. PICK x, y, z : polling' = [polling EXCEPT ![c].after = x, ![c].got = y, ![c].raced = z]
        BY <1>7 DEF PollReceipts
      <4>2. polling' = [polling EXCEPT ![c] = row]
        BY <1>2, <2>2, <4>1
      <4> QED BY <1>2, <2>3, <4>2
    <3> QED BY <3>1
  <2>6. r.stage = "free"
    <3>1. \E p, shown : Turn(c, Reply("api", p, "ok", shown))
      BY <1>7 DEF PollReceipts
    <3>2. \E p, shown : r = Reply("api", p, "ok", shown)
      BY <1>3, <2>2, <3>1, TurnRow
    <3> QED BY <3>2 DEF Reply
  <2>7. PollsAs(row.token, r)
    BY <2>6 DEF PollsAs
  <2>8. ASSUME NEW e \in ApiClients
        PROVE  \E s, q : /\ s = polling'[e] /\ GoodPolling(s)
                         /\ q = call'[e] /\ PollsAs(s.token, q)
    BY <1>4, <2>2, <2>3, <2>4, <2>7
  <2> QED BY <1>1, <2>1, <2>5, <2>8, PollingTurns
<1>8. ASSUME NEW process \in Process, NEW d \in Documents, Restart(process, d)
      PROVE  PollingKept
  <2>1. CASE process = "dashboard"
    <3>1. polling' = polling
      BY <1>8, <2>1 DEF Restart
    <3>2. document'["api"] = document["api"]
      BY <1>8, <2>1 DEF Restart, ReviewInv, TypeOK, Process
    <3>3. polling' \in [ApiClients -> PollingState] /\ \A c \in ApiClients : polling'[c] = polling[c]
      BY <1>2, <3>1
    <3> QED BY <1>1, <1>4, <3>2, <3>3, PollingTurns
  <2>2. CASE process = "api"
    <3>1. /\ polling' = [c \in ApiClients |->
                 [polling[c] EXCEPT !.raced =
                    @ \cup (Seen(d, polling[c].token)
                             \ Seen(document["api"], polling[c].token))]]
          /\ document' = [document EXCEPT !["api"] = d]
          /\ runtime' = runtime /\ log' = log
          /\ call' = [c \in Clients |-> IF call[c].via = "api" THEN Idle ELSE call[c]]
      BY <1>8, <2>2 DEF Restart, store, lifecycleVars
    <3>2. document'["api"] = d
      BY <3>1 DEF ReviewInv, TypeOK, Process
    <3>3. ASSUME NEW c \in ApiClients
          PROVE  \E row, r : /\ row = polling'[c] /\ row \in PollingState /\ GoodPolling(row)'
                             /\ r = call'[c] /\ PollsAs(row.token, r)'
      <4>1. PICK old, row, r : old = polling[c] /\ row = polling'[c] /\ r = call'[c]
        OBVIOUS
      <4>2. old \in PollingState /\ GoodPolling(old)
        BY <4>1, PollingRow
      <4>3. PICK raced : raced = old.raced \cup (Seen(d, old.token)
                                                  \ Seen(document["api"], old.token))
        OBVIOUS
      <4>4. row = [old EXCEPT !.raced = raced]
        BY <3>1, <4>1, <4>3
      <4>5. raced \subseteq Actions
        BY <4>2, <4>3 DEF Seen, PollingState
      <4>6. /\ row \in PollingState /\ row.token = old.token /\ row.only = old.only
            /\ row.after = old.after /\ row.got = old.got /\ row.raced = raced
        BY <4>2, <4>4, <4>5 DEF PollingState
      <4>7. ASSUME NEW t \in d.tokens, NEW n \in 1..old.after, t.token = old.token,
                   Wanted(old, n), CanAccess(PrincipalOf(d, t), runtime[log[n]].request)
            PROVE  n \in old.got \/ log[n] \in raced
        <5>1. log[n] \in Actions /\ Exists(log[n])
          <6>1. old.after \in 0..MaxReceipts /\ old.after \leq Len(log)
            BY <4>2 DEF PollingState, GoodPolling
          <6>2. n \in 1..Len(log)
            BY <6>1, LogFacts
          <6> QED BY <6>2, LogFacts
        <5>2. log[n] \in Seen(d, old.token)
          BY <4>7, <5>1 DEF Seen
        <5>3. CASE log[n] \in Seen(document["api"], old.token)
          <6>1. PICK u \in document["api"].tokens :
                  /\ u.token = old.token
                  /\ CanAccess(PrincipalOf(document["api"], u), runtime[log[n]].request)
            BY <5>3 DEF Seen
          <6> QED BY <4>2, <4>3, <4>7, <6>1 DEF GoodPolling
        <5> QED BY <4>3, <5>2, <5>3
      <4>8. (\A t \in document["api"].tokens, n \in 1..row.after :
               /\ t.token = row.token /\ Wanted(row, n)
               /\ CanAccess(PrincipalOf(document["api"], t), runtime[log[n]].request)
               => n \in row.got \/ log[n] \in row.raced)'
        BY <3>1, <3>2, <4>6, <4>7 DEF Wanted
      <4>9. row.after \leq Len(log') /\ (row.token = NoToken => row.after = 0)
        BY <3>1, <4>2, <4>6 DEF GoodPolling
      <4>10. GoodPolling(row)'
        BY <4>8, <4>9 DEF GoodPolling
      <4>11. r.stage # "polling"
        <5>1. PollsAs(polling[c].token, call[c])
          BY PollingRow
        <5>2. Idle.stage = "free"
          BY DEF Idle, Reply
        <5> QED BY <1>3, <3>1, <4>1, <5>1, <5>2 DEF PollsAs
      <4> QED BY <4>1, <4>6, <4>10, <4>11 DEF PollsAs
    <3>4. polling' \in [ApiClients -> PollingState]
      BY <3>1, <3>3
    <3> QED BY <3>3, <3>4, PollingGood DEF PollingKept
  <2> QED BY <2>1, <2>2 DEF Process
<1> QED BY <1>5, <1>6, <1>7, <1>8 DEF PollingFrame, Restarts

-------------------------------------------------------------------------------
(* The invariant is inductive.                                             *)

LEMMA CallShape ==
  ASSUME ReviewInv, CallFrame
  PROVE  \E f : call' = [c \in Clients |-> f[c]]
<1>1. ASSUME NEW c, NEW row, Turn(c, row) PROVE \E f : call' = [e \in Clients |-> f[e]]
  <2>1. call' = [e \in Clients |-> IF e = c THEN row ELSE call[e]]
    BY <1>1 DEF Turn, ReviewInv, TypeOK
  <2> QED BY <2>1
<1>2. CASE UNCHANGED call
  BY <1>2 DEF ReviewInv, TypeOK
<1>3. ASSUME NEW c \in ApiClients, Api(c) PROVE \E row : Turn(c, row)
  <2>1. ASSUME NEW token \in Tokens, NEW scope \in Scope, Unauthorized(c, token, scope)
        PROVE  \E row : Turn(c, row)
    BY <2>1 DEF Unauthorized
  <2>2. ASSUME NEW token \in Tokens, NEW a \in Actions, Get(c, token, a)
        PROVE  \E row : Turn(c, row)
    BY <2>2 DEF Get
  <2>3. ASSUME NEW token \in Tokens, NEW a \in Actions, NEW d \in Decision,
               ApiDecide(c, token, a, d)
        PROVE  \E row : Turn(c, row)
    BY <2>3 DEF ApiDecide, AwaitBody
  <2>4. ASSUME NEW token \in Tokens, NEW filter \in Filters, FirstPage(c, token, filter)
        PROVE  \E row : Turn(c, row)
    BY <2>4 DEF FirstPage, Page
  <2>5. ASSUME NEW token \in Tokens, NEW only \in Actions \cup {NoAction}, Poll(c, token, only)
        PROVE  \E row : Turn(c, row)
    BY <2>5, PollTurn
  <2>6. CASE NextPage(c)
    BY <2>6 DEF NextPage, Page
  <2>7. CASE PollReceipts(c)
    BY <2>7 DEF PollReceipts
  <2> QED BY <1>3, <2>1, <2>2, <2>3, <2>4, <2>5, <2>6, <2>7 DEF Api
<1>4. ASSUME NEW c \in Browsers, Dashboard(c) PROVE \E row : Turn(c, row)
  <2>1. ASSUME NEW token \in Tokens, Login(c, token) PROVE \E row : Turn(c, row)
    BY <2>1 DEF Login, CreateSession
  <2>2. CASE SignInRequired(c) \/ Logout(c)
    BY <2>2 DEF SignInRequired, Logout
  <2>3. ASSUME NEW filter \in Filters, Index(c, filter) PROVE \E row : Turn(c, row)
    BY <2>3 DEF Index
  <2>4. ASSUME NEW a \in Actions, Detail(c, a) PROVE \E row : Turn(c, row)
    BY <2>4 DEF Detail
  <2>5. ASSUME NEW a \in Actions, NEW d \in Decision, DashboardDecide(c, a, d)
        PROVE  \E row : Turn(c, row)
    BY <2>5 DEF DashboardDecide, AwaitForm, AwaitBody
  <2> QED BY <1>4, <2>1, <2>2, <2>3, <2>4, <2>5 DEF Dashboard
<1>5. ASSUME NEW c \in Clients, Deciding(c) PROVE \E row : Turn(c, row)
  <2>1. \E answer : Conclude(c, answer)
    BY <1>5 DEF Deciding
  <2> QED BY <2>1 DEF Conclude
<1>6. CASE Restarts
  <2>1. PICK process : call' = [c \in Clients |-> IF call[c].via = process THEN Idle ELSE call[c]]
    BY <1>6 DEF Restarts, Restart
  <2>2. PICK f : f = [c \in Clients |-> IF call[c].via = process THEN Idle ELSE call[c]]
    OBVIOUS
  <2>3. f = [c \in Clients |-> f[c]]
    BY <2>2
  <2> QED BY <2>1, <2>2, <2>3
<1> QED BY <1>1, <1>2, <1>3, <1>4, <1>5, <1>6 DEF CallFrame

LEMMA CallType ==
  ASSUME ReviewInv, CallFrame, CallInv'
  PROVE  call' \in [Clients -> CallState]
<1>1. PICK f : call' = [c \in Clients |-> f[c]]
  BY CallShape
<1>2. \A c \in Clients : call'[c] \in CallState
  BY DEF CallInv, GoodCall
<1> QED BY <1>1, <1>2

LEMMA TypeKept ==
  ASSUME ReviewInv, Frames
  PROVE  TypeOK'
<1> USE DEF Frames
<1>1. LifecycleTypeOK'
  BY RuntimeKept DEF RuntimeStep, LifecycleInv
<1>2. /\ listed' \in Seq(Actions) /\ IsInjective(listed')
      /\ ToSet(listed') = {a \in Actions : runtime'[a].status # "absent"}
  BY ListKept DEF ListStep
<1>3. log' \in Seq(Actions)
  BY LogKept DEF LogStep
<1>4. document' \in [Process -> Documents]
  BY DocumentKept
<1>5. sessions' \in [Cookies -> [state : SessionState, principal : Principal \cup {NoPrincipal}]]
  BY SessionStep DEF SessionCase, Session
<1>6. jar' \in [Browsers -> Cookies \cup {NoCookie}]
  BY JarKept
<1>7. call' \in [Clients -> CallState]
  BY CallsKept, CallType
<1>8. paging' \in [ApiClients -> PagingState]
  BY PagingStep DEF PagingKept
<1>9. polling' \in [ApiClients -> PollingState]
  BY PollingStep DEF PollingKept
<1>10. calls' \in 0..MaxCalls
  <2>1. calls \in 0..MaxCalls /\ MaxCalls \in Nat
    BY ReviewAssumption DEF ReviewInv, TypeOK
  <2> QED BY <2>1 DEF CallsFrame
<1> QED BY <1>1, <1>2, <1>3, <1>4, <1>5, <1>6, <1>7, <1>8, <1>9, <1>10
        DEF TypeOK, CallState, PagingState, PollingState

LEMMA ReviewStep == ReviewInv /\ [Next]_vars => ReviewInv'
<1> SUFFICES ASSUME ReviewInv, [Next]_vars PROVE ReviewInv'
  OBVIOUS
<1>1. Frames
  BY StepFrames
<1>2. StoreFrame /\ SessionsFrame /\ JarFrame /\ CallFrame /\ PagingFrame /\ PollingFrame
  BY <1>1 DEF Frames
<1>3. TypeOK'
  BY <1>1, TypeKept
<1>4. LifecycleInv'
  BY <1>2, RuntimeKept DEF RuntimeStep
<1>5. LogInv'
  BY <1>2, LogKept DEF LogStep
<1>6. CallInv' /\ SessionInv' /\ RoomInv'
  BY <1>2, CallsKept, SessionKept
<1>7. PagingInv' /\ PollingInv'
  BY <1>2, PagingStep, PollingStep DEF PagingKept, PollingKept
<1> QED BY <1>3, <1>4, <1>5, <1>6, <1>7 DEF ReviewInv

LEMMA ReviewInit == Init => ReviewInv
<1> SUFFICES ASSUME Init PROVE ReviewInv
  OBVIOUS
<1>1. LifecycleInv /\ \A a \in Actions : runtime[a].status = "absent"
  BY LifecycleStart DEF Init, LifecycleInit
<1>2. listed = <<>> /\ log = <<>> /\ Len(listed) = 0 /\ Len(log) = 0
      /\ listed \in Seq(Actions) /\ log \in Seq(Actions)
  BY DEF Init
<1>3. IsInjective(listed) /\ ToSet(listed) = {a \in Actions : runtime[a].status # "absent"}
  <2>1. \A i \in 1..Len(listed) : FALSE
    BY <1>2
  <2>2. {listed[i] : i \in 1..Len(listed)} = {}
    BY <2>1
  <2>3. IsInjective(listed)
    BY <1>2, <2>1, InListed
  <2>4. ToSet(listed) = {}
    <3>1. listed \in Seq(Actions)
      BY <1>2
    <3>2. ToSet(listed) = {listed[i] : i \in 1..Len(listed)}
      BY <3>1, InListed
    <3> QED BY <2>2, <3>2
  <2>5. {a \in Actions : runtime[a].status # "absent"} = {}
    BY <1>1
  <2> QED BY <2>3, <2>4, <2>5
<1>4. GoodCall(Idle) /\ Idle.stage = "free"
  BY IdleGood DEF Idle, Reply
<1>5. call = [c \in Clients |-> Idle] /\ Idle \in CallState
  BY <1>4 DEF Init, GoodCall
<1>6. CallInv
  BY <1>4, <1>5 DEF CallInv
<1>7. sessions = [k \in Cookies |-> NoSession] /\ NoSession \in Session
      /\ NoSession.state = "unused"
  BY DEF Init, NoSession, Session, SessionState
<1>8. SessionInv
  <2>1. \A c \in Browsers : call[c] = Idle
    BY <1>5 DEF Clients
  <2> QED BY <1>4, <1>7, <2>1 DEF SessionInv
<1>9. RoomInv
  <2>1. Stored(sessions) = {}
    BY <1>7 DEF Stored
  <2>2. 0 \leq MaxSessions
    BY ReviewAssumption
  <2> QED BY <2>1, <2>2, FS_EmptySet DEF RoomInv
<1>10. LogInv
  BY <1>2, ReviewAssumption DEF LogInv
<1>11. PagingInv /\ paging \in [ApiClients -> PagingState]
  BY NotPagingGood DEF Init, PagingInv
<1>12. NotPolling \in PollingState /\ GoodPolling(NotPolling)
  <2>1. NotPolling.after = 0 /\ MaxReceipts \in Nat
    BY ReviewAssumption DEF NotPolling
  <2>2. NotPolling \in PollingState
    BY <2>1 DEF NotPolling, PollingState
  <2>3. \A n \in 1..NotPolling.after : FALSE
    BY <2>1
  <2> QED BY <1>2, <2>1, <2>2, <2>3 DEF GoodPolling
<1>13. polling \in [ApiClients -> PollingState] /\ \A c \in ApiClients : polling[c] = NotPolling
  BY <1>12 DEF Init
<1>14. PollingInv
  <2>1. \A c \in ApiClients : call[c] = Idle
    BY <1>5 DEF Clients
  <2> QED BY <1>4, <1>12, <1>13, <2>1 DEF PollingInv
<1>15. TypeOK
  <2>1. calls \in 0..MaxCalls
    BY ReviewAssumption DEF Init
  <2>2. jar \in [Browsers -> Cookies \cup {NoCookie}] /\ document \in [Process -> Documents]
    BY DEF Init
  <2>3. call \in [Clients -> CallState] /\ sessions \in [Cookies -> Session]
    BY <1>5, <1>7
  <2> QED BY <1>1, <1>2, <1>3, <1>11, <1>13, <2>1, <2>2, <2>3
          DEF TypeOK, LifecycleInv, CallState, Session, PagingState, PollingState
<1> QED BY <1>1, <1>6, <1>8, <1>9, <1>10, <1>11, <1>14, <1>15 DEF ReviewInv

LEMMA ReviewInvariant == Spec => []ReviewInv
BY ReviewInit, ReviewStep, PTL DEF Spec

-------------------------------------------------------------------------------
(* The results.                                                            *)

(* TypeOK (ReviewService): whatever the API and the dashboard are asked, in *)
(* whatever order, the list of actions names each action of the store once *)
(* and every table, request and answer keeps its shape.                    *)
THEOREM ReviewTypes == Spec => []TypeOK
<1>1. ReviewInv => TypeOK
  BY DEF ReviewInv
<1> QED BY <1>1, ReviewInvariant, PTL

(* TenantIsolation (ReviewService): no handler of api.py or dashboard.py   *)
(* shows an action to a principal that may not access it, and a decision   *)
(* about one is answered as if it did not exist.                           *)
THEOREM TenantsStayApart == Spec => []TenantIsolation
<1>1. ReviewInv => TenantIsolation
  <2> SUFFICES ASSUME ReviewInv, NEW c \in Clients
               PROVE  /\ \A a \in call[c].shown : CanAccess(call[c].principal, runtime[a].request)
                      /\ call[c].answer \in {"forbidden", "conflict"} =>
                           CanAccess(call[c].principal, runtime[call[c].action].request)
    BY DEF TenantIsolation
  <2> QED BY CallRow DEF GoodCall
<1> QED BY <1>1, ReviewInvariant, PTL

(* OfferedIsAccepted (ReviewService): what action_detail offers is what    *)
(* decide_authorized lets the same reviewer do, however long the form lay  *)
(* open and whatever happened to the action meanwhile.                     *)
THEOREM OffersAreAccepted == Spec => []OfferedIsAccepted
<1>1. ReviewInv => OfferedIsAccepted
  BY CallRow DEF OfferedIsAccepted, GoodCall
<1> QED BY <1>1, ReviewInvariant, PTL

(* NothingMissed (ReviewService): list_actions and list_audit of api.py    *)
(* lose nothing between two pages or two polls, although other processes   *)
(* add and change actions at any place of the list meanwhile, and the API  *)
(* may restart.                                                            *)
THEOREM NothingIsMissed == Spec => []NothingMissed
<1>1. ReviewInv => NothingMissed
  <2> SUFFICES ASSUME ReviewInv, NEW c \in ApiClients
               PROVE  /\ paging[c].done => paging[c].steady \subseteq paging[c].got
                      /\ \A t \in document["api"].tokens, n \in 1..polling[c].after :
                           /\ t.token = polling[c].token /\ Wanted(polling[c], n)
                           /\ CanAccess(PrincipalOf(document["api"], t), runtime[log[n]].request)
                           => n \in polling[c].got \/ log[n] \in polling[c].raced
    BY DEF NothingMissed
  <2> QED BY PagingRow, PollingRow DEF GoodPaging, GoodPolling
<1> QED BY <1>1, ReviewInvariant, PTL

-------------------------------------------------------------------------------
(* Who is turned away at the login.                                        *)

(* A login finds the table full.                                           *)
TurnedAway == Cardinality(Stored(Swept)) \geq MaxSessions

AnswerCase(e) == call'[e] = call[e] \/ call'[e].answer # "unavailable" \/ TurnedAway

LEMMA TurnAnswers ==
  ASSUME ReviewInv, NEW c \in Clients, NEW row, Turn(c, row),
         row.answer # "unavailable", NEW e \in Clients
  PROVE  AnswerCase(e)
BY TurnRow DEF AnswerCase

LEMMA ReplyAnswers ==
  ASSUME ReviewInv, NEW c \in Clients, NEW via, NEW p, NEW answer, NEW shown,
         Turn(c, Reply(via, p, answer, shown)), answer # "unavailable", NEW e \in Clients
  PROVE  AnswerCase(e)
<1>1. PICK row : row = Reply(via, p, answer, shown)
  OBVIOUS
<1>2. row.answer # "unavailable"
  BY <1>1 DEF Reply
<1>3. Turn(c, row)
  BY <1>1
<1> QED BY <1>2, <1>3, TurnAnswers

LEMMA AwaitAnswers ==
  ASSUME ReviewInv, NEW c \in Clients, NEW via, NEW p, NEW a, NEW d, NEW forms,
         AwaitBody(c, via, p, a, d, forms), NEW e \in Clients
  PROVE  AnswerCase(e)
<1>1. PICK row : row = [Reply(via, p, "none", {}) EXCEPT
                          !.stage = "deciding", !.action = a, !.decision = d, !.forms = forms]
  OBVIOUS
<1>2. row.answer # "unavailable"
  BY <1>1 DEF Reply
<1>3. Turn(c, row)
  BY <1>1 DEF AwaitBody
<1> QED BY <1>2, <1>3, TurnAnswers

LEMMA StageAnswers ==
  ASSUME ReviewInv, NEW c \in Clients, NEW via, NEW p, NEW shown, NEW stage,
         Turn(c, [Reply(via, p, "none", shown) EXCEPT !.stage = stage]), NEW e \in Clients
  PROVE  AnswerCase(e)
<1>1. PICK row : row = [Reply(via, p, "none", shown) EXCEPT !.stage = stage]
  OBVIOUS
<1>2. row.answer # "unavailable"
  BY <1>1 DEF Reply
<1>3. Turn(c, row)
  BY <1>1
<1> QED BY <1>2, <1>3, TurnAnswers

LEMMA ApiAnswers ==
  ASSUME ReviewInv, NEW c \in ApiClients, Api(c), NEW e \in Clients
  PROVE  AnswerCase(e)
<1>1. c \in Clients
  BY DEF Clients
<1>2. ASSUME NEW token \in Tokens, NEW scope \in Scope, Unauthorized(c, token, scope)
      PROVE  AnswerCase(e)
  BY <1>1, <1>2, ReplyAnswers DEF Unauthorized
<1>3. ASSUME NEW token \in Tokens, NEW a \in Actions, Get(c, token, a) PROVE AnswerCase(e)
  <2>1. PICK p : \/ Turn(c, Reply("api", p, "ok", {a}))
                 \/ Turn(c, Reply("api", NoPrincipal, "absent", {}))
    BY <1>3 DEF Get
  <2> QED BY <1>1, <2>1, ReplyAnswers
<1>4. ASSUME NEW token \in Tokens, NEW a \in Actions, NEW d \in Decision,
             ApiDecide(c, token, a, d)
      PROVE  AnswerCase(e)
  BY <1>1, <1>4, AwaitAnswers DEF ApiDecide
<1>5. ASSUME NEW token \in Tokens, NEW filter \in Filters, FirstPage(c, token, filter)
      PROVE  AnswerCase(e)
  <2>1. \E p, places : Turn(c, Reply("api", p, "ok", ActionsAt(FirstOf(places))))
    BY <1>5 DEF FirstPage, Page
  <2> QED BY <1>1, <2>1, ReplyAnswers
<1>6. ASSUME NEW token \in Tokens, NEW only \in Actions \cup {NoAction}, Poll(c, token, only)
      PROVE  AnswerCase(e)
  <2>1. PICK p :
          \/ Turn(c, [Reply("api", p, "none", ActionsAt(Entries(p, "any")))
                        EXCEPT !.stage = "polling"])
          \/ Turn(c, Reply("api", NoPrincipal, "absent", {}))
    BY <1>6, PollTurn
  <2>2. PICK row : row = [Reply("api", p, "none", ActionsAt(Entries(p, "any")))
                            EXCEPT !.stage = "polling"]
    OBVIOUS
  <2>3. row.answer # "unavailable"
    BY <2>2 DEF Reply
  <2>4. Turn(c, row) \/ Turn(c, Reply("api", NoPrincipal, "absent", {}))
    BY <2>1, <2>2
  <2> QED BY <1>1, <2>3, <2>4, TurnAnswers, ReplyAnswers
<1>7. CASE NextPage(c)
  <2>1. \/ Turn(c, Reply("api", NoPrincipal, "invalid cursor", {}))
        \/ \E p, places : Turn(c, Reply("api", p, "ok", ActionsAt(FirstOf(places))))
    BY <1>7 DEF NextPage, Page
  <2> QED BY <1>1, <2>1, ReplyAnswers
<1>8. CASE PollReceipts(c)
  <2>1. \E shown : Turn(c, Reply("api", call[c].principal, "ok", shown))
    BY <1>8 DEF PollReceipts
  <2> QED BY <1>1, <2>1, ReplyAnswers
<1> QED BY <1>2, <1>3, <1>4, <1>5, <1>6, <1>7, <1>8 DEF Api

LEMMA DashboardAnswers ==
  ASSUME ReviewInv, NEW c \in Browsers, Dashboard(c), NEW e \in Clients
  PROVE  AnswerCase(e)
<1>1. c \in Clients
  BY DEF Clients
<1>2. ASSUME NEW token \in Tokens, Login(c, token) PROVE AnswerCase(e)
  <2>1. \/ TurnedAway \/ Turn(c, Reply("dashboard", NoPrincipal, "denied", {}))
        \/ \E p : Turn(c, Reply("dashboard", p, "ok", {}))
    BY <1>2 DEF Login, CreateSession, TurnedAway
  <2>2. TurnedAway => AnswerCase(e)
    BY DEF AnswerCase
  <2> QED BY <1>1, <2>1, <2>2, ReplyAnswers
<1>3. CASE SignInRequired(c)
  BY <1>1, <1>3, ReplyAnswers DEF SignInRequired
<1>4. ASSUME NEW filter \in Filters, Index(c, filter) PROVE AnswerCase(e)
  BY <1>1, <1>4, ReplyAnswers DEF Index
<1>5. ASSUME NEW a \in Actions, Detail(c, a) PROVE AnswerCase(e)
  <2>1. PICK row : row = [Reply("dashboard", Visitor(c), "ok", {a})
                            EXCEPT !.action = a, !.forms = Offered(Visitor(c), a)]
    OBVIOUS
  <2>2. row.answer # "unavailable"
    BY <2>1 DEF Reply
  <2>3. Turn(c, row) \/ Turn(c, Reply("dashboard", NoPrincipal, "absent", {}))
    BY <1>5, <2>1 DEF Detail
  <2> QED BY <1>1, <2>2, <2>3, TurnAnswers, ReplyAnswers
<1>6. ASSUME NEW a \in Actions, NEW d \in Decision, DashboardDecide(c, a, d)
      PROVE  AnswerCase(e)
  BY <1>1, <1>6, AwaitAnswers, ReplyAnswers DEF DashboardDecide, AwaitForm
<1>7. CASE Logout(c)
  <2>1. \/ Turn(c, [Reply("dashboard", Visitor(c), "none", {}) EXCEPT !.stage = "leaving"])
        \/ Turn(c, Reply("dashboard", NoPrincipal, "ok", {}))
    BY <1>7 DEF Logout
  <2>2. PICK row : row = [Reply("dashboard", Visitor(c), "none", {})
                            EXCEPT !.stage = "leaving"]
    OBVIOUS
  <2>3. row.answer # "unavailable"
    BY <2>2 DEF Reply
  <2>4. Turn(c, row) \/ Turn(c, Reply("dashboard", NoPrincipal, "ok", {}))
    BY <2>1, <2>2
  <2> QED BY <1>1, <2>3, <2>4, TurnAnswers, ReplyAnswers
<1> QED BY <1>2, <1>3, <1>4, <1>5, <1>6, <1>7 DEF Dashboard

LEMMA AnswerStep ==
  ASSUME ReviewInv, CallFrame, NEW e \in Clients
  PROVE  AnswerCase(e)
<1>1. CASE UNCHANGED call
  BY <1>1 DEF AnswerCase
<1>2. ASSUME NEW c \in Clients, Deciding(c) PROVE AnswerCase(e)
  <2>1. PICK answer : Conclude(c, answer) /\ answer # "unavailable"
    BY <1>2 DEF Deciding
  <2>2. PICK row : row = [call[c] EXCEPT !.stage = "free", !.answer = answer,
                            !.shown = IF answer = "ok" THEN {call[c].action} ELSE {}]
    OBVIOUS
  <2>3. row.answer = answer
    BY <2>2, CallRow DEF CallState
  <2>4. Turn(c, row)
    BY <2>1, <2>2 DEF Conclude
  <2> QED BY <2>1, <2>3, <2>4, TurnAnswers
<1>3. CASE Restarts
  <2>1. call'[e] = Idle \/ call'[e] = call[e]
    BY <1>3 DEF Restarts, Restart
  <2>2. Idle.answer = "none"
    BY DEF Idle, Reply
  <2> QED BY <2>1, <2>2 DEF AnswerCase
<1> QED BY <1>1, <1>2, <1>3, ApiAnswers, DashboardAnswers DEF CallFrame

LEMMA FullTable ==
  ASSUME ReviewInv, TurnedAway
  PROVE  Cardinality({k \in Cookies : sessions[k].state = "live"}) = MaxSessions
<1> DEFINE live == {k \in Cookies : sessions[k].state = "live"}
<1>1. Stored(Swept) = live
  BY DEF Stored, Swept, NoLonger
<1>2. live \in SUBSET Stored(sessions) /\ IsFiniteSet(Stored(sessions))
  BY DEF Stored, ReviewInv, RoomInv
<1>3. Cardinality(live) \geq MaxSessions
  BY <1>1 DEF TurnedAway
<1> HIDE DEF live
<1>4. IsFiniteSet(live) /\ Cardinality(live) \leq Cardinality(Stored(sessions))
  BY <1>2, FS_Subset
<1>5. /\ Cardinality(live) \in Nat /\ Cardinality(Stored(sessions)) \in Nat /\ MaxSessions \in Nat
      /\ Cardinality(Stored(sessions)) \leq MaxSessions
  BY <1>2, <1>4, FS_CardinalityType, ReviewAssumption DEF ReviewInv, RoomInv
<1>6. Cardinality(live) = MaxSessions
  BY <1>3, <1>4, <1>5
<1> QED BY <1>6 DEF live

(* SessionsMakeRoom (ReviewService): DashboardSessionStore never holds     *)
(* more than max_sessions, and create turns a login away only when as many *)
(* sessions are still valid: expired ones never block anybody.             *)
THEOREM SessionsLeaveRoom == Spec => SessionsMakeRoom
<1> DEFINE Room == Cardinality(Stored(sessions)) \leq MaxSessions
           Away == \A c \in Clients :
                     call'[c].answer = "unavailable" /\ call'[c] # call[c] =>
                       Cardinality({k \in Cookies : sessions[k].state = "live"}) = MaxSessions
<1>1. ReviewInv => Room
  BY DEF ReviewInv, RoomInv
<1>2. ReviewInv /\ [Next]_vars => [Away]_vars
  <2> SUFFICES ASSUME ReviewInv, [Next]_vars, NEW c \in Clients,
                      call'[c].answer = "unavailable", call'[c] # call[c]
               PROVE  Cardinality({k \in Cookies : sessions[k].state = "live"}) = MaxSessions
    OBVIOUS
  <2>1. CallFrame
    BY StepFrames DEF Frames
  <2>2. AnswerCase(c)
    BY <2>1, AnswerStep
  <2>3. TurnedAway
    BY <2>2 DEF AnswerCase
  <2> QED BY <2>3, FullTable
<1> HIDE DEF Room, Away
<1>3. Spec => []Room /\ [][Away]_vars
  BY <1>1, <1>2, ReviewInvariant, PTL DEF Spec
<1> QED BY <1>3 DEF SessionsMakeRoom, Room, Away

-------------------------------------------------------------------------------
(* The promise of the gate.                                                *)

LEMMA GateMoves ==
  ASSUME NEW a \in Actions, LifecycleMoved(a)
  PROVE  [Gate!Next]_(Gate!vars)
<1>1. Statuses[a] = runtime[a].status /\ Deciders[a] = runtime[a].by
  BY DEF Statuses, Deciders
<1>2. ASSUME NEW to, Moved(a, to, runtime[a].by)
      PROVE  /\ Requested' = Requested /\ Deciders' = Deciders
             /\ Statuses' = [Statuses EXCEPT ![a] = to]
  BY <1>2 DEF Moved, Deciders
<1>3. CASE Moved(a, "pending", runtime[a].by) /\ runtime[a].status = "absent"
  <2>1. Gate!Ask(a)
    BY <1>1, <1>2, <1>3 DEF Gate!Ask, Gate!Move, Statuses, Deciders
  <2> QED BY <1>2, <1>3, <2>1 DEF Gate!Next, Requested
<1>4. CASE Moved(a, "expired", runtime[a].by) /\ runtime[a].status \in {"pending", "approved"}
  <2>1. Gate!Lapse(a)
    BY <1>1, <1>2, <1>4 DEF Gate!Lapse, Gate!Move, Statuses, Deciders
  <2> QED BY <1>2, <1>4, <2>1 DEF Gate!Next, Requested
<1>5. CASE Moved(a, "used", runtime[a].by) /\ runtime[a].status = "approved"
  <2>1. Gate!Use(a)
    BY <1>1, <1>2, <1>5 DEF Gate!Use, Gate!Move, Statuses, Deciders
  <2> QED BY <1>2, <1>5, <2>1 DEF Gate!Next, Requested
<1>6. CASE Moved(a, "pending", NoOne) /\ runtime[a].status = "used"
  <2>1. Gate!AskAgain(a)
    BY <1>1, <1>6 DEF Gate!AskAgain, Moved, Statuses, Deciders
  <2> QED BY <1>6, <2>1 DEF Gate!Next, Requested, Moved
<1>7. CASE Requested' = Requested /\ Statuses' = Statuses /\ Deciders' = Deciders
  BY <1>7 DEF Gate!vars, Requested, Statuses, Deciders
<1> QED BY <1>3, <1>4, <1>5, <1>6, <1>7 DEF LifecycleMoved

(* A decision over the API or the dashboard is one the reviewer may take.  *)
LEMMA GateDecides ==
  ASSUME ReviewInv, NEW c \in Clients, Records(c)
  PROVE  Gate!Next
<1>1. PICK a, decision, p : a = call[c].action /\ decision = call[c].decision
                            /\ p = call[c].principal
  OBVIOUS
<1>2. /\ a \in Actions /\ decision \in Decision /\ p \in Known /\ "decide" \in p.scopes
      /\ Moved(a, Target[decision], Auth(p)) /\ runtime[a].status = "pending"
  BY <1>1, RecordsMoves
<1>3. PICK auth : auth = Auth(p)
  OBVIOUS
<1>4. auth \in Authorization /\ auth \in Reviewers
  BY <1>2, <1>3, KnownType
<1>5. auth.organization = "" => decision \in auth.decisions
  BY <1>2, <1>3 DEF Auth
<1>6. LifecycleInv /\ ~Forbidden(a, decision, auth)
  BY <1>1, <1>3 DEF ReviewInv, Records, Decide
<1>7. runtime[a].request \in Requests /\ May(runtime[a].request, decision, auth)
  BY <1>2, <1>4, <1>5, <1>6, DecidedMay
<1> DEFINE t == <<runtime[a].request, decision, auth>>
<1>8. t \in Permitted /\ t[1] = runtime[a].request /\ t[2] = decision /\ t[3] = auth
  BY <1>2, <1>4, <1>7 DEF Permitted
<1>9. Gate!Decide(a, decision, auth)
  BY <1>2, <1>3 DEF Gate!Decide, Moved, Statuses, Deciders
<1>10. Requested' = Requested
  BY <1>2 DEF Moved
<1> HIDE DEF t
<1> QED BY <1>2, <1>8, <1>9, <1>10 DEF Gate!Next, Requested

LEMMA GateStep == ReviewInv /\ [Next]_vars => [Gate!Next]_(Gate!vars)
<1> SUFFICES ASSUME ReviewInv, [Next]_vars PROVE [Gate!Next]_(Gate!vars)
  OBVIOUS
<1>1. StoreFrame
  BY StepFrames DEF Frames
<1>2. CASE UNCHANGED store
  BY <1>2 DEF store, lifecycleVars, Gate!vars
<1>3. ASSUME NEW a \in Actions, Create(a) \/ Happen(a) PROVE [Gate!Next]_(Gate!vars)
  BY <1>3, CreateMoves, HappenMoves, GateMoves
<1> QED BY <1>1, <1>2, <1>3, GateDecides DEF StoreFrame

(* KeepsGatePromise (ReviewService): two reviewers at once, a session that *)
(* ends while its form is read, a restart in between: the API and the      *)
(* dashboard take one decision for each time an action is asked for, from  *)
(* somebody who may take it.  Together they implement ApprovalGate.        *)
THEOREM ReviewKeepsGatePromise == Spec => KeepsGatePromise
<1>1. Init => Gate!Init
  BY DEF Init, LifecycleInit, Gate!Init
<1> QED BY <1>1, ReviewInvariant, GateStep, PTL DEF Spec, KeepsGatePromise, Gate!Spec
================================================================================
