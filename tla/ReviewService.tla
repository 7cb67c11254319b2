---------------------------- MODULE ReviewService -----------------------------
(***************************************************************************)
(* The approval API and the dashboard (service/api.py, dashboard.py,       *)
(* auth.py): two processes over the runtime store of ApprovalLifecycle,    *)
(* each with the authorization document it read when it was started.       *)
(* Clients make one call at a time.  A handler runs to its end without     *)
(* interruption except where it awaits the body of a request, and except   *)
(* that between two reads of the store other processes may change it.      *)
(*                                                                         *)
(* Definitions named Wrong... are not part of the model: each is the       *)
(* definition after it with one plausible mistake, kept to show which      *)
(* property notices the mistake.                                           *)
(***************************************************************************)
EXTENDS ApprovalLifecycle, SequencesExt

CONSTANTS
  ApiClients, Browsers, Tokens, Cookies,
  Documents,       \* the documents a process may be started with
  NoCookie, NoAction, NoToken, NoPrincipal,
  Filters,         \* statuses clients ask for, or "any"
  PageSize,        \* the limit clients ask for
  MaxListed,       \* _MAX_DASHBOARD_ACTIONS
  MaxSessions,     \* max_sessions of the dashboard
  MaxReceipts,     \* bound: receipts in the store
  MaxCalls         \* bound: requests of all clients

-----------------------------------------------------------------------------
(* Authorization documents.  A version 1 token has scopes of its own and   *)
(* no organization (""); those of version 2 take them from their roles.    *)

Scope == {"read", "decide", "audit"}

Organization == [id : Organizations, namespaces : SUBSET Namespaces, separate : BOOLEAN]

Role == [id : STRING, scopes : SUBSET Scope, decisions : SUBSET Decision]

Credential == [token : Tokens, subject : Subjects,
               organization : Organizations \cup {""},
               roles : SUBSET STRING, scopes : SUBSET Scope]

Document == [organizations : SUBSET Organization, roles : SUBSET Role,
             tokens : SUBSET Credential]

Unique(S) == \A x, y \in S : x.id = y.id => x = y

ValidOrganizations(d) ==
  /\ Unique(d.organizations)
  /\ \A o \in d.organizations : o.namespaces # {}
  /\ \A o, p \in d.organizations : o.namespaces \cap p.namespaces # {} => o = p

ValidRoles(d) ==
  /\ Unique(d.roles)
  /\ \A r \in d.roles : "decide" \in r.scopes <=> r.decisions # {}

RolesOf(d, t) == {r \in d.roles : r.id \in t.roles}

(* A token of version 1 and one of version 2.                               *)
ValidAlone(t) == t.organization = "" /\ t.roles = {}

ValidMember(d, t) ==
  /\ \E o \in d.organizations : o.id = t.organization
  /\ t.roles # {} /\ t.roles \subseteq {r.id : r \in d.roles}
  /\ t.scopes = {}

Version1(d) ==
  /\ d.organizations = {} /\ d.roles = {}
  /\ \A t \in d.tokens : ValidAlone(t)

Version2(d) ==
  /\ ValidOrganizations(d) /\ ValidRoles(d)
  /\ \A t \in d.tokens : ValidMember(d, t)

(* from_mapping refuses every other document.                              *)
ValidDocument(d) ==
  /\ Version1(d) \/ Version2(d)
  /\ d.tokens # {} /\ \A t, u \in d.tokens : t.token = u.token => t = u

Alone(t) == [subject |-> t.subject, scopes |-> t.scopes, organization |-> "",
             namespaces |-> {}, decisions |-> {}, separate |-> FALSE]

(* The principal a token stands for: its organization's namespaces, and    *)
(* the scopes and decisions of all its roles.                              *)
PrincipalOf(d, t) ==
  IF t.organization = "" THEN Alone(t)
  ELSE LET o == CHOOSE o \in d.organizations : o.id = t.organization IN
       [subject |-> t.subject, scopes |-> UNION {r.scopes : r \in RolesOf(d, t)},
        organization |-> o.id, namespaces |-> o.namespaces,
        decisions |-> UNION {r.decisions : r \in RolesOf(d, t)},
        separate |-> o.separate]

Principal == [subject : Subjects, scopes : SUBSET Scope,
              organization : Organizations \cup {""}, namespaces : SUBSET Namespaces,
              decisions : SUBSET Decision, separate : BOOLEAN]

CanAccess(p, request) ==
  \/ p.organization = ""
  \/ request.organization = p.organization /\ request.namespace \in p.namespaces

(* What decide or decide_authorized are told.                              *)
Auth(p) ==
  [actor |-> p.subject, subject |-> p.subject, organization |-> p.organization,
   namespaces |-> p.namespaces, separate |-> p.separate,
   decisions |-> IF p.organization # "" THEN p.decisions
                 ELSE IF "decide" \in p.scopes THEN Decision ELSE {}]

ASSUME ReviewAssumption ==
  /\ \A d \in Documents : d \in Document /\ ValidDocument(d)
  /\ Subjects \subseteq Actors /\ Filters \subseteq Status \cup {"any"}
  /\ ApiClients \cap Browsers = {}
  /\ NoAction \notin Actions /\ NoCookie \notin Cookies /\ NoToken \notin Tokens
  /\ NoPrincipal \notin Principal
  /\ PageSize \in Nat \ {0} /\ MaxSessions \in Nat \ {0} /\ MaxListed \in Nat \ {0}
  /\ MaxReceipts \in Nat /\ MaxCalls \in Nat

-----------------------------------------------------------------------------
Clients == ApiClients \cup Browsers

VARIABLES
  listed,          \* the actions of the store, by creation
  log,             \* the receipts: whose each is
  document,        \* what each of the two processes has read
  sessions,        \* Cookies -> session of the dashboard
  jar,             \* Browsers -> the cookie each holds
  call,            \* Clients -> its request, or the answer to the last one
  paging,          \* ApiClients -> progress through the pages of a list
  polling,         \* ApiClients -> progress through the audit log
  calls            \* counter of the bound

store == <<lifecycleVars, listed, log>>
clientVars == <<jar, call, paging, polling>>
vars == <<store, document, sessions, clientVars, calls>>

Process == {"api", "dashboard"}

(* A cookie is handed out once; a session over its lifetime stays in the   *)
(* table until somebody notices.                                           *)
SessionState == {"unused", "live", "over", "gone"}

Answer == {"none", "ok", "absent", "forbidden", "conflict", "unavailable",
           "denied", "invalid cursor"}

TypeOK ==
  /\ LifecycleTypeOK
  /\ listed \in Seq(Actions) /\ log \in Seq(Actions)
  /\ IsInjective(listed)
  /\ ToSet(listed) = {a \in Actions : runtime[a].status # "absent"}
  /\ document \in [Process -> Documents]
  /\ sessions \in [Cookies -> [state : SessionState, principal : Principal \cup {NoPrincipal}]]
  /\ jar \in [Browsers -> Cookies \cup {NoCookie}]
  /\ call \in [Clients ->
       [stage : {"free", "deciding", "leaving", "polling"}, via : Process,
        principal : Principal \cup {NoPrincipal}, action : Actions \cup {NoAction},
        decision : Decision \cup {"none"}, answer : Answer, shown : SUBSET Actions,
        forms : SUBSET Decision]]
  /\ paging \in [ApiClients ->
       [token : Tokens \cup {NoToken}, status : Filters \cup {"any"}, after : Actions \cup {NoAction},
        got : SUBSET Actions, steady : SUBSET Actions, done : BOOLEAN]]
  /\ polling \in [ApiClients ->
       [token : Tokens \cup {NoToken}, only : Actions \cup {NoAction}, after : 0..MaxReceipts,
        got : SUBSET (1..MaxReceipts), raced : SUBSET Actions]]
  /\ calls \in 0..MaxCalls

NoSession == [state |-> "unused", principal |-> NoPrincipal]
NoLonger == [state |-> "gone", principal |-> NoPrincipal]

Reply(via, p, answer, shown) ==
  [stage |-> "free", via |-> via, principal |-> p, action |-> NoAction,
   decision |-> "none", answer |-> answer, shown |-> shown, forms |-> {}]
Idle == Reply("api", NoPrincipal, "none", {})

NotPaging == [token |-> NoToken, status |-> "any", after |-> NoAction,
              got |-> {}, steady |-> {}, done |-> FALSE]
NotPolling == [token |-> NoToken, only |-> NoAction, after |-> 0, got |-> {}, raced |-> {}]

Init ==
  /\ LifecycleInit
  /\ listed = <<>> /\ log = <<>>
  /\ document \in [Process -> Documents]
  /\ sessions = [k \in Cookies |-> NoSession]
  /\ jar = [c \in Browsers |-> NoCookie]
  /\ call = [c \in Clients |-> Idle]
  /\ paging = [c \in ApiClients |-> NotPaging]
  /\ polling = [c \in ApiClients |-> NotPolling]
  /\ calls = 0

Turn(c, reply) == call' = [call EXCEPT ![c] = reply]

(* A client that is not waiting sends a request.                           *)
Asks(c) ==
  /\ call[c].stage = "free"
  /\ calls < MaxCalls
  /\ calls' = calls + 1

Exists(a) == runtime[a].status # "absent"

Matches(a, filter) == filter = "any" \/ runtime[a].status = filter

(* list_actions, and what the principal may see of it: places in the list. *)
Entries(p, filter) ==
  {i \in 1..Len(listed) : /\ Matches(listed[i], filter)
                          /\ CanAccess(p, runtime[listed[i]].request)}

ActionsAt(places) == {listed[i] : i \in places}

Leading(places, limit) == {i \in places : Cardinality({j \in places : j \leq i}) \leq limit}

-----------------------------------------------------------------------------
(* The store, as others change it.                                         *)

(* What matched the filter of a client at every moment of its paging, and  *)
(* could be seen with its token: see Restart.                              *)
Watch ==
  paging' = [c \in ApiClients |-> [paging[c] EXCEPT !.steady =
    {a \in @ : paging[c].status = "any" \/ runtime'[a].status = paging[c].status}]]

Receipt(a) == Len(log) < MaxReceipts /\ log' = Append(log, a)

Untouched == UNCHANGED <<document, sessions, jar, call, polling, calls>>

(* created_at_ns is read before the transaction: the place of a new action *)
(* in the list is not always the last.                                     *)
Create(a) ==
  /\ Submit(a) /\ Receipt(a) /\ Watch
  /\ \E i \in 1..Len(listed) + 1 : listed' = InsertAt(listed, i, a)
  /\ Untouched

(* Every handler reads the actions it needs in one transaction, and the    *)
(* reading applies the expiry of those whose lifetime is over: to a client *)
(* the two are one step.                                                   *)
Happen(a) ==
  /\ LapseAtOnce(a) \/ Use(a) \/ Reopen(a)
  /\ Receipt(a) /\ Watch
  /\ UNCHANGED listed /\ Untouched

-----------------------------------------------------------------------------
(* The two processes.                                                      *)

(* What a token sees of the store under a document.                        *)
Seen(d, token) ==
  {a \in Actions : /\ Exists(a)
                   /\ \E t \in d.tokens : /\ t.token = token
                                         /\ CanAccess(PrincipalOf(d, t), runtime[a].request)}

(* Requests under way and sessions are lost, the document is read again.   *)
(* Clients of the API go on where they were: cursors and positions are     *)
(* theirs, but they may see other actions now.                             *)
Restart(process, d) ==
  /\ document' = [document EXCEPT ![process] = d]
  /\ call' = [c \in Clients |-> IF call[c].via = process THEN Idle ELSE call[c]]
  /\ IF process = "dashboard"
     THEN /\ sessions' = [k \in Cookies |-> IF sessions[k].state = "unused" THEN NoSession
                          ELSE NoLonger]
          /\ UNCHANGED <<paging, polling>>
     ELSE /\ paging' = [c \in ApiClients |->
               [paging[c] EXCEPT !.steady = @ \cap Seen(d, paging[c].token)]]
          /\ polling' = [c \in ApiClients |->
               [polling[c] EXCEPT !.raced = @ \cup (Seen(d, polling[c].token)
                                                      \ Seen(document["api"], polling[c].token))]]
          /\ UNCHANGED sessions
  /\ UNCHANGED <<store, jar>>
  /\ calls < MaxCalls /\ calls' = calls + 1

(* authenticate and require_scope.                                         *)
Authorized(process, token, scope, p) ==
  \E t \in document[process].tokens :
    /\ t.token = token
    /\ p = PrincipalOf(document[process], t)
    /\ scope \in p.scopes

Principals(d) == {PrincipalOf(d, t) : t \in d.tokens}

-----------------------------------------------------------------------------
(* The API.                                                                *)

(* 401 or 403 before anything is read.                                     *)
Unauthorized(c, token, scope) ==
  /\ Asks(c)
  /\ ~\E p \in Principals(document["api"]) : Authorized("api", token, scope, p)
  /\ Turn(c, Reply("api", NoPrincipal, "denied", {}))
  /\ UNCHANGED <<store, document, sessions, jar, paging, polling>>

Get(c, token, a) ==
  /\ Asks(c)
  /\ \E p \in Principals(document["api"]) :
       /\ Authorized("api", token, "read", p)
       /\ Turn(c, IF Exists(a) /\ CanAccess(p, runtime[a].request)
                     THEN Reply("api", p, "ok", {a}) ELSE Reply("api", NoPrincipal, "absent", {}))
  /\ UNCHANGED <<store, document, sessions, jar, paging, polling>>

FirstOf(places) == Leading(places, PageSize)

(* Wrong: the cursor names the first action of the next page.              *)
WrongCursor(places) ==
  LET rest == places \ FirstOf(places) IN
  listed[IF rest = {} THEN Max(places) ELSE Min(rest)]
Cursor(places) == listed[Max(FirstOf(places))]

(* A page of the places that are left; the last one has no next_cursor.    *)
Page(c, p, places, progress) ==
  LET page == FirstOf(places) IN
  /\ Turn(c, Reply("api", p, "ok", ActionsAt(page)))
  /\ paging' = [paging EXCEPT ![c] =
       [progress EXCEPT !.after = IF places = {} THEN NoAction ELSE Cursor(places),
                        !.got = progress.got \cup ActionsAt(page),
                        !.done = places = page]]

FirstPage(c, token, filter) ==
  /\ Asks(c)
  /\ \E p \in Principals(document["api"]) :
       /\ Authorized("api", token, "read", p)
       /\ Page(c, p, Entries(p, filter),
               [NotPaging EXCEPT !.token = token, !.status = filter,
                                 !.steady = ActionsAt(Entries(p, filter))])
  /\ UNCHANGED <<store, document, sessions, jar, polling>>

NextPage(c) ==
  /\ Asks(c)
  /\ paging[c].token # NoToken /\ ~paging[c].done
  /\ \E p \in Principals(document["api"]) :
       /\ Authorized("api", paging[c].token, "read", p)
       /\ LET places == Entries(p, paging[c].status)
              after == {i \in places : listed[i] = paging[c].after} IN
          IF after = {}
          THEN /\ Turn(c, Reply("api", NoPrincipal, "invalid cursor", {}))
               /\ paging' = [paging EXCEPT ![c] = NotPaging]
          ELSE \E i \in after : Page(c, p, {j \in places : j > i}, paging[c])
  /\ UNCHANGED <<store, document, sessions, jar, polling>>

(* A poll goes on where the client is, or begins with the first receipt    *)
(* when it asks with another token or for another action.                  *)
Progress(c, token, only) ==
  IF polling[c].token = token /\ polling[c].only = only THEN polling[c]
  ELSE [NotPolling EXCEPT !.token = token, !.only = only]

(* list_audit reads the list of actions and then the receipts.             *)
Poll(c, token, only) ==
  /\ Asks(c)
  /\ \E p \in Principals(document["api"]) :
       /\ Authorized("api", token, "audit", p)
       /\ LET visible == ActionsAt(Entries(p, "any")) IN
          IF only \in visible \cup {NoAction}
          THEN /\ Turn(c, [Reply("api", p, "none", visible) EXCEPT !.stage = "polling"])
               /\ polling' = [polling EXCEPT ![c] = Progress(c, token, only)]
          ELSE /\ Turn(c, Reply("api", NoPrincipal, "absent", {}))
               /\ UNCHANGED polling
  /\ UNCHANGED <<store, document, sessions, jar, paging>>

(* receipts(action_id=...): those of one action, or all.                   *)
Wanted(row, n) == row.only \in {NoAction, log[n]}

(* Wrong: the position is that of the receipt after the page.              *)
WrongPosition(page) == Max(page) + 1
(* Where the client goes on: after the last receipt it was given.          *)
Position(page) == Max(page)

PollReceipts(c) ==
  LET p == call[c].principal
      visible == call[c].shown
      page == FirstOf({n \in polling[c].after + 1 .. Len(log) :
                         log[n] \in visible /\ Wanted(polling[c], n)}) IN
  /\ call[c].stage = "polling"
  /\ Turn(c, Reply("api", p, "ok", {log[n] : n \in page}))
  /\ polling' = [polling EXCEPT
       ![c].after = IF page = {} THEN @ ELSE Position(page),
       ![c].got = @ \cup page,
       ![c].raced = @ \cup (ActionsAt(Entries(p, "any")) \ visible)]
  /\ UNCHANGED <<store, document, sessions, jar, paging, calls>>

(* _decide: authorized, and the body is awaited.                           *)
AwaitBody(c, via, p, a, decision, forms) ==
  Turn(c, [Reply(via, p, "none", {}) EXCEPT
    !.stage = "deciding", !.action = a, !.decision = decision, !.forms = forms])

ApiDecide(c, token, a, decision) ==
  /\ Asks(c)
  /\ \E p \in Principals(document["api"]) :
       /\ Authorized("api", token, "decide", p)
       /\ AwaitBody(c, "api", p, a, decision, {})
  /\ UNCHANGED <<store, document, sessions, jar, paging, polling>>

-----------------------------------------------------------------------------
(* Decisions, over the API or the dashboard, once the body is there.       *)

(* Wrong: only an action out of the reviewer's namespaces is hidden.       *)
WrongHidden(a, auth) ==
  auth.organization # "" /\ runtime[a].request.namespace \notin auth.namespaces
(* organization_mismatch and namespace_forbidden are answered as not found. *)
Hidden(a, auth) ==
  /\ auth.organization # ""
  /\ \/ runtime[a].request.organization # auth.organization
     \/ runtime[a].request.namespace \notin auth.namespaces

Conclude(c, answer) ==
  Turn(c, [call[c] EXCEPT !.stage = "free", !.answer = answer,
              !.shown = IF answer = "ok" THEN {call[c].action} ELSE {}])

Deciding(c) ==
  LET a == call[c].action
      decision == call[c].decision
      auth == Auth(call[c].principal) IN
  /\ call[c].stage = "deciding"
  /\ \/ /\ Exists(a) /\ Decide(a, decision, auth) /\ Receipt(a)
        /\ Conclude(c, "ok") /\ Watch
     \/ /\ UNCHANGED <<lifecycleVars, log, paging>>
        /\ \/ ~Exists(a) /\ Conclude(c, "absent")
           \/ /\ Exists(a) /\ Forbidden(a, decision, auth)
              /\ Conclude(c, IF Hidden(a, auth) THEN "absent" ELSE "forbidden")
           \/ /\ Exists(a) /\ ~Forbidden(a, decision, auth)
              /\ \/ Stands(a, decision) /\ Conclude(c, "ok")
                 \/ (Lapsed(a) \/ Conflicts(a, decision)) /\ Conclude(c, "conflict")
  /\ UNCHANGED <<listed, document, sessions, jar, polling, calls>>

-----------------------------------------------------------------------------
(* The dashboard.                                                          *)

Removed(k) == [sessions EXCEPT ![k] = NoLonger]

Stored(table) == {k \in Cookies : table[k].state \in {"live", "over"}}

(* Wrong: a session is removed only when its own cookie comes back.        *)
WrongSwept == sessions
(* _remove_expired.                                                        *)
Swept == [k \in Cookies |-> IF sessions[k].state = "over"
                            THEN NoLonger ELSE sessions[k]]

SessionEnds(k) ==
  /\ sessions[k].state = "live"
  /\ sessions' = [sessions EXCEPT ![k].state = "over"]
  /\ UNCHANGED <<store, document, clientVars, calls>>

(* create: expired sessions make room, and a full table is full.           *)
CreateSession(c, p) ==
  IF Cardinality(Stored(Swept)) \geq MaxSessions
  THEN /\ Turn(c, Reply("dashboard", NoPrincipal, "unavailable", {}))
       /\ sessions' = Swept /\ UNCHANGED jar
  ELSE \E k \in Cookies :
         /\ sessions[k].state = "unused"
         /\ Turn(c, Reply("dashboard", p, "ok", {}))
         /\ sessions' = [Swept EXCEPT ![k] = [state |-> "live", principal |-> p]]
         /\ jar' = [jar EXCEPT ![c] = k]

(* The credential is presented once; a cookie a browser held before stays  *)
(* valid, but the browser forgets it.                                      *)
Login(c, token) ==
  /\ Asks(c)
  /\ \/ /\ ~\E p \in Principals(document["dashboard"]) : Authorized("dashboard", token, "read", p)
        /\ Turn(c, Reply("dashboard", NoPrincipal, "denied", {}))
        /\ UNCHANGED <<sessions, jar>>
     \/ \E p \in Principals(document["dashboard"]) :
          /\ Authorized("dashboard", token, "read", p)
          /\ CreateSession(c, p)
  /\ UNCHANGED <<store, document, paging, polling>>

InSession(c) == jar[c] # NoCookie /\ sessions[jar[c]].state = "live"
Visitor(c) == sessions[jar[c]].principal

(* No session, or one that is over and now removed.                        *)
SignInRequired(c) ==
  /\ Asks(c) /\ ~InSession(c)
  /\ Turn(c, Reply("dashboard", NoPrincipal, "denied", {}))
  /\ sessions' = IF jar[c] # NoCookie /\ sessions[jar[c]].state = "over"
                 THEN Removed(jar[c]) ELSE sessions
  /\ UNCHANGED <<store, document, jar, paging, polling>>

(* Wrong: the page does not know whose request the action is.              *)
WrongOffered(p, a) ==
  {d \in Decision : /\ runtime[a].status = "pending" /\ "decide" \in p.scopes
                    /\ p.organization = "" \/ d \in p.decisions}
(* The forms of action_detail.                                             *)
Offered(p, a) ==
  {d \in Decision : /\ runtime[a].status = "pending" /\ "decide" \in p.scopes
                    /\ \/ p.organization = ""
                       \/ /\ d \in p.decisions
                          /\ ~(p.separate /\ runtime[a].request.requester = p.subject)}

Index(c, filter) ==
  /\ Asks(c) /\ InSession(c)
  /\ Turn(c, Reply("dashboard", Visitor(c), "ok",
                   ActionsAt(Leading(Entries(Visitor(c), filter), MaxListed))))
  /\ UNCHANGED <<store, document, sessions, jar, paging, polling>>

Detail(c, a) ==
  /\ Asks(c) /\ InSession(c)
  /\ Turn(c,
       IF Exists(a) /\ CanAccess(Visitor(c), runtime[a].request)
       THEN [Reply("dashboard", Visitor(c), "ok", {a})
             EXCEPT !.action = a, !.forms = Offered(Visitor(c), a)]
       ELSE Reply("dashboard", NoPrincipal, "absent", {}))
  /\ UNCHANGED <<store, document, sessions, jar, paging, polling>>

(* The form may be one of the page the browser shows.                      *)
AwaitForm(c, a, decision) ==
  AwaitBody(c, "dashboard", Visitor(c), a, decision,
            IF call[c].action = a /\ call[c].principal = Visitor(c)
            THEN call[c].forms ELSE {})

(* The session is looked up, then the form is awaited.                     *)
DashboardDecide(c, a, decision) ==
  /\ Asks(c) /\ InSession(c)
  /\ IF "decide" \in Visitor(c).scopes
     THEN AwaitForm(c, a, decision)
     ELSE Turn(c, Reply("dashboard", NoPrincipal, "denied", {}))
  /\ UNCHANGED <<store, document, sessions, jar, paging, polling>>

Logout(c) ==
  \/ /\ Asks(c) /\ InSession(c)
     /\ Turn(c, [Reply("dashboard", Visitor(c), "none", {}) EXCEPT !.stage = "leaving"])
     /\ UNCHANGED <<store, document, sessions, jar, paging, polling>>
  \/ /\ call[c].stage = "leaving"
     /\ Turn(c, Reply("dashboard", NoPrincipal, "ok", {}))
     /\ sessions' = Removed(jar[c])
     /\ jar' = [jar EXCEPT ![c] = NoCookie]
     /\ UNCHANGED <<store, document, paging, polling, calls>>

-----------------------------------------------------------------------------
Api(c) ==
  \/ \E token \in Tokens :
       \/ \E scope \in Scope : Unauthorized(c, token, scope)
       \/ \E a \in Actions : Get(c, token, a) \/ \E d \in Decision : ApiDecide(c, token, a, d)
       \/ \E filter \in Filters : FirstPage(c, token, filter)
       \/ \E only \in Actions \cup {NoAction} : Poll(c, token, only)
  \/ NextPage(c) \/ PollReceipts(c)

Dashboard(c) ==
  \/ \E token \in Tokens : Login(c, token)
  \/ \E filter \in Filters : Index(c, filter)
  \/ \E a \in Actions : Detail(c, a) \/ \E d \in Decision : DashboardDecide(c, a, d)
  \/ SignInRequired(c) \/ Logout(c)

Next ==
  \/ \E c \in ApiClients : Api(c)
  \/ \E c \in Browsers : Dashboard(c)
  \/ \E c \in Clients : Deciding(c)
  \/ \E k \in Cookies : SessionEnds(k)
  \/ \E a \in Actions : Create(a) \/ Happen(a)
  \/ \E process \in Process, d \in Documents : Restart(process, d)

Spec == Init /\ [][Next]_vars

-----------------------------------------------------------------------------
(* Safety.                                                                 *)

(* "cross-organization identifiers appear not found"                       *)
(* (docs/approval-api.md): no response shows an action the principal may   *)
(* not access, nor answers about one in another way than about an action   *)
(* that does not exist.                                                    *)
TenantIsolation ==
  \A c \in Clients :
    /\ \A a \in call[c].shown : CanAccess(call[c].principal, runtime[a].request)
    /\ call[c].answer \in {"forbidden", "conflict"} =>
         CanAccess(call[c].principal, runtime[call[c].action].request)

(* action_detail decides what to offer, decide_authorized whom to let      *)
(* decide: whoever uses a form he was offered is not told that he may not. *)
OfferedIsAccepted ==
  \A c \in Clients : call[c].answer = "forbidden" => call[c].decision \notin call[c].forms

(* list_actions and list_audit: whatever changes between the pages, a      *)
(* client that went through all pages got every action that it might see   *)
(* and that matched all the time; and one that polls the receipts, of one  *)
(* action or of all, got every one up to its position that it may see, but *)
(* for those of actions that were submitted between the two reads of one   *)
(* of its polls, or that a restart with another document showed it.        *)
NothingMissed ==
  \A c \in ApiClients :
    /\ paging[c].done => paging[c].steady \subseteq paging[c].got
    /\ \A t \in document["api"].tokens, n \in 1..polling[c].after :
         /\ t.token = polling[c].token /\ Wanted(polling[c], n)
         /\ CanAccess(PrincipalOf(document["api"], t), runtime[log[n]].request)
         => n \in polling[c].got \/ log[n] \in polling[c].raced

(* DashboardSessionStore: the table never holds more than max_sessions,    *)
(* and a login is turned away only when all of them are sessions that are  *)
(* still valid, however many browsers have lost their cookies.             *)
SessionsMakeRoom ==
  /\ [](Cardinality(Stored(sessions)) \leq MaxSessions)
  /\ [][\A c \in Clients :
         call'[c].answer = "unavailable" /\ call'[c] # call[c] =>
           Cardinality({k \in Cookies : sessions[k].state = "live"}) = MaxSessions]_vars

Reviewers == {Auth(p) : p \in UNION {Principals(d) : d \in Documents}}

Permitted == {p \in Requests \X Decision \X Reviewers : May(p[1], p[2], p[3])}

Gate == INSTANCE ApprovalGate WITH
  Action <- Actions,
  request <- [a \in Actions |-> runtime[a].request],
  gate <- [a \in Actions |-> runtime[a].status],
  by <- [a \in Actions |-> runtime[a].by]

(* Two reviewers at once, a session that ends while its form is read, a    *)
(* restart in between: an action takes one decision for each time it is    *)
(* asked for, from somebody who may take it.                               *)
KeepsGatePromise == Gate!Spec
==============================================================================
