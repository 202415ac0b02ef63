---------------------------- MODULE FrontendSession ----------------------------
(***************************************************************************)
(* Who is signed in at the serverless board: App.tsx in the tabs of one    *)
(* browser, the handlers login, refresh, logout and myInfo, and the        *)
(* authorizer in front of the handlers of the posts.                       *)
(*                                                                         *)
(* A tab keeps an access token and the user it shows; all tabs share the   *)
(* cookie with the refresh token.  A flow is one call of login, logout,    *)
(* tryRefresh or fetchWithAuth: a chain of requests, each of them sent,    *)
(* answered by the backend, arrived in the browser, where a cookie takes   *)
(* effect, and then continued by the script.  Flows of all tabs interleave *)
(* at each of these points.                                                *)
(*                                                                         *)
(* A session is a login that Cognito accepted; its number stands for the   *)
(* refresh token.  Access tokens are numbered as they are issued, and      *)
(* expire in that order.  Cognito refuses an access token that expired or  *)
(* was signed out; the authorizer refuses only one that expired.           *)
(***************************************************************************)
EXTENDS Integers, Sequences, FiniteSets, FiniteSetsExt

CONSTANTS
    Tab,        \* tabs of the browser
    NoTab,      \* the tab of a request whose page is gone
    User,       \* user names
    Nobody,     \* no user is shown
    Flow,       \* flows that can be under way at the same time
    Overlap,    \* how many of them the tabs run at the same time
    LoginsAlone,\* bound: nothing else is under way while a user logs in
    MaxToken,   \* bound: access tokens that are issued
    MaxFaults   \* bound: requests that fail

ASSUME SessionAssumption ==
    /\ NoTab \notin Tab /\ Nobody \notin User
    /\ LoginsAlone \in BOOLEAN /\ Overlap \in Nat /\ MaxToken \in Nat /\ MaxFaults \in Nat

VARIABLES
    accessToken,  \* of every tab, 0 for ''
    user,         \* the user every tab shows
    cookie,       \* the session of the cookie refreshToken, 0 without cookie
    opened,       \* Cognito: the user of every session
    issued,       \* Cognito: the session of every access token
    expired,      \* the access tokens up to this one have expired
    revoked,      \* Cognito: sessions that were signed out
    flow,         \* the flows under way
    outcome,      \* how a flow ended
    loggedOut,    \* history: sessions of users whose logout succeeded since
    faults        \* faults so far

tabVars == <<accessToken, user, cookie>>
cognitoVars == <<opened, issued, revoked, loggedOut>>
vars == <<tabVars, cognitoVars, expired, flow, outcome, faults>>

Undefined == -1   \* accessToken in the body of an error

Idle == [tab |-> NoTab, goal |-> "none", request |-> "none", again |-> FALSE,
         stage |-> "none", token |-> 0, session |-> 0, name |-> Nobody, status |-> 0]

(* goal: the function of App.tsx.  again: fetchWithAuth has got its 401.    *)
(* token, session, name, status: what was sent, later what was answered.    *)
Request ==
    [tab : Tab \cup {NoTab}, goal : {"login", "logout", "call", "tryRefresh"},
     request : {"login", "logout", "call", "refresh", "myinfo"}, again : BOOLEAN,
     stage : {"sent", "answered", "arrived"}, token : Nat \cup {Undefined},
     session : Nat, name : User \cup {Nobody},
     status : {0, 200, 400, 401, 500}]

Init ==
    /\ accessToken = [t \in Tab |-> 0]
    /\ user = [t \in Tab |-> Nobody]
    /\ cookie = 0
    /\ opened = <<>> /\ issued = <<>> /\ expired = 0 /\ revoked = {}
    /\ flow = [f \in Flow |-> Idle]
    /\ outcome = [f \in Flow |-> "none"]
    /\ loggedOut = {}
    /\ faults = 0

Holder(token) == opened[issued[token]]
SessionsOf(name) == {s \in DOMAIN opened : opened[s] = name}

(* The authorizer accepts an access token; Cognito accepts it. *)
Authorized(token) == token > expired
Valid(token) == token > expired /\ issued[token] \notin revoked

(* Cognito gives no access token for the session, nor does refresh without one. *)
SignedOut(session) == session = 0 \/ session \in revoked

(* Bound: enough access tokens are left for the flows under way and n more. *)
MayIssue(f) ==
    LET c == flow[f] IN
    CASE c.request = "login" /\ c.stage = "sent"   -> 1
      [] c.request = "refresh" /\ c.stage = "sent" ->
            IF SignedOut(c.session) THEN 0 ELSE IF c.again THEN 1 ELSE 2
      [] OTHER -> IF c.goal \in {"call", "tryRefresh"} /\ ~c.again THEN 1 ELSE 0
TokensLeft(n) == Len(issued) + MapThenSumSet(MayIssue, Flow) + n <= MaxToken

--------------------------------------------------------------------------------
(* Requests. *)

Sent(t, goal, request, again, token, name) ==
    [tab |-> t, goal |-> goal, request |-> request, again |-> again,
     stage |-> "sent", token |-> token, name |-> name, status |-> 0,
     session |-> IF request = "refresh" THEN cookie ELSE 0]

(* Mutant: the refresh without credentials: 'include'. *)
SendWithoutCookie(f, t, goal, request, again, token, name) ==
    flow' = [flow EXCEPT ![f] =
               [Sent(t, goal, request, again, token, name) EXCEPT !.session = 0]]

Send(f, t, goal, request, again, token, name) ==
    flow' = [flow EXCEPT ![f] = Sent(t, goal, request, again, token, name)]

End(f, how) ==
    /\ flow' = [flow EXCEPT ![f] = Idle]
    /\ outcome' = [outcome EXCEPT ![f] = how]

(* One more flow may run, beside those of all tabs but the one that goes. *)
RoomFor(goal, gone) ==
    LET running == {g \in Flow : flow[g].tab \notin {NoTab, gone}} IN
    /\ Cardinality(running) < Overlap
    /\ LoginsAlone => /\ goal = "login" => running = {}
                      /\ \A g \in running : flow[g].goal # "login"

(* A tab calls a function of App.tsx. *)
Starts(f, goal) ==
    /\ flow[f] = Idle
    /\ RoomFor(goal, NoTab)
    /\ outcome' = [outcome EXCEPT ![f] = "none"]
    /\ UNCHANGED <<cognitoVars, expired, faults>>

Login(f, t, name) ==
    /\ Starts(f, "login") /\ TokensLeft(1)
    /\ Send(f, t, "login", "login", FALSE, 0, name)
    /\ UNCHANGED tabVars

(* The buttons of a page that shows a user: logout, and one of createPost, *)
(* updatePost and deletePost.                                              *)
Logout(f, t) ==
    /\ Starts(f, "logout") /\ user[t] # Nobody
    /\ Send(f, t, "logout", "logout", FALSE, accessToken[t], Nobody)
    /\ UNCHANGED tabVars

Call(f, t) ==
    /\ Starts(f, "call") /\ TokensLeft(1) /\ user[t] # Nobody
    /\ Send(f, t, "call", "call", FALSE, accessToken[t], Nobody)
    /\ UNCHANGED tabVars

(* The page is loaded, or loaded again: the script starts anew with          *)
(* tryRefresh.  Requests on their way are still handled, for nobody.         *)
Load(f, t) ==
    /\ flow[f] = Idle
    /\ SignedOut(cookie) \/ TokensLeft(2)
    /\ RoomFor("tryRefresh", t)
    /\ accessToken' = [accessToken EXCEPT ![t] = 0]
    /\ user' = [user EXCEPT ![t] = Nobody]
    /\ flow' = [g \in Flow |->
         IF g = f THEN Sent(t, "tryRefresh", "refresh", FALSE, 0, Nobody)
         ELSE IF flow[g].tab # t THEN flow[g]
         ELSE IF flow[g].stage = "sent" THEN [flow[g] EXCEPT !.tab = NoTab]
         ELSE Idle]
    /\ outcome' = [outcome EXCEPT ![f] = "none"]
    /\ UNCHANGED <<cookie, cognitoVars, expired, faults>>

--------------------------------------------------------------------------------
(* The backend. *)

Handles(f, request) ==
    /\ flow[f].request = request /\ flow[f].stage = "sent"
    /\ UNCHANGED <<tabVars, expired, outcome, faults>>

Answered(c, status, token, session, name) ==
    [tab |-> c.tab, goal |-> c.goal, request |-> c.request, again |-> c.again,
     stage |-> "answered", token |-> token, session |-> session, name |-> name,
     status |-> status]

Answer(f, status, token, session, name) ==
    flow' = [flow EXCEPT ![f] = Answered(flow[f], status, token, session, name)]

Refuse(f, status) ==
    Answer(f, status, Undefined, 0, flow[f].name) /\ UNCHANGED cognitoVars

(* The password is wrong, or Cognito opens a session. *)
LoginHandler(f) ==
    /\ Handles(f, "login")
    /\ \/ Refuse(f, 400)
       \/ /\ opened' = Append(opened, flow[f].name)
          /\ issued' = Append(issued, Len(opened'))
          /\ Answer(f, 200, Len(issued'), Len(opened'), flow[f].name)
          /\ UNCHANGED <<revoked, loggedOut>>

RefreshHandler(f) ==
    /\ Handles(f, "refresh")
    /\ IF SignedOut(flow[f].session)
         THEN Refuse(f, 401)
         ELSE /\ issued' = Append(issued, flow[f].session)
              /\ Answer(f, 200, Len(issued'), 0, Nobody)
              /\ UNCHANGED <<opened, revoked, loggedOut>>

(* Mutant: logout answers with the cookie and does not call GlobalSignOut. *)
LogoutHandlerCookieOnly(f) ==
    /\ Handles(f, "logout")
    /\ IF flow[f].token = 0 THEN Refuse(f, 401)
       ELSE IF ~Valid(flow[f].token) THEN Refuse(f, 500)
       ELSE /\ loggedOut' = loggedOut \cup SessionsOf(Holder(flow[f].token))
            /\ Answer(f, 200, Undefined, 0, Nobody)
            /\ UNCHANGED <<revoked, opened, issued>>

(* GlobalSignOut of the user of the access token, on all devices. *)
LogoutHandler(f) ==
    /\ Handles(f, "logout")
    /\ IF flow[f].token = 0 THEN Refuse(f, 401)
       ELSE IF ~Valid(flow[f].token) THEN Refuse(f, 500)
       ELSE /\ loggedOut' = loggedOut \cup SessionsOf(Holder(flow[f].token))
            /\ revoked' = revoked \cup SessionsOf(Holder(flow[f].token))
            /\ Answer(f, 200, Undefined, 0, Nobody)
            /\ UNCHANGED <<opened, issued>>

(* The authorizer, and the handlers of the posts behind it, none of whose *)
(* answers to an access token is a 401: 200 stands for all of them.       *)
CallHandler(f) ==
    /\ Handles(f, "call")
    /\ IF Authorized(flow[f].token)
         THEN Answer(f, 200, flow[f].token, 0, Nobody) /\ UNCHANGED cognitoVars
         ELSE Refuse(f, 401)

(* The authorizer, and GetUser behind it. *)
MyInfoHandler(f) ==
    /\ Handles(f, "myinfo")
    /\ IF ~Authorized(flow[f].token) THEN Refuse(f, 401)
       ELSE IF ~Valid(flow[f].token) THEN Refuse(f, 500)
       ELSE /\ Answer(f, 200, flow[f].token, 0, Holder(flow[f].token))
            /\ UNCHANGED cognitoVars

Handle(f) ==
    \/ LoginHandler(f) \/ RefreshHandler(f) \/ LogoutHandler(f)
    \/ CallHandler(f) \/ MyInfoHandler(f)

(* A handler cannot reach Cognito or DynamoDB, or ends with its time: 500. *)
HandlerFails(f) ==
    /\ flow[f].stage = "sent"
    /\ faults < MaxFaults /\ faults' = faults + 1
    /\ Refuse(f, 500)
    /\ UNCHANGED <<tabVars, expired, outcome>>

--------------------------------------------------------------------------------
(* The browser. *)

(* An answer arrives, and its Set-Cookie takes effect; one for a page that *)
(* is gone does not.                                                       *)
Arrives(f) ==
    /\ flow[f].stage = "answered"
    /\ IF flow[f].tab = NoTab
         THEN flow' = [flow EXCEPT ![f] = Idle] /\ UNCHANGED cookie
         ELSE /\ flow' = [flow EXCEPT ![f].stage = "arrived"]
              /\ cookie' = IF flow[f].status # 200 THEN cookie
                           ELSE IF flow[f].request = "login" THEN flow[f].session
                           ELSE IF flow[f].request = "logout" THEN 0
                           ELSE cookie
    /\ UNCHANGED <<accessToken, user, cognitoVars, expired, outcome, faults>>

Continues(f, request) ==
    /\ flow[f].request = request /\ flow[f].stage = "arrived"
    /\ UNCHANGED <<cookie, cognitoVars, expired, faults>>

(* Mutant: the status is not looked at. *)
LoggedInUnchecked(f) ==
    LET c == flow[f] IN
    /\ Continues(f, "login")
    /\ accessToken' = [accessToken EXCEPT ![c.tab] = c.token]
    /\ user' = [user EXCEPT ![c.tab] = c.name]
    /\ End(f, "served")

(* Mutant: the access token of the login is not kept. *)
LoggedInWithoutToken(f) ==
    LET c == flow[f] IN
    /\ Continues(f, "login")
    /\ user' = IF c.status = 200 THEN [user EXCEPT ![c.tab] = c.name] ELSE user
    /\ UNCHANGED accessToken
    /\ End(f, IF c.status = 200 THEN "served" ELSE "refused")

LoggedIn(f) ==
    LET c == flow[f] IN
    /\ Continues(f, "login")
    /\ IF c.status = 200
         THEN /\ accessToken' = [accessToken EXCEPT ![c.tab] = c.token]
              /\ user' = [user EXCEPT ![c.tab] = c.name]
         ELSE UNCHANGED <<accessToken, user>>   \* alert('Login failed')
    /\ End(f, IF c.status = 200 THEN "served" ELSE "refused")

(* Whatever the status is. *)
LoggedOut(f) ==
    /\ Continues(f, "logout")
    /\ accessToken' = [accessToken EXCEPT ![flow[f].tab] = 0]
    /\ user' = [user EXCEPT ![flow[f].tab] = Nobody]
    /\ End(f, "served")

(* fetchWithAuth after its fetch, the first or the second: a first 401 leads *)
(* to a refresh, anything else is returned.                                  *)
Fetched(f) ==
    LET c == flow[f] IN
    /\ Continues(f, IF c.goal = "call" THEN "call" ELSE "myinfo")
    /\ IF c.status = 401 /\ ~c.again
         THEN /\ Send(f, c.tab, c.goal, "refresh", TRUE, 0, Nobody)
              /\ UNCHANGED <<user, outcome>>
         ELSE /\ user' = IF c.goal = "tryRefresh" /\ c.status = 200
                           THEN [user EXCEPT ![c.tab] = c.name] ELSE user
              /\ End(f, IF c.status = 200 THEN "served" ELSE "refused")
    /\ UNCHANGED accessToken

(* Mutant: a refresh that is refused is tried again. *)
RefreshedForever(f) ==
    LET c == flow[f] IN
    /\ Continues(f, "refresh")
    /\ IF c.status = 200
         THEN /\ accessToken' = [accessToken EXCEPT ![c.tab] = c.token]
              /\ Send(f, c.tab, c.goal, IF c.goal = "call" THEN "call" ELSE "myinfo",
                      c.again, c.token, Nobody)
         ELSE /\ Send(f, c.tab, c.goal, "refresh", c.again, 0, Nobody)
              /\ UNCHANGED accessToken
    /\ UNCHANGED <<user, outcome>>

(* fetchWithAuth and tryRefresh after the refresh: the token is set and the *)
(* next request is sent with it; fetchWithAuth throws without one.          *)
Refreshed(f) ==
    LET c == flow[f] IN
    /\ Continues(f, "refresh")
    /\ IF c.status = 200
         THEN /\ accessToken' = [accessToken EXCEPT ![c.tab] = c.token]
              /\ Send(f, c.tab, c.goal, IF c.goal = "call" THEN "call" ELSE "myinfo",
                      c.again, c.token, Nobody)
              /\ UNCHANGED outcome
         ELSE End(f, "refused") /\ UNCHANGED accessToken
    /\ UNCHANGED user

Continue(f) == LoggedIn(f) \/ LoggedOut(f) \/ Fetched(f) \/ Refreshed(f)

(* The connection breaks: fetch or json() rejects and ends the flow.  A *)
(* request may be handled later.                                        *)
Breaks(f) ==
    /\ flow[f].tab # NoTab
    /\ faults < MaxFaults /\ faults' = faults + 1
    /\ flow' = [flow EXCEPT ![f] = IF @.stage = "sent" THEN [@ EXCEPT !.tab = NoTab]
                                   ELSE Idle]
    /\ UNCHANGED <<tabVars, cognitoVars, expired, outcome>>

--------------------------------------------------------------------------------
(* An hour passes for the oldest token. *)
Expire ==
    /\ expired < Len(issued)
    /\ expired' = expired + 1
    /\ UNCHANGED <<tabVars, cognitoVars, flow, outcome, faults>>

(* A user logs out on another device. *)
LogoutElsewhere(name) ==
    /\ ~ SessionsOf(name) \subseteq revoked
    /\ revoked' = revoked \cup SessionsOf(name)
    /\ loggedOut' = loggedOut \cup SessionsOf(name)
    /\ UNCHANGED <<tabVars, opened, issued, expired, flow, outcome, faults>>

Next ==
    \/ \E f \in Flow :
        \/ \E t \in Tab :
            \/ \E name \in User : Login(f, t, name)
            \/ Logout(f, t) \/ Call(f, t) \/ Load(f, t)
        \/ Handle(f) \/ HandlerFails(f) \/ Arrives(f) \/ Continue(f) \/ Breaks(f)
    \/ Expire
    \/ \E name \in User : LogoutElsewhere(name)

(* A request is handled, its answer arrives and the script goes on. *)
Fairness == \A f \in Flow : WF_vars(Handle(f) \/ Arrives(f) \/ Continue(f))

Spec == Init /\ [][Next]_vars /\ Fairness

--------------------------------------------------------------------------------
(* Every token and every session that a tab, the cookie, a request or Cognito *)
(* holds was issued before.                                                   *)
TypeOK ==
    /\ accessToken \in [Tab -> 0 .. Len(issued)]
    /\ user \in [Tab -> User \cup {Nobody}]
    /\ cookie \in 0 .. Len(opened)
    /\ opened \in Seq(User) /\ issued \in Seq(DOMAIN opened)
    /\ expired \in 0 .. Len(issued)
    /\ revoked \subseteq DOMAIN opened /\ loggedOut \subseteq DOMAIN opened
    /\ flow \in [Flow -> Request \cup {Idle}]
    /\ \A f \in Flow : flow[f].token <= Len(issued) /\ flow[f].session <= Len(opened)
    /\ outcome \in [Flow -> {"none", "served", "refused"}]
    /\ faults \in 0 .. MaxFaults

(* A logout that succeeded ends every session its user had, in all tabs and  *)
(* on all devices: no refresh that was on its way, and no cookie that is     *)
(* still there, brings an access token of such a session any more.           *)
NoTokenAfterLogout ==
    [][Len(issued') > Len(issued) => issued'[Len(issued')] \notin loggedOut]_vars

(* Every call of login, logout, tryRefresh and fetchWithAuth ends: a refused *)
(* request leads to one refresh and one more attempt, not to a chain.        *)
FlowsEnd == \A f \in Flow : flow[f] # Idle ~> flow[f] = Idle

(* The page that greets a user ("환영합니다 <strong>{user}</strong>님",       *)
(* App.tsx:119) and has nothing under way acts as that user: the access      *)
(* token it holds is his, however calls, reloads and logouts overlap.  Cut   *)
(* off after its Set-Cookie took effect a login leaves the page with the     *)
(* cookie of another user; no connection has broken here.                    *)
ActsAsShownUser ==
    faults = 0 => \A t \in Tab :
        user[t] # Nobody /\ accessToken[t] # 0 /\ (\A f \in Flow : flow[f].tab # t)
            => Holder(accessToken[t]) = user[t]

(* As long as the session of the cookie was not signed out nobody is asked   *)
(* to log in again, however often the access token expires and whichever     *)
(* calls, refreshes, reloads and logouts overlap: a call, or the tryRefresh  *)
(* of a page that is loaded, is refused only if the cookie is of no use, if  *)
(* the token of the refresh expired, too, before it was used, or if a        *)
(* handler failed.  Logins run alone here (LoginsAlone): one that overlaps a *)
(* refresh of the cookie that it replaces is not covered.                    *)
SignedInIsServed ==
    [][\A f \in Flow :
         flow[f].goal \in {"call", "tryRefresh"} /\ flow[f].stage = "arrived"
           /\ outcome'[f] = "refused"
           => \/ SignedOut(cookie)
              \/ flow[f].status = 401 /\ flow[f].again /\ flow[f].request # "refresh"
              \/ flow[f].status = 500 /\ faults > 0]_vars
================================================================================
