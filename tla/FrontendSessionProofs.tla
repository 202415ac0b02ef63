-------------------------- MODULE FrontendSessionProofs ------------------------
(***************************************************************************)
(* Proofs about FrontendSession for every number of tabs, users, flows,    *)
(* tokens and faults.                                                      *)
(***************************************************************************)
EXTENDS FrontendSession, TLAPS

(* A login names a user, and an answer that brings a token has one. *)
FlowOK(c, tokens, sessions) ==
    /\ c \in Request \cup {Idle}
    /\ c.token <= tokens /\ c.session <= sessions
    /\ c.request = "login" /\ c.stage = "sent" => c.name \in User
    /\ c.request \in {"login", "refresh"} /\ c.status = 200 => c.token \in Nat

FlowsOK ==
    /\ flow = [f \in Flow |-> flow[f]]
    /\ \A f \in Flow : FlowOK(flow[f], Len(issued), Len(opened))

TabsOK ==
    /\ accessToken \in [Tab -> 0 .. Len(issued)]
    /\ user \in [Tab -> User \cup {Nobody}]
    /\ cookie \in 0 .. Len(opened)

(* Whoever is remembered as logged out was signed out at Cognito. *)
CognitoOK ==
    /\ opened \in Seq(User) /\ issued \in Seq(DOMAIN opened)
    /\ revoked \subseteq DOMAIN opened
    /\ loggedOut \subseteq revoked

RestOK ==
    /\ expired \in 0 .. Len(issued)
    /\ outcome \in [Flow -> {"none", "served", "refused"}]
    /\ faults \in 0 .. MaxFaults

IInv == FlowsOK /\ TabsOK /\ CognitoOK /\ RestOK

--------------------------------------------------------------------------------
LEMMA IdleOK ==
    ASSUME NEW m \in Nat, NEW n \in Nat
    PROVE  FlowOK(Idle, m, n)
BY DEF FlowOK, Idle

LEMMA Lengths == CognitoOK => Len(issued) \in Nat /\ Len(opened) \in Nat
BY DEF CognitoOK

LEMMA FlowOKGrows ==
    ASSUME NEW m \in Nat, NEW n \in Nat, NEW m2 \in Nat, NEW n2 \in Nat,
           m <= m2, n <= n2, NEW c, FlowOK(c, m, n)
    PROVE  FlowOK(c, m2, n2)
BY DEF FlowOK, Request, Idle, Undefined

(* One flow goes on to something that is all right, and others keep on. *)
LEMMA FlowChanges ==
    ASSUME FlowsOK, CognitoOK, CognitoOK', NEW f \in Flow, NEW new,
           flow' = [flow EXCEPT ![f] = new],
           FlowOK(new, Len(issued'), Len(opened')),
           Len(issued) <= Len(issued'), Len(opened) <= Len(opened')
    PROVE  FlowsOK'
<1>1. Len(issued) \in Nat /\ Len(opened) \in Nat /\ Len(issued') \in Nat
        /\ Len(opened') \in Nat
  BY DEF CognitoOK
<1>2. \A g \in Flow : FlowOK(flow[g], Len(issued'), Len(opened'))
  BY <1>1, FlowOKGrows DEF FlowsOK
<1>3. \A g \in Flow : flow'[g] = IF g = f THEN new ELSE flow[g]
  BY DEF FlowsOK
<1>4. flow' = [g \in Flow |-> flow'[g]]
  BY DEF FlowsOK
<1> QED BY <1>2, <1>3, <1>4 DEF FlowsOK

LEMMA BusyIsRequest ==
    ASSUME FlowsOK, NEW f \in Flow, flow[f].stage # "none"
    PROVE  /\ flow[f] \in Request
           /\ flow[f].token <= Len(issued) /\ flow[f].session <= Len(opened)
BY DEF FlowsOK, FlowOK, Idle

(* A handler answers the request of a flow with an error. *)
LEMMA RefuseKeeps ==
    ASSUME IInv, NEW f \in Flow, flow[f].stage = "sent",
           NEW status \in {400, 401, 500}, Refuse(f, status),
           UNCHANGED tabVars, RestOK'
    PROVE  IInv'
<1>1. CognitoOK' /\ TabsOK'
  BY DEF IInv, Refuse, cognitoVars, tabVars, CognitoOK, TabsOK
<1>2. Len(issued') \in Nat /\ Len(opened') \in Nat
        /\ Len(issued) <= Len(issued') /\ Len(opened) <= Len(opened')
  BY Lengths DEF IInv, Refuse, cognitoVars
<1> DEFINE new == Answered(flow[f], status, Undefined, 0, flow[f].name)
<1>3. flow[f] \in Request
  BY BusyIsRequest DEF IInv
<1>4. new \in Request
  BY <1>3 DEF Answered, Request
<1>5. FlowOK(new, Len(issued'), Len(opened'))
  BY <1>2, <1>3, <1>4 DEF FlowOK, Answered, Undefined
<1>6. flow' = [flow EXCEPT ![f] = new]
  BY DEF Refuse, Answer
<1> HIDE DEF new
<1>7. FlowsOK'
  BY <1>1, <1>2, <1>5, <1>6, FlowChanges DEF IInv
<1> QED BY <1>1, <1>7 DEF IInv

(* One flow goes on and Cognito is not concerned. *)
LEMMA FlowStep ==
    ASSUME IInv, NEW f \in Flow, NEW new, flow' = [flow EXCEPT ![f] = new],
           FlowOK(new, Len(issued), Len(opened)),
           UNCHANGED cognitoVars, TabsOK', RestOK'
    PROVE  IInv'
<1>1. CognitoOK'
  BY DEF IInv, CognitoOK, cognitoVars
<1>2. Len(issued') \in Nat /\ Len(opened') \in Nat
        /\ Len(issued) <= Len(issued') /\ Len(opened) <= Len(opened')
        /\ FlowOK(new, Len(issued'), Len(opened'))
  BY Lengths DEF IInv, cognitoVars
<1>3. FlowsOK'
  BY <1>1, <1>2, FlowChanges DEF IInv
<1> QED BY <1>1, <1>3 DEF IInv

(* Steps that touch neither the tabs nor Cognito keep what is said of them. *)
LEMMA TabsKept == IInv /\ UNCHANGED <<tabVars, cognitoVars>> => TabsOK'
BY DEF IInv, TabsOK, tabVars, cognitoVars

LEMMA RestKept ==
    IInv /\ UNCHANGED <<cognitoVars, expired, outcome, faults>> => RestOK'
BY DEF IInv, RestOK, cognitoVars

LEMMA StartsKeeps ==
    ASSUME IInv, NEW f \in Flow, NEW t \in Tab, NEW g, Starts(f, g), UNCHANGED tabVars,
           NEW goal \in {"login", "logout", "call"}, NEW token \in 0 .. Len(issued),
           NEW name \in User \cup {Nobody}, goal = "login" => name \in User,
           Send(f, t, goal, goal, FALSE, token, name)
    PROVE  IInv'
<1>1. RestOK'
  BY DEF Starts, IInv, RestOK, cognitoVars
<1>2. TabsOK'
  BY TabsKept DEF Starts
<1> DEFINE new == Sent(t, goal, goal, FALSE, token, name)
<1>3. FlowOK(new, Len(issued), Len(opened))
  BY Lengths DEF IInv, TabsOK, FlowOK, Sent, Request
<1>4. flow' = [flow EXCEPT ![f] = new]
  BY DEF Send
<1> HIDE DEF new
<1> QED BY <1>1, <1>2, <1>3, <1>4, FlowStep DEF Starts

LEMMA LoadKeeps ==
    ASSUME IInv, NEW f \in Flow, NEW t \in Tab, Load(f, t)
    PROVE  IInv'
<1>1. CognitoOK' /\ RestOK'
  BY DEF Load, IInv, CognitoOK, RestOK, cognitoVars
<1>2. TabsOK'
  BY Lengths DEF Load, IInv, TabsOK, cognitoVars
<1>3. UNCHANGED <<issued, opened>> /\ Len(issued) \in Nat /\ Len(opened) \in Nat
  BY Lengths DEF Load, cognitoVars, IInv
<1>4. flow' = [g \in Flow |-> flow'[g]]
  BY DEF Load
<1>5. ASSUME NEW g \in Flow PROVE FlowOK(flow'[g], Len(issued), Len(opened))
  <2>1. CASE g = f
    <3>1. flow'[g] = Sent(t, "tryRefresh", "refresh", FALSE, 0, Nobody)
      BY <2>1 DEF Load
    <3> QED BY <1>3, <3>1 DEF IInv, TabsOK, FlowOK, Sent, Request
  <2>2. CASE g # f /\ flow[g].tab = t /\ flow[g].stage = "sent"
    <3>1. flow'[g] = [flow[g] EXCEPT !.tab = NoTab]
      BY <2>2 DEF Load
    <3>2. flow[g] \in Request /\ FlowOK(flow[g], Len(issued), Len(opened))
      BY <2>2, BusyIsRequest DEF IInv, FlowsOK
    <3>3. [flow[g] EXCEPT !.tab = NoTab] \in Request
      BY <3>2 DEF Request
    <3> QED BY <3>1, <3>2, <3>3 DEF FlowOK, Request
  <2>3. CASE g # f /\ flow[g].tab = t /\ flow[g].stage # "sent"
    BY <1>3, <2>3, IdleOK DEF Load
  <2>4. CASE g # f /\ flow[g].tab # t
    BY <2>4 DEF Load, IInv, FlowsOK
  <2> QED BY <2>1, <2>2, <2>3, <2>4
<1>6. FlowsOK'
  BY <1>3, <1>4, <1>5 DEF FlowsOK
<1> QED BY <1>1, <1>2, <1>6 DEF IInv

--------------------------------------------------------------------------------
(* The backend. *)

(* Cognito issued a token for a session, or signed sessions out. *)
LEMMA AnswerStep ==
    ASSUME IInv, NEW f \in Flow, NEW new, flow' = [flow EXCEPT ![f] = new],
           FlowOK(new, Len(issued'), Len(opened')), CognitoOK',
           Len(issued) <= Len(issued'), Len(opened) <= Len(opened'),
           UNCHANGED <<tabVars, expired, outcome, faults>>
    PROVE  IInv'
<1>1. FlowsOK'
  BY FlowChanges DEF IInv
<1>2. TabsOK' /\ RestOK'
  BY Lengths DEF IInv, TabsOK, RestOK, tabVars, CognitoOK
<1> QED BY <1>1, <1>2 DEF IInv

LEMMA LoginHandlerKeeps ==
    ASSUME IInv, NEW f \in Flow, LoginHandler(f)
    PROVE  IInv'
<1>1. CASE Refuse(f, 400)
  <2>1. RestOK'
    BY <1>1, RestKept DEF LoginHandler, Handles, Refuse
  <2> QED BY <1>1, <2>1, RefuseKeeps DEF LoginHandler, Handles
<1>2. CASE ~Refuse(f, 400)
  <2>1. /\ flow[f].request = "login" /\ flow[f].stage = "sent"
        /\ opened' = Append(opened, flow[f].name)
        /\ issued' = Append(issued, Len(opened'))
        /\ Answer(f, 200, Len(issued'), Len(opened'), flow[f].name)
        /\ UNCHANGED <<revoked, loggedOut, tabVars, expired, outcome, faults>>
    BY <1>2 DEF LoginHandler, Handles
  <2>2. flow[f].name \in User /\ flow[f] \in Request
    BY <2>1, BusyIsRequest DEF IInv, FlowsOK, FlowOK
  <2>3. /\ Len(opened') = Len(opened) + 1 /\ opened' \in Seq(User)
        /\ Len(opened) \in Nat
    BY <2>1, <2>2 DEF IInv, CognitoOK
  <2>4. issued \in Seq(DOMAIN opened') /\ Len(opened') \in DOMAIN opened'
    BY <2>3 DEF IInv, CognitoOK
  <2>5. /\ issued' \in Seq(DOMAIN opened') /\ Len(issued') = Len(issued) + 1
        /\ Len(issued) \in Nat
    BY <2>1, <2>4
  <2>6. CognitoOK'
    BY <2>1, <2>3, <2>5 DEF IInv, CognitoOK
  <2> DEFINE new == Answered(flow[f], 200, Len(issued'), Len(opened'), flow[f].name)
  <2>7. FlowOK(new, Len(issued'), Len(opened'))
    BY <2>2, <2>3, <2>5 DEF FlowOK, Answered, Request
  <2>8. flow' = [flow EXCEPT ![f] = new]
    BY <2>1 DEF Answer
  <2> HIDE DEF new
  <2>9. /\ Len(issued) <= Len(issued') /\ Len(opened) <= Len(opened')
        /\ UNCHANGED <<tabVars, expired, outcome, faults>>
    BY <2>1, <2>3, <2>5
  <2> QED BY <2>6, <2>7, <2>8, <2>9, AnswerStep
<1> QED BY <1>1, <1>2

LEMMA RefreshHandlerKeeps ==
    ASSUME IInv, NEW f \in Flow, RefreshHandler(f)
    PROVE  IInv'
<1>1. CASE SignedOut(flow[f].session)
  <2>1. RestOK'
    BY <1>1, RestKept DEF RefreshHandler, Handles, Refuse
  <2> QED BY <1>1, <2>1, RefuseKeeps DEF RefreshHandler, Handles
<1>2. CASE ~SignedOut(flow[f].session)
  <2>1. /\ flow[f].request = "refresh" /\ flow[f].stage = "sent"
        /\ issued' = Append(issued, flow[f].session)
        /\ Answer(f, 200, Len(issued'), 0, Nobody)
        /\ UNCHANGED <<opened, revoked, loggedOut, tabVars, expired, outcome, faults>>
    BY <1>2 DEF RefreshHandler, Handles
  <2>2. flow[f] \in Request /\ flow[f].session \in DOMAIN opened
    BY <1>2, <2>1, BusyIsRequest DEF IInv, CognitoOK, SignedOut, Request
  <2>3. /\ issued' \in Seq(DOMAIN opened) /\ Len(issued') = Len(issued) + 1
        /\ Len(issued) \in Nat /\ Len(opened) \in Nat
    BY <2>1, <2>2 DEF IInv, CognitoOK
  <2>4. CognitoOK'
    BY <2>1, <2>3 DEF IInv, CognitoOK
  <2> DEFINE new == Answered(flow[f], 200, Len(issued'), 0, Nobody)
  <2>5. FlowOK(new, Len(issued'), Len(opened'))
    BY <2>1, <2>2, <2>3 DEF FlowOK, Answered, Request
  <2>6. flow' = [flow EXCEPT ![f] = new]
    BY <2>1 DEF Answer
  <2> HIDE DEF new
  <2>7. /\ Len(issued) <= Len(issued') /\ Len(opened) <= Len(opened')
        /\ UNCHANGED <<tabVars, expired, outcome, faults>>
    BY <2>1, <2>3
  <2> QED BY <2>4, <2>5, <2>6, <2>7, AnswerStep
<1> QED BY <1>1, <1>2

LEMMA LogoutHandlerKeeps ==
    ASSUME IInv, NEW f \in Flow, LogoutHandler(f)
    PROVE  IInv'
<1>1. CASE flow[f].token = 0 \/ ~Valid(flow[f].token)
  <2>1. \E status \in {401, 500} : Refuse(f, status)
    BY <1>1 DEF LogoutHandler
  <2>2. RestOK'
    BY <2>1, RestKept DEF LogoutHandler, Handles, Refuse
  <2> QED BY <2>1, <2>2, RefuseKeeps DEF LogoutHandler, Handles
<1>2. CASE ~(flow[f].token = 0 \/ ~Valid(flow[f].token))
  <2> DEFINE ended == SessionsOf(Holder(flow[f].token))
  <2>1. /\ flow[f].request = "logout" /\ flow[f].stage = "sent"
        /\ loggedOut' = loggedOut \cup ended /\ revoked' = revoked \cup ended
        /\ Answer(f, 200, Undefined, 0, Nobody)
        /\ UNCHANGED <<opened, issued, tabVars, expired, outcome, faults>>
    BY <1>2 DEF LogoutHandler, Handles
  <2>2. ended \subseteq DOMAIN opened
    BY DEF SessionsOf
  <2>3. CognitoOK' /\ Len(issued) \in Nat /\ Len(opened) \in Nat
    BY <2>1, <2>2, Lengths DEF IInv, CognitoOK
  <2> DEFINE new == Answered(flow[f], 200, Undefined, 0, Nobody)
  <2>4. FlowOK(new, Len(issued'), Len(opened'))
    BY <2>1, <2>3, BusyIsRequest DEF IInv, FlowOK, Answered, Request, Undefined
  <2>5. flow' = [flow EXCEPT ![f] = new]
    BY <2>1 DEF Answer
  <2> HIDE DEF new, ended
  <2>6. /\ Len(issued) <= Len(issued') /\ Len(opened) <= Len(opened')
        /\ UNCHANGED <<tabVars, expired, outcome, faults>>
    BY <2>1, <2>3
  <2> QED BY <2>3, <2>4, <2>5, <2>6, AnswerStep
<1> QED BY <1>1, <1>2

LEMMA HolderIsUser ==
    ASSUME IInv, NEW token \in 1 .. Len(issued)
    PROVE  Holder(token) \in User
<1>1. issued[token] \in DOMAIN opened
  BY DEF IInv, CognitoOK
<1> QED BY <1>1 DEF IInv, CognitoOK, Holder

LEMMA CallHandlerKeeps ==
    ASSUME IInv, NEW f \in Flow, CallHandler(f)
    PROVE  IInv'
<1>1. CASE ~Authorized(flow[f].token)
  <2>1. RestOK'
    BY <1>1, RestKept DEF CallHandler, Handles, Refuse
  <2> QED BY <1>1, <2>1, RefuseKeeps DEF CallHandler, Handles
<1>2. CASE Authorized(flow[f].token)
  <2>1. /\ flow[f].request = "call" /\ flow[f].stage = "sent"
        /\ Answer(f, 200, flow[f].token, 0, Nobody)
        /\ UNCHANGED cognitoVars /\ UNCHANGED <<tabVars, expired, outcome, faults>>
    BY <1>2 DEF CallHandler, Handles
  <2>2. TabsOK' /\ RestOK'
    BY <2>1, TabsKept, RestKept
  <2> DEFINE new == Answered(flow[f], 200, flow[f].token, 0, Nobody)
  <2>3. FlowOK(new, Len(issued), Len(opened))
    BY <2>1, BusyIsRequest, Lengths DEF IInv, FlowOK, Answered, Request
  <2>4. flow' = [flow EXCEPT ![f] = new]
    BY <2>1 DEF Answer
  <2> HIDE DEF new
  <2> QED BY <2>1, <2>2, <2>3, <2>4, FlowStep
<1> QED BY <1>1, <1>2

LEMMA MyInfoHandlerKeeps ==
    ASSUME IInv, NEW f \in Flow, MyInfoHandler(f)
    PROVE  IInv'
<1>1. CASE ~Authorized(flow[f].token) \/ ~Valid(flow[f].token)
  <2>1. \E status \in {401, 500} : Refuse(f, status)
    BY <1>1 DEF MyInfoHandler
  <2>2. RestOK'
    BY <2>1, RestKept DEF MyInfoHandler, Handles, Refuse
  <2> QED BY <2>1, <2>2, RefuseKeeps DEF MyInfoHandler, Handles
<1>2. CASE Authorized(flow[f].token) /\ Valid(flow[f].token)
  <2> DEFINE name == Holder(flow[f].token)
  <2>1. /\ flow[f].request = "myinfo" /\ flow[f].stage = "sent"
        /\ Answer(f, 200, flow[f].token, 0, name)
        /\ UNCHANGED cognitoVars /\ UNCHANGED <<tabVars, expired, outcome, faults>>
    BY <1>2 DEF MyInfoHandler, Handles
  <2>2. TabsOK' /\ RestOK'
    BY <2>1, TabsKept, RestKept
  <2>3. flow[f] \in Request /\ flow[f].token \in 1 .. Len(issued)
    BY <1>2, <2>1, BusyIsRequest, Lengths
       DEF IInv, RestOK, Authorized, Request, Undefined
  <2>4. name \in User
    BY <2>3, HolderIsUser
  <2> HIDE DEF name
  <2> DEFINE new == Answered(flow[f], 200, flow[f].token, 0, name)
  <2>5. FlowOK(new, Len(issued), Len(opened))
    BY <2>1, <2>3, <2>4, Lengths DEF IInv, FlowOK, Answered, Request
  <2>6. flow' = [flow EXCEPT ![f] = new]
    BY <2>1 DEF Answer
  <2> HIDE DEF new
  <2> QED BY <2>1, <2>2, <2>5, <2>6, FlowStep
<1> QED BY <1>1, <1>2

LEMMA HandlerFailsKeeps ==
    ASSUME IInv, NEW f \in Flow, HandlerFails(f)
    PROVE  IInv'
<1>1. RestOK'
  BY SessionAssumption DEF HandlerFails, Refuse, cognitoVars, IInv, RestOK
<1> QED BY <1>1, RefuseKeeps DEF HandlerFails

--------------------------------------------------------------------------------
(* The browser. *)

LEMMA ArrivesKeeps ==
    ASSUME IInv, NEW f \in Flow, Arrives(f)
    PROVE  IInv'
<1>1. RestOK'
  BY RestKept DEF Arrives
<1>2. flow[f] \in Request /\ FlowOK(flow[f], Len(issued), Len(opened))
  BY BusyIsRequest DEF Arrives, IInv, FlowsOK
<1>3. TabsOK'
  BY <1>2, Lengths DEF Arrives, IInv, TabsOK, cognitoVars, FlowOK, Request
<1>4. CASE flow[f].tab = NoTab
  BY <1>1, <1>3, <1>4, IdleOK, Lengths, FlowStep DEF Arrives, IInv
<1>5. CASE flow[f].tab # NoTab
  <2> DEFINE new == [flow[f] EXCEPT !.stage = "arrived"]
  <2>1. new \in Request
    BY <1>2 DEF Request
  <2>2. FlowOK(new, Len(issued), Len(opened))
    BY <1>2, <2>1 DEF FlowOK, Request
  <2>3. flow' = [flow EXCEPT ![f] = new]
    BY <1>5 DEF Arrives
  <2> HIDE DEF new
  <2> QED BY <1>1, <1>3, <2>2, <2>3, FlowStep DEF Arrives
<1> QED BY <1>4, <1>5

(* A flow ends, and its tab keeps what it got. *)
LEMMA EndKeeps ==
    ASSUME IInv, NEW f \in Flow, NEW how \in {"served", "refused"}, End(f, how),
           UNCHANGED <<cognitoVars, expired, faults>>, TabsOK'
    PROVE  IInv'
<1>1. RestOK'
  BY DEF IInv, RestOK, End, cognitoVars
<1>2. FlowOK(Idle, Len(issued), Len(opened))
  BY IdleOK, Lengths DEF IInv
<1> QED BY <1>1, <1>2, FlowStep DEF End

(* The script is past one request of a flow and sends the next. *)
LEMMA SendKeeps ==
    ASSUME IInv, NEW f \in Flow, flow[f].stage = "arrived",
           NEW request \in {"call", "refresh", "myinfo"}, NEW again \in BOOLEAN,
           NEW token \in 0 .. Len(issued),
           Send(f, flow[f].tab, flow[f].goal, request, again, token, Nobody),
           UNCHANGED <<cookie, cognitoVars, expired, outcome, faults>>, TabsOK'
    PROVE  IInv'
<1>1. RestOK'
  BY RestKept
<1>2. flow[f] \in Request /\ cookie \in 0 .. Len(opened)
  BY BusyIsRequest DEF IInv, TabsOK
<1> DEFINE new == Sent(flow[f].tab, flow[f].goal, request, again, token, Nobody)
<1>3. FlowOK(new, Len(issued), Len(opened))
  BY <1>2, Lengths DEF IInv, FlowOK, Sent, Request
<1>4. flow' = [flow EXCEPT ![f] = new]
  BY DEF Send
<1> HIDE DEF new
<1> QED BY <1>1, <1>3, <1>4, FlowStep

LEMMA ContinueKeeps ==
    ASSUME IInv, NEW f \in Flow, Continue(f)
    PROVE  IInv'
<1>1. /\ flow[f].stage = "arrived"
      /\ UNCHANGED <<cookie, cognitoVars, expired, faults>>
  BY DEF Continue, LoggedIn, LoggedOut, Fetched, Refreshed, Continues
<1>2. flow[f] \in Request /\ FlowOK(flow[f], Len(issued), Len(opened))
  BY <1>1, BusyIsRequest DEF IInv, FlowsOK
<1>3. ASSUME TabsOK', NEW how \in {"served", "refused"}, End(f, how) PROVE IInv'
  BY <1>1, <1>3, EndKeeps
<1>4. CASE LoggedIn(f)
  <2>1. TabsOK'
    <3>1. CASE flow[f].status = 200
      <4>1. flow[f].token \in 0 .. Len(issued) /\ flow[f].name \in User \cup {Nobody}
        BY <1>2, <1>4, <3>1, Lengths DEF LoggedIn, Continues, IInv, FlowOK, Request
      <4>2. /\ accessToken' = [accessToken EXCEPT ![flow[f].tab] = flow[f].token]
            /\ user' = [user EXCEPT ![flow[f].tab] = flow[f].name]
        BY <1>4, <3>1 DEF LoggedIn
      <4> QED BY <1>1, <4>1, <4>2 DEF IInv, TabsOK, cognitoVars
    <3>2. CASE flow[f].status # 200
      <4>1. UNCHANGED <<accessToken, user>>
        BY <1>4, <3>2 DEF LoggedIn
      <4> QED BY <1>1, <4>1 DEF IInv, TabsOK, cognitoVars
    <3> QED BY <3>1, <3>2
  <2> QED BY <1>3, <1>4, <2>1 DEF LoggedIn
<1>5. CASE LoggedOut(f)
  <2>1. TabsOK'
    <3>1. 0 \in 0 .. Len(issued)
      BY Lengths DEF IInv
    <3>2. /\ accessToken' = [accessToken EXCEPT ![flow[f].tab] = 0]
          /\ user' = [user EXCEPT ![flow[f].tab] = Nobody]
      BY <1>5 DEF LoggedOut
    <3> QED BY <1>1, <3>1, <3>2 DEF IInv, TabsOK, cognitoVars
  <2> QED BY <1>3, <1>5, <2>1 DEF LoggedOut
<1>6. CASE Fetched(f)
  <2>1. TabsOK'
    <3>1. UNCHANGED accessToken
            /\ (UNCHANGED user \/ user' = [user EXCEPT ![flow[f].tab] = flow[f].name])
      BY <1>6 DEF Fetched
    <3>2. flow[f].name \in User \cup {Nobody}
      BY <1>2 DEF Request
    <3> QED BY <1>1, <3>1, <3>2 DEF IInv, TabsOK, cognitoVars
  <2>2. CASE flow[f].status = 401 /\ ~flow[f].again
    <3>1. /\ Send(f, flow[f].tab, flow[f].goal, "refresh", TRUE, 0, Nobody)
          /\ UNCHANGED outcome
      BY <1>6, <2>2 DEF Fetched
    <3>2. 0 \in 0 .. Len(issued)
      BY Lengths DEF IInv
    <3> QED BY <1>1, <2>1, <3>1, <3>2, SendKeeps
  <2>3. CASE ~(flow[f].status = 401 /\ ~flow[f].again)
    BY <1>3, <1>6, <2>1, <2>3 DEF Fetched
  <2> QED BY <2>2, <2>3
<1>7. CASE Refreshed(f)
  <2>1. CASE flow[f].status = 200
    <3> DEFINE request == IF flow[f].goal = "call" THEN "call" ELSE "myinfo"
    <3>1. flow[f].token \in 0 .. Len(issued) /\ flow[f].again \in BOOLEAN
            /\ request \in {"call", "refresh", "myinfo"}
      BY <1>2, <1>7, <2>1, Lengths DEF Refreshed, Continues, FlowOK, Request, IInv
    <3>2. /\ accessToken' = [accessToken EXCEPT ![flow[f].tab] = flow[f].token]
          /\ Send(f, flow[f].tab, flow[f].goal, request, flow[f].again, flow[f].token,
                  Nobody)
          /\ UNCHANGED <<user, outcome>>
      BY <1>7, <2>1 DEF Refreshed
    <3> HIDE DEF request
    <3>3. TabsOK'
      BY <1>1, <3>1, <3>2 DEF IInv, TabsOK, cognitoVars
    <3> QED BY <1>1, <3>1, <3>2, <3>3, SendKeeps
  <2>2. CASE flow[f].status # 200
    <3>1. TabsOK'
      BY <1>1, <1>7, <2>2 DEF Refreshed, IInv, TabsOK, cognitoVars
    <3> QED BY <1>3, <1>7, <2>2, <3>1 DEF Refreshed
  <2> QED BY <2>1, <2>2
<1> QED BY <1>4, <1>5, <1>6, <1>7 DEF Continue

LEMMA BreaksKeeps ==
    ASSUME IInv, NEW f \in Flow, Breaks(f)
    PROVE  IInv'
<1>1. RestOK' /\ TabsOK'
  BY SessionAssumption, TabsKept DEF Breaks, IInv, RestOK, cognitoVars
<1>2. CASE flow[f].stage = "sent"
  <2> DEFINE new == [flow[f] EXCEPT !.tab = NoTab]
  <2>1. flow[f] \in Request /\ FlowOK(flow[f], Len(issued), Len(opened))
    BY <1>2, BusyIsRequest DEF IInv, FlowsOK
  <2>2. new \in Request
    BY <2>1 DEF Request
  <2>3. FlowOK(new, Len(issued), Len(opened))
    BY <2>1, <2>2 DEF FlowOK, Request
  <2>4. flow' = [flow EXCEPT ![f] = new]
    BY <1>2 DEF Breaks
  <2> HIDE DEF new
  <2> QED BY <1>1, <2>3, <2>4, FlowStep DEF Breaks
<1>3. CASE flow[f].stage # "sent"
  BY <1>1, <1>3, IdleOK, Lengths, FlowStep DEF Breaks, IInv
<1> QED BY <1>2, <1>3

LEMMA OutsideKeeps ==
    ASSUME IInv, Expire \/ \E name \in User : LogoutElsewhere(name)
    PROVE  IInv'
<1>1. UNCHANGED <<tabVars, opened, issued, flow, outcome, faults>>
  BY DEF Expire, LogoutElsewhere, cognitoVars
<1>2. FlowsOK' /\ TabsOK'
  BY <1>1 DEF IInv, FlowsOK, TabsOK, tabVars
<1>3. RestOK'
  BY Lengths DEF IInv, RestOK, Expire, LogoutElsewhere, cognitoVars
<1>4. CognitoOK'
  BY DEF IInv, CognitoOK, Expire, LogoutElsewhere, cognitoVars, SessionsOf
<1> QED BY <1>2, <1>3, <1>4 DEF IInv

--------------------------------------------------------------------------------
LEMMA InitKeeps == Init => IInv
<1> SUFFICES ASSUME Init PROVE IInv
  OBVIOUS
<1>1. Len(issued) = 0 /\ Len(opened) = 0 /\ DOMAIN opened = {}
  BY DEF Init
<1>2. CognitoOK
  BY DEF Init, CognitoOK
<1>3. TabsOK /\ RestOK
  BY <1>1, SessionAssumption DEF Init, TabsOK, RestOK
<1>4. FlowsOK
  BY <1>1, IdleOK DEF Init, FlowsOK
<1> QED BY <1>2, <1>3, <1>4 DEF IInv

LEMMA NextKeeps == IInv /\ [Next]_vars => IInv'
<1> SUFFICES ASSUME IInv, [Next]_vars PROVE IInv'
  OBVIOUS
<1>1. CASE UNCHANGED vars
  BY <1>1 DEF IInv, FlowsOK, TabsOK, CognitoOK, RestOK, vars, tabVars, cognitoVars
<1>2. ASSUME NEW f \in Flow, NEW t \in Tab,
             (\E name \in User : Login(f, t, name)) \/ Logout(f, t) \/ Call(f, t)
      PROVE  IInv'
  <2>1. accessToken[t] \in 0 .. Len(issued) /\ 0 \in 0 .. Len(issued)
    BY Lengths DEF IInv, TabsOK
  <2>2. ASSUME NEW name \in User, Login(f, t, name) PROVE IInv'
    BY <2>1, <2>2, StartsKeeps DEF Login
  <2>3. CASE Logout(f, t)
    BY <2>1, <2>3, StartsKeeps DEF Logout
  <2>4. CASE Call(f, t)
    BY <2>1, <2>4, StartsKeeps DEF Call
  <2> QED BY <1>2, <2>2, <2>3, <2>4
<1>3. ASSUME NEW f \in Flow, NEW t \in Tab, Load(f, t) PROVE IInv'
  BY <1>3, LoadKeeps
<1>4. ASSUME NEW f \in Flow, Handle(f) PROVE IInv'
  BY <1>4, LoginHandlerKeeps, RefreshHandlerKeeps, LogoutHandlerKeeps,
     CallHandlerKeeps, MyInfoHandlerKeeps DEF Handle
<1>5. ASSUME NEW f \in Flow, HandlerFails(f) \/ Arrives(f) \/ Continue(f) \/ Breaks(f)
      PROVE  IInv'
  BY <1>5, HandlerFailsKeeps, ArrivesKeeps, ContinueKeeps, BreaksKeeps
<1>6. CASE Expire \/ \E name \in User : LogoutElsewhere(name)
  BY <1>6, OutsideKeeps
<1> QED BY <1>1, <1>2, <1>3, <1>4, <1>5, <1>6 DEF Next

LEMMA Invariance == Spec => []IInv
BY InitKeeps, NextKeeps, PTL DEF Spec

LEMMA InvariantIsTyped == IInv => TypeOK
<1> SUFFICES ASSUME IInv PROVE TypeOK
  OBVIOUS
<1>1. flow \in [Flow -> Request \cup {Idle}]
  BY DEF IInv, FlowsOK, FlowOK
<1>2. \A f \in Flow : flow[f].token <= Len(issued) /\ flow[f].session <= Len(opened)
  BY DEF IInv, FlowsOK, FlowOK
<1> QED BY <1>1, <1>2 DEF IInv, TabsOK, CognitoOK, RestOK, TypeOK

(* The types, and that every token and session in use was issued before. *)
THEOREM TypeCorrect == Spec => []TypeOK
BY Invariance, InvariantIsTyped, PTL

(* The steps that concern Cognito: logins, refreshes and logouts. *)
LEMMA CognitoSteps ==
    ASSUME [Next]_vars, ~ UNCHANGED cognitoVars
    PROVE  \/ \E f \in Flow : LoginHandler(f) \/ RefreshHandler(f) \/ LogoutHandler(f)
           \/ \E name \in User : LogoutElsewhere(name)
<1>1. ~ UNCHANGED vars
  BY DEF vars
<1>2. ASSUME NEW f \in Flow, NEW g, Starts(f, g) PROVE FALSE
  BY <1>2 DEF Starts
<1>3. ASSUME NEW f \in Flow, NEW request, Continues(f, request) PROVE FALSE
  BY <1>3 DEF Continues
<1>4. ASSUME NEW f \in Flow, NEW t \in Tab, NEW name \in User, Login(f, t, name)
      PROVE  FALSE
  BY <1>2, <1>4 DEF Login
<1>5. ASSUME NEW f \in Flow, NEW t \in Tab, Logout(f, t) \/ Call(f, t) PROVE FALSE
  BY <1>2, <1>5 DEF Logout, Call
<1>6. ASSUME NEW f \in Flow, NEW t \in Tab, Load(f, t) PROVE FALSE
  BY <1>6 DEF Load
<1>7. ASSUME NEW f \in Flow, CallHandler(f) \/ MyInfoHandler(f) PROVE FALSE
  BY <1>7 DEF CallHandler, MyInfoHandler, Refuse
<1>8. ASSUME NEW f \in Flow, HandlerFails(f) PROVE FALSE
  BY <1>8 DEF HandlerFails, Refuse
<1>9. ASSUME NEW f \in Flow, Arrives(f) \/ Breaks(f) PROVE FALSE
  BY <1>9 DEF Arrives, Breaks
<1>10. ASSUME NEW f \in Flow, Continue(f) PROVE FALSE
  BY <1>3, <1>10 DEF Continue, LoggedIn, LoggedOut, Fetched, Refreshed
<1>11. ~ Expire
  BY DEF Expire
<1>12. CASE \E f \in Flow : Handle(f)
  BY <1>7, <1>12 DEF Handle
<1> QED BY <1>1, <1>4, <1>5, <1>6, <1>8, <1>9, <1>10, <1>11, <1>12 DEF Next

(* A logout that succeeded is final: App.tsx's tabs, requests that overtake  *)
(* it and the cookies that stay bring no token of a session it ended.        *)
THEOREM LogoutEndsSessions == Spec => NoTokenAfterLogout
<1>1. ASSUME IInv, [Next]_vars, Len(issued') > Len(issued)
      PROVE  issued'[Len(issued')] \notin loggedOut
  <2>1. Len(issued) \in Nat
    BY <1>1, Lengths DEF IInv
  <2>2. PICK f \in Flow : LoginHandler(f) \/ RefreshHandler(f)
    <3>1. issued' # issued
      BY <1>1, <2>1
    <3>2. ~ UNCHANGED cognitoVars
      BY <3>1 DEF cognitoVars
    <3>3. ASSUME NEW g \in Flow, LogoutHandler(g) PROVE FALSE
      BY <3>1, <3>3 DEF LogoutHandler, Refuse, cognitoVars
    <3>4. ~ \E name \in User : LogoutElsewhere(name)
      BY <3>1 DEF LogoutElsewhere
    <3> QED BY <1>1, <3>2, <3>3, <3>4, CognitoSteps
  <2>3. CASE LoginHandler(f)
    <3>1. /\ opened' = Append(opened, flow[f].name) /\ flow[f].stage = "sent"
          /\ issued' = Append(issued, Len(opened'))
      BY <1>1, <2>1, <2>3 DEF LoginHandler, Handles, Refuse, cognitoVars
    <3>2. issued'[Len(issued')] = Len(opened')
      BY <1>1, <3>1 DEF IInv, CognitoOK
    <3>3. Len(opened') = Len(opened) + 1
      BY <1>1, <3>1 DEF IInv, CognitoOK
    <3>4. loggedOut \subseteq 1 .. Len(opened) /\ Len(opened) \in Nat
      BY <1>1 DEF IInv, CognitoOK
    <3> QED BY <3>2, <3>3, <3>4
  <2>4. CASE RefreshHandler(f)
    <3>1. issued' = Append(issued, flow[f].session) /\ ~SignedOut(flow[f].session)
      BY <1>1, <2>1, <2>4 DEF RefreshHandler, Handles, Refuse, cognitoVars
    <3>2. issued'[Len(issued')] = flow[f].session
      BY <1>1, <3>1 DEF IInv, CognitoOK
    <3> QED BY <1>1, <3>1, <3>2 DEF IInv, CognitoOK, SignedOut
  <2> QED BY <2>2, <2>3, <2>4
<1>2. IInv /\ [Next]_vars
        => [Len(issued') > Len(issued) => issued'[Len(issued')] \notin loggedOut]_vars
  BY <1>1
<1> QED BY <1>2, Invariance, PTL DEF Spec, NoTokenAfterLogout

--------------------------------------------------------------------------------
(* What the flows of calls and loads know of the cookie, as long as nobody   *)
(* logs in while they run.  The cookie is then theirs or gone.               *)

(* The requests each function of App.tsx sends. *)
GoalOK(f) ==
    <<flow[f].goal, flow[f].request>> \in
        {<<"none", "none">>, <<"login", "login">>, <<"logout", "logout">>,
         <<"call", "call">>, <<"call", "refresh">>,
         <<"tryRefresh", "refresh">>, <<"tryRefresh", "myinfo">>}

Running(f) == flow[f].tab # NoTab

(* What is under way has not ended, and only a page that is there goes on. *)
OutcomeOK(f) ==
    /\ flow[f] # Idle => outcome[f] = "none"
    /\ flow[f].stage = "arrived" => Running(f)

Served(f) == Running(f) /\ flow[f].goal \in {"call", "tryRefresh"}

(* A refresh brought an access token, which myInfo may have used. *)
HasToken(f) ==
    /\ flow[f].request \in {"refresh", "myinfo"}
    /\ flow[f].status = 200 \/ (flow[f].request = "myinfo" /\ flow[f].stage = "sent")

CookieOK(f) ==
    Served(f) =>
        /\ flow[f].stage = "sent" =>
             /\ flow[f].status = 0
             /\ flow[f].request = "refresh" => cookie \in {0, flow[f].session}
        /\ HasToken(f) => /\ flow[f].token \in DOMAIN issued
                          /\ cookie \in {0, issued[flow[f].token]}
        /\ flow[f].request = "refresh" /\ flow[f].status = 401 => SignedOut(cookie)
        /\ flow[f].status = 500 => faults > 0 \/ SignedOut(cookie)
        /\ flow[f].stage # "sent" => flow[f].status \in {200, 401, 500}

Alone == \A f, g \in Flow : f # g /\ Running(f) /\ Running(g) => flow[f].goal # "login"

ServeInv == Alone /\ \A f \in Flow : GoalOK(f) /\ OutcomeOK(f) /\ CookieOK(f)

LEMMA AppendKeeps ==
    ASSUME NEW S, NEW seq \in Seq(S), NEW e
    PROVE  \A k \in DOMAIN seq : k \in DOMAIN Append(seq, e) /\ Append(seq, e)[k] = seq[k]
OBVIOUS

(* Cognito forgets nothing, and faults are counted. *)
Grown ==
    /\ \A k \in DOMAIN issued : k \in DOMAIN issued' /\ issued'[k] = issued[k]
    /\ \A k \in DOMAIN opened : k \in DOMAIN opened' /\ opened'[k] = opened[k]
    /\ revoked \subseteq revoked' /\ faults <= faults'

LEMMA Grows == IInv /\ [Next]_vars => Grown
<1> SUFFICES ASSUME IInv, [Next]_vars PROVE Grown
  OBVIOUS
<1>1. opened \in Seq(User) /\ issued \in Seq(DOMAIN opened) /\ faults \in Nat
  BY SessionAssumption DEF IInv, CognitoOK, RestOK
<1>2. faults <= faults'
  <2>1. ASSUME NEW f \in Flow, HandlerFails(f) \/ Breaks(f) PROVE faults <= faults'
    BY <1>1, <2>1 DEF HandlerFails, Breaks
  <2>2. ASSUME NEW f \in Flow, NEW g, Starts(f, g) PROVE faults <= faults'
    BY <1>1, <2>2 DEF Starts
  <2>3. ASSUME NEW f \in Flow, NEW t \in Tab, Load(f, t) PROVE faults <= faults'
    BY <1>1, <2>3 DEF Load
  <2>4. ASSUME NEW f \in Flow, NEW request, Handles(f, request) PROVE faults <= faults'
    BY <1>1, <2>4 DEF Handles
  <2>5. ASSUME NEW f \in Flow, Handle(f) PROVE faults <= faults'
    BY <2>4, <2>5 DEF Handle, LoginHandler, RefreshHandler, LogoutHandler, CallHandler,
                      MyInfoHandler
  <2>6. ASSUME NEW f \in Flow, Arrives(f) PROVE faults <= faults'
    BY <1>1, <2>6 DEF Arrives
  <2>7. ASSUME NEW f \in Flow, Continue(f) PROVE faults <= faults'
    <3>1. UNCHANGED faults
      BY <2>7 DEF Continue, LoggedIn, LoggedOut, Fetched, Refreshed, Continues
    <3> QED BY <1>1, <3>1
  <2>8. CASE Expire \/ \E name \in User : LogoutElsewhere(name)
    BY <1>1, <2>8 DEF Expire, LogoutElsewhere
  <2>9. CASE UNCHANGED vars
    BY <1>1, <2>9 DEF vars
  <2>10. ASSUME NEW f \in Flow, NEW t \in Tab,
                (\E name \in User : Login(f, t, name)) \/ Logout(f, t) \/ Call(f, t)
         PROVE  faults <= faults'
    BY <2>2, <2>10 DEF Login, Logout, Call
  <2> QED BY <2>1, <2>3, <2>5, <2>6, <2>7, <2>8, <2>9, <2>10 DEF Next
<1>3. CASE UNCHANGED cognitoVars
  BY <1>2, <1>3 DEF Grown, cognitoVars
<1>4. ASSUME NEW f \in Flow, LoginHandler(f) \/ RefreshHandler(f) \/ LogoutHandler(f),
             ~ UNCHANGED cognitoVars
      PROVE  Grown
  <2>1. UNCHANGED opened \/ opened' = Append(opened, flow[f].name)
    BY <1>4 DEF LoginHandler, RefreshHandler, LogoutHandler, Refuse
  <2>2. UNCHANGED issued \/ \E s : issued' = Append(issued, s)
    BY <1>4 DEF LoginHandler, RefreshHandler, LogoutHandler, Refuse
  <2>3. revoked \subseteq revoked'
    BY <1>4 DEF LoginHandler, RefreshHandler, LogoutHandler, Refuse
  <2>4. \A k \in DOMAIN issued : k \in DOMAIN issued' /\ issued'[k] = issued[k]
    <3>1. CASE UNCHANGED issued
      BY <3>1
    <3>2. CASE ~ UNCHANGED issued
      <4>1. PICK s : issued' = Append(issued, s)
        BY <2>2, <3>2
      <4> QED BY <1>1, <4>1, AppendKeeps
    <3> QED BY <3>1, <3>2
  <2>5. \A k \in DOMAIN opened : k \in DOMAIN opened' /\ opened'[k] = opened[k]
    <3>1. CASE UNCHANGED opened
      BY <3>1
    <3>2. CASE opened' = Append(opened, flow[f].name)
      BY <1>1, <3>2, AppendKeeps
    <3> QED BY <2>1, <3>1, <3>2
  <2> QED BY <1>2, <2>3, <2>4, <2>5 DEF Grown
<1>5. CASE \E name \in User : LogoutElsewhere(name)
  <2>1. UNCHANGED <<opened, issued>> /\ revoked \subseteq revoked'
    BY <1>5 DEF LogoutElsewhere
  <2> QED BY <1>2, <2>1 DEF Grown
<1> QED BY <1>3, <1>4, <1>5, CognitoSteps

(* A flow that takes no step, while the cookie stays or goes. *)
LEMMA CookieKept ==
    ASSUME IInv, IInv', Grown, NEW g \in Flow, CookieOK(g), flow'[g] = flow[g],
           cookie' \in {0, cookie}
    PROVE  CookieOK(g)'
<1>1. HasToken(g)' <=> HasToken(g)
  BY DEF HasToken
<1>2. SignedOut(cookie) => SignedOut(cookie)'
  BY DEF SignedOut, Grown
<1>3. faults > 0 => faults' > 0
  BY SessionAssumption DEF Grown, IInv, RestOK
<1>4. ASSUME flow[g].token \in DOMAIN issued
      PROVE  flow[g].token \in DOMAIN issued' /\ issued'[flow[g].token] = issued[flow[g].token]
  BY <1>4 DEF Grown
<1> QED BY <1>1, <1>2, <1>3, <1>4 DEF CookieOK, Served, Running

LEMMA FlowIs ==
    ASSUME IInv, NEW f \in Flow, NEW new, flow' = [flow EXCEPT ![f] = new]
    PROVE  flow'[f] = new /\ \A g \in Flow : g # f => flow'[g] = flow[g]
BY DEF IInv, FlowsOK

LEMMA OutcomeIs ==
    ASSUME IInv, NEW f \in Flow, NEW how, outcome' = [outcome EXCEPT ![f] = how]
    PROVE  outcome'[f] = how /\ \A g \in Flow : g # f => outcome'[g] = outcome[g]
BY DEF IInv, RestOK

LEMMA IdleServes ==
    ASSUME NEW f, flow'[f] = Idle
    PROVE  GoalOK(f)' /\ OutcomeOK(f)' /\ CookieOK(f)' /\ ~ Running(f)'
BY DEF GoalOK, OutcomeOK, CookieOK, Served, Running, Idle

LEMMA AloneKept ==
    ASSUME Alone, NEW f \in Flow, \A g \in Flow : g # f => flow'[g] = flow[g],
           Running(f)' => Running(f) /\ flow'[f].goal = flow[f].goal
    PROVE  Alone'
<1> SUFFICES ASSUME NEW g \in Flow, NEW h \in Flow, g # h, Running(g)', Running(h)'
             PROVE  flow'[g].goal # "login"
  BY DEF Alone
<1>1. Running(g) /\ Running(h) /\ flow'[g].goal = flow[g].goal
  BY DEF Running
<1> QED BY <1>1 DEF Alone

(* One flow takes a step.  Only a login may set another cookie. *)
LEMMA StepServes ==
    ASSUME IInv, IInv', ServeInv, Grown, NEW f \in Flow,
           \A g \in Flow : g # f => flow'[g] = flow[g] /\ outcome'[g] = outcome[g],
           cookie' \in {0, cookie} \/ (Running(f) /\ flow[f].goal = "login"),
           Alone', GoalOK(f)', OutcomeOK(f)', CookieOK(f)'
    PROVE  ServeInv'
<1> SUFFICES ASSUME NEW g \in Flow, g # f PROVE GoalOK(g)' /\ OutcomeOK(g)' /\ CookieOK(g)'
  BY DEF ServeInv
<1>1. flow'[g] = flow[g] /\ outcome'[g] = outcome[g]
  OBVIOUS
<1>2. GoalOK(g)' /\ OutcomeOK(g)'
  BY <1>1 DEF ServeInv, GoalOK, OutcomeOK, Running
<1>3. CASE cookie' \in {0, cookie}
  BY <1>1, <1>2, <1>3, CookieKept DEF ServeInv
<1>4. CASE Running(f) /\ flow[f].goal = "login"
  <2>1. ~ Running(g)
    BY <1>4 DEF ServeInv, Alone
  <2>2. ~ Served(g)'
    BY <1>1, <2>1 DEF Served, Running
  <2> QED BY <1>2, <2>2 DEF CookieOK
<1> QED BY <1>3, <1>4

(* login, logout and a call of the page start. *)
LEMMA StartServes ==
    ASSUME IInv, IInv', ServeInv, Grown, LoginsAlone, NEW f \in Flow, NEW t \in Tab,
           NEW goal \in {"login", "logout", "call"}, NEW token, NEW name,
           Starts(f, goal), Send(f, t, goal, goal, FALSE, token, name), UNCHANGED tabVars
    PROVE  ServeInv'
<1> DEFINE new == Sent(t, goal, goal, FALSE, token, name)
<1>1. flow' = [flow EXCEPT ![f] = new] /\ outcome' = [outcome EXCEPT ![f] = "none"]
  BY DEF Send, Starts
<1>2. new.tab = t /\ new.goal = goal /\ new.request = goal /\ new.stage = "sent" /\ new.status = 0
  BY DEF Sent
<1> HIDE DEF new
<1>3. /\ flow'[f] = new /\ outcome'[f] = "none"
      /\ \A g \in Flow : g # f => flow'[g] = flow[g] /\ outcome'[g] = outcome[g]
  <2>1. flow'[f] = new /\ \A g \in Flow : g # f => flow'[g] = flow[g]
    BY <1>1, FlowIs
  <2>2. outcome'[f] = "none" /\ \A g \in Flow : g # f => outcome'[g] = outcome[g]
    BY <1>1, OutcomeIs
  <2> QED BY <2>1, <2>2
<1>4. GoalOK(f)' /\ OutcomeOK(f)'
  BY <1>2, <1>3 DEF GoalOK, OutcomeOK
<1>5. CookieOK(f)'
  BY <1>2, <1>3 DEF CookieOK, HasToken
<1>6. Alone'
  <2>1. \A g \in Flow : Running(g) => goal # "login" /\ flow[g].goal # "login"
    BY DEF Starts, RoomFor, Running
  <2> SUFFICES ASSUME NEW g \in Flow, NEW h \in Flow, g # h, Running(g)', Running(h)'
               PROVE  flow'[g].goal # "login"
    BY DEF Alone
  <2>2. CASE g = f
    BY <1>2, <1>3, <2>1, <2>2 DEF Running
  <2>3. CASE g # f
    BY <1>3, <2>1, <2>3 DEF Running
  <2> QED BY <2>2, <2>3
<1>7. cookie' = cookie
  BY DEF tabVars
<1> QED BY <1>3, <1>4, <1>5, <1>6, <1>7, StepServes

LEMMA LoadServes ==
    ASSUME IInv, IInv', ServeInv, Grown, LoginsAlone, NEW f \in Flow, NEW t \in Tab, Load(f, t)
    PROVE  ServeInv'
<1>1. /\ flow'[f] = Sent(t, "tryRefresh", "refresh", FALSE, 0, Nobody)
      /\ cookie' = cookie /\ outcome'[f] = "none"
      /\ \A g \in Flow : g # f => outcome'[g] = outcome[g]
  BY OutcomeIs DEF Load
<1>2. /\ flow'[f].tab = t /\ flow'[f].goal = "tryRefresh" /\ flow'[f].request = "refresh"
      /\ flow'[f].stage = "sent" /\ flow'[f].status = 0 /\ flow'[f].session = cookie
  BY <1>1 DEF Sent
<1>3. GoalOK(f)' /\ OutcomeOK(f)' /\ CookieOK(f)'
  <2>1. GoalOK(f)'
    BY <1>2 DEF GoalOK
  <2>2. OutcomeOK(f)'
    BY <1>1, <1>2 DEF OutcomeOK
  <2>3. CookieOK(f)'
    <3>1. ~ HasToken(f)'
      BY <1>2 DEF HasToken
    <3>2. cookie' = flow'[f].session
      BY <1>1, <1>2
    <3> QED BY <1>2, <3>1, <3>2 DEF CookieOK
  <2> QED BY <2>1, <2>2, <2>3
<1>4. ASSUME NEW g \in Flow, g # f
      PROVE  /\ GoalOK(g)' /\ OutcomeOK(g)' /\ CookieOK(g)'
             /\ Running(g)' => Running(g) /\ flow[g].tab # t /\ flow'[g] = flow[g]
  <2>1. GoalOK(g) /\ OutcomeOK(g) /\ CookieOK(g)
    BY DEF ServeInv
  <2>2. CASE flow[g].tab # t
    <3>1. flow'[g] = flow[g]
      BY <1>4, <2>2 DEF Load
    <3>2. CookieOK(g)'
      BY <1>1, <2>1, <3>1, CookieKept
    <3> QED BY <1>1, <1>4, <2>1, <2>2, <3>1, <3>2 DEF GoalOK, OutcomeOK, Running
  <2>3. CASE flow[g].tab = t /\ flow[g].stage = "sent"
    <3>1. flow'[g] = [flow[g] EXCEPT !.tab = NoTab]
      BY <1>4, <2>3 DEF Load
    <3>2. flow[g] \in Request
      BY <2>3, BusyIsRequest DEF IInv
    <3>3. /\ flow'[g].tab = NoTab /\ flow'[g].goal = flow[g].goal
          /\ flow'[g].request = flow[g].request /\ flow[g] # Idle
          /\ flow'[g].stage = "sent"
      BY <2>3, <3>1, <3>2 DEF Request, Idle
    <3> QED BY <1>1, <1>4, <2>1, <3>3 DEF GoalOK, OutcomeOK, CookieOK, Served, Running
  <2>4. CASE flow[g].tab = t /\ flow[g].stage # "sent"
    <3>1. flow'[g] = Idle
      BY <1>4, <2>4 DEF Load
    <3> QED BY <3>1, IdleServes
  <2> QED BY <2>2, <2>3, <2>4
<1>5. Alone'
  <2>1. \A g \in Flow : Running(g) /\ flow[g].tab # t => flow[g].goal # "login"
    BY DEF Load, RoomFor, Running
  <2> SUFFICES ASSUME NEW g \in Flow, Running(g)' PROVE flow'[g].goal # "login"
    BY DEF Alone
  <2>2. CASE g = f
    BY <1>2, <2>2
  <2>3. CASE g # f
    BY <1>4, <2>1, <2>3
  <2> QED BY <2>2, <2>3
<1> QED BY <1>3, <1>4, <1>5 DEF ServeInv

(* A flow that is under way has not ended. *)
LEMMA BusyHasNoOutcome ==
    ASSUME ServeInv, NEW f \in Flow, flow[f].stage # "none"
    PROVE  outcome[f] = "none"
BY DEF ServeInv, OutcomeOK, Idle

(* A handler answers: what the answer to a call or a load must say. *)
LEMMA AnswerServes ==
    ASSUME IInv, IInv', ServeInv, Grown, NEW f \in Flow, flow[f].stage = "sent",
           NEW status, NEW token, NEW session, NEW name,
           Answer(f, status, token, session, name), UNCHANGED <<cookie, outcome>>,
           Served(f) =>
             /\ status \in {200, 401, 500}
             /\ status = 200 /\ flow[f].request \in {"refresh", "myinfo"}
                  => token \in DOMAIN issued' /\ cookie \in {0, issued'[token]}
             /\ status = 401 /\ flow[f].request = "refresh" => SignedOut(cookie)'
             /\ status = 500 => faults' > 0 \/ SignedOut(cookie)'
    PROVE  ServeInv'
<1> DEFINE new == Answered(flow[f], status, token, session, name)
<1>1. flow' = [flow EXCEPT ![f] = new]
  BY DEF Answer
<1>2. /\ new.tab = flow[f].tab /\ new.goal = flow[f].goal /\ new.request = flow[f].request
      /\ new.stage = "answered" /\ new.status = status /\ new.token = token
  BY DEF Answered
<1> HIDE DEF new
<1>3. flow'[f] = new /\ \A g \in Flow : g # f => flow'[g] = flow[g]
  BY <1>1, FlowIs
<1>4. GoalOK(f)'
  BY <1>2, <1>3 DEF ServeInv, GoalOK
<1>5. OutcomeOK(f)'
  BY <1>2, <1>3, BusyHasNoOutcome DEF OutcomeOK
<1>6. CookieOK(f)'
  <2>1. Served(f)' => Served(f)
    BY <1>2, <1>3 DEF Served, Running
  <2>2. HasToken(f)' => status = 200 /\ flow[f].request \in {"refresh", "myinfo"}
    BY <1>2, <1>3 DEF HasToken
  <2> QED BY <1>2, <1>3, <2>1, <2>2 DEF CookieOK
<1>7. Alone'
  BY <1>2, <1>3, AloneKept DEF ServeInv, Running
<1> QED BY <1>3, <1>4, <1>5, <1>6, <1>7, StepServes

(* Other functions of the page than calls and loads log in and out. *)
LEMMA ServedRequests ==
    ASSUME ServeInv, NEW f \in Flow, Served(f)
    PROVE  flow[f].request \in {"call", "refresh", "myinfo"}
BY DEF ServeInv, GoalOK, Served

LEMMA RefreshHandlerServes ==
    ASSUME IInv, IInv', ServeInv, Grown, NEW f \in Flow, RefreshHandler(f)
    PROVE  ServeInv'
<1>1. flow[f].request = "refresh" /\ flow[f].stage = "sent" /\ UNCHANGED <<cookie, outcome>>
  BY DEF RefreshHandler, Handles, tabVars
<1>2. Served(f) => cookie \in {0, flow[f].session}
  BY <1>1 DEF ServeInv, CookieOK
<1>3. CASE SignedOut(flow[f].session)
  <2>1. Answer(f, 401, Undefined, 0, flow[f].name) /\ UNCHANGED revoked
    BY <1>3 DEF RefreshHandler, Refuse, cognitoVars
  <2>2. Served(f) => SignedOut(cookie)'
    BY <1>1, <1>2, <1>3, <2>1 DEF SignedOut
  <2> QED BY <1>1, <2>1, <2>2, AnswerServes
<1>4. CASE ~SignedOut(flow[f].session)
  <2>1. issued' = Append(issued, flow[f].session) /\ Answer(f, 200, Len(issued'), 0, Nobody)
    BY <1>4 DEF RefreshHandler
  <2>2. Len(issued') \in DOMAIN issued' /\ issued'[Len(issued')] = flow[f].session
    BY <2>1 DEF IInv, CognitoOK
  <2> QED BY <1>1, <1>2, <2>1, <2>2, AnswerServes
<1> QED BY <1>3, <1>4

LEMMA MyInfoHandlerServes ==
    ASSUME IInv, IInv', ServeInv, Grown, NEW f \in Flow, MyInfoHandler(f)
    PROVE  ServeInv'
<1>1. flow[f].request = "myinfo" /\ flow[f].stage = "sent" /\ UNCHANGED <<cookie, outcome>>
  BY DEF MyInfoHandler, Handles, tabVars
<1>2. Served(f) => /\ flow[f].token \in DOMAIN issued
                   /\ cookie \in {0, issued[flow[f].token]}
  BY <1>1 DEF ServeInv, CookieOK, HasToken
<1>3. UNCHANGED <<issued, revoked>>
  BY DEF MyInfoHandler, Refuse, cognitoVars
<1>4. CASE ~Authorized(flow[f].token)
  <2>1. Answer(f, 401, Undefined, 0, flow[f].name)
    BY <1>4 DEF MyInfoHandler, Refuse
  <2> QED BY <1>1, <2>1, AnswerServes
<1>5. CASE Authorized(flow[f].token) /\ ~Valid(flow[f].token)
  <2>1. Answer(f, 500, Undefined, 0, flow[f].name)
    BY <1>5 DEF MyInfoHandler, Refuse
  <2>2. issued[flow[f].token] \in revoked
    BY <1>5 DEF Authorized, Valid
  <2>3. Served(f) => SignedOut(cookie)'
    BY <1>1, <1>2, <1>3, <2>2 DEF SignedOut
  <2> QED BY <1>1, <2>1, <2>3, AnswerServes
<1>6. CASE Authorized(flow[f].token) /\ Valid(flow[f].token)
  <2>1. Answer(f, 200, flow[f].token, 0, Holder(flow[f].token))
    BY <1>6 DEF MyInfoHandler
  <2> QED BY <1>1, <1>2, <1>3, <2>1, AnswerServes
<1> QED BY <1>4, <1>5, <1>6

LEMMA HandleServes ==
    ASSUME IInv, IInv', ServeInv, Grown, NEW f \in Flow, Handle(f)
    PROVE  ServeInv'
<1>1. CASE LoginHandler(f)
  <2>1. flow[f].request = "login" /\ flow[f].stage = "sent" /\ UNCHANGED <<cookie, outcome>>
    BY <1>1 DEF LoginHandler, Handles, tabVars
  <2>2. \E status, token, session, name : Answer(f, status, token, session, name)
    BY <1>1 DEF LoginHandler, Refuse
  <2> QED BY <2>1, <2>2, ServedRequests, AnswerServes
<1>2. CASE LogoutHandler(f)
  <2>1. flow[f].request = "logout" /\ flow[f].stage = "sent" /\ UNCHANGED <<cookie, outcome>>
    BY <1>2 DEF LogoutHandler, Handles, tabVars
  <2>2. \E status, token, session, name : Answer(f, status, token, session, name)
    BY <1>2 DEF LogoutHandler, Refuse
  <2> QED BY <2>1, <2>2, ServedRequests, AnswerServes
<1>3. CASE CallHandler(f)
  <2>1. flow[f].request = "call" /\ flow[f].stage = "sent" /\ UNCHANGED <<cookie, outcome>>
    BY <1>3 DEF CallHandler, Handles, tabVars
  <2>2. \E status \in {200, 401} : \E token, session, name :
           Answer(f, status, token, session, name)
    BY <1>3 DEF CallHandler, Refuse
  <2> QED BY <2>1, <2>2, AnswerServes
<1> QED BY <1>1, <1>2, <1>3, RefreshHandlerServes, MyInfoHandlerServes DEF Handle

LEMMA HandlerFailsServes ==
    ASSUME IInv, IInv', ServeInv, Grown, NEW f \in Flow, HandlerFails(f)
    PROVE  ServeInv'
<1>1. /\ flow[f].stage = "sent" /\ UNCHANGED <<cookie, outcome>>
      /\ Answer(f, 500, Undefined, 0, flow[f].name)
  BY DEF HandlerFails, Refuse, tabVars
<1>2. faults' > 0
  BY SessionAssumption DEF HandlerFails, IInv, RestOK
<1> QED BY <1>1, <1>2, AnswerServes

(* A flow ends, or its page is gone. *)
LEMMA EndServes ==
    ASSUME IInv, IInv', ServeInv, Grown, NEW f \in Flow, NEW how,
           flow' = [flow EXCEPT ![f] = Idle], UNCHANGED cookie,
           UNCHANGED outcome \/ outcome' = [outcome EXCEPT ![f] = how]
    PROVE  ServeInv'
<1>1. flow'[f] = Idle /\ \A g \in Flow : g # f => flow'[g] = flow[g]
  BY FlowIs
<1>2. \A g \in Flow : g # f => outcome'[g] = outcome[g]
  BY OutcomeIs
<1>3. GoalOK(f)' /\ OutcomeOK(f)' /\ CookieOK(f)' /\ ~ Running(f)'
  BY <1>1, IdleServes
<1>4. Alone'
  BY <1>1, <1>3, AloneKept DEF ServeInv
<1> QED BY <1>1, <1>2, <1>3, <1>4, StepServes

LEMMA ArrivesServes ==
    ASSUME IInv, IInv', ServeInv, Grown, NEW f \in Flow, Arrives(f)
    PROVE  ServeInv'
<1>1. flow[f].stage = "answered" /\ UNCHANGED <<issued, revoked, outcome, faults>>
  BY DEF Arrives, cognitoVars
<1>2. CASE flow[f].tab = NoTab
  BY <1>1, <1>2, EndServes DEF Arrives
<1>3. CASE flow[f].tab # NoTab
  <2>1. flow[f] \in Request
    BY <1>1, BusyIsRequest DEF IInv
  <2>2. flow' = [flow EXCEPT ![f] = [flow[f] EXCEPT !.stage = "arrived"]]
    BY <1>3 DEF Arrives
  <2>3. /\ flow'[f] = [flow[f] EXCEPT !.stage = "arrived"]
        /\ \A g \in Flow : g # f => flow'[g] = flow[g]
    BY <2>2, FlowIs
  <2>4. /\ flow'[f].tab = flow[f].tab /\ flow'[f].goal = flow[f].goal
        /\ flow'[f].request = flow[f].request /\ flow'[f].status = flow[f].status
        /\ flow'[f].token = flow[f].token /\ flow'[f].stage = "arrived"
    BY <2>1, <2>3 DEF Request
  <2>5. GoalOK(f)'
    BY <2>4 DEF ServeInv, GoalOK
  <2>6. OutcomeOK(f)'
    BY <1>1, <1>3, <2>4, BusyHasNoOutcome DEF OutcomeOK, Running
  <2>7. Alone'
    BY <2>3, <2>4, AloneKept DEF ServeInv, Running
  <2>8. cookie' \in {0, cookie} \/ flow[f].goal = "login"
    BY <1>3 DEF Arrives, ServeInv, GoalOK
  <2>9. CookieOK(f)'
    <3>1. ASSUME Served(f)' PROVE Served(f) /\ cookie' = cookie
      <4>1. Served(f)
        BY <2>4, <3>1 DEF Served, Running
      <4>2. cookie' = cookie
        BY <1>3, <4>1, ServedRequests DEF Arrives
      <4> QED BY <4>1, <4>2
    <3>2. HasToken(f)' => HasToken(f)
      BY <2>4 DEF HasToken
    <3> QED BY <1>1, <2>4, <3>1, <3>2 DEF ServeInv, CookieOK, SignedOut
  <2> QED BY <1>1, <1>3, <2>3, <2>5, <2>6, <2>7, <2>8, <2>9, StepServes DEF Running
<1> QED BY <1>2, <1>3

(* A call or a load sends its next request. *)
LEMMA SendServes ==
    ASSUME IInv, IInv', ServeInv, Grown, NEW f \in Flow, flow[f].stage = "arrived",
           NEW request, NEW again, NEW token, NEW name,
           Send(f, flow[f].tab, flow[f].goal, request, again, token, name),
           UNCHANGED <<cookie, outcome, issued>>,
           <<flow[f].goal, request>> \in
               {<<"call", "call">>, <<"call", "refresh">>,
                <<"tryRefresh", "refresh">>, <<"tryRefresh", "myinfo">>},
           Served(f) /\ request = "myinfo" => /\ token \in DOMAIN issued
                                              /\ cookie \in {0, issued[token]}
    PROVE  ServeInv'
<1> DEFINE new == Sent(flow[f].tab, flow[f].goal, request, again, token, name)
<1>1. flow' = [flow EXCEPT ![f] = new]
  BY DEF Send
<1>2. /\ new.tab = flow[f].tab /\ new.goal = flow[f].goal /\ new.request = request
      /\ new.stage = "sent" /\ new.status = 0 /\ new.token = token
      /\ request = "refresh" => new.session = cookie
  BY DEF Sent
<1> HIDE DEF new
<1>3. flow'[f] = new /\ \A g \in Flow : g # f => flow'[g] = flow[g]
  BY <1>1, FlowIs
<1>4. GoalOK(f)'
  BY <1>2, <1>3 DEF GoalOK
<1>5. OutcomeOK(f)'
  BY <1>2, <1>3, BusyHasNoOutcome DEF OutcomeOK
<1>6. Alone'
  BY <1>2, <1>3, AloneKept DEF ServeInv, Running
<1>7. CookieOK(f)'
  <2>1. Served(f)' => Served(f)
    BY <1>2, <1>3 DEF Served, Running
  <2>2. HasToken(f)' => request = "myinfo"
    BY <1>2, <1>3 DEF HasToken
  <2>3. request = "refresh" => cookie' = flow'[f].session
    BY <1>2, <1>3
  <2> QED BY <1>2, <1>3, <2>1, <2>2, <2>3 DEF CookieOK
<1> QED BY <1>3, <1>4, <1>5, <1>6, <1>7, StepServes

LEMMA FetchedServes ==
    ASSUME IInv, IInv', ServeInv, Grown, NEW f \in Flow, Fetched(f)
    PROVE  ServeInv'
<1>1. /\ flow[f].stage = "arrived" /\ UNCHANGED <<cookie, issued>>
      /\ flow[f].request = IF flow[f].goal = "call" THEN "call" ELSE "myinfo"
  BY DEF Fetched, Continues, cognitoVars
<1>2. flow[f].goal \in {"call", "tryRefresh"}
  BY <1>1 DEF ServeInv, GoalOK
<1>3. CASE flow[f].status = 401 /\ ~flow[f].again
  <2>1. /\ Send(f, flow[f].tab, flow[f].goal, "refresh", TRUE, 0, Nobody)
        /\ UNCHANGED outcome
    BY <1>3 DEF Fetched
  <2> QED BY <1>1, <1>2, <2>1, SendServes
<1>4. CASE ~(flow[f].status = 401 /\ ~flow[f].again)
  <2>1. \E how : End(f, how)
    BY <1>4 DEF Fetched
  <2> QED BY <1>1, <2>1, EndServes DEF End
<1> QED BY <1>3, <1>4

LEMMA RefreshedServes ==
    ASSUME IInv, IInv', ServeInv, Grown, NEW f \in Flow, Refreshed(f)
    PROVE  ServeInv'
<1>1. flow[f].stage = "arrived" /\ flow[f].request = "refresh" /\ UNCHANGED <<cookie, issued>>
  BY DEF Refreshed, Continues, cognitoVars
<1>2. flow[f].goal \in {"call", "tryRefresh"}
  BY <1>1 DEF ServeInv, GoalOK
<1>3. CASE flow[f].status = 200
  <2> DEFINE next == IF flow[f].goal = "call" THEN "call" ELSE "myinfo"
  <2>1. /\ Send(f, flow[f].tab, flow[f].goal, next, flow[f].again, flow[f].token, Nobody)
        /\ UNCHANGED outcome
    BY <1>3 DEF Refreshed
  <2>2. Served(f) => /\ flow[f].token \in DOMAIN issued
                     /\ cookie \in {0, issued[flow[f].token]}
    BY <1>1, <1>3 DEF ServeInv, CookieOK, HasToken
  <2>3. <<flow[f].goal, next>> \in {<<"call", "call">>, <<"tryRefresh", "myinfo">>}
    BY <1>2
  <2> HIDE DEF next
  <2> QED BY <1>1, <2>1, <2>2, <2>3, SendServes
<1>4. CASE flow[f].status # 200
  <2>1. End(f, "refused")
    BY <1>4 DEF Refreshed
  <2> QED BY <1>1, <2>1, EndServes DEF End
<1> QED BY <1>3, <1>4

LEMMA ContinueServes ==
    ASSUME IInv, IInv', ServeInv, Grown, NEW f \in Flow, Continue(f)
    PROVE  ServeInv'
<1>1. CASE LoggedIn(f) \/ LoggedOut(f)
  <2>1. (\E how : End(f, how)) /\ UNCHANGED cookie
    BY <1>1 DEF LoggedIn, LoggedOut, Continues
  <2> QED BY <2>1, EndServes DEF End
<1> QED BY <1>1, FetchedServes, RefreshedServes DEF Continue

LEMMA BreaksServes ==
    ASSUME IInv, IInv', ServeInv, Grown, NEW f \in Flow, Breaks(f)
    PROVE  ServeInv'
<1>1. UNCHANGED <<cookie, outcome>>
  BY DEF Breaks, tabVars
<1>2. CASE flow[f].stage = "sent"
  <2>1. flow[f] \in Request
    BY <1>2, BusyIsRequest DEF IInv
  <2>2. flow' = [flow EXCEPT ![f] = [flow[f] EXCEPT !.tab = NoTab]]
    BY <1>2 DEF Breaks
  <2>3. /\ flow'[f] = [flow[f] EXCEPT !.tab = NoTab]
        /\ \A g \in Flow : g # f => flow'[g] = flow[g]
    BY <2>2, FlowIs
  <2>4. /\ flow'[f].tab = NoTab /\ flow'[f].goal = flow[f].goal
        /\ flow'[f].request = flow[f].request /\ flow'[f].stage = flow[f].stage
    BY <2>1, <2>3 DEF Request
  <2>5. GoalOK(f)'
    BY <2>4 DEF ServeInv, GoalOK
  <2>6. OutcomeOK(f)'
    BY <1>1, <1>2, <2>4, BusyHasNoOutcome DEF OutcomeOK
  <2>7. CookieOK(f)' /\ ~ Running(f)'
    BY <2>4 DEF CookieOK, Served, Running
  <2>8. Alone'
    BY <2>3, <2>7, AloneKept DEF ServeInv
  <2> QED BY <1>1, <2>3, <2>5, <2>6, <2>7, <2>8, StepServes
<1>3. CASE flow[f].stage # "sent"
  <2>1. flow' = [flow EXCEPT ![f] = Idle]
    BY <1>3 DEF Breaks
  <2> QED BY <1>1, <2>1, EndServes
<1> QED BY <1>2, <1>3

(* Time passes, a user logs out elsewhere, or nothing happens. *)
LEMMA OutsideServes ==
    ASSUME IInv, IInv', ServeInv, Grown, UNCHANGED <<tabVars, flow, outcome>>
    PROVE  ServeInv'
<1>1. Alone'
  BY DEF ServeInv, Alone, Running
<1>2. ASSUME NEW g \in Flow PROVE GoalOK(g)' /\ OutcomeOK(g)' /\ CookieOK(g)'
  <2>1. GoalOK(g)' /\ OutcomeOK(g)'
    BY DEF ServeInv, GoalOK, OutcomeOK, Running
  <2>2. CookieOK(g)'
    BY CookieKept DEF ServeInv, tabVars
  <2> QED BY <2>1, <2>2
<1> QED BY <1>1, <1>2 DEF ServeInv

LEMMA ServeKeeps == LoginsAlone /\ IInv /\ ServeInv /\ [Next]_vars => ServeInv'
<1> SUFFICES ASSUME LoginsAlone, IInv, ServeInv, [Next]_vars PROVE ServeInv'
  OBVIOUS
<1>1. IInv' /\ Grown
  BY NextKeeps, Grows
<1>2. ASSUME NEW f \in Flow, NEW t \in Tab, NEW name \in User, Login(f, t, name)
      PROVE  ServeInv'
  BY <1>1, <1>2, StartServes DEF Login
<1>3. ASSUME NEW f \in Flow, NEW t \in Tab, Logout(f, t) \/ Call(f, t) PROVE ServeInv'
  BY <1>1, <1>3, StartServes DEF Logout, Call
<1>4. ASSUME NEW f \in Flow, NEW t \in Tab, Load(f, t) PROVE ServeInv'
  BY <1>1, <1>4, LoadServes
<1>5. ASSUME NEW f \in Flow,
             Handle(f) \/ HandlerFails(f) \/ Arrives(f) \/ Continue(f) \/ Breaks(f)
      PROVE  ServeInv'
  BY <1>1, <1>5, HandleServes, HandlerFailsServes, ArrivesServes, ContinueServes, BreaksServes
<1>6. CASE Expire \/ (\E name \in User : LogoutElsewhere(name)) \/ UNCHANGED vars
  BY <1>1, <1>6, OutsideServes DEF Expire, LogoutElsewhere, vars
<1> QED BY <1>2, <1>3, <1>4, <1>5, <1>6 DEF Next

LEMMA InitServes == Init => ServeInv
BY DEF Init, ServeInv, Alone, GoalOK, OutcomeOK, CookieOK, Served, Running, Idle

LEMMA ServeInvariance == LoginsAlone => (Spec => []ServeInv)
<1>1. SUFFICES ASSUME LoginsAlone PROVE Spec => []ServeInv
  OBVIOUS
<1>2. IInv /\ ServeInv /\ [Next]_vars => ServeInv'
  BY <1>1, ServeKeeps
<1> QED BY <1>2, InitServes, Invariance, PTL DEF Spec

(* Only its own continuation ends a flow whose answer has arrived. *)
LEMMA OnlyContinueEnds ==
    ASSUME IInv, ServeInv, [Next]_vars, NEW f \in Flow,
           flow[f].stage = "arrived", outcome'[f] = "refused"
    PROVE  Continue(f)
<1>1. outcome[f] = "none" /\ flow[f] # Idle
  BY BusyHasNoOutcome DEF Idle
<1>2. outcome' # outcome
  BY <1>1
<1>3. ASSUME NEW g \in Flow, flow[g] = Idle, outcome' = [outcome EXCEPT ![g] = "none"]
      PROVE  FALSE
  BY <1>1, <1>3, OutcomeIs
<1>4. ASSUME NEW g \in Flow, NEW goal, Starts(g, goal) PROVE FALSE
  BY <1>3, <1>4 DEF Starts
<1>5. ASSUME NEW g \in Flow, NEW t \in Tab,
             (\E name \in User : Login(g, t, name)) \/ Logout(g, t) \/ Call(g, t)
      PROVE  FALSE
  BY <1>4, <1>5 DEF Login, Logout, Call
<1>6. ASSUME NEW g \in Flow, NEW t \in Tab, Load(g, t) PROVE FALSE
  BY <1>3, <1>6 DEF Load
<1>7. ASSUME NEW g \in Flow, Handle(g) PROVE FALSE
  BY <1>2, <1>7 DEF Handle, LoginHandler, RefreshHandler, LogoutHandler, CallHandler,
                    MyInfoHandler, Handles
<1>8. ASSUME NEW g \in Flow, HandlerFails(g) \/ Arrives(g) \/ Breaks(g) PROVE FALSE
  BY <1>2, <1>8 DEF HandlerFails, Arrives, Breaks
<1>9. ~ (Expire \/ (\E name \in User : LogoutElsewhere(name)) \/ UNCHANGED vars)
  BY <1>2 DEF Expire, LogoutElsewhere, vars
<1>10. PICK g \in Flow : Continue(g)
  BY <1>5, <1>6, <1>7, <1>8, <1>9 DEF Next
<1>11. CASE g # f
  <2>1. UNCHANGED outcome \/ \E how : outcome' = [outcome EXCEPT ![g] = how]
    BY <1>10 DEF Continue, LoggedIn, LoggedOut, Fetched, Refreshed, End
  <2> QED BY <1>1, <1>11, <2>1, OutcomeIs
<1> QED BY <1>10, <1>11

(* What fetchWithAuth (App.tsx:8) and tryRefresh are for, silent refreshes:  *)
(* no call and no load is refused while the session of the cookie lives,     *)
(* but for an access token that expired before it was used and for a         *)
(* handler that failed.  The hypothesis is that of the run: a login runs     *)
(* alone.                                                                    *)
THEOREM SignedInStaysServed == LoginsAlone => (Spec => SignedInIsServed)
<1>1. ASSUME IInv, ServeInv, [Next]_vars, NEW f \in Flow,
             flow[f].goal \in {"call", "tryRefresh"}, flow[f].stage = "arrived",
             outcome'[f] = "refused"
      PROVE  \/ SignedOut(cookie)
             \/ flow[f].status = 401 /\ flow[f].again /\ flow[f].request # "refresh"
             \/ flow[f].status = 500 /\ faults > 0
  <2>1. Served(f) /\ GoalOK(f) /\ CookieOK(f) /\ outcome[f] = "none"
    BY <1>1, BusyHasNoOutcome DEF ServeInv, OutcomeOK, Served
  <2>2. flow[f].status \in {200, 401, 500}
    BY <1>1, <2>1 DEF CookieOK
  <2>3. flow[f].status = 500 => faults > 0 \/ SignedOut(cookie)
    BY <2>1 DEF CookieOK
  <2>4. Fetched(f) \/ Refreshed(f)
    <3>1. Continue(f)
      BY <1>1, OnlyContinueEnds
    <3> QED BY <1>1, <2>1, <3>1 DEF Continue, LoggedIn, LoggedOut, Continues, GoalOK
  <2>5. flow[f].status # 200
    <3>1. ASSUME flow[f].status = 200, Fetched(f) PROVE FALSE
      <4>1. outcome' = [outcome EXCEPT ![f] = "served"]
        BY <3>1 DEF Fetched, End
      <4> QED BY <1>1, <4>1, OutcomeIs
    <3>2. ASSUME flow[f].status = 200, Refreshed(f) PROVE FALSE
      BY <1>1, <2>1, <3>2 DEF Refreshed
    <3> QED BY <2>4, <3>1, <3>2
  <2>6. CASE flow[f].status = 401 /\ Refreshed(f)
    BY <2>1, <2>6 DEF Refreshed, Continues, CookieOK
  <2>7. CASE flow[f].status = 401 /\ Fetched(f)
    <3>1. flow[f].request # "refresh"
      BY <2>7 DEF Fetched, Continues
    <3>2. flow[f].again \/ UNCHANGED outcome
      BY <2>7 DEF Fetched
    <3> QED BY <1>1, <2>1, <2>7, <3>1, <3>2
  <2> QED BY <2>2, <2>3, <2>4, <2>5, <2>6, <2>7
<1>2. SUFFICES ASSUME LoginsAlone PROVE Spec => SignedInIsServed
  OBVIOUS
<1>3. Spec => []ServeInv
  BY <1>2, ServeInvariance
<1>4. IInv /\ ServeInv /\ [Next]_vars =>
        [\A f \in Flow :
           flow[f].goal \in {"call", "tryRefresh"} /\ flow[f].stage = "arrived"
             /\ outcome'[f] = "refused"
             => \/ SignedOut(cookie)
                \/ flow[f].status = 401 /\ flow[f].again /\ flow[f].request # "refresh"
                \/ flow[f].status = 500 /\ faults > 0]_vars
  BY <1>1
<1> QED BY <1>3, <1>4, Invariance, PTL DEF Spec, SignedInIsServed

--------------------------------------------------------------------------------
(* Whom a page greets, with any tabs, overlapping logins and failures. *)

(* The users whose password Cognito has accepted from this browser. *)
LoggedInHere == {opened[s] : s \in DOMAIN opened}

(* A page shows nobody else, and no answer on its way names anybody else. *)
ShownInv ==
    /\ \A t \in Tab : user[t] \in LoggedInHere \cup {Nobody}
    /\ \A f \in Flow : flow[f].status = 200 => flow[f].name \in LoggedInHere \cup {Nobody}

LEMMA LoginsStay == Grown => LoggedInHere \subseteq LoggedInHere'
BY DEF Grown, LoggedInHere

LEMMA HolderLoggedIn ==
    ASSUME IInv, NEW token \in DOMAIN issued
    PROVE  Holder(token) \in LoggedInHere
<1>1. issued[token] \in DOMAIN opened
  BY DEF IInv, CognitoOK
<1> QED BY <1>1 DEF Holder, LoggedInHere

(* What one step may do to a flow and to a page. *)
NamesKept(new) == new.status = 200 => new.name \in LoggedInHere' \cup {Nobody}
Names(f) == flow[f].status = 200 /\ user' = [user EXCEPT ![flow[f].tab] = flow[f].name]
Leaves(t) == user' = [user EXCEPT ![t] = Nobody]

LEMMA IdleNamesNobody == NamesKept(Idle)
BY DEF NamesKept, Idle

LEMMA SentNamesNobody ==
    \A t, goal, request, again, token, name :
        NamesKept(Sent(t, goal, request, again, token, name))
BY DEF NamesKept, Sent

LEMMA CarriedNamesAreKept ==
    ASSUME ShownInv, Grown, NEW f \in Flow, NEW new,
           new.status = flow[f].status, new.name = flow[f].name
    PROVE  NamesKept(new)
<1>1. flow[f].status = 200 => flow[f].name \in LoggedInHere \cup {Nobody}
  BY DEF ShownInv
<1>2. LoggedInHere \subseteq LoggedInHere'
  BY LoginsStay
<1> QED BY <1>1, <1>2 DEF NamesKept

LEMMA StartsNameNobody ==
    ASSUME IInv, ShownInv, Grown, NEW f \in Flow, NEW t \in Tab,
           (\E name \in User : Login(f, t, name)) \/ Logout(f, t) \/ Call(f, t)
    PROVE  UNCHANGED user /\ \E new : NamesKept(new) /\ flow' = [flow EXCEPT ![f] = new]
BY SentNamesNobody DEF Login, Logout, Call, Send, tabVars

LEMMA HandlersNameLogins ==
    ASSUME IInv, IInv', Grown, NEW f \in Flow, Handle(f) \/ HandlerFails(f)
    PROVE  UNCHANGED user /\ \E new : NamesKept(new) /\ flow' = [flow EXCEPT ![f] = new]
<1>1. UNCHANGED user
  BY DEF Handle, HandlerFails, LoginHandler, RefreshHandler, LogoutHandler, CallHandler,
         MyInfoHandler, Handles, tabVars
<1> SUFFICES \E new : NamesKept(new) /\ flow' = [flow EXCEPT ![f] = new]
  BY <1>1
<1>2. ASSUME NEW status, NEW token, NEW session, NEW name,
             Answer(f, status, token, session, name),
             status = 200 => name \in LoggedInHere' \cup {Nobody}
      PROVE  \E new : NamesKept(new) /\ flow' = [flow EXCEPT ![f] = new]
  <2>1. NamesKept(Answered(flow[f], status, token, session, name))
    BY <1>2 DEF NamesKept, Answered
  <2> QED BY <1>2, <2>1 DEF Answer
<1>3. ASSUME NEW status \in {400, 401, 500}, Refuse(f, status)
      PROVE  \E new : NamesKept(new) /\ flow' = [flow EXCEPT ![f] = new]
  BY <1>2, <1>3 DEF Refuse
<1>4. CASE LoginHandler(f)
  <2>1. CASE opened' = Append(opened, flow[f].name)
             /\ Answer(f, 200, Len(issued'), Len(opened'), flow[f].name)
    <3>1. flow[f].name \in User
      BY <1>4 DEF IInv, FlowsOK, FlowOK, LoginHandler, Handles
    <3>2. opened \in Seq(User)
      BY DEF IInv, CognitoOK
    <3>3. Len(opened) + 1 \in DOMAIN opened' /\ opened'[Len(opened) + 1] = flow[f].name
      BY <2>1, <3>1, <3>2
    <3>4. flow[f].name \in LoggedInHere'
      BY <3>3 DEF LoggedInHere
    <3> QED BY <1>2, <2>1, <3>4
  <2> QED BY <1>3, <1>4, <2>1 DEF LoginHandler
<1>5. CASE RefreshHandler(f) \/ LogoutHandler(f) \/ CallHandler(f)
  BY <1>2, <1>3, <1>5 DEF RefreshHandler, LogoutHandler, CallHandler
<1>6. CASE MyInfoHandler(f)
  <2>1. CASE Authorized(flow[f].token) /\ Answer(f, 200, flow[f].token, 0, Holder(flow[f].token))
    <3>1. flow[f] \in Request
      BY <1>6, BusyIsRequest DEF IInv, MyInfoHandler, Handles
    <3>2. flow[f].token \in Nat \cup {Undefined} /\ flow[f].token <= Len(issued)
      BY <3>1 DEF IInv, FlowsOK, FlowOK, Request
    <3>3. expired \in Nat /\ issued \in Seq(DOMAIN opened)
      BY DEF IInv, RestOK, CognitoOK
    <3>4. flow[f].token \in DOMAIN issued
      BY <2>1, <3>2, <3>3 DEF Authorized, Undefined
    <3> QED BY <1>2, <2>1, <3>4, HolderLoggedIn, LoginsStay
  <2> QED BY <1>3, <1>6, <2>1 DEF MyInfoHandler
<1>7. CASE HandlerFails(f)
  BY <1>3, <1>7 DEF HandlerFails
<1> QED BY <1>4, <1>5, <1>6, <1>7 DEF Handle

LEMMA BrowserNamesLogins ==
    ASSUME IInv, ShownInv, Grown, NEW f \in Flow, Arrives(f) \/ Breaks(f)
    PROVE  UNCHANGED user /\ \E new : NamesKept(new) /\ flow' = [flow EXCEPT ![f] = new]
<1>1. UNCHANGED user
  BY DEF Arrives, Breaks, tabVars
<1>2. CASE flow' = [flow EXCEPT ![f] = Idle]
  BY <1>1, <1>2, IdleNamesNobody
<1>3. ASSUME NEW new, flow' = [flow EXCEPT ![f] = new],
             new.status = flow[f].status, new.name = flow[f].name
      PROVE  NamesKept(new)
  BY <1>3, CarriedNamesAreKept
<1>4. CASE flow[f].stage # "none" /\ flow' = [flow EXCEPT ![f].stage = "arrived"]
  <2> DEFINE new == [flow[f] EXCEPT !.stage = "arrived"]
  <2>1. new.status = flow[f].status /\ new.name = flow[f].name
    BY <1>4, BusyIsRequest DEF IInv, Idle, Request
  <2>2. flow' = [flow EXCEPT ![f] = new]
    BY <1>4
  <2> HIDE DEF new
  <2> QED BY <1>1, <1>3, <2>1, <2>2
<1>5. CASE flow[f].stage # "none" /\ flow' = [flow EXCEPT ![f].tab = NoTab]
  <2> DEFINE new == [flow[f] EXCEPT !.tab = NoTab]
  <2>1. new.status = flow[f].status /\ new.name = flow[f].name
    BY <1>5, BusyIsRequest DEF IInv, Idle, Request
  <2>2. flow' = [flow EXCEPT ![f] = new]
    BY <1>5
  <2> HIDE DEF new
  <2> QED BY <1>1, <1>3, <2>1, <2>2
<1> QED BY <1>2, <1>4, <1>5 DEF Arrives, Breaks

LEMMA ScriptsShowNames ==
    ASSUME IInv, Grown, NEW f \in Flow, Continue(f)
    PROVE  /\ UNCHANGED user \/ Leaves(flow[f].tab) \/ Names(f)
           /\ \E new : NamesKept(new) /\ flow' = [flow EXCEPT ![f] = new]
<1>1. UNCHANGED user \/ Leaves(flow[f].tab) \/ Names(f)
  BY DEF Continue, LoggedIn, LoggedOut, Fetched, Refreshed, Leaves, Names
<1>2. ASSUME NEW how, End(f, how)
      PROVE  \E new : NamesKept(new) /\ flow' = [flow EXCEPT ![f] = new]
  BY <1>2, IdleNamesNobody DEF End
<1>3. ASSUME NEW t, NEW goal, NEW request, NEW again, NEW token, NEW name,
             Send(f, t, goal, request, again, token, name)
      PROVE  \E new : NamesKept(new) /\ flow' = [flow EXCEPT ![f] = new]
  BY <1>3, SentNamesNobody DEF Send
<1>4. CASE LoggedIn(f) \/ LoggedOut(f)
  BY <1>1, <1>2, <1>4 DEF LoggedIn, LoggedOut
<1>5. CASE Fetched(f)
  <2>1. (\E how : End(f, how)) \/ Send(f, flow[f].tab, flow[f].goal, "refresh", TRUE, 0, Nobody)
    BY <1>5 DEF Fetched
  <2> QED BY <1>1, <1>2, <1>3, <2>1
<1>6. CASE Refreshed(f)
  BY <1>1, <1>2, <1>3, <1>6 DEF Refreshed
<1> QED BY <1>4, <1>5, <1>6 DEF Continue

LEMMA OneShows ==
    ASSUME IInv, ShownInv, Grown, NEW f \in Flow,
           UNCHANGED user \/ Leaves(flow[f].tab) \/ Names(f),
           \E new : NamesKept(new) /\ flow' = [flow EXCEPT ![f] = new]
    PROVE  ShownInv'
<1>1. \A t \in Tab : user'[t] \in LoggedInHere' \cup {Nobody}
  <2>1. \A t \in Tab : user'[t] \in {user[t], Nobody} \/ user'[t] = flow[f].name
    BY DEF Leaves, Names, IInv, TabsOK
  <2>2. Names(f) => flow[f].name \in LoggedInHere' \cup {Nobody}
    BY LoginsStay DEF Names, ShownInv
  <2>3. \A t \in Tab : user[t] \in LoggedInHere' \cup {Nobody}
    BY LoginsStay DEF ShownInv
  <2>4. ~ Names(f) => \A t \in Tab : user'[t] \in {user[t], Nobody}
    BY DEF Leaves, IInv, TabsOK
  <2> QED BY <2>1, <2>2, <2>3, <2>4
<1>2. PICK new : NamesKept(new) /\ flow' = [flow EXCEPT ![f] = new]
  OBVIOUS
<1>3. ASSUME NEW g \in Flow PROVE NamesKept(flow'[g])
  <2>1. CASE g = f
    BY <1>2, <2>1, FlowIs
  <2>2. CASE g # f
    BY <1>2, <2>2, FlowIs, LoginsStay DEF NamesKept, ShownInv
  <2> QED BY <2>1, <2>2
<1> QED BY <1>1, <1>3 DEF ShownInv, NamesKept

LEMMA LoadShowsNobody ==
    ASSUME IInv, ShownInv, Grown, NEW f \in Flow, NEW t \in Tab, Load(f, t)
    PROVE  ShownInv'
<1>1. \A u \in Tab : user'[u] \in {user[u], Nobody}
  BY DEF Load, IInv, TabsOK
<1>2. ASSUME NEW g \in Flow PROVE NamesKept(flow'[g])
  <2>1. CASE flow'[g] = flow[g]
    BY <2>1, LoginsStay DEF NamesKept, ShownInv
  <2>2. CASE flow[g].stage = "sent" /\ flow'[g] = [flow[g] EXCEPT !.tab = NoTab]
    <3>1. flow'[g].status = flow[g].status /\ flow'[g].name = flow[g].name
      BY <2>2, BusyIsRequest DEF IInv, Request
    <3> QED BY <3>1, CarriedNamesAreKept
  <2>3. CASE flow'[g] = Idle \/ flow'[g] = Sent(t, "tryRefresh", "refresh", FALSE, 0, Nobody)
    BY <2>3, IdleNamesNobody, SentNamesNobody
  <2> QED BY <2>1, <2>2, <2>3 DEF Load
<1> QED BY <1>1, <1>2, LoginsStay DEF ShownInv, NamesKept

LEMMA ShownKeeps == IInv /\ ShownInv /\ [Next]_vars => ShownInv'
<1> SUFFICES ASSUME IInv, ShownInv, [Next]_vars PROVE ShownInv'
  OBVIOUS
<1>1. IInv' /\ Grown
  BY NextKeeps, Grows
<1>2. ASSUME UNCHANGED <<user, flow>> PROVE ShownInv'
  BY <1>1, <1>2, LoginsStay DEF ShownInv
<1>3. CASE UNCHANGED vars \/ Expire \/ \E name \in User : LogoutElsewhere(name)
  BY <1>2, <1>3 DEF vars, tabVars, Expire, LogoutElsewhere
<1>4. ASSUME NEW f \in Flow, NEW t \in Tab,
             (\E name \in User : Login(f, t, name)) \/ Logout(f, t) \/ Call(f, t)
      PROVE  ShownInv'
  BY <1>1, <1>4, StartsNameNobody, OneShows
<1>5. ASSUME NEW f \in Flow, NEW t \in Tab, Load(f, t) PROVE ShownInv'
  BY <1>1, <1>5, LoadShowsNobody
<1>6. ASSUME NEW f \in Flow, Handle(f) \/ HandlerFails(f) PROVE ShownInv'
  BY <1>1, <1>6, HandlersNameLogins, OneShows
<1>7. ASSUME NEW f \in Flow, Arrives(f) \/ Breaks(f) PROVE ShownInv'
  BY <1>1, <1>7, BrowserNamesLogins, OneShows
<1>8. ASSUME NEW f \in Flow, Continue(f) PROVE ShownInv'
  BY <1>1, <1>8, ScriptsShowNames, OneShows
<1> QED BY <1>3, <1>4, <1>5, <1>6, <1>7, <1>8 DEF Next

(* The part of ActsAsShownUser that needs no bound: with any tabs, logins    *)
(* that overlap and connections that break, a page greets only a user whose  *)
(* password Cognito accepted from this browser, also when it learned the     *)
(* name from myInfo after somebody else's login replaced the cookie; and a   *)
(* page acts for another than the user it greets (App.tsx:119) only in a     *)
(* browser in which two users have logged in.                                *)
THEOREM ShownHaveLoggedIn ==
    Spec => [](\A t \in Tab : user[t] # Nobody =>
                 /\ user[t] \in LoggedInHere
                 /\ accessToken[t] # 0 /\ Holder(accessToken[t]) # user[t]
                      => \E r, s \in DOMAIN opened :
                           opened[r] = user[t] /\ opened[s] = Holder(accessToken[t]))
<1>1. Init => ShownInv
  BY DEF Init, ShownInv, Idle
<1>2. IInv /\ ShownInv => \A t \in Tab : user[t] # Nobody =>
                 /\ user[t] \in LoggedInHere
                 /\ accessToken[t] # 0 /\ Holder(accessToken[t]) # user[t]
                      => \E r, s \in DOMAIN opened :
                           opened[r] = user[t] /\ opened[s] = Holder(accessToken[t])
  <2> SUFFICES ASSUME IInv, ShownInv, NEW t \in Tab, user[t] # Nobody
               PROVE  /\ user[t] \in LoggedInHere
                      /\ accessToken[t] # 0 => Holder(accessToken[t]) \in LoggedInHere
    BY DEF LoggedInHere
  <2>1. accessToken[t] # 0 => accessToken[t] \in DOMAIN issued
    BY DEF IInv, TabsOK, CognitoOK
  <2> QED BY <2>1, HolderLoggedIn DEF ShownInv
<1> QED BY <1>1, <1>2, ShownKeeps, Invariance, PTL DEF Spec

--------------------------------------------------------------------------------
(* How far a flow is: the requests its function sends, in their order, the   *)
(* three stages of a request, and whether its page is gone.                  *)
Turn(c) == (IF c.again THEN 2 ELSE 0) + (IF c.request = "refresh" THEN 0 ELSE 1)
StageNumber(c) == IF c.stage = "sent" THEN 0 ELSE IF c.stage = "answered" THEN 1 ELSE 2
Progress(c) == 6 * Turn(c) + 2 * StageNumber(c) + (IF c.tab = NoTab THEN 1 ELSE 0)

(* A flow is Idle, or it is one of the requests that 24 numbers tell apart. *)
Advances(old, new) ==
    old # Idle /\ new # Idle /\ new # old => Progress(new) \in Progress(old) + 1 .. 23

LEMMA ProgressIsBounded == \A c : Turn(c) \in 0 .. 3 /\ Progress(c) \in 0 .. 23
<1> SUFFICES ASSUME NEW c PROVE Turn(c) \in 0 .. 3 /\ Progress(c) \in 0 .. 23
  OBVIOUS
<1>1. Turn(c) \in 0 .. 3 /\ StageNumber(c) \in 0 .. 2
  BY DEF Turn, StageNumber
<1> QED BY <1>1 DEF Progress

(* A later stage of the same request. *)
LEMMA StageAdvances ==
    ASSUME NEW old, NEW new, new.again = old.again, new.request = old.request,
           StageNumber(new) > StageNumber(old)
    PROVE  Advances(old, new)
<1>1. Turn(new) = Turn(old) /\ Turn(old) \in 0 .. 3 /\ StageNumber(old) \in 0 .. 2
      /\ StageNumber(new) \in 0 .. 2
  BY ProgressIsBounded DEF Turn, StageNumber
<1>2. Progress(new) > Progress(old)
  BY <1>1 DEF Progress
<1> QED BY <1>2, ProgressIsBounded DEF Advances

(* A request that a function of App.tsx sends later. *)
LEMMA TurnAdvances ==
    ASSUME NEW old, NEW new, Turn(new) > Turn(old)
    PROVE  Advances(old, new)
<1>1. Turn(new) >= Turn(old) + 1
  BY ProgressIsBounded
<1>2. StageNumber(old) \in 0 .. 2 /\ StageNumber(new) \in 0 .. 2
  BY DEF StageNumber
<1>3. Progress(new) > Progress(old)
  BY <1>1, <1>2, ProgressIsBounded DEF Progress
<1> QED BY <1>3, ProgressIsBounded DEF Advances

(* The page of the flow goes. *)
LEMMA LeavingAdvances ==
    ASSUME NEW old \in Request
    PROVE  Advances(old, [old EXCEPT !.tab = NoTab])
<1> DEFINE new == [old EXCEPT !.tab = NoTab]
<1>1. CASE old.tab = NoTab
  <2>1. new = old
    BY <1>1 DEF Request
  <2> QED BY <2>1 DEF Advances
<1>2. CASE old.tab # NoTab
  <2>1. /\ new.again = old.again /\ new.request = old.request /\ new.stage = old.stage
        /\ new.tab = NoTab
    BY DEF Request
  <2> HIDE DEF new
  <2>2. Turn(new) = Turn(old) /\ StageNumber(new) = StageNumber(old)
        /\ StageNumber(old) \in 0 .. 2
    BY <2>1 DEF Turn, StageNumber
  <2>3. Progress(new) = Progress(old) + 1
    BY <1>2, <2>1, <2>2, ProgressIsBounded DEF Progress
  <2>4. Progress(new) \in 0 .. 23 /\ Progress(old) \in 0 .. 23
    BY ProgressIsBounded
  <2>5. Advances(old, new)
    BY <2>3, <2>4 DEF Advances
  <2> QED BY <2>5 DEF new
<1> QED BY <1>1, <1>2

LEMMA EndAdvances == \A c : Advances(c, Idle) /\ Advances(Idle, c) /\ Advances(c, c)
BY DEF Advances

(* Only one flow takes a step, and that advances. *)
LEMMA OneAdvances ==
    ASSUME IInv, NEW f \in Flow, NEW new, flow' = [flow EXCEPT ![f] = new],
           Advances(flow[f], new)
    PROVE  \A g \in Flow : Advances(flow[g], flow'[g])
BY FlowIs, EndAdvances

LEMMA HandlersAdvance ==
    ASSUME IInv, NEW f \in Flow, Handle(f) \/ HandlerFails(f)
    PROVE  \A g \in Flow : Advances(flow[g], flow'[g])
<1>1. PICK status, token, session, name : Answer(f, status, token, session, name)
  BY DEF Handle, HandlerFails, LoginHandler, RefreshHandler, LogoutHandler, CallHandler,
         MyInfoHandler, Refuse
<1>2. flow[f].stage = "sent"
  BY DEF Handle, HandlerFails, LoginHandler, RefreshHandler, LogoutHandler, CallHandler,
         MyInfoHandler, Handles
<1> DEFINE new == Answered(flow[f], status, token, session, name)
<1>3. new.again = flow[f].again /\ new.request = flow[f].request /\ new.stage = "answered"
  BY DEF Answered
<1>4. flow' = [flow EXCEPT ![f] = new]
  BY <1>1 DEF Answer
<1> HIDE DEF new
<1>5. StageNumber(new) > StageNumber(flow[f])
  BY <1>2, <1>3 DEF StageNumber
<1> QED BY <1>3, <1>4, <1>5, StageAdvances, OneAdvances

LEMMA BrowserAdvances ==
    ASSUME IInv, NEW f \in Flow, Arrives(f) \/ Breaks(f)
    PROVE  \A g \in Flow : Advances(flow[g], flow'[g])
<1>1. CASE flow' = [flow EXCEPT ![f] = Idle]
  BY <1>1, EndAdvances, OneAdvances
<1>2. CASE flow[f].stage = "answered" /\ flow' = [flow EXCEPT ![f].stage = "arrived"]
  <2> DEFINE new == [flow[f] EXCEPT !.stage = "arrived"]
  <2>1. flow[f] \in Request
    BY <1>2, BusyIsRequest DEF IInv
  <2>2. new.again = flow[f].again /\ new.request = flow[f].request /\ new.stage = "arrived"
    BY <2>1 DEF Request
  <2>3. flow' = [flow EXCEPT ![f] = new]
    BY <1>2
  <2> HIDE DEF new
  <2>4. StageNumber(new) > StageNumber(flow[f])
    BY <1>2, <2>2 DEF StageNumber
  <2> QED BY <2>2, <2>3, <2>4, StageAdvances, OneAdvances
<1>3. CASE flow[f].stage = "sent" /\ flow' = [flow EXCEPT ![f].tab = NoTab]
  <2>1. flow[f] \in Request
    BY <1>3, BusyIsRequest DEF IInv
  <2>2. flow' = [flow EXCEPT ![f] = [flow[f] EXCEPT !.tab = NoTab]]
    BY <1>3
  <2> QED BY <2>1, <2>2, LeavingAdvances, OneAdvances
<1> QED BY <1>1, <1>2, <1>3 DEF Arrives, Breaks

LEMMA ScriptsAdvance ==
    ASSUME IInv, NEW f \in Flow, Continue(f)
    PROVE  \A g \in Flow : Advances(flow[g], flow'[g])
<1>1. ASSUME NEW how, End(f, how) PROVE \A g \in Flow : Advances(flow[g], flow'[g])
  BY <1>1, EndAdvances, OneAdvances DEF End
<1>2. ASSUME NEW request, NEW again, NEW token,
             Send(f, flow[f].tab, flow[f].goal, request, again, token, Nobody),
             Turn([again |-> again, request |-> request]) > Turn(flow[f])
      PROVE  \A g \in Flow : Advances(flow[g], flow'[g])
  <2> DEFINE new == Sent(flow[f].tab, flow[f].goal, request, again, token, Nobody)
  <2>1. new.again = again /\ new.request = request
    BY DEF Sent
  <2>2. flow' = [flow EXCEPT ![f] = new]
    BY <1>2 DEF Send
  <2> HIDE DEF new
  <2>3. Turn(new) = Turn([again |-> again, request |-> request])
    BY <2>1 DEF Turn
  <2> QED BY <1>2, <2>2, <2>3, TurnAdvances, OneAdvances
<1>3. CASE LoggedIn(f) \/ LoggedOut(f)
  BY <1>1, <1>3 DEF LoggedIn, LoggedOut
<1>4. CASE Fetched(f)
  <2>1. CASE flow[f].status = 401 /\ ~flow[f].again
    <3>1. Send(f, flow[f].tab, flow[f].goal, "refresh", TRUE, 0, Nobody)
      BY <1>4, <2>1 DEF Fetched
    <3>2. Turn([again |-> TRUE, request |-> "refresh"]) > Turn(flow[f])
      BY <2>1 DEF Turn
    <3> QED BY <1>2, <3>1, <3>2
  <2> QED BY <1>1, <1>4, <2>1 DEF Fetched
<1>5. CASE Refreshed(f)
  <2>1. CASE flow[f].status = 200
    <3>1. PICK request \in {"call", "myinfo"} :
            Send(f, flow[f].tab, flow[f].goal, request, flow[f].again, flow[f].token, Nobody)
      BY <1>5, <2>1 DEF Refreshed
    <3>2. flow[f].request = "refresh"
      BY <1>5 DEF Refreshed, Continues
    <3>3. Turn([again |-> flow[f].again, request |-> request]) > Turn(flow[f])
      BY <3>1, <3>2 DEF Turn
    <3> QED BY <1>2, <3>1, <3>3
  <2> QED BY <1>1, <1>5, <2>1 DEF Refreshed
<1> QED BY <1>3, <1>4, <1>5 DEF Continue

LEMMA StartsAdvance ==
    ASSUME IInv, NEW f \in Flow, NEW t \in Tab,
           (\E name \in User : Login(f, t, name)) \/ Logout(f, t) \/ Call(f, t) \/ Load(f, t)
    PROVE  \A g \in Flow : Advances(flow[g], flow'[g])
<1>1. flow[f] = Idle
  BY DEF Login, Logout, Call, Load, Starts
<1>2. CASE Load(f, t)
  <2> SUFFICES ASSUME NEW g \in Flow, g # f PROVE Advances(flow[g], flow'[g])
    BY <1>1, EndAdvances
  <2>1. CASE flow[g].tab = t /\ flow[g].stage = "sent"
    <3>1. flow'[g] = [flow[g] EXCEPT !.tab = NoTab]
      BY <1>2, <2>1 DEF Load
    <3>2. flow[g] \in Request
      BY <2>1, BusyIsRequest DEF IInv
    <3> QED BY <3>1, <3>2, LeavingAdvances
  <2>2. CASE ~(flow[g].tab = t /\ flow[g].stage = "sent")
    <3>1. flow'[g] \in {flow[g], Idle}
      BY <1>2, <2>2 DEF Load
    <3> QED BY <3>1, EndAdvances
  <2> QED BY <2>1, <2>2
<1>3. CASE (\E name \in User : Login(f, t, name)) \/ Logout(f, t) \/ Call(f, t)
  <2>1. PICK new : flow' = [flow EXCEPT ![f] = new]
    BY <1>3 DEF Login, Logout, Call, Send
  <2> QED BY <1>1, <2>1, EndAdvances, OneAdvances
<1> QED BY <1>2, <1>3

(* The part of FlowsEnd that no fairness is needed for: a call of login,     *)
(* logout, tryRefresh or fetchWithAuth goes only forward, through at most 24 *)
(* places.  A 401 leads to one refresh and one more attempt and never to a   *)
(* chain, with any number of tabs, users, overlapping flows and failures.    *)
THEOREM FlowsAdvance ==
    Spec => [][\A f \in Flow : flow[f] # Idle /\ flow'[f] # Idle /\ flow'[f] # flow[f]
                 => Progress(flow'[f]) \in Progress(flow[f]) + 1 .. 23]_vars
<1>1. IInv /\ [Next]_vars => [\A f \in Flow : Advances(flow[f], flow'[f])]_vars
  <2> SUFFICES ASSUME IInv, Next PROVE \A f \in Flow : Advances(flow[f], flow'[f])
    OBVIOUS
  <2>1. CASE Expire \/ \E name \in User : LogoutElsewhere(name)
    BY <2>1, EndAdvances DEF Expire, LogoutElsewhere
  <2> QED BY <2>1, HandlersAdvance, BrowserAdvances, ScriptsAdvance, StartsAdvance DEF Next
<1>2. [\A f \in Flow : Advances(flow[f], flow'[f])]_vars
        => [\A f \in Flow : flow[f] # Idle /\ flow'[f] # Idle /\ flow'[f] # flow[f]
              => Progress(flow'[f]) \in Progress(flow[f]) + 1 .. 23]_vars
  BY DEF Advances
<1> QED BY <1>1, <1>2, InitKeeps, NextKeeps, PTL DEF Spec
================================================================================
