------------------------------ MODULE MsaSessions ------------------------------
(***************************************************************************)
(* The auth-service of msa-example-1 and the sessions it shares with the   *)
(* board-service in Redis.                                                 *)
(*                                                                         *)
(* Both services run express-session with resave and saveUninitialized     *)
(* off.  A request loads its session when it starts and works on that      *)
(* copy.  When it ends, a copy whose userId changed is saved; an unchanged *)
(* one is only touched, which cannot bring a destroyed session back.       *)
(* Requests of both services, in any number of processes, interleave       *)
(* between the load and the end.                                           *)
(***************************************************************************)
EXTENDS Integers, FiniteSets

CONSTANTS
    Request,  \* requests that can be under way at the same time
    User,     \* user names; a user document is named by its user name
    NoUser,   \* a session without userId, a session that is not in Redis
    Sid,      \* session ids
    NoSid     \* a request without a cookie, or whose session is not stored

ASSUME SessionAssumption == NoUser \notin User /\ NoSid \notin Sid

VARIABLES
    users,     \* user names with a document in Mongo
    store,     \* Redis: the userId of every session, NoUser when absent
    call,      \* the request under way and its copy of the session
    proved     \* history: for whom a password was accepted on a session

sessionVars == <<users, store, call, proved>>

(* at: what the handler awaits.  sid: req.sessionID, NoSid while a new id    *)
(* is not stored.  loaded: userId when the request started.  userId: now.    *)
(* name, good: the body's username and whether its password is right.        *)
Idle == [at |-> "none", sid |-> NoSid, loaded |-> NoUser, userId |-> NoUser,
         name |-> NoUser, good |-> FALSE]
Call == [at : {"save user", "find user", "compare", "end", "destroy", "find me"},
         sid : Sid \cup {NoSid}, loaded : User \cup {NoUser},
         userId : User \cup {NoUser}, name : User \cup {NoUser}, good : BOOLEAN]

(* What a login awaits. *)
LoginSteps == {"find user", "compare", "end"}

SessionInit ==
    /\ users = {}
    /\ store = [s \in Sid |-> NoUser]
    /\ call = [r \in Request |-> Idle]
    /\ proved = [s \in Sid |-> {}]

Issued == {s \in Sid : proved[s] # {}}

--------------------------------------------------------------------------------
(* What express-session finds for the cookie c: the stored session, or a new *)
(* empty one when there is no cookie or nothing is stored under it.          *)
Loaded(c, at, name, good) ==
    LET stored == c # NoSid /\ store[c] # NoUser
        userId == IF stored THEN store[c] ELSE NoUser
    IN  [at |-> at, sid |-> IF stored THEN c ELSE NoSid,
         loaded |-> userId, userId |-> userId, name |-> name, good |-> good]

Start(r, c, at, name, good) ==
    /\ call[r] = Idle
    /\ call' = [call EXCEPT ![r] = Loaded(c, at, name, good)]
    /\ UNCHANGED <<users, store, proved>>

Finish(r) == call' = [call EXCEPT ![r] = Idle]

Register(r, c, name) == Start(r, c, "save user", name, FALSE)
Login(r, c, name, good) == Start(r, c, "find user", name, good)
Logout(r, c) == Start(r, c, "destroy", NoUser, FALSE)

(* getMe answers 401 at once without a userId. *)
Me(r, c) ==
    /\ c # NoSid /\ store[c] # NoUser
    /\ Start(r, c, "find me", NoUser, FALSE)

(* Mutant: the user is saved under the name of the session. *)
UserSavedFromSession(r) ==
    /\ call[r].at = "save user"
    /\ users' = users \cup {call[r].userId}
    /\ Finish(r)
    /\ UNCHANGED <<store, proved>>

(* user.save(): 201, or 400 when the unique index has the name already. *)
UserSaved(r) ==
    /\ call[r].at = "save user"
    /\ users' = users \cup {call[r].name}
    /\ Finish(r)
    /\ UNCHANGED <<store, proved>>

(* findOne({username}): 401 when there is no such user. *)
UserFound(r) ==
    /\ call[r].at = "find user"
    /\ IF call[r].name \in users
         THEN call' = [call EXCEPT ![r].at = "compare"]
         ELSE Finish(r)
    /\ UNCHANGED <<users, store, proved>>

(* Mutant: the session is given its user before the password is compared; *)
(* the end of the request saves it with the 401, too.                     *)
ComparedLate(r) ==
    /\ call[r].at = "compare"
    /\ call' = [call EXCEPT ![r].userId = call[r].name, ![r].at = "end"]
    /\ UNCHANGED <<users, store, proved>>

(* bcrypt.compare: 401, or session.userId = user._id and the answer. *)
Compared(r) ==
    /\ call[r].at = "compare"
    /\ IF call[r].good
         THEN call' = [call EXCEPT ![r].userId = call[r].name, ![r].at = "end"]
         ELSE Finish(r)
    /\ UNCHANGED <<users, store, proved>>

(* Mutant: resave, every request writes its copy back. *)
EndedWithResave(r) ==
    LET c == call[r] IN
    /\ c.at = "end" \/ (c.at = "find me")
    /\ \E s \in IF c.sid = NoSid THEN Sid \ Issued ELSE {c.sid} :
        /\ store' = [store EXCEPT ![s] = c.userId]
        /\ proved' = [proved EXCEPT ![s] = IF c.good THEN @ \cup {c.name} ELSE @]
    /\ Finish(r)
    /\ UNCHANGED users

(* The end of a login: the copy is saved if its userId changed, under a new *)
(* id if it had none.  The user proved who he is on that session.           *)
Ended(r) ==
    LET c == call[r] IN
    /\ c.at = "end"
    /\ IF c.userId # c.loaded
         THEN \E s \in IF c.sid = NoSid THEN Sid \ Issued ELSE {c.sid} :
                /\ store' = [store EXCEPT ![s] = c.userId]
                /\ proved' = [proved EXCEPT ![s] = IF c.good THEN @ \cup {c.name}
                                                             ELSE @]
         ELSE UNCHANGED <<store, proved>>
    /\ Finish(r)
    /\ UNCHANGED users

(* session.destroy(): 'Logged out'.  Nothing is saved at the end. *)
Destroyed(r) ==
    /\ call[r].at = "destroy"
    /\ IF call[r].sid = NoSid
         THEN UNCHANGED store
         ELSE store' = [store EXCEPT ![call[r].sid] = NoUser]
    /\ Finish(r)
    /\ UNCHANGED <<users, proved>>

MeFound(r) ==
    /\ call[r].at = "find me"
    /\ Finish(r)
    /\ UNCHANGED <<users, store, proved>>

(* Mongo or Redis fails: 400, 401 or 500, or 'Logged in' with nothing saved. *)
Failed(r) ==
    /\ call[r] # Idle
    /\ Finish(r)
    /\ UNCHANGED <<users, store, proved>>

(* A day passes without a request that touches the session. *)
Expired(s) ==
    /\ store[s] # NoUser
    /\ store' = [store EXCEPT ![s] = NoUser]
    /\ UNCHANGED <<users, call, proved>>

--------------------------------------------------------------------------------
(* A client sends a cookie it was given, or none. *)
Cookie == Issued \cup {NoSid}

(* Bound: a login that needs a new session id finds one.  One that loads a *)
(* stored session keeps its id.                                             *)
SidsLeft(c) ==
    \/ c # NoSid /\ store[c] # NoUser
    \/ Cardinality({r \in Request : call[r].at \in LoginSteps /\ call[r].sid = NoSid})
         < Cardinality(Sid \ Issued)

SessionNext ==
    \/ \E r \in Request :
        \/ \E c \in Cookie :
            \/ \E name \in User : Register(r, c, name)
            \/ \E name \in User, good \in BOOLEAN : SidsLeft(c) /\ Login(r, c, name, good)
            \/ Logout(r, c)
            \/ Me(r, c)
        \/ UserSaved(r)
        \/ UserFound(r)
        \/ Compared(r)
        \/ Ended(r)
        \/ Destroyed(r)
        \/ MeFound(r)
        \/ Failed(r)
    \/ \E s \in Sid : Expired(s)

SessionSpec == SessionInit /\ [][SessionNext]_sessionVars

--------------------------------------------------------------------------------
SessionTypeOK ==
    /\ users \subseteq User
    /\ store \in [Sid -> User \cup {NoUser}]
    /\ call \in [Request -> Call \cup {Idle}]
    /\ proved \in [Sid -> SUBSET User]

(* A session acts for a user only if a login on that very session presented  *)
(* the user's password and the user was registered: overlapping logins as    *)
(* two users, logouts and failures do not mix them up.                       *)
SessionsComeFromLogins ==
    \A s \in Sid : store[s] # NoUser => store[s] \in proved[s] \cap users

(* A login that loaded the session is under way. *)
LoggingIn(s) ==
    \E r \in Request : call[r].sid = s /\ call[r].at \in LoginSteps

(* The end of a session is final: once a session that was issued is gone,     *)
(* destroyed by a logout or expired, and no login that loaded it before is    *)
(* still under way, it never acts for anybody again, and no request gets hold *)
(* of it.  A login that overlaps the logout may revive it.                    *)
LogoutIsFinal ==
    [][\A s \in Issued :
         store[s] = NoUser /\ ~LoggingIn(s)
            => store'[s] = NoUser /\ ~LoggingIn(s)']_sessionVars
================================================================================
