---------------------------------- MODULE MsaProofs ----------------------------
(***************************************************************************)
(* Proofs about the sessions, about the board and about the two together,  *)
(* for every number of requests, users, session ids and posts.             *)
(***************************************************************************)
EXTENDS Msa, TLAPS

(* A login that compares or ends is for a registered user, and one that ends *)
(* presented the right password and is about to store that user.             *)
Checked(c, registered) ==
    /\ c.at \in {"save user", "find user", "compare", "end"} => c.name \in User
    /\ c.at \in {"compare", "end"} => c.name \in registered
    /\ c.at = "end" => c.good /\ c.userId = c.name

LoginsAreChecked == \A r \in Request : Checked(call[r], users)

(* Only sessions that a login stored are loaded: their ids are not drawn     *)
(* again.                                                                    *)
SessionsWereIssued ==
    \A r \in Request : call[r].sid # NoSid => call[r].sid \in Issued

SessionInv ==
    /\ SessionTypeOK
    /\ SessionsComeFromLogins
    /\ LoginsAreChecked
    /\ SessionsWereIssued

--------------------------------------------------------------------------------
LEMMA IdleIsNoCall ==
    /\ Idle.at = "none" /\ Idle.sid = NoSid
    /\ Idle \notin Call
BY DEF Idle, Call

(* A request starts, goes on or ends, and the stored sessions stay. *)
LEMMA CallKeeps ==
    ASSUME SessionInv, NEW r \in Request, NEW new \in Call \cup {Idle},
           call' = [call EXCEPT ![r] = new],
           Checked(new, users), new.sid # NoSid => new.sid \in Issued,
           users' \subseteq User, users \subseteq users',
           UNCHANGED <<store, proved>>
    PROVE  SessionInv'
<1> USE DEF SessionInv
<1>1. SessionTypeOK'
  BY DEF SessionTypeOK
<1>2. SessionsComeFromLogins'
  BY DEF SessionsComeFromLogins
<1>3. LoginsAreChecked'
  <2> SUFFICES ASSUME NEW q \in Request PROVE Checked(call'[q], users')
    BY DEF LoginsAreChecked
  <2>1. CASE q = r
    BY <2>1 DEF SessionTypeOK, Checked
  <2>2. CASE q # r
    BY <2>2 DEF SessionTypeOK, Checked, LoginsAreChecked
  <2> QED BY <2>1, <2>2
<1>4. SessionsWereIssued'
  BY DEF SessionsWereIssued, SessionTypeOK, Issued
<1> QED BY <1>1, <1>2, <1>3, <1>4

LEMMA FinishKeeps ==
    ASSUME SessionInv, NEW r \in Request, Finish(r), users' \subseteq User,
           users \subseteq users', UNCHANGED <<store, proved>>
    PROVE  SessionInv'
BY CallKeeps, IdleIsNoCall DEF Finish, Checked

(* A request starts: what it loaded was issued. *)
LEMMA StartKeeps ==
    ASSUME SessionInv, NEW r \in Request, NEW c \in Cookie,
           NEW step \in {"save user", "find user", "destroy", "find me"},
           NEW name \in User \cup {NoUser}, NEW good \in BOOLEAN,
           step \in {"save user", "find user"} => name \in User,
           Start(r, c, step, name, good)
    PROVE  SessionInv'
<1> USE SessionAssumption DEF SessionInv
<1> DEFINE new == Loaded(c, step, name, good)
<1>1. /\ new \in Call /\ new.at = step /\ new.name = name
      /\ new.sid # NoSid => new.sid \in Issued
  BY DEF Loaded, Call, Cookie, SessionTypeOK, Issued
<1>2. call' = [call EXCEPT ![r] = new] /\ UNCHANGED <<users, store, proved>>
  BY DEF Start
<1> HIDE DEF new
<1> QED BY <1>1, <1>2, CallKeeps DEF Checked, SessionTypeOK

(* A handler goes on to the next call. *)
LEMMA HandlerKeeps ==
    ASSUME SessionInv, NEW r \in Request, UserFound(r) \/ Compared(r)
    PROVE  SessionInv'
<1> USE IdleIsNoCall DEF SessionInv
<1> DEFINE c == call[r]
<1>1. CASE Finish(r) /\ UNCHANGED <<users, store, proved>>
  BY <1>1, FinishKeeps DEF SessionTypeOK
<1>2. c \in Call \cup {Idle} /\ (c.sid # NoSid => c.sid \in Issued) /\ users \subseteq User
  BY DEF SessionTypeOK, SessionsWereIssued
<1>3. CASE UserFound(r) /\ c.name \in users
  <2> DEFINE new == [c EXCEPT !.at = "compare"]
  <2>1. c.at = "find user" /\ c \in Call
    BY <1>2, <1>3 DEF UserFound
  <2>2. new \in Call /\ new.sid = c.sid /\ new.name = c.name /\ new.at = "compare"
    BY <2>1 DEF Call
  <2>3. call' = [call EXCEPT ![r] = new] /\ UNCHANGED <<users, store, proved>>
    BY <1>3 DEF UserFound
  <2> HIDE DEF new
  <2> QED BY <1>2, <1>3, <2>2, <2>3, CallKeeps DEF Checked
<1>4. CASE Compared(r) /\ c.good
  <2> DEFINE new == [c EXCEPT !.userId = c.name, !.at = "end"]
  <2>1. c.at = "compare" /\ c \in Call /\ c.name \in users
    BY <1>2, <1>4 DEF Compared, LoginsAreChecked, Checked
  <2>2. /\ new \in Call /\ new.sid = c.sid /\ new.name = c.name
        /\ new.userId = c.name /\ new.at = "end" /\ new.good
    BY <1>4, <2>1 DEF Call
  <2>3. call' = [call EXCEPT ![r] = new] /\ UNCHANGED <<users, store, proved>>
    BY <1>4 DEF Compared
  <2> HIDE DEF new
  <2> QED BY <1>2, <2>1, <2>2, <2>3, CallKeeps DEF Checked
<1> QED BY <1>1, <1>3, <1>4 DEF UserFound, Compared

(* A login stores its user in a session. *)
LEMMA EndedKeeps ==
    ASSUME SessionInv, NEW r \in Request, Ended(r)
    PROVE  SessionInv'
<1> USE IdleIsNoCall DEF SessionInv
<1> DEFINE c == call[r]
<1>1. c \in Call /\ c.name \in users /\ c.good /\ c.userId = c.name
  BY DEF Ended, SessionTypeOK, LoginsAreChecked, Checked
<1>2. CASE c.userId = c.loaded
  BY <1>2, FinishKeeps DEF Ended, SessionTypeOK
<1>3. ASSUME NEW s \in Sid,
             store' = [store EXCEPT ![s] = c.userId],
             proved' = [proved EXCEPT ![s] = IF c.good THEN @ \cup {c.name} ELSE @],
             Finish(r), UNCHANGED users
      PROVE  SessionInv'
  <2>1. \A t \in Sid : proved[t] \subseteq proved'[t]
    BY <1>1, <1>3 DEF SessionTypeOK
  <2>2. SessionTypeOK'
    BY <1>1, <1>3 DEF SessionTypeOK, Finish
  <2>3. SessionsComeFromLogins'
    BY <1>1, <1>3 DEF SessionsComeFromLogins, SessionTypeOK
  <2>4. LoginsAreChecked'
    BY <1>3 DEF LoginsAreChecked, Checked, SessionTypeOK, Finish
  <2>5. SessionsWereIssued'
    BY <1>3, <2>1 DEF SessionsWereIssued, SessionTypeOK, Issued, Finish
  <2> QED BY <2>2, <2>3, <2>4, <2>5
<1>4. CASE c.userId # c.loaded
  <2>1. PICK s \in IF c.sid = NoSid THEN Sid \ Issued ELSE {c.sid} :
          /\ store' = [store EXCEPT ![s] = c.userId]
          /\ proved' = [proved EXCEPT ![s] = IF c.good THEN @ \cup {c.name} ELSE @]
    BY <1>4 DEF Ended
  <2>2. s \in Sid
    BY <1>1 DEF Call
  <2> QED BY <1>3, <2>1, <2>2 DEF Ended
<1> QED BY <1>2, <1>4

(* A logout destroys its session; a session expires. *)
LEMMA EndOfSessionKeeps ==
    ASSUME SessionInv,
           \/ \E r \in Request : Destroyed(r)
           \/ \E s \in Sid : Expired(s)
    PROVE  SessionInv'
<1> USE IdleIsNoCall DEF SessionInv
<1>1. ASSUME NEW s \in Sid, Expired(s) PROVE SessionInv'
  BY <1>1 DEF Expired, SessionTypeOK, SessionsComeFromLogins, LoginsAreChecked,
              SessionsWereIssued, Issued
<1>2. ASSUME NEW r \in Request, Destroyed(r) PROVE SessionInv'
  <2>1. CASE call[r].sid = NoSid
    BY <1>2, <2>1, FinishKeeps DEF Destroyed, SessionTypeOK
  <2>2. CASE call[r].sid # NoSid
    <3>1. /\ store' = [store EXCEPT ![call[r].sid] = NoUser]
          /\ UNCHANGED <<users, proved>>
          /\ call' = [call EXCEPT ![r] = Idle]
          /\ call[r].sid \in Sid /\ call[r].sid \in Issued
      BY <1>2, <2>2 DEF Destroyed, Finish, SessionsWereIssued, Issued
    <3>2. SessionTypeOK'
      BY <3>1 DEF SessionTypeOK
    <3>3. SessionsComeFromLogins'
      BY <3>1 DEF SessionsComeFromLogins, SessionTypeOK
    <3>4. LoginsAreChecked'
      BY <3>1 DEF LoginsAreChecked, Checked, SessionTypeOK
    <3>5. SessionsWereIssued'
      BY <3>1 DEF SessionsWereIssued, SessionTypeOK, Issued
    <3> QED BY <3>2, <3>3, <3>4, <3>5
  <2> QED BY <2>1, <2>2
<1> QED BY <1>1, <1>2

LEMMA SessionNextKeeps == SessionInv /\ [SessionNext]_sessionVars => SessionInv'
<1> SUFFICES ASSUME SessionInv, [SessionNext]_sessionVars PROVE SessionInv'
  OBVIOUS
<1>1. CASE UNCHANGED sessionVars
  BY <1>1 DEF sessionVars, SessionInv, SessionTypeOK, SessionsComeFromLogins,
              LoginsAreChecked, SessionsWereIssued, Issued
<1>2. ASSUME NEW r \in Request, NEW c \in Cookie,
             \/ \E name \in User : Register(r, c, name)
             \/ \E name \in User, good \in BOOLEAN : Login(r, c, name, good)
             \/ Logout(r, c)
             \/ Me(r, c)
      PROVE  SessionInv'
  BY <1>2, StartKeeps DEF Register, Login, Logout, Me
<1>3. ASSUME NEW r \in Request, UserSaved(r) PROVE SessionInv'
  <2>1. call[r].name \in User /\ users \subseteq User
    BY <1>3 DEF UserSaved, SessionInv, LoginsAreChecked, Checked, SessionTypeOK
  <2> QED BY <1>3, <2>1, FinishKeeps DEF UserSaved
<1>4. ASSUME NEW r \in Request, MeFound(r) \/ Failed(r) PROVE SessionInv'
  BY <1>4, FinishKeeps DEF MeFound, Failed, SessionInv, SessionTypeOK
<1> QED BY <1>1, <1>2, <1>3, <1>4, HandlerKeeps, EndedKeeps, EndOfSessionKeeps
        DEF SessionNext

LEMMA SessionInitKeeps == SessionInit => SessionInv
BY SessionAssumption, IdleIsNoCall
   DEF SessionInit, SessionInv, SessionTypeOK, SessionsComeFromLogins, LoginsAreChecked,
       Checked, SessionsWereIssued, Issued

--------------------------------------------------------------------------------
(* The stored sessions, the requests and their copies keep their types. *)
THEOREM SessionTypeCorrect == SessionSpec => []SessionTypeOK
BY SessionInitKeeps, SessionNextKeeps, PTL DEF SessionSpec, SessionInv

(* However requests overlap, a stored session acts for a registered user     *)
(* whose password a login accepted on that session.                          *)
THEOREM SessionsAreEarned == SessionSpec => []SessionsComeFromLogins
BY SessionInitKeeps, SessionNextKeeps, PTL DEF SessionSpec, SessionInv

(* One step cannot revive a session that is gone. *)
LEMMA StepIsFinal ==
    SessionInv /\ [SessionNext]_sessionVars
      => [\A s \in Issued :
            store[s] = NoUser /\ ~LoggingIn(s)
              => store'[s] = NoUser /\ ~LoggingIn(s)']_sessionVars
<1> SUFFICES ASSUME SessionInv, SessionNext, NEW s \in Issued,
                    store[s] = NoUser, ~LoggingIn(s)
             PROVE  store'[s] = NoUser /\ ~LoggingIn(s)'
  BY DEF sessionVars
<1> USE SessionAssumption, IdleIsNoCall DEF SessionInv
<1>1. s \in Sid /\ s \in Issued /\ s # NoSid
  BY DEF Issued
<1>2. ASSUME NEW r \in Request, NEW c \in Cookie, NEW step, NEW name, NEW good,
             Start(r, c, step, name, good)
      PROVE  store'[s] = NoUser /\ ~LoggingIn(s)'
  <2>1. Loaded(c, step, name, good).sid # s
    BY <1>1 DEF Loaded
  <2> QED BY <1>2, <2>1 DEF Start, LoggingIn, LoginSteps, SessionTypeOK
<1>3. ASSUME NEW r \in Request, Finish(r), store'[s] = NoUser
      PROVE  store'[s] = NoUser /\ ~LoggingIn(s)'
  BY <1>1, <1>3 DEF Finish, LoggingIn, LoginSteps, SessionTypeOK
<1>4. ASSUME NEW r \in Request, UserFound(r) \/ Compared(r)
      PROVE  store'[s] = NoUser /\ ~LoggingIn(s)'
  <2>1. store' = store /\ call[r].sid # s /\ call[r] \in Call
    BY <1>4 DEF UserFound, Compared, LoggingIn, LoginSteps, SessionTypeOK
  <2>2. PICK new : call' = [call EXCEPT ![r] = new] /\ new.sid # s
    <3>1. CASE Finish(r)
      BY <1>1, <3>1 DEF Finish
    <3>2. CASE call' = [call EXCEPT ![r] = [@ EXCEPT !.at = "compare"]]
      <4>1. [call[r] EXCEPT !.at = "compare"].sid # s
        BY <2>1 DEF Call
      <4> QED BY <3>2, <4>1
    <3>3. CASE call' = [call EXCEPT ![r] = [@ EXCEPT !.userId = call[r].name,
                                                     !.at = "end"]]
      <4>1. [call[r] EXCEPT !.userId = call[r].name, !.at = "end"].sid # s
        BY <2>1 DEF Call
      <4> QED BY <3>3, <4>1
    <3> QED BY <1>4, <3>1, <3>2, <3>3 DEF UserFound, Compared, SessionTypeOK
  <2> QED BY <2>1, <2>2 DEF LoggingIn, LoginSteps, SessionTypeOK
<1>5. ASSUME NEW r \in Request, Ended(r)
      PROVE  store'[s] = NoUser
  BY <1>1, <1>5 DEF Ended, LoggingIn, LoginSteps, SessionTypeOK
<1>6. ASSUME NEW r \in Request, Destroyed(r)
      PROVE  store'[s] = NoUser
  BY <1>1, <1>6 DEF Destroyed, SessionTypeOK
<1>7. ASSUME NEW t \in Sid, Expired(t)
      PROVE  store'[s] = NoUser /\ ~LoggingIn(s)'
  BY <1>1, <1>7 DEF Expired, LoggingIn, LoginSteps, SessionTypeOK
<1>8. ASSUME NEW r \in Request, NEW c \in Cookie,
             \/ \E name \in User : Register(r, c, name)
             \/ \E name \in User, good \in BOOLEAN : Login(r, c, name, good)
             \/ Logout(r, c)
             \/ Me(r, c)
      PROVE  store'[s] = NoUser /\ ~LoggingIn(s)'
  BY <1>2, <1>8 DEF Register, Login, Logout, Me
<1>9. ASSUME NEW r \in Request,
             UserSaved(r) \/ MeFound(r) \/ Failed(r) \/ Ended(r) \/ Destroyed(r)
      PROVE  store'[s] = NoUser /\ ~LoggingIn(s)'
  BY <1>3, <1>5, <1>6, <1>9 DEF UserSaved, MeFound, Failed, Ended, Destroyed
<1> QED BY <1>4, <1>7, <1>8, <1>9 DEF SessionNext

(* The end of a session is final, for every number of overlapping requests. *)
THEOREM LogoutStands == SessionSpec => LogoutIsFinal
BY SessionInitKeeps, SessionNextKeeps, StepIsFinal, PTL DEF SessionSpec, LogoutIsFinal

--------------------------------------------------------------------------------
(* The board.  Without a document there is no author, and a document was     *)
(* written by somebody.                                                      *)
PostsWereWritten ==
    \A i \in Id :
        /\ ~Posts!Exists(i) => posts[i].author = NoUser
        /\ Posts!Exists(i) => wrote[i] # {}

(* What a request awaits fits what it asks for; it has a user, and before it *)
(* writes to a post it was seen to be its author's.                          *)
JobsWereChecked ==
    \A r \in BoardRequest :
        /\ (job[r] = Posts!NoJob) <=> (at[r] = "none")
        /\ at[r] # "none" => job[r].user # NoUser
        /\ at[r] = "save" => job[r].op = "create"
        /\ at[r] = "find" => job[r].op # "create"
        /\ job[r].op \in {"update", "delete", "read"} => job[r].id \in Id
        /\ at[r] \in {"update", "delete"} => job[r].op = at[r] /\ r \in held

BoardInv == Posts!BoardTypeOK /\ PostsWereWritten /\ JobsWereChecked

LEMMA NoJobIsNone ==
    /\ Posts!NoJob \notin Posts!Job
    /\ Posts!NoJob.op = "none" /\ Posts!NoJob.user = NoUser
BY DEF Posts!NoJob, Posts!Job

LEMMA AwaitingIsAJob ==
    ASSUME BoardInv, NEW r \in BoardRequest, at[r] # "none"
    PROVE  job[r] \in Posts!Job /\ job[r] # Posts!NoJob /\ job[r].user \in User
BY DEF BoardInv, Posts!BoardTypeOK, JobsWereChecked, Posts!Job

(* A write replaces one document: a new one by its creator's, or one that is *)
(* there by what a request makes of it that was seen to be its author's.     *)
LEMMA WriteStores ==
    ASSUME BoardInv, NEW r \in BoardRequest, Posts!Write(r)
    PROVE  \E i \in Id, d \in [author : User \cup {NoUser}, text : Text \cup {NoText}] :
              /\ Posts!Store(r, i, d)
              /\ d.text = NoText => d.author = NoUser
              /\ \/ /\ at[r] = "save" /\ ~Posts!Exists(i)
                    /\ d.author = job[r].user
                    /\ wrote[i] = {} \/ job[r].id = i
                 \/ /\ at[r] = "update" /\ job[r].id = i /\ Posts!Exists(i)
                    /\ d.text # NoText
                 \/ /\ at[r] = "delete" /\ job[r].id = i /\ d = Posts!Absent
<1> USE SessionAssumption, MsaAssumption DEF BoardInv
<1> DEFINE j == job[r]
           Document == [author : User \cup {NoUser}, text : Text \cup {NoText}]
<1>1. j \in Posts!Job /\ j.user \in User
  BY AwaitingIsAJob DEF Posts!Write
<1>2. CASE at[r] = "save" /\ j.text \in Text /\ Posts!Insert(r)
  <2> DEFINE d == [author |-> j.user, text |-> j.text]
  <2>1. PICK i \in Id :
           /\ IF j.id = NoId THEN wrote[i] = {} ELSE i = j.id /\ ~Posts!Exists(i)
           /\ Posts!Store(r, i, d)
    BY <1>2 DEF Posts!Insert
  <2>2. ~Posts!Exists(i)
    BY <2>1 DEF PostsWereWritten
  <2>3. d \in Document /\ d.author = j.user /\ d.text # NoText
    BY <1>1, <1>2
  <2> QED BY <1>2, <2>1, <2>2, <2>3
<1>3. CASE at[r] = "update" /\ Posts!FindByIdAndUpdate(r)
  <2> DEFINE d == Posts!Merged(posts[j.id], j)
  <2>1. j.id \in Id /\ Posts!Exists(j.id) /\ Posts!Store(r, j.id, d)
    BY <1>3 DEF Posts!FindByIdAndUpdate, JobsWereChecked
  <2>2. posts[j.id] \in Document /\ posts[j.id].text # NoText
    BY <2>1 DEF Posts!BoardTypeOK, Posts!Exists
  <2>3. d \in Document /\ d.text # NoText
    BY <1>1, <2>2 DEF Posts!Merged, Posts!Job
  <2> QED BY <1>3, <2>1, <2>3
<1>4. CASE at[r] = "delete" /\ Posts!FindByIdAndDelete(r)
  <2>1. j.id \in Id /\ Posts!Store(r, j.id, Posts!Absent)
    BY <1>4 DEF Posts!FindByIdAndDelete, JobsWereChecked
  <2>2. Posts!Absent \in Document /\ Posts!Absent.author = NoUser
    BY DEF Posts!Absent
  <2> QED BY <1>4, <2>1, <2>2
<1> QED BY <1>2, <1>3, <1>4 DEF Posts!Write

(* The documents after a step that answers. *)
LEMMA DocumentsAreKept ==
    ASSUME BoardInv, NEW r \in BoardRequest,
           Posts!Write(r) \/ UNCHANGED <<posts, wrote>>
    PROVE  /\ posts' \in [Id -> [author : User \cup {NoUser}, text : Text \cup {NoText}]]
           /\ wrote' \in [Id -> SUBSET User]
           /\ PostsWereWritten'
<1> USE DEF BoardInv
<1>1. CASE UNCHANGED <<posts, wrote>>
  BY <1>1 DEF Posts!BoardTypeOK, PostsWereWritten, Posts!Exists
<1>2. CASE Posts!Write(r)
  <2>1. PICK i \in Id, d \in [author : User \cup {NoUser}, text : Text \cup {NoText}] :
              /\ Posts!Store(r, i, d)
              /\ d.text = NoText => d.author = NoUser
    BY <1>2, WriteStores
  <2>2. job[r].user \in User
    BY <1>2, AwaitingIsAJob DEF Posts!Write
  <2>3. /\ posts' = [posts EXCEPT ![i] = d]
        /\ wrote' = [wrote EXCEPT ![i] = @ \cup {job[r].user}]
    BY <2>1 DEF Posts!Store
  <2>4. /\ posts' \in [Id -> [author : User \cup {NoUser}, text : Text \cup {NoText}]]
        /\ wrote' \in [Id -> SUBSET User]
    BY <2>2, <2>3 DEF Posts!BoardTypeOK
  <2>5. /\ posts'[i] = d /\ wrote'[i] # {}
        /\ \A k \in Id \ {i} : posts'[k] = posts[k] /\ wrote'[k] = wrote[k]
    BY <2>3 DEF Posts!BoardTypeOK
  <2>6. PostsWereWritten'
    BY <2>1, <2>5 DEF PostsWereWritten, Posts!Exists
  <2> QED BY <2>4, <2>6
<1> QED BY <1>1, <1>2

(* An answer, after a write or without one. *)
LEMMA AnswerKeeps ==
    ASSUME BoardInv, NEW r \in BoardRequest, NEW how \in {"ok", "refused", "failed"},
           Posts!Answer(r, how), Posts!Write(r) \/ UNCHANGED <<posts, wrote>>,
           Posts!Remember
    PROVE  BoardInv'
<1> USE NoJobIsNone DEF BoardInv
<1>1. Posts!BoardTypeOK' /\ PostsWereWritten'
  <2>1. held' \subseteq BoardRequest
    BY DEF Posts!Remember, Posts!Authors, Posts!BoardTypeOK
  <2> QED BY <2>1, DocumentsAreKept DEF Posts!Answer, Posts!BoardTypeOK
<1>2. JobsWereChecked'
  <2>1. /\ job' = [job EXCEPT ![r] = Posts!NoJob] /\ at' = [at EXCEPT ![r] = "none"]
        /\ \A q \in BoardRequest \ {r} : job'[q] = job[q] /\ at'[q] = at[q]
        /\ job'[r] = Posts!NoJob /\ at'[r] = "none"
    BY DEF Posts!Answer, Posts!BoardTypeOK
  <2>2. \A q \in BoardRequest \ {r} : q \in held /\ at[q] # "none" => q \in held'
    BY <2>1 DEF Posts!Remember, JobsWereChecked
  <2> QED BY <2>1, <2>2 DEF JobsWereChecked
<1> QED BY <1>1, <1>2

(* The author was compared. *)
LEMMA AwaitKeeps ==
    ASSUME BoardInv, NEW r \in BoardRequest, NEW what \in {"update", "delete"},
           Posts!Await(r, what), at[r] = "find", job[r].op = what,
           posts[job[r].id].author = job[r].user, Posts!Remember
    PROVE  BoardInv'
<1> USE NoJobIsNone DEF BoardInv
<1>1. held' \subseteq BoardRequest
  BY DEF Posts!Remember, Posts!Authors, Posts!BoardTypeOK
<1>2. Posts!BoardTypeOK' /\ PostsWereWritten'
  BY <1>1 DEF Posts!Await, Posts!BoardTypeOK, PostsWereWritten, Posts!Exists
<1>3. r \in held'
  BY AwaitingIsAJob, SessionAssumption DEF Posts!Remember, Posts!Authors, Posts!Await
<1>4. \A q \in BoardRequest : q \in held /\ at[q] # "none" => q \in held'
  BY DEF Posts!Remember, Posts!Await, JobsWereChecked
<1>5. JobsWereChecked'
  BY <1>3, <1>4 DEF Posts!Await, Posts!BoardTypeOK, JobsWereChecked
<1> QED BY <1>2, <1>5

LEMMA ArriveKeeps ==
    ASSUME BoardInv, NEW r \in BoardRequest, NEW user \in User \cup {NoUser},
           Posts!Arrive(r, user)
    PROVE  BoardInv'
<1> USE NoJobIsNone DEF BoardInv
<1>1. PICK j \in Posts!Job :
        /\ j.user = user
        /\ j.op \in {"update", "delete", "read"} => j.id # NoId
        /\ Posts!Middleware(r, j)
  BY DEF Posts!Arrive
<1>2. Posts!Remember /\ at[r] = "none"
  BY DEF Posts!Arrive, JobsWereChecked
<1>3. CASE j.user = NoUser
  BY <1>1, <1>2, <1>3, AnswerKeeps DEF Posts!Middleware, Posts!AnswerOnly
<1>4. CASE j.user # NoUser
  <2>1. /\ job' = [job EXCEPT ![r] = j]
        /\ at' = [at EXCEPT ![r] = IF j.op = "create" THEN "save" ELSE "find"]
        /\ outcome' = [outcome EXCEPT ![r] = "none"]
        /\ UNCHANGED <<posts, wrote>>
    BY <1>1, <1>4 DEF Posts!Middleware
  <2>2. held' \subseteq BoardRequest
    BY <1>2 DEF Posts!Remember, Posts!Authors, Posts!BoardTypeOK
  <2>3. Posts!BoardTypeOK' /\ PostsWereWritten'
    BY <2>1, <2>2 DEF Posts!BoardTypeOK, PostsWereWritten, Posts!Exists
  <2>4. /\ \A q \in BoardRequest \ {r} : job'[q] = job[q] /\ at'[q] = at[q]
        /\ job'[r] = j /\ at'[r] = IF j.op = "create" THEN "save" ELSE "find"
    BY <2>1 DEF Posts!BoardTypeOK
  <2>5. \A q \in BoardRequest \ {r} : q \in held /\ at[q] # "none" => q \in held'
    BY <1>2, <2>4 DEF Posts!Remember, JobsWereChecked
  <2>6. j \in Posts!Job /\ j # Posts!NoJob
        /\ (j.op \in {"update", "delete", "read"} => j.id \in Id)
    BY <1>1 DEF Posts!Job
  <2>7. JobsWereChecked'
    BY <1>4, <2>4, <2>5, <2>6 DEF JobsWereChecked
  <2> QED BY <2>3, <2>7
<1> QED BY <1>3, <1>4

(* A request that goes on answers, with a write or without, or has found its *)
(* user to be the author.                                                    *)
LEMMA ContinueForms ==
    ASSUME BoardInv, NEW r \in BoardRequest, Posts!BoardContinue(r)
    PROVE  /\ at[r] # "none" /\ Posts!Remember
           /\ \/ /\ Posts!Write(r)
                 /\ Posts!Answer(r, "ok") \/ Posts!Answer(r, "failed")
              \/ /\ UNCHANGED <<posts, wrote>>
                 /\ \E how \in {"ok", "refused", "failed"} : Posts!Answer(r, how)
              \/ /\ at[r] = "find" /\ UNCHANGED <<posts, wrote>>
                 /\ \E what \in {"update", "delete"} :
                      /\ Posts!Await(r, what) /\ job[r].op = what
                      /\ posts[job[r].id].author = job[r].user
<1>1. CASE Posts!Found(r)
  <2>1. CASE \E how \in {"ok", "refused", "failed"} : Posts!AnswerOnly(r, how)
    BY <1>1, <2>1 DEF Posts!Found, Posts!AnswerOnly, Posts!BoardContinue
  <2>2. CASE /\ job[r].op \in {"update", "delete"}
             /\ posts[job[r].id].author = job[r].user /\ Posts!Await(r, job[r].op)
    BY <1>1, <2>2 DEF Posts!Found, Posts!Await, Posts!BoardContinue
  <2> QED BY <1>1, <2>1, <2>2 DEF Posts!Found
<1>2. CASE Posts!Written(r)
  BY <1>2 DEF Posts!Written, Posts!Write, Posts!BoardContinue
<1>3. CASE Posts!UpdatedNothing(r)
  BY <1>3 DEF Posts!UpdatedNothing, Posts!AnswerOnly, Posts!BoardContinue
<1>4. CASE Posts!Rejected(r)
  BY <1>4 DEF Posts!Rejected, Posts!BoardContinue
<1> QED BY <1>1, <1>2, <1>3, <1>4 DEF Posts!BoardContinue

LEMMA BoardNextKeeps == BoardInv /\ [Posts!BoardNext]_boardVars => BoardInv'
<1>1. BoardInv /\ UNCHANGED boardVars => BoardInv'
  BY DEF boardVars, BoardInv, Posts!BoardTypeOK, PostsWereWritten, JobsWereChecked,
         Posts!Exists
<1>2. ASSUME BoardInv, NEW r \in BoardRequest, Posts!BoardContinue(r) PROVE BoardInv'
  <2>1. CASE \E how \in {"ok", "refused", "failed"} :
               Posts!Answer(r, how) /\ (Posts!Write(r) \/ UNCHANGED <<posts, wrote>>)
    BY <1>2, <2>1, ContinueForms, AnswerKeeps
  <2>2. CASE /\ at[r] = "find"
             /\ \E what \in {"update", "delete"} :
                  /\ Posts!Await(r, what) /\ job[r].op = what
                  /\ posts[job[r].id].author = job[r].user
    BY <1>2, <2>2, ContinueForms, AwaitKeeps
  <2> QED BY <1>2, <2>1, <2>2, ContinueForms
<1> QED BY <1>1, <1>2, ArriveKeeps DEF Posts!BoardNext

LEMMA BoardInitKeeps == Posts!BoardInit => BoardInv
BY NoJobIsNone
   DEF Posts!BoardInit, BoardInv, Posts!BoardTypeOK, PostsWereWritten, JobsWereChecked,
       Posts!Absent, Posts!Exists

(* The documents and the requests of the board-service keep their types. *)
THEOREM BoardTypeCorrect == Posts!Spec => []Posts!BoardTypeOK
BY BoardInitKeeps, BoardNextKeeps, PTL
   DEF Posts!Spec, boardVars, Posts!boardVars, BoardInv

--------------------------------------------------------------------------------
(* Only a write that answers changes a document, and it changes one. *)
LEMMA ChangeIsAWrite ==
    ASSUME BoardInv, Posts!BoardNext, NEW i \in Id, posts'[i] # posts[i]
    PROVE  \E r \in BoardRequest :
             /\ job[r] # Posts!NoJob /\ job'[r] = Posts!NoJob /\ outcome'[r] # "refused"
             /\ \/ /\ job[r].op = "create" /\ ~Posts!Exists(i)
                   /\ posts'[i].author = job[r].user
                   /\ wrote[i] = {} \/ job[r].id = i
                \/ /\ job[r].op \in {"update", "delete"} /\ job[r].id = i
                   /\ r \in held
                   /\ Posts!Exists(i) \/ posts'[i] = Posts!Absent
<1> USE DEF BoardInv
<1>1. PICK r \in BoardRequest :
         /\ Posts!Write(r)
         /\ Posts!Answer(r, "ok") \/ Posts!Answer(r, "failed")
  <2>1. ASSUME NEW r \in BoardRequest, NEW user, Posts!Arrive(r, user)
        PROVE  UNCHANGED posts
    BY <2>1 DEF Posts!Arrive, Posts!Middleware, Posts!AnswerOnly
  <2> QED BY <2>1, ContinueForms DEF Posts!BoardNext
<1>2. PICK k \in Id, d \in [author : User \cup {NoUser}, text : Text \cup {NoText}] :
         /\ Posts!Store(r, k, d)
         /\ \/ /\ at[r] = "save" /\ ~Posts!Exists(k)
               /\ d.author = job[r].user
               /\ wrote[k] = {} \/ job[r].id = k
            \/ /\ at[r] = "update" /\ job[r].id = k /\ Posts!Exists(k)
            \/ /\ at[r] = "delete" /\ job[r].id = k /\ d = Posts!Absent
  BY <1>1, WriteStores
<1>3. k = i /\ posts'[i] = d
  BY <1>2 DEF Posts!Store, Posts!BoardTypeOK
<1>4. job[r] # Posts!NoJob /\ job'[r] = Posts!NoJob /\ outcome'[r] # "refused"
  BY <1>1, AwaitingIsAJob DEF Posts!Answer, Posts!BoardTypeOK, Posts!Write
<1>5. /\ at[r] = "save" => job[r].op = "create"
      /\ at[r] \in {"update", "delete"} => job[r].op = at[r] /\ r \in held
  BY DEF JobsWereChecked
<1> QED BY <1>2, <1>3, <1>4, <1>5

(* Only who was the author during his request changes or removes a post,     *)
(* however the requests interleave between the check and the write and       *)
(* whatever their bodies say.                                                *)
THEOREM WritersHeldThePost == Posts!Spec => Posts!WritersWereAuthors
<1>1. BoardInv /\ [Posts!BoardNext]_boardVars
        => [\A i \in Id : Posts!Exists(i) /\ posts'[i] # posts[i] =>
              \E r \in held :
                /\ job[r].op \in {"update", "delete"} /\ job[r].id = i
                /\ job'[r] = Posts!NoJob /\ outcome'[r] # "refused"]_boardVars
  BY ChangeIsAWrite
<1> QED BY <1>1, BoardInitKeeps, BoardNextKeeps, PTL
        DEF Posts!Spec, boardVars, Posts!boardVars, Posts!WritersWereAuthors

(* A removed post does not come back by a late update. *)
THEOREM RemovedStaysRemoved == Posts!Spec => Posts!NoRevival
<1>1. BoardInv /\ [Posts!BoardNext]_boardVars
        => [\A i \in Id : ~Posts!Exists(i) /\ Posts!Exists(i)' =>
              \E r \in BoardRequest :
                /\ job[r].op = "create" /\ job'[r] = Posts!NoJob
                /\ posts'[i].author = job[r].user
                /\ wrote[i] = {} \/ job[r].id = i]_boardVars
  <2> SUFFICES ASSUME BoardInv, Posts!BoardNext, NEW i \in Id,
                      ~Posts!Exists(i), Posts!Exists(i)'
               PROVE  \E r \in BoardRequest :
                        /\ job[r].op = "create" /\ job'[r] = Posts!NoJob
                        /\ posts'[i].author = job[r].user
                        /\ wrote[i] = {} \/ job[r].id = i
    OBVIOUS
  <2>1. posts'[i] # posts[i] /\ posts'[i] # Posts!Absent
    BY DEF Posts!Exists, Posts!Absent
  <2> QED BY <2>1, ChangeIsAWrite
<1> QED BY <1>1, BoardInitKeeps, BoardNextKeeps, PTL
        DEF Posts!Spec, boardVars, Posts!boardVars, Posts!NoRevival

--------------------------------------------------------------------------------
(* Both services.  Every step of the two is a step of one. *)
LEMMA StepIsOfOneService ==
    ASSUME SessionTypeOK, [Next]_vars
    PROVE  [SessionNext]_sessionVars /\ [Posts!BoardNext]_boardVars
<1>1. \A c \in Cookie : UserOf(c) \in User \cup {NoUser}
  BY DEF UserOf, Cookie, Issued, SessionTypeOK
<1>2. CASE BoardRequestArrives
  BY <1>1, <1>2 DEF BoardRequestArrives, Posts!BoardNext
<1> QED BY <1>2 DEF Next, vars, Posts!BoardNext

LEMMA ComposedInitKeeps == Init => SessionInv /\ BoardInv
BY SessionInitKeeps, BoardInitKeeps DEF Init

LEMMA ComposedNextKeeps ==
    SessionInv /\ BoardInv /\ [Next]_vars => SessionInv' /\ BoardInv'
BY StepIsOfOneService, SessionNextKeeps, BoardNextKeeps DEF SessionInv

(* Next to the board-service the sessions behave as MsaSessions says, so its *)
(* theorems hold of the two services together.                               *)
THEOREM ComposedSessions == Spec => SessionSpec
<1>1. SessionInv /\ BoardInv /\ [Next]_vars => [SessionNext]_sessionVars
  BY StepIsOfOneService DEF SessionInv
<1> QED BY <1>1, ComposedInitKeeps, ComposedNextKeeps, PTL DEF Spec, Init, SessionSpec

(* Next to the auth-service the board behaves as MsaBoard says, so its       *)
(* theorems hold of the two services together.                               *)
THEOREM ComposedBoard == Spec => Posts!Spec
<1>1. SessionInv /\ BoardInv /\ [Next]_vars => [Posts!BoardNext]_boardVars
  BY StepIsOfOneService DEF SessionInv
<1> QED BY <1>1, ComposedInitKeeps, ComposedNextKeeps, PTL
        DEF Spec, Init, Posts!Spec, boardVars, Posts!boardVars

--------------------------------------------------------------------------------
(* A login accepted the password of the registered user u. *)
Earned(u) == u \in users /\ \E s \in Sid : u \in proved[s]

JobsAreEarned == \A r \in BoardRequest : job[r].user # NoUser => Earned(job[r].user)

WritersInv == SessionInv /\ BoardInv /\ WritersLoggedIn /\ JobsAreEarned

(* Users stay registered and passwords stay accepted. *)
LEMMA SessionStepsRemember ==
    ASSUME SessionInv, [SessionNext]_sessionVars, NEW u, Earned(u)
    PROVE  Earned(u)'
<1>1. CASE UNCHANGED <<users, proved>>
  BY <1>1 DEF Earned
<1>2. ASSUME NEW r \in Request, UserSaved(r) PROVE Earned(u)'
  BY <1>2 DEF UserSaved, Earned
<1>3. ASSUME NEW r \in Request, Ended(r) PROVE Earned(u)'
  <2>1. \A s \in Sid : proved[s] \subseteq proved'[s]
    BY <1>3 DEF Ended, SessionInv, SessionTypeOK
  <2> QED BY <1>3, <2>1 DEF Earned, Ended
<1> QED BY <1>1, <1>2, <1>3
        DEF SessionNext, sessionVars, Register, Login, Logout, Me, Start, UserFound,
            Compared, Destroyed, MeFound, Failed, Expired

(* A board request has the user its session had, and writes for him.         *)
LEMMA BoardStepsStayEarned ==
    ASSUME WritersInv, NEW r \in BoardRequest, UNCHANGED sessionVars,
           \/ \E c \in Cookie : Posts!Arrive(r, UserOf(c))
           \/ Posts!BoardContinue(r)
    PROVE  WritersLoggedIn' /\ JobsAreEarned'
<1> USE NoJobIsNone DEF WritersInv
<1>0. \A u : Earned(u)' <=> Earned(u)
  BY DEF Earned, sessionVars
<1>1. ASSUME NEW c \in Cookie, Posts!Arrive(r, UserOf(c))
      PROVE  WritersLoggedIn' /\ JobsAreEarned'
  <2>1. UserOf(c) # NoUser => Earned(UserOf(c))
    BY DEF UserOf, Cookie, Issued, SessionInv, SessionsComeFromLogins, Earned
  <2>2. /\ \A q \in BoardRequest \ {r} : job'[q] = job[q]
        /\ job'[r].user \in {UserOf(c), NoUser}
        /\ UNCHANGED wrote
    BY <1>1 DEF Posts!Arrive, Posts!Middleware, Posts!AnswerOnly, Posts!Answer,
                BoardInv, Posts!BoardTypeOK
  <2>3. JobsAreEarned'
    BY <1>0, <2>1, <2>2 DEF JobsAreEarned
  <2>4. WritersLoggedIn'
    BY <2>2 DEF WritersLoggedIn, sessionVars
  <2> QED BY <2>3, <2>4
<1>2. CASE Posts!BoardContinue(r)
  <2>1. /\ \/ UNCHANGED wrote
           \/ /\ at[r] # "none"
              /\ \E i \in Id : wrote' = [wrote EXCEPT ![i] = @ \cup {job[r].user}]
        /\ job' = job \/ job' = [job EXCEPT ![r] = Posts!NoJob]
    <3>1. Posts!Write(r) => \E i \in Id :
             wrote' = [wrote EXCEPT ![i] = @ \cup {job[r].user}]
      BY WriteStores DEF Posts!Store
    <3> QED BY <1>2, <3>1, ContinueForms DEF Posts!Answer, Posts!Await
  <2>2. JobsAreEarned'
    BY <1>0, <2>1 DEF JobsAreEarned, BoardInv, Posts!BoardTypeOK
  <2>3. at[r] # "none" => Earned(job[r].user)
    BY AwaitingIsAJob, SessionAssumption DEF JobsAreEarned
  <2>4. \A i \in Id : \A u \in wrote[i] : Earned(u)
    BY DEF WritersLoggedIn, Earned
  <2>5. \A i \in Id : \A u \in wrote'[i] : Earned(u)
    BY <2>1, <2>3, <2>4 DEF BoardInv, Posts!BoardTypeOK
  <2>6. WritersLoggedIn'
    BY <1>0, <2>5 DEF WritersLoggedIn, Earned
  <2> QED BY <2>2, <2>6
<1> QED BY <1>1, <1>2

LEMMA WritersNextKeeps == WritersInv /\ [Next]_vars => WritersInv'
<1> SUFFICES ASSUME WritersInv, [Next]_vars PROVE WritersInv'
  OBVIOUS
<1>1. SessionInv' /\ BoardInv'
  BY ComposedNextKeeps DEF WritersInv
<1>2. CASE [SessionNext]_sessionVars /\ UNCHANGED boardVars
  <2>1. \A u : Earned(u) => Earned(u)'
    BY <1>2, SessionStepsRemember DEF WritersInv
  <2>2. JobsAreEarned'
    BY <1>2, <2>1 DEF WritersInv, JobsAreEarned, boardVars
  <2>3. WritersLoggedIn'
    BY <1>2, <2>1 DEF WritersInv, WritersLoggedIn, Earned, boardVars
  <2> QED BY <1>1, <2>2, <2>3 DEF WritersInv
<1>3. ASSUME NEW r \in BoardRequest, UNCHANGED sessionVars,
             \/ \E c \in Cookie : Posts!Arrive(r, UserOf(c))
             \/ Posts!BoardContinue(r)
      PROVE  WritersInv'
  BY <1>1, <1>3, BoardStepsStayEarned DEF WritersInv
<1> QED BY <1>2, <1>3 DEF Next, vars, BoardRequestArrives

(* Everybody who ever wrote a post is a registered user whose password a     *)
(* login accepted, for any number of requests to both services.              *)
THEOREM WritersAreUsers == Spec => []WritersLoggedIn
<1>1. Init => WritersInv
  BY ComposedInitKeeps, NoJobIsNone
     DEF Init, Posts!BoardInit, WritersInv, WritersLoggedIn, JobsAreEarned
<1> QED BY <1>1, WritersNextKeeps, PTL DEF Spec, WritersInv

--------------------------------------------------------------------------------
(* While a user is signed out, no step of the auth-service signs him in      *)
(* unless a login in his name starts.                                        *)
LEMMA SessionStepsLeaveOut ==
    ASSUME SessionInv, SessionNext, NEW u \in User,
           \A s \in Sid : store[s] # u, ~LoggingInFor(u)
    PROVE  \A s \in Sid : store'[s] # u
<1> USE SessionAssumption DEF SessionInv, SessionTypeOK
<1>1. ASSUME NEW r \in Request, Ended(r) PROVE \A s \in Sid : store'[s] # u
  BY <1>1 DEF Ended, LoggingInFor, LoginSteps
<1>2. ASSUME NEW r \in Request, Destroyed(r) PROVE \A s \in Sid : store'[s] # u
  BY <1>2 DEF Destroyed
<1>3. ASSUME NEW s \in Sid, Expired(s) PROVE \A t \in Sid : store'[t] # u
  BY <1>3 DEF Expired
<1>4. ASSUME NEW r \in Request, NEW c \in Cookie,
             \/ \E name \in User : Register(r, c, name)
             \/ \E name \in User, good \in BOOLEAN : Login(r, c, name, good)
             \/ Logout(r, c)
             \/ Me(r, c)
      PROVE  store' = store
  BY <1>4 DEF Register, Login, Logout, Me, Start
<1>5. ASSUME NEW r \in Request,
             UserSaved(r) \/ UserFound(r) \/ Compared(r) \/ MeFound(r) \/ Failed(r)
      PROVE  store' = store
  BY <1>5 DEF UserSaved, UserFound, Compared, MeFound, Failed
<1> QED BY <1>1, <1>2, <1>3, <1>4, <1>5 DEF SessionNext

(* A post is written by requests that passed the check on it, and a request  *)
(* passes it for its own user only.                                          *)
LEMMA BoardStepsLeaveAlone ==
    ASSUME BoardInv, Posts!BoardNext, NEW u \in User,
           \A q \in BoardRequest : job[q].user # u,
           NEW i \in Id, posts[i].author = u, ~Claimed(i)
    PROVE  posts'[i] = posts[i] /\ ~Claimed(i)'
<1> USE SessionAssumption, NoJobIsNone DEF BoardInv
<1>0. Posts!Exists(i)
  BY DEF PostsWereWritten
<1>1. ASSUME NEW r \in BoardRequest, Posts!BoardContinue(r), posts'[i] # posts[i]
      PROVE  FALSE
  <2>1. Posts!Write(r)
    BY <1>1, ContinueForms
  <2>2. PICK k \in Id, d \in [author : User \cup {NoUser}, text : Text \cup {NoText}] :
         /\ Posts!Store(r, k, d)
         /\ \/ ~Posts!Exists(k)
            \/ at[r] \in {"update", "delete"} /\ job[r].id = k
    BY <2>1, WriteStores
  <2>3. k = i
    BY <1>1, <2>2 DEF Posts!Store, Posts!BoardTypeOK
  <2> QED BY <1>0, <2>2, <2>3 DEF Claimed
<1>2. ASSUME NEW r \in BoardRequest, NEW user, Posts!Arrive(r, user)
      PROVE  UNCHANGED posts
  BY <1>2 DEF Posts!Arrive, Posts!Middleware, Posts!AnswerOnly
<1>3. posts'[i] = posts[i]
  BY <1>1, <1>2 DEF Posts!BoardNext
<1>4. ASSUME NEW r \in BoardRequest, Posts!BoardContinue(r) PROVE ~Claimed(i)'
  <2>1. CASE \E how \in {"ok", "refused", "failed"} : Posts!Answer(r, how)
    BY <2>1 DEF Posts!Answer, Claimed, Posts!BoardTypeOK
  <2>2. CASE /\ posts[job[r].id].author = job[r].user /\ at[r] = "find"
             /\ \E what \in {"update", "delete"} : Posts!Await(r, what)
    <3>1. job[r].id # i
      BY <2>2
    <3> QED BY <2>2, <3>1 DEF Posts!Await, Claimed, Posts!BoardTypeOK
  <2> QED BY <1>4, <2>1, <2>2, ContinueForms
<1>5. ASSUME NEW r \in BoardRequest, NEW user, Posts!Arrive(r, user)
      PROVE  ~Claimed(i)'
  <2>1. PICK j \in Posts!Job : Posts!Middleware(r, j)
    BY <1>5 DEF Posts!Arrive
  <2>2. /\ at'[r] \notin {"update", "delete"}
        /\ \A q \in BoardRequest \ {r} : job'[q] = job[q] /\ at'[q] = at[q]
    BY <2>1 DEF Posts!Middleware, Posts!AnswerOnly, Posts!Answer, Posts!BoardTypeOK
  <2> QED BY <2>2 DEF Claimed
<1> QED BY <1>3, <1>4, <1>5 DEF Posts!BoardNext

(* Nobody but a new board request with a session of u gets the user u. *)
LEMMA BoardStepsStayOut ==
    ASSUME BoardInv, NEW r \in BoardRequest, NEW u \in User,
           \A q \in BoardRequest : job[q].user # u,
           \/ Posts!BoardContinue(r)
           \/ \E user \in (User \cup {NoUser}) \ {u} : Posts!Arrive(r, user)
    PROVE  \A q \in BoardRequest : job'[q].user # u
<1> USE SessionAssumption, NoJobIsNone DEF BoardInv
<1>1. CASE Posts!BoardContinue(r)
  <2>1. job' = job \/ job' = [job EXCEPT ![r] = Posts!NoJob]
    BY <1>1, ContinueForms DEF Posts!Answer, Posts!Await
  <2> QED BY <2>1 DEF Posts!BoardTypeOK
<1>2. ASSUME NEW user \in (User \cup {NoUser}) \ {u}, Posts!Arrive(r, user)
      PROVE  \A q \in BoardRequest : job'[q].user # u
  <2>1. PICK j \in Posts!Job : j.user = user /\ Posts!Middleware(r, j)
    BY <1>2 DEF Posts!Arrive
  <2>2. job' = [job EXCEPT ![r] = j] \/ job' = [job EXCEPT ![r] = Posts!NoJob]
    BY <2>1 DEF Posts!Middleware, Posts!AnswerOnly, Posts!Answer
  <2> QED BY <2>1, <2>2 DEF Posts!BoardTypeOK
<1> QED BY <1>1, <1>2

LEMMA StepLeavesOut ==
    ASSUME SessionInv, BoardInv, Next, NEW u \in User,
           SignedOut(u), ~LoggingInFor(u)'
    PROVE  /\ SignedOut(u)'
           /\ \A i \in Id : posts[i].author = u /\ ~Claimed(i)
                              => posts'[i] = posts[i] /\ ~Claimed(i)'
<1>1. CASE SessionNext /\ UNCHANGED boardVars
  BY <1>1, SessionStepsLeaveOut DEF SignedOut, boardVars, Claimed
<1>2. ASSUME NEW r \in BoardRequest, UNCHANGED sessionVars,
             \/ \E c \in Cookie : Posts!Arrive(r, UserOf(c))
             \/ Posts!BoardContinue(r)
      PROVE  /\ SignedOut(u)'
             /\ \A i \in Id : posts[i].author = u /\ ~Claimed(i)
                                => posts'[i] = posts[i] /\ ~Claimed(i)'
  <2>1. \A c \in Cookie : UserOf(c) \in (User \cup {NoUser}) \ {u}
    BY SessionAssumption DEF UserOf, Cookie, Issued, SignedOut, SessionInv, SessionTypeOK
  <2>2. Posts!BoardNext
    BY <1>2, <2>1 DEF Posts!BoardNext
  <2>3. \A q \in BoardRequest : job'[q].user # u
    BY <1>2, <2>1, BoardStepsStayOut DEF SignedOut
  <2>4. SignedOut(u)'
    BY <1>2, <2>3 DEF SignedOut, sessionVars
  <2> QED BY <2>2, <2>4, BoardStepsLeaveAlone DEF SignedOut
<1> QED BY <1>1, <1>2 DEF Next, BoardRequestArrives

(* Whoever is signed out stays so until a login in his name, and meanwhile   *)
(* nobody newly passes the check on a post in his name, however many         *)
(* requests to both services overlap.                                        *)
THEOREM SignedOutIsOut == Spec => NothingWithoutSession
<1>1. SessionInv /\ BoardInv /\ [Next]_vars
        => [\A u \in User :
              SignedOut(u) /\ ~LoggingInFor(u)'
                => /\ SignedOut(u)'
                   /\ \A i \in Id : posts[i].author = u /\ ~Claimed(i)
                                     => posts'[i] = posts[i] /\ ~Claimed(i)']_vars
  BY StepLeavesOut
<1> QED BY <1>1, ComposedInitKeeps, ComposedNextKeeps, PTL
        DEF Spec, NothingWithoutSession
================================================================================
