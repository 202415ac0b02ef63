---------------------------------- MODULE Msa ----------------------------------
(***************************************************************************)
(* msa-example-1: the auth-service and the board-service, which meet only  *)
(* in Redis.  A request to the board-service runs for the user whose id is *)
(* in the session at the moment it is loaded, whatever the auth-service    *)
(* does with the session afterwards.                                       *)
(***************************************************************************)
EXTENDS MsaSessions

CONSTANTS
    BoardRequest,  \* requests the board-service handles at the same time
    Id, NoId,      \* posts
    Text, NoText,  \* title and content
    Kept           \* a body without authorId

ASSUME MsaAssumption ==
    NoId \notin Id /\ NoText \notin Text /\ Kept \notin User \cup {NoUser}

VARIABLES posts, job, at, outcome, wrote, held   \* MsaBoard

Posts == INSTANCE MsaBoard WITH Request <- BoardRequest

boardVars == <<posts, job, at, outcome, wrote, held>>
vars == <<sessionVars, boardVars>>

Init == SessionInit /\ Posts!BoardInit

(* The session middleware of the board-service. *)
UserOf(c) == IF c = NoSid THEN NoUser ELSE store[c]

BoardRequestArrives ==
    \E r \in BoardRequest, c \in Cookie :
        Posts!Arrive(r, UserOf(c)) /\ UNCHANGED sessionVars

Next ==
    \/ SessionNext /\ UNCHANGED boardVars
    \/ BoardRequestArrives
    \/ \E r \in BoardRequest : Posts!BoardContinue(r) /\ UNCHANGED sessionVars

Spec == Init /\ [][Next]_vars

--------------------------------------------------------------------------------
(* Whatever a post says of its author, everybody who ever wrote it is a       *)
(* registered user whose password a login accepted: no overlap of logins,      *)
(* logouts, expiry and board requests lets anybody else write.                 *)
WritersLoggedIn ==
    \A i \in Id : \A u \in wrote[i] : u \in users /\ \E s \in Sid : u \in proved[s]

(* A login in the name of u, or that found a session of u, is under way. *)
LoggingInFor(u) ==
    \E r \in Request : call[r].at \in LoginSteps /\ u \in {call[r].name, call[r].userId}

(* Nothing is left that acts for u: no session, no login, no board request. *)
SignedOut(u) ==
    /\ \A s \in Sid : store[s] # u
    /\ ~LoggingInFor(u)
    /\ \A r \in BoardRequest : job[r].user # u

(* A request passed the check on i and has not written yet. *)
Claimed(i) == \E r \in BoardRequest : at[r] \in {"update", "delete"} /\ job[r].id = i

(* A user who is signed out stays so until somebody logs in in his name.     *)
(* Meanwhile a post in his name may still be written by a request that       *)
(* passed the check before, when the post was another user's; once there is  *)
(* none, nobody gets past the check and the post stays as it is.             *)
NothingWithoutSession ==
    [][\A u \in User :
         SignedOut(u) /\ ~LoggingInFor(u)'
            => /\ SignedOut(u)'
               /\ \A i \in Id : posts[i].author = u /\ ~Claimed(i)
                               => posts'[i] = posts[i] /\ ~Claimed(i)']_vars
================================================================================
