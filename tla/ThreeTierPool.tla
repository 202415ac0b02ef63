----------------------------- MODULE ThreeTierPool -----------------------------
(***************************************************************************)
(* aws-3-tier-architecture-example/app.js: an Express server whose routes  *)
(* share a pool of MySQL connections.                                      *)
(*                                                                         *)
(* /save and /db-status take a connection, run a statement and release the *)
(* connection, but not when the statement is rejected; only initDB         *)
(* releases in a finally.  The server listens before initDB is done.       *)
(*                                                                         *)
(* External, from how app.js uses it: the pool of mysql2, which opens at   *)
(* most connectionLimit connections and lets further requests wait in      *)
(* order; MySQL, which rejects a statement, ends a connection, or ends an  *)
(* idle one; pm2, which starts the process again when it ends.             *)
(***************************************************************************)
EXTENDS Integers, Sequences, FiniteSets

CONSTANTS
    Request,       \* requests that can be under way at the same time
    Limit,         \* connectionLimit of the pool
    MaxPoolFaults  \* bound: connections that fail and processes that end

ASSUME PoolAssumption ==
    IsFiniteSet(Request) /\ Limit \in Nat \ {0} /\ MaxPoolFaults \in Nat

VARIABLES
    initAt,      \* what initDB awaits
    table,       \* the table test exists
    ask,         \* the last request: db-status, or the content to save
    at,          \* what its handler awaits
    answer,      \* what it was answered
    row,         \* its row is in the table
    open,        \* how many connections the pool has
    free,        \* how many of them are free
    waiting,     \* the handlers that wait for one, in order
    unreleased,  \* history: connections no handler will release
    poolFaults   \* faults so far

processVars == <<initAt, at, answer, open, free, waiting, unreleased>>
databaseVars == <<table, row>>
poolVars == <<processVars, databaseVars, ask, poolFaults>>

Content == {"empty", "fits", "long"}
Busy == {r \in Request : at[r] \in {"connect", "statement"}}

(* The process starts: initDB opens the first connection. *)
Start ==
    /\ initAt' = "connect"
    /\ at' = [r \in Request |-> "none"]
    /\ answer' = [r \in Request |-> IF at[r] = "none" THEN answer[r] ELSE "lost"]
    /\ open' = 1 /\ free' = 0 /\ waiting' = <<>> /\ unreleased' = 0

PoolInit ==
    /\ initAt = "connect"
    /\ table \in BOOLEAN
    /\ ask = [r \in Request |-> "none"]
    /\ at = [r \in Request |-> "none"]
    /\ answer = [r \in Request |-> "none"]
    /\ row = [r \in Request |-> FALSE]
    /\ open = 1 /\ free = 0 /\ waiting = <<>> /\ unreleased = 0
    /\ poolFaults = 0

Fault == poolFaults < MaxPoolFaults /\ poolFaults' = poolFaults + 1

--------------------------------------------------------------------------------
(* The pool. *)

(* Mutant: one connection more than the limit. *)
GetConnectionAnyway(r) ==
    \/ /\ free > 0
       /\ free' = free - 1
       /\ at' = [at EXCEPT ![r] = "statement"]
       /\ UNCHANGED <<open, waiting>>
    \/ /\ free = 0 /\ open <= Limit
       /\ open' = open + 1
       /\ at' = [at EXCEPT ![r] = "connect"]
       /\ UNCHANGED <<free, waiting>>

(* pool.getConnection() for r. *)
GetConnection(r) ==
    \/ /\ free > 0
       /\ free' = free - 1
       /\ at' = [at EXCEPT ![r] = "statement"]
       /\ UNCHANGED <<open, waiting>>
    \/ /\ free = 0 /\ open < Limit
       /\ open' = open + 1
       /\ at' = [at EXCEPT ![r] = "connect"]
       /\ UNCHANGED <<free, waiting>>
    \/ /\ free = 0 /\ open = Limit
       /\ waiting' = Append(waiting, r)
       /\ at' = [at EXCEPT ![r] = "waiting"]
       /\ UNCHANGED <<open, free>>

(* The handlers in done have returned; the first one that waits, if any, *)
(* goes on to next.                                                      *)
Pass(done, next) ==
    /\ at' = [r \in Request |->
                IF waiting # <<>> /\ r = Head(waiting) THEN next
                ELSE IF r \in done THEN "none" ELSE at[r]]
    /\ waiting' = IF waiting = <<>> THEN <<>> ELSE Tail(waiting)

(* Mutant: the connection is free although a handler waits. *)
ReleaseToPool(done) ==
    /\ at' = [r \in Request |-> IF r \in done THEN "none" ELSE at[r]]
    /\ free' = free + 1
    /\ UNCHANGED <<open, waiting>>

(* conn.release(): a handler that waits gets the connection. *)
Release(done) ==
    /\ Pass(done, "statement")
    /\ free' = IF waiting = <<>> THEN free + 1 ELSE free
    /\ UNCHANGED open

(* A connection ends and leaves the pool: a handler that waits may open one. *)
Remove(done) ==
    /\ Pass(done, "connect")
    /\ open' = IF waiting = <<>> THEN open - 1 ELSE open
    /\ UNCHANGED free

--------------------------------------------------------------------------------
(* initDB. *)

InitConnected ==
    /\ initAt = "connect"
    /\ initAt' = "query"
    /\ UNCHANGED <<at, answer, open, free, waiting, unreleased>>
    /\ UNCHANGED <<databaseVars, ask, poolFaults>>

(* Mutant: initDB does not release its connection. *)
TableReadyNoFinally ==
    /\ initAt = "query"
    /\ initAt' = "done" /\ table' = TRUE
    /\ UNCHANGED <<at, open, free, waiting, answer, unreleased, row, ask, poolFaults>>

(* CREATE TABLE IF NOT EXISTS, and the finally. *)
TableReady ==
    /\ initAt = "query"
    /\ initAt' = "done" /\ table' = TRUE
    /\ Release({})
    /\ UNCHANGED <<answer, unreleased, row, ask, poolFaults>>

(* initDB rejects and nobody catches it, or the process ends otherwise; *)
(* statements under way may still be executed.                          *)
ProcessRestarts ==
    /\ Fault
    /\ Start
    /\ table' \in {table, table \/ initAt = "query"}
    /\ \E done \in SUBSET {r \in Request : at[r] = "statement" /\ ask[r] = "fits"} :
         /\ done # {} => table
         /\ row' = [r \in Request |-> row[r] \/ r \in done]
    /\ UNCHANGED ask

--------------------------------------------------------------------------------
(* GET /db-status and POST /save. *)

(* A request arrives; without content it is answered at once. *)
Arrive(r) ==
    /\ at[r] = "none"
    /\ \E what \in Content \cup {"status"} :
        /\ ask' = [ask EXCEPT ![r] = what]
        /\ row' = [row EXCEPT ![r] = FALSE]
        /\ IF what = "empty"
             THEN /\ answer' = [answer EXCEPT ![r] = "error"]
                  /\ UNCHANGED <<at, open, free, waiting>>
             ELSE /\ answer' = [answer EXCEPT ![r] = "none"]
                  /\ GetConnection(r)
    /\ UNCHANGED <<initAt, table, unreleased, poolFaults>>

Connected(r) ==
    /\ at[r] = "connect"
    /\ at' = [at EXCEPT ![r] = "statement"]
    /\ UNCHANGED <<initAt, answer, open, free, waiting, unreleased>>
    /\ UNCHANGED <<databaseVars, ask, poolFaults>>

(* getConnection rejects. *)
ConnectFails(r) ==
    /\ at[r] = "connect"
    /\ Fault
    /\ Remove({r})
    /\ answer' = [answer EXCEPT ![r] = "error"]
    /\ UNCHANGED <<initAt, databaseVars, ask, unreleased>>

(* MySQL rejects the statement: content is longer than 255 characters (in *)
(* the strict mode that is the default), or there is no table yet.       *)
Rejects(r) == ask[r] = "long" \/ (ask[r] = "fits" /\ ~table)

(* Mutant: the statement is sent and not awaited. *)
ExecuteUnawaited(r) ==
    /\ at[r] = "statement"
    /\ row' \in {row, [row EXCEPT ![r] = (ask[r] = "fits" /\ table)]}
    /\ Release({r})
    /\ answer' = [answer EXCEPT ![r] = "ok"]
    /\ UNCHANGED <<initAt, table, ask, unreleased, poolFaults>>

(* Mutant: the handler answers before it comes to conn.release(). *)
ExecuteUnreleased(r) ==
    /\ at[r] = "statement"
    /\ ~Rejects(r)
    /\ row' = [row EXCEPT ![r] = (ask[r] = "fits")]
    /\ at' = [at EXCEPT ![r] = "none"]
    /\ answer' = [answer EXCEPT ![r] = "ok"]
    /\ UNCHANGED <<initAt, table, ask, open, free, waiting, unreleased, poolFaults>>

Execute(r) ==
    /\ at[r] = "statement"
    /\ ~Rejects(r)
    /\ row' = [row EXCEPT ![r] = (ask[r] = "fits")]
    /\ Release({r})
    /\ answer' = [answer EXCEPT ![r] = "ok"]
    /\ UNCHANGED <<initAt, table, ask, unreleased, poolFaults>>

(* The catch answers, and the connection is not released. *)
Reject(r) ==
    /\ at[r] = "statement"
    /\ Rejects(r)
    /\ at' = [at EXCEPT ![r] = "none"]
    /\ unreleased' = unreleased + 1
    /\ answer' = [answer EXCEPT ![r] = "error"]
    /\ UNCHANGED <<initAt, databaseVars, ask, open, free, waiting, poolFaults>>

(* The connection ends under the statement, which may have been executed. *)
ConnectionLost(r) ==
    /\ at[r] = "statement"
    /\ Fault
    /\ row' \in {row, [row EXCEPT ![r] = (ask[r] = "fits" /\ table)]}
    /\ Remove({r})
    /\ answer' = [answer EXCEPT ![r] = "error"]
    /\ UNCHANGED <<initAt, table, ask, unreleased>>

(* MySQL ends a connection that is free, or that nobody released. *)
IdleConnectionEnds ==
    /\ Fault
    /\ \/ /\ free > 0
          /\ free' = free - 1 /\ open' = open - 1
          /\ UNCHANGED <<at, waiting, unreleased>>
       \/ /\ unreleased > 0
          /\ unreleased' = unreleased - 1
          /\ Remove({})
    /\ UNCHANGED <<initAt, answer, databaseVars, ask>>

PoolNext ==
    \/ InitConnected \/ TableReady \/ ProcessRestarts \/ IdleConnectionEnds
    \/ \E r \in Request :
        \/ Arrive(r) \/ Connected(r) \/ ConnectFails(r)
        \/ Execute(r) \/ Reject(r) \/ ConnectionLost(r)

(* The database answers. *)
PoolFairness ==
    /\ WF_poolVars(InitConnected) /\ WF_poolVars(TableReady)
    /\ \A r \in Request :
         WF_poolVars(Connected(r)) /\ WF_poolVars(Execute(r)) /\ WF_poolVars(Reject(r))

PoolSpec == PoolInit /\ [][PoolNext]_poolVars /\ PoolFairness

--------------------------------------------------------------------------------
PoolTypeOK ==
    /\ initAt \in {"connect", "query", "done"}
    /\ table \in BOOLEAN /\ row \in [Request -> BOOLEAN]
    /\ ask \in [Request -> Content \cup {"none", "status"}]
    /\ at \in [Request -> {"none", "waiting", "connect", "statement"}]
    /\ answer \in [Request -> {"none", "ok", "error", "lost"}]
    /\ open \in 0 .. Limit /\ free \in 0 .. Limit /\ unreleased \in 0 .. Limit
    /\ waiting \in Seq(Request)
    /\ poolFaults \in 0 .. MaxPoolFaults

(* Every connection of the pool is free, is used by initDB or by one handler *)
(* that will release it, or was left behind by a rejected statement: nothing *)
(* else costs the pool a connection, whatever fails, and no connection       *)
(* serves two.                                                               *)
PoolIsAccounted ==
    open = free + Cardinality(Busy) + unreleased + (IF initAt = "done" THEN 0 ELSE 1)

(* Who waits for a connection waits behind a handler or initDB that has one   *)
(* and will release it, unless rejected statements have left all of them      *)
(* behind: no other way of app.js to end a connection's use leaves a queue    *)
(* that nobody will ever serve.                                               *)
SomebodyWillRelease ==
    waiting # <<>> /\ unreleased < Limit => Busy # {} \/ initAt # "done"

(* "success: true" is true, whatever the connections do meanwhile. *)
SuccessMeansSaved ==
    \A r \in Request : answer[r] = "ok" /\ ask[r] = "fits" => row[r]

(* A request is answered, or all connections are left behind: one that can *)
(* still be released is enough for everybody who waits.                    *)
Answered ==
    \A r \in Request : at[r] # "none" ~> (at[r] = "none" \/ unreleased = Limit)
================================================================================
