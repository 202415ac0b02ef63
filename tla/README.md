# TLA+ models of the blog example programs

The repository is a collection of small programs that illustrate blog articles.
They have no code in common, but several of them are complete little distributed
systems: a serverless bulletin board, an AppSync bulletin board, two NestJS
services that share sessions, a Kubernetes operator, an SQS consumer, a
three-tier web server, a Flink job and an image CDN at the edge. This directory
models the ones whose own logic meets concurrency, failures or retries, checks
them with TLC and proves the most important properties with TLAPS for every value
of the constants.

All paths below are relative to the repository's root.

- [1. Inventory](#1-inventory)
- [2. Modules and how they correspond to the code](#2-modules-and-how-they-correspond-to-the-code)
- [3. Runs: what is checked, with which bounds](#3-runs-what-is-checked-with-which-bounds)
- [4. Fairness and deadlock](#4-fairness-and-deadlock)
- [5. Proofs](#5-proofs)
- [6. Where code and documentation disagree](#6-where-code-and-documentation-disagree)
- [7. Assumptions about the environment](#7-assumptions-about-the-environment)
- [8. Not modelled, and why](#8-not-modelled-and-why)
- [9. Plan](#9-plan)
- [10. Running](#10-running)

## 1. Inventory

| component | state | operations | interacts with | what is hard | what makes it correct |
|---|---|---|---|---|---|
| Serverless board, post handlers (`aws-lambda-example/backend/functions/post`) | DynamoDB tables `Posts` and `Counter` | createPost, getPost, getPosts, updatePost, deletePost | DynamoDB through the AWS SDK, which sends a command again when the connection breaks; API Gateway's JWT authorizer | check and write are two commands; none of the writes has a condition; a read may lag; a late copy of a command lands after other handlers went on; an invocation is ended after 10 s with its write under way | only the author of an id ever writes it; ids are never reused; a post nobody deleted is intact |
| Serverless board, account handlers (`.../functions/auth`) | none (Cognito keeps users and tokens) | signUp, confirm, login, refresh, logout, myInfo | Cognito, the browser's cookie | a refresh that overlaps a logout; Cognito refuses a token the authorizer accepts | a logout ends every session of its user |
| Serverless board, frontend (`aws-lambda-example/frontend/src/App.tsx`) | module variable `accessToken`, React state `user`; the browser's cookie `refreshToken` | login, logout, fetchWithAuth, tryRefresh | the two above | several tabs share one cookie; overlapping refreshes; an answer that arrives after a logout or a reload | the page acts as the user it shows; nobody with a live session is asked to log in again; every call ends |
| AppSync resolvers (`aws-appsync-example/functions`) | one DynamoDB table | createPost, getPost, listPosts, updatePost, deletePost | AppSync, DynamoDB with conditional writes | update and delete of one item overlap; an error after the effect; a get may lag | writes are linearizable and a get misses only what is news: implements `PostBoard` |
| MSA auth-service (`msa-example-1/auth-service`) | users in Mongo, sessions in Redis | register, login, logout, me | board-service through the sessions in Redis | every request works on a copy of its session and may save it at its end | a session acts only for who proved his password on it; a logout is final |
| MSA board-service (`msa-example-1/board-service`) | posts in Mongo | create, findAll, findOne, update, remove behind SessionAuthMiddleware | auth-service through Redis | the author is compared in one call and the write by id is another; a body may name `_id` and `authorId` | only who was the author while his request was under way changes or removes a post; a removed post does not come back by an update; nothing is done for a user who is signed out |
| MyCRD operator (`k8s-operator-example/go-operator`) | the MyCRD object and its Deployment at the API server; informer caches, work queue | Reconcile: read, default, create or update, write status | API server, garbage collector, Deployment controller, users, other controllers | stale caches, lost answers, conflicts, restarts, other writers, foreground deletion | converges to the desired Deployment and status; never takes a Deployment of another controller; orphans are collected |
| SQS consumer and producer (`aws-sqs-sns-example`) | the queue, the batch of each consumer | send, receive a batch, handle, delete | SQS, SNS, sqs-consumer | visibility timeout against a slow handler, one failing message of a batch, a stop with a batch under way | no message is lost, good ones are deleted in the end, poisoned ones never are |
| Three-tier web server (`aws-3-tier-architecture-example/app.js`) | the pool of MySQL connections, table `test` | initDB, `/save`, `/db-status` (`/`, `/info`: files) | MySQL, pm2 | rejected statements, lost connections, the pool at its limit, restarts | every connection is accounted for; who waits waits behind somebody who will release; "success" is true |
| Flink job (`flink-bounded-out-of-order-example`) | the highest event time, the last watermark, the channel, the open windows | emit, periodic watermark, process an element or a watermark, fire a timer | Flink | events around the watermark, in the source, in the channel and in the operator at once | an event that is late by no more than the bound is always counted; every other one is in one result or in the side output; windows close in order |
| Image CDN worker (`cloudflare-image-cdn-example`) | the edge cache, the R2 bucket | `/raw/`, `/img/`: cache lookup, a fetch of its own `/raw/` through the resizer, store after the answer | R2, Cloudflare's cache and resizer | a HEAD and a GET share a URL; an error would be cached for a year; the bucket changes; the put runs after the answer; `/raw/` itself may be cached for a year | what is cached is the whole image its URL names; an answer of `/raw/` is true of some moment of the request, one of `/img/` of some answer of `/raw/` |
| Deployment pipelines (`aws-codedeploy-example`, `terraform-ci-cd`, others) | an S3 key, a plan artifact, a branch | CI workflows | GitHub, AWS | overlapping runs | what is deployed is what was built or approved |
| Container web service on DynamoDB, sample servers of the Kubernetes demos, manifests, operator scaffold | none of interest | | | | |

`PROJECT.json` lists, under `hazards`, each place in the code where one of these
hard behaviours bites, and the property that would notice.

## 2. Modules and how they correspond to the code

| module | models | its state and where that lives in the code |
|---|---|---|
| `LambdaBoard` | the post handlers of the serverless board | `table`, `counter`: DynamoDB; `past`: versions a replica that lags still has; `awaiting[r]`: the command the invocation `r` awaits, with its local variables; `stray`: copies of commands still on their way |
| `LambdaBoardProofs` | its theorems | |
| `PostBoard` | abstract: what a board promises (no code) | `post`, `job`, `outcome`; `news`: what a read may miss |
| `AppSyncBoard` | the resolvers | `table`; `lagging`: ids some replica lags behind on; `ctx[r]`: the resolver's context; `operation[r]`: the request the request function returned |
| `AppSyncBoardProofs` | its type and that it implements `PostBoard` | |
| `FrontendSession` | the frontend in the tabs of a browser, the handlers login, refresh, logout and myInfo, the authorizer, Cognito | `accessToken[t]`, `user[t]`: `App.tsx` in tab `t`; `cookie`: the browser; `opened`, `issued`, `expired`, `revoked`: Cognito's sessions and access tokens; `flow[f]`: the request an async function of the page awaits |
| `FrontendSessionProofs` | its theorems | |
| `MsaSessions` | auth-service and express-session of both services | `users`: Mongo; `store`: Redis; `call[r]`: the request with its copy of the session |
| `MsaBoard` | board-service | `posts`: Mongo; `job[r]`, `at[r]`: the request and what it awaits; `wrote`, `held`: history |
| `Msa` | both services composed | the variables of both |
| `MsaProofs` | theorems about the sessions, about the board and about the two together | |
| `MyCRDOperator` | Reconcile, its caches, watches and queue, and the cluster around it | `cr`, `dep`: API server; `crCache`, `depCache`, `crWatch`, `depWatch`: informers; `pc`, `my`, `read`: Reconcile's locals |
| `MyCRDOperatorProofs` | its theorems | |
| `SqsConsumer` | producer, queue, consumers | `queue[m]`; `batch[c][m]`: how far consumer `c` is with `m` |
| `ThreeTierPool` | app.js, the pool, MySQL, pm2 | `initAt`, `at[r]`: what initDB and the handlers await; `open`, `free`, `waiting`: the pool |
| `SqsAndPoolProofs` | theorems about `SqsConsumer` and about `ThreeTierPool`, which have nothing in common; it extends both, whose names are disjoint | |
| `EventWindows` | abstract: what windows of event time promise (no code) | `stream`, `printed`, `late` |
| `FlinkWindows` | the job | `maxTimestamp`, `sent`: the watermark generator; `channel`: between the tasks; `currentWatermark`, `pending`: the window operator; `printed`, `late`: the sinks |
| `FlinkWindowsProofs` | its theorems, and that it implements `EventWindows` | |
| `ImageCdn` | the worker, the bucket, the caches | `bucket`: R2; `cache`: `caches.default`; `copies`: what `/raw/` has answered with, any of which a cache may still have; `ask[r]`, `at[r]`, `response[r]`, `answer[r]`: a request, what it awaits and its locals |
| `ImageCdnProofs` | its theorems | |
| `MC*` | symmetry and values for TLC | |

An **action** is the code between two awaits: Node.js runs it without interruption.
An action whose name is a past participle (`Created`, `Checked`, `Updated`,
`Compared`, `Found`) is the external call taking effect *and* the continuation of
the handler after its await. That merges the moment of the effect with the moment
of the answer; nothing another request can see lies between the two, and where an
answer can be lost after the effect there is an action for it (`SendAgain`,
`TimesOut`, `RespondError`, `Rejected`, `CallFails`, `ConnectionLost`).

In detail:

- **`LambdaBoard`.** `CreatePost`, `UpdatePost`, `DeletePost` and `GetPost` are the
  synchronous beginnings (parsing, validation, 400, 401, 500). `GotNextId` is
  getNextId's atomic `SET value = if_not_exists(value, 0) + 1`; `Created` the
  PutItem; `Checked` the GetItem with the 404 and 403 of updatePost and deletePost;
  `Updated`, `Deleted`, `Got` the last commands. No GetCommand of the handlers asks for
  `ConsistentRead` (`updatePost.ts:19-22`, `deletePost.ts:16-19`, `getPost.ts`), so `Checked`
  and `Got` may see any version of the row that was replaced and that some replica still has
  (`Versions`), until `CatchUp`. `SendAgain` is the SDK's retry: a
  copy of the command joins `stray` and takes effect later (`StrayTakesEffect`) or
  never (`StrayIsLost`). `SendFails` is the catch of every handler; `TimesOut` the
  10-second limit of `serverless.yaml`. `title` and `content` are always validated,
  written and returned together and are one value.
- **`AppSyncBoard`.** One action per request function and per case of the response
  functions. A put, update or delete of DynamoDB with its condition is one atomic
  step (`Effect`). The get of getPost is not consistent: `RespondGet` may miss that an item
  appeared or was removed while it is `lagging`. The content it returns is not modelled.
  `owner` and `minted` are history.
- **`FrontendSession`.** A flow is one call of `login`, `logout`, `tryRefresh` or
  `fetchWithAuth`. Each of its requests is *sent* (`Login`, `Logout`, `Call`, `Load`, or
  the script going on), *answered* by a handler (`LoginHandler`, `RefreshHandler`,
  `LogoutHandler`, `CallHandler`, `MyInfoHandler`), *arrived* in the browser, which
  applies the Set-Cookie before any script sees the answer (`Arrives`), and *continued*
  by the script (`LoggedIn`, `LoggedOut`, `Fetched`, `Refreshed`). The cookie a request
  carries is the one of the moment it is sent. `Load` is a page that is loaded or loaded
  again: the variables start anew, requests under way are still handled but answered to
  nobody. `Breaks` and `HandlerFails` are the failures. The handlers of the posts are
  `LambdaBoard`'s subject and are one answer here. `LoginsAlone` is a bound: with it a
  user logs in only while none of his page's other calls is under way, and nothing else
  starts until the login has ended.
- **`MsaSessions`.** `Loaded` is what express-session does with a cookie; `Start` the
  beginning of each route; `Compared` sets `session.userId`; `Ended` is
  express-session's save at the end of a response (`resave: false`,
  `saveUninitialized: false`: only a changed session is written); `Destroyed` is
  `session.destroy`. Any number of requests of one browser or several may use the
  same cookie at once.
- **`MsaBoard`.** `Middleware` is SessionAuthMiddleware; `Found` is `find` and `findById` with
  the 404 and 403; `Written` is the last call; `UpdatedNothing` is the `null` of
  `findByIdAndUpdate`. `main.ts` installs no ValidationPipe and the DTOs have no validators,
  so a body is what the client sends: `Insert` takes its `_id` from the body if there is one
  (`posts.service.ts:12`; the author is the session's, which the spread puts last), and
  `FindByIdAndUpdate` writes whatever the body names, `authorId` included (`:33`, `Merged`).
  A document without author makes update and delete fail at `post.authorId.toString()`.
- **`Msa`.** A board request runs for the `userId` that the shared store holds at the
  moment the session is loaded (`UserOf`).
- **`MyCRDOperator`.** One action per API call of Reconcile, in its order. Reads come
  from the caches, writes carry the version that was read and conflict otherwise.
  The rest of the cluster (users, garbage collector, Deployment controller, crashes,
  lost answers) is around it. A MyCRD object is deleted in the background, where it is gone at
  once, or in the foreground, where it stays with a deletionTimestamp, which Reconcile does not
  look at, until its Deployment is gone (`FinishDeletion`).
- **`SqsConsumer`.** `Handle` is `handleMessage` with `dispatch`; `Type` is the
  precedence of the SNS envelope over the body. A consumer polls again when all
  messages of its batch are done.
- **`ThreeTierPool`.** `GetConnection`, `Release`, `Remove` are the pool;
  `Execute`, `Reject`, `ConnectionLost` the three ends of a statement. `Reject` does
  not release the connection: the catch of `/save` and `/db-status` does not, only
  initDB has a `finally`.
- **`FlinkWindows`.** The source and the watermark generator are chained into one task
  (`Emit`, `PeriodicEmit`), the window operator is another (`ProcessElement`,
  `ProcessWatermark`, `Fire`), and `PARALLELISM` is 1, so one channel joins them. A window
  is not an object of its own: its events are in `pending` until its timer fires. `Emit`
  puts an event of any time; the five of `TestSource` are one order among them.
- **`ImageCdn`.** `Arrive` is `fetch` up to its first await, with every refusal
  (`Refusal`); `Match` is `cache.match`; `Fetch` the subrequest to `/raw/`, which the
  worker answers itself (`ServeRaw`) and the resizer transforms (`Resized`); `Return` the
  answer; `Put` the `cache.put` that `waitUntil` keeps alive after it. `Raw` is the `/raw/`
  route for a client. `h` is treated like `w` and left out. `Upload`, `Remove` and `Evict` are
  external. `/raw/` answers with `public, max-age=31536000, immutable` (`index.js:21`), so the
  subrequest may be answered by a cache in front of it: `Fetch` gets the object of the bucket or
  any of `copies`. `current` and `hit` are history.

Definitions marked "Mutant" in a module are not part of the specification. Each is
the variant a plausible bug would give, and stands next to what it replaces.
`PROJECT.json` pairs each with the property that TLC finds violated when the
definition's body is replaced by it.

## 3. Runs: what is checked, with which bounds

States are distinct states; on two workers every run takes less than three minutes.

| run | states | properties | what it shows |
|---|---|---|---|
| `LambdaBoard` | 1780 k | `TypeOK`, `WritersAreAuthors`, `UndeletedPostsIntact`, `NoTakeover`, `GhostIsForever` | although no write has a condition, a write that lands arbitrarily late still belongs to the author of its id; a post that was not deleted is intact; a row that lost its owner can never be repaired once late writes and replicas have settled |
| `LambdaBoardGhost` | counterexample | `UpdateAnswersWithAPost` | finding 1 |
| `AppSyncBoard` | 411 k | `TypeOK`, `BoardSpec` | every behaviour of the resolvers is one of `PostBoard`: writes are linearizable, a get misses a creation or removal only while replicas lag |
| `FrontendSession` | 1016 k | `TypeOK`, `ActsAsShownUser`, `NoTokenAfterLogout`, `SignedInIsServed`, `FlowsEnd` | with overlapping calls, reloads, a failure and a logout on another device: the token belongs to the user on the page; expiry alone sends nobody back to the login; a refresh on its way, or a cookie that is still there, brings no token of a session that was logged out; a 401 leads to one refresh and one more attempt, never to a chain |
| `FrontendMixed` | counterexample | `ActsAsShownUser` | finding 2: with a second tab it is not so |
| `MsaBoard` | 509 k | `WritersWereAuthors`, `NoRevival` | although it checks and writes in two steps and takes any body, only who was the author while his request was under way changes or removes a post; no update or `_id` brings a removed post back or replaces another one |
| `Msa` | 1750 k | `SessionTypeOK`, `SessionsComeFromLogins`, `LogoutIsFinal`, `WritersLoggedIn`, `NothingWithoutSession` | the two services together: sessions of overlapping logins, on one session too, and of logouts are not mixed up, nobody writes a post who did not log in, and for a user who is signed out nothing passes the check of the author |
| `MyCRDOperator` | 1540 k | `TypeOK`, `NeverSteals`, `SpecConverges`, `StatusConverges`, `OrphansAreCollected` | Reconcile converges from any sequence of edits, drifts, deletions, lost answers and restarts, with caches that lag, and leaves no Deployment behind when the object is deleted |
| `SqsConsumer` | 17 k | `TypeOK`, `NothingIsLost`, `PoisonStays`, `GoodMessagesAreDeleted` | at-least-once delivery, with poisoned messages in the batches |
| `ThreeTierPool` | 103 k | `PoolTypeOK`, `PoolIsAccounted`, `SomebodyWillRelease`, `SuccessMeansSaved`, `Answered` | only rejected statements cost the pool a connection, and as long as one connection is left everybody is answered |
| `FlinkWindows` | 311 k | `TypeOK`, `OnTimeIsCounted`, `WindowSpec`, `WindowsClose` | wherever an event and the watermarks are, an event on time is counted, and every event whose window is past ends in one place; the job implements `EventWindows` |
| `ImageCdn` | 376 k | `TypeOK`, `CacheIsRight`, `AnswersAreTrue` | overlapping requests, uploads, evictions and failures: neither an error nor half an image nor somebody else's image is cached for a year; under `/raw/` an answer is true of some moment of its request; under `/img/` an image may be old, but is the right one and was once an answer of `/raw/` |

Bounds, and why they are enough:

- *Actors.* Two invocations or requests show every overlap of two handlers. The
  programs have no step that involves three of them, except: `ThreeTierPool` has three
  (a pool of two connections and one handler that waits), and in `LambdaBoard` a
  copy of a command in `stray` is a third actor.
- `LambdaBoard`: `MaxId = 2` ids, so that one id can be deleted and another created;
  `MaxSend = 1` resend of each command (the SDK makes two), `MaxStray = 1` copy under
  way at a time. The theorems hold for every value of all three. `CatchUp` brings all
  replicas of a row up to date at once: which of them answers a read is a choice in any case. In
  `LambdaBoardGhost` they are as small as the counterexample allows.
- `AppSyncBoard`: two ids, two fields, two values: an update of one field
  must leave the other alone, and two updates of one field must not be confused.
  `IdsLeft` stops new creates when all ids are used.
- `MsaBoard`: two requests, ids, users and texts: one request hands a post to the other user
  between the check and the write of the other, or removes it and creates it anew under its `_id`.
  `IdsLeft` stops creates without an `_id` when no unused id is left.
- `FrontendSession` and `FrontendMixed`: `Overlap = 2` functions of the pages run at the
  same time, beside requests whose page is gone; `MaxToken = 3` access tokens are issued,
  enough for a login, its expiry, a refresh and a login of somebody else (`TokensLeft` starts
  a flow only if tokens are left for all of its requests, so that the bound never stops one
  half-way); `MaxFaults = 1` failure. `FrontendSession` has one tab, two users and
  `LoginsAlone`, other devices are `LogoutElsewhere`. The last two are restrictions that
  matter: a second tab breaks `ActsAsShownUser` (finding 2, `FrontendMixed`, without
  `LoginsAlone`), and so do a call that overlaps a login in its own page and a login whose
  answer breaks off after its Set-Cookie took effect, which is why the property is claimed
  only while no failure has happened. `SignedInIsServed` names the failures that refuse
  a call of a live session. `NoTokenAfterLogout` needs none of this: it is proved for
  any number of tabs, users and overlapping calls.
- `Msa`: two users, two ids of sessions, two auth requests, one board request, one post.
  `SidsLeft` holds back only a login that needs a new id when none is left; logins that
  load a stored session keep its id, so two of them overlap on one session, as two users
  too. The board's own concurrency is the subject of `MsaBoard`: with one board request a post
  does not pass to a user who is signed out under another request's check, so the exception
  of `NothingWithoutSession` for such a post (`Claimed`) matters only in its proof. The
  properties are theorems for any number of requests.
- `MyCRDOperator`: `MaxUid = 2` (the object is deleted, either way, and created anew), `MaxOps = 3`
  steps of users, crashes and lost answers, `MaxLag = 2` versions a cache lags,
  `Replicas = {-1, 2}`: one that is rejected and one that differs from the default 1.
  `Image` is empty: an image is defaulted but never rejected and would only repeat
  what `replicas` shows; `Unset` and its default are there.
  `MaxLag` blocks a write while a watch is two versions behind; as the watches are
  fair this delays the write and never prevents it.
- `SqsConsumer`: one message of each kind that `Type` distinguishes (a type in the
  body only; a body that asks for an error but whose SNS envelope holds a harmless type; an
  envelope that holds the error), two
  consumers, batches of two, so that the poisoned message competes for places;
  `MaxFaults = 2` restarts or failed deletes.
- `FlinkWindows`: `Size = 5`, `Bound = 2`, `MaxEvents = 5` events at the times 3, 4, 6, 7,
  12 and 20: around the boundary of the first two windows, at the bound, and far ahead,
  the minutes of `TestSource` among them. `Capacity = 3` items in the channel, so that
  events, watermarks and events again can be on their way.
- `ImageCdn`: two requests, one object and `MaxUploads = 2` versions of it; two URLs
  (sizes and qualities that are absent, 0 and above 100 among them), a HEAD on the URL of a
  GET, a client with and one without webp, and each way to be refused.
- `ThreeTierPool`: `Limit = 2` connections, `MaxPoolFaults = 2`. `Limit = 1` would leave
  initDB and the handlers nothing to share.

`SYMMETRY` is used in runs without liveness only (`AppSyncBoard`, `LambdaBoard`,
`FrontendMixed`, `MsaBoard`, `Msa`, `ImageCdn`): all model values of a permuted set are
interchangeable there, and the refinement and action properties are safety. `VIEW` leaves
out of the fingerprint, in `LambdaBoard`, the last response, which no step reads and no
property of that run names; in `Msa`, values that are never looked at again (the comment in `MCMsa`
lists them). Neither changes which steps are possible nor whether a property holds of them.

Action properties were preferred where an invariant would need a history:
`NoTakeover`, `GhostIsForever`, `LogoutIsFinal`, `NothingWithoutSession`, `NeverSteals`
and `PoisonStays` say what no step may do.

## 4. Fairness and deadlock

Safety runs assume no fairness. Where liveness is checked:

- `MyCRDOperator`: weak fairness of the worker (controller-runtime runs Reconcile as
  long as the queue has a key and retries after an error with a backoff that is
  bounded), of both watches, of the garbage collector and of the Deployment controller.
  Users, failures and crashes are not fair: they may stop at any time, and
  `SpecConverges` and the others are of the form `<>[]`, "once the users rest". The
  users do rest because `MaxOps` bounds them: that is what `<>[]` is about. `FinishDeletion` has
  no fairness: a foreground deletion may hang for ever on another dependent with a finalizer, and
  an object under deletion is not `Feasible`; what has to be collected is collected all the same.
  A MyCRD object that can never have its Deployment (`~Feasible`: negative replicas, a
  foreign controller, a foreign selector) is excluded by the property itself; without
  it the code retries for ever, which is right.
- `SqsConsumer`: weak fairness of handlers and deletes (a handler of this service
  ends: it logs, or throws) and of the visibility timeout; strong fairness
  of *some* consumer receiving a given message, since a visible message can be hidden
  from one consumer by another again and again, and SQS does not starve a message that
  is visible again and again. Sending, failing and restarting are not fair.
- `FrontendSession`: weak fairness of every flow: the gateway ends every invocation, its
  answer arrives, and a script continues after an await. A request that gets lost is
  `Breaks`, which ends the flow, too. Users, expiry and failures are not fair.
- `ThreeTierPool`: MySQL answers a connect and a statement. Nothing is assumed of
  MySQL's idle timeout (8 hours by default) or of pm2: they may end a connection or the
  process, but need not.
- `FlinkWindows`: weak fairness of the generator, which Flink calls every 200 ms, and of
  the window operator, which takes what is in its channel. Nobody has to emit.

`CHECK_DEADLOCK FALSE` is said in three places, where the system may stop:
`MyCRDOperator` (users rest, the object has converged), `ThreeTierPool` (rejected
statements took every connection and everybody waits, see section 6) and
`FlinkWindows` (the source ends).

## 5. Proofs

Every theorem holds for all values of the constants, under the assumptions named in
the modules (`BoardAssumption`, `SessionAssumption`, `MsaAssumption`,
`OperatorAssumption`, `SqsAssumption`, `PoolAssumption`, `WindowsAssumption`,
`AskAssumption`), which only say that the "absent" values differ from the others, that the
bounds are numbers, that there are finitely many messages and requests, and what types the
asked-for URLs have. One theorem about the frontend, `SignedInStaysServed`, has a hypothesis on
top, the restriction `LoginsAlone` that section 3 explains.

| theorem | statement | argument |
|---|---|---|
| `LambdaBoardProofs!TypeCorrect` | `Spec => []TypeOK` | part of `IInv` |
| `!LateWritesAreRightful` | `Spec => []WritersAreAuthors` | see below |
| `!PostsStayIntact` | `Spec => []UndeletedPostsIntact` | see below |
| `!IdsKeepTheirAuthor` | `Spec => NoTakeover` | `IInv` before the step; a PutItem is the only step that writes `author` |
| `!GhostsStay` | `Spec => GhostIsForever` | `IInv`, and which writes a step can add (`NewWrites`): with neither the row nor a version that lags naming an owner no check passes |
| `AppSyncBoardProofs!TypeCorrect` | `Spec => []TypeOK` | part of `IInv` |
| `!Implements` | `Spec => BoardSpec` | refinement, step by step |
| `MsaProofs!SessionTypeCorrect` | `SessionSpec => []SessionTypeOK` | part of `SessionInv` |
| `!SessionsAreEarned` | `SessionSpec => []SessionsComeFromLogins` | see below |
| `!LogoutStands` | `SessionSpec => LogoutIsFinal` | see below |
| `!BoardTypeCorrect` | `Posts!Spec => []Posts!BoardTypeOK` | part of the board's invariant |
| `!WritersHeldThePost` | `Posts!Spec => Posts!WritersWereAuthors` | see below |
| `!RemovedStaysRemoved` | `Posts!Spec => Posts!NoRevival` | see below |
| `!ComposedSessions`, `!ComposedBoard` | `Spec => SessionSpec`, `Spec => Posts!Spec` | every step of the two services is a step of one |
| `!WritersAreUsers` | `Spec => []WritersLoggedIn` | see below |
| `!SignedOutIsOut` | `Spec => NothingWithoutSession` | see below |
| `FrontendSessionProofs!TypeCorrect` | `Spec => []TypeOK` | part of `IInv` |
| `!LogoutEndsSessions` | `Spec => NoTokenAfterLogout` | see below |
| `!SignedInStaysServed` | `LoginsAlone => (Spec => SignedInIsServed)` | see below |
| `!ShownHaveLoggedIn` | a page greets only a user whose password was accepted from this browser, and acts for another only where two users have logged in: the part of `ActsAsShownUser` without bounds | `ShownInv` |
| `!FlowsAdvance` | a call of login, logout, tryRefresh or fetchWithAuth goes only forward, through at most 24 places: the safety part of `FlowsEnd` | `Progress` rises with each step (`StageAdvances`, `TurnAdvances`, `LeavingAdvances`) |
| `MyCRDOperatorProofs!NothingIsStolen` | `Spec => NeverSteals` | see below |
| `!TypeCorrect` | `Spec => []TypeOK` | see below |
| `!NoWorkIsLost` | at rest (nothing queued, under way or to be heard of), the Deployment and the status are what the MyCRD object asks for: the safety part of `SpecConverges` and `StatusConverges` | see below |
| `!OrphansAreKnown` | a Deployment that Reconcile made and that is not the object's, or that is left when there is no object, names a uid that is gone: the safety part of `OrphansAreCollected` | `MadeIsOwned` |
| `SqsAndPoolProofs!TypeCorrect` | `Spec => []TypeOK` | see below |
| `!NoMessageIsLost` | `Spec => []NothingIsLost` | see below |
| `!PoisonRemains` | `Spec => PoisonStays` | the same invariant |
| `!PoolTypeCorrect` | `PoolSpec => []PoolTypeOK` | part of `PoolOK` and `DataOK` |
| `!ConnectionsAreAccounted` | `PoolSpec => []PoolIsAccounted` | see below |
| `!SuccessIsTrue` | `PoolSpec => []SuccessMeansSaved` | see below |
| `!QueueIsServed` | `PoolSpec => []SomebodyWillRelease`: the safety part of `Answered` | counting, see below |
| `FlinkWindowsProofs!TypeCorrect` | `Spec => []TypeOK` | part of `IInv` |
| `!OnTimeEventsCount` | `Spec => []OnTimeIsCounted` | see below |
| `!Implements` | `Spec => WindowSpec` | refinement, step by step |
| `!NoWindowIsForgotten` | when nothing is left to send, to take or to fire, every event whose window is past is in a result or in the side output: the safety part of `WindowsClose` | `LastOK` |
| `ImageCdnProofs!TypeCorrect` | `Spec => []TypeOK` | part of `IInv` |
| `!NothingWrongIsCached` | `Spec => []CacheIsRight` | see below |
| `!AnswersHold` | `Spec => []AnswersAreTrue` | see below |

The invariants, and why they are needed:

- **LambdaBoard.** `WritersAreAuthors` speaks of commands already sent. To know that the
  *next* command is rightful one needs to know of every command, before and after
  its check, that it came from its caller (`CommandOK`), that the id of a PutItem was
  drawn from the counter and that no two invocations drew the same one
  (`PutsAreMinted`), and that a row with an owner carries its author (`RowsAreAuthored`).
  The counter is the only thing that keeps ids apart, and the proof uses its atomicity
  in one place (`GotNextIdKeepsInvariant`).
- **AppSyncBoard.** An item has the author who put it (`ItemsAreOwned`), an operation in
  flight is the one its context asks for (`OperationsAreRequested`), and the id of a
  PutItem under way is fresh, so `attribute_not_exists(id)` cannot fail (`PutsAreFresh`).
  The refinement maps a post to its item together with the history of its owner, so that a
  deleted id is not a fresh one. `EffectPerforms` shows that a conditional write is the
  abstract operation, `RefusalHasReason` that a refusal has a reason at that very moment.
- **MsaSessions.** Between the password check and the save, the truth is only in the
  request's copy of the session: `LoginsAreChecked` says that a copy whose `userId`
  changed was checked, `SessionsWereIssued` that what is stored has a proof. A logout is
  final because only `Ended` writes to the store, only for a request that is logging in,
  and a request cannot load what is not stored.
- **MsaBoard.** A document has an author who wrote it, or none (`PostsWereWritten`); a request
  that passed the check stays among those whose user was the author since it arrived
  (`JobsWereChecked`), whatever happens to the post before it writes, also when its author
  changes. `ChangeIsAWrite` says that a document changes only by the write of one of the
  requests under way, `DocumentsAreKept` that this is never a create.
- **Msa.** A board request has the user of the session it loaded, and that user earned it
  (`JobsAreEarned`); what was earned stays earned (`SessionStepsRemember`). For a user who is
  signed out, `SessionStepsLeaveOut` looks at each place where a `userId` is copied,
  `BoardStepsLeaveAlone` and `BoardStepsStayOut` at each check and write.
- **FrontendSession.** `CognitoOK`: whoever is remembered as logged out was signed out at
  Cognito. A token comes from a login, whose session is new, or from a refresh, which
  Cognito refuses for a session signed out. To know that a refresh asks for a session
  that exists, `FlowOK` follows the cookie and the tokens through every request that is
  on its way.
  `SignedInIsServed` needs to know of every call and load under way whose the cookie is
  (`ServeInv`): a login runs alone (`Alone`), every flow is at a request that its function sends
  (`GoalOK`) and has not ended yet (`OutcomeOK`), and while it runs the cookie is the one it sent
  or gone, so a 401 to its refresh means that this session was signed out (`CookieOK`).
  `ActsAsShownUser` is proved only as far as it needs no bound (`ShownHaveLoggedIn`): the names
  in answers under way and on the pages are those of accepted logins (`ShownInv`). The rest is
  checked by the run alone, whose bounds leave out what `FrontendMixed` shows.
- **MyCRDOperator.** `UpdatesWereAllowed`: whoever is about to write has read a
  Deployment that `SetControllerReference` accepts. Since the write conflicts unless
  the Deployment is still that one, no interleaving can steal. The types need that
  Reconcile goes on only with an object that exists, that a generation counts edits, and that
  the API server stores no template it would reject (`TypeInv`).
  `QuietInv` is what level-triggered control rests on. A cache will have caught up when its watch
  has delivered everything (`CachesFollow`). When the object is not queued and Reconcile is
  not about to write, the Deployment is the one the cached object asks for, or a version is on
  its way that will queue the object (`WillQueue`), because the version before a change had an owner. The
  status is behind the Deployment: it is right when Reconcile is idle, or a version of one of the two
  is still to be heard of. An error needs nothing but to queue (`ErrorIsQuiet`).
- **SqsConsumer.** `HandledWereDispatched`: what a consumer will delete was dispatched.
  The bound on a batch (`BatchesFit`) needs cardinalities: every step but a receive
  leaves a subset, and a receive starts from an empty batch.
- **ThreeTierPool.** `PoolOK` joins the account, the discipline of the pool's queue
  (`NobodyWaitsInVain`: a handler waits only while all connections are lent) and the places of the
  handlers, because none is inductive alone. What the program adds is that every connection that
  is lent and not left behind by a rejected statement has a holder who will return it; together
  they give `QueueIsServed`: a release hands its connection to the head of the queue, so
  the number of busy handlers stays only if that head does wait and waits once
  (`PassCounts`, on the cardinality of a set that loses one and gains one). `AnswersOK`: who is
  answered "ok" has its row and has returned, so a connection that is passed on goes to nobody
  who was answered (`PassedOnHadNoAnswer`).
- **FlinkWindows.** An event on time is ahead of every watermark that is before it in the
  channel or already in the operator (`AheadOK`), because the generator knew its time when
  it sent the next one (`MaxOK`) and watermarks keep their order (`WatermarksOK`). So it is not
  late when it arrives, and while it is pending its window is not due before a watermark
  that passed it. `PlacesOK` says in which one place each event is, `ClosedOK` and
  `OpenOK` that a printed window is behind the watermark and a pending one is not yet
  printed. `LastOK`: the last watermark that was sent is in the operator or in the channel.
- **ImageCdn.** Everything that is cached was once an answer of `/raw/` (`CachedIsCopied`), and
  `copies` only grows (`CopiesGrow`). `SlotOK` follows a request: the versions the bucket held
  while it is at `/raw/` are remembered (`UnderWay`), what it fetched is of its own object and
  among the copies (`ResponseOK`), what it will put is the image its URL names and not the
  bodiless answer to a HEAD (`PutOK`), and what it answered is true (`TrueAnswer`).

Every safety property of a passing run but `ActsAsShownUser` is stated by one of these theorems.
Only checked by TLC, not proved: that one, and liveness (`SpecConverges`, `StatusConverges`, `OrphansAreCollected`,
`GoodMessagesAreDeleted`, `Answered`, `FlowsEnd`,
`WindowsClose`), which needs fairness and `ENABLED`, out of TLAPS's reach here. Five
theorems go as far as safety does: `NoWorkIsLost`, `OrphansAreKnown`, `QueueIsServed` and
`NoWindowIsForgotten` say that the system does not come to rest in a wrong place, `FlowsAdvance`
that a flow does not go round for ever. What is left to TLC is that the
steps are taken and, for the operator, that its retries end.

## 6. Where code and documentation disagree

1. **A PUT can answer 200 with a post that has no owner.**
   `aws-lambda-example/backend/README.md:187-188` promises the post in the format of GET
   and `:196` a 404 when there is none. `updatePost.ts` reads (`:24`), compares
   the owner (`:27`) and then sends an UpdateItem without a condition (`:30-45`). When a
   DELETE lands in between, or the read misses one that landed before, the update creates an
   item of title and content only. It shows in every list, and `GhostIsForever` (proved) says
   that nobody can ever change or remove it once late writes and replicas have settled. Run
   `LambdaBoardGhost`.
2. **A page can greet one user and act as another.** `fetchWithAuth` refreshes with
   whatever cookie the browser has and keeps the token it gets (`App.tsx:14-17`), while `user`,
   which `:119` greets, stays. Ann has the page open, Bob logs in in another tab,
   Ann's access token expires: her next post is written in Bob's name. Run `FrontendMixed`.

More, met while modelling and visible in the code without a run:

- `msa-example-1/API.md:78` requires authentication for creating, updating and deleting,
  and `:100-118` name none for the reads; `posts.module.ts:15` puts the middleware in
  front of every method (`Middleware` of `MsaBoard`).
- `msa-example-1/API.md:83` says of a create that the author is taken from the session and
  `:119` that only the author updates a post. `posts.service.ts:33` writes the raw body, so an
  update may also give the post another author, or none, after which every update and delete of it
  fails; and with the check and the write in two calls, a request that passed the check may
  still write after that. The `_id` of a create comes from the body, too (`:12`).
  `WritersWereAuthors` and `NoRevival` say what remains true.
- `aws-lambda-example/backend/README.md:101-102` lists 401 as the only error of a logout;
  `logout.ts:25-27` answers 500 when GlobalSignOut refuses the token, and the cookie
  stays (`LogoutHandler` of `FrontendSession`). The page forgets its user all the same
  and signs him in again when it is loaded.
- `/db-status` of the three-tier server can stop answering while MySQL is well. The catch
  blocks of `/save` and `/db-status` (`app.js:104`, `:108-110`) do not release the connection.
  Content longer than the column's 255 characters, or a request before initDB created the
  table, costs the pool a connection each time; when all are gone every handler waits without
  a limit. `PoolIsAccounted` shows that nothing else costs a connection, and `Answered` speaks of
  the time while one is left.
- The image worker's `return serveRawFromR2(...)` (`index.js:43`) is not awaited inside the
  `try`, so a rejection of R2 is not answered by its `catch` but by the runtime.
- The cache key of the image worker is the URL alone. With `f=auto` the format was chosen
  for the client that missed, so another one may get webp that it did not accept (that is
  why `AnswersAreTrue` excepts hits); of two overlapping misses the one that read the
  older object may put last, and any miss may be answered by a cached `/raw/` (`index.js:21`): both keep
  an old version for up to a year.

## 7. Assumptions about the environment

Code outside the repository is modelled from how the repository uses it:

- *DynamoDB*: one command on one item is atomic, and a condition or an update sees the
  current item. A read without `ConsistentRead` may return any earlier version of the item until
  the replicas have caught up.
- *AWS SDK*: resends a command up to its number of attempts; a copy may be executed
  late. *Lambda*: ends an invocation after its time limit.
- *Cognito*: the tokens of `USER_PASSWORD_AUTH` and `REFRESH_TOKEN_AUTH` keep the same
  refresh token; `GlobalSignOut` revokes all sessions of the user, and Cognito's own
  calls (`GetUser`, `GlobalSignOut`) then refuse their access tokens, while the JWT authorizer of
  API Gateway looks at signature and expiry only. Access tokens expire in the order
  they were issued. The refresh token lives as long as its cookie (30 days) and neither
  ends in the model. No handler of the posts answers 401 to a token the authorizer let pass.
- *Browser*: applies the Set-Cookie of an answer before the script continues, ignores that of a
  page that is gone; `fetch` trims `Bearer ` without a token, which the handlers and the
  authorizer refuse.
- *AppSync*: an argument is undefined or has a value; null for an optional
  argument is not modelled. `util.autoId` never repeats.
- *express-session, connect-redis*: as in `MsaSessions`'s head comment; `touch`
  does not create a key. Redis is available; a failing call ends its request.
- *NestJS*: without a ValidationPipe a body is passed on as it was sent.
- *mongoose*: fields that are not in the schema are dropped, `_id` is one of those kept; a
  value that cannot be cast or an `_id` that changes is an error (`Rejected`); an update does not
  run the validators.
- *Mongo*: one call on one document is atomic; generated ObjectIds are unique.
- *controller-runtime*: one worker per object, caches that lag but do not go back,
  every change queues the object. The ten-hourly resync is left out: convergence does not
  need it. A second manager that does not know yet it lost the lease is left out.
  Versions are compared by content; a version that was changed and changed back is the
  same version, which only removes conflicts that a retry would undo.
- *SQS*: standard queue, at-least-once, visibility timeout of 10 s, no dead-letter queue.
  *sqs-consumer*: handles a batch concurrently and polls again when it is done.
- *Flink*: a channel is first in, first out; the window operator is a task of its own, as
  `windowAll` partitions its input by one key, which breaks the chain; watermarks are emitted periodically; a timer fires before
  the next item is taken. No restart from a checkpoint (none is configured), no cancel, no
  savepoint with drain, which would send a last watermark.
- *Cloudflare*: `cache.match` finds and `cache.put` accepts only GET, `Vary` is ignored; a fetch
  of the worker's own URL with `cf.image` reaches its `/raw/` route through the resizer, which
  picks an accepted format for `auto` if there is one. That subrequest may be answered by a cache
  that kept an earlier answer of `/raw/`; of a client's request to `/raw/` the model sees the part
  that reaches the worker. Conditional or range requests answered from a cache hit are not modelled.
- *mysql2*: `connectionLimit` connections (10 by default), `waitForConnections`, no limit
  of the queue, no acquire timeout. *MySQL*: strict mode, as is the default.

## 8. Not modelled, and why

- `signup`, `confirmEmail`, `resendEmail` of the serverless board: each hands one command
  to Cognito and keeps nothing; a user of the model has signed up.
- The pages of the frontend beyond who is signed in (lists, forms, routes).
- Deployment pipelines: workflows of GitHub Actions without state or control of their own
  beyond the order of their steps. That two runs of `deploy.yaml` share one S3 key, and that an
  approved plan may be stale when it is applied, shows in that order, and the repository
  promises nothing about it that a run could check.
- `getPosts`, `listPosts`: a scan that keeps no state and on whose result nothing
  depends. `/` and `/info` of the three-tier server read files.
- `aws-ecs-dynamodb-web-service-example`: one put, one scan, no state in the process.
- Sample servers of the Kubernetes demos: constant answers, counters in memory.
- Manifests, Terraform resources, charts: declarative input of third-party controllers.
- kubebuilder's scaffold: generated deep copies, manifests, test scaffold.
- Flags, metrics, webhooks and TLS options of the operator's `main.go`.

## 9. Plan

Done, in this order: `LambdaBoard` and its proofs; `PostBoard`, `AppSyncBoard` and
the refinement proof; `MsaSessions`, `MsaBoard` and their composition `Msa`;
`MyCRDOperator`; `SqsConsumer`; `ThreeTierPool`; proofs for the sessions,
`MyCRDOperator` and `SqsConsumer`; `FrontendSession` and its proofs; `FlinkWindows` and
`ImageCdn` with their proofs; proofs of `MsaBoard`, of the
composition `Msa`, and of the types of `MyCRDOperator` and `SqsConsumer`; proofs of
`ThreeTierPool`, of `SignedInIsServed`, and of the safety parts of the liveness of the
operator, the pool, the frontend and the windows.

Left, most important first:

1. The frontend for two tabs: what a page and the cookie have to do with each other when logins
   overlap, which is more than `ShownHaveLoggedIn` and less than `ActsAsShownUser`.
2. The accounts of the serverless board: signup, confirmation and resend against Cognito's
   states of a user.
3. A second manager of the operator that still believes it is the leader.

## 10. Running

In this directory, with TLC, the community modules and TLAPS 1.4.5 installed:

    tlc -workers 2 -config LambdaBoard.cfg MCLambdaBoard
    tlapm LambdaBoardProofs.tla

The module of each configuration is in `PROJECT.json` under `runs`.
