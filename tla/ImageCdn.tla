-------------------------------- MODULE ImageCdn --------------------------------
(***************************************************************************)
(* cloudflare-image-cdn-example: a worker that serves the images of an R2  *)
(* bucket, as they are under /raw/ and transformed under /img/.  A         *)
(* transformed image is fetched from the worker's own /raw/ route through  *)
(* Cloudflare's image resizer and cached for a year under its URL.         *)
(*                                                                         *)
(* External, from how the worker uses them: the bucket, whose objects      *)
(* anybody may replace or remove, the resizer, the Cache API, which keeps  *)
(* answers to GET only and evicts any at any time, the cache in front of   *)
(* /raw/, which may keep what /raw/ answered for the year its header       *)
(* allows, and the clients.                                                *)
(***************************************************************************)
EXTENDS Integers

CONSTANTS
    Request,    \* requests that can be under way at the same time
    Ask,        \* what the clients ask for
    Key,        \* keys of the bucket
    Format,     \* formats of images
    Original,   \* the format and options of an image that is not transformed
    NoImage,    \* no body
    MaxUploads  \* bound: objects put into the bucket

Url == {a.url : a \in Ask}

Images(versions) ==
    [key : Key, version : versions, format : Format \cup {Original},
     options : [width : Nat, quality : 1 .. 100] \cup {Original}]

(* w and q are what parseInt makes of them, or 0; tag is the version that   *)
(* If-None-Match names, or 0.  h is treated like w.                         *)
ASSUME AskAssumption ==
    /\ \A a \in Ask :
        /\ a.method \in {"GET", "HEAD", "POST"} /\ a.to \in {"img", "raw", "other"}
        /\ a.url.key \in Key \cup {"missing", "malformed"} /\ a.url.w \in Int /\ a.url.q \in Int
        /\ a.url.f \in Format \cup {"auto"} /\ a.accept \subseteq Format /\ a.tag \in Nat
    /\ Ask # {} /\ MaxUploads \in Nat
    /\ "missing" \notin Key /\ "malformed" \notin Key /\ NoImage \notin Images(Nat)

VARIABLES
    bucket,    \* the version of each object, 0 if there is none
    uploads,   \* versions so far
    cache,     \* caches.default
    copies,    \* the versions of each object that /raw/ answered with
    ask,       \* what each request asks for
    at,        \* what its handler, or waitUntil after it, awaits
    response,  \* what its fetch of the raw image gave
    answer,    \* what it was answered
    hit,       \* history: it was answered from the cache
    current    \* history: versions the bucket held while it was at /raw/

bucketVars == <<bucket, uploads>>
requestVars == <<ask, at, response, answer, hit>>
vars == <<bucketVars, requestVars, cache, copies, current>>

Plain(status) == [status |-> status, image |-> NoImage]
Nothing == Plain(0)

Positive(n) == IF n > 0 THEN n ELSE 0
ClampInt(n, min, max) == IF n < min THEN min ELSE IF n > max THEN max ELSE n

(* It is answered; its put may be under way. *)
Done(r) == at[r] \in {"none", "put"}

(* Mutant: the quality is not clamped. *)
QualityAsGiven(q) == IF Positive(q) = 0 THEN 85 ELSE q

Quality(q) == ClampInt(IF Positive(q) = 0 THEN 85 ELSE q, 1, 100)
Options(u) == [width |-> Positive(u.w), quality |-> Quality(u.q)]

(* auto is a format the client accepts, if there is one. *)
Formats(a) ==
    IF a.url.f # "auto" THEN {a.url.f} ELSE IF a.accept # {} THEN a.accept ELSE {Original}

Init ==
    /\ bucket = [k \in Key |-> 0] /\ uploads = 0
    /\ cache = [u \in Url |-> Nothing]
    /\ copies = [k \in Key |-> {}]
    /\ ask = [r \in Request |-> CHOOSE a \in Ask : TRUE]   \* none yet
    /\ at = [r \in Request |-> "none"]
    /\ response = [r \in Request |-> Nothing] /\ answer = response
    /\ hit = [r \in Request |-> FALSE] /\ current = [r \in Request |-> {}]

--------------------------------------------------------------------------------
(* The bucket and the cache. *)

Holds(k, version) ==
    /\ bucket' = [bucket EXCEPT ![k] = version]
    /\ current' = [r \in Request |->
                     IF at[r] = "raw" /\ ask[r].url.key = k
                       THEN current[r] \cup {version} ELSE current[r]]
    /\ UNCHANGED <<requestVars, cache, copies>>

Upload(k) ==
    /\ uploads < MaxUploads
    /\ uploads' = uploads + 1
    /\ Holds(k, uploads')

Remove(k) == bucket[k] # 0 /\ Holds(k, 0) /\ UNCHANGED uploads

Evict(u) ==
    /\ cache[u] # Nothing
    /\ cache' = [cache EXCEPT ![u] = Nothing]
    /\ UNCHANGED <<bucketVars, requestVars, copies, current>>

--------------------------------------------------------------------------------
(* The worker. *)

Respond(r, a, next) ==
    /\ at' = [at EXCEPT ![r] = next]
    /\ answer' = [answer EXCEPT ![r] = a]

(* What is answered at once, before any await; 0 for everything else. *)
Refusal(a) ==
    CASE a.method = "POST" -> 405
      [] a.method # "POST" /\ a.to = "other" -> 404
      [] a.method # "POST" /\ a.to # "other" /\ a.url.key = "malformed" -> 500
      [] a.method # "POST" /\ a.to # "other" /\ a.url.key = "missing" -> 400
      [] OTHER -> 0

Arrive(r, a) ==
    /\ at[r] = "none"
    /\ ask' = [ask EXCEPT ![r] = a]
    /\ hit' = [hit EXCEPT ![r] = FALSE]
    /\ current' = [current EXCEPT ![r] = {bucket[k] : k \in Key \cap {a.url.key}}]
    /\ answer' = [answer EXCEPT ![r] = Plain(Refusal(a))]
    /\ at' = [at EXCEPT ![r] = CASE Refusal(a) # 0 -> "none"
                                 [] Refusal(a) = 0 /\ a.to = "img" -> "match"
                                 [] OTHER -> "raw"]
    /\ UNCHANGED <<bucketVars, response, cache, copies>>

(* serveRawFromR2: 304 for the tag of the object; 0 is no object. *)
ServeRaw(k, version, tag) ==
    CASE version = 0 -> Plain(404)
      [] version # 0 /\ version = tag -> Plain(304)
      [] OTHER -> [status |-> 200,
                   image |-> [key |-> k, version |-> version,
                              options |-> Original, format |-> Original]]

(* A cache may keep the answer for later: public, max-age=31536000, immutable *)
(* on an image, and nothing said of a 404.                                    *)
Copy(k, a) ==
    copies' = [copies EXCEPT ![k] = @ \cup (CASE a.status = 200 -> {a.image.version}
                                              [] a.status = 404 -> {0}
                                              [] OTHER -> {})]

(* An answer to a HEAD has no body. *)
Body(a, answered) ==
    IF a.method = "HEAD" THEN Plain(answered.status) ELSE answered

(* Mutant: /raw/ answers from a cache first, as /img/ does. *)
RawFromCopies(r) ==
    LET k == ask[r].url.key IN
    /\ at[r] = "raw"
    /\ \E v \in {bucket[k]} \cup copies[k] :
         Respond(r, Body(ask[r], ServeRaw(k, v, ask[r].tag)), "none")
    /\ UNCHANGED <<bucketVars, ask, response, hit, cache, copies, current>>

(* Under /raw/ the rejection of a get is not awaited inside the try: the     *)
(* answer is the 500 of the runtime, not that of the catch.                  *)
Raw(r) ==
    LET k == ask[r].url.key IN
    /\ at[r] = "raw"
    /\ \E a \in {ServeRaw(k, bucket[k], ask[r].tag), Plain(500)} :
         Respond(r, Body(ask[r], a), "none") /\ Copy(k, a)
    /\ UNCHANGED <<bucketVars, ask, response, hit, cache, current>>

(* Mutant: new Request(url), without the method. *)
CacheKeyOfUrl(r) == [url |-> ask[r].url, method |-> "GET"]

CacheKey(r) == [url |-> ask[r].url, method |-> ask[r].method]

(* cache.match: what is there for a GET, or nothing, or a rejection. *)
Match(r) ==
    LET key == CacheKey(r)
        found == key.method = "GET" /\ cache[key.url] # Nothing
    IN
    /\ at[r] = "match"
    /\ \/ found /\ Respond(r, cache[key.url], "none") /\ hit' = [hit EXCEPT ![r] = TRUE]
       \/ ~found /\ at' = [at EXCEPT ![r] = "fetch"] /\ UNCHANGED <<answer, hit>>
       \/ Respond(r, Plain(500), "none") /\ UNCHANGED hit
    /\ UNCHANGED <<bucketVars, ask, response, cache, copies, current>>

(* The worker's own /raw/ answers the resizer, without If-None-Match, or a *)
(* copy of an earlier answer does, however old.                            *)
Fetch(r) ==
    LET k == ask[r].url.key IN
    /\ at[r] = "fetch"
    /\ at' = [at EXCEPT ![r] = "response"]
    /\ \E a \in {ServeRaw(k, v, 0) : v \in {bucket[k]} \cup copies[k]} \cup {Plain(500)} :
         response' = [response EXCEPT ![r] = a] /\ Copy(k, a)
    /\ UNCHANGED <<bucketVars, ask, answer, hit, cache, current>>

Ok(status) == status = 200

(* What the resizer makes of the raw image; it may fail. *)
Resized(r) ==
    IF response[r].status # 200 THEN {response[r]}
    ELSE {Plain(500)} \cup
         {[status |-> 200,
           image |-> [response[r].image EXCEPT !.options = Options(ask[r].url), !.format = f]] :
              f \in Formats(ask[r])}

(* What is not ok goes back as it is; the rest is cached after the answer. *)
Return(r) ==
    /\ at[r] = "response"
    /\ \E resp \in Resized(r) :
         Respond(r, Body(ask[r], resp), IF Ok(resp.status) THEN "put" ELSE "none")
    /\ response' = [response EXCEPT ![r] = Nothing]
    /\ UNCHANGED <<bucketVars, ask, hit, cache, copies, current>>

(* cache.put in waitUntil: it is rejected for a HEAD, and may fail. *)
Put(r) ==
    /\ at[r] = "put"
    /\ at' = [at EXCEPT ![r] = "none"]
    /\ \/ /\ CacheKey(r).method = "GET"
          /\ cache' = [cache EXCEPT ![CacheKey(r).url] = answer[r]]
       \/ UNCHANGED cache
    /\ UNCHANGED <<bucketVars, ask, response, answer, hit, copies, current>>

Next ==
    \/ \E k \in Key : Upload(k) \/ Remove(k)
    \/ \E u \in Url : Evict(u)
    \/ \E r \in Request :
        \/ \E a \in Ask : Arrive(r, a)
        \/ Raw(r) \/ Match(r) \/ Fetch(r) \/ Return(r) \/ Put(r)

Spec == Init /\ [][Next]_vars

--------------------------------------------------------------------------------
(* The types; what is asked of the resizer is within its limits. *)
Answer ==
    [status : {0, 200, 304, 400, 404, 405, 500}, image : Images(1 .. uploads) \cup {NoImage}]

TypeOK ==
    /\ bucket \in [Key -> 0 .. uploads] /\ uploads \in 0 .. MaxUploads
    /\ cache \in [Url -> Answer]
    /\ copies \in [Key -> SUBSET (0 .. uploads)]
    /\ ask \in [Request -> Ask]
    /\ at \in [Request -> {"none", "raw", "match", "fetch", "response", "put"}]
    /\ response \in [Request -> Answer] /\ answer \in [Request -> Answer]
    /\ hit \in [Request -> BOOLEAN]
    /\ current \in [Request -> SUBSET (0 .. uploads)]

(* An image of the object, the size and the quality that u names, and of the *)
(* format unless that is left to the client.                                 *)
Right(u, a) ==
    /\ a.status = 200 /\ a.image # NoImage
    /\ a.image.key = u.key /\ a.image.options = Options(u)
    /\ u.f # "auto" => a.image.format = u.f

(* What is cached for a year is a whole image, and the one its URL names: an *)
(* error, the bodiless answer to a HEAD, or the answer to another URL never  *)
(* gets there, whatever overlaps.                                            *)
CacheIsRight == \A u \in Url : cache[u] # Nothing => Right(u, cache[u])

(* The versions that r can have been answered with: those the bucket held    *)
(* while it was at /raw/, or all that /raw/ has answered with.               *)
Sources(r) == IF ask[r].to = "img" THEN copies[ask[r].url.key] ELSE current[r]

(* Under /raw/ an answer is true of some moment of the request: 404 only if  *)
(* the object was missing then, 304 only if the client has the object of     *)
(* then, an image only of the object of then.  Under /img/ a 404 or an image *)
(* is as old as some answer of /raw/, for the caches before and behind the   *)
(* worker keep what they got; but it is of the object, size, quality and     *)
(* format asked for, and one the client accepts if it was made for him.      *)
AnswersAreTrue ==
    \A r \in Request : Done(r) =>
        /\ answer[r].status = 404 => ask[r].to = "other" \/ 0 \in Sources(r)
        /\ answer[r].status = 304 => ask[r].to = "raw" /\ ask[r].tag \in current[r]
        /\ answer[r].status = 200 /\ ask[r].method = "GET" =>
            /\ answer[r].image # NoImage /\ answer[r].image.key = ask[r].url.key
            /\ answer[r].image.version \in Sources(r)
            /\ ask[r].to = "img" => Right(ask[r].url, answer[r])
            /\ ~hit[r] /\ ask[r].to = "img" => answer[r].image.format \in Formats(ask[r])
================================================================================
