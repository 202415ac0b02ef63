----------------------------- MODULE ImageCdnProofs -----------------------------
(***************************************************************************)
(* What the worker answers and caches is right, for any requests, keys and *)
(* formats.                                                                *)
(***************************************************************************)
EXTENDS ImageCdn, TLAPS

(* A handler that awaits something was not refused; at /raw/ current knows   *)
(* the object there is.                                                      *)
UnderWay(r) ==
    /\ at[r] # "none" => ask[r].url.key \in Key /\ ask[r].method \in {"GET", "HEAD"}
    /\ at[r] \in {"match", "fetch", "response", "put"} => ask[r].to = "img"
    /\ at[r] = "raw" => ask[r].to = "raw" /\ bucket[ask[r].url.key] \in current[r]
    /\ ~Done(r) => ~hit[r]

(* The answer of /raw/ to the resizer. *)
ResponseOK(r) ==
    at[r] = "response" =>
        /\ response[r].status \in {200, 404, 500}
        /\ response[r].status = 404 => 0 \in copies[ask[r].url.key]
        /\ response[r].status = 200 =>
            /\ response[r].image \in Images(1 .. uploads)
            /\ response[r].image.key = ask[r].url.key
            /\ response[r].image.version \in copies[ask[r].url.key]

(* Only an image is put. *)
PutOK(r) == at[r] = "put" => answer[r].status = 200

(* AnswersAreTrue for one request, which names an object. *)
TrueAnswer(r, a) ==
    /\ a.status \in {200, 404} /\ ask[r].to # "other" => ask[r].url.key \in Key
    /\ a.status = 404 => ask[r].to = "other" \/ 0 \in Sources(r)
    /\ a.status = 304 => ask[r].to = "raw" /\ ask[r].tag \in current[r]
    /\ a.status = 200 => ask[r].to # "other"
    /\ a.status = 200 /\ ask[r].method = "GET" =>
        /\ a.image # NoImage /\ a.image.key = ask[r].url.key
        /\ a.image.version \in Sources(r)
        /\ ask[r].to = "img" => Right(ask[r].url, a)
        /\ ~hit[r] /\ ask[r].to = "img" => a.image.format \in Formats(ask[r])

SlotOK(r) ==
    UnderWay(r) /\ ResponseOK(r) /\ PutOK(r) /\ (Done(r) => TrueAnswer(r, answer[r]))

(* What is cached is one of the copies, transformed. *)
CachedIsCopied ==
    \A u \in Url : cache[u] # Nothing => /\ Right(u, cache[u]) /\ u.key \in Key
                                         /\ cache[u].image.version \in copies[u.key]

IInv == TypeOK /\ CachedIsCopied /\ \A r \in Request : SlotOK(r)

(* Copies are never taken back. *)
CopiesGrow == \A k \in Key : copies[k] \subseteq copies'[k]

--------------------------------------------------------------------------------
(* What the parts of an answer are. *)

LEMMA Asks ==
    ASSUME NEW a \in Ask
    PROVE  /\ a.url \in Url /\ a.tag \in Nat /\ a.accept \subseteq Format
           /\ a.url.f \in Format \cup {"auto"} /\ a.url.w \in Int /\ a.url.q \in Int
           /\ Refusal(a) \in {0, 400, 404, 405, 500}
           /\ Refusal(a) = 404 => a.to = "other"
           /\ Refusal(a) = 0 => /\ a.url.key \in Key /\ a.method \in {"GET", "HEAD"}
                                /\ a.to \in {"img", "raw"}
<1>1. /\ a.method \in {"GET", "HEAD", "POST"} /\ a.to \in {"img", "raw", "other"}
      /\ a.url.key \in Key \cup {"missing", "malformed"} /\ a.url.w \in Int /\ a.url.q \in Int
      /\ a.url.f \in Format \cup {"auto"} /\ a.accept \subseteq Format /\ a.tag \in Nat
  BY AskAssumption
<1>2. a.url \in Url
  BY DEF Url
<1> QED BY <1>1, <1>2 DEF Refusal

LEMMA OptionsAreSane ==
    ASSUME NEW u \in Url
    PROVE  Options(u) \in [width : Nat, quality : 1 .. 100]
<1>1. u.w \in Int /\ u.q \in Int
  BY AskAssumption DEF Url
<1> QED BY <1>1 DEF Options, Positive, Quality, ClampInt

LEMMA FormatsAreFormats ==
    ASSUME NEW a \in Ask
    PROVE  /\ Formats(a) \subseteq Format \cup {Original}
           /\ a.url.f # "auto" => Formats(a) = {a.url.f}
BY Asks DEF Formats

LEMMA ImagesGrow ==
    ASSUME NEW m \in Nat, NEW n \in Nat, m <= n
    PROVE  Images(1 .. m) \subseteq Images(1 .. n) /\ NoImage \notin Images(1 .. m)
<1>1. 1 .. m \subseteq 1 .. n /\ 1 .. m \subseteq Nat
  OBVIOUS
<1>2. Images(1 .. m) \subseteq Images(1 .. n) /\ Images(1 .. m) \subseteq Images(Nat)
  BY <1>1 DEF Images
<1> QED BY <1>2, AskAssumption

LEMMA PlainIsAnswer ==
    ASSUME NEW s \in {0, 200, 304, 400, 404, 405, 500}
    PROVE  Plain(s) \in Answer /\ Plain(s).status = s
BY DEF Plain, Answer

LEMMA RawFacts ==
    ASSUME TypeOK, NEW k \in Key, NEW v \in 0 .. uploads, NEW tag \in Nat
    PROVE  /\ ServeRaw(k, v, tag) \in Answer /\ ServeRaw(k, v, tag).status \in {200, 304, 404}
           /\ ServeRaw(k, v, tag).status = 404 => v = 0
           /\ ServeRaw(k, v, tag).status = 304 => v = tag /\ tag # 0
           /\ ServeRaw(k, v, tag).status = 200 =>
               /\ ServeRaw(k, v, tag).image \in Images(1 .. uploads)
               /\ ServeRaw(k, v, tag).image.key = k /\ ServeRaw(k, v, tag).image.version = v
<1>1. uploads \in Nat
  BY DEF TypeOK
<1>2. CASE v = 0
  BY <1>2, PlainIsAnswer DEF ServeRaw
<1>3. CASE v # 0 /\ v = tag
  BY <1>3, PlainIsAnswer DEF ServeRaw
<1>4. CASE v # 0 /\ v # tag
  BY <1>1, <1>4 DEF ServeRaw, Answer, Images
<1> QED BY <1>2, <1>3, <1>4

(* A version that is kept is one the bucket has had. *)
LEMMA CopyKeepsType ==
    ASSUME TypeOK, NEW k \in Key, NEW a \in Answer, Copy(k, a),
           a.status = 200 => a.image \in Images(1 .. uploads)
    PROVE  /\ copies' \in [Key -> SUBSET (0 .. uploads)] /\ CopiesGrow
           /\ a.status = 404 => 0 \in copies'[k]
           /\ a.status = 200 => a.image.version \in copies'[k]
<1> DEFINE new == CASE a.status = 200 -> {a.image.version} [] a.status = 404 -> {0} [] OTHER -> {}
<1>1. a.status = 200 => a.image.version \in 1 .. uploads
  BY DEF Images
<1>2. new \in SUBSET (0 .. uploads)
  BY <1>1 DEF TypeOK
<1>3. copies' = [copies EXCEPT ![k] = @ \cup new]
  BY DEF Copy
<1>4. (a.status = 404 => 0 \in new) /\ (a.status = 200 => a.image.version \in new)
  OBVIOUS
<1> HIDE DEF new
<1>5. copies'[k] = copies[k] \cup new /\ \A l \in Key : l # k => copies'[l] = copies[l]
  BY <1>3 DEF TypeOK
<1>6. copies' \in [Key -> SUBSET (0 .. uploads)]
  BY <1>2, <1>3 DEF TypeOK
<1> QED BY <1>4, <1>5, <1>6 DEF CopiesGrow

LEMMA ResizedFacts ==
    ASSUME IInv, NEW r \in Request, at[r] = "response", NEW resp \in Resized(r)
    PROVE  /\ resp \in Answer /\ resp.status \in {200, 404, 500}
           /\ resp.status = 404 => 0 \in copies[ask[r].url.key]
           /\ resp.status = 200 => /\ Right(ask[r].url, resp)
                                   /\ resp.image.version \in copies[ask[r].url.key]
                                   /\ resp.image.format \in Formats(ask[r])
<1>1. response[r] \in Answer /\ ask[r] \in Ask /\ uploads \in Nat
  BY DEF IInv, TypeOK
<1>2. CASE resp = response[r] /\ response[r].status # 200
  BY <1>1, <1>2 DEF IInv, SlotOK, ResponseOK
<1>3. Plain(500) \in Answer /\ Plain(500).status = 500
  BY PlainIsAnswer
<1>4. ASSUME response[r].status = 200, NEW f \in Formats(ask[r]),
             resp = [status |-> 200, image |-> [response[r].image EXCEPT
                       !.options = Options(ask[r].url), !.format = f]]
      PROVE  /\ resp \in Answer /\ resp.status = 200 /\ Right(ask[r].url, resp)
             /\ resp.image.version \in copies[ask[r].url.key] /\ resp.image.format \in Formats(ask[r])
  <2>1. /\ response[r].image \in Images(1 .. uploads)
        /\ response[r].image.key = ask[r].url.key
        /\ response[r].image.version \in copies[ask[r].url.key]
    BY <1>4 DEF IInv, SlotOK, ResponseOK
  <2>2. Options(ask[r].url) \in [width : Nat, quality : 1 .. 100] /\ f \in Format \cup {Original}
    BY <1>1, Asks, OptionsAreSane, FormatsAreFormats
  <2>3. /\ resp.image \in Images(1 .. uploads) /\ resp.image.key = ask[r].url.key
        /\ resp.image.version = response[r].image.version
        /\ resp.image.options = Options(ask[r].url) /\ resp.image.format = f
    BY <1>4, <2>1, <2>2 DEF Images
  <2>4. resp.image # NoImage
    BY <2>3, <1>1, ImagesGrow
  <2> QED BY <1>1, <1>4, <2>1, <2>3, <2>4, FormatsAreFormats DEF Answer, Right
<1>5. CASE response[r].status # 200
  <2>1. Resized(r) = {response[r]}
    BY <1>5 DEF Resized
  <2> QED BY <1>2, <1>5, <2>1
<1>6. CASE response[r].status = 200
  <2>1. CASE resp = Plain(500)
    <3>1. resp \in Answer /\ resp.status = 500
      BY <1>3, <2>1
    <3> QED BY <3>1
  <2>2. resp # Plain(500) => \E f \in Formats(ask[r]) :
          resp = [status |-> 200, image |-> [response[r].image EXCEPT
                    !.options = Options(ask[r].url), !.format = f]]
    <3>1. Resized(r) = {Plain(500)} \cup
            {[status |-> 200, image |-> [response[r].image EXCEPT
                !.options = Options(ask[r].url), !.format = f]] : f \in Formats(ask[r])}
      BY <1>6 DEF Resized
    <3> QED BY <3>1
  <2>3. CASE resp # Plain(500)
    <3>1. PICK f \in Formats(ask[r]) :
            resp = [status |-> 200, image |-> [response[r].image EXCEPT
                      !.options = Options(ask[r].url), !.format = f]]
      BY <2>2, <2>3
    <3>2. /\ resp \in Answer /\ resp.status = 200 /\ Right(ask[r].url, resp)
          /\ resp.image.version \in copies[ask[r].url.key] /\ resp.image.format \in Formats(ask[r])
      BY <1>4, <1>6, <3>1
    <3> QED BY <3>2
  <2> QED BY <2>1, <2>3
<1> QED BY <1>5, <1>6

LEMMA BodyFacts ==
    ASSUME NEW a \in Ask, NEW x \in Answer
    PROVE  /\ Body(a, x) \in Answer /\ Body(a, x).status = x.status
           /\ a.method = "GET" => Body(a, x) = x
<1>1. x.status \in {0, 200, 304, 400, 404, 405, 500}
  BY DEF Answer
<1> QED BY <1>1, PlainIsAnswer DEF Body

--------------------------------------------------------------------------------
(* Each step keeps IInv. *)

(* A request none of whose variables changes. *)
LEMMA SameSlot ==
    ASSUME NEW s \in Request, SlotOK(s), UNCHANGED bucketVars,
           at'[s] = at[s], ask'[s] = ask[s], response'[s] = response[s],
           answer'[s] = answer[s], hit'[s] = hit[s], current'[s] = current[s], CopiesGrow
    PROVE  SlotOK(s)'
<1>1. UnderWay(s)' /\ PutOK(s)' /\ Done(s)' = Done(s)
  BY DEF SlotOK, UnderWay, PutOK, Done, bucketVars
<1>2. ResponseOK(s)'
  BY DEF SlotOK, UnderWay, ResponseOK, bucketVars, Images, CopiesGrow
<1>3. Done(s) => TrueAnswer(s, answer[s])'
  BY DEF SlotOK, TrueAnswer, Sources, Right, Formats, CopiesGrow
<1> QED BY <1>1, <1>2, <1>3 DEF SlotOK

(* The cache stays what it was. *)
LEMMA SameCache ==
    ASSUME IInv, UNCHANGED cache, CopiesGrow
    PROVE  CachedIsCopied'
BY DEF IInv, CachedIsCopied, CopiesGrow, Right

LEMMA InitKeeps == Init => IInv
<1> SUFFICES ASSUME Init PROVE IInv
  OBVIOUS
<1>1. TypeOK
  <2>1. Nothing \in Answer
    BY PlainIsAnswer DEF Nothing
  <2> QED BY <2>1, AskAssumption DEF Init, TypeOK
<1>2. CachedIsCopied
  BY DEF Init, CachedIsCopied
<1>3. \A r \in Request : SlotOK(r)
  <2>1. Nothing.status = 0
    BY PlainIsAnswer DEF Nothing
  <2>2. \A r \in Request : at[r] = "none" /\ answer[r].status = 0
    BY <2>1 DEF Init
  <2> SUFFICES ASSUME NEW r \in Request PROVE SlotOK(r)
    OBVIOUS
  <2>3. UnderWay(r) /\ ResponseOK(r) /\ PutOK(r)
    BY <2>2 DEF UnderWay, ResponseOK, PutOK, Done
  <2>4. TrueAnswer(r, answer[r])
    BY <2>2 DEF TrueAnswer
  <2> QED BY <2>3, <2>4 DEF SlotOK
<1> QED BY <1>1, <1>2, <1>3 DEF IInv

LEMMA HoldsKeeps ==
    ASSUME IInv, NEW k \in Key, NEW version \in 0 .. uploads', Holds(k, version),
           uploads' \in uploads .. MaxUploads
    PROVE  IInv'
<1>1. /\ TypeOK /\ uploads \in Nat /\ uploads' \in Nat /\ uploads <= uploads'
      /\ uploads' <= MaxUploads /\ 0 .. uploads \subseteq 0 .. uploads'
  BY AskAssumption DEF IInv, TypeOK
<1>2. Images(1 .. uploads) \subseteq Images(1 .. uploads')
  BY <1>1, ImagesGrow
<1>3. \A x \in Answer : x \in Answer'
  BY <1>2 DEF Answer, Images
<1>4. UNCHANGED <<requestVars, cache, copies>>
  BY DEF Holds
<1>5. \A r \in Request : /\ current[r] \subseteq current'[r] /\ Done(r)' = Done(r)
                         /\ current'[r] \subseteq 0 .. uploads'
                         /\ at[r] = "raw" /\ ask[r].url.key = k => version \in current'[r]
  BY <1>1, <1>4 DEF Holds, TypeOK, Done, requestVars
<1>6. TypeOK'
  <2>1. bucket' \in [Key -> 0 .. uploads'] /\ uploads' \in 0 .. MaxUploads
    BY <1>1 DEF TypeOK, Holds
  <2>2. current' \in [Request -> SUBSET (0 .. uploads')]
    BY <1>5 DEF Holds
  <2>3. cache' \in [Url -> Answer'] /\ response' \in [Request -> Answer']
        /\ answer' \in [Request -> Answer']
    BY <1>1, <1>3, <1>4 DEF TypeOK, requestVars
  <2>4. copies' \in [Key -> SUBSET (0 .. uploads')]
    BY <1>1, <1>4 DEF TypeOK
  <2> QED BY <1>1, <1>4, <2>1, <2>2, <2>3, <2>4 DEF TypeOK, requestVars
<1>7. CachedIsCopied'
  BY <1>4, SameCache DEF CopiesGrow
<1>8. ASSUME NEW r \in Request PROVE SlotOK(r)'
  <2>1. UnderWay(r)'
    <3>1. at[r] = "raw" => ask[r].url.key \in Key /\ bucket'[ask[r].url.key] \in current'[r]
      BY <1>1, <1>5 DEF IInv, SlotOK, UnderWay, Holds, TypeOK, Done
    <3> QED BY <3>1, <1>4, <1>5 DEF IInv, SlotOK, UnderWay, requestVars
  <2>2. ResponseOK(r)' /\ PutOK(r)'
    BY <1>2, <1>4, <1>5 DEF IInv, SlotOK, ResponseOK, PutOK, requestVars
  <2>3. Done(r)' => TrueAnswer(r, answer[r])'
    BY <1>4, <1>5 DEF IInv, SlotOK, TrueAnswer, Sources, requestVars, Right, Formats
  <2> QED BY <2>1, <2>2, <2>3 DEF SlotOK
<1> QED BY <1>6, <1>7, <1>8 DEF IInv

LEMMA BucketKeeps ==
    ASSUME IInv, NEW k \in Key, Upload(k) \/ Remove(k)
    PROVE  IInv'
<1>1. uploads \in Nat /\ uploads <= MaxUploads
  BY AskAssumption DEF IInv, TypeOK
<1>2. CASE Upload(k)
  <2>1. uploads' \in 0 .. uploads' /\ uploads' \in uploads .. MaxUploads
    BY <1>1, <1>2, AskAssumption DEF Upload
  <2>2. Holds(k, uploads')
    BY <1>2 DEF Upload
  <2> QED BY <2>1, <2>2, HoldsKeeps
<1>3. CASE Remove(k)
  <2>1. 0 \in 0 .. uploads' /\ uploads' \in uploads .. MaxUploads /\ Holds(k, 0)
    BY <1>1, <1>3, AskAssumption DEF Remove
  <2> QED BY <2>1, HoldsKeeps
<1> QED BY <1>2, <1>3

LEMMA EvictKeeps ==
    ASSUME IInv, NEW u \in Url, Evict(u)
    PROVE  IInv'
<1>1. Nothing \in Answer
  BY PlainIsAnswer DEF Nothing
<1>2. TypeOK'
  BY <1>1 DEF IInv, TypeOK, Evict, bucketVars, requestVars, Answer, Images
<1>3. CachedIsCopied'
  BY DEF IInv, TypeOK, CachedIsCopied, Evict, Right
<1>4. \A r \in Request : SlotOK(r)'
  BY SameSlot DEF IInv, Evict, requestVars, CopiesGrow
<1> QED BY <1>2, <1>3, <1>4 DEF IInv
LEMMA ArriveKeeps ==
    ASSUME IInv, NEW r \in Request, NEW a \in Ask, Arrive(r, a)
    PROVE  IInv'
<1>1. TypeOK /\ UNCHANGED <<bucketVars, response, cache, copies>> /\ UNCHANGED bucketVars
  BY DEF IInv, Arrive
<1>2. /\ ask' = [ask EXCEPT ![r] = a] /\ hit' = [hit EXCEPT ![r] = FALSE]
      /\ answer' = [answer EXCEPT ![r] = Plain(Refusal(a))]
      /\ current' = [current EXCEPT ![r] = {bucket[k] : k \in Key \cap {a.url.key}}]
  BY DEF Arrive
<1>3. PICK next : /\ at' = [at EXCEPT ![r] = next]
                  /\ next = CASE Refusal(a) # 0 -> "none"
                              [] Refusal(a) = 0 /\ a.to = "img" -> "match"
                              [] OTHER -> "raw"
  BY DEF Arrive
<1>4. next \in {"none", "match", "raw"} /\ (Refusal(a) # 0 => next = "none")
      /\ (next = "match" => a.to = "img") /\ (next # "none" => Refusal(a) = 0)
      /\ (next = "raw" => a.to = "raw")
  BY <1>3, Asks
<1>5. Plain(Refusal(a)) \in Answer /\ Plain(Refusal(a)).status = Refusal(a)
  BY Asks, PlainIsAnswer
<1>6. TypeOK'
  <2>1. {bucket[k] : k \in Key \cap {a.url.key}} \subseteq 0 .. uploads
    BY <1>1 DEF TypeOK
  <2>2. Answer' = Answer
    BY <1>1 DEF Answer, bucketVars, Images
  <2> QED BY <1>1, <1>2, <1>3, <1>4, <1>5, <2>1, <2>2 DEF TypeOK, bucketVars
<1>7. CachedIsCopied'
  BY <1>1, SameCache DEF CopiesGrow
<1>8. SlotOK(r)'
  <2>1. /\ at'[r] = next /\ ask'[r] = a /\ hit'[r] = FALSE /\ answer'[r].status = Refusal(a)
        /\ current'[r] = {bucket[k] : k \in Key \cap {a.url.key}}
    BY <1>1, <1>2, <1>3, <1>5 DEF TypeOK
  <2>2. Refusal(a) # 0 => next = "none"
    BY <1>4
  <2>3. next # "none" => a.url.key \in Key /\ a.method \in {"GET", "HEAD"}
    BY <1>4, Asks
  <2>4. UnderWay(r)'
    BY <1>1, <1>4, <2>1, <2>3 DEF UnderWay, Done, bucketVars
  <2>5. Refusal(a) \notin {200, 304} /\ (Refusal(a) = 404 => a.to = "other")
    BY Asks
  <2>6. TrueAnswer(r, answer[r])'
    BY <2>1, <2>5 DEF TrueAnswer
  <2> QED BY <1>4, <2>1, <2>4, <2>6 DEF SlotOK, ResponseOK, PutOK
<1>9. ASSUME NEW s \in Request, s # r PROVE SlotOK(s)'
  BY <1>1, <1>2, <1>3, <1>9, SameSlot DEF IInv, TypeOK, CopiesGrow
<1> QED BY <1>6, <1>7, <1>8, <1>9 DEF IInv

(* A step of the worker that answers r, or leaves it under way; the other    *)
(* requests, the bucket and what is asked stay the same, copies may come.    *)
LEMMA WorkerKeeps ==
    ASSUME IInv, NEW r \in Request, UNCHANGED <<bucketVars, ask, current>>,
           NEW next \in {"none", "fetch", "response", "put"},
           NEW resp \in Answer, NEW a \in Answer, NEW h \in BOOLEAN,
           at' = [at EXCEPT ![r] = next], response' = [response EXCEPT ![r] = resp],
           answer' = [answer EXCEPT ![r] = a], hit' = [hit EXCEPT ![r] = h],
           cache' \in [Url -> Answer], copies' \in [Key -> SUBSET (0 .. uploads)], CopiesGrow,
           CachedIsCopied', SlotOK(r)'
    PROVE  IInv'
<1>1. TypeOK /\ UNCHANGED bucketVars
  BY DEF IInv
<1>2. TypeOK'
  <2>1. Answer' = Answer
    BY <1>1 DEF Answer, bucketVars, Images
  <2> QED BY <1>1, <2>1 DEF TypeOK, bucketVars
<1>3. ASSUME NEW s \in Request, s # r PROVE SlotOK(s)'
  BY <1>1, <1>3, SameSlot DEF IInv, TypeOK
<1> QED BY <1>2, <1>3 DEF IInv
LEMMA RawKeeps ==
    ASSUME IInv, NEW r \in Request, Raw(r)
    PROVE  IInv'
<1> DEFINE key == ask[r].url.key
<1>1. /\ TypeOK /\ at[r] = "raw" /\ ask[r] \in Ask /\ SlotOK(r)
      /\ UNCHANGED <<bucketVars, ask, response, hit, cache, current>> /\ UNCHANGED bucketVars
  BY DEF IInv, TypeOK, Raw
<1>2. /\ key \in Key /\ ask[r].tag \in Nat /\ ~hit[r] /\ ask[r].to = "raw"
      /\ bucket[key] \in current[r] /\ bucket[key] \in 0 .. uploads
  BY <1>1, Asks DEF SlotOK, UnderWay, Done, TypeOK
<1>3. PICK x \in {ServeRaw(key, bucket[key], ask[r].tag), Plain(500)} :
        Respond(r, Body(ask[r], x), "none") /\ Copy(key, x)
  BY DEF Raw
<1>4. /\ x \in Answer /\ x.status \in {200, 304, 404, 500}
      /\ x.status = 404 => 0 \in current[r]
      /\ x.status = 304 => ask[r].tag \in current[r]
      /\ x.status = 200 => /\ x.image \in Images(1 .. uploads) /\ x.image.key = key
                           /\ x.image.version \in current[r]
  <2>1. CASE x = ServeRaw(key, bucket[key], ask[r].tag)
    BY <2>1, <1>1, <1>2, RawFacts
  <2>2. CASE x = Plain(500)
    BY <2>2, PlainIsAnswer
  <2> QED BY <2>1, <2>2
<1>5. PICK a \in Answer : a = Body(ask[r], x) /\ a.status = x.status
                          /\ (ask[r].method = "GET" => a = x)
  BY <1>1, <1>4, BodyFacts
<1>6. at' = [at EXCEPT ![r] = "none"] /\ answer' = [answer EXCEPT ![r] = a]
  BY <1>3, <1>5 DEF Respond
<1>7. at'[r] = "none" /\ answer'[r] = a
  BY <1>1, <1>6 DEF TypeOK
<1>8. x.status = 200 => x.image # NoImage
  BY <1>1, <1>4, ImagesGrow DEF TypeOK
<1>9. copies' \in [Key -> SUBSET (0 .. uploads)] /\ CopiesGrow
  BY <1>1, <1>2, <1>3, <1>4, CopyKeepsType
<1>10. SlotOK(r)'
  <2>1. TrueAnswer(r, answer[r])'
    BY <1>1, <1>2, <1>4, <1>5, <1>7, <1>8 DEF TrueAnswer, Sources
  <2> QED BY <1>7, <2>1 DEF SlotOK, UnderWay, ResponseOK, PutOK, Done
<1>11. CachedIsCopied' /\ cache' \in [Url -> Answer]
  BY <1>1, <1>9, SameCache DEF TypeOK
<1>12. response' = [response EXCEPT ![r] = response[r]] /\ response[r] \in Answer
       /\ hit' = [hit EXCEPT ![r] = hit[r]] /\ hit[r] \in BOOLEAN
  BY <1>1 DEF TypeOK
<1> QED BY <1>1, <1>6, <1>9, <1>10, <1>11, <1>12, WorkerKeeps

LEMMA MatchKeeps ==
    ASSUME IInv, NEW r \in Request, Match(r)
    PROVE  IInv'
<1>1. /\ TypeOK /\ at[r] = "match" /\ ask[r] \in Ask /\ SlotOK(r)
      /\ UNCHANGED <<bucketVars, ask, response, cache, copies, current>> /\ UNCHANGED bucketVars
  BY DEF IInv, TypeOK, Match
<1>2. /\ copies' \in [Key -> SUBSET (0 .. uploads)] /\ CopiesGrow
      /\ CachedIsCopied' /\ cache' \in [Url -> Answer]
  BY <1>1, SameCache DEF TypeOK, CopiesGrow
<1>3. /\ response' = [response EXCEPT ![r] = response[r]] /\ response[r] \in Answer
      /\ answer[r] \in Answer /\ hit[r] \in BOOLEAN
      /\ answer = [answer EXCEPT ![r] = answer[r]] /\ hit = [hit EXCEPT ![r] = hit[r]]
  BY <1>1 DEF TypeOK
<1>4. ASSUME NEW a \in Answer, NEW h \in BOOLEAN, Respond(r, a, "none"),
             hit' = [hit EXCEPT ![r] = h], \/ /\ h /\ Right(ask[r].url, a) /\ a.image.version \in copies[ask[r].url.key]
                \/ a.status = 500
      PROVE  IInv'
  <2>1. at' = [at EXCEPT ![r] = "none"] /\ answer' = [answer EXCEPT ![r] = a]
    BY <1>4 DEF Respond
  <2>2. at'[r] = "none" /\ answer'[r] = a /\ hit'[r] = h
    BY <1>1, <1>4, <2>1 DEF TypeOK
  <2>3. TrueAnswer(r, answer[r])'
    <3>1. ask[r].url.key \in Key /\ ask[r].to = "img"
      BY <1>1 DEF SlotOK, UnderWay
    <3> QED BY <1>1, <1>4, <2>2, <3>1 DEF TrueAnswer, Right, Sources
  <2>4. SlotOK(r)'
    BY <2>2, <2>3 DEF SlotOK, UnderWay, ResponseOK, PutOK, Done
  <2>5. UNCHANGED <<bucketVars, ask, current>> /\ hit' = [hit EXCEPT ![r] = h]
        /\ response' = [response EXCEPT ![r] = response[r]] /\ response[r] \in Answer
    BY <1>1, <1>3, <1>4
  <2> QED BY <1>2, <2>1, <2>4, <2>5, WorkerKeeps
<1>5. CASE /\ ask[r].method = "GET" /\ cache[ask[r].url] # Nothing
           /\ Respond(r, cache[ask[r].url], "none") /\ hit' = [hit EXCEPT ![r] = TRUE]
  <2>1. ask[r].url \in Url
    BY <1>1, Asks
  <2>2. /\ cache[ask[r].url] \in Answer /\ Right(ask[r].url, cache[ask[r].url])
        /\ cache[ask[r].url].image.version \in copies[ask[r].url.key]
    BY <1>1, <1>5, <2>1 DEF IInv, TypeOK, CachedIsCopied
  <2> QED BY <1>4, <1>5, <2>2
<1>6. CASE at' = [at EXCEPT ![r] = "fetch"] /\ UNCHANGED <<answer, hit>>
  <2>1. at'[r] = "fetch"
    BY <1>1, <1>6 DEF TypeOK
  <2>2. SlotOK(r)'
    BY <1>1, <1>6, <2>1 DEF SlotOK, UnderWay, ResponseOK, PutOK, Done, bucketVars
  <2> QED BY <1>1, <1>2, <1>3, <1>6, <2>2, WorkerKeeps
<1>7. CASE Respond(r, Plain(500), "none") /\ UNCHANGED hit
  <2>1. Plain(500) \in Answer /\ Plain(500).status = 500
    BY PlainIsAnswer
  <2> QED BY <1>3, <1>4, <1>7, <2>1
<1> QED BY <1>5, <1>6, <1>7 DEF Match, CacheKey

LEMMA ResponseKeeps ==
    ASSUME IInv, NEW r \in Request, NEW x \in Answer,
           UNCHANGED <<bucketVars, ask, current, answer, hit>>,
           at' = [at EXCEPT ![r] = "response"], response' = [response EXCEPT ![r] = x],
           copies' \in [Key -> SUBSET (0 .. uploads)], CopiesGrow,
           CachedIsCopied', cache' \in [Url -> Answer], SlotOK(r)'
    PROVE  IInv'
<1>1. /\ answer' = [answer EXCEPT ![r] = answer[r]] /\ answer[r] \in Answer
      /\ hit' = [hit EXCEPT ![r] = hit[r]] /\ hit[r] \in BOOLEAN
  BY DEF IInv, TypeOK
<1> QED BY <1>1, WorkerKeeps

LEMMA FetchKeeps ==
    ASSUME IInv, NEW r \in Request, Fetch(r)
    PROVE  IInv'
<1> DEFINE key == ask[r].url.key
<1>1. /\ TypeOK /\ at[r] = "fetch" /\ ask[r] \in Ask /\ SlotOK(r)
      /\ at' = [at EXCEPT ![r] = "response"]
      /\ UNCHANGED <<bucketVars, ask, answer, hit, cache, current>> /\ UNCHANGED bucketVars
  BY DEF IInv, TypeOK, Fetch
<1>2. key \in Key /\ ask[r].to = "img" /\ {bucket[key]} \cup copies[key] \subseteq 0 .. uploads
  BY <1>1 DEF SlotOK, UnderWay, TypeOK
<1>3. PICK x \in {ServeRaw(key, v, 0) : v \in {bucket[key]} \cup copies[key]} \cup {Plain(500)} :
        response' = [response EXCEPT ![r] = x] /\ Copy(key, x)
  BY DEF Fetch
<1>4. /\ x \in Answer /\ x.status \in {200, 404, 500}
      /\ x.status = 200 => x.image \in Images(1 .. uploads) /\ x.image.key = key
  <2>1. ASSUME NEW v \in 0 .. uploads, x = ServeRaw(key, v, 0)
        PROVE  /\ x \in Answer /\ x.status \in {200, 404, 500}
               /\ x.status = 200 => x.image \in Images(1 .. uploads) /\ x.image.key = key
    BY <2>1, <1>1, <1>2, RawFacts
  <2>2. CASE x = Plain(500)
    BY <2>2, PlainIsAnswer
  <2> QED BY <1>2, <2>1, <2>2
<1>5. at'[r] = "response" /\ response'[r] = x
  BY <1>1, <1>3 DEF TypeOK
<1>6. /\ copies' \in [Key -> SUBSET (0 .. uploads)] /\ CopiesGrow
      /\ x.status = 404 => 0 \in copies'[key]
      /\ x.status = 200 => x.image.version \in copies'[key]
  BY <1>1, <1>2, <1>3, <1>4, CopyKeepsType
<1>7. ResponseOK(r)'
  BY <1>1, <1>4, <1>5, <1>6 DEF ResponseOK, bucketVars, Images
<1>8. SlotOK(r)'
  BY <1>1, <1>5, <1>7 DEF SlotOK, UnderWay, PutOK, Done, bucketVars
<1>9. CachedIsCopied' /\ cache' \in [Url -> Answer]
  BY <1>1, <1>6, SameCache DEF TypeOK
<1>10. UNCHANGED <<bucketVars, ask, current, answer, hit>>
  BY <1>1
<1>11. at' = [at EXCEPT ![r] = "response"]
  BY <1>1
<1> QED BY <1>3, <1>4, <1>6, <1>8, <1>9, <1>10, <1>11, ResponseKeeps

LEMMA ReturnKeeps ==
    ASSUME IInv, NEW r \in Request, Return(r)
    PROVE  IInv'
<1>1. /\ TypeOK /\ at[r] = "response" /\ ask[r] \in Ask /\ SlotOK(r)
      /\ response' = [response EXCEPT ![r] = Nothing] /\ Nothing \in Answer
      /\ UNCHANGED <<bucketVars, ask, hit, cache, copies, current>> /\ UNCHANGED bucketVars
  BY PlainIsAnswer DEF IInv, TypeOK, Return, Nothing
<1>2. ~hit[r] /\ ask[r].to = "img" /\ ask[r].url.key \in Key /\ ask[r].method \in {"GET", "HEAD"}
  BY <1>1 DEF SlotOK, UnderWay, Done
<1>3. PICK resp \in Resized(r) :
        Respond(r, Body(ask[r], resp), IF Ok(resp.status) THEN "put" ELSE "none")
  BY DEF Return
<1>4. /\ resp \in Answer /\ resp.status \in {200, 404, 500}
      /\ resp.status = 404 => 0 \in copies[ask[r].url.key]
      /\ resp.status = 200 => /\ Right(ask[r].url, resp)
                              /\ resp.image.version \in copies[ask[r].url.key]
                              /\ resp.image.format \in Formats(ask[r])
  BY <1>1, ResizedFacts
<1>5. PICK a \in Answer : a = Body(ask[r], resp) /\ a.status = resp.status
                          /\ (ask[r].method = "GET" => a = resp)
  BY <1>1, <1>4, BodyFacts
<1>6. PICK next \in {"put", "none"} : next = IF Ok(resp.status) THEN "put" ELSE "none"
  OBVIOUS
<1>7. at' = [at EXCEPT ![r] = next] /\ answer' = [answer EXCEPT ![r] = a]
  BY <1>3, <1>5, <1>6 DEF Respond
<1>8. at'[r] = next /\ answer'[r] = a
  BY <1>1, <1>7 DEF TypeOK
<1>9. TrueAnswer(r, answer[r])'
  BY <1>1, <1>2, <1>4, <1>5, <1>8 DEF TrueAnswer, Sources, Right, Formats
<1>10. UnderWay(r)' /\ ResponseOK(r)' /\ PutOK(r)'
  BY <1>1, <1>2, <1>5, <1>6, <1>8 DEF UnderWay, ResponseOK, PutOK, Done, Ok
<1>11. /\ copies' \in [Key -> SUBSET (0 .. uploads)] /\ CopiesGrow
       /\ CachedIsCopied' /\ cache' \in [Url -> Answer]
  BY <1>1, SameCache DEF TypeOK, CopiesGrow
<1>12. hit' = [hit EXCEPT ![r] = hit[r]] /\ hit[r] \in BOOLEAN
  BY <1>1 DEF TypeOK
<1>13. SlotOK(r)'
  BY <1>9, <1>10 DEF SlotOK
<1> QED BY <1>1, <1>7, <1>11, <1>12, <1>13, WorkerKeeps

LEMMA PutKeeps ==
    ASSUME IInv, NEW r \in Request, Put(r)
    PROVE  IInv'
<1>1. /\ TypeOK /\ at[r] = "put" /\ ask[r] \in Ask /\ SlotOK(r)
      /\ at' = [at EXCEPT ![r] = "none"]
      /\ UNCHANGED <<bucketVars, ask, response, answer, hit, copies, current>> /\ UNCHANGED bucketVars
  BY DEF IInv, TypeOK, Put
<1>2. answer[r] \in Answer /\ ask[r].url \in Url
  BY <1>1, Asks DEF TypeOK
<1>3. at'[r] = "none"
  BY <1>1 DEF TypeOK
<1>4. SlotOK(r)'
  BY <1>1, <1>3 DEF SlotOK, UnderWay, ResponseOK, PutOK, Done, TrueAnswer, Sources, Right, Formats
<1>5. answer[r].status = 200 /\ TrueAnswer(r, answer[r]) /\ ask[r].to = "img"
  BY <1>1 DEF SlotOK, PutOK, UnderWay, Done
<1>6. ask[r].method = "GET" => /\ Right(ask[r].url, answer[r]) /\ ask[r].url.key \in Key
                               /\ answer[r].image.version \in copies[ask[r].url.key]
  BY <1>5 DEF TrueAnswer, Sources
<1>7. cache' \in [Url -> Answer] /\ CachedIsCopied'
  <2>1. CASE ask[r].method = "GET" /\ cache' = [cache EXCEPT ![ask[r].url] = answer[r]]
    <3>1. cache' \in [Url -> Answer]
      BY <1>1, <1>2, <2>1 DEF TypeOK
    <3>2. \A u \in Url : cache'[u] = IF u = ask[r].url THEN answer[r] ELSE cache[u]
      BY <1>1, <2>1 DEF TypeOK
    <3>3. UNCHANGED copies
      BY <1>1
    <3> QED BY <3>1, <3>2, <3>3, <2>1, <1>6 DEF IInv, CachedIsCopied, Right
  <2>2. CASE UNCHANGED cache
    BY <1>1, <2>2, SameCache DEF TypeOK, CopiesGrow
  <2> QED BY <2>1, <2>2 DEF Put, CacheKey
<1>8. /\ response' = [response EXCEPT ![r] = response[r]] /\ response[r] \in Answer
      /\ answer' = [answer EXCEPT ![r] = answer[r]]
      /\ hit' = [hit EXCEPT ![r] = hit[r]] /\ hit[r] \in BOOLEAN
  BY <1>1 DEF TypeOK
<1>9. copies' \in [Key -> SUBSET (0 .. uploads)] /\ CopiesGrow
  BY <1>1 DEF TypeOK, CopiesGrow
<1> QED BY <1>1, <1>2, <1>4, <1>7, <1>8, <1>9, WorkerKeeps

LEMMA StepsKeep == IInv /\ [Next]_vars => IInv'
<1> SUFFICES ASSUME IInv, [Next]_vars PROVE IInv'
  OBVIOUS
<1>1. CASE Next
  BY <1>1, BucketKeeps, EvictKeeps, ArriveKeeps, RawKeeps, MatchKeeps, FetchKeeps,
     ReturnKeeps, PutKeeps DEF Next
<1>2. CASE UNCHANGED vars
  <2>1. TypeOK'
    BY <1>2 DEF IInv, TypeOK, vars, bucketVars, requestVars, Answer, Images
  <2>2. CachedIsCopied'
    BY <1>2, SameCache DEF vars, CopiesGrow
  <2>3. \A r \in Request : SlotOK(r)'
    BY <1>2, SameSlot DEF IInv, vars, requestVars, CopiesGrow
  <2> QED BY <2>1, <2>2, <2>3 DEF IInv
<1> QED BY <1>1, <1>2

--------------------------------------------------------------------------------
(* Types, and a quality within the limits of the resizer for every URL.      *)
THEOREM TypeCorrect == Spec => []TypeOK
<1>1. IInv => TypeOK
  BY DEF IInv
<1> QED BY <1>1, InitKeeps, StepsKeep, PTL DEF Spec

(* The cache never holds an error, a bodiless answer or an image of another  *)
(* URL, with any number of requests and URLs.                                *)
THEOREM NothingWrongIsCached == Spec => []CacheIsRight
<1>1. IInv => CacheIsRight
  BY DEF IInv, CachedIsCopied, CacheIsRight
<1> QED BY <1>1, InitKeeps, StepsKeep, PTL DEF Spec

(* What /raw/ answers is true of the bucket at some moment of the request,   *)
(* and every image under /img/, cached or not, is made of one that /raw/     *)
(* has answered with, as its URL says.                                       *)
THEOREM AnswersHold == Spec => []AnswersAreTrue
<1>1. IInv => AnswersAreTrue
  BY DEF IInv, SlotOK, TrueAnswer, AnswersAreTrue
<1> QED BY <1>1, InitKeeps, StepsKeep, PTL DEF Spec
================================================================================
