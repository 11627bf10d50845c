----------------------------- MODULE ProxyServer -----------------------------
(***************************************************************************)
(* internal/server/server.go and params.go: the read path of the proxy.    *)
(*                                                                         *)
(* Each request runs ServeHTTP in a goroutine of its own.  An action of a  *)
(* request is the code from one answer of the S3 client to its next call:  *)
(* requests share nothing but the buckets, so what runs between two S3     *)
(* requests of one goroutine is invisible to the others.  A request slot   *)
(* serves any number of requests, one after another.                       *)
(*                                                                         *)
(* What a URL means is fixed by pure string functions (module UrlKeys); to *)
(* the request handler a URL is the record they make of it:                *)
(*   shape  which pattern it matches                                       *)
(*   raw    the path without its leading "/"                               *)
(*   norm   the key its rendering is stored under                          *)
(*   cands  the keys its original may live under, best first               *)
(*   opts   the rendering it asks for                                      *)
(*   flaws  what is wrong with it (processing-option URLs only)            *)
(*   pass   serve the original untouched (processing-option URLs only)     *)
(***************************************************************************)
EXTENDS Deployment, Sequences

CONSTANTS
    Urls,           \* the URLs clients request
    NoUrl,          \* not a URL
    Prepared        \* Prepared[k]: what batches may have stored under key k

Shapes == {"noext", "resize", "file", "folder", "param", "other"}

\* Mutant: a bad signature is answered with a status of its own.
GatesWith401 == << [flaw |-> "short",     status |-> 404],
                   [flaw |-> "signature", status |-> 401],
                   [flaw |-> "option",    status |-> 400],
                   [flaw |-> "no source", status |-> 404],
                   [flaw |-> "dimension", status |-> 400],
                   [flaw |-> "tail",      status |-> 404] >>

\* What can be wrong with a processing-option URL, in the order it is noticed,
\* and the status that answers it.
Gates == << [flaw |-> "short",     status |-> 404],
            [flaw |-> "signature", status |-> 403],
            [flaw |-> "option",    status |-> 400],
            [flaw |-> "no source", status |-> 404],
            [flaw |-> "dimension", status |-> 400],
            [flaw |-> "tail",      status |-> 404] >>

Flaws == {Gates[i].flaw : i \in DOMAIN Gates}

Url == [shape : Shapes, raw : Keys, norm : Keys, cands : Seq(Keys),
        opts : Options \union {AsIs}, flaws : SUBSET Flaws, pass : BOOLEAN]

ASSUME UrlAssumption ==
    /\ Urls \subseteq Url
    /\ NoUrl \notin Urls
    /\ \A u \in Urls : /\ u.shape \in {"noext", "other"} <=> u.cands = << >>
                       /\ u.shape = "file" => Len(u.cands) = 1
                       /\ u.pass => u.shape = "param"

VARIABLE req        \* req[p]: how far request slot p has got

vars == <<bucket, catalog, call, faults, req, mode>>

NoReq == [pc |-> "idle", url |-> NoUrl, reader |-> "origin", idx |-> 1,
          obj |-> Absent, put |-> 0, status |-> 0,
          fresh |-> FALSE, clean |-> TRUE, had |-> {}, kept |-> FALSE]

-----------------------------------------------------------------------------
\* The client read first, by mode and by the X-Use-Cache header.
EffectiveReadClient(header) ==
    IF \/ mode = "live" /\ header # "false"
       \/ mode = "shadow" /\ header = "true"
      THEN CacheClient
      ELSE "origin"

\* Mutant: a live deployment no longer writes the origin.
PutTargetsLiveOnce == CASE mode = "shadow" -> <<"origin", "cache">>
                        [] OTHER           -> <<CacheClient>>

\* Where putBoth writes, in order.
PutTargets == CASE mode = "off"    -> <<CacheClient>>
                [] mode = "shadow" -> <<"origin", "cache">>
                [] mode = "live"   -> <<"cache", "origin">>

PutTo(p, i, k, data) == PutObject(p, PutTargets[i], k, data)

Ready(p, pcs) == req[p].pc \in pcs /\ Returned(p)

\* Has no S3 call of p failed, the one that has just returned included?
StillClean(p) == req[p].clean /\ call[p].res # "error"

\* The response is written and the goroutine ends.
Respond(p, status, obj, fresh) ==
    /\ req' = [req EXCEPT ![p] = [@ EXCEPT !.pc = "done", !.status = status, !.obj = obj,
                                           !.fresh = fresh, !.clean = StillClean(p)]]
    /\ HangUp(p)

-----------------------------------------------------------------------------
(* ServeHTTP                                                               *)

\* Mutant: the second write uses the key the URL spells out.
TargetKeyRaw(u) == u.raw

\* The key that what u asks for is written under.
TargetKey(u) == IF u.shape = "file" THEN u.raw ELSE u.norm

\* What a new request for u finds: the candidates that exist as it arrives (had),
\* and whether its reader already shows what it asks for (kept), are remembered
\* to state what it may answer and what it need not make.
Arrive(p, u, pc, reader) ==
    req' = [req EXCEPT ![p] =
              [NoReq EXCEPT !.pc = pc, !.url = u, !.reader = reader,
                            !.had = {i \in DOMAIN u.cands :
                                       View("origin")[u.cands[i]] # Absent},
                            !.kept = ~ u.pass /\ View(reader)[TargetKey(u)] # Absent]]

Free(p) == req[p].pc \in {"idle", "done"}

\* A request turned away before any S3 call.
TurnAway(p, u, status) ==
    /\ req' = [req EXCEPT ![p] = [NoReq EXCEPT !.pc = "done", !.url = u, !.status = status]]
    /\ HangUp(p)
    /\ StoreUnchanged

NoExtension(p, u) ==
    /\ Free(p) /\ u.shape = "noext"
    /\ TurnAway(p, u, 404)

\* The speculative read of the raw key.
Speculate(p, u, header) ==
    /\ Free(p) /\ u.shape \in {"resize", "file", "folder", "other"}
    /\ Arrive(p, u, "speculate", EffectiveReadClient(header))
    /\ Get(p, EffectiveReadClient(header), u.raw)
    /\ StoreUnchanged

\* Any of the reads of a rendering succeeds: it is served as it is.
CacheHit(p) ==
    /\ Ready(p, {"speculate", "recheck", "lookup"}) /\ Got(p)
    /\ Respond(p, 200, call[p].data, FALSE)
    /\ StoreUnchanged

\* The i-th place the original may be in, always read from the origin.
TryCandidate(p, i) ==
    /\ Get(p, "origin", req[p].url.cands[i])
    /\ req' = [req EXCEPT ![p] = [@ EXCEPT !.pc = "candidate", !.idx = i,
                                           !.clean = StillClean(p)]]

\* Mutant: the stored key is not looked up where it differs from the URL.
SpeculateMissUnchecked(p) ==
    LET u == req[p].url IN
    /\ Ready(p, {"speculate"}) /\ ~ Got(p)
    /\ \/ /\ u.shape \in {"resize", "folder"}
          /\ TryCandidate(p, 1)
       \/ /\ u.shape = "file"
          /\ Get(p, "origin", u.cands[1])
          /\ req' = [req EXCEPT ![p] = [@ EXCEPT !.pc = "file", !.clean = StillClean(p)]]
       \/ /\ u.shape = "other"
          /\ Respond(p, 404, Absent, FALSE)
    /\ StoreUnchanged

\* A read that fails for any reason is taken for a miss (fail-open).
SpeculateMiss(p) ==
    LET u == req[p].url IN
    /\ Ready(p, {"speculate"}) /\ ~ Got(p)
    /\ \/ /\ u.shape = "resize" \/ (u.shape = "folder" /\ u.norm = u.raw)
          /\ TryCandidate(p, 1)
       \/ /\ u.shape = "folder" /\ u.norm # u.raw
          /\ Get(p, req[p].reader, u.norm)
          /\ req' = [req EXCEPT ![p] = [@ EXCEPT !.pc = "recheck", !.clean = StillClean(p)]]
       \/ /\ u.shape = "file"
          /\ Get(p, "origin", u.cands[1])
          /\ req' = [req EXCEPT ![p] = [@ EXCEPT !.pc = "file", !.clean = StillClean(p)]]
       \/ /\ u.shape = "other"
          /\ Respond(p, 404, Absent, FALSE)
    /\ StoreUnchanged

\* Mutant: the best place is skipped.
RecheckMissSkipsBest(p) ==
    /\ Ready(p, {"recheck", "lookup"}) /\ ~ Got(p)
    /\ TryCandidate(p, 2)
    /\ StoreUnchanged

RecheckMiss(p) ==
    /\ Ready(p, {"recheck", "lookup"}) /\ ~ Got(p)
    /\ TryCandidate(p, 1)
    /\ StoreUnchanged

-----------------------------------------------------------------------------
(* handleParams: the gates, then the same path with one lookup             *)

RejectParam(p, u) ==
    /\ Free(p) /\ u.shape = "param"
    /\ \E i \in DOMAIN Gates :
         /\ Gates[i].flaw \in u.flaws
         /\ \A j \in 1 .. i - 1 : Gates[j].flaw \notin u.flaws
         /\ TurnAway(p, u, Gates[i].status)

\* A processed variant is looked up under its cache key; a passthrough goes
\* straight to the original.
AcceptParam(p, u, header) ==
    /\ Free(p) /\ u.shape = "param" /\ u.flaws = {}
    /\ IF u.pass
         THEN /\ Arrive(p, u, "candidate", "origin")
              /\ Get(p, "origin", u.cands[1])
         ELSE /\ Arrive(p, u, "lookup", EffectiveReadClient(header))
              /\ Get(p, EffectiveReadClient(header), u.norm)
    /\ StoreUnchanged

-----------------------------------------------------------------------------
(* handleResize, and the rest of handleParams                              *)

\* Mutant: what was found is served as it is.
CandidateHitUnrendered(p) ==
    /\ Ready(p, {"candidate"}) /\ Got(p)
    /\ Respond(p, 200, call[p].data, FALSE)
    /\ StoreUnchanged

CandidateHit(p) ==
    /\ Ready(p, {"candidate"}) /\ Got(p)
    /\ IF req[p].url.pass
         THEN Respond(p, 200, call[p].data, FALSE)
         ELSE /\ req' = [req EXCEPT ![p] = [@ EXCEPT !.pc = "resize", !.obj = call[p].data]]
              /\ HangUp(p)
    /\ StoreUnchanged

\* Mutant: the last place is never tried.
CandidateMissStopsEarly(p) ==
    /\ Ready(p, {"candidate"}) /\ ~ Got(p)
    /\ IF req[p].idx + 1 < Len(req[p].url.cands)
         THEN TryCandidate(p, req[p].idx + 1)
         ELSE Respond(p, 404, Absent, FALSE)
    /\ StoreUnchanged

\* Mutant: the same place is tried again and again.
CandidateMissRetries(p) ==
    /\ Ready(p, {"candidate"}) /\ ~ Got(p)
    /\ TryCandidate(p, req[p].idx)
    /\ StoreUnchanged

\* Mutant: nobody answers after the last place.
CandidateMissUnanswered(p) ==
    /\ Ready(p, {"candidate"}) /\ ~ Got(p)
    /\ req[p].idx < Len(req[p].url.cands)
    /\ TryCandidate(p, req[p].idx + 1)
    /\ StoreUnchanged

\* Whatever the reason, the next place is tried; after the last, 404.
CandidateMiss(p) ==
    /\ Ready(p, {"candidate"}) /\ ~ Got(p)
    /\ IF req[p].idx < Len(req[p].url.cands)
         THEN TryCandidate(p, req[p].idx + 1)
         ELSE Respond(p, 404, Absent, FALSE)
    /\ StoreUnchanged

\* Mutant: the rendering is filed under the key the URL spells out.
ResizeFilesRaw(p) ==
    LET o == Render(req[p].obj, req[p].url.opts) IN
    /\ req[p].pc = "resize"
    /\ req' = [req EXCEPT ![p] = [@ EXCEPT !.pc = "put", !.put = 1, !.obj = o]]
    /\ PutTo(p, 1, req[p].url.raw, o)
    /\ StoreUnchanged

\* The original is rendered and the first write of putBoth begins.
Resize(p) ==
    LET o == Render(req[p].obj, req[p].url.opts) IN
    /\ req[p].pc = "resize"
    /\ req' = [req EXCEPT ![p] = [@ EXCEPT !.pc = "put", !.put = 1, !.obj = o]]
    /\ PutTo(p, 1, req[p].url.norm, o)
    /\ StoreUnchanged

\* The bytes cannot be decoded or encoded.
ResizeFails(p) ==
    /\ req[p].pc = "resize"
    /\ Respond(p, 500, Absent, FALSE)
    /\ StoreUnchanged

-----------------------------------------------------------------------------
(* handleFile                                                              *)

FileFetched(p) ==
    /\ Ready(p, {"file"}) /\ Got(p)
    /\ req' = [req EXCEPT ![p] = [@ EXCEPT !.pc = "put", !.put = 1, !.obj = call[p].data]]
    /\ PutTo(p, 1, req[p].url.raw, call[p].data)
    /\ StoreUnchanged

FileMissing(p) ==
    /\ Ready(p, {"file"}) /\ ~ Got(p)
    /\ Respond(p, 404, Absent, FALSE)
    /\ StoreUnchanged

-----------------------------------------------------------------------------
(* putBoth: a failed write is logged and the next one is made all the same *)

PutReturned(p) ==
    /\ Ready(p, {"put"})
    /\ IF req[p].put < Len(PutTargets)
         THEN /\ req' = [req EXCEPT ![p] = [@ EXCEPT !.put = req[p].put + 1,
                                                   !.clean = StillClean(p)]]
              /\ PutTo(p, req[p].put + 1, TargetKey(req[p].url), req[p].obj)
         ELSE Respond(p, 200, req[p].obj, TRUE)
    /\ StoreUnchanged

-----------------------------------------------------------------------------
Start(p) ==
    \E u \in Urls :
      \/ NoExtension(p, u)
      \/ RejectParam(p, u)
      \/ \E header \in {"none", "true", "false"} :
           Speculate(p, u, header) \/ AcceptParam(p, u, header)

Continue(p) ==
    \/ CacheHit(p) \/ SpeculateMiss(p) \/ RecheckMiss(p)
    \/ CandidateHit(p) \/ CandidateMiss(p) \/ Resize(p) \/ ResizeFails(p)
    \/ FileFetched(p) \/ FileMissing(p) \/ PutReturned(p)

\* The process dies and comes back, perhaps in another cache mode: requests in
\* flight are gone between any two of their S3 requests, the buckets stay.
Restart(m) ==
    /\ mode' = m
    /\ req' = [p \in Procs |-> NoReq]
    /\ call' = [p \in Procs |-> NoCall]
    /\ UNCHANGED <<bucket, catalog, faults>>

Init ==
    /\ StoreInit
    /\ req = [p \in Procs |-> NoReq]
    /\ mode \in Modes

Next ==
    \/ \E p \in Procs : Start(p) \/ Continue(p)
    \/ \E p \in Procs : S3Step(p) /\ UNCHANGED <<req, mode>>
    \/ \E k \in CatalogKeys : Publish(k) /\ UNCHANGED <<req, mode>>
    \/ \E m \in Modes : Restart(m)

\* A goroutine that can run runs, and S3 answers every request in the end, be
\* it with an error.
Fairness ==
    \A p \in Procs : WF_vars(Continue(p)) /\ WF_vars(S3Step(p) /\ UNCHANGED <<req, mode>>)

Spec == Init /\ [][Next]_vars

FairSpec == Spec /\ Fairness

-----------------------------------------------------------------------------
(* Properties                                                              *)

ImageUrls == {u \in Urls : \/ u.shape \in {"resize", "folder"}
                          \/ (u.shape = "param" /\ u.flaws = {} /\ ~ u.pass)}

FileUrls == {u \in Urls : u.shape = "file"}

OriginalKeys == CatalogKeys \union LegacyKeys

\* The keys under which a lookup of k may find its object.
Alias(k) == {k} \union IF Strip[k] = NoKey THEN {} ELSE {Strip[k]}

\* Key k, and the keys of the files that are copied to it.
FileOf(k) == {k} \union {u.cands[1] : u \in {v \in FileUrls : v.raw = k}}

\* The keys whose original may rightly be found under key k.
Origins(k) == UNION {Alias(j) : j \in FileOf(k)}

\* o is an untouched original that belongs under key k.
IsOriginalOf(k, o) == o.opts = AsIs /\ o.src \in Origins(k) \intersect OriginalKeys

\* o is the rendering that URL u asks for, of an original u may use.
RendersFor(u, o) ==
    /\ o.opts = u.opts
    /\ \E i \in DOMAIN u.cands : o.src \in Origins(u.cands[i]) \intersect OriginalKeys

\* What requests may store under key k.
OnDemand(k, o) ==
    IsOriginalOf(k, o) \/ \E u \in ImageUrls : u.norm = k /\ RendersFor(u, o)

Honest(k, o) == OnDemand(k, o) \/ o \in Prepared[k]

\* o is what URL u asks for.
Asked(u, o) ==
    \/ u \in ImageUrls /\ RendersFor(u, o)
    \/ u.shape # "param" /\ IsOriginalOf(u.raw, o)
    \/ u.shape = "other" /\ OnDemand(u.raw, o)
    \/ u.shape = "param" /\ u.pass /\ \E i \in DOMAIN u.cands : IsOriginalOf(u.cands[i], o)

\* A 200 carries what its URL asks for, or what a batch has prepared under the
\* key that the URL spells out.
Served(r) ==
    LET u == r.url  o == r.obj IN
    r.pc = "done" /\ r.status = 200 =>
      Asked(u, o) \/ (u.shape # "param" /\ o \in Prepared[u.raw])

\* What the key layout (UrlKeys) guarantees of the URLs: renderings are stored
\* where no original is looked for, one key stands for one rendering, and a
\* copied file is not itself copied on.
ASSUME LayoutAssumption ==
    /\ \A u \in ImageUrls :
         /\ Origins(u.norm) \intersect OriginalKeys = {}
         /\ u.opts # AsIs
         /\ \A v \in Urls : \A i \in DOMAIN v.cands : v.cands[i] # u.norm
         /\ \A v \in ImageUrls :
              u.norm \in {v.norm, v.raw} => u.opts = v.opts /\ u.cands = v.cands
         /\ \A v \in FileUrls : v.raw # u.norm
    /\ \A u \in FileUrls : Origins(u.cands[1]) \subseteq Origins(u.raw)

\* What batches make are renderings, under keys of the shape
\* client/version/images/products/width/height/name (processOutput): neither a
\* file, nor a candidate, nor a folder or processing-option rendering has one.
ASSUME PreparedAssumption ==
    /\ Prepared \in [Keys -> SUBSET Object]
    /\ \A k \in Keys : \A o \in Prepared[k] : o.opts # AsIs
    /\ \A u \in Urls : \A i \in DOMAIN u.cands : Prepared[u.cands[i]] = {}
    /\ \A u \in FileUrls : Prepared[u.raw] = {}
    /\ \A u \in ImageUrls : u.shape # "resize" => Prepared[u.norm] = {}

Stages == {"idle", "speculate", "recheck", "lookup", "candidate", "resize", "file", "put",
           "done"}

Statuses == {0, 200, 400, 403, 404, 500}

RequestRecord == [pc : Stages,
                  url : Urls \union {NoUrl},
                  reader : Clients,
                  idx : Nat \ {0},
                  obj : Maybe,
                  put : Nat,
                  status : Statuses,
                  fresh : BOOLEAN,
                  clean : BOOLEAN,
                  had : SUBSET Nat,
                  kept : BOOLEAN]

\* Every variable has its type.
TypeOK ==
    /\ StoreTypeOK
    /\ mode \in Modes
    /\ req \in [Procs -> RequestRecord]

\* Whatever is stored anywhere is what its key says: the bytes of an original
\* published under that key, or the rendering the key stands for of an original
\* at one of its candidate keys (or what a batch has prepared under it, where
\* batches run).  No interleaving of misses, copy-backs, half written pairs,
\* restarts and failures files anything under another's key (ServeHTTP,
\* handleResize, handleFile, handleParams, putBoth).
StoredIsHonest ==
    \A b \in Buckets, k \in Keys : bucket[b][k] # Absent => Honest(k, bucket[b][k])

\* A successful answer to an image URL is the rendering it asks for, unless the
\* URL spells out the key of an original and that original is served untouched;
\* a file or a passthrough is answered with the original itself.  Where batches
\* run, a URL that spells out one of their keys gets what they put there.
ServedAsAsked == \A p \in Procs : Served(req[p])

\* The cache bucket never receives an original, but for the files that are
\* copied on purpose: only the origin client migrates (main.go, s3.go Get).
CacheHoldsNoImageOriginal ==
    \A k \in Keys :
      bucket["cache"][k] # Absent /\ bucket["cache"][k].opts = AsIs
        => \E u \in FileUrls : u.raw = k

\* A request none of whose S3 calls failed is answered 404 only if none of the
\* places its original may be in held one, in the origin or the fallback bucket,
\* as it arrived.
CleanNotFoundIsTrue ==
    \A p \in Procs :
      req[p].pc = "done" /\ req[p].status = 404 /\ req[p].clean => req[p].had = {}

\* Such a request renders the best of the originals that existed as it arrived,
\* or a better one (originCandidateKeys: "in priority order").
CleanRenderUsesBest ==
    \A p \in Procs :
      /\ req[p].clean
      /\ req[p].pc \in {"resize", "put"} \/ (req[p].pc = "done" /\ req[p].fresh)
      => \A i \in req[p].had : req[p].idx <= i

\* When such a request is answered with a fresh rendering or file, the bucket in
\* off mode, and both buckets otherwise, hold something under its key: the next
\* request for the key is a hit wherever it reads (putBoth).
CleanMissPopulates ==
    \A p \in Procs :
      req[p].pc = "done" /\ req[p].fresh /\ req[p].clean =>
        /\ bucket["origin"][TargetKey(req[p].url)] # Absent
        /\ mode # "off" => bucket["cache"][TargetKey(req[p].url)] # Absent

\* The URLs that are rendered without a look at the key of the rendering: those
\* of a resize that leave its version out (ServeHTTP, the branch of resizeRegex).
NeverLookedUp(u) == u.shape = "resize" /\ u.norm # u.raw

\* Such a request never fetches, renders and writes again what its reader showed
\* as it arrived, in whichever of the lookups of its route: a stored variant is
\* served for as long as reads succeed, whatever the other bucket, other requests
\* and publications do.  The one exception is a resize URL without a version,
\* which is never looked up under its stored key (ServeHTTP, handleParams).
StoredIsNotRemade ==
    \A p \in Procs :
      /\ req[p].pc \in {"resize", "put"} \/ (req[p].pc = "done" /\ req[p].fresh)
      /\ req[p].clean /\ ~ NeverLookedUp(req[p].url)
      => ~ req[p].kept

\* Every request is answered, or dies with the process.
RequestEnds ==
    \A p \in Procs : (req[p].pc \notin {"idle", "done"}) ~> (req[p].pc \in {"idle", "done"})

-----------------------------------------------------------------------------
(* What the documents say, and the code does not always do.                *)

\* "The proxy never writes originals" (draft/architecture.md): the origin bucket
\* holds the version of an original that the catalogue published last.
OriginalsAreCurrent ==
    \A k \in CatalogKeys :
      catalog[k] > 0 => bucket["origin"][k] = Original(k, catalog[k])

\* 404: "Route disabled, source tail unrecognised, or the original is missing"
\* (README.md): a well-formed processing-option URL is answered 404 only if no
\* place its original may be in held one as the request arrived.
NotFoundIsTrue ==
    \A p \in Procs :
      /\ req[p].pc = "done" /\ req[p].status = 404
      /\ req[p].url.shape = "param" /\ req[p].url.flaws = {}
      => req[p].had = {}

\* "Because of dual-write, HOS retains a full copy of every resized variant"
\* (draft/tracks/split-origin-and-cache-buckets/spec.md): while no request is in
\* flight, the origin holds something under every key of the cache bucket.
OriginHasEveryVariant ==
    (\A p \in Procs : Free(p)) =>
      \A k \in Keys : bucket["cache"][k] # Absent => bucket["origin"][k] # Absent

-----------------------------------------------------------------------------
(* The inductive invariant behind StoredIsHonest and ServedAsAsked: what    *)
(* the calls and the requests in flight carry is honest too.                *)

\* What an S3 call, of a request or of a batch, brings back or carries belongs
\* under its key, only the origin client ever asks the fallback bucket, and only
\* a file is ever put untouched.
CallOK(c) ==
    /\ c.at # "idle" => c.op \in {"get", "exists", "put"} /\ c.key \in Keys
    /\ c.at \in {"fallback", "stripped"} => c.op # "put" /\ c.client = "origin"
    /\ c.at = "copyback" => c.op = "get" /\ c.client = "origin"
    /\ c.at = "stripped" => Strip[c.key] # NoKey
    /\ \/ c.at = "copyback"
       \/ c.op = "get" /\ c.at = "returned" /\ c.res = "ok"
       \/ c.op = "put" /\ c.at = "primary"
       => c.data \in Object /\ Honest(c.key, c.data)
    /\ c.op = "put" /\ c.at = "primary" /\ c.data.opts = AsIs
         => \E u \in FileUrls : u.raw = c.key

\* What a request r, with its S3 call c, waits for or holds at each point.  A
\* slot that serves no request may run a batch and have a call of that open.
ReqOK(r, c) ==
    LET u == r.url IN
    /\ r.pc # "idle" => u \in Urls
    /\ r.pc = "resize" => c.at = "idle"
    /\ r.pc \in {"speculate", "recheck", "lookup", "candidate", "file"} =>
         c.op = "get" /\ c.at # "idle"
    /\ r.pc = "speculate" => c.key = u.raw /\ u.shape \notin {"noext", "param"}
    /\ r.pc \in {"recheck", "lookup"} =>
         c.key = u.norm /\ u \in ImageUrls /\ u.shape # "resize"
    /\ r.pc = "candidate" =>
         /\ u \in ImageUrls \/ (u.shape = "param" /\ u.pass)
         /\ r.idx \in DOMAIN u.cands /\ c.key = u.cands[r.idx]
    /\ r.pc = "file" => u \in FileUrls /\ c.key = u.cands[1]
    /\ r.pc = "resize" =>
         /\ u \in ImageUrls /\ r.obj \in Object
         /\ \E i \in DOMAIN u.cands : IsOriginalOf(u.cands[i], r.obj)
    /\ r.pc = "put" =>
         /\ c.op = "put" /\ c.at # "idle" /\ r.put \in 1 .. 2 /\ r.obj \in Object
         /\ \/ u \in ImageUrls /\ RendersFor(u, r.obj)
            \/ u \in FileUrls /\ IsOriginalOf(u.raw, r.obj)

\* Nothing ever writes the fallback bucket.
LegacyIsOriginal ==
    \A k \in Keys : bucket["fallback"][k] # Absent =>
      k \in LegacyKeys /\ bucket["fallback"][k] = Original(k, 0)

\* Everything stored, in flight or served is honest, at once; each part needs
\* the others to survive a step (ServeHTTP, putBoth, Client.Get, Client.Put).
IInv ==
    /\ TypeOK
    /\ StoredIsHonest
    /\ LegacyIsOriginal
    /\ CacheHoldsNoImageOriginal
    /\ ServedAsAsked
    /\ \A p \in Procs : CallOK(call[p]) /\ ReqOK(req[p], call[p])
==============================================================================
